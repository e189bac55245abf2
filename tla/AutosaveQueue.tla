--------------------------- MODULE AutosaveQueue ---------------------------
(***************************************************************************)
(* Saving the cells of a form from a browser tab: the hook useEEAAutosave   *)
(* with retryOnFailure (apps/web/src/features/eea/hooks) and the route that *)
(* appends what it sends (apps/api/src/routes/eea2/events.ts).              *)
(*                                                                         *)
(* An edit is queued under its field path, where it replaces an edit of the *)
(* same field.  A debounce timer, a retry timer, the end of the previous    *)
(* request and flush() all run the queue; a request that fails goes back to *)
(* its head.  JavaScript runs one callback at a time, so each callback is a *)
(* step; the network and the server act between them.                       *)
(***************************************************************************)
EXTENDS Naturals, Sequences, FiniteSets, SequencesExt

CONSTANTS
    Cells,      \* field paths
    Failures,   \* how a request can fail besides being aborted
    Repeats,    \* may a caller hand in one event twice?  No form does.
    MaxCalls,   \* bound on the calls of autosave()
    NoEvent     \* a value that is no event

ASSUME FailuresAssumption == Failures \subseteq {"refused", "unacknowledged"}
ASSUME RepeatsAssumption == Repeats \in BOOLEAN
ASSUME MaxCallsAssumption == MaxCalls \in Nat

\* An event carries a fresh eventId: it is known by the call that first made it.
Event == [cell : Cells, n : 1..MaxCalls]

ASSUME NoEventAssumption == NoEvent \notin Event

VARIABLES
    queue,          \* retryQueueReference: items waiting to be sent
    retryInFlight,  \* the event of retryInFlightReference, or NoEvent
    requests,       \* requests the network has not answered
    debounce,       \* is timeoutReference armed?
    retryTimer,     \* is retryTimerReference armed?
    isSaving,       \* what the user is shown
    lastSaved,      \* lastSuccessfulHashReference
    lastOk,         \* is lastResultReference a success?
    calls,          \* history: calls of autosave() and what their promises became
    splitEdited,    \* history: cells edited while the queue held them twice
    mounted,        \* is the component on screen?
    store           \* the events the server appended, in order

hook == <<queue, retryInFlight, requests, debounce, retryTimer, isSaving, lastSaved, lastOk>>
vars == <<hook, calls, splitEdited, mounted, store>>

----------------------------------------------------------------------------
\* The waiting of a RetryQueueItem names the calls whose promises it will resolve.
Resolve(waiters, answer) ==
    [c \in DOMAIN calls |->
        IF c \in waiters /\ calls[c].answer = "waiting"
          THEN [calls[c] EXCEPT !.answer = answer] ELSE calls[c]]

Coalesce(item, event, c) == [event |-> event, waiting |-> item.waiting \cup {c}]

\* The first queued item of the cell takes the new event; otherwise it is queued.
Enqueue(event, c) ==
    LET ofCell == {i \in DOMAIN queue : queue[i].event.cell = event.cell}
    IN  \/ /\ ofCell = {}
           /\ queue' = Append(queue, [event |-> event, waiting |-> {c}])
        \/ \E i \in ofCell :
              /\ \A j \in ofCell : i <= j
              /\ queue' = [queue EXCEPT ![i] = Coalesce(@, event, c)]

Requeue(item) == <<item>> \o queue

Busy(inFlight) == inFlight # NoEvent

\* runRetryQueue, entered with queue q, retryInFlightReference busy, the
\* unanswered requests open and the retry timer as given.
RunRetryQueue(q, inFlight, open, timer) ==
    \/ /\ Busy(inFlight)
       /\ queue' = q /\ retryInFlight' = inFlight /\ requests' = open
       /\ retryTimer' = timer
       /\ UNCHANGED isSaving
    \/ /\ ~Busy(inFlight) /\ q = <<>>
       /\ queue' = q /\ retryInFlight' = inFlight /\ requests' = open
       /\ retryTimer' = timer
       /\ isSaving' = FALSE
    \/ /\ ~Busy(inFlight) /\ q # <<>>
       /\ queue' = Tail(q)
       /\ retryInFlight' = Head(q).event
       /\ requests' = open \cup {[item |-> Head(q), aborted |-> FALSE]}
       /\ retryTimer' = FALSE
       /\ isSaving' = TRUE

----------------------------------------------------------------------------
Init ==
    /\ queue = <<>>
    /\ retryInFlight = NoEvent
    /\ requests = {}
    /\ debounce = FALSE
    /\ retryTimer = FALSE
    /\ isSaving = FALSE
    /\ lastSaved = NoEvent
    /\ lastOk = FALSE
    /\ calls = <<>>
    /\ splitEdited = {}
    /\ mounted = TRUE
    /\ store = <<>>

JoinsInFlight_SameCell(event) == Busy(retryInFlight) /\ retryInFlight.cell = event.cell

JoinsInFlight(event) == retryInFlight = event

AlreadySaved(event) == lastSaved = event /\ lastOk

\* The queue holds two items of the cell: one that failed, and one made meanwhile.
Split(cell) == Cardinality({i \in DOMAIN queue : queue[i].event.cell = cell}) > 1

\* autosave(event) of a valid event.
Autosave(event) ==
    LET c == Len(calls) + 1
        Called(answer) == calls' = Append(calls, [event |-> event, answer |-> answer])
    IN
    /\ mounted /\ c <= MaxCalls
    /\ splitEdited' = splitEdited \cup (IF Split(event.cell) THEN {event.cell} ELSE {})
    /\ UNCHANGED <<retryInFlight, retryTimer, lastSaved, lastOk, mounted, store>>
    /\ \/ AlreadySaved(event) /\ Called("saved") /\ UNCHANGED hook
       \/ /\ ~AlreadySaved(event) /\ JoinsInFlight(event)
          /\ Called("waiting")
          /\ requests' = {IF r.item.event = retryInFlight
                            THEN [r EXCEPT !.item = Coalesce(@, event, c)] ELSE r : r \in requests}
          /\ UNCHANGED <<queue, debounce, isSaving>>
       \/ /\ ~AlreadySaved(event) /\ ~JoinsInFlight(event)
          /\ Called("waiting")
          /\ Enqueue(event, c)
          /\ isSaving' = TRUE
          /\ debounce' = TRUE
          /\ UNCHANGED requests

\* A cell loses focus with a new value.
EditCell(cell) == Autosave([cell |-> cell, n |-> Len(calls) + 1])

\* The caller hands in the event of its previous call once more.
RepeatEdit == Repeats /\ calls # <<>> /\ Autosave(calls[Len(calls)].event)

DebounceTimer ==
    /\ debounce /\ debounce' = FALSE
    /\ RunRetryQueue(queue, retryInFlight, requests, retryTimer)
    /\ UNCHANGED <<lastSaved, lastOk, calls, splitEdited, mounted, store>>

RetryTimer ==
    /\ retryTimer
    /\ RunRetryQueue(queue, retryInFlight, requests, FALSE)
    /\ UNCHANGED <<debounce, lastSaved, lastOk, calls, splitEdited, mounted, store>>

Flush ==
    /\ mounted
    /\ debounce' = FALSE
    /\ RunRetryQueue(queue, retryInFlight, requests, FALSE)
    /\ UNCHANGED <<lastSaved, lastOk, calls, splitEdited, mounted, store>>

\* eventId is the primary key of eea_events: a second append of it fails.
Appended(event) == event \in ToSet(store)

ContinuesWith_Nothing(q) == FALSE

ContinuesWith(q) == q # <<>>

\* The event is appended and the tab learns of it.
Accepted(r) ==
    /\ ~r.aborted /\ ~Appended(r.item.event)
    /\ store' = Append(store, r.item.event)
    /\ lastSaved' = r.item.event
    /\ lastOk' = TRUE
    /\ calls' = Resolve(r.item.waiting, "saved")
    /\ \/ /\ ContinuesWith(queue)
          /\ RunRetryQueue(queue, NoEvent, requests \ {r}, retryTimer)
       \/ /\ ~ContinuesWith(queue)
          /\ retryInFlight' = NoEvent
          /\ requests' = requests \ {r}
          /\ isSaving' = FALSE
          /\ UNCHANGED <<queue, retryTimer>>
    /\ UNCHANGED <<debounce, splitEdited, mounted>>

RetryAfterFailure == TRUE

\* The request fails: the server refused it or never got it, or it appended the
\* event and the answer got lost.
Failed(r) ==
    /\ \/ UNCHANGED store /\ (r.aborted \/ Appended(r.item.event) \/ "refused" \in Failures)
       \/ /\ r.aborted \/ "unacknowledged" \in Failures
          /\ ~Appended(r.item.event)
          /\ store' = Append(store, r.item.event)
    /\ requests' = requests \ {r}
    /\ retryInFlight' = NoEvent
    /\ lastOk' = FALSE
    /\ queue' = Requeue(r.item)
    /\ retryTimer' = RetryAfterFailure
    /\ isSaving' = TRUE
    /\ UNCHANGED <<debounce, lastSaved, calls, splitEdited, mounted>>

\* The component is unmounted: cancel() runs as the clean-up of its effect.
Cancel ==
    /\ mounted
    /\ mounted' = FALSE
    /\ debounce' = FALSE
    /\ retryTimer' = FALSE
    /\ requests' = {[r EXCEPT !.aborted = TRUE] : r \in requests}
    /\ calls' = Resolve(UNION ({i.waiting : i \in ToSet(queue)}
                               \cup {r.item.waiting : r \in {s \in requests :
                                                       s.item.event = retryInFlight}}),
                        "cancelled")
    /\ queue' = <<>>
    /\ retryInFlight' = NoEvent
    /\ isSaving' = FALSE
    /\ UNCHANGED <<lastSaved, lastOk, splitEdited, store>>

\* The user may stop editing; after that nothing has to happen.
Idle == requests = {} /\ ~debounce /\ ~retryTimer /\ UNCHANGED vars

Next ==
    \/ \E cell \in Cells : EditCell(cell)
    \/ RepeatEdit
    \/ DebounceTimer \/ RetryTimer \/ Flush
    \/ \E r \in requests : Accepted(r) \/ Failed(r)
    \/ Cancel
    \/ Idle

Spec == Init /\ [][Next]_vars

\* Timers fire, every request is answered in the end, and a server that is tried
\* again and again does not refuse for ever.
Fairness ==
    /\ WF_vars(DebounceTimer)
    /\ WF_vars(RetryTimer)
    /\ WF_vars(\E r \in requests : Accepted(r) \/ Failed(r))
    /\ SF_vars(\E r \in requests : Accepted(r))

FairSpec == Spec /\ Fairness

----------------------------------------------------------------------------
(* Properties *)

\* A promise that reported success can be relied on: the server has that edit, or a later
\* edit of the same cell that took its place in the queue. When the tab stops showing
\* "Saving", every edit made so far has been reported saved; and never are two requests
\* out, though two timers, flush and the end of a request all start them.
SavedMeansStored ==
    /\ \A c \in DOMAIN calls :
          calls[c].answer = "saved" =>
              \E e \in ToSet(store) : e.cell = calls[c].event.cell /\ e.n >= calls[c].event.n
    /\ mounted /\ ~isSaving => \A c \in DOMAIN calls : calls[c].answer = "saved"
    /\ Cardinality(requests) <= 1
    /\ mounted => (Busy(retryInFlight) <=> requests # {})

\* The value the server replays for a cell, the last one appended, is the newest
\* edit of the cell once the tab has stopped showing "Saving".
NewestAppendedLast(cell) ==
    LET made     == {calls[c].event.n : c \in {d \in DOMAIN calls : calls[d].event.cell = cell}}
        appended == {i \in DOMAIN store : store[i].cell = cell}
    IN  made # {} => appended # {} /\ store[Max(appended)].n = Max(made)

NewestWins == mounted /\ ~isSaving => \A cell \in Cells : NewestAppendedLast(cell)

\* Refusals, retries and coalescing leave the newest edit last in every case but
\* one: an edit of a cell that the queue held twice went into the item in front.
NewestWinsUnlessSplit ==
    mounted /\ ~isSaving => \A cell \in Cells \ splitEdited : NewestAppendedLast(cell)

\* The head of the queue was appended already, its acknowledgement lost: the
\* server refuses it for ever, and everything behind it waits.
Blocked ==
    \/ queue # <<>> /\ Appended(queue[1].event)
    \/ \E r \in requests : Appended(r.item.event)

\* Every promise is settled in the end, and the tab stops showing "Saving",
\* unless an acknowledgement was lost.
EveryCallIsAnswered ==
    /\ \A c \in 1..MaxCalls :
          (c \in DOMAIN calls /\ calls[c].answer = "waiting")
              ~> (Blocked \/ (c \in DOMAIN calls /\ calls[c].answer # "waiting"))
    /\ (isSaving /\ mounted) ~> (Blocked \/ ~isSaving \/ ~mounted)
=============================================================================
