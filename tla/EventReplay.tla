----------------------------- MODULE EventReplay -----------------------------
(***************************************************************************)
(* What is made of the stored events (apps/api/src/event-store): the        *)
(* snapshot of a form at one of its events, which the drawer of the audit   *)
(* panel asks for, and the projection of a tenant's events into its draft,  *)
(* which the jobs of the sync worker rebuild.                               *)
(*                                                                         *)
(* An event gets its createdAt when it is inserted and is seen by others    *)
(* when its transaction commits, which may be in another order. A tick of   *)
(* the clock is a millisecond, and may bring several events.                *)
(*                                                                         *)
(* A state is kept as its leaves: a function from paths to values. The      *)
(* value that an event writes is named by the id of the event.              *)
(***************************************************************************)
EXTENDS Integers, Sequences, SequencesExt, FiniteSets, Functions

CONSTANTS
    Forms,      \* formIds of one tenant
    Paths,      \* field paths, as non-empty sequences of segments
    FormKinds,  \* the event types without a field path
    Jobs,       \* projection jobs that may run at a time (concurrency)
    MaxEvents,  \* bound on the events
    MaxTime,    \* bound on the clock
    MaxReads,   \* bound on the snapshots looked at and the projections begun
    Undefined

VARIABLES
    now,        \* the clock
    inserted,   \* events whose transaction is open
    log,        \* eeaEvent, in the order of the commits
    drawer,     \* the drawer of the panel, or Undefined when it is closed
    jobs,       \* what each running job read, or Undefined
    draft,      \* the projection, or Undefined before the first
    reads       \* the snapshots looked at and projections begun so far, counted

vars == <<now, inserted, log, drawer, jobs, draft, reads>>

Created(e) == e.kind = "FORM_CREATED"
Updated(e) == e.kind = "FIELD_UPDATED"

----------------------------------------------------------------------------
(* Folding events *)

\* A leaf above the path gives way to an object, and the value replaces what is below it.
SetPath(state, path, value) ==
    LET kept == {p \in DOMAIN state : ~IsPrefix(p, path) /\ ~IsPrefix(path, p)}
    IN [p \in kept \cup {path} |-> IF p = path THEN value ELSE state[p]]

Apply(state, e) ==
    CASE Created(e) -> << >>
      [] Updated(e) -> SetPath(state, e.path, e.id)
      [] OTHER      -> state

Fold(events) == FoldLeft(Apply, << >>, events)

\* orderBy createdAt: nothing is said of events of the same millisecond.
ByCreatedAt_NewestFirst(events) ==
    {s \in SetToSeqs(events) : \A i, j \in DOMAIN s : i < j => s[i].at >= s[j].at}

ByCreatedAt(events) ==
    {s \in SetToSeqs(events) : \A i, j \in DOMAIN s : i < j => s[i].at <= s[j].at}

----------------------------------------------------------------------------
Init ==
    /\ now = 1 /\ inserted = {} /\ log = << >> /\ reads = 0
    /\ drawer = Undefined /\ draft = Undefined
    /\ jobs = [j \in Jobs |-> Undefined]

\* Only a tick between two events can be told.
Tick ==
    /\ now < MaxTime /\ now' = now + 1
    /\ Len(log) + Cardinality(inserted) \in 1..(MaxEvents - 1)
    /\ UNCHANGED <<inserted, log, drawer, jobs, draft, reads>>

\* EventEmitter.append, in a transaction of its own.
Insert(form, kind, path) ==
    LET id == Len(log) + Cardinality(inserted) + 1
    IN /\ id <= MaxEvents
       /\ inserted' = inserted \cup
             {[id |-> id, form |-> form, kind |-> kind, path |-> path, at |-> now]}
       /\ UNCHANGED <<now, log, drawer, jobs, draft, reads>>

Commit(e) ==
    /\ inserted' = inserted \ {e}
    /\ log' = Append(log, e)
    /\ UNCHANGED <<now, drawer, jobs, draft, reads>>

----------------------------------------------------------------------------
(* The snapshot of a form at one of its events *)

Asks == reads < MaxReads /\ reads' = reads + 1

\* The panel mounts the drawer, which posts its event at once.
View(e) ==
    /\ drawer = Undefined /\ Asks
    /\ drawer' = [header |-> e, asked |-> e, answer |-> Undefined, seen |-> 0]
    /\ UNCHANGED <<now, inserted, log, jobs, draft>>

Replayed_Before(target) ==
    {e \in Range(log) : e.form = target.form /\ e.at < target.at}

\* replayTo: the events of the form up to createdAt of the target.
Replayed(target) ==
    {e \in Range(log) : e.form = target.form /\ e.at <= target.at}

Replay ==
    /\ drawer # Undefined /\ drawer.asked # Undefined /\ drawer.answer = Undefined
    /\ \E events \in ByCreatedAt(Replayed(drawer.asked)) :
          drawer' = [drawer EXCEPT !.answer = Fold(events), !.seen = Len(log)]
    /\ UNCHANGED <<now, inserted, log, jobs, draft, reads>>

\* The buttons of the list below the drawer stay within reach of the keyboard. The request
\* that runs is aborted, and a drawer that was open already asks for nothing.
Switch(e) ==
    /\ drawer # Undefined /\ e # drawer.header /\ Asks
    /\ drawer' = [drawer EXCEPT !.header = e,
                                !.asked = IF drawer.answer = Undefined THEN Undefined ELSE @]
    /\ UNCHANGED <<now, inserted, log, jobs, draft>>

\* An answer that is not a snapshot leaves an error in its place.
ReplayFails ==
    /\ drawer # Undefined /\ drawer.asked # Undefined /\ drawer.answer = Undefined
    /\ drawer' = [drawer EXCEPT !.asked = Undefined]
    /\ UNCHANGED <<now, inserted, log, jobs, draft, reads>>

Close ==
    /\ drawer # Undefined /\ drawer' = Undefined
    /\ UNCHANGED <<now, inserted, log, jobs, draft, reads>>

----------------------------------------------------------------------------
(* The projection *)

\* build reads the events of every EEA2 of the tenant, whatever its form and its year.
ReadEvents(j) ==
    /\ jobs[j] = Undefined /\ Asks
    /\ \E events \in ByCreatedAt(Range(log)) :
          jobs' = [jobs EXCEPT ![j] =
              [state |-> Fold(events), seen |-> Len(log), began |-> draft,
               lastEventId |-> IF events = << >> THEN Undefined ELSE Last(events).id]]
    /\ UNCHANGED <<now, inserted, log, drawer, draft>>

\* The upsert replaces what the draft had, whoever wrote it and however new it was.
Upsert(j) ==
    /\ jobs[j] # Undefined
    /\ draft' = [state |-> jobs[j].state, lastEventId |-> jobs[j].lastEventId,
                 seen |-> jobs[j].seen,
                 alone |-> jobs[j].began = draft /\ \A k \in Jobs \ {j} : jobs[k] = Undefined]
    /\ jobs' = [jobs EXCEPT ![j] = Undefined]
    /\ UNCHANGED <<now, inserted, log, drawer, reads>>

\* Its transaction is undone; the queue is given no attempts beyond the first.
JobFails(j) ==
    /\ jobs[j] # Undefined /\ jobs' = [jobs EXCEPT ![j] = Undefined]
    /\ UNCHANGED <<now, inserted, log, drawer, draft, reads>>

Next ==
    \/ Tick
    \/ \E f \in Forms :
          \/ \E p \in Paths : Insert(f, "FIELD_UPDATED", p)
          \/ \E kind \in FormKinds : Insert(f, kind, Undefined)
    \/ \E e \in inserted : Commit(e)
    \/ \E e \in Range(log) : View(e) \/ Switch(e)
    \/ Replay \/ ReplayFails \/ Close
    \/ \E j \in Jobs : ReadEvents(j) \/ Upsert(j) \/ JobFails(j)

Spec == Init /\ [][Next]_vars

----------------------------------------------------------------------------
(* Properties *)

Undoes(e, path) ==
    Created(e) \/ (Updated(e) /\ (IsPrefix(e.path, path) \/ IsPrefix(path, e.path)))

\* state has exactly what the events left: a value of an event that no later one undid,
\* and that of every event that none of its millisecond or later undid.
Materialises(state, events) ==
    /\ \A p \in DOMAIN state :
          \E e \in events : /\ Updated(e) /\ e.path = p /\ e.id = state[p]
                            /\ \A x \in events \ {e} : Undoes(x, p) => x.at <= e.at
    /\ \A e \in events :
          Updated(e) /\ (\A x \in events \ {e} : Undoes(x, e.path) => x.at < e.at)
              => e.path \in DOMAIN state /\ state[e.path] = e.id

Committed(n) == {log[i] : i \in 1..n}

\* The events of the header's form that may be in its snapshot.
Answered == drawer # Undefined /\ drawer.answer # Undefined /\ drawer.header = drawer.asked
OfTheForm == {e \in Committed(drawer.seen) : e.form = drawer.header.form}

\* The snapshot below a header is what the form's events up to and including the one of the
\* header left, as far as was committed when it was replayed - unless another event of the
\* form shares the millisecond of the header's, or the user went to another event while the
\* drawer was open (replay.ts, SnapshotDrawer.tsx).
SnapshotIsOfItsMoment ==
    Answered /\ (\A e \in OfTheForm \ {drawer.header} : e.at # drawer.header.at) =>
        Materialises(drawer.answer,
                     {drawer.header} \cup {e \in OfTheForm : e.at < drawer.header.at})

\* "Replays the EEA2 event stream up to (and including) the specified event"
\* (routes/eea2/events.ts): no value is of an event inserted after the header's.
SnapshotStopsAtItsEvent ==
    Answered => \A p \in DOMAIN drawer.answer : drawer.answer[p] <= drawer.header.id

\* What a projection is written with: what the events of the tenant left at one moment, and
\* an event that none came after; the moment is an earlier one only when two jobs overlapped.
FollowsTheLog ==
    LET events == Committed(draft'.seen)
    IN /\ Materialises(draft'.state, events)
       /\ IF events = {} THEN draft'.lastEventId = Undefined
          ELSE \E e \in events : e.id = draft'.lastEventId /\ \A x \in events : x.at <= e.at
       /\ draft'.alone /\ draft # Undefined => draft'.seen >= draft.seen

\* Every projection follows the log (projection-builder.ts, sync-worker.ts).
ProjectionFollowsTheLog == [][draft' # draft => FollowsTheLog]_draft
=============================================================================
