------------------------ MODULE AutosaveQueueProofs ------------------------
(***************************************************************************)
(* Theorems about AutosaveQueue for any cells, any number of edits and any  *)
(* way a request can fail.                                                  *)
(***************************************************************************)
EXTENDS AutosaveQueue, SequenceTheorems, FiniteSetTheorems, TLAPS

(***************************************************************************)
(* The inductive invariant.                                                 *)
(***************************************************************************)
Item == [event : Event, waiting : SUBSET Nat]
Request == [item : Item, aborted : BOOLEAN]
Call == [event : Event, answer : {"waiting", "saved", "cancelled"}]

TypesInv ==
    /\ queue \in Seq(Item)
    /\ retryInFlight \in Event \cup {NoEvent}
    /\ requests \subseteq Request
    /\ debounce \in BOOLEAN /\ retryTimer \in BOOLEAN /\ isSaving \in BOOLEAN
    /\ lastSaved \in Event \cup {NoEvent} /\ lastOk \in BOOLEAN
    /\ calls \in Seq(Call) /\ Len(calls) <= MaxCalls
    /\ mounted \in BOOLEAN
    /\ store \in Seq(Event)

\* One request at most is out, of the event in flight. After an unmount it may be out
\* although none is in flight, and then nothing runs the queue before it has failed.
OneInv ==
    /\ \A r, s \in requests : r = s
    /\ \A r \in requests : Busy(retryInFlight) => r.item.event = retryInFlight
    /\ Busy(retryInFlight) => requests # {}
    /\ ~Busy(retryInFlight) /\ requests # {} =>
          ~mounted /\ queue = <<>> /\ ~debounce /\ ~retryTimer

\* What waits to be sent or is out.
IsPending(item) ==
    \/ \E i \in DOMAIN queue : queue[i] = item
    \/ \E r \in requests : r.item = item

Made(event, cs) == \E c \in DOMAIN cs : cs[c].event = event

\* The calls are made in the order of their events, and no event is made up.
MadeInv ==
    /\ \A c, d \in DOMAIN calls : c <= d => calls[c].event.n <= calls[d].event.n
    /\ \A c \in DOMAIN calls : calls[c].event.n <= c
    /\ \A item \in Item : IsPending(item) => Made(item.event, calls)
    /\ \A i \in DOMAIN store : Made(store[i], calls)

\* Whoever waits for an item waits for an edit of its cell, as new as the own one.
Serves(item) ==
    \A c \in item.waiting :
        /\ c \in DOMAIN calls
        /\ calls[c].event.cell = item.event.cell /\ calls[c].event.n <= item.event.n

Stored(event, st) == \E i \in DOMAIN st : st[i].cell = event.cell /\ st[i].n >= event.n

SavedInv ==
    /\ \A item \in Item : IsPending(item) => Serves(item)
    /\ Busy(lastSaved) => \E i \in DOMAIN store : store[i] = lastSaved
    /\ \A c \in DOMAIN calls : calls[c].answer = "saved" => Stored(calls[c].event, store)

\* While the component is on screen nobody who waits is forgotten.
AnswerInv ==
    mounted =>
        /\ \A c \in DOMAIN calls :
              /\ calls[c].answer # "cancelled"
              /\ calls[c].answer = "waiting" =>
                    \E item \in Item : IsPending(item) /\ c \in item.waiting
        /\ ~isSaving => queue = <<>> /\ requests = {}

Newest(event, cs) ==
    /\ Made(event, cs)
    /\ \A c \in DOMAIN cs : cs[c].event.cell = event.cell => cs[c].event.n <= event.n

\* The newest edit of a cell is the last one that is queued, or else the one that is out,
\* or else the last one appended.
NewestIsLast(cell) ==
    LET waits == {i \in DOMAIN queue : queue[i].event.cell = cell}
        out   == {r \in requests : r.item.event.cell = cell}
        done  == {i \in DOMAIN store : store[i].cell = cell}
    IN  /\ \A i \in waits : (\A j \in waits : j <= i) => Newest(queue[i].event, calls)
        /\ waits = {} => \A r \in out : Newest(r.item.event, calls)
        /\ waits = {} /\ out = {} /\ (\E c \in DOMAIN calls : calls[c].event.cell = cell) =>
              \E i \in done : (\A j \in done : j <= i) /\ Newest(store[i], calls)

NewestInv == mounted => \A cell \in Cells \ splitEdited : NewestIsLast(cell)

IInv == TypesInv /\ OneInv /\ MadeInv /\ SavedInv /\ AnswerInv /\ NewestInv

----------------------------------------------------------------------------
(* What the steps share *)

LEMMA Elements ==
    ASSUME TypesInv
    PROVE  /\ Len(queue) \in Nat /\ DOMAIN queue = 1..Len(queue)
           /\ \A i \in DOMAIN queue : queue[i] \in Item
           /\ Len(store) \in Nat /\ DOMAIN store = 1..Len(store)
           /\ \A i \in DOMAIN store : store[i] \in Event
           /\ Len(calls) \in Nat /\ DOMAIN calls = 1..Len(calls)
           /\ \A c \in DOMAIN calls : calls[c] \in Call
           /\ \A r \in requests : r \in Request /\ r.item \in Item
  BY DEF TypesInv, Request

\* Settling promises leaves the calls and what is newest as they are.
SameEvents ==
    /\ DOMAIN calls' = DOMAIN calls
    /\ \A c \in DOMAIN calls : calls'[c].event = calls[c].event

LEMMA SameNewest ==
    ASSUME SameEvents, NEW event
    PROVE  /\ Made(event, calls') <=> Made(event, calls)
           /\ Newest(event, calls') <=> Newest(event, calls)
  <1>1. Made(event, calls') <=> Made(event, calls)
    BY DEF Made, SameEvents
  <1>2. QED
    BY <1>1 DEF Newest, SameEvents

LEMMA Resolved ==
    ASSUME TypesInv, NEW waiters, NEW answer \in {"saved", "cancelled"},
           calls' = Resolve(waiters, answer)
    PROVE  /\ calls' \in Seq(Call) /\ Len(calls') = Len(calls)
           /\ SameEvents
           /\ \A c \in DOMAIN calls :
                 calls'[c].answer = IF c \in waiters /\ calls[c].answer = "waiting"
                                      THEN answer ELSE calls[c].answer
  <1>1. Len(calls) \in Nat /\ DOMAIN calls = 1..Len(calls) /\ \A c \in DOMAIN calls : calls[c] \in Call
    BY Elements
  <1>2. DOMAIN calls' = DOMAIN calls
    BY DEF Resolve
  <1>3. ASSUME NEW c \in DOMAIN calls
        PROVE  /\ calls'[c] \in Call /\ calls'[c].event = calls[c].event
               /\ calls'[c].answer = IF c \in waiters /\ calls[c].answer = "waiting"
                                      THEN answer ELSE calls[c].answer
    <2>1. calls'[c] = IF c \in waiters /\ calls[c].answer = "waiting"
                        THEN [calls[c] EXCEPT !.answer = answer] ELSE calls[c]
      BY DEF Resolve
    <2>2. calls[c] \in Call
      BY <1>1
    <2>3. QED
      BY <2>1, <2>2 DEF Call
  <1>4. calls' = [c \in 1..Len(calls) |-> calls'[c]]
    BY <1>1 DEF Resolve
  <1>5. calls' \in Seq(Call) /\ Len(calls') = Len(calls)
    BY <1>1, <1>3, <1>4
  <1>6. QED
    BY <1>2, <1>3, <1>5 DEF SameEvents

\* A request takes the head of the queue with it.
Sends ==
    /\ queue # <<>> /\ queue' = Tail(queue)
    /\ requests' = {[item |-> Head(queue), aborted |-> FALSE]}
    /\ retryInFlight' = Head(queue).event

LEMMA Sent ==
    ASSUME TypesInv, Sends
    PROVE  /\ queue' \in Seq(Item) /\ requests' \subseteq Request /\ retryInFlight' \in Event
           /\ DOMAIN queue' = 1..(Len(queue) - 1) /\ Len(queue) \in Nat /\ DOMAIN queue = 1..Len(queue)
           /\ \A i \in DOMAIN queue' : i + 1 \in DOMAIN queue /\ queue'[i] = queue[i + 1]
           /\ 1 \in DOMAIN queue
           /\ \A r \in requests' : r.item = queue[1] /\ r.item.event = retryInFlight'
           /\ \A item : IsPending(item)' <=> \E i \in DOMAIN queue : queue[i] = item
  <1>1. Len(queue) \in Nat /\ DOMAIN queue = 1..Len(queue) /\ \A i \in DOMAIN queue : queue[i] \in Item
    BY Elements
  <1>2. queue \in Seq(Item) /\ queue # <<>>
    BY DEF TypesInv, Sends
  <1>3. 1 \in DOMAIN queue /\ Head(queue) = queue[1] /\ Head(queue) \in Item
    BY <1>1, <1>2, EmptySeq
  <1>4. /\ queue' \in Seq(Item) /\ Len(queue') = Len(queue) - 1
        /\ \A i \in 1..(Len(queue) - 1) : queue'[i] = queue[i + 1]
    BY <1>2, HeadTailProperties DEF Sends
  <1>5. DOMAIN queue' = 1..(Len(queue) - 1)
    BY <1>4
  <1>6. \A i \in 1..(Len(queue) - 1) : i + 1 \in DOMAIN queue
    BY <1>1
  <1>7. \A r \in requests' : r.item = queue[1] /\ r.item.event = retryInFlight'
    BY <1>3 DEF Sends
  <1>8. requests' \subseteq Request /\ requests' # {}
    BY <1>3 DEF Sends, Request
  <1>9. retryInFlight' \in Event
    BY <1>3 DEF Sends, Item
  <1>10. ASSUME NEW item PROVE IsPending(item)' <=> \E i \in DOMAIN queue : queue[i] = item
    <2>1. IsPending(item)' => \E i \in DOMAIN queue : queue[i] = item
      BY <1>3, <1>4, <1>5, <1>6, <1>7 DEF IsPending
    <2>2. ASSUME NEW i \in DOMAIN queue, queue[i] = item PROVE IsPending(item)'
      <3>1. CASE i = 1
        BY <1>7, <1>8, <2>2, <3>1 DEF IsPending
      <3>2. CASE i # 1
        <4>1. i - 1 \in DOMAIN queue' /\ (i - 1) + 1 = i
          BY <1>1, <1>5, <3>2
        <4>2. queue'[i - 1] = item
          BY <1>4, <1>5, <2>2, <4>1
        <4>3. QED
          BY <4>1, <4>2 DEF IsPending
      <3>3. QED
        BY <3>1, <3>2
    <2>3. QED
      BY <2>1, <2>2
  <1>11. QED
    BY <1>1, <1>3, <1>4, <1>5, <1>6, <1>7, <1>8, <1>9, <1>10

\* The newest edit stays last when the head of the queue is sent.
LEMMA SentNewest ==
    ASSUME TypesInv, Sends, SameEvents, NEW cell, NewestIsLast(cell),
           {i \in DOMAIN queue : queue[i].event.cell = cell} = {} =>
              ((\E c \in DOMAIN calls : calls[c].event.cell = cell) =>
                 \E i \in DOMAIN store' :
                    /\ store'[i].cell = cell /\ Newest(store'[i], calls)
                    /\ \A j \in DOMAIN store' : store'[j].cell = cell => j <= i)
    PROVE  NewestIsLast(cell)'
  <1> DEFINE waits == {i \in DOMAIN queue : queue[i].event.cell = cell}
  <1>1. /\ DOMAIN queue' = 1..(Len(queue) - 1) /\ Len(queue) \in Nat /\ DOMAIN queue = 1..Len(queue)
        /\ \A i \in DOMAIN queue' : i + 1 \in DOMAIN queue /\ queue'[i] = queue[i + 1]
        /\ 1 \in DOMAIN queue
        /\ \A r \in requests' : r.item = queue[1]
    BY Sent
  <1>2. \A i \in waits : (\A j \in waits : j <= i) => Newest(queue[i].event, calls)
    BY DEF NewestIsLast
  <1>3. ASSUME NEW i \in waits' , \A j \in waits' : j <= i
        PROVE  Newest(queue'[i].event, calls')
    <2>1. i + 1 \in waits /\ queue'[i] = queue[i + 1] /\ i \in Nat
      BY <1>1
    <2>2. ASSUME NEW j \in waits PROVE j <= i + 1
      <3>1. CASE j = 1
        BY <2>1, <3>1
      <3>2. CASE j # 1
        <4>1. j - 1 \in DOMAIN queue' /\ (j - 1) + 1 = j
          BY <1>1, <3>2
        <4>2. queue'[j - 1] = queue[j]
          BY <1>1, <4>1
        <4>3. j - 1 \in waits'
          BY <4>1, <4>2
        <4>4. j - 1 <= i
          BY <1>3, <4>3
        <4>5. QED
          BY <1>1, <2>1, <4>4
      <3>3. QED
        BY <3>1, <3>2
    <2>3. Newest(queue[i + 1].event, calls)
      BY <1>2, <2>1, <2>2
    <2>4. QED
      BY <2>1, <2>3, SameNewest
  <1>4. ASSUME waits' = {}, NEW r \in requests', r.item.event.cell = cell
        PROVE  Newest(r.item.event, calls')
    <2>1. 1 \in waits /\ r.item = queue[1]
      BY <1>1, <1>4
    <2>2. ASSUME NEW j \in waits PROVE j <= 1
      <3>1. SUFFICES ASSUME j # 1 PROVE FALSE
        OBVIOUS
      <3>2. j - 1 \in DOMAIN queue' /\ (j - 1) + 1 = j
        BY <1>1, <3>1
      <3>3. queue'[j - 1] = queue[j]
        BY <1>1, <3>2
      <3>4. QED
        BY <1>4, <3>2, <3>3
    <2>3. Newest(queue[1].event, calls)
      BY <1>2, <2>1, <2>2
    <2>4. QED
      BY <2>1, <2>3, SameNewest
  <1>5. ASSUME waits' = {}, {r \in requests' : r.item.event.cell = cell} = {},
               \E c \in DOMAIN calls' : calls'[c].event.cell = cell
        PROVE  \E i \in {k \in DOMAIN store' : store'[k].cell = cell} :
                  /\ \A j \in {k \in DOMAIN store' : store'[k].cell = cell} : j <= i
                  /\ Newest(store'[i], calls')
    <2>1. waits = {}
      <3>1. SUFFICES ASSUME NEW i \in waits PROVE FALSE
        OBVIOUS
      <3>2. CASE i = 1
        <4>1. requests' # {}
          BY DEF Sends
        <4>2. QED
          BY <1>1, <1>5, <3>2, <4>1
      <3>3. CASE i # 1
        <4>1. i - 1 \in DOMAIN queue' /\ (i - 1) + 1 = i
          BY <1>1, <3>3
        <4>2. queue'[i - 1] = queue[i]
          BY <1>1, <4>1
        <4>3. QED
          BY <1>5, <4>1, <4>2
      <3>4. QED
        BY <3>2, <3>3
    <2>2. \E c \in DOMAIN calls : calls[c].event.cell = cell
      BY <1>5 DEF SameEvents
    <2>3. PICK i \in DOMAIN store' :
             /\ store'[i].cell = cell /\ Newest(store'[i], calls)
             /\ \A j \in DOMAIN store' : store'[j].cell = cell => j <= i
      BY <2>1, <2>2
    <2>4. Newest(store'[i], calls')
      BY <2>3, SameNewest
    <2>5. QED
      BY <2>3, <2>4
  <1>6. QED
    BY <1>3, <1>4, <1>5 DEF NewestIsLast

\* The server's events stay, whether the one of a request is appended or not.
Grows(event) == store' = store \/ store' = Append(store, event)

LEMMA Grown ==
    ASSUME TypesInv, NEW event \in Event, Grows(event)
    PROVE  /\ store' \in Seq(Event)
           /\ DOMAIN store \subseteq DOMAIN store'
           /\ \A i \in DOMAIN store : store'[i] = store[i]
           /\ \A i \in DOMAIN store' : store'[i] = event \/ (i \in DOMAIN store /\ store'[i] = store[i])
           /\ store' = Append(store, event) =>
                 /\ DOMAIN store' = 1..(Len(store) + 1) /\ Len(store) \in Nat
                 /\ DOMAIN store = 1..Len(store)
                 /\ store'[Len(store) + 1] = event
  <1>1. store \in Seq(Event) /\ Len(store) \in Nat /\ DOMAIN store = 1..Len(store)
    BY Elements DEF TypesInv
  <1>2. CASE store' = store
    <2>1. store' # Append(store, event)
      <3>1. SUFFICES ASSUME store = Append(store, event) PROVE FALSE
        BY <1>2
      <3>2. Len(Append(store, event)) = Len(store) + 1
        BY <1>1, AppendProperties
      <3>3. Len(store) = Len(store) + 1
        BY <3>1, <3>2
      <3>4. QED
        BY <1>1, <3>3
    <2>2. QED
      BY <1>1, <1>2, <2>1
  <1>3. CASE store' = Append(store, event)
    <2>1. /\ store' \in Seq(Event) /\ Len(store') = Len(store) + 1
          /\ \A i \in 1..Len(store) : store'[i] = store[i]
          /\ store'[Len(store) + 1] = event
      BY <1>1, <1>3, AppendProperties
    <2>2. DOMAIN store' = 1..(Len(store) + 1)
      BY <1>1, <2>1
    <2>3. \A i \in 1..(Len(store) + 1) : i = Len(store) + 1 \/ i \in 1..Len(store)
      BY <1>1
    <2>4. QED
      BY <1>1, <2>1, <2>2, <2>3
  <1>4. QED
    BY <1>2, <1>3 DEF Grows

\* No step but an edit makes an item or an event.
LEMMA NothingIsMadeUp ==
    ASSUME IInv, SameEvents, NEW event \in Event, Grows(event), Made(event, calls),
           \A item \in Item : IsPending(item)' => IsPending(item)
    PROVE  /\ MadeInv'
           /\ \A item \in Item : IsPending(item)' => Serves(item)'
           /\ \A e : Stored(e, store) => Stored(e, store')
           /\ Busy(lastSaved) => \E i \in DOMAIN store' : store'[i] = lastSaved
  <1>1. TypesInv /\ MadeInv /\ SavedInv
    BY DEF IInv
  <1>2. /\ DOMAIN store \subseteq DOMAIN store'
        /\ \A i \in DOMAIN store : store'[i] = store[i]
        /\ \A i \in DOMAIN store' : store'[i] = event \/ (i \in DOMAIN store /\ store'[i] = store[i])
    BY <1>1, Grown
  <1>3. MadeInv'
    <2>1. \A c, d \in DOMAIN calls' : c <= d => calls'[c].event.n <= calls'[d].event.n
      BY <1>1 DEF MadeInv, SameEvents
    <2>2. \A c \in DOMAIN calls' : calls'[c].event.n <= c
      BY <1>1 DEF MadeInv, SameEvents
    <2>3. \A item \in Item : IsPending(item)' => Made(item.event, calls')
      BY <1>1, SameNewest DEF MadeInv
    <2>4. \A i \in DOMAIN store' : Made(store'[i], calls')
      BY <1>1, <1>2, SameNewest DEF MadeInv
    <2>5. QED
      BY <2>1, <2>2, <2>3, <2>4 DEF MadeInv
  <1>4. ASSUME NEW item \in Item, IsPending(item)' PROVE Serves(item)'
    <2>1. Serves(item)
      BY <1>1, <1>4 DEF SavedInv
    <2>2. QED
      BY <2>1 DEF Serves, SameEvents
  <1>5. ASSUME NEW e, Stored(e, store) PROVE Stored(e, store')
    BY <1>2, <1>5 DEF Stored
  <1>6. Busy(lastSaved) => \E i \in DOMAIN store' : store'[i] = lastSaved
    BY <1>1, <1>2 DEF SavedInv
  <1>7. QED
    BY <1>3, <1>4, <1>5, <1>6

----------------------------------------------------------------------------
(* The steps *)

\* A timer or flush() runs the queue: a request leaves if none is in flight.
LEMMA RunKeeps ==
    ASSUME IInv, NEW timer \in BOOLEAN, timer => retryTimer,
           RunRetryQueue(queue, retryInFlight, requests, timer),
           mounted \/ debounce \/ retryTimer,
           debounce' \in BOOLEAN, debounce' => debounce,
           UNCHANGED <<lastSaved, lastOk, calls, splitEdited, mounted, store>>
    PROVE  IInv'
  <1>1. TypesInv /\ OneInv /\ MadeInv /\ SavedInv /\ AnswerInv /\ NewestInv
    BY DEF IInv
  <1>2. SameEvents
    BY DEF SameEvents
  <1>3. CASE UNCHANGED <<queue, retryInFlight, requests>>
    <2>1. retryTimer' = timer /\ \/ isSaving' = isSaving
                                 \/ isSaving' = FALSE /\ ~Busy(retryInFlight) /\ queue = <<>>
      <3>1. Busy(retryInFlight) \/ queue = <<>>
        <4>1. SUFFICES ASSUME ~Busy(retryInFlight), queue # <<>> PROVE FALSE
          OBVIOUS
        <4>2. queue' = Tail(queue)
          BY <4>1 DEF RunRetryQueue
        <4>3. Len(queue') = Len(queue) - 1 /\ Len(queue) \in Nat
          BY <1>1, <4>1, <4>2, HeadTailProperties, Elements DEF TypesInv
        <4>4. QED
          BY <1>3, <4>3
      <3>2. QED
        BY <3>1 DEF RunRetryQueue
    <2>2. isSaving' \in BOOLEAN /\ (~isSaving' => ~isSaving \/ (queue = <<>> /\ requests = {}))
      BY <1>1, <2>1 DEF OneInv, TypesInv
    <2>3. TypesInv' /\ OneInv'
      BY <1>1, <1>3, <2>1, <2>2 DEF TypesInv, OneInv
    <2>4. \A item : IsPending(item)' <=> IsPending(item)
      BY <1>3 DEF IsPending
    <2>5. MadeInv' /\ SavedInv'
      BY <1>1, <2>4 DEF MadeInv, SavedInv, Serves, Stored
    <2>6. AnswerInv'
      BY <1>1, <1>3, <2>2, <2>4 DEF AnswerInv
    <2>7. NewestInv'
      BY <1>1, <1>3 DEF NewestInv, NewestIsLast
    <2>8. QED
      BY <2>3, <2>5, <2>6, <2>7 DEF IInv
  <1>4. CASE ~Busy(retryInFlight) /\ queue # <<>>
    <2>1. Sends /\ retryTimer' = FALSE /\ isSaving' = TRUE /\ requests = {}
      <3>1. requests = {}
        BY <1>1, <1>4 DEF OneInv
      <3>2. QED
        BY <1>4, <3>1 DEF RunRetryQueue, Sends
    <2>2. TypesInv'
      BY <1>1, <2>1, Sent DEF TypesInv
    <2>3. OneInv'
      <3>1. Busy(retryInFlight')
        BY <1>1, <2>1, Sent, NoEventAssumption DEF Busy
      <3>2. \A r, s \in requests' : r = s
        BY <2>1 DEF Sends
      <3>3. requests' # {}
        BY <2>1 DEF Sends
      <3>4. \A r \in requests' : r.item.event = retryInFlight'
        BY <1>1, <2>1, Sent
      <3>5. QED
        BY <3>1, <3>2, <3>3, <3>4 DEF OneInv, Busy
    <2>4. \A item : IsPending(item)' <=> IsPending(item)
      BY <1>1, <2>1, Sent DEF IsPending
    <2>5. MadeInv' /\ SavedInv'
      BY <1>1, <2>4 DEF MadeInv, SavedInv, Serves, Stored
    <2>6. AnswerInv'
      BY <1>1, <2>1, <2>4 DEF AnswerInv
    <2>7. ASSUME mounted, NEW cell \in Cells \ splitEdited PROVE NewestIsLast(cell)'
      <3>1. NewestIsLast(cell)
        BY <1>1, <2>7 DEF NewestInv
      <3>2. ASSUME {i \in DOMAIN queue : queue[i].event.cell = cell} = {},
                   \E c \in DOMAIN calls : calls[c].event.cell = cell
            PROVE  \E i \in DOMAIN store' :
                      /\ store'[i].cell = cell /\ Newest(store'[i], calls)
                      /\ \A j \in DOMAIN store' : store'[j].cell = cell => j <= i
        BY <2>1, <3>1, <3>2 DEF NewestIsLast
      <3>3. QED
        BY <1>1, <1>2, <2>1, <3>1, <3>2, SentNewest
    <2>8. NewestInv'
      BY <2>7 DEF NewestInv
    <2>9. QED
      BY <2>2, <2>3, <2>5, <2>6, <2>8 DEF IInv
  <1>5. QED
    BY <1>3, <1>4 DEF RunRetryQueue

\* The last event of a cell, once one was appended, is the one just appended, or what it was.
LastDone(i, s, cell) ==
    i \in DOMAIN s /\ s[i].cell = cell /\ \A j \in DOMAIN s : s[j].cell = cell => j <= i

LEMMA LastAppended ==
    ASSUME TypesInv, NEW event \in Event, store' = Append(store, event), NEW cell
    PROVE  /\ event.cell = cell =>
                \E i : LastDone(i, store', cell) /\ store'[i] = event
           /\ event.cell # cell =>
                \A i : LastDone(i, store, cell) =>
                          LastDone(i, store', cell) /\ store'[i] = store[i]
  <1>1. /\ DOMAIN store' = 1..(Len(store) + 1) /\ Len(store) \in Nat /\ DOMAIN store = 1..Len(store)
        /\ store'[Len(store) + 1] = event
        /\ \A i \in DOMAIN store : store'[i] = store[i]
    BY Grown DEF Grows
  <1>2. ASSUME event.cell = cell
        PROVE  LastDone(Len(store) + 1, store', cell)
    BY <1>1, <1>2 DEF LastDone
  <1>3. ASSUME event.cell # cell, NEW i, LastDone(i, store, cell)
        PROVE  LastDone(i, store', cell) /\ store'[i] = store[i]
    <2>1. i \in 1..Len(store) /\ store[i].cell = cell
          /\ \A j \in 1..Len(store) : store[j].cell = cell => j <= i
      BY <1>1, <1>3 DEF LastDone
    <2>2. \A j \in DOMAIN store' : j = Len(store) + 1 \/ (j \in 1..Len(store) /\ store'[j] = store[j])
      BY <1>1
    <2>3. QED
      BY <1>1, <1>3, <2>1, <2>2 DEF LastDone
  <1>4. QED
    BY <1>1, <1>2, <1>3

\* A request is answered: what waited for it is saved, and the next one may leave.
LEMMA AcceptedKeeps ==
    ASSUME IInv, NEW r \in requests, Accepted(r)
    PROVE  IInv'
  <1> DEFINE event == r.item.event
  <1>1. TypesInv /\ OneInv /\ MadeInv /\ SavedInv /\ AnswerInv /\ NewestInv
    BY DEF IInv
  <1>2. /\ store' = Append(store, event) /\ lastSaved' = event /\ lastOk' = TRUE
        /\ calls' = Resolve(r.item.waiting, "saved")
        /\ UNCHANGED <<debounce, splitEdited, mounted>>
    BY DEF Accepted
  <1>3. r \in Request /\ r.item \in Item /\ event \in Event /\ requests = {r}
    BY <1>1, Elements DEF Item, OneInv
  <1>4. IsPending(r.item) /\ Made(event, calls) /\ Serves(r.item)
    BY <1>1, <1>3 DEF IsPending, MadeInv, SavedInv
  <1> HIDE DEF event
  <1>5. Grows(event)
    BY <1>2 DEF Grows
  <1>6. /\ calls' \in Seq(Call) /\ Len(calls') = Len(calls) /\ SameEvents
        /\ \A c \in DOMAIN calls :
              calls'[c].answer = IF c \in r.item.waiting /\ calls[c].answer = "waiting"
                                   THEN "saved" ELSE calls[c].answer
    BY <1>1, <1>2, Resolved
  <1>7. \/ Sends /\ retryTimer' = FALSE /\ isSaving' = TRUE
        \/ /\ queue = <<>> /\ queue' = queue /\ retryInFlight' = NoEvent /\ requests' = {}
           /\ isSaving' = FALSE /\ retryTimer' = retryTimer
    BY <1>3 DEF Accepted, ContinuesWith, RunRetryQueue, Sends, Busy
  <1>8. TypesInv'
    <2>1. store' \in Seq(Event) /\ lastSaved' \in Event
      BY <1>1, <1>2, <1>3, <1>5, Grown
    <2>2. queue' \in Seq(Item) /\ requests' \subseteq Request
          /\ retryInFlight' \in Event \cup {NoEvent}
      BY <1>1, <1>7, Sent DEF TypesInv
    <2>3. QED
      BY <1>1, <1>2, <1>6, <1>7, <2>1, <2>2 DEF TypesInv
  <1>9. \A item : IsPending(item)' <=> \E i \in DOMAIN queue : queue[i] = item
    <2>1. CASE Sends
      BY <1>1, <2>1, Sent
    <2>2. CASE queue' = queue /\ requests' = {}
      BY <2>2 DEF IsPending
    <2>3. QED
      BY <1>7, <2>1, <2>2
  <1>10. \A item : IsPending(item)' => IsPending(item)
    BY <1>9 DEF IsPending
  <1>11. /\ MadeInv'
         /\ \A item \in Item : IsPending(item)' => Serves(item)'
         /\ \A e : Stored(e, store) => Stored(e, store')
    BY <1>3, <1>4, <1>5, <1>6, <1>10, NothingIsMadeUp
  <1>12. \E i \in DOMAIN store' : store'[i] = event
    <2>1. Len(store) + 1 \in DOMAIN store' /\ store'[Len(store) + 1] = event
      BY <1>1, <1>2, <1>3, <1>5, Grown
    <2>2. QED
      BY <2>1
  <1>13. SavedInv'
    <2>1. ASSUME NEW c \in DOMAIN calls, calls'[c].answer = "saved"
          PROVE  Stored(calls'[c].event, store')
      <3>1. calls'[c].event = calls[c].event
        BY <1>6 DEF SameEvents
      <3>2. CASE calls[c].answer = "saved"
        <4>1. Stored(calls[c].event, store)
          BY <1>1, <3>2 DEF SavedInv
        <4>2. QED
          BY <1>11, <3>1, <4>1
      <3>3. CASE calls[c].answer # "saved"
        <4>1. c \in r.item.waiting
          BY <1>6, <2>1, <3>3
        <4>2. calls[c].event.cell = event.cell /\ calls[c].event.n <= event.n
          BY <1>4, <4>1 DEF Serves, event
        <4>3. calls[c].event.n \in Nat /\ event.n \in Nat
          BY <1>1, <1>3, Elements DEF Call, Event
        <4>4. QED
          BY <1>12, <3>1, <4>2, <4>3 DEF Stored
      <3>4. QED
        BY <3>2, <3>3
    <2>2. \A c \in DOMAIN calls' : calls'[c].answer = "saved" => Stored(calls'[c].event, store')
      BY <1>6, <2>1 DEF SameEvents
    <2>3. Busy(lastSaved') => \E i \in DOMAIN store' : store'[i] = lastSaved'
      BY <1>2, <1>12
    <2>4. QED
      BY <1>11, <2>2, <2>3 DEF SavedInv, Busy
  <1>14. OneInv'
    <2>1. CASE Sends
      <3>1. Busy(retryInFlight')
        BY <1>1, <2>1, Sent, NoEventAssumption DEF Busy
      <3>2. (\A k, l \in requests' : k = l) /\ requests' # {}
        BY <2>1 DEF Sends
      <3>3. \A k \in requests' : k.item.event = retryInFlight'
        BY <1>1, <2>1, Sent
      <3>4. QED
        BY <3>1, <3>2, <3>3 DEF OneInv, Busy
    <2>2. CASE requests' = {} /\ retryInFlight' = NoEvent
      BY <2>2 DEF OneInv, Busy
    <2>3. QED
      BY <1>7, <2>1, <2>2
  <1>15. AnswerInv'
    <2> SUFFICES ASSUME mounted PROVE AnswerInv'
      BY <1>2 DEF AnswerInv
    <2>1. ASSUME NEW c \in DOMAIN calls
          PROVE  /\ calls'[c].answer # "cancelled"
                 /\ calls'[c].answer = "waiting" =>
                       \E item \in Item : IsPending(item)' /\ c \in item.waiting
      <3>1. calls[c].answer # "cancelled"
        BY <1>1 DEF AnswerInv
      <3>2. ASSUME calls'[c].answer = "waiting"
            PROVE  \E item \in Item : IsPending(item)' /\ c \in item.waiting
        <4>1. calls[c].answer = "waiting" /\ c \notin r.item.waiting
          BY <1>6, <3>2
        <4>2. PICK item \in Item : IsPending(item) /\ c \in item.waiting
          BY <1>1, <4>1 DEF AnswerInv
        <4>3. \E i \in DOMAIN queue : queue[i] = item
          BY <1>3, <4>1, <4>2 DEF IsPending
        <4>4. QED
          BY <1>9, <4>2, <4>3
      <3>3. QED
        BY <1>6, <3>1, <3>2
    <2>2. ~isSaving' => queue' = <<>> /\ requests' = {}
      BY <1>7
    <2>3. QED
      BY <1>6, <2>1, <2>2 DEF AnswerInv, SameEvents
  <1>16. ASSUME mounted, NEW cell \in Cells \ splitEdited PROVE NewestIsLast(cell)'
    <2> DEFINE waits == {i \in DOMAIN queue : queue[i].event.cell = cell}
    <2>1. NewestIsLast(cell)
      BY <1>1, <1>16 DEF NewestInv
    <2>2. ASSUME waits = {}, \E c \in DOMAIN calls : calls[c].event.cell = cell
          PROVE  \E i : LastDone(i, store', cell) /\ Newest(store'[i], calls)
      <3>1. CASE event.cell = cell
        <4>1. Newest(event, calls)
          <5>1. r \in {k \in requests : k.item.event.cell = cell}
            BY <3>1 DEF event
          <5>2. \A k \in {m \in requests : m.item.event.cell = cell} : Newest(k.item.event, calls)
            BY <2>1, <2>2 DEF NewestIsLast
          <5>3. Newest(r.item.event, calls)
            BY <5>1, <5>2
          <5>4. QED
            BY <5>3 DEF event
        <4>2. PICK i : LastDone(i, store', cell) /\ store'[i] = event
          BY <1>1, <1>2, <1>3, <3>1, LastAppended
        <4>3. QED
          BY <4>1, <4>2
      <3>2. CASE event.cell # cell
        <4>1. {k \in requests : k.item.event.cell = cell} = {}
          BY <1>3, <3>2 DEF event
        <4>2. PICK i \in {k \in DOMAIN store : store[k].cell = cell} :
                 /\ \A j \in {k \in DOMAIN store : store[k].cell = cell} : j <= i
                 /\ Newest(store[i], calls)
          BY <2>1, <2>2, <4>1 DEF NewestIsLast
        <4>3. LastDone(i, store, cell)
          BY <4>2 DEF LastDone
        <4>4. LastDone(i, store', cell) /\ store'[i] = store[i]
          BY <1>1, <1>2, <1>3, <3>2, <4>3, LastAppended
        <4>5. QED
          BY <4>2, <4>4
      <3>3. QED
        BY <3>1, <3>2
    <2>3. CASE Sends
      BY <1>1, <1>6, <2>1, <2>2, <2>3, SentNewest DEF LastDone
    <2>4. CASE queue = <<>> /\ queue' = queue /\ requests' = {}
      <3>1. waits = {} /\ {i \in DOMAIN queue' : queue'[i].event.cell = cell} = {}
        BY <2>4
      <3>2. (\E c \in DOMAIN calls' : calls'[c].event.cell = cell) =>
               \E i : LastDone(i, store', cell) /\ Newest(store'[i], calls')
        BY <1>6, <2>2, <3>1, SameNewest DEF SameEvents
      <3>3. QED
        BY <2>4, <3>1, <3>2 DEF NewestIsLast, LastDone
    <2>5. QED
      BY <1>7, <2>3, <2>4
  <1>17. NewestInv'
    BY <1>2, <1>16 DEF NewestInv
  <1>18. QED
    BY <1>8, <1>11, <1>13, <1>14, <1>15, <1>17 DEF IInv

\* A request fails: its item goes back to the head of the queue.
LEMMA FailedKeeps ==
    ASSUME IInv, NEW r \in requests, Failed(r)
    PROVE  IInv'
  <1> DEFINE event == r.item.event
             L == Len(queue)
  <1>1. TypesInv /\ OneInv /\ MadeInv /\ SavedInv /\ AnswerInv /\ NewestInv
    BY DEF IInv
  <1>2. /\ store' = store \/ store' = Append(store, event)
        /\ requests' = requests \ {r} /\ retryInFlight' = NoEvent /\ lastOk' = FALSE
        /\ queue' = <<r.item>> \o queue /\ retryTimer' = TRUE /\ isSaving' = TRUE
        /\ UNCHANGED <<debounce, lastSaved, calls, splitEdited, mounted>>
    BY DEF Failed, Requeue, RetryAfterFailure
  <1>3. r \in Request /\ r.item \in Item /\ event \in Event /\ requests = {r} /\ requests' = {}
    BY <1>1, <1>2, Elements DEF Item, OneInv
  <1>4. IsPending(r.item) /\ Made(event, calls)
    BY <1>1, <1>3 DEF IsPending, MadeInv
  <1>5. /\ queue' \in Seq(Item) /\ DOMAIN queue' = 1..(L + 1) /\ L \in Nat /\ DOMAIN queue = 1..L
        /\ queue'[1] = r.item
        /\ \A i \in 1..L : i + 1 \in 1..(L + 1) /\ queue'[i + 1] = queue[i]
        /\ \A i \in 1..(L + 1) : i = 1 \/ i - 1 \in 1..L
    <2>1. queue \in Seq(Item) /\ L \in Nat /\ DOMAIN queue = 1..L
      BY <1>1, Elements DEF TypesInv
    <2>2. <<r.item>> \in Seq(Item) /\ Len(<<r.item>>) = 1 /\ <<r.item>>[1] = r.item
      BY <1>3
    <2> HIDE DEF L
    <2>3. /\ queue' \in Seq(Item) /\ Len(queue') = 1 + L
          /\ \A i \in 1..(1 + L) : queue'[i] = IF i <= 1 THEN <<r.item>>[i] ELSE queue[i - 1]
      BY <1>2, <2>1, <2>2, ConcatProperties DEF L
    <2>4. DOMAIN queue' = 1..(L + 1)
      BY <2>1, <2>3
    <2>5. queue'[1] = r.item
      BY <2>1, <2>2, <2>3
    <2>6. ASSUME NEW i \in 1..L PROVE i + 1 \in 1..(L + 1) /\ queue'[i + 1] = queue[i]
      BY <2>1, <2>3
    <2>7. \A i \in 1..(L + 1) : i = 1 \/ i - 1 \in 1..L
      BY <2>1
    <2>8. QED
      BY <2>1, <2>3, <2>4, <2>5, <2>6, <2>7
  <1> HIDE DEF event, L
  <1>6. Grows(event) /\ SameEvents
    BY <1>2 DEF Grows, SameEvents
  <1>7. TypesInv'
    <2>1. store' \in Seq(Event)
      BY <1>1, <1>3, <1>6, Grown
    <2>2. QED
      BY <1>1, <1>2, <1>3, <1>5, <2>1 DEF TypesInv
  <1>8. OneInv'
    BY <1>2, <1>3 DEF OneInv, Busy
  <1>9. ASSUME NEW item PROVE IsPending(item)' <=> IsPending(item)
    <2>1. ASSUME IsPending(item)' PROVE IsPending(item)
      <3>1. PICK i \in 1..(L + 1) : queue'[i] = item
        BY <1>3, <1>5, <2>1 DEF IsPending
      <3>2. CASE i = 1
        BY <1>3, <1>5, <3>1, <3>2 DEF IsPending
      <3>3. CASE i # 1
        <4>1. i - 1 \in 1..L /\ (i - 1) + 1 = i
          BY <1>5, <3>3
        <4>2. queue'[(i - 1) + 1] = queue[i - 1]
          BY <1>5, <4>1
        <4>3. QED
          BY <1>5, <3>1, <4>1, <4>2 DEF IsPending
      <3>4. QED
        BY <3>2, <3>3
    <2>2. ASSUME IsPending(item) PROVE IsPending(item)'
      <3>1. CASE \E i \in DOMAIN queue : queue[i] = item
        BY <1>5, <3>1 DEF IsPending
      <3>2. CASE r.item = item
        <4>1. 1 \in DOMAIN queue'
          BY <1>5
        <4>2. QED
          BY <1>5, <3>2, <4>1 DEF IsPending
      <3>3. QED
        BY <1>3, <2>2, <3>1, <3>2 DEF IsPending
    <2>3. QED
      BY <2>1, <2>2
  <1>10. /\ MadeInv'
         /\ \A item \in Item : IsPending(item)' => Serves(item)'
         /\ \A e : Stored(e, store) => Stored(e, store')
         /\ Busy(lastSaved) => \E i \in DOMAIN store' : store'[i] = lastSaved
    BY <1>3, <1>4, <1>6, <1>9, NothingIsMadeUp
  <1>11. SavedInv'
    BY <1>1, <1>2, <1>10 DEF SavedInv, Busy
  <1>12. AnswerInv'
    BY <1>1, <1>2, <1>9 DEF AnswerInv
  <1>13. ASSUME mounted, NEW cell \in Cells \ splitEdited PROVE NewestIsLast(cell)'
    <2> DEFINE waits == {i \in DOMAIN queue : queue[i].event.cell = cell}
    <2>1. NewestIsLast(cell)
      BY <1>1, <1>13 DEF NewestInv
    <2>2. \A i \in DOMAIN queue : i \in waits => i + 1 \in waits'
      BY <1>5
    <2>3. ASSUME NEW i \in waits', \A j \in waits' : j <= i
          PROVE  Newest(queue'[i].event, calls')
      <3>1. CASE i = 1
        <4>1. waits = {}
          <5>1. SUFFICES ASSUME NEW k \in waits PROVE FALSE
            OBVIOUS
          <5>2. k + 1 \in waits' /\ k >= 1 /\ k \in Nat
            BY <1>5, <2>2
          <5>3. k + 1 <= 1
            BY <2>3, <3>1, <5>2
          <5>4. QED
            BY <5>2, <5>3
        <4>2. r \in {k \in requests : k.item.event.cell = cell}
          BY <1>5, <2>3, <3>1
        <4>3. Newest(r.item.event, calls)
          BY <2>1, <4>1, <4>2 DEF NewestIsLast
        <4>4. QED
          BY <1>2, <1>5, <3>1, <4>3
      <3>2. CASE i # 1
        <4>1. i - 1 \in 1..L /\ (i - 1) + 1 = i
          BY <1>5, <2>3, <3>2
        <4>2. queue'[i] = queue[i - 1] /\ i - 1 \in waits
          <5>1. queue'[(i - 1) + 1] = queue[i - 1]
            BY <1>5, <4>1
          <5>2. QED
            BY <1>5, <2>3, <4>1, <5>1
        <4>3. ASSUME NEW j \in waits PROVE j <= i - 1
          <5>1. j + 1 \in waits' /\ j \in Nat /\ i \in Nat
            BY <1>5, <2>2, <2>3
          <5>2. j + 1 <= i
            BY <2>3, <5>1
          <5>3. QED
            BY <5>1, <5>2
        <4>4. Newest(queue[i - 1].event, calls)
          BY <2>1, <4>2, <4>3 DEF NewestIsLast
        <4>5. QED
          BY <1>2, <4>2, <4>4
      <3>3. QED
        BY <3>1, <3>2
    <2>4. ASSUME waits' = {}, \E c \in DOMAIN calls' : calls'[c].event.cell = cell
          PROVE  \E i \in {k \in DOMAIN store' : store'[k].cell = cell} :
                  /\ \A j \in {k \in DOMAIN store' : store'[k].cell = cell} : j <= i
                  /\ Newest(store'[i], calls')
      <3>1. waits = {}
        BY <1>5, <2>2, <2>4
      <3>2. event.cell # cell
        <4>1. 1 \in DOMAIN queue' /\ queue'[1] = r.item
          BY <1>5
        <4>2. QED
          BY <2>4, <4>1 DEF event
      <3>3. {k \in requests : k.item.event.cell = cell} = {}
        BY <1>3, <3>2 DEF event
      <3>4. PICK i \in {k \in DOMAIN store : store[k].cell = cell} :
                 /\ \A j \in {k \in DOMAIN store : store[k].cell = cell} : j <= i
                 /\ Newest(store[i], calls)
        BY <1>2, <2>1, <2>4, <3>1, <3>3 DEF NewestIsLast
      <3>5. LastDone(i, store, cell)
        BY <3>4 DEF LastDone
      <3>6. LastDone(i, store', cell) /\ store'[i] = store[i]
        BY <1>1, <1>3, <1>6, <3>2, <3>5, LastAppended DEF Grows
      <3>7. QED
        BY <1>2, <3>4, <3>6 DEF LastDone
    <2>5. QED
      BY <1>3, <2>3, <2>4 DEF NewestIsLast
  <1>14. NewestInv'
    BY <1>2, <1>13 DEF NewestInv
  <1>15. QED
    BY <1>7, <1>8, <1>10, <1>11, <1>12, <1>14 DEF IInv

\* The component is unmounted: what waits is given up, and nobody is told it is saved.
LEMMA CancelKeeps ==
    ASSUME IInv, Cancel
    PROVE  IInv'
  <1>1. TypesInv /\ OneInv /\ MadeInv /\ SavedInv /\ AnswerInv /\ NewestInv
    BY DEF IInv
  <1>2. /\ mounted' = FALSE /\ debounce' = FALSE /\ retryTimer' = FALSE
        /\ requests' = {[r EXCEPT !.aborted = TRUE] : r \in requests}
        /\ queue' = <<>> /\ retryInFlight' = NoEvent /\ isSaving' = FALSE
        /\ UNCHANGED <<lastSaved, lastOk, splitEdited, store>>
    BY DEF Cancel
  <1>3. PICK waiters : calls' = Resolve(waiters, "cancelled")
    BY DEF Cancel
  <1>4. /\ calls' \in Seq(Call) /\ Len(calls') = Len(calls) /\ SameEvents
        /\ \A c \in DOMAIN calls : calls'[c].answer \in {calls[c].answer, "cancelled"}
    BY <1>1, <1>3, Resolved
  <1>5. ASSUME NEW s \in requests'
        PROVE  s \in Request /\ \E r \in requests : s.item = r.item
    <2>1. PICK r \in requests : s = [r EXCEPT !.aborted = TRUE]
      BY <1>2
    <2>2. r \in Request
      BY <1>1, Elements
    <2>3. s \in Request /\ s.item = r.item
      BY <2>1, <2>2 DEF Request
    <2>4. QED
      BY <2>3
  <1>6. TypesInv'
    <2>1. requests' \subseteq Request
      BY <1>5
    <2>2. <<>> \in Seq(Item)
      OBVIOUS
    <2>3. QED
      BY <1>1, <1>2, <1>4, <2>1, <2>2 DEF TypesInv
  <1>7. OneInv'
    <2>1. \A r, s \in requests' : r = s
      BY <1>1, <1>2 DEF OneInv
    <2>2. QED
      BY <1>2, <2>1 DEF OneInv, Busy
  <1>8. \A item \in Item : IsPending(item)' => IsPending(item)
    BY <1>2, <1>5 DEF IsPending
  <1>9. MadeInv'
    <2>1. \A c, d \in DOMAIN calls' : c <= d => calls'[c].event.n <= calls'[d].event.n
      BY <1>1, <1>4 DEF MadeInv, SameEvents
    <2>2. \A c \in DOMAIN calls' : calls'[c].event.n <= c
      BY <1>1, <1>4 DEF MadeInv, SameEvents
    <2>3. \A item \in Item : IsPending(item)' => Made(item.event, calls')
      BY <1>1, <1>4, <1>8, SameNewest DEF MadeInv
    <2>4. \A i \in DOMAIN store' : Made(store'[i], calls')
      BY <1>1, <1>2, <1>4, SameNewest DEF MadeInv
    <2>5. QED
      BY <2>1, <2>2, <2>3, <2>4 DEF MadeInv
  <1>10. SavedInv'
    <2>1. \A item \in Item : IsPending(item)' => Serves(item)'
      BY <1>1, <1>4, <1>8 DEF SavedInv, Serves, SameEvents
    <2>2. \A c \in DOMAIN calls' : calls'[c].answer = "saved" => Stored(calls'[c].event, store')
      BY <1>1, <1>2, <1>4 DEF SavedInv, SameEvents
    <2>3. QED
      BY <1>1, <1>2, <2>1, <2>2 DEF SavedInv, Busy
  <1>11. QED
    BY <1>2, <1>6, <1>7, <1>9, <1>10 DEF IInv, AnswerInv, NewestInv

\* An edit is the newest of its cell, and changes nothing for the other cells.
Calls(event, answer) == calls' = Append(calls, [event |-> event, answer |-> answer])

LEMMA Called ==
    ASSUME TypesInv, MadeInv, NEW event \in Event, NEW answer \in {"waiting", "saved"},
           Calls(event, answer), Len(calls) < MaxCalls,
           \A c \in DOMAIN calls : calls[c].event.n <= event.n, event.n <= Len(calls) + 1
    PROVE  /\ calls' \in Seq(Call) /\ Len(calls') = Len(calls) + 1 /\ Len(calls) \in Nat
           /\ Len(calls') <= MaxCalls
           /\ DOMAIN calls' = 1..(Len(calls) + 1) /\ DOMAIN calls = 1..Len(calls)
           /\ \A c \in DOMAIN calls : c \in DOMAIN calls' /\ calls'[c] = calls[c]
           /\ Len(calls) + 1 \in DOMAIN calls'
           /\ calls'[Len(calls) + 1] = [event |-> event, answer |-> answer]
           /\ \A c \in DOMAIN calls' : c = Len(calls) + 1 \/ c \in DOMAIN calls
           /\ \A c, d \in DOMAIN calls' : c <= d => calls'[c].event.n <= calls'[d].event.n
           /\ \A c \in DOMAIN calls' : calls'[c].event.n <= c
           /\ \A e : Made(e, calls) => Made(e, calls')
           /\ Made(event, calls') /\ Newest(event, calls')
           /\ \A e : e.cell # event.cell /\ Newest(e, calls) => Newest(e, calls')
           /\ Made(event, calls) => \A e : Newest(e, calls) => Newest(e, calls')
  <1> DEFINE L == Len(calls)
             call == [event |-> event, answer |-> answer]
  <1>1. calls \in Seq(Call) /\ L \in Nat /\ DOMAIN calls = 1..L
        /\ \A c \in DOMAIN calls : calls[c] \in Call
    BY Elements DEF TypesInv
  <1>2. call \in Call /\ call.event = event /\ MaxCalls \in Nat /\ calls' = Append(calls, call)
    BY MaxCallsAssumption DEF Call, Calls
  <1> HIDE DEF call
  <1>3. /\ calls' \in Seq(Call) /\ Len(calls') = L + 1 /\ calls'[L + 1] = call
        /\ \A c \in 1..L : calls'[c] = calls[c]
    BY <1>1, <1>2, AppendProperties
  <1>4. DOMAIN calls' = 1..(L + 1) /\ L + 1 \in DOMAIN calls' /\ L < MaxCalls /\ L + 1 <= MaxCalls
    BY <1>1, <1>2, <1>3
  <1>5. \A c \in DOMAIN calls : c \in DOMAIN calls' /\ calls'[c] = calls[c]
    BY <1>1, <1>3, <1>4
  <1>6. \A c \in DOMAIN calls' : c = L + 1 \/ c \in DOMAIN calls
    BY <1>1, <1>4
  <1>7. event.n \in Nat /\ event.n <= L + 1 /\ \A c \in DOMAIN calls : calls[c].event.n <= event.n
    BY DEF Event
  <1>8. \A c \in DOMAIN calls : calls[c].event.n \in Nat /\ calls[c].event \in Event
    BY <1>1 DEF Call, Event
  <1> HIDE DEF L
  <1>9. ASSUME NEW c \in DOMAIN calls', NEW d \in DOMAIN calls', c <= d
        PROVE  calls'[c].event.n <= calls'[d].event.n
    <2>1. CASE d = L + 1
      BY <1>2, <1>3, <1>5, <1>6, <1>7, <2>1
    <2>2. CASE d # L + 1
      <3>1. c \in DOMAIN calls /\ d \in DOMAIN calls
        BY <1>1, <1>6, <1>9, <2>2
      <3>2. QED
        BY <1>5, <1>9, <3>1 DEF MadeInv
    <2>3. QED
      BY <2>1, <2>2
  <1>10. \A c \in DOMAIN calls' : calls'[c].event.n <= c
    BY <1>2, <1>3, <1>5, <1>6, <1>7 DEF MadeInv
  <1>11. \A e : Made(e, calls) => Made(e, calls')
    BY <1>5 DEF Made
  <1>12. Made(event, calls')
    BY <1>2, <1>3, <1>4 DEF Made
  <1>13. Newest(event, calls')
    BY <1>2, <1>3, <1>5, <1>6, <1>7, <1>12 DEF Newest
  <1>14. ASSUME NEW e, e.cell # event.cell, Newest(e, calls) PROVE Newest(e, calls')
    BY <1>2, <1>3, <1>5, <1>6, <1>11, <1>14 DEF Newest
  <1>15. ASSUME Made(event, calls), NEW e, Newest(e, calls) PROVE Newest(e, calls')
    <2>1. PICK c \in DOMAIN calls : calls[c].event = event
      BY <1>15 DEF Made
    <2>2. event.cell = e.cell => event.n <= e.n
      BY <1>15, <2>1 DEF Newest
    <2>3. QED
      BY <1>2, <1>3, <1>5, <1>6, <1>11, <1>15, <2>2 DEF Newest
  <1>16. QED
    BY <1>1, <1>3, <1>4, <1>5, <1>6, <1>9, <1>10, <1>11, <1>12, <1>13, <1>14, <1>15 DEF L, call

\* Two items of a cell at most one of which is the first are a split cell.
LEMMA OneItem ==
    ASSUME TypesInv, NEW cell, ~Split(cell),
           NEW i \in DOMAIN queue, NEW j \in DOMAIN queue,
           queue[i].event.cell = cell, queue[j].event.cell = cell
    PROVE  i = j
  <1> DEFINE waits == {k \in DOMAIN queue : queue[k].event.cell = cell}
  <1>1. SUFFICES ASSUME i # j PROVE FALSE
    OBVIOUS
  <1>2. DOMAIN queue = 1..Len(queue) /\ Len(queue) \in Nat
    BY Elements
  <1>3. IsFiniteSet(DOMAIN queue)
    BY <1>2, FS_Interval
  <1>4. IsFiniteSet(waits)
    BY <1>3, FS_Subset
  <1>5. {i} \cup {j} \in SUBSET waits
    OBVIOUS
  <1>6. IsFiniteSet({i}) /\ Cardinality({i}) = 1
    BY FS_Singleton
  <1>7. Cardinality({i} \cup {j}) = 2
    BY <1>1, <1>6, FS_AddElement
  <1>8. Cardinality({i} \cup {j}) <= Cardinality(waits) /\ Cardinality(waits) \in Nat
    BY <1>4, <1>5, FS_Subset, FS_CardinalityType
  <1>9. ~(Cardinality(waits) > 1)
    BY Zenon DEF Split
  <1> HIDE DEF waits
  <1>10. QED
    BY <1>7, <1>8, <1>9

\* An edit whose event is saved already, or is out: nothing is queued.
LEMMA JoinKeeps ==
    ASSUME IInv, NEW event \in Event, Autosave(event),
           \A c \in DOMAIN calls : calls[c].event.n <= event.n, event.n <= Len(calls) + 1,
           AlreadySaved(event) \/ JoinsInFlight(event)
    PROVE  IInv'
  <1> DEFINE c0 == Len(calls) + 1
             joined(r) == [r EXCEPT !.item = Coalesce(r.item, event, c0)]
  <1>1. TypesInv /\ OneInv /\ MadeInv /\ SavedInv /\ AnswerInv /\ NewestInv
    BY DEF IInv
  <1>2. /\ mounted /\ c0 <= MaxCalls /\ splitEdited \subseteq splitEdited'
        /\ UNCHANGED <<retryInFlight, retryTimer, lastSaved, lastOk, mounted, store, queue, debounce,
                       isSaving>>
    BY DEF Autosave, hook
  <1>3. PICK answer \in {"waiting", "saved"} :
           /\ Calls(event, answer)
           /\ answer = "saved" => AlreadySaved(event) /\ requests' = requests
           /\ answer = "waiting" =>
                 /\ JoinsInFlight(event)
                 /\ requests' = {IF r.item.event = retryInFlight THEN joined(r) ELSE r : r \in requests}
    BY DEF Autosave, Calls, hook
  <1>4. Len(calls) \in Nat /\ Len(calls) < MaxCalls
    BY <1>1, <1>2, Elements, MaxCallsAssumption
  <1>5. Busy(event) /\ event.n \in Nat
    BY NoEventAssumption DEF Busy, Event
  <1>6. Made(event, calls)
    <2>1. CASE AlreadySaved(event)
      BY <1>1, <1>5, <2>1 DEF AlreadySaved, SavedInv, MadeInv
    <2>2. CASE JoinsInFlight(event)
      <3>1. PICK r \in requests : r.item.event = event
        BY <1>1, <1>5, <2>2 DEF JoinsInFlight, OneInv
      <3>2. r.item \in Item /\ IsPending(r.item)
        BY <1>1, <3>1, Elements DEF IsPending
      <3>3. QED
        BY <1>1, <3>1, <3>2 DEF MadeInv
    <2>3. QED
      BY <2>1, <2>2
  <1> HIDE DEF c0, joined
  <1>7. /\ calls' \in Seq(Call) /\ Len(calls') <= MaxCalls
        /\ \A c \in DOMAIN calls : c \in DOMAIN calls' /\ calls'[c] = calls[c]
        /\ c0 \in DOMAIN calls' /\ calls'[c0] = [event |-> event, answer |-> answer]
        /\ \A c \in DOMAIN calls' : c = c0 \/ c \in DOMAIN calls
        /\ \A c, d \in DOMAIN calls' : c <= d => calls'[c].event.n <= calls'[d].event.n
        /\ \A c \in DOMAIN calls' : calls'[c].event.n <= c
        /\ \A e : Made(e, calls) => Made(e, calls')
        /\ \A e : Newest(e, calls) => Newest(e, calls')
    BY <1>1, <1>3, <1>4, <1>6, Called DEF c0
  <1>8. /\ requests' \subseteq Request
        /\ requests' # {} <=> requests # {}
        /\ \A k, l \in requests' : k = l
        /\ \A k \in requests' :
              \E r \in requests : /\ k.item.event = r.item.event
                                  /\ k.item.waiting \in {r.item.waiting, r.item.waiting \cup {c0}}
                                  /\ k.item.waiting # r.item.waiting => r.item.event = event
        /\ \A r \in requests :
              \E k \in requests' : /\ k.item.event = r.item.event
                                   /\ r.item.waiting \subseteq k.item.waiting
                                   /\ answer = "waiting" => c0 \in k.item.waiting
    <2>1. CASE answer = "saved"
      <3>1. requests' = requests
        BY <1>3, <2>1
      <3>2. QED
        BY <1>1, <2>1, <3>1 DEF OneInv, TypesInv
    <2>2. CASE answer = "waiting"
      <3>1. retryInFlight = event
        BY <1>3, <2>2 DEF JoinsInFlight
      <3>2. PICK r \in requests : requests = {r} /\ r.item.event = event
        BY <1>1, <1>5, <3>1 DEF OneInv
      <3> DEFINE item == Coalesce(r.item, event, c0)
                 k == [r EXCEPT !.item = item]
      <3>3. r \in Request /\ r.item \in Item /\ c0 \in Nat
        BY <1>1, <1>4, Elements DEF c0
      <3>4. /\ k \in Request /\ k.item.event = event
            /\ k.item.waiting = r.item.waiting \cup {c0}
        <4>1. /\ item \in Item /\ item.event = event
              /\ item.waiting = r.item.waiting \cup {c0}
          BY <3>3 DEF Item, Coalesce
        <4> HIDE DEF item
        <4>2. k \in Request /\ k.item = item
          BY <3>3, <4>1 DEF Request
        <4>3. QED
          BY <3>2, <4>1, <4>2
      <3>5. requests' = {k}
        <4>1. requests' = {joined(r)}
          BY <1>3, <2>2, <3>1, <3>2
        <4>2. joined(r) = k
          BY DEF joined
        <4>3. QED
          BY <4>1, <4>2
      <3> HIDE DEF k
      <3>6. QED
        BY <3>2, <3>4, <3>5
    <2>3. QED
      BY <2>1, <2>2
  <1>9. TypesInv'
    BY <1>1, <1>2, <1>7, <1>8 DEF TypesInv
  <1>10. OneInv'
    BY <1>1, <1>2, <1>8 DEF OneInv
  <1>11. ASSUME NEW item \in Item, IsPending(item)'
         PROVE  Made(item.event, calls') /\ Serves(item)'
    <2>1. PICK old \in Item : /\ IsPending(old) /\ item.event = old.event
                              /\ item.waiting \in {old.waiting, old.waiting \cup {c0}}
                              /\ item.waiting # old.waiting => old.event = event
      <3>1. CASE \E i \in DOMAIN queue' : queue'[i] = item
        BY <1>2, <3>1 DEF IsPending
      <3>2. CASE \E k \in requests' : k.item = item
        <4>1. PICK r \in requests : /\ item.event = r.item.event
                                    /\ item.waiting \in {r.item.waiting, r.item.waiting \cup {c0}}
                                    /\ item.waiting # r.item.waiting => r.item.event = event
          BY <1>8, <3>2
        <4>2. r.item \in Item /\ IsPending(r.item)
          BY <1>1, Elements DEF IsPending
        <4>3. QED
          BY <4>1, <4>2
      <3>3. QED
        BY <1>11, <3>1, <3>2 DEF IsPending
    <2>2. Made(old.event, calls) /\ Serves(old)
      BY <1>1, <2>1 DEF MadeInv, SavedInv
    <2>3. ASSUME NEW c \in item.waiting
          PROVE  /\ c \in DOMAIN calls'
                 /\ calls'[c].event.cell = item.event.cell /\ calls'[c].event.n <= item.event.n
      <3>1. CASE c \in old.waiting
        BY <1>7, <2>1, <2>2, <3>1 DEF Serves
      <3>2. CASE c \notin old.waiting
        <4>1. c = c0 /\ item.event = event
          BY <2>1, <2>3, <3>2
        <4>2. calls'[c].event = event
          BY <1>7, <4>1
        <4>3. QED
          BY <1>5, <1>7, <4>1, <4>2
      <3>3. QED
        BY <3>1, <3>2
    <2>4. QED
      BY <1>7, <2>1, <2>2, <2>3 DEF Serves
  <1>12. MadeInv'
    BY <1>1, <1>2, <1>7, <1>11 DEF MadeInv
  <1>13. SavedInv'
    <2>1. ASSUME NEW c \in DOMAIN calls', calls'[c].answer = "saved"
          PROVE  Stored(calls'[c].event, store)
      <3>1. CASE c \in DOMAIN calls
        BY <1>1, <1>7, <2>1, <3>1 DEF SavedInv
      <3>2. CASE c = c0
        <4>1. answer = "saved" /\ calls'[c].event = event
          BY <1>7, <2>1, <3>2
        <4>2. \E i \in DOMAIN store : store[i] = event
          BY <1>1, <1>3, <1>5, <4>1 DEF AlreadySaved, SavedInv
        <4>3. QED
          BY <1>5, <4>1, <4>2 DEF Stored
      <3>3. QED
        BY <1>7, <3>1, <3>2
    <2>2. QED
      BY <1>1, <1>2, <1>11, <2>1 DEF SavedInv, Busy
  <1>14. AnswerInv'
    <2>1. ASSUME NEW c \in DOMAIN calls'
          PROVE  /\ calls'[c].answer # "cancelled"
                 /\ calls'[c].answer = "waiting" =>
                       \E item \in Item : IsPending(item)' /\ c \in item.waiting
      <3>1. ASSUME NEW r \in requests, c \in r.item.waiting \/ (answer = "waiting" /\ c = c0)
            PROVE  \E item \in Item : IsPending(item)' /\ c \in item.waiting
        <4>1. PICK k \in requests' : c \in k.item.waiting
          BY <1>8, <3>1
        <4>2. k.item \in Item /\ IsPending(k.item)'
          BY <1>8, <4>1 DEF IsPending, Request
        <4>3. QED
          BY <4>1, <4>2
      <3>2. CASE c \in DOMAIN calls
        <4>1. calls'[c] = calls[c] /\ calls[c].answer # "cancelled"
          BY <1>1, <1>2, <1>7, <3>2 DEF AnswerInv
        <4>2. ASSUME calls[c].answer = "waiting"
              PROVE  \E item \in Item : IsPending(item)' /\ c \in item.waiting
          <5>1. PICK item \in Item : IsPending(item) /\ c \in item.waiting
            BY <1>1, <1>2, <3>2, <4>2 DEF AnswerInv
          <5>2. CASE \E i \in DOMAIN queue : queue[i] = item
            BY <1>2, <5>1, <5>2 DEF IsPending
          <5>3. CASE \E r \in requests : r.item = item
            BY <3>1, <5>1, <5>3
          <5>4. QED
            BY <5>1, <5>2, <5>3 DEF IsPending
        <4>3. QED
          BY <4>1, <4>2
      <3>3. CASE c = c0
        <4>1. calls'[c].answer = answer
          BY <1>7, <3>3
        <4>2. answer = "waiting" => requests # {}
          BY <1>1, <1>3, <1>5 DEF JoinsInFlight, OneInv
        <4>3. QED
          BY <3>1, <3>3, <4>1, <4>2
      <3>4. QED
        BY <1>7, <3>2, <3>3
    <2>2. ~isSaving' => queue' = <<>> /\ requests' = {}
      BY <1>1, <1>2, <1>8 DEF AnswerInv
    <2>3. QED
      BY <2>1, <2>2 DEF AnswerInv
  <1>15. ASSUME NEW cell \in Cells \ splitEdited' PROVE NewestIsLast(cell)'
    <2>1. NewestIsLast(cell)
      BY <1>1, <1>2 DEF NewestInv
    <2>2. (\E c \in DOMAIN calls' : calls'[c].event.cell = cell) =>
             \E c \in DOMAIN calls : calls[c].event.cell = cell
      <3>1. PICK d \in DOMAIN calls : calls[d].event = event
        BY <1>6 DEF Made
      <3>2. QED
        BY <1>7, <3>1
    <2>3. ASSUME {i \in DOMAIN queue : queue[i].event.cell = cell} = {},
                 NEW k \in requests', k.item.event.cell = cell
          PROVE  Newest(k.item.event, calls')
      <3>1. PICK r \in requests : k.item.event = r.item.event
        BY <1>8
      <3>2. r \in {s \in requests : s.item.event.cell = cell}
        BY <2>3, <3>1
      <3>3. Newest(r.item.event, calls)
        BY <2>1, <2>3, <3>2 DEF NewestIsLast
      <3>4. QED
        BY <1>7, <3>1, <3>3
    <2>4. {k \in requests' : k.item.event.cell = cell} = {} =>
             {r \in requests : r.item.event.cell = cell} = {}
      BY <1>8
    <2>5. QED
      BY <1>2, <1>7, <2>1, <2>2, <2>3, <2>4 DEF NewestIsLast
  <1>16. NewestInv'
    BY <1>15 DEF NewestInv
  <1>17. QED
    BY <1>9, <1>10, <1>12, <1>13, <1>14, <1>16 DEF IInv

\* What queueing does to the queue: one item of the cell takes the event, or comes last.
LEMMA Enqueued ==
    ASSUME TypesInv, NEW event \in Event, NEW c \in Nat, Enqueue(event, c)
    PROVE  /\ queue' \in Seq(Item)
           /\ DOMAIN queue \subseteq DOMAIN queue'
           /\ \E i \in DOMAIN queue' :
                 /\ queue'[i].event = event /\ c \in queue'[i].waiting
                 /\ \A j \in DOMAIN queue' : j # i => j \in DOMAIN queue /\ queue'[j] = queue[j]
                 /\ i \in DOMAIN queue =>
                       /\ queue[i].event.cell = event.cell
                       /\ queue'[i].waiting = queue[i].waiting \cup {c}
                 /\ i \notin DOMAIN queue =>
                       /\ queue'[i].waiting = {c}
                       /\ \A j \in DOMAIN queue : queue[j].event.cell # event.cell
  <1> DEFINE L == Len(queue)
             new == [event |-> event, waiting |-> {c}]
  <1>1. queue \in Seq(Item) /\ L \in Nat /\ DOMAIN queue = 1..L
        /\ \A i \in DOMAIN queue : queue[i] \in Item
    BY Elements DEF TypesInv
  <1>2. new \in Item
    BY DEF Item
  <1>3. CASE /\ \A j \in DOMAIN queue : queue[j].event.cell # event.cell
             /\ queue' = Append(queue, new)
    <2> HIDE DEF new
    <2>1. /\ queue' \in Seq(Item) /\ Len(queue') = L + 1
          /\ \A i \in 1..L : queue'[i] = queue[i]
          /\ queue'[L + 1] = new
      BY <1>1, <1>2, <1>3, AppendProperties
    <2> HIDE DEF L
    <2>2. DOMAIN queue' = 1..(L + 1) /\ L + 1 \notin DOMAIN queue /\ L + 1 \in DOMAIN queue'
      BY <1>1, <2>1
    <2>3. \A j \in DOMAIN queue' : j # L + 1 => j \in DOMAIN queue
      BY <1>1, <2>2
    <2>4. DOMAIN queue \subseteq DOMAIN queue'
      BY <1>1, <2>2
    <2>5. queue'[L + 1].event = event /\ queue'[L + 1].waiting = {c}
      BY <2>1 DEF new
    <2>6. QED
      BY <1>1, <1>3, <2>1, <2>2, <2>3, <2>4, <2>5
  <1>4. ASSUME NEW i \in DOMAIN queue, queue[i].event.cell = event.cell,
               queue' = [queue EXCEPT ![i] = Coalesce(queue[i], event, c)]
        PROVE  /\ queue' \in Seq(Item) /\ DOMAIN queue' = DOMAIN queue
               /\ queue'[i].event = event /\ queue'[i].waiting = queue[i].waiting \cup {c}
               /\ \A j \in DOMAIN queue' : j # i => queue'[j] = queue[j]
    <2>1. Coalesce(queue[i], event, c) \in Item
      BY <1>1, <1>4 DEF Coalesce, Item
    <2>2. DOMAIN queue' = DOMAIN queue /\ queue'[i] = Coalesce(queue[i], event, c)
          /\ \A j \in DOMAIN queue' : j # i => queue'[j] = queue[j]
      BY <1>1, <1>4
    <2>3. queue' \in Seq(Item)
      BY <1>1, <1>4, <2>1
    <2>4. QED
      BY <2>2, <2>3 DEF Coalesce
  <1>5. \/ /\ \A j \in DOMAIN queue : queue[j].event.cell # event.cell
           /\ queue' = Append(queue, new)
        \/ \E i \in DOMAIN queue : /\ queue[i].event.cell = event.cell
                                   /\ queue' = [queue EXCEPT ![i] = Coalesce(queue[i], event, c)]
    BY DEF Enqueue
  <1>6. CASE \E i \in DOMAIN queue : /\ queue[i].event.cell = event.cell
                                     /\ queue' = [queue EXCEPT ![i] = Coalesce(queue[i], event, c)]
    <2>1. PICK i \in DOMAIN queue : /\ queue[i].event.cell = event.cell
                                    /\ queue' = [queue EXCEPT ![i] = Coalesce(queue[i], event, c)]
      BY <1>6
    <2>2. /\ queue' \in Seq(Item) /\ DOMAIN queue' = DOMAIN queue
          /\ queue'[i].event = event /\ queue'[i].waiting = queue[i].waiting \cup {c}
          /\ \A j \in DOMAIN queue' : j # i => queue'[j] = queue[j]
      BY <1>4, <2>1
    <2>3. QED
      BY <2>1, <2>2
  <1>7. QED
    BY <1>3, <1>5, <1>6

\* An edit that is queued.
LEMMA EnqueueKeeps ==
    ASSUME IInv, NEW event \in Event, Autosave(event),
           \A c \in DOMAIN calls : calls[c].event.n <= event.n, event.n <= Len(calls) + 1,
           ~AlreadySaved(event), ~JoinsInFlight(event)
    PROVE  IInv'
  <1> DEFINE c0 == Len(calls) + 1
  <1>1. TypesInv /\ OneInv /\ MadeInv /\ SavedInv /\ AnswerInv /\ NewestInv
    BY DEF IInv
  <1>2. /\ mounted /\ c0 <= MaxCalls
        /\ splitEdited' = splitEdited \cup (IF Split(event.cell) THEN {event.cell} ELSE {})
        /\ UNCHANGED <<retryInFlight, retryTimer, lastSaved, lastOk, mounted, store, requests>>
        /\ isSaving' = TRUE /\ debounce' = TRUE
        /\ Calls(event, "waiting") /\ Enqueue(event, c0)
    BY DEF Autosave, Calls
  <1>3. Len(calls) \in Nat /\ Len(calls) < MaxCalls /\ c0 \in Nat /\ event.n \in Nat
    BY <1>1, <1>2, Elements, MaxCallsAssumption DEF Event
  <1> HIDE DEF c0
  <1>4. /\ calls' \in Seq(Call) /\ Len(calls') <= MaxCalls
        /\ \A c \in DOMAIN calls : c \in DOMAIN calls' /\ calls'[c] = calls[c]
        /\ c0 \in DOMAIN calls' /\ calls'[c0] = [event |-> event, answer |-> "waiting"]
        /\ \A c \in DOMAIN calls' : c = c0 \/ c \in DOMAIN calls
        /\ \A c, d \in DOMAIN calls' : c <= d => calls'[c].event.n <= calls'[d].event.n
        /\ \A c \in DOMAIN calls' : calls'[c].event.n <= c
        /\ \A e : Made(e, calls) => Made(e, calls')
        /\ Made(event, calls') /\ Newest(event, calls')
        /\ \A e : e.cell # event.cell /\ Newest(e, calls) => Newest(e, calls')
    BY <1>1, <1>2, <1>3, Called DEF c0
  <1>5. /\ queue' \in Seq(Item)
        /\ DOMAIN queue \subseteq DOMAIN queue'
    BY <1>1, <1>2, <1>3, Enqueued
  <1>6. PICK i \in DOMAIN queue' :
           /\ queue'[i].event = event /\ c0 \in queue'[i].waiting
           /\ \A j \in DOMAIN queue' : j # i => j \in DOMAIN queue /\ queue'[j] = queue[j]
           /\ i \in DOMAIN queue => /\ queue[i].event.cell = event.cell
                                    /\ queue'[i].waiting = queue[i].waiting \cup {c0}
           /\ i \notin DOMAIN queue =>
                 /\ queue'[i].waiting = {c0}
                 /\ \A j \in DOMAIN queue : queue[j].event.cell # event.cell
    BY <1>1, <1>2, <1>3, Enqueued
  <1>7. queue'[i] \in Item /\ \A j \in DOMAIN queue : queue[j] \in Item
    BY <1>1, <1>5, <1>6, Elements
  <1>8. TypesInv'
    BY <1>1, <1>2, <1>4, <1>5 DEF TypesInv
  <1>9. OneInv'
    <2>1. ~Busy(retryInFlight) => requests = {}
      BY <1>1, <1>2 DEF OneInv
    <2>2. QED
      BY <1>1, <1>2, <2>1 DEF OneInv
  <1>10. ASSUME NEW item \in Item, IsPending(item)'
         PROVE  item = queue'[i] \/ IsPending(item)
    BY <1>2, <1>6, <1>10 DEF IsPending
  <1>11. ASSUME NEW item \in Item, IsPending(item)'
         PROVE  Made(item.event, calls') /\ Serves(item)'
    <2>1. CASE item = queue'[i]
      <3>1. item.event = event
        BY <1>6, <2>1
      <3>2. ASSUME NEW c \in item.waiting
            PROVE  /\ c \in DOMAIN calls'
                   /\ calls'[c].event.cell = event.cell /\ calls'[c].event.n <= event.n
        <4>1. CASE c = c0
          BY <1>3, <1>4, <4>1
        <4>2. CASE c # c0
          <5>1. i \in DOMAIN queue /\ c \in queue[i].waiting
            BY <1>6, <2>1, <3>2, <4>2
          <5>2. IsPending(queue[i]) /\ queue[i] \in Item
            BY <1>7, <5>1 DEF IsPending
          <5>3. c \in DOMAIN calls /\ calls[c].event.cell = queue[i].event.cell
            BY <1>1, <5>1, <5>2 DEF SavedInv, Serves
          <5>4. calls[c].event.n <= event.n
            BY <5>3
          <5>5. QED
            BY <1>4, <1>6, <5>1, <5>3, <5>4
        <4>3. QED
          BY <4>1, <4>2
      <3>3. QED
        BY <1>4, <3>1, <3>2 DEF Serves
    <2>2. CASE IsPending(item)
      <3>1. Made(item.event, calls) /\ Serves(item)
        BY <1>1, <2>2 DEF MadeInv, SavedInv
      <3>2. QED
        BY <1>4, <3>1 DEF Serves
    <2>3. QED
      BY <1>10, <1>11, <2>1, <2>2
  <1>12. MadeInv'
    BY <1>1, <1>2, <1>4, <1>11 DEF MadeInv
  <1>13. SavedInv'
    <2>1. ASSUME NEW c \in DOMAIN calls', calls'[c].answer = "saved"
          PROVE  Stored(calls'[c].event, store)
      BY <1>1, <1>4, <2>1 DEF SavedInv
    <2>2. QED
      BY <1>1, <1>2, <1>11, <2>1 DEF SavedInv, Busy
  <1>14. AnswerInv'
    <2>1. ASSUME NEW item \in Item, IsPending(item)
          PROVE  \E k \in Item : IsPending(k)' /\ item.waiting \subseteq k.waiting
      <3>1. CASE \E j \in DOMAIN queue : queue[j] = item
        <4>1. PICK j \in DOMAIN queue : queue[j] = item
          BY <3>1
        <4>2. j \in DOMAIN queue' /\ queue'[j] \in Item
          BY <1>5, <1>6, <1>7, <4>1
        <4>3. item.waiting \subseteq queue'[j].waiting
          BY <1>6, <4>1, <4>2
        <4>4. QED
          BY <4>2, <4>3 DEF IsPending
      <3>2. CASE \E r \in requests : r.item = item
        BY <1>2, <3>2 DEF IsPending
      <3>3. QED
        BY <2>1, <3>1, <3>2 DEF IsPending
    <2>2. ASSUME NEW c \in DOMAIN calls'
          PROVE  /\ calls'[c].answer # "cancelled"
                 /\ calls'[c].answer = "waiting" =>
                       \E item \in Item : IsPending(item)' /\ c \in item.waiting
      <3>1. CASE c \in DOMAIN calls
        <4>1. calls'[c] = calls[c] /\ calls[c].answer # "cancelled"
          BY <1>1, <1>2, <1>4, <3>1 DEF AnswerInv
        <4>2. ASSUME calls[c].answer = "waiting"
              PROVE  \E item \in Item : IsPending(item)' /\ c \in item.waiting
          <5>1. PICK item \in Item : IsPending(item) /\ c \in item.waiting
            BY <1>1, <1>2, <3>1, <4>2 DEF AnswerInv
          <5>2. QED
            BY <2>1, <5>1
        <4>3. QED
          BY <4>1, <4>2
      <3>2. CASE c = c0
        <4>1. calls'[c].answer = "waiting"
          BY <1>4, <3>2
        <4>2. \E item \in Item : IsPending(item)' /\ c \in item.waiting
          <5>1. PICK item \in Item : item = queue'[i]
            BY <1>7
          <5>2. IsPending(item)' /\ c \in item.waiting
            BY <1>6, <3>2, <5>1 DEF IsPending
          <5>3. QED
            BY <5>2
        <4>3. QED
          BY <4>1, <4>2
      <3>3. QED
        BY <1>4, <3>1, <3>2
    <2>3. QED
      BY <1>2, <2>2 DEF AnswerInv
  <1>15. ASSUME NEW cell \in Cells \ splitEdited' PROVE NewestIsLast(cell)'
    <2> DEFINE waits == {k \in DOMAIN queue : queue[k].event.cell = cell}
    <2>1. NewestIsLast(cell) /\ (cell = event.cell => ~Split(cell))
      BY <1>1, <1>2 DEF NewestInv
    <2>2. CASE cell = event.cell
      <3>1. \A k \in waits' : k = i
        <4>1. SUFFICES ASSUME NEW k \in waits', k # i PROVE FALSE
          OBVIOUS
        <4>2. k \in DOMAIN queue /\ queue[k].event.cell = cell
          BY <1>6, <4>1
        <4>3. i \in DOMAIN queue /\ queue[i].event.cell = cell
          BY <1>6, <2>2, <4>2
        <4>4. QED
          BY <1>1, <2>1, <2>2, <4>1, <4>2, <4>3, OneItem
      <3>2. i \in waits'
        BY <1>6, <2>2
      <3>3. \A k \in waits' : Newest(queue'[k].event, calls')
        BY <1>4, <1>6, <3>1
      <3>4. QED
        BY <3>2, <3>3 DEF NewestIsLast
    <2>3. CASE cell # event.cell
      <3>1. \A k : k \in waits' <=> k \in waits
        BY <1>5, <1>6, <2>3
      <3>2. \A k \in waits : queue'[k] = queue[k]
        BY <1>5, <1>6, <2>3
      <3>3. (\E c \in DOMAIN calls' : calls'[c].event.cell = cell) =>
              \E c \in DOMAIN calls : calls[c].event.cell = cell
        BY <1>4, <2>3
      <3>4. ASSUME NEW k \in waits', \A j \in waits' : j <= k
            PROVE  Newest(queue'[k].event, calls')
        <4>1. k \in waits /\ queue'[k] = queue[k] /\ \A j \in waits : j <= k
          BY <3>1, <3>2, <3>4
        <4>2. Newest(queue[k].event, calls)
          BY <2>1, <4>1 DEF NewestIsLast
        <4>3. QED
          BY <1>4, <2>3, <4>1, <4>2
      <3>5. ASSUME waits' = {}, NEW r \in requests, r.item.event.cell = cell
            PROVE  Newest(r.item.event, calls')
        <4>1. waits = {} /\ r \in {k \in requests : k.item.event.cell = cell}
          BY <3>1, <3>5
        <4>2. Newest(r.item.event, calls)
          BY <2>1, <4>1 DEF NewestIsLast
        <4>3. QED
          BY <1>4, <2>3, <3>5, <4>2
      <3>6. ASSUME waits' = {}, {r \in requests : r.item.event.cell = cell} = {},
                   \E c \in DOMAIN calls' : calls'[c].event.cell = cell
            PROVE  \E k \in {l \in DOMAIN store : store[l].cell = cell} :
                      /\ \A j \in {l \in DOMAIN store : store[l].cell = cell} : j <= k
                      /\ Newest(store[k], calls')
        <4>1. PICK k \in {l \in DOMAIN store : store[l].cell = cell} :
                 /\ \A j \in {l \in DOMAIN store : store[l].cell = cell} : j <= k
                 /\ Newest(store[k], calls)
          BY <2>1, <3>1, <3>3, <3>6 DEF NewestIsLast
        <4>2. QED
          BY <1>4, <2>3, <4>1
      <3>7. QED
        BY <1>2, <3>4, <3>5, <3>6 DEF NewestIsLast
    <2>4. QED
      BY <2>2, <2>3
  <1>16. NewestInv'
    BY <1>15 DEF NewestInv
  <1>17. QED
    BY <1>8, <1>9, <1>12, <1>13, <1>14, <1>16 DEF IInv

----------------------------------------------------------------------------
(* The theorems *)

\* autosave() keeps the invariant when its event is as new as every event before it.
LEMMA AutosaveKeeps ==
    ASSUME IInv, NEW event \in Event, Autosave(event),
           \A c \in DOMAIN calls : calls[c].event.n <= event.n, event.n <= Len(calls) + 1
    PROVE  IInv'
  <1>1. CASE AlreadySaved(event) \/ JoinsInFlight(event)
    BY <1>1, JoinKeeps
  <1>2. CASE ~AlreadySaved(event) /\ ~JoinsInFlight(event)
    BY <1>2, EnqueueKeeps
  <1>3. QED
    BY <1>1, <1>2

\* The invariant holds in every state, whatever is edited and however requests fail.
THEOREM Inductive == Spec => []IInv
  <1>1. Init => IInv
    <2> SUFFICES ASSUME Init PROVE IInv
      OBVIOUS
    <2>1. queue = <<>> /\ calls = <<>> /\ store = <<>> /\ requests = {} /\ splitEdited = {}
      BY DEF Init
    <2>2. DOMAIN queue = {} /\ DOMAIN calls = {} /\ DOMAIN store = {}
      BY <2>1
    <2>3. TypesInv
      <3>1. queue \in Seq(Item) /\ calls \in Seq(Call) /\ store \in Seq(Event) /\ Len(calls) = 0
        BY <2>1
      <3>2. Len(calls) <= MaxCalls /\ requests \subseteq Request
        BY <2>1, <3>1, MaxCallsAssumption
      <3>3. /\ debounce \in BOOLEAN /\ retryTimer \in BOOLEAN /\ isSaving \in BOOLEAN
            /\ lastOk \in BOOLEAN /\ mounted \in BOOLEAN
        BY Zenon DEF Init
      <3>4. retryInFlight \in Event \cup {NoEvent} /\ lastSaved \in Event \cup {NoEvent}
        BY DEF Init
      <3>5. QED
        BY <3>1, <3>2, <3>3, <3>4, Zenon DEF TypesInv
    <2>4. OneInv
      BY <2>1 DEF Init, OneInv, Busy
    <2>5. \A item : ~IsPending(item)
      BY <2>1, <2>2 DEF IsPending
    <2>6. MadeInv /\ SavedInv
      BY <2>2, <2>5 DEF Init, MadeInv, SavedInv, Busy
    <2>7. AnswerInv
      BY <2>1, <2>2 DEF AnswerInv
    <2>8. NewestInv
      BY <2>1, <2>2 DEF NewestInv, NewestIsLast
    <2>9. QED
      BY <2>3, <2>4, <2>6, <2>7, <2>8 DEF IInv
  <1>2. IInv /\ [Next]_vars => IInv'
    <2> SUFFICES ASSUME IInv, [Next]_vars PROVE IInv'
      OBVIOUS
    <2>1. /\ Len(calls) \in Nat /\ DOMAIN calls = 1..Len(calls)
          /\ \A c \in DOMAIN calls : calls[c] \in Call /\ calls[c].event.n <= c
          /\ \A c, d \in DOMAIN calls : c <= d => calls[c].event.n <= calls[d].event.n
          /\ retryTimer \in BOOLEAN /\ debounce \in BOOLEAN
      BY Elements DEF IInv, TypesInv, MadeInv
    <2>2. ASSUME NEW cell \in Cells, EditCell(cell) PROVE IInv'
      <3> DEFINE event == [cell |-> cell, n |-> Len(calls) + 1]
      <3>1. Autosave(event) /\ Len(calls) + 1 <= MaxCalls
        BY <2>2 DEF EditCell, Autosave
      <3>2. event \in Event /\ event.n = Len(calls) + 1
        BY <2>1, <3>1, MaxCallsAssumption DEF Event
      <3>3. \A c \in DOMAIN calls : calls[c].event.n <= Len(calls) + 1
        <4>1. ASSUME NEW c \in DOMAIN calls PROVE calls[c].event.n <= Len(calls) + 1
          <5>1. calls[c].event.n \in Nat
            BY <2>1 DEF Call, Event
          <5>2. calls[c].event.n <= c /\ c \in 1..Len(calls)
            BY <2>1
          <5>3. QED
            BY <2>1, <5>1, <5>2
        <4>2. QED
          BY <4>1
      <3> HIDE DEF event
      <3>4. QED
        BY <2>1, <3>1, <3>2, <3>3, AutosaveKeeps
    <2>3. ASSUME RepeatEdit PROVE IInv'
      <3> DEFINE last == Len(calls)
      <3>1. calls # <<>> /\ Autosave(calls[last].event)
        BY <2>3 DEF RepeatEdit
      <3>2. last \in DOMAIN calls /\ last \in Nat
        <4>1. calls \in Seq(Call)
          BY DEF IInv, TypesInv
        <4>2. last # 0
          BY <3>1, <4>1, EmptySeq
        <4>3. QED
          BY <2>1, <4>2
      <3>3. calls[last].event \in Event /\ calls[last].event.n <= last
        BY <2>1, <3>2 DEF Call
      <3>4. calls[last].event.n <= last + 1
        BY <3>2, <3>3 DEF Event
      <3>5. \A c \in DOMAIN calls : calls[c].event.n <= calls[last].event.n
        BY <2>1, <3>2
      <3>6. QED
        BY <3>1, <3>3, <3>4, <3>5, AutosaveKeeps
    <2>4. CASE DebounceTimer
      <3>1. debounce /\ debounce' = FALSE
            /\ RunRetryQueue(queue, retryInFlight, requests, retryTimer)
            /\ UNCHANGED <<lastSaved, lastOk, calls, splitEdited, mounted, store>>
        BY <2>4 DEF DebounceTimer
      <3>2. QED
        BY <2>1, <3>1, RunKeeps
    <2>5. CASE RetryTimer
      <3>1. retryTimer /\ RunRetryQueue(queue, retryInFlight, requests, FALSE)
            /\ UNCHANGED <<debounce, lastSaved, lastOk, calls, splitEdited, mounted, store>>
        BY <2>5 DEF RetryTimer
      <3>2. QED
        BY <2>1, <3>1, RunKeeps
    <2>6. CASE Flush
      <3>1. mounted /\ debounce' = FALSE /\ RunRetryQueue(queue, retryInFlight, requests, FALSE)
            /\ UNCHANGED <<lastSaved, lastOk, calls, splitEdited, mounted, store>>
        BY <2>6 DEF Flush
      <3>2. QED
        BY <2>1, <3>1, RunKeeps
    <2>7. ASSUME NEW r \in requests, Accepted(r) \/ Failed(r) PROVE IInv'
      BY <2>7, AcceptedKeeps, FailedKeeps
    <2>8. CASE Cancel
      BY <2>8, CancelKeeps
    <2>9. CASE UNCHANGED vars
      <3>1. /\ queue' = queue /\ retryInFlight' = retryInFlight /\ requests' = requests
            /\ debounce' = debounce /\ retryTimer' = retryTimer /\ isSaving' = isSaving
            /\ lastSaved' = lastSaved /\ lastOk' = lastOk /\ calls' = calls
            /\ splitEdited' = splitEdited /\ mounted' = mounted /\ store' = store
        BY <2>9 DEF vars, hook
      <3>2. TypesInv' /\ OneInv' /\ MadeInv' /\ SavedInv' /\ AnswerInv' /\ NewestInv'
        BY <3>1 DEF IInv, TypesInv, OneInv, MadeInv, SavedInv, AnswerInv, NewestInv, NewestIsLast,
                    IsPending, Serves, Busy
      <3>3. QED
        BY <3>2 DEF IInv
    <2>10. CASE Idle
      BY <2>9, <2>10 DEF Idle
    <2>11. QED
      BY <2>2, <2>3, <2>4, <2>5, <2>6, <2>7, <2>8, <2>9, <2>10 DEF Next
  <1>3. QED
    BY <1>1, <1>2, PTL DEF Spec

\* A promise reported kept is kept: the server has the edit or a later one of its cell.
\* Nothing but saved edits is left when the tab stops showing "Saving", and two requests
\* are never out at once.
THEOREM Saved == Spec => []SavedMeansStored
  <1>1. IInv => SavedMeansStored
    <2> SUFFICES ASSUME IInv PROVE SavedMeansStored
      OBVIOUS
    <2>1. OneInv /\ SavedInv /\ AnswerInv /\ TypesInv
      BY DEF IInv
    <2>2. ASSUME NEW c \in DOMAIN calls, calls[c].answer = "saved"
          PROVE  \E e \in ToSet(store) : e.cell = calls[c].event.cell /\ e.n >= calls[c].event.n
      <3>1. PICK i \in DOMAIN store :
               store[i].cell = calls[c].event.cell /\ store[i].n >= calls[c].event.n
        BY <2>1, <2>2 DEF SavedInv, Stored
      <3>2. store[i] \in ToSet(store)
        BY DEF ToSet
      <3>3. QED
        BY <3>1, <3>2
    <2>3. ASSUME mounted, ~isSaving, NEW c \in DOMAIN calls PROVE calls[c].answer = "saved"
      <3>1. \A item : ~IsPending(item)
        <4>1. queue = <<>> /\ requests = {}
          BY <2>1, <2>3 DEF AnswerInv
        <4>2. DOMAIN queue = {}
          BY <4>1
        <4>3. QED
          BY <4>1, <4>2 DEF IsPending
      <3>2. calls[c].answer \notin {"waiting", "cancelled"}
        BY <2>1, <2>3, <3>1 DEF AnswerInv
      <3>3. calls[c] \in Call
        BY <2>1, Elements
      <3>4. QED
        BY <3>2, <3>3 DEF Call
    <2>4. Cardinality(requests) <= 1
      <3>1. CASE requests = {}
        <4>1. Cardinality(requests) = 0
          BY <3>1, FS_EmptySet
        <4>2. QED
          BY <4>1
      <3>2. CASE requests # {}
        <4>1. PICK r \in requests : TRUE
          BY <3>2
        <4>2. requests = {r}
          BY <2>1, <4>1 DEF OneInv
        <4>3. Cardinality(requests) = 1
          BY <4>2, FS_Singleton
        <4>4. QED
          BY <4>3
      <3>3. QED
        BY <3>1, <3>2
    <2>5. mounted => (Busy(retryInFlight) <=> requests # {})
      BY <2>1 DEF OneInv
    <2>6. QED
      BY <2>2, <2>3, <2>4, <2>5 DEF SavedMeansStored
  <1>2. QED
    BY <1>1, Inductive, PTL

\* Refusals, lost answers, retries and coalescing leave the newest edit of a cell last at
\* the server, unless the cell was edited while the queue held it twice.
THEOREM NewestLast == Spec => []NewestWinsUnlessSplit
  <1>1. IInv => NewestWinsUnlessSplit
    <2> SUFFICES ASSUME IInv, mounted, ~isSaving, NEW cell \in Cells \ splitEdited
                 PROVE  NewestAppendedLast(cell)
      BY DEF NewestWinsUnlessSplit
    <2> DEFINE ofCell   == {d \in DOMAIN calls : calls[d].event.cell = cell}
               made     == {calls[c].event.n : c \in ofCell}
               appended == {i \in DOMAIN store : store[i].cell = cell}
    <2>1. queue = <<>> /\ requests = {} /\ NewestIsLast(cell)
      BY DEF IInv, AnswerInv, NewestInv
    <2>2. DOMAIN queue = {}
      BY <2>1
    <2>3. ASSUME made # {} PROVE appended # {} /\ store[Max(appended)].n = Max(made)
      <3>1. \E c \in DOMAIN calls : calls[c].event.cell = cell
        BY <2>3
      <3>2. PICK i \in appended : (\A j \in appended : j <= i) /\ Newest(store[i], calls)
        BY <2>1, <2>2, <3>1 DEF NewestIsLast
      <3>3. DOMAIN store = 1..Len(store) /\ Len(store) \in Nat /\ \A c \in DOMAIN calls : calls[c] \in Call
        BY Elements DEF IInv
      <3>4. \A j \in appended : j \in Nat
        BY <3>3
      <3>5. store[i].cell = cell
        OBVIOUS
      <3>6. PICK c \in DOMAIN calls : calls[c].event = store[i]
        BY <3>2 DEF Newest, Made
      <3>7. c \in ofCell /\ calls[c].event.n = store[i].n
        BY <3>5, <3>6
      <3>8. store[i].n \in made
        BY <3>7
      <3>9. \A d \in ofCell : calls[d].event.n <= store[i].n
        BY <3>2, <3>5 DEF Newest
      <3>10. \A m \in made : m \in Nat /\ m <= store[i].n
        BY <3>3, <3>9 DEF Call, Event
      <3> HIDE DEF ofCell, made, appended
      <3>11. Max(appended) = i
        BY <3>2, <3>4 DEF Max
      <3>12. Max(made) = store[i].n
        BY <3>8, <3>10 DEF Max
      <3>13. QED
        BY <3>2, <3>11, <3>12
    <2>4. QED
      BY <2>3 DEF NewestAppendedLast
  <1>2. QED
    BY <1>1, Inductive, PTL
=============================================================================
