--------------------------- MODULE Eea1PageProofs ---------------------------
(***************************************************************************)
(* Theorems about Eea1Page for every set of fields, encrypted and excluded  *)
(* ones, and any number of edits.                                           *)
(***************************************************************************)
EXTENDS Eea1Page, SequenceTheorems, TLAPS

\* The inductive invariant.  A request is in one place only; in a field without
\* trouble the requests of the hook do not overlap.
UnderWay == sent \cup {h.id : h \in handling}

OnePlace ==
    /\ \A h, g \in handling : h.id = g.id => h = g
    /\ \A h \in handling : h.id \notin sent
    /\ \A a \in answers : a.id \notin UnderWay

\* Without the consent nothing was entered, and the gate was not left.
ConsentGiven ==
    /\ gate = "passed" => consented
    /\ gate # "passed" => ~timer /\ bodies = <<>> /\ typed = Nothing

\* pending holds newest edits, with the timer armed; so does the newest request.
NewestOnly ==
    /\ active = Len(bodies)
    /\ timer => mounted
    /\ \A f \in Fields :
          /\ pending[f] # 0 => pending[f] = typed[f] /\ (mounted => timer)
          /\ active # 0 /\ pending[f] = 0 /\ bodies[active][f] # 0
                => bodies[active][f] = typed[f]
          /\ typed[f] = 0 => /\ row[f] = 0 /\ pending[f] = 0
                             /\ \A id \in RequestIds : bodies[id][f] = 0

UntroubledAlone ==
    \A f \in Fields \ troubled :
        /\ \A id \in UnderWay : bodies[id][f] # 0 => id = active /\ (mounted => isPending)
        /\ \A h \in handling : bodies[h.id][f] # 0 => h.seen[f] = row[f]
        /\ \A a \in answers : a.ok /\ a.id = active /\ bodies[a.id][f] # 0
                                => row[f] = bodies[a.id][f]

ReadBodiesAreAccepted == \A h \in handling : \A f \in Pii : bodies[h.id][f] = 0

\* Every step is one of these kinds, most of which leave most variables alone.
GateStep == SubmitConsent \/ ConsentRecorded \/ ConsentFailed

ClientStep ==
    \/ \E f \in Fields : SaveField(f)
    \/ Flush \/ ConnectionLost \/ Leave
    \/ \E a \in answers : AnswerArrives(a)

ServerStep ==
    \/ \E id \in sent : Dropped(id) \/ Refuse(id) \/ ReadDeclaration(id)
    \/ \E h \in handling : StampEvents(h) \/ CommitPatch(h) \/ RollbackPatch(h)

\* Next is made of the steps of the gate, of the hook and of the handlers.
LEMMA StepCases ==
    ASSUME [Next]_vars
    PROVE  GateStep \/ ClientStep \/ ServerStep \/ UNCHANGED vars
  BY DEF Next, GateStep, ClientStep, ServerStep, AtRest

\* Handlers of given requests.
Handlers(ids) == [id : ids, seen : Body, at : Nat, after : [Fields -> Nat]]

\* Requests, handlers and audit events keep their types: no request has the number
\* of another one, and no event a value that nobody entered.
THEOREM TypeCorrect == Spec => []TypeOK
  <1>1. Init => TypeOK
    <2>1. SUFFICES ASSUME Init PROVE TypeOK
      OBVIOUS
    <2>2. trail \in [Fields -> Seq(Events)] /\ bodies \in Seq(Body)
      BY <2>1 DEF Init
    <2>3. Nothing \in Body
      BY BoundsAssumption DEF Nothing, Body
    <2>4. active \in 0..Len(bodies) /\ edits \in 0..MaxEdits
      BY <2>1, BoundsAssumption DEF Init
    <2>5. QED
      BY <2>1, <2>2, <2>3, <2>4 DEF Init, TypeOK
  <1>2. TypeOK /\ [Next]_vars => TypeOK'
    <2>1. SUFFICES ASSUME TypeOK, [Next]_vars PROVE TypeOK'
      OBVIOUS
    <2>a. MaxEdits \in Nat /\ Pii \subseteq Fields /\ Excluded \subseteq Fields
      BY FieldsAssumption, BoundsAssumption
    <2>2. CASE UNCHANGED vars
      <3>1. RequestIds' = RequestIds
        BY <2>2 DEF vars, history, RequestIds
      <3>2. QED
        BY <2>1, <2>2, <3>1 DEF vars, client, server, wire, history, TypeOK
    <2>3. CASE GateStep
      <3>1. RequestIds' = RequestIds
        BY <2>3 DEF GateStep, SubmitConsent, ConsentRecorded, ConsentFailed, history, RequestIds
      <3>2. QED
        BY <2>1, <2>3, <3>1 DEF GateStep, SubmitConsent, ConsentRecorded, ConsentFailed,
                                GateAfterFailure, client, server, wire, history, TypeOK
    <2>4. CASE ClientStep
      <3>1. ASSUME NEW f \in Fields, SaveField(f) PROVE TypeOK'
        <4>1. edits + 1 \in 1..MaxEdits /\ edits' \in 0..MaxEdits
          BY <2>a, <2>1, <3>1 DEF SaveField, TypeOK
        <4>2. pending' \in Body /\ typed' \in Body /\ timer' \in BOOLEAN
          BY <2>a, <2>1, <3>1, <4>1 DEF SaveField, TypeOK, Merged, Body, client
        <4>3. accepted' \subseteq 1..MaxEdits
          BY <2>1, <3>1, <4>1 DEF SaveField, TypeOK
        <4>4. RequestIds' = RequestIds
          BY <3>1 DEF SaveField, RequestIds
        <4>5. UNCHANGED <<gate, consented, active, isPending, lastError, mounted,
                          server, wire, bodies, troubled>>
          BY <3>1 DEF SaveField, client
        <4>6. QED
          BY <2>1, <4>1, <4>2, <4>3, <4>4, <4>5 DEF server, wire, TypeOK
      <3>2. CASE Flush
        <4>1. bodies' \in Seq(Body) /\ Len(bodies') = Len(bodies) + 1
          BY <2>1, <3>2 DEF Flush, TypeOK
        <4>2. RequestIds \subseteq RequestIds' /\ Len(bodies) + 1 \in RequestIds'
          BY <2>1, <4>1 DEF RequestIds, TypeOK
        <4>3. pending' \in Body /\ troubled' \subseteq Fields
          BY <2>a, <2>1, <3>2 DEF Flush, TypeOK, Nothing, Body, Named
        <4>4. /\ active' \in 0..Len(bodies')
              /\ isPending' \in BOOLEAN /\ timer' \in BOOLEAN
          <5>1. active' = Len(bodies) + 1 /\ Len(bodies) \in Nat
            BY <2>1, <3>2 DEF Flush, TypeOK
          <5>2. isPending' = TRUE /\ timer' = FALSE
            BY <3>2 DEF Flush
          <5>3. active' \in 0..Len(bodies')
            BY <4>1, <5>1
          <5>4. QED
            BY <5>2, <5>3
        <4>5. sent' \subseteq RequestIds'
          BY <2>1, <3>2, <4>2 DEF Flush, TypeOK
        <4>6. /\ handling' \subseteq Handlers(RequestIds')
              /\ answers' \subseteq [id : RequestIds', ok : BOOLEAN]
          BY <2>1, <3>2, <4>2 DEF Flush, TypeOK, Handlers
        <4>7. UNCHANGED <<gate, consented, lastError, mounted, server, edits, typed, accepted>>
          BY <3>2 DEF Flush
        <4>8. QED
          BY <2>1, <4>1, <4>3, <4>4, <4>5, <4>6, <4>7 DEF server, Handlers, TypeOK
      <3>3. ASSUME NEW id, NEW failed \in BOOLEAN, Settles(id, failed)
            PROVE  /\ isPending' \in BOOLEAN /\ lastError' \in BOOLEAN /\ troubled' \subseteq Fields
                   /\ UNCHANGED <<pending, timer, active, mounted>>
        BY <2>1, <3>3 DEF Settles, PendingAfterAnswer, Named, client, TypeOK
      <3>4. CASE ConnectionLost
        <4>1. RequestIds' = RequestIds
          BY <3>4 DEF ConnectionLost, RequestIds
        <4>2. Settles(active, TRUE)
          BY <3>4 DEF ConnectionLost
        <4>3. UNCHANGED <<gate, consented, server, wire, edits, typed, accepted, bodies>>
          BY <3>4 DEF ConnectionLost
        <4>4. QED
          BY <2>1, <3>3, <4>1, <4>2, <4>3 DEF server, wire, TypeOK
      <3>5. CASE Leave
        <4>1. RequestIds' = RequestIds
          BY <3>5 DEF Leave, history, RequestIds
        <4>2. QED
          BY <2>1, <3>5, <4>1 DEF Leave, server, wire, history, TypeOK
      <3>6. ASSUME NEW a \in answers, AnswerArrives(a) PROVE TypeOK'
        <4>1. (~a.ok) \in BOOLEAN /\ Settles(a.id, ~a.ok)
          BY <3>6 DEF AnswerArrives
        <4>2. RequestIds' = RequestIds
          BY <3>6 DEF AnswerArrives, RequestIds
        <4>3. UNCHANGED <<gate, consented, server, sent, handling, edits, typed, accepted, bodies>>
          BY <3>6 DEF AnswerArrives
        <4>4. answers' \subseteq answers
          BY <3>6 DEF AnswerArrives
        <4>5. QED
          BY <2>1, <3>3, <4>1, <4>2, <4>3, <4>4 DEF server, TypeOK
      <3>7. QED
        BY <2>4, <3>1, <3>2, <3>4, <3>5, <3>6 DEF ClientStep
    <2>5. CASE ServerStep
      <3>1. ASSUME NEW id \in sent, Dropped(id) \/ Refuse(id) \/ ReadDeclaration(id)
            PROVE  TypeOK'
        <4>1. RequestIds' = RequestIds /\ id \in RequestIds
          BY <2>1, <3>1 DEF Dropped, Refuse, ReadDeclaration, history, RequestIds, TypeOK
        <4>2. sent' \subseteq sent
          BY <3>1 DEF Dropped, Refuse, ReadDeclaration
        <4>3. answers' \subseteq [id : RequestIds, ok : BOOLEAN]
          <5>1. [id |-> id, ok |-> FALSE] \in [id : RequestIds, ok : BOOLEAN]
            BY <4>1
          <5>2. answers \subseteq [id : RequestIds, ok : BOOLEAN]
            BY <2>1 DEF TypeOK
          <5>3. answers' \subseteq answers \cup {[id |-> id, ok |-> FALSE]}
            BY <3>1 DEF Dropped, Refuse, ReadDeclaration
          <5>4. QED
            BY <5>1, <5>2, <5>3
        <4>4. handling' \subseteq Handlers(RequestIds)
          <5>1. [f \in Fields |-> Len(trail[f])] \in [Fields -> Nat]
            BY <2>1 DEF TypeOK
          <5>2. [id |-> id, seen |-> row, at |-> 0, after |-> [f \in Fields |-> Len(trail[f])]]
                   \in Handlers(RequestIds)
            BY <2>1, <4>1, <5>1 DEF Handlers, TypeOK
          <5>3. QED
            BY <2>1, <3>1, <5>2 DEF Dropped, Refuse, ReadDeclaration, Handlers, TypeOK
        <4>5. UNCHANGED <<gate, consented, client, server, history>>
          BY <3>1 DEF Dropped, Refuse, ReadDeclaration
        <4>6. QED
          BY <2>1, <4>1, <4>2, <4>3, <4>4, <4>5 DEF client, server, history, Handlers, TypeOK
      <3>2. ASSUME NEW h \in handling, NEW ok \in BOOLEAN, Answered(h, ok),
                   row' \in Body, trail' \in [Fields -> Seq(Events)], clock' = clock
            PROVE  TypeOK'
        <4>1. RequestIds' = RequestIds /\ h.id \in RequestIds
          BY <2>1, <3>2 DEF Answered, history, RequestIds, TypeOK
        <4>2. answers' \subseteq [id : RequestIds, ok : BOOLEAN]
          BY <2>1, <3>2, <4>1 DEF Answered, TypeOK
        <4>3. handling' \subseteq handling /\ UNCHANGED <<gate, consented, client, sent, history>>
          BY <3>2 DEF Answered
        <4>4. QED
          BY <2>1, <3>2, <4>1, <4>2, <4>3 DEF client, history, TypeOK
      <3>3. ASSUME NEW h \in handling, CommitPatch(h) PROVE TypeOK'
        <4>1. /\ h.id \in RequestIds /\ bodies[h.id] \in Body /\ h.seen \in Body
              /\ h.at \in Nat /\ h.after \in [Fields -> Nat]
          BY <2>1 DEF TypeOK, RequestIds
        <4>2. row' \in Body
          BY <2>1, <3>3, <4>1 DEF CommitPatch, RowAfter, Body, TypeOK
        <4>3. ASSUME NEW f \in Fields, f \in Named(bodies[h.id])
              PROVE  [prev |-> PrevValue(h, f), new |-> bodies[h.id][f],
                      at |-> h.at, after |-> h.after[f]] \in Events
          BY <2>a, <4>1, <4>3 DEF Named, PrevValue, Body, Events
        <4>4. trail' \in [Fields -> Seq(Events)]
          BY <2>1, <3>3, <4>3 DEF CommitPatch, TypeOK
        <4>5. QED
          BY <3>2, <3>3, <4>2, <4>4 DEF CommitPatch
      <3>4. ASSUME NEW h \in handling, RollbackPatch(h) PROVE TypeOK'
        BY <2>1, <3>2, <3>4 DEF RollbackPatch, server, TypeOK
      <3>5. ASSUME NEW h \in handling, StampEvents(h) PROVE TypeOK'
        <4>1. /\ clock' \in Nat /\ clock \in Nat
              /\ handling' = (handling \ {h}) \cup {[h EXCEPT !.at = clock']}
          BY <2>1, <3>5 DEF StampEvents, CreatedAt, TypeOK
        <4>2. [h EXCEPT !.at = clock'] \in Handlers(RequestIds)
          BY <2>1, <4>1 DEF Handlers, TypeOK
        <4>3. handling' \subseteq Handlers(RequestIds) /\ RequestIds' = RequestIds
          BY <2>1, <3>5, <4>1, <4>2 DEF StampEvents, Handlers, history, RequestIds, TypeOK
        <4>4. UNCHANGED <<gate, consented, client, row, trail, sent, answers, history>>
          BY <3>5 DEF StampEvents
        <4>5. QED
          BY <2>1, <4>1, <4>3, <4>4 DEF Handlers, client, history, TypeOK
      <3>6. QED
        BY <2>5, <3>1, <3>3, <3>4, <3>5 DEF ServerStep
    <2>6. QED
      BY <2>1, <2>2, <2>3, <2>4, <2>5, StepCases
  <1>3. QED
    BY <1>1, <1>2, PTL DEF Spec

----------------------------------------------------------------------------
\* What a step does not do: requests keep their bodies, and only a commit writes the
\* declaration and its events.
LEMMA BodiesStay ==
    ASSUME TypeOK, [Next]_vars, NEW id \in RequestIds
    PROVE  id \in RequestIds' /\ bodies'[id] = bodies[id] /\ id \in 1..Len(bodies)
  <1>1. bodies' = bodies \/ Flush
    BY StepCases DEF GateStep, SubmitConsent, ConsentRecorded, ConsentFailed, ClientStep, SaveField,
         ConnectionLost, AnswerArrives, Leave, ServerStep, Dropped, Refuse, ReadDeclaration,
         StampEvents, CommitPatch, RollbackPatch, Answered, history, vars
  <1>2. bodies \in Seq(Body) /\ id \in 1..Len(bodies)
    BY DEF TypeOK, RequestIds
  <1>3. CASE bodies' = bodies
    BY <1>2, <1>3 DEF RequestIds
  <1>4. CASE Flush
    <2>1. bodies' = Append(bodies, pending) /\ pending \in Body
      BY <1>4 DEF Flush, TypeOK
    <2>2. bodies'[id] = bodies[id] /\ id \in DOMAIN bodies'
      BY <1>2, <2>1
    <2>3. QED
      BY <1>2, <2>2 DEF RequestIds
  <1>5. QED
    BY <1>1, <1>3, <1>4

LEMMA OnlyCommitsWrite ==
    ASSUME [Next]_vars
    PROVE  UNCHANGED <<row, trail>> \/ \E h \in handling : CommitPatch(h)
  BY StepCases DEF GateStep, SubmitConsent, ConsentRecorded, ConsentFailed, ClientStep, SaveField,
       Flush, ConnectionLost, AnswerArrives, Leave, ServerStep, Dropped, Refuse, ReadDeclaration,
       StampEvents, RollbackPatch, server, vars

\* The event a handler has for a field.
EventOf(h, f) ==
    [prev |-> h.seen[f], new |-> bodies[h.id][f], at |-> h.at, after |-> h.after[f]]

\* A commit appends its event to the fields its body names, and to no other.
LEMMA CommitWrites ==
    ASSUME TypeOK, NEW h \in handling, CommitPatch(h), NEW f \in Fields
    PROVE  /\ h.id \in RequestIds /\ h.seen \in Body /\ bodies[h.id] \in Body
           /\ h.at # 0 /\ clock' = clock /\ handling' = handling \ {h}
           /\ bodies[h.id][f] = 0 => row'[f] = row[f] /\ trail'[f] = trail[f]
           /\ bodies[h.id][f] # 0 =>
                 /\ row'[f] = bodies[h.id][f]
                 /\ trail'[f] = Append(trail[f], EventOf(h, f))
                 /\ EventOf(h, f) \in Events
  <1>1. /\ h.id \in RequestIds /\ h.seen \in Body /\ bodies[h.id] \in Body
        /\ h.at \in Nat /\ h.after \in [Fields -> Nat]
    BY DEF TypeOK, RequestIds
  <1>2. bodies[h.id][f] # 0 => EventOf(h, f) \in Events
    BY <1>1, BoundsAssumption DEF Body, Events, EventOf
  <1>3. QED
    BY <1>1, <1>2 DEF CommitPatch, RowAfter, Named, PrevValue, TypeOK, EventOf, Answered

\* A handler appears when it reads the row, and changes only when its events are stamped.
LEMMA HandlerSteps ==
    ASSUME [Next]_vars, NEW h \in handling'
    PROVE  \/ h \in handling
           \/ \E id \in sent :
                 /\ ReadDeclaration(id)
                 /\ h = [id |-> id, seen |-> row, at |-> 0,
                         after |-> [f \in Fields |-> Len(trail[f])]]
           \/ \E g \in handling : StampEvents(g) /\ h = [g EXCEPT !.at = clock']
  BY StepCases
  DEF GateStep, SubmitConsent, ConsentRecorded, ConsentFailed, ClientStep, SaveField,
      Flush, ConnectionLost, AnswerArrives, Leave, ServerStep, Dropped, Refuse,
      ReadDeclaration, StampEvents, CreatedAt, CommitPatch, RollbackPatch, Answered, wire, vars

\* The clock moves only when events are stamped.
LEMMA ClockSteps ==
    ASSUME TypeOK, [Next]_vars
    PROVE  clock \in Nat /\ clock' \in Nat /\ clock <= clock'
  <1>1. clock' = clock \/ clock' = clock + 1
    BY StepCases
    DEF GateStep, SubmitConsent, ConsentRecorded, ConsentFailed, ClientStep, SaveField,
        Flush, ConnectionLost, AnswerArrives, Leave, ServerStep, Dropped, Refuse,
        ReadDeclaration, StampEvents, CommitPatch, RollbackPatch, server, vars
  <1>2. QED
    BY <1>1 DEF TypeOK

\* "The only path to calling onConsent()" is a recorded consent: what the employee
\* enters is not sent before.
THEOREM Consent == Spec => []DataOnlyAfterConsent
  <1>1. Init => ConsentGiven
    BY DEF Init, ConsentGiven
  <1>2. TypeOK /\ ConsentGiven /\ [Next]_vars => ConsentGiven'
    <2>1. SUFFICES ASSUME TypeOK, ConsentGiven, [Next]_vars PROVE ConsentGiven'
      OBVIOUS
    <2>2. CASE UNCHANGED vars
      BY <2>1, <2>2 DEF vars, client, history, ConsentGiven
    <2>3. CASE GateStep
      <3>1. UNCHANGED <<timer, bodies, typed>>
        BY <2>3 DEF GateStep, SubmitConsent, ConsentRecorded, ConsentFailed, client, history
      <3>2. /\ gate' = "passed" => consented'
            /\ gate' # "passed" => gate # "passed"
        BY <2>3 DEF GateStep, SubmitConsent, ConsentRecorded, ConsentFailed, GateAfterFailure
      <3>3. QED
        BY <2>1, <3>1, <3>2 DEF ConsentGiven
    <2>4. CASE ClientStep
      <3>1. UNCHANGED <<gate, consented>>
        BY <2>4 DEF ClientStep, SaveField, Flush, ConnectionLost, AnswerArrives, Leave
      <3>2. gate # "passed" => UNCHANGED <<typed, bodies>> /\ timer' = FALSE
        BY <2>1, <2>4 DEF ClientStep, SaveField, Flush, ConnectionLost, AnswerArrives, Leave,
                          Settles, client, history, ConsentGiven, TypeOK
      <3>3. QED
        BY <2>1, <3>1, <3>2 DEF ConsentGiven
    <2>5. CASE ServerStep
      BY <2>1, <2>5 DEF ServerStep, Dropped, Refuse, ReadDeclaration, StampEvents, CommitPatch,
                        RollbackPatch, Answered, client, history, ConsentGiven
    <2>6. QED
      BY <2>1, <2>2, <2>3, <2>4, <2>5, StepCases
  <1>3. ConsentGiven => DataOnlyAfterConsent
    BY DEF ConsentGiven, DataOnlyAfterConsent, Nothing
  <1>4. QED
    BY <1>1, <1>2, <1>3, TypeCorrect, PTL DEF Spec

\* The stamps: no event is stamped later than now, and a handler stamps its events no
\* earlier than those its row is from.
StampedAfter(h) ==
    \A f \in Fields : \A i \in 1..h.after[f] : trail[f][i].at <= h.at

StampInv ==
    /\ \A f \in Fields : \A i \in 1..Len(trail[f]) : trail[f][i].at <= clock
    /\ \A h \in handling :
          /\ h.at <= clock
          /\ \A f \in Fields : h.after[f] <= Len(trail[f])
          /\ h.at # 0 => StampedAfter(h)

\* What the events and the handlers are.
LEMMA EventTypes ==
    ASSUME TypeOK
    PROVE  /\ \A f \in Fields : /\ trail[f] \in Seq(Events) /\ Len(trail[f]) \in Nat
                                 /\ DOMAIN trail[f] = 1..Len(trail[f])
                                 /\ \A i \in 1..Len(trail[f]) :
                                       trail[f][i].at \in Nat /\ trail[f][i].after \in Nat
           /\ \A h \in handling : h.at \in Nat /\ \A f \in Fields : h.after[f] \in Nat
  <1>1. ASSUME NEW f \in Fields
        PROVE  /\ trail[f] \in Seq(Events) /\ Len(trail[f]) \in Nat
               /\ DOMAIN trail[f] = 1..Len(trail[f])
    BY DEF TypeOK
  <1>2. ASSUME NEW f \in Fields, NEW i \in 1..Len(trail[f])
        PROVE  trail[f][i].at \in Nat /\ trail[f][i].after \in Nat
    <2>1. trail[f][i] \in Events
      BY <1>1, <1>2
    <2>2. QED
      BY <2>1 DEF Events
  <1>3. \A h \in handling : h.at \in Nat /\ \A f \in Fields : h.after[f] \in Nat
    BY DEF TypeOK
  <1>4. QED
    BY <1>1, <1>2, <1>3

\* A step keeps what the trail holds; what it appends is the event of a handler that
\* commits.
LEMMA TrailGrows ==
    ASSUME TypeOK, [Next]_vars, NEW f \in Fields
    PROVE  \/ trail'[f] = trail[f] /\ row'[f] = row[f]
           \/ \E h \in handling :
                 /\ CommitPatch(h) /\ h.at # 0 /\ clock' = clock
                 /\ bodies[h.id][f] # 0 /\ row'[f] = bodies[h.id][f]
                 /\ Len(trail'[f]) = Len(trail[f]) + 1
                 /\ DOMAIN trail'[f] = 1..(Len(trail[f]) + 1)
                 /\ \A i \in 1..Len(trail[f]) : trail'[f][i] = trail[f][i]
                 /\ trail'[f][Len(trail[f]) + 1] = EventOf(h, f)
  <1>1. CASE UNCHANGED <<row, trail>>
    BY <1>1
  <1>2. ASSUME NEW h \in handling, CommitPatch(h), bodies[h.id][f] # 0
        PROVE  /\ h.at # 0 /\ clock' = clock /\ row'[f] = bodies[h.id][f]
               /\ Len(trail'[f]) = Len(trail[f]) + 1
               /\ DOMAIN trail'[f] = 1..(Len(trail[f]) + 1)
               /\ \A i \in 1..Len(trail[f]) : trail'[f][i] = trail[f][i]
               /\ trail'[f][Len(trail[f]) + 1] = EventOf(h, f)
    <2>1. /\ h.at # 0 /\ clock' = clock /\ row'[f] = bodies[h.id][f]
          /\ trail'[f] = Append(trail[f], EventOf(h, f)) /\ EventOf(h, f) \in Events
      BY <1>2, CommitWrites
    <2>2. trail[f] \in Seq(Events)
      BY EventTypes
    <2> DEFINE e == EventOf(h, f)
    <2> HIDE DEF e
    <2>3. e \in Events /\ trail'[f] = Append(trail[f], e)
      BY <2>1 DEF e
    <2>4. /\ Len(trail'[f]) = Len(trail[f]) + 1
          /\ DOMAIN trail'[f] = 1..(Len(trail[f]) + 1)
          /\ \A i \in 1..Len(trail[f]) : trail'[f][i] = trail[f][i]
          /\ trail'[f][Len(trail[f]) + 1] = e
      BY <2>2, <2>3
    <2>5. QED
      BY <2>1, <2>4 DEF e
  <1>3. ASSUME NEW h \in handling, CommitPatch(h), bodies[h.id][f] = 0
        PROVE  trail'[f] = trail[f] /\ row'[f] = row[f]
    BY <1>3, CommitWrites
  <1>4. QED
    BY <1>1, <1>2, <1>3, OnlyCommitsWrite

\* The invariant of the stamps is inductive.
LEMMA StampStep == TypeOK /\ StampInv /\ [Next]_vars => StampInv'
  <1> SUFFICES ASSUME TypeOK, StampInv, [Next]_vars PROVE StampInv'
    OBVIOUS
  <1>1. ASSUME NEW f \in Fields, NEW i \in 1..Len(trail'[f])
        PROVE  trail'[f][i].at <= clock'
    <2>1. CASE trail'[f] = trail[f]
      BY <1>1, <2>1, ClockSteps, EventTypes DEF StampInv
    <2>2. ASSUME NEW h \in handling, clock' = clock,
                 Len(trail'[f]) = Len(trail[f]) + 1,
                 \A j \in 1..Len(trail[f]) : trail'[f][j] = trail[f][j],
                 trail'[f][Len(trail[f]) + 1] = EventOf(h, f)
          PROVE  trail'[f][i].at <= clock'
      <3>1. CASE i = Len(trail[f]) + 1
        BY <2>2, <3>1 DEF StampInv, EventOf
      <3>2. CASE i # Len(trail[f]) + 1
        <4>1. i \in 1..Len(trail[f])
          BY <1>1, <2>2, <3>2, EventTypes
        <4>2. QED
          BY <2>2, <4>1 DEF StampInv
      <3>3. QED
        BY <3>1, <3>2
    <2>3. QED
      BY <2>1, <2>2, TrailGrows
  <1>2. ASSUME NEW f \in Fields
        PROVE  /\ Len(trail'[f]) \in Nat /\ Len(trail[f]) <= Len(trail'[f])
               /\ \A i \in 1..Len(trail[f]) : trail'[f][i] = trail[f][i]
    BY TrailGrows, EventTypes
  <1>3. ASSUME NEW h \in handling', NEW g \in handling, h.after = g.after
        PROVE  \A f \in Fields : /\ h.after[f] <= Len(trail'[f])
                                 /\ h.after[f] \in Nat /\ 1..h.after[f] \subseteq 1..Len(trail[f])
    BY <1>2, <1>3, EventTypes DEF StampInv
  <1>4. ASSUME NEW h \in handling'
        PROVE  /\ h.at <= clock'
               /\ \A f \in Fields : h.after[f] <= Len(trail'[f])
               /\ h.at # 0 => StampedAfter(h)'
    <2>1. CASE h \in handling
      <3>1. h.at <= clock'
        BY <2>1, ClockSteps, EventTypes DEF StampInv
      <3>2. h.at # 0 => StampedAfter(h)'
        BY <1>2, <1>3, <2>1 DEF StampInv, StampedAfter
      <3>3. QED
        BY <1>3, <2>1, <3>1, <3>2
    <2>2. ASSUME NEW id \in sent, ReadDeclaration(id),
                 h = [id |-> id, seen |-> row, at |-> 0,
                      after |-> [f \in Fields |-> Len(trail[f])]]
          PROVE  /\ h.at <= clock'
                 /\ \A f \in Fields : h.after[f] <= Len(trail'[f])
                 /\ h.at # 0 => StampedAfter(h)'
      BY <1>2, <2>2, ClockSteps
    <2>3. ASSUME NEW g \in handling, StampEvents(g), h = [g EXCEPT !.at = clock']
          PROVE  /\ h.at <= clock'
                 /\ \A f \in Fields : h.after[f] <= Len(trail'[f])
                 /\ h.at # 0 => StampedAfter(h)'
      <3>1. h.at = clock' /\ h.after = g.after /\ trail' = trail
        BY <2>3 DEF StampEvents, TypeOK
      <3>2. ASSUME NEW f \in Fields, NEW i \in 1..h.after[f]
            PROVE  trail'[f][i].at <= h.at
        <4>1. i \in 1..Len(trail[f])
          BY <1>3, <3>1, <3>2
        <4>2. QED
          BY <3>1, <4>1, ClockSteps, EventTypes DEF StampInv
      <3>3. QED
        BY <1>3, <3>1, <3>2, ClockSteps DEF StampedAfter
    <2>4. QED
      BY <2>1, <2>2, <2>3, HandlerSteps
  <1>5. QED
    BY <1>1, <1>4 DEF StampInv

\* The last event committed in a field has the value of the row, and only an event that
\* its handler cannot have seen has a later createdAt.
THEOREM Trail == Spec => []TrailEndsInRow
  <1>1. Init => TrailEndsInRow /\ StampInv
    BY DEF Init, TrailEndsInRow, StampInv
  <1>2. TypeOK /\ StampInv /\ TrailEndsInRow /\ [Next]_vars => TrailEndsInRow'
    <2>1. SUFFICES ASSUME TypeOK, StampInv, TrailEndsInRow, [Next]_vars,
                          NEW f \in Fields, trail'[f] # <<>>
                   PROVE  /\ trail'[f][Len(trail'[f])].new = row'[f]
                          /\ \A i \in DOMAIN trail'[f] :
                                trail'[f][i].at > trail'[f][Len(trail'[f])].at
                                   => i > trail'[f][Len(trail'[f])].after
      BY DEF TrailEndsInRow
    <2>2. CASE trail'[f] = trail[f] /\ row'[f] = row[f]
      BY <2>1, <2>2 DEF TrailEndsInRow
    <2>3. ASSUME NEW h \in handling, h.at # 0, row'[f] = bodies[h.id][f],
                 Len(trail'[f]) = Len(trail[f]) + 1,
                 DOMAIN trail'[f] = 1..(Len(trail[f]) + 1),
                 \A i \in 1..Len(trail[f]) : trail'[f][i] = trail[f][i],
                 trail'[f][Len(trail[f]) + 1] = EventOf(h, f)
          PROVE  /\ trail'[f][Len(trail'[f])].new = row'[f]
                 /\ \A i \in DOMAIN trail'[f] :
                       trail'[f][i].at > trail'[f][Len(trail'[f])].at
                          => i > trail'[f][Len(trail'[f])].after
      <3>1. /\ EventOf(h, f).new = bodies[h.id][f] /\ EventOf(h, f).at = h.at
            /\ EventOf(h, f).after = h.after[f]
        BY DEF EventOf
      <3>2. /\ h.at \in Nat /\ h.after[f] \in Nat /\ h.after[f] <= Len(trail[f])
            /\ Len(trail[f]) \in Nat
        BY <2>1, EventTypes DEF StampInv
      <3>3. \A i \in 1..h.after[f] : trail[f][i].at <= h.at /\ trail[f][i].at \in Nat
        BY <2>1, <2>3, <3>2, EventTypes DEF StampInv, StampedAfter
      <3>4. ASSUME NEW i \in 1..(Len(trail[f]) + 1), trail'[f][i].at > h.at
            PROVE  i > h.after[f]
        <4>1. CASE i <= h.after[f]
          <5>1. i \in 1..h.after[f] /\ i \in 1..Len(trail[f])
            BY <3>2, <4>1
          <5>2. QED
            BY <2>3, <3>2, <3>3, <3>4, <5>1
        <4>2. QED
          BY <3>2, <4>1
      <3>5. QED
        BY <2>3, <3>1, <3>4
    <2>4. QED
      BY <2>1, <2>2, <2>3, TrailGrows
  <1>3. QED
    BY <1>1, <1>2, StampStep, TypeCorrect, PTL DEF Spec

\* No encrypted field gets into the audit events or the plain columns by way of the
\* autosave: a handler that has passed the strict schema does not carry one.
THEOREM NoPii == Spec => []NoPiiInTrail
  <1> DEFINE PInv == NoPiiInTrail /\ ReadBodiesAreAccepted
  <1>1. Init => PInv
    BY FieldsAssumption DEF Init, NoPiiInTrail, ReadBodiesAreAccepted, Nothing
  <1>2. TypeOK /\ PInv /\ [Next]_vars => PInv'
    <2>1. SUFFICES ASSUME TypeOK, PInv, [Next]_vars PROVE PInv'
      OBVIOUS
    <2>2. NoPiiInTrail'
      <3>1. SUFFICES ASSUME NEW f \in Pii PROVE trail'[f] = <<>> /\ row'[f] = 0
        BY DEF NoPiiInTrail
      <3>2. f \in Fields
        BY FieldsAssumption
      <3>3. QED
        BY <2>1, <3>2, OnlyCommitsWrite, CommitWrites DEF NoPiiInTrail, ReadBodiesAreAccepted
    <2>3. ReadBodiesAreAccepted'
      <3>1. SUFFICES ASSUME NEW h \in handling', NEW f \in Pii PROVE bodies'[h.id][f] = 0
        BY DEF ReadBodiesAreAccepted
      <3>2. \/ h \in handling
            \/ \E id \in sent : AcceptsBody(bodies[id]) /\ h.id = id
            \/ \E g \in handling : h.id = g.id
        BY <2>1, <3>1, HandlerSteps DEF ReadDeclaration, TypeOK
      <3>3. h.id \in RequestIds /\ bodies[h.id][f] = 0
        BY <2>1, <3>2, FieldsAssumption
        DEF TypeOK, ReadBodiesAreAccepted, AcceptsBody, Named
      <3>4. QED
        BY <2>1, <3>3, BodiesStay
    <2>4. QED
      BY <2>2, <2>3
  <1>3. QED
    BY <1>1, <1>2, TypeCorrect, PTL DEF Spec

----------------------------------------------------------------------------
\* The inductive invariant of the edits on their way, on the types.
IInv == OnePlace /\ NewestOnly /\ UntroubledAlone /\ EditsArrive

\* What the lemmas below use of the types.
LEMMA Basics ==
    ASSUME TypeOK
    PROVE  /\ pending \in Body /\ typed \in Body /\ row \in Body
           /\ RequestIds = 1..Len(bodies) /\ Len(bodies) \in Nat
           /\ \A id \in RequestIds : bodies[id] \in Body
           /\ \A h \in handling : h.id \in RequestIds
           /\ \A a \in answers : a.id \in RequestIds
           /\ sent \subseteq RequestIds /\ UnderWay \subseteq RequestIds
  <1>1. bodies \in Seq(Body)
    BY DEF TypeOK
  <1>2. RequestIds = 1..Len(bodies) /\ Len(bodies) \in Nat
    BY <1>1 DEF RequestIds
  <1>3. \A id \in RequestIds : bodies[id] \in Body
    BY <1>1, <1>2
  <1>4. QED
    BY <1>2, <1>3 DEF TypeOK, UnderWay

\* An edit: only its own field, its pending edit and the timer change.
LEMMA SaveFieldKeeps ==
    ASSUME TypeOK, IInv, NEW g \in Fields, SaveField(g)
    PROVE  IInv'
  <1>1. UNCHANGED <<active, isPending, mounted, sent, handling, answers, row, bodies, troubled>>
    BY DEF SaveField, client, wire, server
  <1>2. mounted
    BY DEF SaveField
  <1>3. \A f \in Fields :
          \/ pending'[f] = pending[f] /\ typed'[f] = typed[f] /\ (timer => timer')
          \/ pending'[f] = typed'[f] /\ typed'[f] # 0 /\ timer'
    <2>1. CASE g \in Excluded
      BY <2>1 DEF SaveField, client
    <2>2. CASE g \notin Excluded
      <3>1. timer' = TRUE
        BY <2>2 DEF SaveField
      <3>2. /\ typed' = [typed EXCEPT ![g] = edits + 1]
            /\ pending' = [pending EXCEPT ![g] = edits + 1]
        BY <2>2 DEF SaveField, Merged
      <3>3. edits + 1 # 0 /\ DOMAIN typed = Fields /\ DOMAIN pending = Fields
        BY Basics, BoundsAssumption DEF Body, TypeOK
      <3>4. \A f \in Fields :
               \/ pending'[f] = pending[f] /\ typed'[f] = typed[f]
               \/ pending'[f] = typed'[f] /\ typed'[f] # 0
        BY <3>2, <3>3
      <3>5. QED
        BY <3>1, <3>4
    <2>3. QED
      BY <2>1, <2>2
  <1>4. OnePlace' /\ UntroubledAlone' /\ RequestIds' = RequestIds
    BY <1>1 DEF IInv, OnePlace, UntroubledAlone, UnderWay, RequestIds
  <1>5. NewestOnly'
    BY <1>1, <1>2, <1>3, <1>4 DEF IInv, NewestOnly
  <1>6. EditsArrive'
    BY <1>1, <1>3 DEF IInv, EditsArrive
  <1>7. QED
    BY <1>4, <1>5, <1>6 DEF IInv

\* A flush: the pending edits get a request of their own, and the fields of the one
\* it supersedes are in trouble.
LEMMA FlushKeeps ==
    ASSUME TypeOK, IInv, [Next]_vars, Flush
    PROVE  IInv'
  <1> DEFINE new == Len(bodies) + 1
  <1>1. /\ timer /\ timer' = FALSE /\ active' = new /\ isPending' = TRUE
        /\ pending' = Nothing /\ sent' = sent \cup {new}
        /\ UNCHANGED <<mounted, handling, answers, row, typed>>
        /\ troubled' = troubled \cup (IF isPending THEN Named(bodies[active]) ELSE {})
    BY DEF Flush, server
  <1>2. /\ bodies' = Append(bodies, pending) /\ Len(bodies') = new
        /\ bodies'[new] = pending
        /\ new \notin RequestIds /\ RequestIds' = RequestIds \cup {new}
    BY Basics DEF Flush, RequestIds, TypeOK
  <1>3. \A id \in RequestIds : bodies'[id] = bodies[id]
    BY BodiesStay
  <1>4. UnderWay' = UnderWay \cup {new}
    BY <1>1 DEF UnderWay
  <1>5. mounted /\ active = Len(bodies)
    BY <1>1 DEF IInv, NewestOnly
  <1> HIDE DEF new
  <1>6. OnePlace'
    BY <1>1, <1>2, <1>4, Basics DEF IInv, OnePlace
  <1>7. NewestOnly'
    <2>1. active' = Len(bodies') /\ (timer' => mounted')
      BY <1>1, <1>2
    <2>2. ASSUME NEW f \in Fields
          PROVE  /\ pending[f] # 0 => pending[f] = typed[f]
                 /\ typed[f] = 0 => /\ row[f] = 0 /\ pending[f] = 0
                                    /\ \A id \in RequestIds : bodies[id][f] = 0
      BY DEF IInv, NewestOnly
    <2>3. ASSUME NEW f \in Fields
          PROVE  /\ pending'[f] = 0
                 /\ bodies'[active'][f] # 0 => bodies'[active'][f] = typed'[f]
      BY <1>1, <1>2, <2>2 DEF Nothing
    <2>4. ASSUME NEW f \in Fields, typed'[f] = 0, NEW id \in RequestIds'
          PROVE  bodies'[id][f] = 0
      <3>1. CASE id = new
        BY <1>1, <1>2, <2>2, <2>4, <3>1
      <3>2. CASE id \in RequestIds
        BY <1>1, <1>3, <2>2, <2>4, <3>2
      <3>3. QED
        BY <1>2, <3>1, <3>2
    <2>5. ASSUME NEW f \in Fields, typed'[f] = 0
          PROVE  row'[f] = 0
      BY <1>1, <2>2, <2>5
    <2>6. QED
      BY <2>1, <2>3, <2>4, <2>5 DEF NewestOnly
  <1>8. UntroubledAlone'
    <2>1. SUFFICES ASSUME NEW f \in Fields \ troubled'
          PROVE  /\ \A id \in UnderWay' : bodies'[id][f] # 0 => id = active'
                 /\ \A h \in handling : bodies'[h.id][f] # 0 => h.seen[f] = row[f]
                 /\ \A a \in answers : a.id # active'
      BY <1>1 DEF UntroubledAlone
    <2>2. \A id \in UnderWay : bodies[id][f] = 0
      BY <1>1, <1>5 DEF IInv, UntroubledAlone, Named
    <2>3. QED
      BY <1>1, <1>2, <1>3, <1>4, <2>2, Basics DEF IInv, UntroubledAlone
  <1>9. EditsArrive'
    <2>1. SUFFICES ASSUME NEW f \in Fields \ troubled'
                   PROVE  typed[f] = row[f] \/ pending[f] = typed[f]
      BY <1>1, <1>2 DEF EditsArrive, Nothing
    <2>2. isPending => bodies[active][f] = 0
      BY <1>1 DEF Named
    <2>3. QED
      BY <1>1, <1>5, <2>2 DEF IInv, EditsArrive, NewestOnly
  <1>10. QED
    BY <1>6, <1>7, <1>8, <1>9 DEF IInv

\* The request of the hook settles: its edits are in the row or its fields in trouble.
LEMMA SettlesKeeps ==
    ASSUME TypeOK, IInv, NEW id, NEW failed \in BOOLEAN, Settles(id, failed),
           UNCHANGED <<server, sent, handling, typed, bodies>>, answers' \subseteq answers,
           ~failed => \E a \in answers : a.id = id /\ a.ok
    PROVE  IInv'
  <1>1. UNCHANGED <<pending, timer, active, mounted, row, RequestIds, UnderWay>>
    BY DEF Settles, client, server, RequestIds, UnderWay
  <1>2. OnePlace'
    BY <1>1 DEF IInv, OnePlace
  <1>3. NewestOnly'
    BY <1>1 DEF IInv, NewestOnly
  <1>4. CASE UNCHANGED <<isPending, troubled>>
    BY <1>1, <1>2, <1>3, <1>4 DEF IInv, UntroubledAlone, EditsArrive
  <1>5. CASE /\ id = active /\ isPending /\ mounted /\ isPending' = FALSE
             /\ troubled' = troubled \cup (IF failed THEN Named(bodies[id]) ELSE {})
    <2>1. ASSUME NEW f \in Fields \ troubled'
          PROVE  \/ bodies[active][f] = 0
                 \/ active \notin UnderWay /\ row[f] = bodies[active][f]
      BY <1>5 DEF IInv, OnePlace, UntroubledAlone, Named
    <2>2. UntroubledAlone'
      BY <1>1, <1>5, <2>1 DEF IInv, UntroubledAlone
    <2>3. EditsArrive'
      BY <1>1, <1>5, <2>1 DEF IInv, EditsArrive, NewestOnly
    <2>4. QED
      BY <1>2, <1>3, <2>2, <2>3 DEF IInv
  <1>6. QED
    BY <1>4, <1>5 DEF Settles, PendingAfterAnswer, client

\* Leaving, or the loss of a request on its way.
LEMMA LeaveKeeps ==
    ASSUME IInv, Leave
    PROVE  IInv'
  <1>1. UNCHANGED <<pending, active, row, typed, bodies, troubled, sent, handling, answers>>
        /\ timer' = FALSE /\ mounted' = FALSE
    BY DEF Leave, server, wire, history
  <1>2. OnePlace' /\ UntroubledAlone' /\ EditsArrive'
    BY <1>1 DEF IInv, OnePlace, UntroubledAlone, EditsArrive, UnderWay
  <1>3. NewestOnly'
    BY <1>1 DEF IInv, NewestOnly, RequestIds
  <1>4. QED
    BY <1>2, <1>3 DEF IInv

LEMMA RequestGoneKeeps ==
    ASSUME TypeOK, IInv, NEW id \in sent, Dropped(id) \/ Refuse(id)
    PROVE  IInv'
  <1>1. UNCHANGED <<client, server, history, handling>> /\ sent' = sent \ {id}
    BY DEF Dropped, Refuse
  <1>2. \A a \in answers' : a \in answers \/ (a.id = id /\ ~a.ok)
    BY DEF Dropped, Refuse
  <1>3. UnderWay' \subseteq UnderWay /\ (\A h \in handling : h.id # id) /\ id \notin UnderWay'
    BY <1>1 DEF UnderWay, IInv, OnePlace
  <1>4. OnePlace'
    BY <1>1, <1>2, <1>3 DEF IInv, OnePlace
  <1>5. NewestOnly' /\ EditsArrive'
    BY <1>1 DEF IInv, NewestOnly, EditsArrive, client, server, history, RequestIds
  <1>6. UntroubledAlone'
    BY <1>1, <1>2, <1>3 DEF IInv, UntroubledAlone, client, server, history
  <1>7. QED
    BY <1>4, <1>5, <1>6 DEF IInv

\* A handler reads the row: only the request's place changes.
LEMMA ReadKeeps ==
    ASSUME TypeOK, IInv, NEW id \in sent, ReadDeclaration(id)
    PROVE  IInv'
  <1>1. UNCHANGED <<client, server, history, answers>> /\ sent' = sent \ {id}
        /\ handling' = handling \cup {[id |-> id, seen |-> row, at |-> 0,
                                       after |-> [f \in Fields |-> Len(trail[f])]]}
    BY DEF ReadDeclaration
  <1>2. UnderWay' = UnderWay
    <2> DEFINE g == [id |-> id, seen |-> row, at |-> 0,
                     after |-> [f \in Fields |-> Len(trail[f])]]
    <2>1. g.id = id
      OBVIOUS
    <2>2. UnderWay' = (sent \ {id}) \cup {h.id : h \in handling \cup {g}}
      BY <1>1 DEF UnderWay
    <2> HIDE DEF g
    <2>3. QED
      BY <2>1, <2>2 DEF UnderWay
  <1>3. OnePlace'
    BY <1>1, <1>2 DEF IInv, OnePlace
  <1>4. NewestOnly' /\ EditsArrive'
    BY <1>1 DEF IInv, NewestOnly, EditsArrive, client, server, history, RequestIds
  <1>5. UntroubledAlone'
    BY <1>1, <1>2 DEF IInv, UntroubledAlone, client, server, history
  <1>6. QED
    BY <1>3, <1>4, <1>5 DEF IInv

\* A handler stamps its events: nothing the invariant speaks of changes.
LEMMA StampKeeps ==
    ASSUME TypeOK, IInv, NEW h \in handling, StampEvents(h)
    PROVE  IInv'
  <1> DEFINE g == [h EXCEPT !.at = clock']
  <1>1. g.id = h.id /\ g.seen = h.seen
    BY DEF TypeOK
  <1>2. /\ UNCHANGED <<client, row, sent, answers, history>>
        /\ handling' = (handling \ {h}) \cup {g}
    BY DEF StampEvents, CreatedAt
  <1> HIDE DEF g
  <1>3. UnderWay' = UnderWay
    BY <1>1, <1>2 DEF UnderWay
  <1>4. OnePlace'
    BY <1>1, <1>2, <1>3 DEF IInv, OnePlace
  <1>5. NewestOnly' /\ EditsArrive'
    BY <1>2 DEF IInv, NewestOnly, EditsArrive, client, history, RequestIds
  <1>6. UntroubledAlone'
    BY <1>1, <1>2, <1>3 DEF IInv, UntroubledAlone, client, history
  <1>7. QED
    BY <1>4, <1>5, <1>6 DEF IInv

\* A handler ends: its request is answered, and the row has its values or none.
LEMMA AnsweredKeeps ==
    ASSUME TypeOK, IInv, NEW h \in handling, NEW ok \in BOOLEAN, Answered(h, ok),
           \A f \in Fields : IF ok /\ bodies[h.id][f] # 0 THEN row'[f] = bodies[h.id][f]
                                                          ELSE row'[f] = row[f]
    PROVE  IInv'
  <1>1. /\ UNCHANGED <<client, history, sent>> /\ handling' = handling \ {h}
        /\ answers' = answers \cup {[id |-> h.id, ok |-> ok]}
    BY DEF Answered
  <1>2. UnderWay' \subseteq UnderWay /\ h.id \notin UnderWay' /\ h.id \in UnderWay
    BY <1>1 DEF UnderWay, IInv, OnePlace
  <1>3. OnePlace'
    BY <1>1, <1>2 DEF IInv, OnePlace
  <1>4. NewestOnly'
    <2>1. \A f \in Fields : typed[f] = 0 => row'[f] = 0
      BY Basics DEF IInv, NewestOnly
    <2>2. QED
      BY <1>1, <2>1 DEF IInv, NewestOnly, client, history, RequestIds
  <1>5. UntroubledAlone'
    <2>1. SUFFICES ASSUME NEW f \in Fields \ troubled
          PROVE  /\ \A id \in UnderWay : bodies[id][f] # 0 => id = active /\ (mounted => isPending)
                 /\ \A g \in handling' : bodies[g.id][f] # 0 => g.seen[f] = row'[f]
                 /\ \A a \in answers' : a.ok /\ a.id = active /\ bodies[a.id][f] # 0
                                           => row'[f] = bodies[a.id][f]
      BY <1>1, <1>2 DEF UntroubledAlone, client, history
    <2>2. /\ \A id \in UnderWay : bodies[id][f] # 0 => id = active /\ (mounted => isPending)
          /\ \A g \in handling : bodies[g.id][f] # 0 => g.seen[f] = row[f]
          /\ \A a \in answers : a.ok /\ a.id = active /\ bodies[a.id][f] # 0
                                   => row[f] = bodies[a.id][f]
      BY DEF IInv, UntroubledAlone
    <2>3. ASSUME NEW g \in handling', bodies[g.id][f] # 0 PROVE g.seen[f] = row'[f]
      <3>1. g \in handling /\ g.id \in UnderWay' /\ g.id # h.id
        BY <1>1, <1>2, <2>3 DEF UnderWay
      <3>2. bodies[h.id][f] = 0
        BY <1>2, <2>2, <2>3, <3>1
      <3>3. QED
        BY <2>2, <2>3, <3>1, <3>2
    <2>4. ASSUME NEW a \in answers', a.ok, a.id = active, bodies[a.id][f] # 0
          PROVE  row'[f] = bodies[a.id][f]
      <3>1. CASE a \in answers
        <4>1. a.id # h.id /\ bodies[h.id][f] = 0
          BY <1>2, <2>2, <2>4, <3>1 DEF IInv, OnePlace
        <4>2. QED
          BY <2>2, <2>4, <3>1, <4>1
      <3>2. CASE a = [id |-> h.id, ok |-> ok]
        BY <2>4, <3>2
      <3>3. QED
        BY <1>1, <3>1, <3>2
    <2>5. QED
      BY <2>2, <2>3, <2>4
  <1>6. EditsArrive'
    <2>1. SUFFICES ASSUME mounted, NEW f \in Fields \ troubled
          PROVE  \/ typed[f] = row'[f]
                 \/ pending[f] = typed[f] /\ timer
                 \/ isPending /\ bodies[active][f] = typed[f] /\ pending[f] = 0
      BY <1>1 DEF EditsArrive, client, history
    <2>2. \/ typed[f] = row[f]
          \/ pending[f] = typed[f] /\ timer
          \/ isPending /\ bodies[active][f] = typed[f] /\ pending[f] = 0
      BY <2>1 DEF IInv, EditsArrive
    <2>3. bodies[h.id][f] # 0 => h.id = active
      BY <1>2 DEF IInv, UntroubledAlone
    <2>4. /\ pending[f] # 0 => pending[f] = typed[f] /\ timer
          /\ active # 0 /\ pending[f] = 0 /\ bodies[active][f] # 0 => bodies[active][f] = typed[f]
      BY <2>1 DEF IInv, NewestOnly
    <2>5. h.id # 0
      BY Basics
    <2>6. QED
      BY <2>2, <2>3, <2>4, <2>5
  <1>7. QED
    BY <1>3, <1>4, <1>5, <1>6 DEF IInv

----------------------------------------------------------------------------
LEMMA IInvInit == Init => IInv
  BY DEF Init, IInv, OnePlace, NewestOnly, UntroubledAlone, EditsArrive, UnderWay, Nothing,
         RequestIds

\* One case for every action.
LEMMA IInvStep == TypeOK /\ IInv /\ [Next]_vars => IInv'
  <1>1. SUFFICES ASSUME TypeOK, IInv, [Next]_vars PROVE IInv'
    OBVIOUS
  <1>2. CASE GateStep \/ UNCHANGED vars
    <2>1. UNCHANGED <<client, server, wire, history>>
      BY <1>2 DEF GateStep, SubmitConsent, ConsentRecorded, ConsentFailed, vars
    <2>2. UnderWay' = UnderWay /\ RequestIds' = RequestIds
      BY <2>1 DEF UnderWay, RequestIds, wire, history
    <2>3. QED
      BY <1>1, <2>1, <2>2 DEF client, server, wire, history, IInv, OnePlace, NewestOnly,
                              UntroubledAlone, EditsArrive
  <1>3. CASE ClientStep
    <2>1. ConnectionLost => IInv'
      <3>1. ConnectionLost => Settles(active, TRUE)
                              /\ UNCHANGED <<server, wire, typed, bodies>>
        BY DEF ConnectionLost
      <3>2. QED
        BY <1>1, <3>1, SettlesKeeps DEF wire
    <2>2. ASSUME NEW a \in answers, AnswerArrives(a) PROVE IInv'
      <3>1. Settles(a.id, ~a.ok) /\ UNCHANGED <<server, sent, handling, typed, bodies>>
            /\ answers' \subseteq answers /\ (~a.ok) \in BOOLEAN
        BY <2>2 DEF AnswerArrives
      <3>2. ~(~a.ok) => \E b \in answers : b.id = a.id /\ b.ok
        OBVIOUS
      <3>3. QED
        BY <1>1, <3>1, <3>2, SettlesKeeps
    <2>3. QED
      BY <1>1, <1>3, <2>1, <2>2, SaveFieldKeeps, FlushKeeps, LeaveKeeps DEF ClientStep
  <1>4. CASE ServerStep
    <2>1. ASSUME NEW h \in handling, CommitPatch(h) PROVE IInv'
      <3>1. Answered(h, TRUE)
        BY <2>1 DEF CommitPatch
      <3>2. \A f \in Fields : IF bodies[h.id][f] # 0 THEN row'[f] = bodies[h.id][f]
                                                     ELSE row'[f] = row[f]
        BY <1>1, <2>1, CommitWrites
      <3>3. QED
        BY <1>1, <3>1, <3>2, AnsweredKeeps
    <2>2. ASSUME NEW h \in handling, RollbackPatch(h) PROVE IInv'
      <3>1. Answered(h, FALSE) /\ row' = row
        BY <2>2 DEF RollbackPatch, server
      <3>2. QED
        BY <1>1, <3>1, AnsweredKeeps
    <2>3. QED
      BY <1>1, <1>4, <2>1, <2>2, RequestGoneKeeps, ReadKeeps, StampKeeps DEF ServerStep
  <1>5. QED
    BY <1>1, <1>2, <1>3, <1>4, StepCases

\* The newest edit of a field is in the row or on its way, as long as no request with
\* that field failed or was superseded.
THEOREM Arrive == Spec => []EditsArrive
  <1>1. IInv => EditsArrive
    BY DEF IInv
  <1>2. QED
    BY <1>1, IInvInit, IInvStep, TypeCorrect, PTL DEF Spec

\* In a field without trouble the handler at work has seen every event of the field.
SawAll ==
    \A f \in Fields \ troubled : \A h \in handling :
        bodies[h.id][f] # 0 => h.after[f] = Len(trail[f])

\* A field in trouble stays so.
LEMMA TroubleStays ==
    ASSUME [Next]_vars PROVE troubled \subseteq troubled'
  BY StepCases
  DEF GateStep, SubmitConsent, ConsentRecorded, ConsentFailed, ClientStep, SaveField, Flush,
      ConnectionLost, AnswerArrives, Leave, Settles, ServerStep, Dropped, Refuse,
      ReadDeclaration, StampEvents, CommitPatch, RollbackPatch, Answered, client, history, vars

LEMMA SawAllStep == TypeOK /\ IInv /\ SawAll /\ [Next]_vars => SawAll'
  <1> SUFFICES ASSUME TypeOK, IInv, SawAll, [Next]_vars,
                      NEW f \in Fields, f \notin troubled, NEW h \in handling', bodies'[h.id][f] # 0
               PROVE  h.after[f] = Len(trail'[f])
    BY TroubleStays DEF SawAll
  <1>1. ASSUME NEW g \in handling, h.id = g.id, h.after = g.after
        PROVE  h.after[f] = Len(trail'[f])
    <2>1. g.id \in RequestIds /\ g.id \in UnderWay
      BY Basics DEF UnderWay
    <2>2. bodies[g.id][f] # 0
      BY <1>1, <2>1, BodiesStay
    <2>3. h.after[f] = Len(trail[f])
      BY <1>1, <2>2 DEF SawAll
    <2>4. ASSUME NEW k \in handling, CommitPatch(k), bodies[k.id][f] # 0 PROVE FALSE
      <3>1. k.id \in UnderWay /\ k.id = active /\ g.id = active
        BY <2>1, <2>2, <2>4 DEF IInv, UntroubledAlone, UnderWay
      <3>2. g = k
        BY <3>1 DEF IInv, OnePlace
      <3>3. handling' = handling \ {g}
        BY <2>4, <3>2, CommitWrites
      <3>4. h \in handling /\ h = g
        BY <1>1, <3>3 DEF IInv, OnePlace
      <3>5. QED
        BY <3>3, <3>4
    <2>5. QED
      BY <2>3, <2>4, TrailGrows
  <1>2. ASSUME NEW id \in sent, ReadDeclaration(id),
               h = [id |-> id, seen |-> row, at |-> 0,
                    after |-> [g \in Fields |-> Len(trail[g])]]
        PROVE  h.after[f] = Len(trail'[f])
    BY <1>2 DEF ReadDeclaration, server
  <1>3. ASSUME NEW g \in handling, h = [g EXCEPT !.at = clock']
        PROVE  h.id = g.id /\ h.after = g.after
    BY <1>3 DEF TypeOK
  <1>4. QED
    BY <1>1, <1>2, <1>3, HandlerSteps

\* In such a field every audit event records the value of the event before it and has no
\* earlier createdAt: the handlers of the field do not overlap, and each one reads what
\* the last one wrote.
THEOREM Chain == Spec => []PrevValuesChain
  <1>1. Init => PrevValuesChain /\ SawAll /\ StampInv
    BY DEF Init, PrevValuesChain, SawAll, StampInv
  <1>2. TypeOK /\ IInv /\ SawAll /\ StampInv /\ TrailEndsInRow /\ PrevValuesChain /\ [Next]_vars
           => PrevValuesChain'
    <2>1. SUFFICES ASSUME TypeOK, IInv, SawAll, StampInv, TrailEndsInRow, PrevValuesChain, [Next]_vars,
                          NEW f \in Fields, f \notin troubled, NEW i \in 2..Len(trail'[f])
                   PROVE  /\ trail'[f][i].prev = trail'[f][i - 1].new
                          /\ trail'[f][i - 1].at <= trail'[f][i].at
      BY TroubleStays DEF PrevValuesChain
    <2> DEFINE n == Len(trail[f])
    <2>2. n \in Nat /\ DOMAIN trail[f] = 1..n
      BY <2>1, EventTypes
    <2>3. CASE trail'[f] = trail[f]
      BY <2>1, <2>3 DEF PrevValuesChain
    <2>4. ASSUME NEW h \in handling, h.at # 0, bodies[h.id][f] # 0, Len(trail'[f]) = n + 1,
                 \A j \in 1..n : trail'[f][j] = trail[f][j],
                 trail'[f][n + 1] = EventOf(h, f)
          PROVE  /\ trail'[f][i].prev = trail'[f][i - 1].new
                 /\ trail'[f][i - 1].at <= trail'[f][i].at
      <3>1. CASE i = n + 1
        <4>1. n \in 1..n /\ i - 1 = n /\ trail[f] # <<>>
          BY <2>1, <2>2, <3>1
        <4>2. trail[f][n].new = row[f]
          BY <2>1, <4>1 DEF TrailEndsInRow
        <4>3. h.seen[f] = row[f] /\ h.after[f] = n
          BY <2>1, <2>4 DEF IInv, UntroubledAlone, SawAll
        <4>4. trail[f][n].at <= h.at
          BY <2>1, <2>4, <4>1, <4>3 DEF StampInv, StampedAfter
        <4>5. QED
          BY <2>4, <3>1, <4>1, <4>2, <4>3, <4>4 DEF EventOf
      <3>2. CASE i # n + 1
        <4>1. i \in 2..n /\ i \in 1..n /\ i - 1 \in 1..n
          BY <2>1, <2>2, <2>4, <3>2
        <4>2. trail[f][i].prev = trail[f][i - 1].new /\ trail[f][i - 1].at <= trail[f][i].at
          BY <2>1, <4>1 DEF PrevValuesChain
        <4>3. QED
          BY <2>4, <4>1, <4>2
      <3>3. QED
        BY <3>1, <3>2
    <2>5. QED
      BY <2>1, <2>3, <2>4, TrailGrows
  <1>3. QED
    BY <1>1, <1>2, IInvInit, IInvStep, SawAllStep, StampStep, TypeCorrect, Trail, PTL DEF Spec
=============================================================================
