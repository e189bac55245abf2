------------------------- MODULE AuditHistoryProofs -------------------------
(***************************************************************************)
(* Theorems about AuditHistory for every size of a page and any number of   *)
(* events and visits.                                                       *)
(***************************************************************************)
EXTENDS AuditHistory, SequenceTheorems, TLAPS

(***************************************************************************)
(* The inductive invariant.                                                 *)
(***************************************************************************)
Urls == [label : Labels, dated : BOOLEAN, cursor : Nat]

\* The request that is out is for the URL of the page, and ids are positions of log.
Cursors == {0} \cup DOMAIN log

Types ==
    /\ log \in Seq(Paths)
    /\ url \in Urls /\ visited \in Seq(Urls)
    /\ url.cursor \in Cursors /\ nextCursor \in Cursors
    /\ \A i \in DOMAIN visited : visited[i].cursor \in Cursors
    /\ requests \subseteq {url}
    /\ shown \in Seq(Nat) /\ \A i \in DOMAIN shown : shown[i] \in DOMAIN log
    /\ hasNextPage \in BOOLEAN /\ backed \in BOOLEAN

\* Whoever filters finds nothing, and so has no further page.
Unfiltered(u) == u.label = "All" /\ ~u.dated

FilterInv ==
    /\ url.cursor # 0 => Unfiltered(url)
    /\ \A i \in DOMAIN visited : visited[i].cursor # 0 => Unfiltered(visited[i])
    /\ hasNextPage /\ nextCursor # 0 => Unfiltered(url)
    /\ shown # <<>> => Unfiltered(url)

\* The list ends one event before the one the cursor names.
Reaches(cursor) == shown # <<>> => shown[Len(shown)] = cursor + 1

\* Each event follows the one before it, the row at a page boundary left out.
Descends(s) == \A i \in DOMAIN s : i > 1 => s[i - 1] - s[i] \in {1, 2}

PageInv ==
    ~backed =>
        /\ NewestFirst(shown) /\ Descends(shown)
        /\ url.cursor # 0 /\ requests # {} => Reaches(url.cursor)
        /\ hasNextPage /\ nextCursor # 0 => Reaches(nextCursor)

IInv == Types /\ FilterInv /\ PageInv

----------------------------------------------------------------------------
(* What a request brings *)

\* An unfiltered answer is a run of events without a gap, which ends below the cursor.
LEMMA FetchedRows ==
    ASSUME Types, NEW u \in Urls, Unfiltered(u), u.cursor \in Cursors, NEW rows \in Fetched(u)
    PROVE  /\ rows \in Seq(Nat) /\ Len(rows) <= PageSize + 1
           /\ \A i \in DOMAIN rows : rows[i] \in DOMAIN log
           /\ NewestFirst(rows)
           /\ \A i \in DOMAIN rows : i > 1 => rows[i - 1] = rows[i] + 1
           /\ rows # <<>> /\ u.cursor # 0 => rows[1] = u.cursor - 1
  <1>1. PICK n \in 0..(PageSize + 1) : rows \in [1..n -> Rows(u)]
    BY DEF Fetched
  <1>2. /\ \A i : i \in Rows(u) <=> i \in 1..Len(log) /\ (u.cursor = 0 \/ i < u.cursor)
        /\ Len(log) \in Nat /\ DOMAIN log = 1..Len(log) /\ u.cursor \in 0..Len(log)
    BY DEF Rows, Matches, SkipCursor, Unfiltered, Types, Cursors
  <1>3. rows \in Seq(Nat) /\ Len(rows) = n /\ DOMAIN rows = 1..n
    <2>1. rows \in Seq(Rows(u)) /\ Len(rows) = n
      BY <1>1, PageAssumption
    <2>2. QED
      BY <1>1, <1>2, <2>1, SeqMonotonic, PageAssumption
  <1>4. \A i \in 1..n : rows[i] \in Rows(u) /\ rows[i] \in Nat
    BY <1>1, <1>2
  <1>5. NewestFirst(rows) /\ \A r \in Rows(u) \ {rows[i] : i \in DOMAIN rows} : LeavesOut(rows, r)
    BY DEF Fetched
  <1>6. ASSUME NEW i \in DOMAIN rows, i > 1 PROVE rows[i - 1] = rows[i] + 1
    <2> DEFINE e == rows[i - 1] - 1
    <2>1. i - 1 \in DOMAIN rows /\ rows[i - 1] > rows[i] /\ rows[i] \in Nat /\ rows[i - 1] \in Nat
      BY <1>3, <1>4, <1>5, <1>6, PageAssumption DEF NewestFirst
    <2>2. SUFFICES ASSUME e > rows[i] PROVE FALSE
      BY <2>1
    <2>3. e \in Rows(u)
      <3>1. rows[i] \in Rows(u) /\ rows[i - 1] \in Rows(u)
        BY <1>3, <1>4, <1>6, <2>1
      <3>2. QED
        BY <1>2, <2>1, <2>2, <3>1
    <2>4. ASSUME NEW j \in DOMAIN rows PROVE rows[j] # e
      <3>1. CASE j < i
        <4>1. j = i - 1 \/ rows[j] > rows[i - 1]
          BY <1>3, <1>5, <3>1, <2>1, PageAssumption DEF NewestFirst
        <4>2. QED
          BY <1>3, <1>4, <2>1, <4>1
      <3>2. CASE j >= i
        <4>1. j = i \/ rows[j] < rows[i]
          BY <1>3, <1>4, <1>5, <3>2, PageAssumption DEF NewestFirst
        <4>2. QED
          BY <1>3, <1>4, <2>1, <2>2, <4>1
      <3>3. QED
        BY <1>3, <1>6, <3>1, <3>2
    <2>5. LeavesOut(rows, e)
      BY <1>5, <2>3, <2>4
    <2>6. QED
      BY <2>1, <2>5 DEF LeavesOut
  <1>7. ASSUME rows # <<>>, u.cursor # 0 PROVE rows[1] = u.cursor - 1
    <2> DEFINE e == u.cursor - 1
    <2>1. n > 0 /\ 1 \in DOMAIN rows /\ rows[1] \in Nat /\ rows[1] <= e /\ rows[1] >= 1
      BY <1>2, <1>3, <1>4, <1>7, PageAssumption, EmptySeq
    <2>2. SUFFICES ASSUME rows[1] # e PROVE FALSE
      OBVIOUS
    <2>3. e \in Rows(u)
      BY <1>2, <1>7, <2>1
    <2>4. ASSUME NEW j \in DOMAIN rows PROVE rows[j] # e
      <3>a. j \in Nat /\ j >= 1 /\ rows[j] \in Nat
        BY <1>3, <1>4, PageAssumption
      <3>b. 1 < j => rows[1] > rows[j]
        BY <1>5, <2>1 DEF NewestFirst
      <3>1. j = 1 \/ rows[j] < rows[1]
        BY <2>1, <3>a, <3>b
      <3>2. QED
        BY <1>3, <1>4, <2>1, <2>2, <3>1
    <2>5. LeavesOut(rows, e)
      BY <1>5, <2>3, <2>4
    <2>6. QED
      BY <1>2, <2>1, <2>5 DEF LeavesOut
  <1>8. \A i \in DOMAIN rows : rows[i] \in DOMAIN log
    BY <1>2, <1>3, <1>4
  <1>9. QED
    BY <1>3, <1>5, <1>6, <1>7, <1>8, PageAssumption

\* A label is no path: a request with one brings nothing.
LEMMA FilteredRows ==
    ASSUME Types, NEW u \in Urls, u.label # "All", NEW rows \in Fetched(u)
    PROVE  rows = <<>>
  <1>1. Rows(u) = {}
    <2>1. ASSUME NEW i \in DOMAIN log PROVE ~Matches(log[i], u.label)
      <3>1. Paths = {"sectionA", "sectionE"}
        BY DEF Paths, LabelOf
      <3>2. Labels = {"Section A", "Section E", "All"}
        <4>1. LabelOf["sectionA"] = "Section A" /\ LabelOf["sectionE"] = "Section E"
          BY DEF LabelOf
        <4>2. {LabelOf[p] : p \in Paths} = {"Section A", "Section E"}
          BY <3>1, <4>1
        <4>3. QED
          BY <4>2 DEF Labels
      <3>3. log[i] \in Paths /\ u.label \in Labels
        BY DEF Types, Urls
      <3>4. QED
        BY <3>1, <3>2, <3>3 DEF Matches
    <2>2. QED
      BY <2>1 DEF Rows
  <1>2. PICK n \in 0..(PageSize + 1) : rows \in [1..n -> Rows(u)]
    BY DEF Fetched
  <1>3. n = 0
    BY <1>1, <1>2, PageAssumption
  <1>4. QED
    BY <1>2, <1>3

----------------------------------------------------------------------------
(* The steps *)

\* An empty list is in order.
LEMMA EmptyList ==
    /\ <<>> \in Seq(Nat) /\ DOMAIN <<>> = {}
    /\ NewestFirst(<<>>) /\ Descends(<<>>)
  <1>1. <<>> \in Seq(Nat) /\ DOMAIN <<>> = {}
    OBVIOUS
  <1>2. QED
    BY <1>1 DEF NewestFirst, Descends

\* The entries of the browser's history after a visit.
LEMMA AppendedVisit ==
    ASSUME IInv, visited' = Append(visited, url)
    PROVE  /\ visited' \in Seq(Urls)
           /\ \A i \in DOMAIN visited' :
                 visited'[i] = url \/ (i \in DOMAIN visited /\ visited'[i] = visited[i])
  <1>1. visited \in Seq(Urls) /\ url \in Urls /\ Len(visited) \in Nat
        /\ DOMAIN visited = 1..Len(visited)
    BY DEF IInv, Types
  <1>2. /\ visited' \in Seq(Urls) /\ DOMAIN visited' = 1..(Len(visited) + 1)
        /\ \A i \in 1..Len(visited) : visited'[i] = visited[i]
        /\ visited'[Len(visited) + 1] = url
    BY <1>1, AppendProperties
  <1>3. \A i \in 1..(Len(visited) + 1) : i = Len(visited) + 1 \/ i \in 1..Len(visited)
    BY <1>1
  <1>4. QED
    BY <1>1, <1>2, <1>3

\* A URL without a cursor empties the list.
LEMMA RestartKeeps ==
    ASSUME IInv, NEW u \in Urls, u.cursor = 0, Navigate(u)
    PROVE  IInv'
  <1>1. /\ log' = log /\ url' = u /\ visited' = Append(visited, url) /\ requests' = {u}
        /\ shown' = <<>> /\ hasNextPage' = FALSE /\ nextCursor' = nextCursor /\ backed' = FALSE
    BY DEF Navigate, Fetch, AfterAbort, KeptOnStart
  <1>2. /\ visited' \in Seq(Urls)
        /\ \A i \in DOMAIN visited' :
              visited'[i] = url \/ (i \in DOMAIN visited /\ visited'[i] = visited[i])
    BY <1>1, AppendedVisit
  <1>3. Types'
    BY <1>1, <1>2, EmptyList DEF IInv, Types, Cursors
  <1>4. FilterInv'
    BY <1>1, <1>2 DEF IInv, FilterInv, Unfiltered
  <1>5. PageInv'
    BY <1>1, EmptyList DEF PageInv, Reaches
  <1>6. QED
    BY <1>3, <1>4, <1>5 DEF IInv

\* Load More asks for what follows the list.
LEMMA LoadMoreKeeps ==
    ASSUME IInv, LoadMore
    PROVE  IInv'
  <1> DEFINE u == [url EXCEPT !.cursor = nextCursor]
  <1>1. nextCursor \in Nat /\ nextCursor # 0 /\ hasNextPage /\ url \in Urls
    BY DEF LoadMore, IInv, Types, Cursors
  <1>2. u \in Urls /\ u.cursor = nextCursor /\ u.label = url.label /\ u.dated = url.dated
    BY <1>1 DEF Urls
  <1>3. /\ log' = log /\ url' = u /\ visited' = Append(visited, url) /\ requests' = {u}
        /\ shown' = shown /\ hasNextPage' = hasNextPage /\ nextCursor' = nextCursor
        /\ backed' = backed
    BY <1>1, <1>2 DEF LoadMore, Navigate, Fetch, AfterAbort, KeptOnStart, IInv, Types
  <1> HIDE DEF u
  <1>4. /\ visited' \in Seq(Urls)
        /\ \A i \in DOMAIN visited' :
              visited'[i] = url \/ (i \in DOMAIN visited /\ visited'[i] = visited[i])
    BY <1>3, AppendedVisit
  <1>5. Types'
    BY <1>1, <1>2, <1>3, <1>4 DEF IInv, Types, Cursors
  <1>6. FilterInv'
    BY <1>1, <1>2, <1>3, <1>4 DEF IInv, FilterInv, Unfiltered
  <1>7. PageInv'
    BY <1>1, <1>2, <1>3 DEF IInv, PageInv, Reaches
  <1>8. QED
    BY <1>5, <1>6, <1>7 DEF IInv

\* Going back restarts the list, or makes an earlier page extend it.
LEMMA BackKeeps ==
    ASSUME IInv, BrowserBack
    PROVE  IInv'
  <1> DEFINE u == visited[Len(visited)]
  <1>1. /\ u \in Urls /\ u.cursor \in Cursors
        /\ u.cursor # 0 => Unfiltered(u)
        /\ Len(visited) \in Nat /\ Len(visited) \in DOMAIN visited
    BY DEF BrowserBack, IInv, Types, FilterInv
  <1>2. /\ log' = log /\ url' = u /\ visited' = SubSeq(visited, 1, Len(visited) - 1)
        /\ requests' = {u} /\ shown' = (IF u.cursor # 0 THEN shown ELSE <<>>)
        /\ hasNextPage' = (u.cursor # 0 /\ hasNextPage) /\ nextCursor' = nextCursor
        /\ backed' = (u.cursor # 0)
    BY DEF BrowserBack, Fetch, AfterAbort, KeptOnStart
  <1> HIDE DEF u
  <1>3. /\ visited' \in Seq(Urls)
        /\ \A i \in DOMAIN visited' : i \in DOMAIN visited /\ visited'[i] = visited[i]
    <2>1. visited \in Seq(Urls) /\ Len(visited) - 1 \in 0..Len(visited)
          /\ DOMAIN visited = 1..Len(visited)
      BY <1>1 DEF IInv, Types
    <2>2. \A i \in 1..(Len(visited) - 1) : i \in DOMAIN visited /\ visited[i] \in Urls
      BY <2>1
    <2>3. QED
      BY <1>1, <1>2, <2>1, <2>2, SubSeqProperties
  <1>4. shown' \in Seq(Nat) /\ \A i \in DOMAIN shown' : shown'[i] \in DOMAIN log
    BY <1>2, EmptyList DEF IInv, Types
  <1>5. hasNextPage' \in BOOLEAN /\ backed' \in BOOLEAN
    BY <1>2
  <1>6. Types'
    BY <1>1, <1>2, <1>3, <1>4, <1>5 DEF IInv, Types, Cursors
  <1>7. FilterInv'
    BY <1>1, <1>2, <1>3 DEF IInv, FilterInv, Unfiltered
  <1>8. PageInv'
    <2>1. CASE u.cursor # 0
      BY <1>2, <2>1 DEF PageInv
    <2>2. CASE u.cursor = 0
      <3>1. shown' = <<>>
        BY <1>2, <2>2
      <3>2. QED
        BY <3>1, EmptyList DEF PageInv, Reaches
    <2>3. QED
      BY <2>1, <2>2
  <1>9. QED
    BY <1>6, <1>7, <1>8 DEF IInv

\* An answer goes on where the list ends.
LEMMA AnsweredKeeps ==
    ASSUME IInv, NEW u \in requests, Answered(u)
    PROVE  IInv'
  <1>1. /\ u = url /\ ~url.dated /\ requests' = {} /\ url \in Urls
        /\ UNCHANGED <<log, url, visited, backed>>
    BY DEF Answered, IInv, Types
  <1>2. PICK rows \in Fetched(url) :
           /\ shown' = IF url.cursor # 0 THEN shown \o Answer(rows).events
                                         ELSE Answer(rows).events
           /\ hasNextPage' = (Answer(rows).next # 0) /\ nextCursor' = Answer(rows).next
    BY <1>1 DEF Answered
  <1>3. CASE ~Unfiltered(url)
    <2>1. url.label # "All" /\ url.cursor = 0
      BY <1>1, <1>3 DEF IInv, FilterInv, Unfiltered
    <2>2. rows = <<>>
      BY <1>1, <2>1, FilteredRows DEF IInv
    <2>3. Answer(rows).events = <<>> /\ Answer(rows).next = 0
      BY <2>2, PageAssumption DEF Answer
    <2>4. shown' = <<>> /\ hasNextPage' = FALSE /\ nextCursor' = 0
      BY <1>2, <2>1, <2>3
    <2>5. Types'
      BY <1>1, <2>4, EmptyList DEF IInv, Types, Cursors
    <2>6. FilterInv' /\ PageInv'
      BY <1>1, <2>4, EmptyList DEF IInv, FilterInv, PageInv, Reaches
    <2>7. QED
      BY <2>5, <2>6 DEF IInv
  <1>4. CASE Unfiltered(url)
    <2> DEFINE events == Answer(rows).events
               next == Answer(rows).next
    <2>1. /\ rows \in Seq(Nat) /\ Len(rows) <= PageSize + 1
          /\ \A i \in DOMAIN rows : rows[i] \in DOMAIN log
          /\ NewestFirst(rows)
          /\ \A i \in DOMAIN rows : i > 1 => rows[i - 1] = rows[i] + 1
          /\ rows # <<>> /\ url.cursor # 0 => rows[1] = url.cursor - 1
      BY <1>1, <1>4, FetchedRows DEF IInv, Types
    <2>2. /\ events \in Seq(Nat) /\ Len(events) <= Len(rows)
          /\ \A i \in 1..Len(events) : events[i] = rows[i]
          /\ next # 0 => /\ Len(rows) = PageSize + 1 /\ Len(events) = PageSize
                         /\ next = rows[PageSize + 1]
      <3>1. Len(rows) \in Nat
        BY <2>1
      <3>2. CASE Len(rows) > PageSize
        <4>1. /\ Len(rows) = PageSize + 1 /\ next = rows[PageSize + 1]
              /\ events = SubSeq(rows, 1, PageSize)
          BY <2>1, <3>1, <3>2, PageAssumption DEF Answer
        <4>2. \A i \in 1..PageSize : rows[i] \in Nat
          <5>1. \A i \in 1..PageSize : i \in 1..Len(rows)
            BY <4>1, PageAssumption
          <5>2. QED
            BY <2>1, <5>1
        <4>3. /\ events \in Seq(Nat) /\ Len(events) = PageSize
              /\ \A i \in 1..PageSize : events[i] = rows[i]
          BY <2>1, <3>1, <4>1, <4>2, PageAssumption, SubSeqProperties
        <4> HIDE DEF events, next
        <4>4. QED
          BY <2>1, <4>1, <4>3, PageAssumption
      <3>3. CASE ~(Len(rows) > PageSize)
        BY <2>1, <3>1, <3>3 DEF Answer
      <3>4. QED
        BY <3>2, <3>3
    <2>3. next \in Cursors /\ (next # 0 => events # <<>> /\ events[Len(events)] = next + 1)
      <3>1. CASE next = 0
        BY <3>1 DEF Cursors
      <3>2. CASE next # 0
        <4>1. PageSize + 1 \in DOMAIN rows /\ PageSize \in 1..Len(events)
          BY <2>1, <2>2, <3>2, PageAssumption
        <4>2. rows[PageSize] = rows[PageSize + 1] + 1
          BY <2>1, <4>1, PageAssumption
        <4>3. QED
          BY <2>1, <2>2, <3>2, <4>1, <4>2 DEF Cursors
      <3>3. QED
        BY <3>1, <3>2
    <2>4. shown' = (IF url.cursor # 0 THEN shown \o events ELSE events)
          /\ hasNextPage' = (next # 0) /\ nextCursor' = next
      BY <1>2
    <2>5. /\ \A i \in 1..Len(events) : events[i] \in DOMAIN log /\ events[i] \in Nat
          /\ NewestFirst(events)
          /\ \A i \in 1..Len(events) : i > 1 => events[i - 1] = events[i] + 1
          /\ DOMAIN events = 1..Len(events) /\ Len(events) \in Nat
          /\ events # <<>> /\ url.cursor # 0 => events[1] = url.cursor - 1
      <3>1. Len(rows) \in Nat /\ DOMAIN rows = 1..Len(rows) /\ DOMAIN events = 1..Len(events)
            /\ Len(events) \in Nat
        BY <2>1, <2>2
      <3>2. \A i \in 1..Len(events) : i \in DOMAIN rows /\ events[i] = rows[i]
        BY <2>2, <3>1
      <3>3. \A i \in 1..Len(events) : i > 1 => i - 1 \in 1..Len(events)
        BY <3>1
      <3>4. events # <<>> => 1 \in 1..Len(events) /\ rows # <<>>
        BY <2>2, <3>1, <3>2, EmptySeq
      <3> HIDE DEF events
      <3>5. \A i \in 1..Len(events) : events[i] \in DOMAIN log /\ events[i] \in Nat
        <4>1. \A i \in DOMAIN rows : rows[i] \in Nat
          BY <2>1
        <4>2. QED
          BY <2>1, <3>2, <4>1
      <3>6. NewestFirst(events)
        BY <2>1, <3>1, <3>2 DEF NewestFirst
      <3>7. \A i \in 1..Len(events) : i > 1 => events[i - 1] = events[i] + 1
        BY <2>1, <3>2, <3>3
      <3>8. events # <<>> /\ url.cursor # 0 => events[1] = url.cursor - 1
        BY <2>1, <3>2, <3>4
      <3>9. QED
        BY <3>1, <3>5, <3>6, <3>7, <3>8
    <2> HIDE DEF events, next
    <2>6. CASE url.cursor = 0
      <3>1. shown' = events
        BY <2>4, <2>6
      <3>2. Types'
        BY <1>1, <2>2, <2>3, <2>4, <2>5, <3>1 DEF IInv, Types, Cursors
      <3>3. FilterInv'
        BY <1>1, <1>4, <2>4 DEF IInv, FilterInv, Unfiltered
      <3>4. Descends(shown')
        BY <2>5, <3>1 DEF Descends
      <3>5. PageInv'
        BY <1>1, <2>3, <2>4, <2>5, <3>1, <3>4 DEF PageInv, Reaches, Descends, NewestFirst
      <3>6. QED
        BY <3>2, <3>3, <3>5 DEF IInv
    <2>7. CASE url.cursor # 0
      <3> DEFINE n == Len(shown)
      <3>1. shown' = shown \o events /\ shown \in Seq(Nat) /\ n \in Nat /\ DOMAIN shown = 1..n
            /\ \A i \in 1..n : shown[i] \in DOMAIN log /\ shown[i] \in Nat
        <4>1. shown \in Seq(Nat) /\ \A i \in DOMAIN shown : shown[i] \in DOMAIN log
          BY DEF IInv, Types
        <4>2. Len(shown) \in Nat /\ DOMAIN shown = 1..Len(shown)
              /\ \A i \in DOMAIN shown : shown[i] \in Nat
          BY <4>1
        <4>3. QED
          BY <2>4, <2>7, <4>1, <4>2
      <3>2. /\ shown' \in Seq(Nat) /\ Len(shown') = n + Len(events)
            /\ DOMAIN shown' = 1..(n + Len(events))
            /\ \A i \in 1..(n + Len(events)) :
                  shown'[i] = IF i <= n THEN shown[i] ELSE events[i - n]
        BY <2>2, <3>1, ConcatProperties
      <3>3. \A i \in DOMAIN shown' : shown'[i] \in DOMAIN log
        BY <2>5, <3>1, <3>2
      <3>4. Types'
        BY <1>1, <2>3, <2>4, <3>2, <3>3 DEF IInv, Types, Cursors
      <3>5. FilterInv'
        BY <1>1, <1>4, <2>4 DEF IInv, FilterInv, Unfiltered
      <3>6. ASSUME ~backed PROVE PageInv'
        <4>1. /\ NewestFirst(shown) /\ Descends(shown)
              /\ shown # <<>> => shown[n] = url.cursor + 1
          BY <1>1, <2>7, <3>6 DEF IInv, PageInv, Reaches
        <4>2. url.cursor \in Nat /\ (shown # <<>> => n \in 1..n)
          BY <1>1, <3>1, EmptySeq DEF Urls
        <4> DEFINE m == Len(events)
        <4>a. /\ n \in Nat /\ m \in Nat
              /\ DOMAIN shown = 1..n /\ DOMAIN events = 1..m
              /\ DOMAIN shown' = 1..(n + m) /\ Len(shown') = n + m
              /\ \A i \in 1..n : shown[i] \in Nat /\ shown'[i] = shown[i]
              /\ \A i \in 1..(n + m) : i > n => shown'[i] = events[i - n]
              /\ \A i \in 1..m : events[i] \in Nat
          BY <2>5, <3>1, <3>2
        <4> HIDE DEF n, m
        <4>3. \A i \in 1..n : shown[i] >= url.cursor + 1
          <5> SUFFICES ASSUME NEW i \in 1..n PROVE shown[i] >= url.cursor + 1
            OBVIOUS
          <5>1. shown # <<>> /\ n \in 1..n
            BY <4>2, <4>a, EmptySeq
          <5>2. i = n \/ shown[i] > shown[n]
            BY <4>1, <4>a, <5>1 DEF NewestFirst
          <5>3. QED
            BY <4>1, <4>a, <4>2, <5>1, <5>2
        <4>4. \A j \in 1..m : events[j] <= url.cursor - 1
          <5> SUFFICES ASSUME NEW j \in 1..m PROVE events[j] <= url.cursor - 1
            OBVIOUS
          <5>1. events # <<>> /\ 1 \in 1..m
            BY <4>a
          <5>2. j = 1 \/ events[1] > events[j]
            <6>1. NewestFirst(events)
              BY <2>5
            <6>2. 1 \in DOMAIN events /\ j \in DOMAIN events /\ (j = 1 \/ 1 < j)
              BY <4>a, <5>1
            <6>3. QED
              BY <6>1, <6>2 DEF NewestFirst
          <5>3. QED
            BY <2>5, <2>7, <4>2, <4>a, <5>1, <5>2
        <4>5. NewestFirst(shown')
          <5> SUFFICES ASSUME NEW i \in 1..(n + m), NEW j \in 1..(n + m), i < j
                       PROVE  shown'[i] > shown'[j]
            BY <4>a DEF NewestFirst
          <5>1. CASE j <= n
            <6>1. i \in 1..n /\ j \in 1..n
              BY <4>a, <5>1
            <6>2. QED
              BY <4>1, <4>a, <6>1 DEF NewestFirst
          <5>2. CASE i <= n /\ j > n
            <6>1. i \in 1..n /\ j - n \in 1..m
              BY <4>a, <5>2
            <6>2. QED
              BY <4>2, <4>3, <4>4, <4>a, <5>2, <6>1
          <5>3. CASE i > n
            <6>1. i - n \in 1..m /\ j - n \in 1..m /\ i - n < j - n
              BY <4>a, <5>3
            <6>2. events[i - n] > events[j - n]
              BY <2>5, <4>a, <6>1 DEF NewestFirst
            <6>3. QED
              BY <4>a, <5>3, <6>2
          <5>4. QED
            BY <4>a, <5>1, <5>2, <5>3
        <4>6. Descends(shown')
          <5> SUFFICES ASSUME NEW i \in 1..(n + m), i > 1
                       PROVE  shown'[i - 1] - shown'[i] \in {1, 2}
            BY <4>a DEF Descends
          <5>1. CASE i <= n
            <6>1. i \in 1..n /\ i - 1 \in 1..n
              BY <4>a, <5>1
            <6>2. QED
              BY <4>1, <4>a, <6>1 DEF Descends
          <5>2. CASE i = n + 1
            <6>1. n \in 1..n /\ 1 \in 1..m /\ i - 1 = n /\ i - n = 1
              BY <4>a, <5>2
            <6>2. shown # <<>> /\ events # <<>>
              BY <4>a, <6>1
            <6>3. shown'[n] = url.cursor + 1 /\ shown'[i] = url.cursor - 1
              BY <2>5, <2>7, <4>1, <4>a, <5>2, <6>1, <6>2
            <6>4. QED
              BY <4>2, <6>1, <6>3
          <5>3. CASE i > n + 1
            <6>1. /\ i - n \in 1..m /\ i - n > 1 /\ i - 1 \in 1..(n + m) /\ i - 1 > n
                  /\ (i - 1) - n = (i - n) - 1 /\ (i - n) - 1 \in 1..m
              BY <4>a, <5>3
            <6>2. events[(i - n) - 1] = events[i - n] + 1 /\ events[i - n] \in Nat
              BY <2>5, <4>a, <6>1 DEF m
            <6>3. shown'[i - 1] = events[(i - n) - 1] /\ shown'[i] = events[i - n]
              BY <4>a, <5>3, <6>1
            <6>4. QED
              BY <6>2, <6>3
          <5>4. QED
            BY <4>a, <5>1, <5>2, <5>3
        <4>7. next # 0 => shown'[Len(shown')] = next + 1
          <5> SUFFICES ASSUME next # 0 PROVE shown'[n + m] = next + 1
            BY <4>a
          <5>1. events # <<>> /\ events[m] = next + 1
            BY <2>3 DEF m
          <5>2. m > 0
            BY <2>5, <4>a, <5>1, EmptySeq, <2>2 DEF m
          <5>3. n + m \in 1..(n + m) /\ n + m > n /\ (n + m) - n = m
            BY <4>a, <5>2
          <5>4. QED
            BY <4>a, <5>1, <5>3
        <4>8. QED
          BY <1>1, <2>4, <4>5, <4>6, <4>7 DEF PageInv, Reaches
      <3>7. backed => PageInv'
        BY <1>1 DEF PageInv
      <3>8. QED
        BY <3>4, <3>5, <3>6, <3>7 DEF IInv
    <2>8. QED
      BY <2>6, <2>7
  <1>5. QED
    BY <1>3, <1>4

\* The invariant holds in every reachable state, for every size of a page.
THEOREM Inductive == Spec => []IInv
  <1>1. Init => IInv
    <2> SUFFICES ASSUME Init PROVE IInv
      OBVIOUS
    <2>1. Page1 \in Urls /\ Page1.cursor = 0
      BY DEF Page1, Urls, Labels
    <2>2. Types
      <3>1. log = <<>> /\ visited = <<>> /\ shown = <<>> /\ <<>> \in Seq(Paths) /\ <<>> \in Seq(Urls)
        BY DEF Init
      <3>2. QED
        BY <2>1, <3>1, EmptyList DEF Init, Types, Cursors
    <2>3. FilterInv /\ PageInv
      BY <2>1, EmptyList DEF Init, FilterInv, PageInv, Reaches
    <2>4. QED
      BY <2>2, <2>3 DEF IInv
  <1>2. IInv /\ [Next]_vars => IInv'
    <2> SUFFICES ASSUME IInv, [Next]_vars PROVE IInv'
      OBVIOUS
    <2>1. CASE AppendEvent
      <3>1. PICK p \in Paths : log' = Append(log, p)
        BY <2>1 DEF AppendEvent
      <3>2. log' \in Seq(Paths) /\ DOMAIN log \subseteq DOMAIN log' /\ Cursors \subseteq Cursors'
        BY <3>1 DEF IInv, Types, Cursors
      <3>3. UNCHANGED <<url, visited, requests, shown, hasNextPage, nextCursor, backed>>
        BY <2>1 DEF AppendEvent, list
      <3>4. QED
        BY <3>2, <3>3 DEF IInv, Types, FilterInv, PageInv, Reaches
    <2>2. CASE SelectSection
      <3>1. PICK l \in Labels : Navigate([url EXCEPT !.label = l, !.cursor = 0])
        BY <2>2 DEF SelectSection
      <3>2. [url EXCEPT !.label = l, !.cursor = 0] \in Urls
            /\ [url EXCEPT !.label = l, !.cursor = 0].cursor = 0
        BY DEF IInv, Types, Urls
      <3>3. QED
        BY <3>1, <3>2, RestartKeeps
    <2>3. ASSUME NEW dated \in BOOLEAN, Navigate([url EXCEPT !.dated = dated, !.cursor = 0])
          PROVE  IInv'
      <3>1. [url EXCEPT !.dated = dated, !.cursor = 0] \in Urls
            /\ [url EXCEPT !.dated = dated, !.cursor = 0].cursor = 0
        BY DEF IInv, Types, Urls
      <3>2. QED
        BY <2>3, <3>1, RestartKeeps
    <2>4. CASE ChangeDates \/ ClearDates
      BY <2>3, <2>4 DEF ChangeDates, ClearDates
    <2>5. CASE Reload
      <3>1. /\ requests' = {url} /\ shown' = <<>> /\ hasNextPage' = FALSE /\ nextCursor' = 0
            /\ backed' = FALSE /\ UNCHANGED <<log, url, visited>>
        BY <2>5 DEF Reload
      <3>2. Types'
        BY <3>1, EmptyList DEF IInv, Types, Cursors
      <3>3. FilterInv' /\ PageInv'
        BY <3>1, EmptyList DEF IInv, FilterInv, PageInv, Reaches
      <3>4. QED
        BY <3>2, <3>3 DEF IInv
    <2>6. ASSUME NEW u \in requests, Refused(u) PROVE IInv'
      <3>1. requests' \subseteq requests
            /\ UNCHANGED <<log, url, visited, shown, hasNextPage, nextCursor, backed>>
        BY <2>6 DEF Refused
      <3>2. QED
        BY <3>1 DEF IInv, Types, Cursors, FilterInv, PageInv, Reaches
    <2>7. CASE UNCHANGED vars
      BY <2>7 DEF vars, list, IInv, Types, Cursors, FilterInv, PageInv, Reaches
    <2>8. QED
      BY <2>1, <2>2, <2>4, <2>5, <2>6, <2>7, LoadMoreKeeps, BackKeeps, AnsweredKeeps
         DEF Next, AtRest
  <1>3. QED
    BY <1>1, <1>2, PTL DEF Spec

\* Pages go on where the list ends, however events are appended and filters are changed
\* while they are on their way, and lose no more than the event at each page boundary.
THEOREM Pages == Spec => []PagesGoOn
  <1>1. IInv => PagesGoOn
    <2> SUFFICES ASSUME IInv, ~backed PROVE PagesGoOn
      BY DEF PagesGoOn
    <2>1. NewestFirst(shown) /\ Descends(shown)
      BY DEF IInv, PageInv
    <2>2. \A i \in DOMAIN shown : i > 1 => shown[i - 1] - shown[i] <= 2
      BY <2>1 DEF Descends
    <2>3. QED
      BY <2>1, <2>2 DEF PagesGoOn, NewestFirst
  <1>2. QED
    BY <1>1, Inductive, PTL

\* Stale results never appear: every listed event passes the filter of the URL.
THEOREM Filtered == Spec => []ShownPassTheFilter
  <1>1. IInv => ShownPassTheFilter
    <2> SUFFICES ASSUME IInv, NEW i \in DOMAIN shown
                 PROVE  ~url.dated /\ Matches(log[shown[i]], url.label)
      BY DEF ShownPassTheFilter
    <2>1. Unfiltered(url)
      BY DEF IInv, FilterInv
    <2>2. QED
      BY <2>1 DEF Unfiltered, Matches
  <1>2. QED
    BY <1>1, Inductive, PTL
=============================================================================
