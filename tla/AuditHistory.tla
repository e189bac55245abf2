---------------------------- MODULE AuditHistory ----------------------------
(***************************************************************************)
(* Paging through the audit trail of a form: the panel of the browser       *)
(* (apps/web/src/components/eea/AuditHistoryPanel.tsx) and the route that    *)
(* answers it (GET /eea2/:formId/events, apps/api/src/routes/eea2/events.ts).*)
(*                                                                         *)
(* The panel keeps its filters and the cursor in the URL.  Every change of   *)
(* the URL aborts the request in flight and starts another one, which         *)
(* replaces the list when the URL has no cursor and extends it when it has.  *)
(***************************************************************************)
EXTENDS Naturals, Sequences

CONSTANTS
    PageSize,       \* the limit the panel asks for
    MaxEvents,      \* bound on the events of the form
    MaxVisits,      \* bound on the entries of the browser's history
    Browser         \* may the user go back and reload the page?

ASSUME PageAssumption == PageSize \in Nat \ {0} /\ MaxEvents \in Nat /\ MaxVisits \in Nat
ASSUME BrowserAssumption == Browser \in BOOLEAN

VARIABLES
    log,            \* first component of the fieldPath of each event, oldest first
    url,            \* the search string of the page
    visited,        \* the browser's history below the current entry
    requests,       \* URLs of the requests that are neither answered nor aborted
    shown,          \* ids of the listed events; an id is a position of log
    isLoading, error, hasNextPage,
    nextCursor,     \* nextCursorBuffer; 0 for null
    backed          \* history: did a return to an earlier page extend the list?

list == <<shown, isLoading, error, hasNextPage>>
vars == <<log, url, visited, requests, list, nextCursor, backed>>

----------------------------------------------------------------------------
\* The section filter offers labels; the events carry field paths.
LabelOf == [sectionA |-> "Section A", sectionE |-> "Section E"]
Paths   == DOMAIN LabelOf
Labels  == {LabelOf[p] : p \in Paths} \cup {"All"}

\* dated: the URL has a from or to parameter.  cursor = 0: it has no cursor.
Page1 == [label |-> "All", dated |-> FALSE, cursor |-> 0]

\* where.fieldPath = { startsWith: section }.  No label is a prefix of a path.
Matches(path, label) == label \in {"All", path}

SkipCursor_Two(id, cursor) == cursor = 0 \/ id + 1 < cursor

\* Prisma's cursor with skip: 1.
SkipCursor(id, cursor) == cursor = 0 \/ id < cursor

\* The matching events from the cursor on.
Rows(u) == {i \in DOMAIN log : Matches(log[i], u.label) /\ SkipCursor(i, u.cursor)}

\* orderBy: { createdAt: 'desc' }, take: limit + 1.
NewestFirst(rows) == \A i, j \in DOMAIN rows : i < j => rows[i] > rows[j]

LeavesOut(rows, r) == Len(rows) = PageSize + 1 /\ \A i \in DOMAIN rows : rows[i] > r

Fetched(u) ==
    {rows \in UNION {[1..n -> Rows(u)] : n \in 0..(PageSize + 1)} :
        /\ NewestFirst(rows)
        /\ \A r \in Rows(u) \ {rows[i] : i \in DOMAIN rows} : LeavesOut(rows, r)}

\* One row too many is popped and becomes the cursor.
Answer(rows) ==
    [events |-> IF Len(rows) > PageSize THEN SubSeq(rows, 1, PageSize) ELSE rows,
     next   |-> IF Len(rows) > PageSize THEN rows[PageSize + 1] ELSE 0]

----------------------------------------------------------------------------
KeptOnStart_Always(u) == shown

KeptOnStart(u) == IF u.cursor # 0 THEN shown ELSE <<>>

AfterAbort == {}

\* The fetch effect, run with the URL u.
Fetch(u) ==
    /\ requests' = AfterAbort \cup {u}
    /\ shown' = KeptOnStart(u)
    /\ isLoading' = TRUE
    /\ error' = FALSE
    /\ hasNextPage' = (u.cursor # 0 /\ hasNextPage)

\* navigate() to a URL; one that changes nothing runs no effect.
Navigate(u) ==
    /\ u # url /\ Len(visited) < MaxVisits
    /\ url' = u
    /\ visited' = Append(visited, url)
    /\ Fetch(u)
    /\ backed' = (backed /\ u.cursor # 0)
    /\ UNCHANGED <<log, nextCursor>>

Init ==
    /\ log = <<>>
    /\ url = Page1
    /\ visited = <<>>
    /\ requests = {Page1}
    /\ shown = <<>>
    /\ isLoading = TRUE /\ error = FALSE /\ hasNextPage = FALSE
    /\ nextCursor = 0
    /\ backed = FALSE

AppendEvent ==
    /\ Len(log) < MaxEvents
    /\ \E p \in Paths : log' = Append(log, p)
    /\ UNCHANGED <<url, visited, requests, list, nextCursor, backed>>

SelectSection == \E l \in Labels : Navigate([url EXCEPT !.label = l, !.cursor = 0])

ChangeDates == Navigate([url EXCEPT !.dated = TRUE, !.cursor = 0])

ClearDates == Navigate([url EXCEPT !.dated = FALSE, !.cursor = 0])

\* The button is there when another page is, and nothing is loading.
LoadMore ==
    /\ hasNextPage /\ ~isLoading /\ nextCursor # 0
    /\ Navigate([url EXCEPT !.cursor = nextCursor])

\* Going back and forth would extend the list without end: Len(shown) is bounded.
BrowserBack ==
    /\ Browser /\ visited # <<>> /\ Len(shown) <= MaxEvents
    /\ url' = visited[Len(visited)]
    /\ visited' = SubSeq(visited, 1, Len(visited) - 1)
    /\ Fetch(url')
    /\ backed' = (url'.cursor # 0)
    /\ UNCHANGED <<log, nextCursor>>

\* The panel is mounted afresh at the URL of the page.
Reload ==
    /\ Browser
    /\ requests' = {url}
    /\ shown' = <<>> /\ isLoading' = TRUE /\ error' = FALSE /\ hasNextPage' = FALSE
    /\ nextCursor' = 0
    /\ backed' = FALSE
    /\ UNCHANGED <<log, url, visited>>

\* The date inputs send yyyy-mm-dd where the route wants a date and a time: 400.
Answered(u) ==
    /\ ~u.dated
    /\ requests' = requests \ {u}
    /\ \E rows \in Fetched(u) :
          LET answer == Answer(rows)
          IN /\ shown' = IF u.cursor # 0 THEN shown \o answer.events ELSE answer.events
             /\ hasNextPage' = (answer.next # 0)
             /\ nextCursor' = answer.next
    /\ isLoading' = FALSE /\ error' = FALSE
    /\ UNCHANGED <<log, url, visited, backed>>

LoadingAfterError_Unchanged == isLoading

LoadingAfterError == FALSE

Refused(u) ==
    /\ requests' = requests \ {u}
    /\ isLoading' = LoadingAfterError /\ error' = TRUE
    /\ UNCHANGED <<log, url, visited, shown, hasNextPage, nextCursor, backed>>

AtRest == requests = {} /\ UNCHANGED vars

Next ==
    \/ AppendEvent
    \/ SelectSection \/ ChangeDates \/ ClearDates \/ LoadMore
    \/ BrowserBack \/ Reload
    \/ \E u \in requests : Answered(u) \/ Refused(u)
    \/ AtRest

Spec == Init /\ [][Next]_vars

\* Every request is answered in the end, with an error if need be.
FairSpec == Spec /\ WF_vars(\E u \in requests : Answered(u) \/ Refused(u))

----------------------------------------------------------------------------
(* Properties *)

\* Pages that are loaded go on where the list ends, however events are appended and
\* filters are changed while they are on their way: the list runs from newer to older
\* events, none twice, and of the matching ones no more than the one at each page boundary
\* is missing; only a return to an earlier page through the browser's history breaks it.
PagesGoOn ==
    ~backed =>
        /\ \A i, j \in DOMAIN shown : i < j => shown[i] > shown[j]
        /\ url.label = "All" => \A i \in DOMAIN shown : i > 1 => shown[i - 1] - shown[i] <= 2

\* "Stale results must never appear during the new load": every listed event
\* passes the filter the URL asks for.
ShownPassTheFilter ==
    \A i \in DOMAIN shown : ~url.dated /\ Matches(log[shown[i]], url.label)

\* The panel does not load forever.
LoadingEnds == isLoading ~> ~isLoading

=============================================================================
