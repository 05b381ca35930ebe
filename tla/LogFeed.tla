------------------------------ MODULE LogFeed -------------------------------
(***************************************************************************)
(* The logs that a page of the web application shows while new ones come:  *)
(* the infinite queries of lib/queries.ts and the observers of the pages   *)
(* that show them.                                                         *)
(*                                                                         *)
(* A query keeps a sequence of pages, each with the pointers to its        *)
(* neighbours.  It is refetched every few seconds while the end of the     *)
(* list is visible: TanStack Query asks for its pages in order, following  *)
(* the pointers, and the query function answers from the pages it has when *)
(* it takes them for immutable.                                            *)
(*                                                                         *)
(* Runtime and build logs ("lines") are searched in Loki by time, oldest   *)
(* line first on the page; HTTP logs ("requests") are paginated by Django  *)
(* REST framework in the order that the user chose.  A log is a number, in *)
(* the order of arrival, and times are even numbers, so that a number      *)
(* between two times can be told from both.                                *)
(***************************************************************************)
EXTENDS Naturals, Sequences, SequencesExt, FiniteSets, FiniteSetsExt

CONSTANTS
  Feeds,         \* the queries to follow
  PerPage,       \* logs on a page
  MaxLogs,       \* how many logs arrive, at most
  Ties,          \* how many of them have the same time, at most
  Failures       \* how many requests are answered with an error, at most

VARIABLES
  feed,      \* the query
  at,        \* the times of the logs that the server has
  pages,     \* the data of the query
  fetch,     \* the fetch in flight: its kind, the pages it has, what was found for the next
  follow,    \* whether the end of the list is visible: the query refetches itself
  failures   \* requests answered with an error

vars == <<feed, at, pages, fetch, follow, failures>>

-----------------------------------------------------------------------------
\* The queries.  A feed of requests is sorted by their time.

Lines == [store |-> "lines", newest |-> "last"]
Requests(newest) == [store |-> "requests", newest |-> newest]

ASSUME Bounds ==
  /\ Feeds \subseteq {Lines, Requests("first"), Requests("last")}
  /\ PerPage \in Nat \ {0} /\ MaxLogs \in Nat /\ Ties \in Nat \ {0} /\ Failures \in Nat

logs           == Lines
buildLogs      == Lines
deploymentLogs == Lines
runtimeLogs    == Lines

serviceHttpLogs(sort_by)    == Requests(IF sort_by = "time" THEN "last" ELSE "first")
deploymentHttpLogs(sort_by) == Requests(IF sort_by = "time" THEN "last" ELSE "first")
stackHttpLogs(sort_by)      == Requests(IF sort_by = "time" THEN "last" ELSE "first")

None == [toward |-> "none", from |-> 0]
Cursor(toward, from) == [toward |-> toward, from |-> from]

EmptyPage == [ids |-> {}, next |-> None, previous |-> None, cursor |-> None, param |-> None]

Idle == [kind |-> "none", done |-> <<>>, asked |-> FALSE, found |-> EmptyPage]

Log == DOMAIN at

Shown == UNION {pages[i].ids : i \in DOMAIN pages}

TypeOK ==
  /\ feed \in Feeds
  /\ \A i \in Log : at[i] \in Nat /\ at[i] % 2 = 0
  /\ \A i \in DOMAIN pages : pages[i].ids \subseteq Log /\ Cardinality(pages[i].ids) <= PerPage
  /\ fetch.kind \in {"none", "all", "next", "previous"}
  /\ fetch.kind = "none" => fetch = Idle
  /\ follow \in BOOLEAN /\ failures \in 0..Failures

\* The page asks for the first page of the logs that there are.
Init ==
  /\ feed \in Feeds
  /\ at \in {<<>>, <<4>>, <<6>>, <<2, 4, 6>>, <<4, 6, 8>>}
  /\ pages = <<>>
  /\ fetch = [Idle EXCEPT !.kind = "all"]
  /\ follow = TRUE /\ failures = 0

-----------------------------------------------------------------------------
\* The server

\* The n first, or last, of a set of logs.
FirstOf(S, n) == {i \in S : Cardinality({j \in S : j < i}) < n}
LastOf(S, n)  == {i \in S : Cardinality({j \in S : j > i}) < n}

\* LokiClient.search: "desc" looks for lines until a time, "asc" for lines from it.
search(cursor) ==
  CASE cursor.toward = "desc" -> LastOf({i \in Log : at[i] <= cursor.from}, PerPage)
    [] cursor.toward = "asc"  -> FirstOf({i \in Log : at[i] >= cursor.from}, PerPage)
    [] OTHER -> LastOf(Log, PerPage)

\* Faulty variant: takes a short page for the last one.
olderIfFull(ids) ==
  LET S == {i \in Log : Cardinality(ids) = PerPage /\ at[i] < at[Min(ids)]}
  IN  IF S = {} THEN None ELSE Cursor("desc", at[Max(S)])

\* Its pointers: to the next line that is older than the oldest found, and to the
\* next one that is newer than the newest.
older(ids) ==
  LET S == {i \in Log : ids # {} /\ at[i] < at[Min(ids)]}
  IN  IF S = {} THEN None ELSE Cursor("desc", at[Max(S)])

\* Faulty variant: points to the newest line of all.
newest(ids) ==
  LET S == {i \in Log : ids # {} /\ at[i] > at[Max(ids)]}
  IN  IF S = {} THEN None ELSE Cursor("asc", at[Max(S)])

newer(ids) ==
  LET S == {i \in Log : ids # {} /\ at[i] > at[Max(ids)]}
  IN  IF S = {} THEN None ELSE Cursor("asc", at[Min(S)])

\* Lines around a time (LokiClient.get_context): some before it, and one more from it.
ContextLines == Ties
\* Faulty variant: only lines that are strictly before or after the time.
get_context_around(time) ==
  LastOf({i \in Log : at[i] < time}, ContextLines)
    \cup FirstOf({i \in Log : at[i] > time}, ContextLines + 1)

get_context(time) ==
  LastOf({i \in Log : at[i] < time}, ContextLines)
    \cup FirstOf({i \in Log : at[i] >= time}, ContextLines + 1)

\* A page of requests.  The list goes from its "top"; a cursor is a request and the
\* side of it that the page is on.
NewestFirst == feed.newest = "first"

Above(i) == {j \in Log : IF NewestFirst THEN j > i ELSE j < i}
Below(i) == {j \in Log : IF NewestFirst THEN j < i ELSE j > i}
Top(S, n)    == IF NewestFirst THEN LastOf(S, n) ELSE FirstOf(S, n)
Bottom(S, n) == IF NewestFirst THEN FirstOf(S, n) ELSE LastOf(S, n)
TopOf(S)    == IF NewestFirst THEN Max(S) ELSE Min(S)
BottomOf(S) == IF NewestFirst THEN Min(S) ELSE Max(S)

\* CursorPagination: the link against the direction of a cursor is always there.
paginate(cursor) ==
  LET ids == CASE cursor.toward = "below" -> Top(Below(cursor.from), PerPage)
               [] cursor.toward = "above" -> Bottom(Above(cursor.from), PerPage)
               [] OTHER -> Top(Log, PerPage)
  IN  [EmptyPage EXCEPT
         !.ids = ids,
         !.next = IF ids # {} /\ (Below(BottomOf(ids)) # {} \/ cursor.toward = "above")
                  THEN Cursor("below", BottomOf(ids)) ELSE None,
         !.previous = IF ids # {} /\ cursor # None
                         /\ (Above(TopOf(ids)) # {} \/ cursor.toward = "below")
                      THEN Cursor("above", TopOf(ids)) ELSE None]

Arrive ==
  /\ Len(at) < MaxLogs
  /\ \E gap \in {0, 2} :
       LET t == (IF at = <<>> THEN 2 ELSE Last(at)) + gap
       IN  /\ Cardinality({i \in Log : at[i] = t}) < Ties
           /\ feed.store = "requests" => gap = 2
           /\ at' = Append(at, t)
  /\ UNCHANGED <<feed, pages, fetch, follow, failures>>

-----------------------------------------------------------------------------
\* The query function

\* The page that the query has for a parameter, which is the first one with it.
Existing(param) ==
  LET S == {i \in DOMAIN pages : pages[i].param = param}
  IN  IF S = {} THEN EmptyPage ELSE pages[Min(S)]

Has(param) == \E i \in DOMAIN pages : pages[i].param = param

\* Faulty variant: a page of lines never changes.
ImmutableAlways(page) ==
  IF feed.store = "lines" THEN page.ids # {} ELSE page.previous # None

\* A page that has a page after it, toward the new logs, does not change.
Immutable(page) ==
  IF feed.store = "lines" THEN page.next # None ELSE page.previous # None

\* For lines, the page that follows the one that has the parameter as its pointer.
Follows(param) ==
  LET S == {i \in DOMAIN pages : pages[i].next = param}
  IN  IF feed.store = "lines" /\ ~Has(param) /\ S # {} THEN {Min(S) + 1} \cap DOMAIN pages ELSE {}

\* A page that needs no request, if any.
Reused(param) ==
  IF Has(param) /\ Immutable(Existing(param)) THEN {Existing(param)}
  ELSE {pages[i] : i \in Follows(param)}

\* A number of nanoseconds is beyond the integers that JavaScript writes exactly: one
\* time of two is written a little later than it is.
Written(time) == IF time % 4 = 0 THEN time ELSE time + 1

\* Where to ask.  The first page is asked from where it began, once that is known.
CursorOf(param) ==
  IF feed.store = "lines"
  THEN IF param # None THEN param ELSE Existing(param).cursor
  ELSE IF Existing(param).cursor # None THEN Existing(param).cursor ELSE param

Found(param) ==
  IF feed.store = "lines"
  THEN [EmptyPage EXCEPT !.ids = search(CursorOf(param))]
  ELSE paginate(CursorOf(param))

\* Where the first page begins: for lines its oldest line, for requests the page
\* below it, which a second request asks for.
Pinned(page) ==
  IF feed.store = "lines"
  THEN IF page.next = None /\ page.ids # {} THEN Cursor("asc", Written(at[Min(page.ids)]))
       ELSE None
  ELSE IF page.next # None
       THEN Cursor("above", TopOf(Top(Below(page.next.from), PerPage)))
       ELSE None

\* The page, from what was found: the pointers of the lines are searched after them.
Completed(found, param) ==
  LET page == [found EXCEPT
                 !.next = IF feed.store = "lines" THEN newer(found.ids) ELSE found.next,
                 !.previous = IF feed.store = "lines" THEN older(found.ids) ELSE found.previous,
                 !.cursor = Existing(param).cursor]
  IN  IF param = None /\ page.cursor = None THEN [page EXCEPT !.cursor = Pinned(page)] ELSE page

-----------------------------------------------------------------------------
\* TanStack Query

\* The parameter of the page to fetch next.
Param ==
  IF fetch.kind = "next" THEN Last(pages).next
  ELSE IF fetch.kind = "previous" THEN Head(pages).previous
  ELSE IF fetch.done # <<>> THEN Last(fetch.done).next
  ELSE IF pages # <<>> THEN Head(pages).param
  ELSE None

\* A refetch asks for as many pages as there are, until one has no next page.
Complete ==
  IF fetch.kind = "all"
  THEN /\ fetch.done # <<>>
       /\ Param = None \/ Len(fetch.done) >= Len(pages)
  ELSE fetch.done # <<>>

Deliver(page) ==
  fetch' = [fetch EXCEPT !.done = Append(@, [page EXCEPT !.param = Param]),
                         !.asked = FALSE, !.found = EmptyPage]

Reuse ==
  /\ fetch.kind # "none" /\ ~Complete /\ ~fetch.asked
  /\ \E page \in Reused(Param) : Deliver(page)
  /\ UNCHANGED <<feed, at, pages, follow, failures>>

Request ==
  /\ fetch.kind # "none" /\ ~Complete /\ ~fetch.asked
  /\ Reused(Param) = {}
  /\ fetch' = [fetch EXCEPT !.asked = TRUE, !.found = Found(Param)]
  /\ UNCHANGED <<feed, at, pages, follow, failures>>

Answer ==
  /\ fetch.asked
  /\ Deliver(Completed(fetch.found, Param))
  /\ UNCHANGED <<feed, at, pages, follow, failures>>

\* An answer that is an error makes an empty page.
Fail ==
  /\ fetch.asked /\ failures < Failures
  /\ Deliver(EmptyPage)
  /\ failures' = failures + 1
  /\ UNCHANGED <<feed, at, pages, follow>>

Finish ==
  /\ fetch.kind # "none" /\ Complete
  /\ pages' = CASE fetch.kind = "all"  -> fetch.done
                [] fetch.kind = "next" -> pages \o fetch.done
                [] OTHER -> fetch.done \o pages
  /\ fetch' = Idle
  /\ UNCHANGED <<feed, at, follow, failures>>

-----------------------------------------------------------------------------
\* The page: autoRefetchRef, fetchNextPageRef and fetchPreviousPageRef observe
\* elements at the ends of the list, which are there when it shows something.

Tick ==
  /\ fetch = Idle /\ follow
  /\ fetch' = [Idle EXCEPT !.kind = "all"]
  /\ UNCHANGED <<feed, at, pages, follow, failures>>

fetchNextPage ==
  /\ fetch = Idle /\ Shown # {} /\ Last(pages).next # None
  /\ fetch' = [Idle EXCEPT !.kind = "next"]
  /\ UNCHANGED <<feed, at, pages, follow, failures>>

fetchPreviousPage ==
  /\ fetch = Idle /\ Shown # {} /\ Head(pages).previous # None
  /\ fetch' = [Idle EXCEPT !.kind = "previous"]
  /\ UNCHANGED <<feed, at, pages, follow, failures>>

Scroll ==
  /\ Shown # {}
  /\ follow' = ~follow
  /\ UNCHANGED <<feed, at, pages, fetch, failures>>

Next ==
  \/ Arrive
  \/ Reuse \/ Request \/ Answer \/ Fail \/ Finish
  \/ Tick \/ fetchNextPage \/ fetchPreviousPage \/ Scroll

\* Requests are answered, the timer of the refetch ticks while the end is visible,
\* and the page at the end that is visible is asked for.
Fairness ==
  /\ WF_vars(Reuse) /\ WF_vars(Request) /\ WF_vars(Answer) /\ WF_vars(Finish)
  /\ WF_vars(Tick)
  /\ SF_vars(follow /\ IF NewestFirst THEN fetchPreviousPage ELSE fetchNextPage)

Spec == Init /\ [][Next]_vars /\ Fairness

-----------------------------------------------------------------------------
\* The pages are in the order of the list and share no log.
InOrder ==
  \A i, j \in DOMAIN pages : i < j =>
    \A a \in pages[i].ids, b \in pages[j].ids : IF NewestFirst THEN a > b ELSE a < b

\* No log is missing between two that are shown, unless it has the very time of one
\* of them: a page that ends among lines of the same time skips the others.
NoGap ==
  \A i \in Log : Shown # {} /\ Min(Shown) < i /\ i < Max(Shown) =>
    \E j \in Shown : at[j] = at[i]

\* The pages are one stretch of the log, in its order.
FeedInv == TypeOK /\ InOrder /\ NoGap

\* Older logs than those shown can be asked for.
OlderReachable ==
  LET end == IF NewestFirst THEN Last(pages) ELSE Head(pages)
  IN  pages # <<>> /\ end.ids # {} /\ (\E i \in Log : at[i] < at[Min(end.ids)])
        => (IF NewestFirst THEN end.next ELSE end.previous) # None

\* The lines around a line, at its time as the page writes it, contain it.
ContextHasLine == \A i \in Shown : i \in get_context(Written(at[i]))

\* The first page was asked again from a time written later than that of all its
\* lines: it is then empty, with no pointer to any line.
Emptied == pages # <<>> /\ Head(pages).ids = {} /\ Head(pages).cursor # None

\* Every log that arrives is shown, or a newer one, as long as the user follows.
NewestShown ==
  \A n \in 1..MaxLogs :
    n \in Log ~> (~follow \/ Emptied \/ (n \in Log /\ \E i \in Shown : at[i] >= at[n]))
=============================================================================
