---------------------------- MODULE LogFeed_proofs ----------------------------
(***************************************************************************)
(* Theorems about LogFeed, for any number of logs, of logs at one time, of *)
(* logs on a page and of failed requests, whichever way the list is sorted *)
(* and whenever logs arrive between two requests of a fetch.               *)
(***************************************************************************)
EXTENDS LogFeed, FiniteSetTheorems, SequenceTheorems, WellFoundedInduction, TLAPS

-----------------------------------------------------------------------------
(* The ends of a set of logs                                               *)

LEMMA LeastOf ==
    ASSUME NEW S \in SUBSET Nat, S # {}
    PROVE  Min(S) \in S /\ \A s \in S : Min(S) <= s
<1> DEFINE Less == {ss \in Nat \X Nat : ss[1] < ss[2]}
<1>1. IsWellFoundedOn(Less, Nat)
  BY NatLessThanWellFounded DEF OpToRel
<1>2. \A a, b \in Nat : b < a => <<b, a>> \in Less
  OBVIOUS
<1> HIDE DEF Less
<1>3. PICK a \in S : \A b \in S : ~(<<b, a>> \in Less)
  BY <1>1, WFMin
<1>4. \A b \in S : a <= b
  <2> TAKE b \in S
  <2>1. a \in Nat /\ b \in Nat
    OBVIOUS
  <2>2. ~(b < a)
    BY <1>2, <1>3, <2>1
  <2> QED
    BY <2>1, <2>2
<1> QED
  BY <1>4 DEF Min

LEMMA GreatestOf ==
    ASSUME NEW n \in Nat, NEW S \in SUBSET (1..n), S # {}
    PROVE  Max(S) \in S /\ \A s \in S : s <= Max(S)
<1> DEFINE T == {n - s : s \in S}
<1>0. \A s \in S : s \in Nat /\ s <= n
  OBVIOUS
<1>1. T \in SUBSET Nat /\ T # {}
  <2>1. \A s \in S : n - s \in Nat
    BY <1>0
  <2> QED
    BY <2>1
<1>2. PICK t \in T : \A u \in T : t <= u
  <2> HIDE DEF T
  <2> QED
    BY <1>1, LeastOf
<1>3. PICK a \in S : t = n - a
  OBVIOUS
<1>4. \A s \in S : s <= a
  BY <1>0, <1>2, <1>3
<1> QED
  BY <1>4 DEF Max

LEMMA FiniteLogs ==
    ASSUME NEW n \in Nat, NEW S \in SUBSET (1..n)
    PROVE  IsFiniteSet(S) /\ Cardinality(S) \in Nat /\ \A s \in S : s \in Nat
<1>1. IsFiniteSet(1..n)
  BY FS_Interval
<1>2. IsFiniteSet(S)
  BY <1>1, FS_Subset
<1> QED
  BY <1>2, FS_CardinalityType

LEMMA FirstOfFacts ==
    ASSUME NEW n \in Nat, NEW S \in SUBSET (1..n), NEW m \in Nat
    PROVE  /\ FirstOf(S, m) \subseteq S /\ Cardinality(FirstOf(S, m)) <= m
           /\ \A s \in FirstOf(S, m), r \in S : r < s => r \in FirstOf(S, m)
           /\ m # 0 /\ S # {} => Min(S) \in FirstOf(S, m)
<1>0. \A s \in S : s \in Nat
  OBVIOUS
<1> DEFINE Under(s) == {j \in S : j < s}
<1>1. FirstOf(S, m) = {s \in S : Cardinality(Under(s)) < m}
  BY DEF FirstOf
<1>2. \A T \in SUBSET (1..n) : IsFiniteSet(T) /\ Cardinality(T) \in Nat
  BY FiniteLogs
<1>3. \A s \in S : Under(s) \in SUBSET (1..n)
  OBVIOUS
<1>4. ASSUME NEW s \in FirstOf(S, m), NEW r \in S, r < s PROVE r \in FirstOf(S, m)
  <2>1. s \in S /\ Cardinality(Under(s)) < m
    BY <1>1
  <2>2. Under(r) \in SUBSET Under(s)
    <3>1. r \in Nat /\ s \in Nat /\ \A j \in S : j \in Nat
      BY <1>0, <2>1
    <3>2. \A j \in S : j < r => j < s
      BY <1>4, <3>1
    <3> QED
      BY <3>2
  <2> HIDE DEF Under
  <2>3. Cardinality(Under(r)) <= Cardinality(Under(s))
    BY <1>2, <1>3, <2>1, <2>2, FS_Subset
  <2>4. Cardinality(Under(r)) \in Nat /\ Cardinality(Under(s)) \in Nat
    BY <1>2, <1>3, <2>1
  <2> QED
    BY <1>1, <2>1, <2>3, <2>4
<1>5. Cardinality(FirstOf(S, m)) <= m
  <2> DEFINE F == FirstOf(S, m)
  <2>1. F \in SUBSET (1..n) /\ F \subseteq S
    BY <1>1
  <2>2. CASE F = {}
    BY <2>2, FS_EmptySet
  <2>3. CASE F # {}
    <3> HIDE DEF F
    <3>1. Max(F) \in F /\ \A s \in F : s <= Max(F)
      BY <2>1, <2>3, GreatestOf
    <3>2. F \ {Max(F)} \in SUBSET Under(Max(F))
      <4>1. \A j \in F : j \in S /\ j \in Nat
        BY <1>0, <2>1
      <4>2. \A j \in F : j # Max(F) => j < Max(F)
        BY <3>1, <4>1
      <4> QED
        BY <4>1, <4>2
    <3>3. Cardinality(Under(Max(F))) < m
      BY <1>1, <3>1 DEF F
    <3>4. Cardinality(F \ {Max(F)}) = Cardinality(F) - 1
      BY <1>2, <2>1, <3>1, FS_RemoveElement
    <3>5. Max(F) \in S
      BY <2>1, <3>1
    <3> HIDE DEF Under
    <3>6. Cardinality(F \ {Max(F)}) <= Cardinality(Under(Max(F)))
      BY <1>2, <1>3, <3>2, <3>5, FS_Subset
    <3>7. Cardinality(F) \in Nat /\ Cardinality(Under(Max(F))) \in Nat
      BY <1>2, <1>3, <2>1, <3>5
    <3> QED
      BY <3>3, <3>4, <3>6, <3>7 DEF F
  <2> QED
    BY <2>2, <2>3
<1>6. ASSUME m # 0, S # {} PROVE Min(S) \in FirstOf(S, m)
  <2>1. S \in SUBSET Nat
    OBVIOUS
  <2>2. Min(S) \in S /\ \A s \in S : Min(S) <= s
    BY <1>6, <2>1, LeastOf
  <2>3. \A j \in S : ~(j < Min(S))
    <3> TAKE j \in S
    <3>1. Min(S) \in Nat /\ j \in Nat
      BY <1>0, <2>2
    <3>2. Min(S) <= j
      BY <2>2
    <3> QED
      BY <3>1, <3>2
  <2>4. Under(Min(S)) = {}
    BY <2>3
  <2> QED
    BY <1>1, <1>6, <2>2, <2>4, FS_EmptySet
<1> QED
  BY <1>1, <1>4, <1>5, <1>6

LEMMA LastOfFacts ==
    ASSUME NEW n \in Nat, NEW S \in SUBSET (1..n), NEW m \in Nat
    PROVE  /\ LastOf(S, m) \subseteq S /\ Cardinality(LastOf(S, m)) <= m
           /\ \A s \in LastOf(S, m), r \in S : r > s => r \in LastOf(S, m)
           /\ m # 0 /\ S # {} => Max(S) \in LastOf(S, m)
<1>0. \A s \in S : s \in Nat
  OBVIOUS
<1> DEFINE Over(s) == {j \in S : j > s}
<1>1. LastOf(S, m) = {s \in S : Cardinality(Over(s)) < m}
  BY DEF LastOf
<1>2. \A T \in SUBSET (1..n) : IsFiniteSet(T) /\ Cardinality(T) \in Nat
  BY FiniteLogs
<1>3. \A s \in S : Over(s) \in SUBSET (1..n)
  OBVIOUS
<1>4. ASSUME NEW s \in LastOf(S, m), NEW r \in S, r > s PROVE r \in LastOf(S, m)
  <2>1. s \in S /\ Cardinality(Over(s)) < m
    BY <1>1
  <2>2. Over(r) \in SUBSET Over(s)
    <3>1. r \in Nat /\ s \in Nat /\ \A j \in S : j \in Nat
      BY <1>0, <2>1
    <3>2. \A j \in S : j > r => j > s
      BY <1>4, <3>1
    <3> QED
      BY <3>2
  <2> HIDE DEF Over
  <2>3. Cardinality(Over(r)) <= Cardinality(Over(s))
    BY <1>2, <1>3, <2>1, <2>2, FS_Subset
  <2>4. Cardinality(Over(r)) \in Nat /\ Cardinality(Over(s)) \in Nat
    BY <1>2, <1>3, <2>1
  <2> QED
    BY <1>1, <2>1, <2>3, <2>4
<1>5. Cardinality(LastOf(S, m)) <= m
  <2> DEFINE F == LastOf(S, m)
  <2>1. F \in SUBSET (1..n) /\ F \subseteq S
    BY <1>1
  <2>2. CASE F = {}
    BY <2>2, FS_EmptySet
  <2>3. CASE F # {}
    <3> HIDE DEF F
    <3>1. Min(F) \in F /\ \A s \in F : Min(F) <= s
      <4>1. F \in SUBSET Nat
        BY <2>1
      <4> QED
        BY <2>3, <4>1, LeastOf
    <3>2. F \ {Min(F)} \in SUBSET Over(Min(F))
      <4>1. \A j \in F : j \in S /\ j \in Nat
        BY <1>0, <2>1
      <4>2. \A j \in F : j # Min(F) => j > Min(F)
        BY <3>1, <4>1
      <4> QED
        BY <4>1, <4>2
    <3>3. Cardinality(Over(Min(F))) < m
      BY <1>1, <3>1 DEF F
    <3>4. Cardinality(F \ {Min(F)}) = Cardinality(F) - 1
      BY <1>2, <2>1, <3>1, FS_RemoveElement
    <3>5. Min(F) \in S
      BY <2>1, <3>1
    <3> HIDE DEF Over
    <3>6. Cardinality(F \ {Min(F)}) <= Cardinality(Over(Min(F)))
      BY <1>2, <1>3, <3>2, <3>5, FS_Subset
    <3>7. Cardinality(F) \in Nat /\ Cardinality(Over(Min(F))) \in Nat
      BY <1>2, <1>3, <2>1, <3>5
    <3> QED
      BY <3>3, <3>4, <3>6, <3>7 DEF F
  <2> QED
    BY <2>2, <2>3
<1>6. ASSUME m # 0, S # {} PROVE Max(S) \in LastOf(S, m)
  <2>1. Max(S) \in S /\ \A s \in S : s <= Max(S)
    BY <1>6, GreatestOf
  <2>2. \A j \in S : ~(j > Max(S))
    <3> TAKE j \in S
    <3>1. Max(S) \in Nat /\ j \in Nat
      BY <1>0, <2>1
    <3>2. Max(S) >= j
      BY <2>1, <3>1
    <3> QED
      BY <3>1, <3>2
  <2>3. Over(Max(S)) = {}
    BY <2>2
  <2> QED
    BY <1>1, <1>6, <2>1, <2>3, FS_EmptySet
<1> QED
  BY <1>1, <1>4, <1>5, <1>6

-----------------------------------------------------------------------------
(* The inductive invariant                                                 *)

CursorType ==
    [toward : {"none", "asc", "desc", "below", "above"}, from : Nat]
PageType ==
    [ids : SUBSET Nat, next : CursorType, previous : CursorType, cursor : CursorType,
     param : CursorType]

FetchType ==
    [kind : {"none", "all", "next", "previous"}, done : Seq(PageType), asked : BOOLEAN,
     found : PageType]

\* Logs arrive in the order of their times, and those of one time are few.
TimesGrow ==
    /\ at \in Seq(Nat)
    /\ \A i, j \in Log : i < j => at[i] <= at[j] /\ (feed.store = "requests" => at[i] # at[j])
    /\ \A i \in Log : at[i] % 2 = 0 /\ Cardinality({j \in Log : at[j] = at[i]}) <= Ties

FeedTyped ==
    /\ feed \in Feeds /\ TimesGrow
    /\ pages \in Seq(PageType)
    /\ fetch \in FetchType
    /\ follow \in BOOLEAN /\ failures \in 0..Failures

\* a comes before b on the page; b comes right after a.
Before(a, b) == IF NewestFirst THEN a > b ELSE a < b
NextTo(a, b) == a \in Log /\ b \in Log /\ Before(a, b) /\ ~\E k \in Log : Before(a, k) /\ Before(k, b)

\* The logs of a page are consecutive.
Stretch(p) ==
    /\ p.ids \subseteq Log /\ Cardinality(p.ids) <= PerPage
    /\ \A a, b \in p.ids, k \in Log : a < k /\ k < b => k \in p.ids

\* A cursor of lines is the time of one, the last before or the first after a time.
TimeAfter(time, from) ==
    /\ time < from
    /\ \E m \in Log : at[m] = from
    /\ \A k \in Log : at[k] <= time \/ from <= at[k]
TimeBefore(time, from) ==
    /\ from < time
    /\ \E m \in Log : at[m] = from
    /\ \A k \in Log : at[k] <= from \/ time <= at[k]

\* The pointers of a page lead to the logs next to it.
PointsOn(p) ==
    p.next # None =>
        /\ p.ids # {}
        /\ IF feed.store = "lines"
           THEN p.next.toward = "asc" /\ TimeAfter(at[Max(p.ids)], p.next.from)
           ELSE p.next.toward = "below" /\ p.next.from = BottomOf(p.ids)
                /\ Below(p.next.from) # {}
PointsBack(p) ==
    p.previous # None =>
        /\ p.ids # {}
        /\ IF feed.store = "lines"
           THEN p.previous.toward = "desc" /\ TimeBefore(at[Min(p.ids)], p.previous.from)
           ELSE p.previous.toward = "above" /\ p.previous.from = TopOf(p.ids)

\* A page knows of the logs that are older than its own.
KnowsOlder(p) ==
    p.ids # {} /\ (\E i \in Log : at[i] < at[Min(p.ids)]) =>
        (IF NewestFirst THEN p.next ELSE p.previous) # None

\* Where the first page is asked from again.
Begins(p) ==
    p.cursor # None =>
        IF feed.store = "lines" THEN p.cursor.toward = "asc"
        ELSE p.param = None /\ p.cursor.toward = "above" /\ p.cursor.from \in Log

\* A parameter names a log that there is, or the time of one.
Known(param) ==
    /\ param.toward \in IF feed.store = "lines" THEN {"none", "asc", "desc"}
                        ELSE {"none", "below", "above"}
    /\ param.toward = "none" => param = None
    /\ param.toward \in {"asc", "desc"} => \E m \in Log : at[m] = param.from
    /\ param.toward \in {"below", "above"} => param.from \in Log

\* The logs of a page, ids, are those that its parameter asked for.
AskedFor(ids, param) ==
    ids # {} =>
        /\ param.toward = "asc"   => at[Min(ids)] = param.from
        /\ param.toward = "desc"  => at[Max(ids)] = param.from
        /\ param.toward = "below" => NextTo(param.from, TopOf(ids))
        /\ param.toward = "above" => NextTo(BottomOf(ids), param.from)

PageOK(p) ==
    /\ Stretch(p) /\ PointsOn(p) /\ PointsBack(p) /\ KnowsOlder(p) /\ Begins(p)
    /\ Known(p.param) /\ AskedFor(p.ids, p.param)

\* The page q follows p.
Follow(p, q) ==
    p.ids # {} /\ q.ids # {} =>
        IF feed.store = "lines"
        THEN p.next = Cursor("asc", at[Min(q.ids)])
        ELSE NextTo(BottomOf(p.ids), TopOf(q.ids))

\* A list of pages is one stretch of the log, in its order; only its ends may be empty.
Chain(s) ==
    /\ \A i \in DOMAIN s : PageOK(s[i])
    /\ \A i \in DOMAIN s : 1 < i /\ i < Len(s) => s[i].ids # {}
    /\ \A i \in 1..Len(s) - 1 : Follow(s[i], s[i+1])
    /\ \A i, j \in DOMAIN s : i < j => \A a \in s[i].ids, b \in s[j].ids : Before(a, b)

FetchOK ==
    /\ fetch.kind = "none" => fetch = Idle
    /\ fetch.kind = "all" =>
         /\ Chain(fetch.done)
         /\ \A i \in 1..Len(fetch.done) - 1 : fetch.done[i].ids # {}
    /\ fetch.kind = "next" =>
         /\ pages # <<>> /\ Last(pages).next # None
         /\ fetch.done # <<>> =>
              /\ Len(fetch.done) = 1 /\ PageOK(fetch.done[1])
              /\ fetch.done[1].param = Last(pages).next
    /\ fetch.kind = "previous" =>
         /\ pages # <<>> /\ Head(pages).previous # None
         /\ fetch.done # <<>> =>
              /\ Len(fetch.done) = 1 /\ PageOK(fetch.done[1])
              /\ fetch.done[1].param = Head(pages).previous
              /\ Follow(fetch.done[1], Head(pages))

\* What was found and not delivered yet; the pointers of lines are searched after it.
FoundOK ==
    fetch.asked =>
        /\ fetch.kind # "none" /\ ~Complete
        /\ fetch.found.param = None /\ fetch.found.cursor = None
        /\ Stretch(fetch.found) /\ AskedFor(fetch.found.ids, Param)
        /\ feed.store = "requests" =>
             PointsOn(fetch.found) /\ PointsBack(fetch.found) /\ KnowsOlder(fetch.found)

FeedIInv == FeedTyped /\ Chain(pages) /\ FetchOK /\ FoundOK

-----------------------------------------------------------------------------
(* Orders                                                                  *)

LEMMA LogFacts ==
    ASSUME FeedTyped
    PROVE  /\ Len(at) \in Nat /\ Log = 1..Len(at) /\ Log \subseteq Nat
           /\ \A i \in Log : at[i] \in Nat
           /\ \A i, j \in Log : i <= j => at[i] <= at[j]
           /\ \A i, j \in Log : at[i] < at[j] => i < j
           /\ feed.store \in {"lines", "requests"}
           /\ feed.store = "lines" => ~NewestFirst
<1>1. at \in Seq(Nat) /\ \A i, j \in Log : i < j => at[i] <= at[j]
  BY DEF FeedTyped, TimesGrow
<1>2. Len(at) \in Nat /\ Log = 1..Len(at) /\ Log \subseteq Nat /\ \A i \in Log : at[i] \in Nat
  BY <1>1 DEF Log
<1>3. \A i, j \in Log : i <= j => at[i] <= at[j]
  BY <1>1, <1>2
<1>4. \A i, j \in Log : at[i] < at[j] => i < j
  <2> TAKE i, j \in Log
  <2>1. i \in Nat /\ j \in Nat /\ at[i] \in Nat /\ at[j] \in Nat
    BY <1>2
  <2> QED
    BY <1>3, <2>1
<1>5. feed \in {Lines, Requests("first"), Requests("last")}
  BY Bounds DEF FeedTyped
<1> QED
  BY <1>2, <1>3, <1>4, <1>5 DEF Lines, Requests, NewestFirst

LEMMA BeforeOrder ==
    ASSUME NEW a \in Nat, NEW b \in Nat
    PROVE  /\ ~Before(a, a) /\ (Before(a, b) \/ a = b \/ Before(b, a))
           /\ Before(a, b) => ~Before(b, a)
           /\ \A c \in Nat : Before(a, b) /\ Before(b, c) => Before(a, c)
BY DEF Before

LEMMA EndsOf ==
    ASSUME FeedTyped, NEW S \in SUBSET Log, S # {}
    PROVE  /\ Min(S) \in S /\ Max(S) \in S
           /\ \A s \in S : s \in Log /\ s \in Nat /\ Min(S) <= s /\ s <= Max(S)
           /\ TopOf(S) \in S /\ BottomOf(S) \in S
           /\ \A s \in S : s = TopOf(S) \/ Before(TopOf(S), s)
           /\ \A s \in S : s = BottomOf(S) \/ Before(s, BottomOf(S))
<1>1. /\ Len(at) \in Nat /\ Log = 1..Len(at)
      /\ S \in SUBSET (1..Len(at)) /\ S \in SUBSET Nat
  BY LogFacts
<1>2. Max(S) \in S /\ \A s \in S : s <= Max(S)
  BY <1>1, GreatestOf
<1>3. Min(S) \in S /\ \A s \in S : Min(S) <= s
  BY <1>1, LeastOf
<1>4. \A s \in S : s \in Nat
  BY <1>1
<1>5. Max(S) \in Nat /\ Min(S) \in Nat
  BY <1>2, <1>3, <1>4
<1>6. TopOf(S) = (IF NewestFirst THEN Max(S) ELSE Min(S))
      /\ BottomOf(S) = (IF NewestFirst THEN Min(S) ELSE Max(S))
  BY DEF TopOf, BottomOf
<1>7. \A s \in S : (s = Min(S) \/ Min(S) < s) /\ (s = Max(S) \/ s < Max(S))
  BY <1>2, <1>3, <1>4, <1>5
<1> QED
  BY <1>2, <1>3, <1>4, <1>5, <1>6, <1>7 DEF Before

LEMMA TopFacts ==
    ASSUME FeedTyped, NEW S \in SUBSET Log, NEW m \in Nat
    PROVE  /\ Top(S, m) \subseteq S /\ Cardinality(Top(S, m)) <= m
           /\ \A s \in Top(S, m), r \in S : Before(r, s) => r \in Top(S, m)
           /\ m # 0 /\ S # {} => TopOf(S) \in Top(S, m)
<1>1. Len(at) \in Nat /\ S \in SUBSET (1..Len(at))
  BY LogFacts
<1> QED
  BY <1>1, FirstOfFacts, LastOfFacts DEF Top, TopOf, Before

LEMMA BottomFacts ==
    ASSUME FeedTyped, NEW S \in SUBSET Log, NEW m \in Nat
    PROVE  /\ Bottom(S, m) \subseteq S /\ Cardinality(Bottom(S, m)) <= m
           /\ \A s \in Bottom(S, m), r \in S : Before(s, r) => r \in Bottom(S, m)
           /\ m # 0 /\ S # {} => BottomOf(S) \in Bottom(S, m)
<1>1. Len(at) \in Nat /\ S \in SUBSET (1..Len(at))
  BY LogFacts
<1> QED
  BY <1>1, FirstOfFacts, LastOfFacts DEF Bottom, BottomOf, Before

LEMMA SidesOf ==
    ASSUME NEW i
    PROVE  Above(i) = {j \in Log : Before(j, i)} /\ Below(i) = {j \in Log : Before(i, j)}
BY DEF Above, Below, Before

\* Between two logs of a page, in either order.
LEMMA Consecutive ==
    ASSUME FeedTyped, NEW S \in SUBSET Log,
           \A a, b \in S, k \in Log : Before(a, k) /\ Before(k, b) => k \in S
    PROVE  \A a, b \in S, k \in Log : a < k /\ k < b => k \in S
<1> SUFFICES ASSUME NEW a \in S, NEW b \in S, NEW k \in Log, a < k, k < b PROVE k \in S
  OBVIOUS
<1>1. a \in Nat /\ b \in Nat /\ k \in Nat
  BY LogFacts
<1>2. (Before(a, k) /\ Before(k, b)) \/ (Before(b, k) /\ Before(k, a))
  BY <1>1 DEF Before
<1> QED
  BY <1>2

-----------------------------------------------------------------------------
(* What the server answers                                                 *)

LEMMA NoneIsCursor == None \in CursorType /\ EmptyPage \in PageType
BY DEF None, EmptyPage, CursorType, PageType

\* A page of requests.
LEMMA PaginateFacts ==
    ASSUME FeedTyped, feed.store = "requests", NEW cursor \in CursorType,
           cursor = None \/ (cursor.toward \in {"below", "above"} /\ cursor.from \in Log)
    PROVE  LET page == paginate(cursor)
           IN  /\ page \in PageType /\ page.param = None /\ page.cursor = None
               /\ Stretch(page) /\ PointsOn(page) /\ PointsBack(page) /\ KnowsOlder(page)
               /\ page.ids # {} =>
                    /\ cursor.toward = "below" => NextTo(cursor.from, TopOf(page.ids))
                    /\ cursor.toward = "above" => NextTo(BottomOf(page.ids), cursor.from)
<1> DEFINE page == paginate(cursor)
           ids == page.ids
           x == cursor.from
<1>1. /\ PerPage \in Nat /\ PerPage # 0
      /\ Log \in SUBSET Log /\ Below(x) \in SUBSET Log /\ Above(x) \in SUBSET Log
      /\ Log \subseteq Nat
  BY Bounds, LogFacts, SidesOf
<1> DEFINE found == CASE cursor.toward = "below" -> Top(Below(x), PerPage)
                      [] cursor.toward = "above" -> Bottom(Above(x), PerPage)
                      [] OTHER -> Top(Log, PerPage)
           on == IF found # {} /\ (Below(BottomOf(found)) # {} \/ cursor.toward = "above")
                 THEN Cursor("below", BottomOf(found)) ELSE None
           back == IF found # {} /\ cursor # None
                      /\ (Above(TopOf(found)) # {} \/ cursor.toward = "below")
                   THEN Cursor("above", TopOf(found)) ELSE None
<1>2. page = [EmptyPage EXCEPT !.ids = found, !.next = on, !.previous = back]
  BY DEF paginate
<1>a. /\ page = [ids |-> found, next |-> on, previous |-> back, cursor |-> None, param |-> None]
      /\ ids = found /\ page.next = on /\ page.previous = back
      /\ page.param = None /\ page.cursor = None
  <2> HIDE DEF found, on, back, page
  <2> QED
    BY <1>2 DEF EmptyPage
<1>b. /\ Top(Below(x), PerPage) \subseteq Below(x)
      /\ Cardinality(Top(Below(x), PerPage)) <= PerPage
      /\ \A s \in Top(Below(x), PerPage), r \in Below(x) :
            Before(r, s) => r \in Top(Below(x), PerPage)
  <2> HIDE DEF page
  <2> QED
    BY <1>1, TopFacts
<1>c. /\ Bottom(Above(x), PerPage) \subseteq Above(x)
      /\ Cardinality(Bottom(Above(x), PerPage)) <= PerPage
      /\ \A s \in Bottom(Above(x), PerPage), r \in Above(x) :
            Before(s, r) => r \in Bottom(Above(x), PerPage)
  <2> HIDE DEF page
  <2> QED
    BY <1>1, BottomFacts
<1>3. \/ cursor = None /\ cursor.toward = "none" /\ ids = Top(Log, PerPage)
      \/ cursor.toward = "below" /\ x \in Log /\ ids = Top(Below(x), PerPage)
      \/ cursor.toward = "above" /\ x \in Log /\ ids = Bottom(Above(x), PerPage)
  BY <1>a DEF None
<1>4. /\ page.param = None /\ page.cursor = None
      /\ page = [ids |-> ids, next |-> page.next, previous |-> page.previous,
                 cursor |-> None, param |-> None]
      /\ page.next = IF ids # {} /\ (Below(BottomOf(ids)) # {} \/ cursor.toward = "above")
                     THEN Cursor("below", BottomOf(ids)) ELSE None
      /\ page.previous = IF ids # {} /\ cursor # None
                            /\ (Above(TopOf(ids)) # {} \/ cursor.toward = "below")
                         THEN Cursor("above", TopOf(ids)) ELSE None
  BY <1>a
<1> HIDE DEF page
<1>5. /\ ids \subseteq Log /\ Cardinality(ids) <= PerPage
      /\ \A a, b \in ids, k \in Log : Before(a, k) /\ Before(k, b) => k \in ids
  <2>1. CASE cursor = None /\ ids = Top(Log, PerPage)
    BY <1>1, <2>1, TopFacts
  <2>2. CASE x \in Log /\ ids = Top(Below(x), PerPage)
    <3>1. /\ ids \subseteq Below(x) /\ Cardinality(ids) <= PerPage
          /\ \A s \in ids, r \in Below(x) : Before(r, s) => r \in ids
      BY <2>2, <1>b
    <3>2. ASSUME NEW a \in ids, NEW k \in Log, Before(a, k) PROVE k \in Below(x)
      <4>1. a \in Log /\ Before(x, a)
        BY <3>1, SidesOf
      <4>2. x \in Nat /\ a \in Nat /\ k \in Nat
        BY <1>1, <2>2, <4>1
      <4> QED
        BY <3>2, <4>1, <4>2, BeforeOrder, SidesOf
    <3> QED
      BY <1>1, <3>1, <3>2
  <2>3. CASE x \in Log /\ ids = Bottom(Above(x), PerPage)
    <3>1. /\ ids \subseteq Above(x) /\ Cardinality(ids) <= PerPage
          /\ \A s \in ids, r \in Above(x) : Before(s, r) => r \in ids
      BY <2>3, <1>c
    <3>2. ASSUME NEW b \in ids, NEW k \in Log, Before(k, b) PROVE k \in Above(x)
      <4>1. b \in Log /\ Before(b, x)
        BY <3>1, SidesOf
      <4>2. x \in Nat /\ b \in Nat /\ k \in Nat
        BY <1>1, <2>3, <4>1
      <4> QED
        BY <3>2, <4>1, <4>2, BeforeOrder, SidesOf
    <3> QED
      BY <1>1, <3>1, <3>2
  <2> QED
    BY <1>3, <2>1, <2>2, <2>3
<1>6. Stretch(page)
  BY <1>5, Consecutive DEF Stretch
<1>7. ASSUME ids # {}
      PROVE  /\ TopOf(ids) \in ids /\ BottomOf(ids) \in ids
             /\ TopOf(ids) \in Nat /\ BottomOf(ids) \in Nat
             /\ \A s \in ids : s = TopOf(ids) \/ Before(TopOf(ids), s)
             /\ \A s \in ids : s = BottomOf(ids) \/ Before(s, BottomOf(ids))
  BY <1>1, <1>5, <1>7, EndsOf
<1>8. page \in PageType
  <2>1. page.next \in CursorType /\ page.previous \in CursorType
    BY <1>4, <1>7, NoneIsCursor DEF Cursor, CursorType
  <2> QED
    BY <1>1, <1>4, <1>5, <2>1, NoneIsCursor DEF PageType
<1>9. ids # {} /\ cursor.toward = "above" => Below(BottomOf(ids)) # {}
  <2> SUFFICES ASSUME ids # {}, cursor.toward = "above" PROVE Below(BottomOf(ids)) # {}
    OBVIOUS
  <2>1. x \in Log /\ ids \subseteq Above(x)
    BY <1>1, <1>3, <1>c DEF None
  <2>2. x \in Below(BottomOf(ids))
    BY <1>7, <2>1, SidesOf
  <2> QED
    BY <2>2
<1>10. PointsOn(page)
  BY <1>4, <1>9 DEF PointsOn, Cursor, None
<1>11. PointsBack(page)
  BY <1>4 DEF PointsBack, Cursor, None
<1>12. KnowsOlder(page)
  <2> SUFFICES ASSUME ids # {}, NEW i \in Log, at[i] < at[Min(ids)]
               PROVE  (IF NewestFirst THEN page.next ELSE page.previous) # None
    BY DEF KnowsOlder
  <2>1. Min(ids) \in Log /\ i < Min(ids)
    BY <1>5, EndsOf, LogFacts
  <2>2. CASE NewestFirst
    <3>1. i \in Below(BottomOf(ids))
      BY <2>1, <2>2 DEF Below, BottomOf
    <3> QED
      BY <1>4, <2>2, <3>1 DEF Cursor, None
  <2>3. CASE ~NewestFirst
    <3>1. i \in Above(TopOf(ids))
      BY <2>1, <2>3 DEF Above, TopOf
    <3>2. cursor # None
      <4> SUFFICES ASSUME cursor = None PROVE FALSE
        OBVIOUS
      <4>1. ids = Top(Log, PerPage)
        BY <1>3 DEF None
      <4>2. TopOf(ids) \in ids /\ Before(i, TopOf(ids))
        BY <1>7, <3>1, SidesOf
      <4>3. i \in ids
        BY <1>1, <4>1, <4>2, TopFacts
      <4> QED
        BY <1>1, <1>7, <4>2, <4>3, BeforeOrder
    <3> QED
      BY <1>4, <2>3, <3>1, <3>2 DEF Cursor, None
  <2> QED
    BY <2>2, <2>3
<1>13. ASSUME ids # {}, cursor.toward = "below" PROVE NextTo(x, TopOf(ids))
  <2>1. /\ x \in Log /\ x \in Nat /\ ids \subseteq Below(x)
        /\ \A s \in ids, r \in Below(x) : Before(r, s) => r \in ids
    BY <1>1, <1>3, <1>13, <1>b DEF None
  <2>2. TopOf(ids) \in Log /\ Before(x, TopOf(ids))
    BY <1>7, <1>13, <2>1, SidesOf
  <2>3. ASSUME NEW k \in Log, Before(x, k), Before(k, TopOf(ids)) PROVE FALSE
    <3>1. k \in ids
      BY <1>7, <1>13, <2>1, <2>3, SidesOf
    <3> QED
      BY <1>1, <1>7, <1>13, <2>3, <3>1, BeforeOrder
  <2> QED
    BY <2>1, <2>2, <2>3 DEF NextTo
<1>14. ASSUME ids # {}, cursor.toward = "above" PROVE NextTo(BottomOf(ids), x)
  <2>1. /\ x \in Log /\ x \in Nat /\ ids \subseteq Above(x)
        /\ \A s \in ids, r \in Above(x) : Before(s, r) => r \in ids
    BY <1>1, <1>3, <1>14, <1>c DEF None
  <2>2. BottomOf(ids) \in Log /\ Before(BottomOf(ids), x)
    BY <1>7, <1>14, <2>1, SidesOf
  <2>3. ASSUME NEW k \in Log, Before(BottomOf(ids), k), Before(k, x) PROVE FALSE
    <3>1. k \in ids
      BY <1>7, <1>14, <2>1, <2>3, SidesOf
    <3> QED
      BY <1>1, <1>7, <1>14, <2>3, <3>1, BeforeOrder
  <2> QED
    BY <2>1, <2>2, <2>3 DEF NextTo
<1> QED
  BY <1>4, <1>6, <1>8, <1>10, <1>11, <1>12, <1>13, <1>14 DEF page

\* Lines that were searched by time.
LEMMA SearchFacts ==
    ASSUME FeedTyped, NEW cursor \in CursorType, cursor.toward \in {"none", "asc", "desc"}
    PROVE  LET ids == search(cursor)
           IN  /\ ids \subseteq Log /\ Cardinality(ids) <= PerPage
               /\ \A a, b \in ids, k \in Log : a < k /\ k < b => k \in ids
               /\ ids # {} /\ (\E m \in Log : at[m] = cursor.from) =>
                    /\ cursor.toward = "asc" => at[Min(ids)] = cursor.from
                    /\ cursor.toward = "desc" => at[Max(ids)] = cursor.from
<1> DEFINE ids == search(cursor)
           x == cursor.from
           Until == {i \in Log : at[i] <= x}
           From == {i \in Log : at[i] >= x}
<1>1. /\ PerPage \in Nat /\ PerPage # 0 /\ x \in Nat
      /\ Len(at) \in Nat /\ Log = 1..Len(at)
      /\ \A i \in Log : i \in Nat /\ at[i] \in Nat
      /\ \A i, j \in Log : i <= j => at[i] <= at[j]
      /\ Log \in SUBSET (1..Len(at)) /\ Until \in SUBSET (1..Len(at)) /\ From \in SUBSET (1..Len(at))
  BY Bounds, LogFacts DEF CursorType
<1>2. \/ cursor.toward = "none" /\ ids = LastOf(Log, PerPage)
      \/ cursor.toward = "desc" /\ ids = LastOf(Until, PerPage)
      \/ cursor.toward = "asc" /\ ids = FirstOf(From, PerPage)
  BY DEF search
<1> HIDE DEF ids
<1>3. CASE cursor.toward = "none" /\ ids = LastOf(Log, PerPage)
  <2>1. /\ ids \subseteq Log /\ Cardinality(ids) <= PerPage
        /\ \A s \in ids, r \in Log : r > s => r \in ids
    BY <1>1, <1>3, LastOfFacts
  <2>2. ASSUME NEW a \in ids, NEW b \in ids, NEW k \in Log, a < k, k < b PROVE k \in ids
    BY <1>1, <2>1, <2>2
  <2> QED
    BY <1>3, <2>1, <2>2 DEF ids
<1>4. CASE cursor.toward = "desc" /\ ids = LastOf(Until, PerPage)
  <2>1. /\ ids \subseteq Until /\ Cardinality(ids) <= PerPage
        /\ \A s \in ids, r \in Until : r > s => r \in ids
        /\ Until # {} => Max(Until) \in ids
    <3> HIDE DEF Until
    <3> QED
      BY <1>1, <1>4, LastOfFacts
  <2>2. ASSUME NEW a \in ids, NEW b \in ids, NEW k \in Log, a < k, k < b PROVE k \in ids
    <3>1. b \in Log /\ at[b] <= x /\ a \in Log
      BY <2>1
    <3>2. at[k] <= at[b] /\ at[k] \in Nat /\ at[b] \in Nat
      BY <1>1, <2>2, <3>1
    <3>3. at[k] <= x
      BY <1>1, <3>1, <3>2
    <3> QED
      BY <1>1, <2>1, <2>2, <3>1, <3>3
  <2>3. ASSUME ids # {}, NEW m \in Log, at[m] = x PROVE at[Max(ids)] = x
    <3>1. m \in Until
      BY <1>1, <2>3
    <3>2. Max(Until) \in ids /\ \A s \in Until : s <= Max(Until)
      <4> HIDE DEF Until
      <4> QED
        BY <1>1, <2>1, <3>1, GreatestOf
    <3>3. ids \in SUBSET Log
      BY <2>1
    <3>4. /\ Max(ids) \in ids /\ Max(ids) \in Nat /\ \A s \in ids : s <= Max(ids)
          /\ \A s \in ids : s \in Nat
      BY <2>3, <3>3, EndsOf
    <3>5. m <= Max(ids)
      <4>1. m <= Max(Until) /\ Max(Until) <= Max(ids) /\ m \in Nat /\ Max(Until) \in Nat
        BY <1>1, <3>1, <3>2, <3>4
      <4> QED
        BY <3>4, <4>1
    <3>6. Max(ids) \in Log /\ at[Max(ids)] <= x /\ at[Max(ids)] \in Nat
      BY <1>1, <2>1, <3>4
    <3>7. at[m] <= at[Max(ids)]
      BY <1>1, <3>5, <3>6
    <3> QED
      BY <1>1, <2>3, <3>6, <3>7
  <2> QED
    BY <1>4, <2>1, <2>2, <2>3 DEF ids
<1>5. CASE cursor.toward = "asc" /\ ids = FirstOf(From, PerPage)
  <2>1. /\ ids \subseteq From /\ Cardinality(ids) <= PerPage
        /\ \A s \in ids, r \in From : r < s => r \in ids
        /\ From # {} => Min(From) \in ids
    <3> HIDE DEF From
    <3> QED
      BY <1>1, <1>5, FirstOfFacts
  <2>2. ASSUME NEW a \in ids, NEW b \in ids, NEW k \in Log, a < k, k < b PROVE k \in ids
    <3>1. a \in Log /\ at[a] >= x /\ b \in Log
      BY <2>1
    <3>2. at[a] <= at[k] /\ at[k] \in Nat /\ at[a] \in Nat
      BY <1>1, <2>2, <3>1
    <3>3. at[k] >= x
      BY <1>1, <3>1, <3>2
    <3> QED
      BY <1>1, <2>1, <2>2, <3>1, <3>3
  <2>3. ASSUME ids # {}, NEW m \in Log, at[m] = x PROVE at[Min(ids)] = x
    <3>1. m \in From
      BY <1>1, <2>3
    <3>2. Min(From) \in ids /\ \A s \in From : Min(From) <= s
      <4>1. From \in SUBSET Nat
        BY <1>1
      <4> HIDE DEF From
      <4> QED
        BY <2>1, <3>1, <4>1, LeastOf
    <3>3. ids \in SUBSET Log
      BY <2>1
    <3>4. /\ Min(ids) \in ids /\ Min(ids) \in Nat /\ \A s \in ids : Min(ids) <= s
          /\ \A s \in ids : s \in Nat
      BY <2>3, <3>3, EndsOf
    <3>5. Min(ids) <= m
      <4>1. Min(From) <= m /\ Min(ids) <= Min(From) /\ m \in Nat /\ Min(From) \in Nat
        BY <1>1, <3>1, <3>2, <3>4
      <4> QED
        BY <3>4, <4>1
    <3>6. Min(ids) \in Log /\ at[Min(ids)] >= x /\ at[Min(ids)] \in Nat
      BY <1>1, <2>1, <3>4
    <3>7. at[Min(ids)] <= at[m]
      BY <1>1, <3>5, <3>6
    <3> QED
      BY <1>1, <2>3, <3>6, <3>7
  <2> QED
    BY <1>5, <2>1, <2>2, <2>3 DEF ids
<1> QED
  BY <1>2, <1>3, <1>4, <1>5

\* The pointers of a page of lines.
LEMMA NewerFacts ==
    ASSUME FeedTyped, NEW ids \in SUBSET Log
    PROVE  /\ newer(ids) \in CursorType
           /\ newer(ids) # None =>
                ids # {} /\ newer(ids).toward = "asc" /\ TimeAfter(at[Max(ids)], newer(ids).from)
           /\ ids # {} /\ (\E i \in Log : at[Max(ids)] < at[i]) => newer(ids) # None
<1> DEFINE S == {i \in Log : ids # {} /\ at[i] > at[Max(ids)]}
<1>1. newer(ids) = IF S = {} THEN None ELSE Cursor("asc", at[Min(S)])
  BY DEF newer
<1>2. CASE S = {}
  <2>1. newer(ids) = None
    BY <1>1, <1>2
  <2>2. ~(ids # {} /\ \E i \in Log : at[Max(ids)] < at[i])
    <3> SUFFICES ASSUME ids # {}, NEW i \in Log, at[Max(ids)] < at[i] PROVE FALSE
      OBVIOUS
    <3>1. at[i] \in Nat /\ at[Max(ids)] \in Nat
      BY EndsOf, LogFacts
    <3> QED
      BY <1>2, <3>1
  <2> QED
    BY <2>1, <2>2, NoneIsCursor
<1>3. CASE S # {}
  <2>1. ids # {} /\ S \in SUBSET Log
    BY <1>3
  <2>2. Min(S) \in S /\ \A s \in S : Min(S) <= s
    <3> HIDE DEF S
    <3> QED
      BY <1>3, <2>1, EndsOf
  <2>3. /\ Min(S) \in Log /\ at[Min(S)] \in Nat /\ at[Max(ids)] \in Nat
        /\ at[Max(ids)] < at[Min(S)]
    BY <2>1, <2>2, EndsOf, LogFacts
  <2>4. ASSUME NEW k \in Log PROVE at[k] <= at[Max(ids)] \/ at[Min(S)] <= at[k]
    <3>1. at[k] \in Nat
      BY LogFacts
    <3>2. k \in S => at[Min(S)] <= at[k]
      <4> HIDE DEF S
      <4> QED
        BY <2>2, <2>3, LogFacts
    <3> QED
      BY <2>1, <2>3, <3>1, <3>2
  <2>5. TimeAfter(at[Max(ids)], at[Min(S)])
    BY <2>3, <2>4 DEF TimeAfter
  <2> HIDE DEF S
  <2> QED
    BY <1>1, <1>3, <2>1, <2>3, <2>5 DEF Cursor, CursorType, None
<1> QED
  BY <1>2, <1>3

LEMMA OlderFacts ==
    ASSUME FeedTyped, NEW ids \in SUBSET Log
    PROVE  /\ older(ids) \in CursorType
           /\ older(ids) # None =>
                ids # {} /\ older(ids).toward = "desc" /\ TimeBefore(at[Min(ids)], older(ids).from)
           /\ ids # {} /\ (\E i \in Log : at[i] < at[Min(ids)]) => older(ids) # None
<1> DEFINE S == {i \in Log : ids # {} /\ at[i] < at[Min(ids)]}
<1>1. older(ids) = IF S = {} THEN None ELSE Cursor("desc", at[Max(S)])
  BY DEF older
<1>2. CASE S = {}
  BY <1>1, <1>2, NoneIsCursor
<1>3. CASE S # {}
  <2>1. ids # {} /\ S \in SUBSET Log
    BY <1>3
  <2>2. Max(S) \in S /\ \A s \in S : s <= Max(S)
    <3> HIDE DEF S
    <3> QED
      BY <1>3, <2>1, EndsOf
  <2>3. /\ Max(S) \in Log /\ at[Max(S)] \in Nat /\ at[Min(ids)] \in Nat
        /\ at[Max(S)] < at[Min(ids)]
    BY <2>1, <2>2, EndsOf, LogFacts
  <2>4. ASSUME NEW k \in Log PROVE at[k] <= at[Max(S)] \/ at[Min(ids)] <= at[k]
    <3>1. at[k] \in Nat
      BY LogFacts
    <3>2. k \in S => at[k] <= at[Max(S)]
      <4> HIDE DEF S
      <4> QED
        BY <2>2, <2>3, LogFacts
    <3> QED
      BY <2>1, <2>3, <3>1, <3>2
  <2>5. TimeBefore(at[Min(ids)], at[Max(S)])
    BY <2>3, <2>4 DEF TimeBefore
  <2> HIDE DEF S
  <2> QED
    BY <1>1, <1>3, <2>1, <2>3, <2>5 DEF Cursor, CursorType, None
<1> QED
  BY <1>2, <1>3

-----------------------------------------------------------------------------
(* What a step leaves alone                                                *)

\* Logs are only added, after those that there are.
Grown ==
    /\ FeedTyped /\ FeedTyped' /\ feed' = feed
    /\ Log \subseteq Log' /\ \A i \in Log : at'[i] = at[i]
    /\ \A i \in Log, j \in Log' \ Log : i < j

LEMMA GrownFacts ==
    ASSUME Grown
    PROVE  /\ Log \subseteq Nat /\ Log' \subseteq Nat /\ Log \subseteq Log'
           /\ \A i \in Log : at[i] \in Nat /\ at'[i] = at[i]
           /\ \A i \in Log' : at'[i] \in Nat
           /\ \A i, j \in Log' : i <= j => at'[i] <= at'[j]
           /\ \A i, j \in Log' : at'[i] < at'[j] => i < j
           /\ \A i \in Log, j \in Log' : j \notin Log => i < j
           /\ feed' = feed /\ (NewestFirst <=> NewestFirst')
           /\ feed.store \in {"lines", "requests"} /\ (feed.store = "lines" => ~NewestFirst)
<1>1. FeedTyped /\ FeedTyped'
  BY DEF Grown
<1>2. feed' = feed /\ (NewestFirst <=> NewestFirst')
  BY DEF Grown, NewestFirst
<1>3. at' \in Seq(Nat) /\ \A i, j \in Log' : i < j => at'[i] <= at'[j]
  BY <1>1 DEF FeedTyped, TimesGrow
<1>4. Log' = 1..Len(at') /\ Log' \subseteq Nat /\ \A i \in Log' : at'[i] \in Nat
  BY <1>3 DEF Log
<1>5. \A i, j \in Log' : i <= j => at'[i] <= at'[j]
  BY <1>3, <1>4
<1>6. \A i, j \in Log' : at'[i] < at'[j] => i < j
  <2> TAKE i, j \in Log'
  <2>1. i \in Nat /\ j \in Nat /\ at'[i] \in Nat /\ at'[j] \in Nat
    BY <1>4
  <2> QED
    BY <1>5, <2>1
<1> QED
  BY <1>1, <1>2, <1>4, <1>5, <1>6, LogFacts DEF Grown

LEMMA KeptNextTo ==
    ASSUME Grown, NEW a, NEW b, NextTo(a, b)
    PROVE  NextTo(a, b)'
<1>1. a \in Log /\ b \in Log /\ a \in Nat /\ b \in Nat /\ a \in Log' /\ b \in Log'
  BY GrownFacts DEF NextTo
<1>2. \A c, d : Before(c, d)' <=> Before(c, d)
  BY GrownFacts DEF Before
<1>3. ASSUME NEW k \in Log', Before(a, k), Before(k, b) PROVE FALSE
  <2>1. k \notin Log
    BY <1>3 DEF NextTo
  <2>2. a < k /\ b < k /\ k \in Nat
    BY <1>1, <1>3, <2>1, GrownFacts
  <2> QED
    BY <1>1, <1>3, <2>2 DEF Before
<1>4. Before(a, b)
  BY DEF NextTo
<1> QED
  BY <1>1, <1>2, <1>3, <1>4 DEF NextTo

LEMMA KeptParts ==
    ASSUME Grown, NEW p \in PageType, Stretch(p)
    PROVE  /\ Stretch(p)'
           /\ PointsOn(p) => PointsOn(p)'
           /\ PointsBack(p) => PointsBack(p)'
           /\ KnowsOlder(p) => KnowsOlder(p)'
           /\ Begins(p) => Begins(p)'
           /\ \A c \in CursorType : Known(c) => Known(c)'
           /\ \A c \in CursorType : AskedFor(p.ids, c) => AskedFor(p.ids, c)'
<1>1. p.ids \in SUBSET Log /\ p.ids \subseteq Log' /\ FeedTyped
  BY GrownFacts DEF Stretch, Grown
<1>2. p.ids # {} =>
        /\ Min(p.ids) \in Log /\ Max(p.ids) \in Log /\ TopOf(p.ids) \in Log /\ BottomOf(p.ids) \in Log
        /\ at'[Min(p.ids)] = at[Min(p.ids)] /\ at'[Max(p.ids)] = at[Max(p.ids)]
        /\ \A s \in p.ids : s <= Max(p.ids)
  BY <1>1, EndsOf, GrownFacts
<1>3. TopOf(p.ids)' = TopOf(p.ids) /\ BottomOf(p.ids)' = BottomOf(p.ids)
  BY GrownFacts DEF TopOf, BottomOf
<1>4. Stretch(p)'
  <2>1. ASSUME NEW a \in p.ids, NEW b \in p.ids, NEW k \in Log', a < k, k < b PROVE k \in p.ids
    <3>1. a \in Log /\ b \in Log /\ b \in Nat /\ k \in Nat
      BY <1>1, GrownFacts
    <3>2. k \in Log
      BY <2>1, <3>1, GrownFacts
    <3> QED
      BY <1>1, <2>1, <3>2 DEF Stretch
  <2> QED
    BY <1>1, <2>1 DEF Stretch
<1>5. ASSUME p.ids # {}, NEW from \in Nat, TimeAfter(at[Max(p.ids)], from)
      PROVE  TimeAfter(at[Max(p.ids)], from)'
  <2>1. PICK m \in Log : at[m] = from
    BY <1>5 DEF TimeAfter
  <2>2. m \in Log' /\ at'[m] = from
    BY <2>1, GrownFacts
  <2>3. ASSUME NEW k \in Log' PROVE at'[k] <= at'[Max(p.ids)] \/ from <= at'[k]
    <3>1. CASE k \in Log
      BY <1>2, <1>5, <3>1, GrownFacts DEF TimeAfter
    <3>2. CASE k \notin Log
      <4>1. m < k /\ m \in Nat /\ k \in Nat
        BY <2>1, <3>2, GrownFacts
      <4> QED
        BY <2>2, <4>1, GrownFacts
    <3> QED
      BY <3>1, <3>2
  <2>4. at'[Max(p.ids)] < from
    BY <1>2, <1>5 DEF TimeAfter
  <2> QED
    BY <2>2, <2>3, <2>4 DEF TimeAfter
<1>6. ASSUME PointsOn(p) PROVE PointsOn(p)'
  <2> SUFFICES ASSUME p.next # None
               PROVE /\ p.ids # {}
                     /\ IF feed'.store = "lines"
                        THEN p.next.toward = "asc" /\ TimeAfter(at[Max(p.ids)], p.next.from)'
                        ELSE p.next.toward = "below" /\ p.next.from = BottomOf(p.ids)'
                             /\ Below(p.next.from)' # {}
    BY DEF PointsOn
  <2>1. p.ids # {} /\ p.next.from \in Nat /\ feed' = feed
    BY <1>6, GrownFacts DEF PointsOn, PageType, CursorType
  <2>2. CASE feed.store = "lines"
    BY <1>5, <1>6, <2>1, <2>2 DEF PointsOn
  <2>3. CASE feed.store # "lines"
    <3>1. PICK k \in Below(p.next.from) : TRUE
      BY <1>6, <2>3 DEF PointsOn
    <3>2. k \in Below(p.next.from)'
      BY <3>1, GrownFacts DEF Below
    <3> QED
      BY <1>3, <1>6, <2>1, <2>3, <3>2 DEF PointsOn
  <2> QED
    BY <2>2, <2>3
<1>7. ASSUME PointsBack(p) PROVE PointsBack(p)'
  <2> SUFFICES ASSUME p.previous # None
               PROVE /\ p.ids # {}
                     /\ IF feed'.store = "lines"
                        THEN p.previous.toward = "desc"
                             /\ TimeBefore(at[Min(p.ids)], p.previous.from)'
                        ELSE p.previous.toward = "above" /\ p.previous.from = TopOf(p.ids)'
    BY DEF PointsBack
  <2>1. p.ids # {} /\ p.previous.from \in Nat /\ feed' = feed
    BY <1>7, GrownFacts DEF PointsBack, PageType, CursorType
  <2>2. CASE feed.store = "lines"
    <3>1. p.previous.toward = "desc" /\ TimeBefore(at[Min(p.ids)], p.previous.from)
      BY <1>7, <2>2 DEF PointsBack
    <3>2. PICK m \in Log : at[m] = p.previous.from
      BY <3>1 DEF TimeBefore
    <3>3. m \in Log' /\ at'[m] = p.previous.from
      BY <3>2, GrownFacts
    <3>4. ASSUME NEW k \in Log' PROVE at'[k] <= p.previous.from \/ at'[Min(p.ids)] <= at'[k]
      <4>1. CASE k \in Log
        BY <1>2, <2>1, <3>1, <4>1, GrownFacts DEF TimeBefore
      <4>2. CASE k \notin Log
        <5>1. Min(p.ids) \in Log' /\ Min(p.ids) < k /\ Min(p.ids) \in Nat /\ k \in Nat
          BY <1>2, <2>1, <4>2, GrownFacts
        <5> QED
          BY <5>1, GrownFacts
      <4> QED
        BY <4>1, <4>2
    <3>5. p.previous.from < at'[Min(p.ids)]
      BY <1>2, <2>1, <3>1 DEF TimeBefore
    <3> QED
      BY <2>1, <2>2, <3>1, <3>3, <3>4, <3>5 DEF TimeBefore
  <2>3. CASE feed.store # "lines"
    BY <1>3, <1>7, <2>1, <2>3 DEF PointsBack
  <2> QED
    BY <2>2, <2>3
<1>8. ASSUME KnowsOlder(p) PROVE KnowsOlder(p)'
  <2> SUFFICES ASSUME p.ids # {}, NEW i \in Log', at'[i] < at'[Min(p.ids)]
               PROVE  (IF NewestFirst THEN p.next ELSE p.previous) # None
    BY GrownFacts DEF KnowsOlder
  <2>1. Min(p.ids) \in Log /\ Min(p.ids) \in Log' /\ i < Min(p.ids)
    BY <1>2, GrownFacts
  <2>2. i \in Log
    <3>1. i \in Nat /\ Min(p.ids) \in Nat
      BY <2>1, GrownFacts
    <3> QED
      BY <2>1, <3>1, GrownFacts
  <2>3. at[i] < at[Min(p.ids)]
    BY <2>1, <2>2, GrownFacts
  <2> QED
    BY <1>8, <2>2, <2>3 DEF KnowsOlder
<1>9. Begins(p) => Begins(p)'
  BY GrownFacts DEF Begins
<1>10. \A c \in CursorType : Known(c) => Known(c)'
  BY GrownFacts DEF Known
<1>11. ASSUME NEW c \in CursorType, AskedFor(p.ids, c) PROVE AskedFor(p.ids, c)'
  <2> SUFFICES ASSUME p.ids # {}
               PROVE  AskedFor(p.ids, c)'
    BY DEF AskedFor
  <2>1. c.toward = "below" => NextTo(c.from, TopOf(p.ids))'
    BY <1>3, <1>11, KeptNextTo DEF AskedFor
  <2>2. c.toward = "above" => NextTo(BottomOf(p.ids), c.from)'
    BY <1>3, <1>11, KeptNextTo DEF AskedFor
  <2> QED
    BY <1>2, <1>3, <1>11, <2>1, <2>2 DEF AskedFor
<1> QED
  BY <1>4, <1>6, <1>7, <1>8, <1>9, <1>10, <1>11

LEMMA KeptPage ==
    ASSUME Grown, NEW p \in PageType, PageOK(p)
    PROVE  PageOK(p)'
BY KeptParts DEF PageOK, PageType

LEMMA KeptFollow ==
    ASSUME Grown, NEW p \in PageType, NEW q \in PageType, PageOK(p), PageOK(q), Follow(p, q)
    PROVE  Follow(p, q)'
<1> SUFFICES ASSUME p.ids # {}, q.ids # {} PROVE Follow(p, q)'
  BY DEF Follow
<1>1. FeedTyped /\ p.ids \in SUBSET Log /\ q.ids \in SUBSET Log
  BY DEF PageOK, Stretch, Grown
<1>2. Min(q.ids) \in Log /\ at'[Min(q.ids)] = at[Min(q.ids)] /\ feed' = feed
  BY <1>1, EndsOf, GrownFacts
<1>3. TopOf(q.ids)' = TopOf(q.ids) /\ BottomOf(p.ids)' = BottomOf(p.ids)
  BY GrownFacts DEF TopOf, BottomOf
<1> QED
  BY <1>2, <1>3, KeptNextTo DEF Follow

LEMMA KeptChain ==
    ASSUME Grown, NEW s \in Seq(PageType), Chain(s)
    PROVE  Chain(s)'
<1>1. \A i \in DOMAIN s : s[i] \in PageType /\ PageOK(s[i])
  BY DEF Chain
<1>2. \A i \in DOMAIN s : PageOK(s[i])'
  BY <1>1, KeptPage
<1>3. \A i \in 1..Len(s) - 1 : Follow(s[i], s[i+1])'
  <2> TAKE i \in 1..Len(s) - 1
  <2>1. i \in DOMAIN s /\ i + 1 \in DOMAIN s
    OBVIOUS
  <2>2. Follow(s[i], s[i+1])
    BY DEF Chain
  <2> QED
    BY <1>1, <2>1, <2>2, KeptFollow
<1>4. \A a, b : Before(a, b)' <=> Before(a, b)
  BY GrownFacts DEF Before
<1> QED
  BY <1>2, <1>3, <1>4 DEF Chain

-----------------------------------------------------------------------------
(* Lists of pages                                                          *)

LEMMA FollowOrder ==
    ASSUME FeedTyped, NEW p \in PageType, NEW q \in PageType, PageOK(p), PageOK(q), Follow(p, q),
           NEW a \in p.ids, NEW b \in q.ids
    PROVE  Before(a, b)
<1>1. p.ids \in SUBSET Log /\ q.ids \in SUBSET Log /\ p.ids # {} /\ q.ids # {} /\ PointsOn(p)
  BY DEF PageOK, Stretch
<1>2. /\ a \in Log /\ b \in Log /\ a \in Nat /\ b \in Nat
      /\ Max(p.ids) \in Log /\ Min(q.ids) \in Log
      /\ a <= Max(p.ids) /\ Min(q.ids) <= b
      /\ a = BottomOf(p.ids) \/ Before(a, BottomOf(p.ids))
      /\ b = TopOf(q.ids) \/ Before(TopOf(q.ids), b)
      /\ BottomOf(p.ids) \in Nat /\ TopOf(q.ids) \in Nat
  BY <1>1, EndsOf
<1>3. CASE feed.store = "lines"
  <2>1. p.next # None /\ p.next.from = at[Min(q.ids)]
    BY <1>1, <1>3 DEF Follow, Cursor, None
  <2>2. at[Max(p.ids)] < at[Min(q.ids)]
    BY <1>1, <1>3, <2>1 DEF PointsOn, TimeAfter
  <2>3. /\ at[a] <= at[Max(p.ids)] /\ at[Min(q.ids)] <= at[b]
        /\ at[a] \in Nat /\ at[b] \in Nat /\ at[Max(p.ids)] \in Nat /\ at[Min(q.ids)] \in Nat
    BY <1>2, LogFacts
  <2>4. at[a] < at[b]
    BY <2>2, <2>3
  <2> QED
    BY <1>2, <1>3, <2>4, LogFacts DEF Before
<1>4. CASE feed.store # "lines"
  <2>1. Before(BottomOf(p.ids), TopOf(q.ids))
    BY <1>1, <1>4 DEF Follow, NextTo
  <2>2. Before(a, TopOf(q.ids))
    BY <1>2, <2>1, BeforeOrder
  <2> QED
    BY <1>2, <2>2, BeforeOrder
<1> QED
  BY <1>3, <1>4

\* The page that a pointer leads to follows the one that has it.
LEMMA PointerFollowed ==
    ASSUME FeedTyped, NEW p \in PageType, NEW q \in PageType, PageOK(p), PageOK(q),
           p.next # None, q.param = p.next
    PROVE  p.ids # {} /\ Follow(p, q)
<1>1. PointsOn(p) /\ AskedFor(q.ids, q.param) /\ p.ids # {}
  BY DEF PageOK, PointsOn
<1>2. ASSUME q.ids # {}, feed.store = "lines" PROVE p.next = Cursor("asc", at[Min(q.ids)])
  <2>1. p.next.toward = "asc" /\ p.next.from = at[Min(q.ids)] /\ p.next \in CursorType
    BY <1>1, <1>2 DEF PointsOn, AskedFor, PageType
  <2> QED
    BY <2>1 DEF Cursor, CursorType
<1>3. ASSUME q.ids # {}, feed.store # "lines" PROVE NextTo(BottomOf(p.ids), TopOf(q.ids))
  BY <1>1, <1>3 DEF PointsOn, AskedFor
<1> QED
  BY <1>1, <1>2, <1>3 DEF Follow

LEMMA OnePage ==
    ASSUME NEW q \in PageType, PageOK(q)
    PROVE  <<q>> \in Seq(PageType) /\ Chain(<<q>>)
<1>1. <<q>> \in Seq(PageType) /\ Len(<<q>>) = 1 /\ DOMAIN <<q>> = {1} /\ <<q>>[1] = q
  OBVIOUS
<1> DEFINE s == <<q>>
<1> HIDE DEF s
<1>2. Len(s) = 1 /\ DOMAIN s = {1} /\ s[1] = q
  BY <1>1 DEF s
<1>3. Chain(s)
  BY <1>2 DEF Chain
<1> QED
  BY <1>1, <1>3 DEF s

LEMMA ExtendChain ==
    ASSUME FeedTyped, NEW s \in Seq(PageType), s # <<>>, Chain(s),
           NEW q \in PageType, PageOK(q), Last(s).next # None, q.param = Last(s).next
    PROVE  /\ Append(s, q) \in Seq(PageType) /\ Chain(Append(s, q))
           /\ Last(s).ids # {}
<1> DEFINE t == Append(s, q)
           n == Len(s)
<1>1. /\ n \in Nat /\ n >= 1 /\ DOMAIN s = 1..n
      /\ t \in Seq(PageType) /\ Len(t) = n + 1 /\ DOMAIN t = 1..n+1
      /\ \A i \in 1..n : t[i] = s[i]
      /\ t[n+1] = q
  BY AppendProperties
<1>2. Last(s) = s[n] /\ s[n] \in PageType /\ PageOK(s[n])
  BY <1>1 DEF Last, Chain
<1>3. s[n].ids # {} /\ Follow(s[n], q)
  BY <1>2, PointerFollowed
<1> HIDE DEF t
<1>4. \A i \in DOMAIN t : PageOK(t[i])
  BY <1>1 DEF Chain
<1>5. ASSUME NEW i \in DOMAIN t, 1 < i, i < Len(t) PROVE t[i].ids # {}
  <2>1. i \in 1..n /\ t[i] = s[i] /\ (i = n \/ i < n)
    BY <1>1, <1>5
  <2> QED
    BY <1>1, <1>3, <1>5, <2>1 DEF Chain
<1>6. ASSUME NEW i \in 1..Len(t) - 1 PROVE Follow(t[i], t[i+1])
  <2>0. i \in 1..n /\ n \in Nat
    <3>1. Len(t) - 1 = n
      BY <1>1
    <3> QED
      BY <1>1, <3>1
  <2>1. CASE i = n
    BY <1>1, <1>3, <2>1
  <2>2. CASE i # n
    <3>1. i \in Nat /\ i >= 1 /\ i < n /\ n \in Nat
      <4> HIDE DEF n
      <4> QED
        BY <2>0, <2>2
    <3>2. i \in 1..n /\ i \in 1..n-1 /\ i + 1 \in 1..n
      BY <3>1
    <3> QED
      BY <1>1, <3>2 DEF Chain
  <2> QED
    BY <2>1, <2>2
<1>7. ASSUME NEW i \in DOMAIN t, NEW j \in DOMAIN t, i < j,
             NEW a \in t[i].ids, NEW b \in t[j].ids
      PROVE  Before(a, b)
  <2>1. i \in 1..n /\ t[i] = s[i] /\ a \in s[i].ids
    BY <1>1, <1>7
  <2>2. CASE j # n + 1
    <3>1. j \in 1..n /\ t[j] = s[j]
      BY <1>1, <2>2
    <3> QED
      BY <1>1, <1>7, <2>1, <3>1 DEF Chain
  <2>3. CASE j = n + 1
    <3>1. PICK c \in s[n].ids : TRUE
      BY <1>3
    <3>2. Before(c, b) /\ (i = n => Before(a, b))
      BY <1>1, <1>2, <1>3, <1>7, <2>1, <2>3, FollowOrder
    <3>3. i # n => Before(a, c)
      <4> SUFFICES ASSUME i # n PROVE Before(a, c)
        OBVIOUS
      <4>1. i \in DOMAIN s /\ n \in DOMAIN s /\ i < n
        BY <1>1, <2>1
      <4> QED
        BY <2>1, <3>1, <4>1 DEF Chain
    <3>4. a \in Nat /\ b \in Nat /\ c \in Nat
      <4>1. s[i] \in PageType /\ s[n] \in PageType /\ b \in q.ids
        BY <1>1, <1>2, <1>7, <2>1, <2>3
      <4>2. s[i].ids \in SUBSET Nat /\ s[n].ids \in SUBSET Nat /\ q.ids \in SUBSET Nat
        BY <4>1 DEF PageType
      <4> QED
        BY <2>1, <3>1, <4>1, <4>2
    <3> QED
      BY <3>2, <3>3, <3>4, BeforeOrder
  <2> QED
    BY <2>2, <2>3
<1>8. Chain(t)
  BY <1>4, <1>5, <1>6, <1>7 DEF Chain
<1> QED
  BY <1>1, <1>2, <1>3, <1>8 DEF t

LEMMA PrependChain ==
    ASSUME FeedTyped, NEW s \in Seq(PageType), s # <<>>, Chain(s), Head(s).ids # {},
           NEW q \in PageType, PageOK(q), Follow(q, Head(s))
    PROVE  <<q>> \o s \in Seq(PageType) /\ Chain(<<q>> \o s)
<1> DEFINE t == <<q>> \o s
           n == Len(s)
<1>1. /\ n \in Nat /\ n >= 1 /\ DOMAIN s = 1..n /\ Head(s) = s[1]
      /\ s[1] \in PageType /\ PageOK(s[1])
  BY DEF Chain
<1>2. /\ t \in Seq(PageType) /\ Len(t) = n + 1 /\ DOMAIN t = 1..n+1
      /\ t[1] = q /\ \A i \in 2..n+1 : t[i] = s[i-1]
  <2>1. <<q>> \in Seq(PageType) /\ Len(<<q>>) = 1 /\ <<q>>[1] = q
    OBVIOUS
  <2>2. /\ t \in Seq(PageType) /\ Len(t) = 1 + n
        /\ \A i \in 1..1+n : t[i] = IF i <= 1 THEN <<q>>[i] ELSE s[i - 1]
    BY <2>1, ConcatProperties
  <2> HIDE DEF t
  <2> QED
    BY <1>1, <2>1, <2>2
<1> HIDE DEF t
<1>3. \A i \in DOMAIN t : i = 1 \/ (i \in 2..n+1 /\ i - 1 \in DOMAIN s /\ t[i] = s[i-1])
  BY <1>1, <1>2
<1>4. \A i \in DOMAIN t : PageOK(t[i])
  BY <1>2, <1>3 DEF Chain
<1>5. ASSUME NEW i \in DOMAIN t, 1 < i, i < Len(t) PROVE t[i].ids # {}
  <2>1. i - 1 \in DOMAIN s /\ t[i] = s[i-1] /\ (i - 1 = 1 \/ 1 < i - 1) /\ i - 1 < n
    BY <1>1, <1>2, <1>3, <1>5
  <2> QED
    BY <1>1, <2>1 DEF Chain
<1>6. ASSUME NEW i \in 1..Len(t) - 1 PROVE Follow(t[i], t[i+1])
  <2>1. CASE i = 1
    BY <1>1, <1>2, <2>1
  <2>2. CASE i # 1
    <3>1. i - 1 \in 1..n-1 /\ i \in 2..n+1 /\ i + 1 \in 2..n+1 /\ (i - 1) + 1 = i /\ (i + 1) - 1 = i
      BY <1>1, <1>2, <2>2
    <3>2. Follow(s[i-1], s[(i-1)+1])
      BY <3>1 DEF Chain
    <3> QED
      BY <1>2, <3>1, <3>2
  <2> QED
    BY <2>1, <2>2
<1>7. ASSUME NEW i \in DOMAIN t, NEW j \in DOMAIN t, i < j,
             NEW a \in t[i].ids, NEW b \in t[j].ids
      PROVE  Before(a, b)
  <2>1. j - 1 \in DOMAIN s /\ t[j] = s[j-1] /\ b \in s[j-1].ids /\ j \in 2..n+1
    BY <1>1, <1>2, <1>3, <1>7
  <2>2. CASE i # 1
    <3>1. i - 1 \in DOMAIN s /\ t[i] = s[i-1] /\ i - 1 < j - 1
      BY <1>1, <1>2, <1>3, <1>7, <2>1, <2>2
    <3> QED
      BY <1>7, <2>1, <3>1 DEF Chain
  <2>3. CASE i = 1
    <3>1. PICK c \in s[1].ids : TRUE
      BY <1>1
    <3>2. Before(a, c) /\ (j = 2 => Before(a, b))
      <4>1. a \in q.ids
        BY <1>2, <1>7, <2>3
      <4>2. \A d \in s[1].ids : Before(a, d)
        BY <1>1, <4>1, FollowOrder
      <4> QED
        BY <2>1, <3>1, <4>2
    <3>3. j # 2 => Before(c, b)
      <4> SUFFICES ASSUME j # 2 PROVE Before(c, b)
        OBVIOUS
      <4>1. 1 \in DOMAIN s /\ 1 < j - 1
        BY <1>1, <2>1
      <4> QED
        BY <2>1, <3>1, <4>1 DEF Chain
    <3>4. a \in Nat /\ b \in Nat /\ c \in Nat
      <4>1. s[j-1] \in PageType /\ a \in q.ids
        BY <1>2, <1>7, <2>1, <2>3
      <4>2. s[1].ids \in SUBSET Nat /\ s[j-1].ids \in SUBSET Nat /\ q.ids \in SUBSET Nat
        BY <1>1, <4>1 DEF PageType
      <4> QED
        BY <2>1, <3>1, <4>1, <4>2
    <3> QED
      BY <3>2, <3>3, <3>4, BeforeOrder
  <2> QED
    BY <2>2, <2>3
<1>8. Chain(t)
  BY <1>4, <1>5, <1>6, <1>7 DEF Chain
<1> QED
  BY <1>2, <1>8 DEF t

-----------------------------------------------------------------------------
(* The fetch                                                               *)

LEMMA KnownPointers ==
    ASSUME FeedTyped, NEW p \in PageType, PageOK(p)
    PROVE  /\ None \in CursorType /\ p.next \in CursorType /\ p.previous \in CursorType
           /\ p.param \in CursorType
           /\ Known(None) /\ Known(p.next) /\ Known(p.previous) /\ Known(p.param)
<1>1. /\ None \in CursorType /\ p.next \in CursorType /\ p.previous \in CursorType
      /\ p.param \in CursorType
  BY NoneIsCursor DEF PageType
<1>2. Known(None)
  BY DEF Known, None
<1>3. PointsOn(p) /\ PointsBack(p) /\ Known(p.param) /\ p.ids \in SUBSET Log
  BY DEF PageOK, Stretch
<1>4. feed.store \in {"lines", "requests"}
  BY LogFacts
<1>5. ASSUME p.next # None PROVE Known(p.next)
  <2>1. CASE feed.store = "lines"
    BY <1>3, <1>5, <2>1 DEF PointsOn, TimeAfter, Known
  <2>2. CASE feed.store = "requests"
    <3>1. p.next.from \in Log /\ p.next.toward = "below"
      BY <1>3, <1>5, <2>2, EndsOf DEF PointsOn
    <3> QED
      BY <2>2, <3>1 DEF Known
  <2> QED
    BY <1>4, <2>1, <2>2
<1>6. ASSUME p.previous # None PROVE Known(p.previous)
  <2>1. CASE feed.store = "lines"
    BY <1>3, <1>6, <2>1 DEF PointsBack, TimeBefore, Known
  <2>2. CASE feed.store = "requests"
    <3>1. p.previous.from \in Log /\ p.previous.toward = "above"
      BY <1>3, <1>6, <2>2, EndsOf DEF PointsBack
    <3> QED
      BY <2>2, <3>1 DEF Known
  <2> QED
    BY <1>4, <2>1, <2>2
<1> QED
  BY <1>1, <1>2, <1>3, <1>5, <1>6

\* The first and the last page of a list.
LEMMA EndPages ==
    ASSUME NEW s \in Seq(PageType), s # <<>>, Chain(s)
    PROVE  /\ Head(s) \in PageType /\ PageOK(Head(s)) /\ Head(s) = s[1] /\ 1 \in DOMAIN s
           /\ Last(s) \in PageType /\ PageOK(Last(s)) /\ Last(s) = s[Len(s)] /\ Len(s) \in DOMAIN s
           /\ Len(s) \in Nat /\ DOMAIN s = 1..Len(s)
<1>1. Len(s) \in Nat /\ DOMAIN s = 1..Len(s) /\ Len(s) >= 1 /\ \A i \in DOMAIN s : s[i] \in PageType
  OBVIOUS
<1>2. 1 \in DOMAIN s /\ Len(s) \in DOMAIN s /\ Head(s) = s[1] /\ Last(s) = s[Len(s)]
  BY <1>1 DEF Last
<1> QED
  BY <1>1, <1>2 DEF Chain

LEMMA ParamFacts ==
    ASSUME FeedIInv, fetch.kind # "none", ~Complete
    PROVE  /\ Param \in CursorType /\ Known(Param)
           /\ fetch.kind # "all" => fetch.done = <<>> /\ Param # None /\ pages # <<>>
           /\ fetch.kind = "next" => Param = Last(pages).next
           /\ fetch.kind = "previous" => Param = Head(pages).previous
           /\ fetch.kind = "all" /\ fetch.done # <<>> =>
                Param = Last(fetch.done).next /\ Param # None
           /\ Param # None \/ pages = <<>> \/ Has(Param)
<1>1. /\ FeedTyped /\ Chain(pages) /\ FetchOK /\ pages \in Seq(PageType)
      /\ fetch.kind \in {"all", "next", "previous"} /\ fetch.done \in Seq(PageType)
  BY DEF FeedIInv, FeedTyped, FetchType
<1>2. Known(None) /\ None \in CursorType
  BY NoneIsCursor DEF Known, None
<1>3. CASE fetch.kind = "next"
  <2>1. pages # <<>> /\ Last(pages).next # None /\ Param = Last(pages).next /\ fetch.done = <<>>
    <3>1. pages # <<>> /\ Last(pages).next # None
      BY <1>1, <1>3 DEF FetchOK
    <3>2. Param = Last(pages).next
      BY <1>3 DEF Param
    <3>3. fetch.done = <<>>
      BY <1>3 DEF Complete
    <3> QED
      BY <3>1, <3>2, <3>3
  <2>2. Known(Param) /\ Param \in CursorType
    BY <1>1, <2>1, EndPages, KnownPointers
  <2> QED
    BY <1>3, <2>1, <2>2
<1>4. CASE fetch.kind = "previous"
  <2>1. /\ pages # <<>> /\ Head(pages).previous # None /\ Param = Head(pages).previous
        /\ fetch.done = <<>>
    <3>1. pages # <<>> /\ Head(pages).previous # None
      BY <1>1, <1>4 DEF FetchOK
    <3>2. Param = Head(pages).previous
      BY <1>4 DEF Param
    <3>3. fetch.done = <<>>
      BY <1>4 DEF Complete
    <3> QED
      BY <3>1, <3>2, <3>3
  <2>2. Known(Param) /\ Param \in CursorType
    BY <1>1, <2>1, EndPages, KnownPointers
  <2> QED
    BY <1>4, <2>1, <2>2
<1>5. CASE fetch.kind = "all" /\ fetch.done # <<>>
  <2>1. Chain(fetch.done) /\ Param = Last(fetch.done).next /\ Param # None
    <3>1. Chain(fetch.done)
      BY <1>1, <1>5 DEF FetchOK
    <3>2. Param = Last(fetch.done).next
      BY <1>5 DEF Param
    <3>3. Param # None
      BY <1>5 DEF Complete
    <3> QED
      BY <3>1, <3>2, <3>3
  <2>2. Known(Param) /\ Param \in CursorType
    BY <1>1, <1>5, <2>1, EndPages, KnownPointers
  <2> QED
    BY <1>5, <2>1, <2>2
<1>6. CASE fetch.kind = "all" /\ fetch.done = <<>> /\ pages # <<>>
  <2>1. Param = Head(pages).param
    BY <1>6 DEF Param
  <2>2. Known(Param) /\ Param \in CursorType /\ Has(Param)
    BY <1>1, <1>6, <2>1, EndPages, KnownPointers DEF Has
  <2> QED
    BY <1>6, <2>1, <2>2
<1>7. CASE fetch.kind = "all" /\ fetch.done = <<>> /\ pages = <<>>
  <2>1. Param = None
    BY <1>7 DEF Param
  <2> QED
    BY <1>2, <1>7, <2>1
<1> QED
  BY <1>1, <1>3, <1>4, <1>5, <1>6, <1>7

LEMMA KeptDone ==
    ASSUME Grown, FeedIInv, fetch'.kind = fetch.kind, fetch'.done = fetch.done,
           fetch.kind = "none" => fetch' = fetch, pages' = pages
    PROVE  Chain(pages)' /\ FetchOK'
<1>1. /\ FeedTyped /\ Chain(pages) /\ FetchOK /\ pages \in Seq(PageType)
      /\ fetch.done \in Seq(PageType) /\ feed' = feed
  BY DEF FeedIInv, FeedTyped, FetchType, Grown
<1>2. Chain(pages)'
  <2>1. PICK s \in Seq(PageType) : s = pages
    BY <1>1
  <2>2. Chain(s)'
    BY <1>1, <2>1, KeptChain
  <2> QED
    BY <2>1, <2>2
<1>3. Chain(fetch.done) => Chain(fetch.done)'
  <2>1. PICK s \in Seq(PageType) : s = fetch.done
    BY <1>1
  <2>2. Chain(s) => Chain(s)'
    BY KeptChain
  <2> QED
    BY <2>1, <2>2
<1>4. ASSUME fetch.done # <<>>, PageOK(fetch.done[1])
      PROVE  /\ PageOK(fetch.done[1])'
             /\ pages # <<>> /\ Follow(fetch.done[1], Head(pages)) =>
                  Follow(fetch.done[1], Head(pages))'
  <2>1. fetch.done[1] \in PageType
    BY <1>1, <1>4
  <2>2. PICK p \in PageType : p = fetch.done[1]
    BY <2>1
  <2>3. PageOK(p)'
    BY <1>4, <2>2, KeptPage
  <2>4. ASSUME pages # <<>>, Follow(fetch.done[1], Head(pages))
        PROVE  Follow(fetch.done[1], Head(pages))'
    <3>1. Head(pages) \in PageType /\ PageOK(Head(pages))
      BY <1>1, <2>4, EndPages
    <3>2. PICK h \in PageType : h = Head(pages)
      BY <3>1
    <3>3. Follow(p, h)'
      BY <1>4, <2>2, <2>4, <3>1, <3>2, KeptFollow
    <3> QED
      BY <2>2, <3>2, <3>3
  <2> QED
    BY <2>2, <2>3, <2>4
<1>5. FetchOK'
  <2>1. fetch'.kind = "none" => fetch' = Idle
    BY <1>1 DEF FetchOK
  <2> QED
    BY <1>1, <1>3, <1>4, <2>1 DEF FetchOK
<1> QED
  BY <1>2, <1>5

LEMMA KeptFetch ==
    ASSUME Grown, FeedIInv, fetch' = fetch, pages' = pages
    PROVE  Chain(pages)' /\ FetchOK' /\ FoundOK'
<1>1. FeedTyped /\ FoundOK /\ fetch.found \in PageType /\ feed' = feed
  BY DEF FeedIInv, FeedTyped, FetchType, Grown
<1>5. Chain(pages)' /\ FetchOK'
  BY KeptDone
<1>6. FoundOK'
  <2> SUFFICES ASSUME fetch.asked PROVE FoundOK'
    BY DEF FoundOK
  <2>1. fetch.kind # "none" /\ ~Complete /\ Param \in CursorType
    BY <1>1, ParamFacts DEF FoundOK
  <2>2. PICK p \in PageType, c \in CursorType : p = fetch.found /\ c = Param
    BY <1>1, <2>1
  <2>3. Param' = Param /\ Complete' = Complete
    BY DEF Param, Complete
  <2>4. Stretch(p) /\ AskedFor(p.ids, c)
    BY <1>1, <2>2 DEF FoundOK
  <2>5. /\ Stretch(p)' /\ AskedFor(p.ids, c)'
        /\ PointsOn(p) => PointsOn(p)'
        /\ PointsBack(p) => PointsBack(p)'
        /\ KnowsOlder(p) => KnowsOlder(p)'
    BY <2>4, KeptParts
  <2> QED
    BY <1>1, <2>1, <2>2, <2>3, <2>5 DEF FoundOK
<1> QED
  BY <1>5, <1>6

\* A step that adds no log.
LEMMA SameLogs ==
    ASSUME FeedTyped, feed' = feed, at' = at, pages' \in Seq(PageType), fetch' \in FetchType,
           follow' \in BOOLEAN, failures' \in 0..Failures
    PROVE  Grown /\ FeedTyped'
<1>1. TimesGrow'
  BY DEF FeedTyped, TimesGrow, Log
<1>2. FeedTyped'
  BY <1>1 DEF FeedTyped
<1>3. Log' = Log
  BY DEF Log
<1> QED
  BY <1>2, <1>3 DEF Grown

\* A page with the parameter that was asked is delivered.
LEMMA Delivered ==
    ASSUME FeedIInv, fetch.kind # "none", ~Complete,
           NEW q \in PageType, PageOK(q), q.param = Param,
           fetch.kind = "previous" => Follow(q, Head(pages)),
           feed' = feed, at' = at, pages' = pages, follow' \in BOOLEAN, failures' \in 0..Failures,
           fetch' \in FetchType, fetch'.kind = fetch.kind, fetch'.done = Append(fetch.done, q),
           ~fetch'.asked
    PROVE  FeedTyped' /\ FetchOK' /\ FoundOK'
<1> DEFINE s == Append(fetch.done, q)
<1>1. /\ FeedTyped /\ Chain(pages) /\ FetchOK /\ pages \in Seq(PageType)
      /\ fetch \in FetchType /\ fetch.done \in Seq(PageType)
      /\ fetch.kind \in {"none", "all", "next", "previous"}
  BY DEF FeedIInv, FeedTyped, FetchType
<1>3. s \in Seq(PageType)
  BY <1>1
<1>4. fetch' \in FetchType /\ fetch'.kind = fetch.kind /\ fetch'.done = s /\ ~fetch'.asked
  OBVIOUS
<1>5. ASSUME fetch.kind = "all"
      PROVE  Chain(s) /\ \A i \in 1..Len(s) - 1 : s[i].ids # {}
  <2>1. CASE fetch.done = <<>>
    <3>1. s = <<q>> /\ Len(<<q>>) = 1
      BY <2>1
    <3>2. Chain(<<q>>)
      BY OnePage
    <3> QED
      BY <3>1, <3>2
  <2>2. CASE fetch.done # <<>>
    <3>1. /\ Chain(fetch.done) /\ \A i \in 1..Len(fetch.done) - 1 : fetch.done[i].ids # {}
          /\ q.param = Last(fetch.done).next /\ Last(fetch.done).next # None
      <4>1. Param = Last(fetch.done).next /\ Param # None
        BY <1>5, <2>2, ParamFacts
      <4> QED
        BY <1>1, <1>5, <4>1 DEF FetchOK
    <3>2. Chain(s) /\ Last(fetch.done).ids # {}
      BY <1>1, <2>2, <3>1, ExtendChain
    <3>3. /\ Len(fetch.done) \in Nat /\ Len(s) = Len(fetch.done) + 1
          /\ \A i \in 1..Len(fetch.done) : s[i] = fetch.done[i]
          /\ Last(fetch.done) = fetch.done[Len(fetch.done)]
      BY <1>1, AppendProperties DEF Last
    <3> HIDE DEF s
    <3>4. ASSUME NEW i \in 1..Len(s) - 1 PROVE s[i].ids # {}
      <4>1. i \in 1..Len(fetch.done) /\ (i = Len(fetch.done) \/ i \in 1..Len(fetch.done) - 1)
        BY <3>3
      <4> QED
        BY <3>1, <3>2, <3>3, <4>1
    <3> QED
      BY <3>2, <3>4
  <2> QED
    BY <2>1, <2>2
<1>6. fetch.kind # "all" => s = <<q>> /\ Len(s) = 1 /\ s[1] = q
  <2> SUFFICES ASSUME fetch.kind # "all" PROVE s = <<q>> /\ Len(s) = 1 /\ s[1] = q
    OBVIOUS
  <2>1. fetch.done = <<>>
    BY ParamFacts
  <2> QED
    BY <2>1
<1>7. /\ fetch.kind = "next" => pages # <<>> /\ Param = Last(pages).next /\ Param # None
      /\ fetch.kind = "previous" => pages # <<>> /\ Param = Head(pages).previous /\ Param # None
  BY ParamFacts
<1> HIDE DEF s
<1>8. Grown
  BY <1>1, <1>4, SameLogs
<1>9. Chain(s) => Chain(fetch.done)'
  <2>1. PICK s0 \in Seq(PageType) : s0 = s
    BY <1>3
  <2>2. Chain(s0) => Chain(s0)'
    BY <1>8, KeptChain
  <2> QED
    BY <1>4, <2>1, <2>2
<1>10. fetch.kind # "all" =>
         /\ Len(fetch'.done) = 1 /\ PageOK(fetch.done[1])' /\ fetch'.done[1].param = Param
         /\ fetch.kind = "previous" => Follow(fetch.done[1], Head(pages))'
  <2> SUFFICES ASSUME fetch.kind # "all"
               PROVE  /\ Len(fetch'.done) = 1 /\ PageOK(fetch.done[1])'
                      /\ fetch'.done[1].param = Param
                      /\ fetch.kind = "previous" => Follow(fetch.done[1], Head(pages))'
    OBVIOUS
  <2>1. fetch'.done[1] = q /\ Len(fetch'.done) = 1
    BY <1>4, <1>6
  <2>2. PageOK(q)'
    BY <1>8, KeptPage
  <2>3. ASSUME fetch.kind = "previous" PROVE Follow(fetch.done[1], Head(pages))'
    <3>1. Head(pages) \in PageType /\ PageOK(Head(pages)) /\ Follow(q, Head(pages))
      BY <1>1, <1>7, <2>3, EndPages
    <3>2. PICK h \in PageType : h = Head(pages)
      BY <3>1
    <3>3. Follow(q, h)'
      BY <1>8, <3>1, <3>2, KeptFollow
    <3> QED
      BY <2>1, <3>2, <3>3
  <2> QED
    BY <2>1, <2>2, <2>3
<1>12. FetchOK'
  BY <1>1, <1>4, <1>5, <1>7, <1>9, <1>10 DEF FetchOK
<1>11. FoundOK'
  BY <1>4 DEF FoundOK
<1> QED
  BY <1>8, <1>11, <1>12 DEF Grown

LEMMA DeliveredRecord ==
    ASSUME NEW f \in FetchType, NEW d \in PageType
    PROVE  LET g == [f EXCEPT !.done = Append(@, d), !.asked = FALSE, !.found = EmptyPage]
           IN  g \in FetchType /\ g.kind = f.kind /\ g.done = Append(f.done, d) /\ ~g.asked
<1> DEFINE e == Append(f.done, d)
<1>1. e \in Seq(PageType) /\ EmptyPage \in PageType
  BY NoneIsCursor DEF FetchType
<1> HIDE DEF e
<1> DEFINE g == [f EXCEPT !.done = e, !.asked = FALSE, !.found = EmptyPage]
<1>2. g \in FetchType /\ g.kind = f.kind /\ g.done = e /\ ~g.asked
  BY <1>1 DEF FetchType
<1> QED
  BY <1>2 DEF e

\* The page that is delivered, from one that is right in all but its parameter.
LEMMA Renamed ==
    ASSUME NEW p \in PageType, NEW c \in CursorType,
           Stretch(p), PointsOn(p), PointsBack(p), KnowsOlder(p), Known(c), AskedFor(p.ids, c),
           p.cursor # None => IF feed.store = "lines" THEN p.cursor.toward = "asc"
                              ELSE c = None /\ p.cursor.toward = "above" /\ p.cursor.from \in Log
    PROVE  LET q == [p EXCEPT !.param = c]
           IN  q \in PageType /\ PageOK(q) /\ q.param = c /\ q.ids = p.ids /\ q.next = p.next
<1> DEFINE q == [p EXCEPT !.param = c]
<1>1. /\ q.param = c /\ q.ids = p.ids /\ q.next = p.next /\ q.previous = p.previous
      /\ q.cursor = p.cursor /\ q \in PageType
  BY DEF PageType
<1> HIDE DEF q
<1>2. Stretch(q) /\ PointsOn(q) /\ PointsBack(q) /\ KnowsOlder(q)
  BY <1>1 DEF Stretch, PointsOn, PointsBack, KnowsOlder
<1>3. Begins(q)
  BY <1>1 DEF Begins
<1> QED
  BY <1>1, <1>2, <1>3 DEF PageOK, q

LEMMA EmptyDelivered ==
    ASSUME NEW c \in CursorType, Known(c)
    PROVE  LET q == [EmptyPage EXCEPT !.param = c]
           IN  q \in PageType /\ PageOK(q) /\ q.param = c /\ q.ids = {}
<1>1. EmptyPage.ids = {} /\ EmptyPage.next = None /\ EmptyPage.previous = None /\ EmptyPage.cursor = None
  BY DEF EmptyPage
<1>2. EmptyPage \in PageType
  BY NoneIsCursor
<1>3. Stretch(EmptyPage)
  BY <1>1, FS_EmptySet, Bounds DEF Stretch
<1>4. /\ PointsOn(EmptyPage) /\ PointsBack(EmptyPage) /\ KnowsOlder(EmptyPage)
      /\ AskedFor(EmptyPage.ids, c)
  BY <1>1 DEF PointsOn, PointsBack, KnowsOlder, AskedFor
<1> QED
  BY <1>1, <1>2, <1>3, <1>4, Renamed

LEMMA ExistingFacts ==
    ASSUME FeedIInv, NEW param
    PROVE  /\ Existing(param) \in PageType
           /\ \/ Existing(param) = EmptyPage /\ ~Has(param)
              \/ \E i \in DOMAIN pages : Existing(param) = pages[i] /\ pages[i].param = param
           /\ Existing(param).cursor # None =>
                IF feed.store = "lines" THEN Existing(param).cursor.toward = "asc"
                ELSE /\ param = None /\ Existing(param).cursor.toward = "above"
                     /\ Existing(param).cursor.from \in Log
<1> DEFINE S == {i \in DOMAIN pages : pages[i].param = param}
<1>1. /\ FeedTyped /\ Chain(pages) /\ pages \in Seq(PageType)
      /\ \A i \in DOMAIN pages : pages[i] \in PageType /\ PageOK(pages[i])
  BY DEF FeedIInv, FeedTyped, Chain
<1>2. Existing(param) = IF S = {} THEN EmptyPage ELSE pages[Min(S)]
  BY DEF Existing
<1>3. Has(param) <=> S # {}
  BY DEF Has
<1>4. CASE S = {}
  <2>1. Existing(param) = EmptyPage /\ ~Has(param)
    BY <1>2, <1>3, <1>4
  <2>2. EmptyPage \in PageType /\ EmptyPage.cursor = None
    BY NoneIsCursor DEF EmptyPage
  <2> QED
    BY <2>1, <2>2
<1>5. CASE S # {}
  <2>1. S \in SUBSET Nat
    BY <1>1
  <2>2. Min(S) \in S
    <3> HIDE DEF S
    <3> QED
      BY <1>5, <2>1, LeastOf
  <2>3. PICK i \in DOMAIN pages : Existing(param) = pages[i] /\ pages[i].param = param
    BY <1>2, <1>5, <2>2
  <2>4. Begins(pages[i]) /\ pages[i] \in PageType
    BY <1>1 DEF PageOK
  <2> QED
    BY <2>3, <2>4 DEF Begins
<1> QED
  BY <1>4, <1>5

\* A page that needs no request.
LEMMA ReusedFacts ==
    ASSUME FeedIInv, fetch.kind # "none", ~Complete, NEW page \in Reused(Param)
    PROVE  LET q == [page EXCEPT !.param = Param]
           IN  /\ q \in PageType /\ PageOK(q) /\ q.param = Param
               /\ fetch.kind = "previous" => Follow(q, Head(pages))
<1> DEFINE q == [page EXCEPT !.param = Param]
<1>1. /\ FeedTyped /\ Chain(pages) /\ pages \in Seq(PageType)
      /\ \A i \in DOMAIN pages : pages[i] \in PageType /\ PageOK(pages[i])
      /\ Param \in CursorType /\ Known(Param)
      /\ fetch.kind = "previous" => pages # <<>> /\ Param = Head(pages).previous /\ Param # None
      /\ Param # None \/ pages = <<>> \/ Has(Param)
      /\ feed.store \in {"lines", "requests"}
  BY ParamFacts, LogFacts DEF FeedIInv, FeedTyped, Chain
<1>2. CASE \E i \in DOMAIN pages : page = pages[i] /\ pages[i].param = Param
  <2>1. PICK i \in DOMAIN pages : page = pages[i] /\ pages[i].param = Param
    BY <1>2
  <2>2. page \in PageType /\ PageOK(page)
    BY <1>1, <2>1
  <2>3. q \in PageType /\ PageOK(q) /\ q.param = Param /\ q.ids = page.ids /\ q.next = page.next
    BY <1>1, <2>1, <2>2, Renamed DEF PageOK, Begins
  <2>4. ASSUME fetch.kind = "previous" PROVE Follow(q, Head(pages))
    <3> HIDE DEF q
    <3> DEFINE h == Head(pages)
    <3>1. h \in PageType /\ PageOK(h) /\ h = pages[1] /\ 1 \in DOMAIN pages /\ Param = h.previous
          /\ Param # None
      BY <1>1, <2>4, EndPages
    <3> HIDE DEF h
    <3>2. PointsBack(h) /\ h.ids \in SUBSET Log /\ h.ids # {} /\ page.ids \in SUBSET Log
          /\ AskedFor(page.ids, Param)
      BY <2>1, <2>2, <3>1 DEF PageOK, PointsBack, Stretch
    <3>3. CASE page.ids = {}
      BY <2>3, <3>3 DEF Follow
    <3>4. CASE page.ids # {} /\ feed.store = "requests"
      <4>1. NextTo(BottomOf(page.ids), TopOf(h.ids))
        BY <3>1, <3>2, <3>4 DEF PointsBack, AskedFor
      <4> QED
        BY <2>3, <3>4, <4>1 DEF Follow, h
    <3>5. CASE page.ids # {} /\ feed.store = "lines"
      <4>1. at[Max(page.ids)] = Param.from /\ Param.from < at[Min(h.ids)]
        BY <3>1, <3>2, <3>5 DEF PointsBack, AskedFor, TimeBefore
      <4>2. /\ Max(page.ids) \in page.ids /\ Min(h.ids) \in h.ids
            /\ Max(page.ids) \in Log /\ Min(h.ids) \in Log
            /\ Max(page.ids) \in Nat /\ Min(h.ids) \in Nat
        BY <1>1, <3>2, <3>5, EndsOf
      <4>3. Min(h.ids) <= Max(page.ids)
        <5>1. CASE i = 1
          BY <1>1, <2>1, <3>1, <3>2, <4>2, <5>1, EndsOf
        <5>2. CASE i # 1
          <6>1. 1 < i
            BY <1>1, <2>1, <5>2
          <6>2. Before(Min(h.ids), Max(page.ids))
            BY <1>1, <2>1, <3>1, <4>2, <6>1 DEF Chain
          <6> QED
            BY <1>1, <3>5, <4>2, <6>2, LogFacts DEF Before
        <5> QED
          BY <5>1, <5>2
      <4>4. at[Min(h.ids)] <= at[Max(page.ids)] /\ at[Min(h.ids)] \in Nat /\ at[Max(page.ids)] \in Nat
        BY <1>1, <4>2, <4>3, LogFacts
      <4> QED
        BY <4>1, <4>4
    <3> QED
      BY <1>1, <3>3, <3>4, <3>5
  <2> QED
    BY <2>3, <2>4
<1>3. CASE page \in {pages[j] : j \in Follows(Param)}
  <2> DEFINE S == {i \in DOMAIN pages : pages[i].next = Param}
  <2>1. feed.store = "lines" /\ ~Has(Param) /\ S # {} /\ Min(S) + 1 \in DOMAIN pages
        /\ page = pages[Min(S) + 1]
    BY <1>3 DEF Follows
  <2>2. Min(S) \in S
    <3>1. S \in SUBSET Nat
      BY <1>1
    <3> HIDE DEF S
    <3> QED
      BY <2>1, <3>1, LeastOf
  <2>3. PICK i \in DOMAIN pages : pages[i].next = Param /\ i + 1 \in DOMAIN pages /\ page = pages[i+1]
    BY <2>1, <2>2
  <2>4. Param # None
    BY <1>1, <2>1, <2>3
  <2>5. page \in PageType /\ PageOK(page) /\ PointsOn(pages[i]) /\ Follow(pages[i], page)
    <3>1. i \in 1..Len(pages) - 1
      BY <1>1, <2>3
    <3> QED
      BY <1>1, <2>3, <3>1 DEF PageOK, Chain
  <2>6. pages[i].ids # {} /\ Param.toward = "asc"
    BY <2>1, <2>3, <2>4, <2>5 DEF PointsOn
  <2>7. AskedFor(page.ids, Param)
    <3> SUFFICES ASSUME page.ids # {} PROVE AskedFor(page.ids, Param)
      BY DEF AskedFor
    <3>1. Param = Cursor("asc", at[Min(page.ids)])
      BY <2>1, <2>3, <2>5, <2>6 DEF Follow
    <3> QED
      BY <3>1 DEF AskedFor, Cursor
  <2>8. q \in PageType /\ PageOK(q) /\ q.param = Param
    BY <1>1, <2>1, <2>5, <2>7, Renamed DEF PageOK, Begins
  <2>9. fetch.kind # "previous"
    <3> SUFFICES ASSUME fetch.kind = "previous" PROVE FALSE
      OBVIOUS
    <3>1. PageOK(Head(pages)) /\ Param = Head(pages).previous
      BY <1>1, EndPages
    <3>2. Param.toward = "desc"
      BY <2>1, <2>4, <3>1 DEF PageOK, PointsBack
    <3> QED
      BY <2>6, <3>2
  <2> QED
    BY <2>8, <2>9
<1>4. \/ page = Existing(Param) /\ Has(Param)
      \/ page \in {pages[j] : j \in Follows(Param)}
  BY DEF Reused
<1> QED
  BY <1>2, <1>3, <1>4, ExistingFacts

\* Where the first page begins.
LEMMA PinnedFacts ==
    ASSUME FeedTyped, NEW p \in PageType, Stretch(p), PointsOn(p)
    PROVE  /\ Pinned(p) \in CursorType
           /\ Pinned(p) # None =>
                IF feed.store = "lines" THEN Pinned(p).toward = "asc"
                ELSE Pinned(p).toward = "above" /\ Pinned(p).from \in Log
<1>1. p.ids \in SUBSET Log
  BY DEF Stretch
<1>2. CASE feed.store = "lines" /\ p.next = None /\ p.ids # {}
  <2>1. at[Min(p.ids)] \in Nat
    BY <1>1, <1>2, EndsOf, LogFacts
  <2>2. Written(at[Min(p.ids)]) \in Nat
    BY <2>1 DEF Written
  <2>3. Pinned(p) = Cursor("asc", Written(at[Min(p.ids)]))
    BY <1>2 DEF Pinned
  <2> QED
    BY <1>2, <2>2, <2>3 DEF Cursor, CursorType
<1>3. CASE feed.store # "lines" /\ p.next # None
  <2> DEFINE T == Top(Below(p.next.from), PerPage)
  <2>1. Below(p.next.from) # {} /\ Below(p.next.from) \in SUBSET Log
    BY <1>3, SidesOf DEF PointsOn
  <2>2. T \in SUBSET Log /\ T # {}
    BY <2>1, TopFacts, Bounds
  <2>3. TopOf(T) \in Log /\ TopOf(T) \in Nat
    <3> HIDE DEF T
    <3> QED
      BY <2>2, EndsOf
  <2>4. Pinned(p) = Cursor("above", TopOf(T))
    BY <1>3 DEF Pinned
  <2> HIDE DEF T
  <2> QED
    BY <1>3, <2>3, <2>4 DEF Cursor, CursorType
<1>4. CASE Pinned(p) = None
  BY <1>4, NoneIsCursor
<1> QED
  BY <1>2, <1>3, <1>4 DEF Pinned

\* A page that the server has answered.
LEMMA CompletedFacts ==
    ASSUME FeedIInv, fetch.asked
    PROVE  LET q == [Completed(fetch.found, Param) EXCEPT !.param = Param]
           IN  /\ q \in PageType /\ PageOK(q) /\ q.param = Param
               /\ fetch.kind = "previous" => Follow(q, Head(pages))
<1> DEFINE found == fetch.found
           on == IF feed.store = "lines" THEN newer(found.ids) ELSE found.next
           back == IF feed.store = "lines" THEN older(found.ids) ELSE found.previous
           cursor == Existing(Param).cursor
           p0 == [found EXCEPT !.next = on, !.previous = back, !.cursor = cursor]
           page == Completed(found, Param)
           q == [page EXCEPT !.param = Param]
<1>1. /\ FeedTyped /\ Chain(pages) /\ pages \in Seq(PageType)
      /\ found \in PageType /\ Stretch(found) /\ AskedFor(found.ids, Param)
      /\ fetch.kind # "none" /\ ~Complete
      /\ feed.store = "requests" => PointsOn(found) /\ PointsBack(found) /\ KnowsOlder(found)
      /\ feed.store \in {"lines", "requests"}
  BY LogFacts DEF FeedIInv, FeedTyped, FetchType, FoundOK
<1>2. /\ Param \in CursorType /\ Known(Param)
      /\ fetch.kind = "previous" => pages # <<>> /\ Param = Head(pages).previous /\ Param # None
  BY <1>1, ParamFacts
<1>3. /\ cursor \in CursorType
      /\ cursor # None => IF feed.store = "lines" THEN cursor.toward = "asc"
                          ELSE Param = None /\ cursor.toward = "above" /\ cursor.from \in Log
  BY ExistingFacts DEF PageType
<1>4. /\ page = IF Param = None /\ p0.cursor = None THEN [p0 EXCEPT !.cursor = Pinned(p0)] ELSE p0
  BY DEF Completed
<1> HIDE DEF page
<1>5. found.ids \in SUBSET Log /\ found.next \in CursorType /\ found.previous \in CursorType
  BY <1>1 DEF Stretch, PageType
<1>6. /\ on \in CursorType /\ back \in CursorType
      /\ feed.store = "lines" => on = newer(found.ids) /\ back = older(found.ids)
      /\ feed.store # "lines" => on = found.next /\ back = found.previous
  <2> HIDE DEF found
  <2> QED
    BY <1>1, <1>5, NewerFacts, OlderFacts
<1> HIDE DEF found, on, back, cursor
<1>7. /\ p0 \in PageType /\ p0.ids = found.ids /\ p0.next = on /\ p0.previous = back
      /\ p0.cursor = cursor
  BY <1>1, <1>3, <1>6 DEF PageType
<1> HIDE DEF p0
<1>8. Stretch(p0)
  BY <1>1, <1>7 DEF Stretch
<1>9. PointsOn(p0) /\ PointsBack(p0) /\ KnowsOlder(p0)
  <2>1. CASE feed.store = "lines"
    <3>1. /\ p0.next = newer(found.ids) /\ p0.previous = older(found.ids) /\ ~NewestFirst
      BY <1>1, <1>6, <1>7, <2>1, LogFacts
    <3>2. PointsOn(p0)
      BY <1>1, <1>5, <1>7, <2>1, <3>1, NewerFacts DEF PointsOn
    <3>3. PointsBack(p0)
      BY <1>1, <1>5, <1>7, <2>1, <3>1, OlderFacts DEF PointsBack
    <3>4. KnowsOlder(p0)
      BY <1>1, <1>5, <1>7, <3>1, OlderFacts DEF KnowsOlder
    <3> QED
      BY <3>2, <3>3, <3>4
  <2>2. CASE feed.store # "lines"
    BY <1>1, <1>6, <1>7, <2>2 DEF PointsOn, PointsBack, KnowsOlder
  <2> QED
    BY <2>1, <2>2
<1>10. /\ page \in PageType /\ page.ids = found.ids /\ page.next = on /\ page.previous = back
       /\ page.cursor # None => IF feed.store = "lines" THEN page.cursor.toward = "asc"
            ELSE Param = None /\ page.cursor.toward = "above" /\ page.cursor.from \in Log
  <2>1. CASE Param = None /\ p0.cursor = None
    <3>1. page = [p0 EXCEPT !.cursor = Pinned(p0)]
      BY <1>4, <2>1
    <3>2. /\ Pinned(p0) \in CursorType
          /\ Pinned(p0) # None => IF feed.store = "lines" THEN Pinned(p0).toward = "asc"
               ELSE Pinned(p0).toward = "above" /\ Pinned(p0).from \in Log
      BY <1>1, <1>7, <1>8, <1>9, PinnedFacts
    <3>3. /\ page \in PageType /\ page.ids = p0.ids /\ page.next = p0.next
          /\ page.previous = p0.previous /\ page.cursor = Pinned(p0)
      BY <1>7, <3>1, <3>2 DEF PageType
    <3> QED
      BY <1>7, <2>1, <3>2, <3>3
  <2>2. CASE ~(Param = None /\ p0.cursor = None)
    BY <1>3, <1>4, <1>7, <2>2
  <2> QED
    BY <2>1, <2>2
<1>11. Stretch(page) /\ PointsOn(page) /\ PointsBack(page) /\ KnowsOlder(page)
  BY <1>7, <1>8, <1>9, <1>10 DEF Stretch, PointsOn, PointsBack, KnowsOlder
<1>12. AskedFor(page.ids, Param)
  BY <1>1, <1>10
<1>13. q \in PageType /\ PageOK(q) /\ q.param = Param /\ q.ids = page.ids /\ q.next = page.next
  BY <1>2, <1>10, <1>11, <1>12, Renamed
<1> HIDE DEF q
<1>14. ASSUME fetch.kind = "previous" PROVE Follow(q, Head(pages))
  <2> DEFINE h == Head(pages)
  <2>1. h \in PageType /\ PageOK(h) /\ Param = h.previous /\ Param # None
    BY <1>1, <1>2, <1>14, EndPages
  <2> HIDE DEF h
  <2> SUFFICES ASSUME q.ids # {}, h.ids # {} PROVE Follow(q, h)
    BY DEF Follow, h
  <2>2. PointsBack(h) /\ h.ids \in SUBSET Log /\ q.ids \in SUBSET Log
    BY <1>5, <1>10, <1>13, <2>1 DEF PageOK, Stretch
  <2>3. CASE feed.store = "requests"
    BY <1>12, <1>13, <2>1, <2>2, <2>3 DEF PointsBack, AskedFor, Follow
  <2>4. CASE feed.store = "lines"
    <3> DEFINE a == Max(q.ids)
               b == Min(h.ids)
    <3>1. at[a] = Param.from /\ TimeBefore(at[b], Param.from)
      BY <1>12, <1>13, <2>1, <2>2, <2>4 DEF PointsBack, AskedFor
    <3>2. a \in Log /\ b \in Log /\ at[a] \in Nat /\ at[b] \in Nat
      BY <1>1, <2>2, EndsOf, LogFacts
    <3>3. q.next = newer(q.ids)
      BY <1>6, <1>10, <1>13, <2>4
    <3>4. at[a] < at[b] /\ \A k \in Log : at[k] <= at[a] \/ at[b] <= at[k]
      BY <3>1 DEF TimeBefore
    <3>5. /\ q.next # None /\ q.next \in CursorType /\ q.next.toward = "asc"
          /\ TimeAfter(at[a], q.next.from)
      BY <1>1, <2>2, <3>2, <3>3, <3>4, NewerFacts
    <3>6. PICK m \in Log : at[m] = q.next.from
      BY <3>5 DEF TimeAfter
    <3>7. at[a] < at[m] /\ (at[b] <= at[a] \/ at[m] <= at[b]) /\ at[m] \in Nat
      BY <1>1, <3>2, <3>5, <3>6, LogFacts DEF TimeAfter
    <3> HIDE DEF a, b
    <3>8. at[m] = at[b]
      BY <3>2, <3>4, <3>7
    <3>9. q.next = Cursor("asc", at[b])
      BY <3>5, <3>6, <3>8 DEF Cursor, CursorType
    <3> QED
      BY <2>4, <3>9 DEF Follow, b
  <2> QED
    BY <1>1, <2>3, <2>4
<1> QED
  BY <1>13, <1>14 DEF q, page, found

\* What the server finds for a parameter.
LEMMA FoundFacts ==
    ASSUME FeedIInv, fetch.kind # "none", ~Complete
    PROVE  /\ Found(Param) \in PageType
           /\ Found(Param).param = None /\ Found(Param).cursor = None
           /\ Stretch(Found(Param)) /\ AskedFor(Found(Param).ids, Param)
           /\ feed.store = "requests" =>
                PointsOn(Found(Param)) /\ PointsBack(Found(Param)) /\ KnowsOlder(Found(Param))
<1> DEFINE cursor == CursorOf(Param)
           found == Found(Param)
<1>1. FeedTyped /\ feed.store \in {"lines", "requests"}
  BY LogFacts DEF FeedIInv
<1>2. Param \in CursorType /\ Known(Param) /\ (Param.toward = "none" => Param = None)
  BY ParamFacts DEF Known
<1>3. /\ Existing(Param).cursor \in CursorType
      /\ Existing(Param).cursor # None =>
           IF feed.store = "lines" THEN Existing(Param).cursor.toward = "asc"
           ELSE Param = None /\ Existing(Param).cursor.toward = "above"
                /\ Existing(Param).cursor.from \in Log
  BY ExistingFacts DEF PageType
<1>4. None \in CursorType /\ None.toward = "none"
  BY NoneIsCursor DEF None
<1>5. CASE feed.store = "lines"
  <2>1. /\ cursor \in CursorType /\ cursor.toward \in {"none", "asc", "desc"}
        /\ Param # None => cursor = Param
    BY <1>2, <1>3, <1>4, <1>5 DEF CursorOf, Known
  <2>2. found = [EmptyPage EXCEPT !.ids = search(cursor)]
    BY <1>5 DEF Found
  <2> HIDE DEF cursor, found
  <2> DEFINE ids == search(cursor)
  <2>3. /\ ids \subseteq Log /\ Cardinality(ids) <= PerPage
        /\ \A a, b \in ids, k \in Log : a < k /\ k < b => k \in ids
        /\ ids # {} /\ (\E m \in Log : at[m] = cursor.from) =>
             /\ cursor.toward = "asc" => at[Min(ids)] = cursor.from
             /\ cursor.toward = "desc" => at[Max(ids)] = cursor.from
    BY <1>1, <2>1, SearchFacts
  <2> HIDE DEF ids
  <2>4. found \in PageType /\ found.param = None /\ found.cursor = None /\ found.ids = ids
    <3>1. found = [ids |-> ids, next |-> None, previous |-> None, cursor |-> None, param |-> None]
      BY <2>2 DEF EmptyPage, ids
    <3>2. ids \in SUBSET Nat
      BY <1>1, <2>3, LogFacts
    <3> QED
      BY <1>4, <3>1, <3>2 DEF PageType
  <2>5. Stretch(found)
    BY <2>3, <2>4 DEF Stretch
  <2>6. AskedFor(found.ids, Param)
    <3>1. CASE Param = None
      BY <1>4, <3>1 DEF AskedFor
    <3>2. CASE Param # None
      BY <1>2, <1>5, <2>1, <2>3, <2>4, <3>2 DEF AskedFor, Known
    <3> QED
      BY <3>1, <3>2
  <2> QED
    BY <1>5, <2>4, <2>5, <2>6 DEF found
<1>6. CASE feed.store = "requests"
  <2>1. /\ cursor \in CursorType
        /\ cursor = None \/ (cursor.toward \in {"below", "above"} /\ cursor.from \in Log)
        /\ Param # None => cursor = Param
    BY <1>2, <1>3, <1>4, <1>6 DEF CursorOf, Known
  <2>2. found = paginate(cursor)
    BY <1>6 DEF Found
  <2> HIDE DEF cursor, found
  <2>3. /\ found \in PageType /\ found.param = None /\ found.cursor = None
        /\ Stretch(found) /\ PointsOn(found) /\ PointsBack(found) /\ KnowsOlder(found)
        /\ found.ids # {} =>
             /\ cursor.toward = "below" => NextTo(cursor.from, TopOf(found.ids))
             /\ cursor.toward = "above" => NextTo(BottomOf(found.ids), cursor.from)
    BY <1>1, <1>6, <2>1, <2>2, PaginateFacts
  <2>4. AskedFor(found.ids, Param)
    <3>1. CASE Param = None
      BY <1>4, <3>1 DEF AskedFor
    <3>2. CASE Param # None
      BY <1>2, <1>6, <2>1, <2>3, <3>2 DEF AskedFor, Known
    <3> QED
      BY <3>1, <3>2
  <2> QED
    BY <2>3, <2>4 DEF found
<1> QED
  BY <1>1, <1>5, <1>6

-----------------------------------------------------------------------------
(* The steps                                                               *)

LEMMA KeptPages ==
    ASSUME Grown, pages \in Seq(PageType), Chain(pages), pages' = pages
    PROVE  Chain(pages)'
<1>1. PICK s \in Seq(PageType) : s = pages
  OBVIOUS
<1>2. Chain(s)'
  BY <1>1, KeptChain
<1> QED
  BY <1>1, <1>2

LEMMA DeliverStep ==
    ASSUME FeedIInv, fetch.kind # "none", ~Complete, NEW page, Deliver(page),
           LET q == [page EXCEPT !.param = Param]
           IN  /\ q \in PageType /\ PageOK(q) /\ q.param = Param
               /\ fetch.kind = "previous" => Follow(q, Head(pages)),
           feed' = feed, at' = at, pages' = pages, follow' = follow, failures' \in 0..Failures
    PROVE  FeedIInv'
<1> DEFINE q0 == [page EXCEPT !.param = Param]
<1>1. /\ FeedTyped /\ Chain(pages) /\ pages \in Seq(PageType) /\ fetch \in FetchType
      /\ follow' \in BOOLEAN
  BY DEF FeedIInv, FeedTyped
<1>2. /\ q0 \in PageType /\ PageOK(q0) /\ q0.param = Param
      /\ fetch.kind = "previous" => Follow(q0, Head(pages))
      /\ fetch' = [fetch EXCEPT !.done = Append(@, q0), !.asked = FALSE, !.found = EmptyPage]
  BY DEF Deliver
<1> HIDE DEF q0
<1>3. PICK q \in PageType : q = q0
  BY <1>2
<1>4. /\ fetch' \in FetchType /\ fetch'.kind = fetch.kind /\ fetch'.done = Append(fetch.done, q)
      /\ ~fetch'.asked
  BY <1>1, <1>2, <1>3, DeliveredRecord
<1>5. FeedTyped' /\ FetchOK' /\ FoundOK'
  BY <1>1, <1>2, <1>3, <1>4, Delivered
<1>6. Chain(pages)'
  BY <1>1, <1>4, SameLogs, KeptPages
<1> QED
  BY <1>5, <1>6 DEF FeedIInv

LEMMA ReuseStep ==
    ASSUME FeedIInv, Reuse PROVE FeedIInv'
<1>1. /\ fetch.kind # "none" /\ ~Complete
      /\ feed' = feed /\ at' = at /\ pages' = pages /\ follow' = follow
      /\ failures' \in 0..Failures
  BY DEF FeedIInv, FeedTyped, Reuse
<1>2. PICK page \in Reused(Param) : Deliver(page)
  BY DEF Reuse
<1> QED
  BY <1>1, <1>2, ReusedFacts, DeliverStep

LEMMA AnswerStep ==
    ASSUME FeedIInv, Answer PROVE FeedIInv'
<1>1. /\ fetch.asked /\ fetch.kind # "none" /\ ~Complete
      /\ feed' = feed /\ at' = at /\ pages' = pages /\ follow' = follow
      /\ failures' \in 0..Failures
      /\ Deliver(Completed(fetch.found, Param))
  BY DEF FeedIInv, FeedTyped, FoundOK, Answer
<1> QED
  BY <1>1, CompletedFacts, DeliverStep

LEMMA FailStep ==
    ASSUME FeedIInv, Fail PROVE FeedIInv'
<1>1. /\ fetch.asked /\ fetch.kind # "none" /\ ~Complete
      /\ feed' = feed /\ at' = at /\ pages' = pages /\ follow' = follow
      /\ failures < Failures /\ failures' = failures + 1 /\ failures \in 0..Failures
      /\ Deliver(EmptyPage)
  BY DEF FeedIInv, FeedTyped, FoundOK, Fail
<1>2. failures' \in 0..Failures
  BY <1>1, Bounds
<1>3. Param \in CursorType /\ Known(Param)
  BY <1>1, ParamFacts
<1>4. LET q == [EmptyPage EXCEPT !.param = Param]
      IN  /\ q \in PageType /\ PageOK(q) /\ q.param = Param
          /\ fetch.kind = "previous" => Follow(q, Head(pages))
  BY <1>3, EmptyDelivered DEF Follow
<1> QED
  BY <1>1, <1>2, <1>4, DeliverStep

LEMMA RequestStep ==
    ASSUME FeedIInv, Request PROVE FeedIInv'
<1> DEFINE found == Found(Param)
<1>1. /\ fetch.kind # "none" /\ ~Complete
      /\ feed' = feed /\ at' = at /\ pages' = pages /\ follow' \in BOOLEAN
      /\ failures' \in 0..Failures
      /\ fetch' = [fetch EXCEPT !.asked = TRUE, !.found = found]
      /\ FeedTyped /\ fetch \in FetchType /\ pages \in Seq(PageType)
  BY DEF FeedIInv, FeedTyped, Request
<1>2. /\ found \in PageType /\ found.param = None /\ found.cursor = None
      /\ Stretch(found) /\ AskedFor(found.ids, Param)
      /\ feed.store = "requests" => PointsOn(found) /\ PointsBack(found) /\ KnowsOlder(found)
  BY <1>1, FoundFacts
<1> HIDE DEF found
<1>3. /\ fetch' \in FetchType /\ fetch'.kind = fetch.kind /\ fetch'.done = fetch.done
      /\ fetch'.found = found
  BY <1>1, <1>2 DEF FetchType
<1>4. Grown /\ FeedTyped'
  BY <1>1, <1>3, SameLogs
<1>5. Chain(pages)' /\ FetchOK'
  BY <1>1, <1>3, <1>4, KeptDone
<1>6. Param' = Param /\ Complete' = Complete
  BY <1>1, <1>3 DEF Param, Complete
<1>7. Param \in CursorType
  BY <1>1, ParamFacts
<1>8. PICK p \in PageType, c \in CursorType : p = found /\ c = Param
  BY <1>2, <1>7
<1>9. /\ Stretch(p)' /\ AskedFor(p.ids, c)'
      /\ feed.store = "requests" => PointsOn(p)' /\ PointsBack(p)' /\ KnowsOlder(p)'
  BY <1>2, <1>4, <1>8, KeptParts
<1>10. FoundOK'
  BY <1>1, <1>2, <1>3, <1>6, <1>8, <1>9 DEF FoundOK
<1> QED
  BY <1>4, <1>5, <1>10 DEF FeedIInv

\* A fetch begins.
LEMMA BeginStep ==
    ASSUME FeedIInv, Tick \/ fetchNextPage \/ fetchPreviousPage PROVE FeedIInv'
<1>1. /\ feed' = feed /\ at' = at /\ pages' = pages /\ follow' \in BOOLEAN
      /\ failures' \in 0..Failures /\ FeedTyped /\ pages \in Seq(PageType) /\ Chain(pages)
  BY DEF FeedIInv, FeedTyped, Tick, fetchNextPage, fetchPreviousPage
<1>2. PICK kind \in {"all", "next", "previous"} :
        /\ fetch' = [Idle EXCEPT !.kind = kind]
        /\ kind = "next" => Shown # {} /\ Last(pages).next # None
        /\ kind = "previous" => Shown # {} /\ Head(pages).previous # None
  BY DEF Tick, fetchNextPage, fetchPreviousPage
<1>3. fetch' = [kind |-> kind, done |-> <<>>, asked |-> FALSE, found |-> EmptyPage]
  BY <1>2 DEF Idle
<1>4. /\ fetch' \in FetchType /\ fetch'.kind = kind /\ fetch'.done = <<>> /\ ~fetch'.asked
  <2>1. <<>> \in Seq(PageType) /\ EmptyPage \in PageType
    BY NoneIsCursor
  <2> QED
    BY <1>3, <2>1 DEF FetchType
<1>5. Grown /\ FeedTyped'
  BY <1>1, <1>4, SameLogs
<1>6. Chain(pages)'
  BY <1>1, <1>5, KeptPages
<1>7. kind # "all" => pages # <<>>
  <2>1. pages = <<>> => Shown = {}
    BY DEF Shown
  <2> QED
    BY <1>2, <2>1
<1>8. FetchOK'
  <2>1. Chain(<<>>)'
    BY DEF Chain
  <2>2. Chain(fetch.done)' /\ \A i \in 1..Len(fetch'.done) - 1 : fetch'.done[i].ids # {}
    BY <1>4, <2>1
  <2> QED
    BY <1>1, <1>2, <1>4, <1>7, <2>2 DEF FetchOK
<1>9. FoundOK'
  BY <1>4 DEF FoundOK
<1> QED
  BY <1>5, <1>6, <1>8, <1>9 DEF FeedIInv

LEMMA KeptStep ==
    ASSUME FeedIInv, Scroll \/ UNCHANGED vars PROVE FeedIInv'
<1>1. /\ feed' = feed /\ at' = at /\ pages' = pages /\ fetch' = fetch /\ follow' \in BOOLEAN
      /\ failures' \in 0..Failures /\ FeedTyped /\ pages \in Seq(PageType) /\ fetch \in FetchType
  BY DEF FeedIInv, FeedTyped, Scroll, vars
<1>2. Grown /\ FeedTyped'
  BY <1>1, SameLogs
<1> QED
  BY <1>1, <1>2, KeptFetch DEF FeedIInv

LEMMA FinishStep ==
    ASSUME FeedIInv, Finish PROVE FeedIInv'
<1>1. /\ feed' = feed /\ at' = at /\ follow' \in BOOLEAN /\ failures' \in 0..Failures
      /\ FeedTyped /\ pages \in Seq(PageType) /\ Chain(pages) /\ FetchOK
      /\ fetch.done \in Seq(PageType) /\ fetch.kind \in {"all", "next", "previous"}
      /\ fetch' = Idle /\ Complete
  BY DEF FeedIInv, FeedTyped, FetchType, Finish
<1>2. /\ fetch.kind = "all" => pages' = fetch.done
      /\ fetch.kind = "next" => pages' = pages \o fetch.done
      /\ fetch.kind = "previous" => pages' = fetch.done \o pages
  BY <1>1 DEF Finish
<1>3. PICK t \in Seq(PageType) : pages' = t /\ Chain(t)
  <2>1. CASE fetch.kind = "all"
    BY <1>1, <1>2, <2>1 DEF FetchOK
  <2>2. ASSUME fetch.kind # "all"
        PROVE  /\ pages # <<>> /\ fetch.done[1] \in PageType /\ PageOK(fetch.done[1])
               /\ fetch.done = <<fetch.done[1]>>
               /\ fetch.kind = "next" =>
                    Last(pages).next # None /\ fetch.done[1].param = Last(pages).next
               /\ fetch.kind = "previous" =>
                    Head(pages).previous # None /\ Follow(fetch.done[1], Head(pages))
    <3>1. fetch.done # <<>>
      BY <1>1, <2>2 DEF Complete
    <3>2. /\ pages # <<>> /\ Len(fetch.done) = 1 /\ PageOK(fetch.done[1])
          /\ fetch.kind = "next" =>
               Last(pages).next # None /\ fetch.done[1].param = Last(pages).next
          /\ fetch.kind = "previous" =>
               Head(pages).previous # None /\ Follow(fetch.done[1], Head(pages))
      BY <1>1, <2>2, <3>1 DEF FetchOK
    <3>3. fetch.done = <<fetch.done[1]>>
      BY <1>1, <3>2
    <3> QED
      BY <1>1, <3>1, <3>2, <3>3
  <2>3. CASE fetch.kind = "next"
    <3>1. PICK q \in PageType : q = fetch.done[1]
      BY <2>2, <2>3
    <3>2. pages' = Append(pages, q)
      <4>1. pages' = pages \o <<q>>
        BY <1>2, <2>2, <2>3, <3>1
      <4>2. pages \o <<q>> = Append(pages, q)
        BY <1>1, AppendIsConcat
      <4> QED
        BY <4>1, <4>2
    <3>3. Append(pages, q) \in Seq(PageType) /\ Chain(Append(pages, q))
      BY <1>1, <2>2, <2>3, <3>1, ExtendChain
    <3> QED
      BY <3>2, <3>3
  <2>4. CASE fetch.kind = "previous"
    <3>1. PICK q \in PageType : q = fetch.done[1]
      BY <2>2, <2>4
    <3>2. pages' = <<q>> \o pages
      BY <1>2, <2>2, <2>4, <3>1
    <3>3. Head(pages).ids # {}
      BY <1>1, <2>2, <2>4, EndPages DEF PageOK, PointsBack
    <3>4. <<q>> \o pages \in Seq(PageType) /\ Chain(<<q>> \o pages)
      BY <1>1, <2>2, <2>4, <3>1, <3>3, PrependChain
    <3> QED
      BY <3>2, <3>4
  <2> QED
    BY <1>1, <2>1, <2>3, <2>4
<1>4. fetch' \in FetchType /\ fetch'.kind = "none" /\ ~fetch'.asked
  <2>1. <<>> \in Seq(PageType) /\ EmptyPage \in PageType
    BY NoneIsCursor
  <2> QED
    BY <1>1, <2>1 DEF FetchType, Idle
<1>5. Grown /\ FeedTyped'
  BY <1>1, <1>3, <1>4, SameLogs
<1>6. Chain(pages)'
  <2>1. Chain(t)'
    BY <1>3, <1>5, KeptChain
  <2> QED
    BY <1>3, <2>1
<1>7. FetchOK' /\ FoundOK'
  BY <1>1, <1>4 DEF FetchOK, FoundOK
<1> QED
  BY <1>5, <1>6, <1>7 DEF FeedIInv

LEMMA ArriveStep ==
    ASSUME FeedIInv, Arrive PROVE FeedIInv'
<1> DEFINE n == Len(at)
<1>1. /\ feed' = feed /\ pages' = pages /\ fetch' = fetch /\ follow' = follow
      /\ failures' = failures /\ FeedTyped /\ TimesGrow /\ at \in Seq(Nat)
      /\ n \in Nat /\ Log = 1..n /\ \A i \in Log : at[i] \in Nat
  BY LogFacts DEF FeedIInv, FeedTyped, TimesGrow, Arrive
<1>2. PICK gap \in {0, 2} :
        LET t == (IF at = <<>> THEN 2 ELSE Last(at)) + gap
        IN  /\ Cardinality({i \in Log : at[i] = t}) < Ties
            /\ feed.store = "requests" => gap = 2
            /\ at' = Append(at, t)
  BY DEF Arrive
<1> DEFINE t0 == (IF at = <<>> THEN 2 ELSE Last(at)) + gap
<1>3. /\ t0 \in Nat /\ t0 % 2 = 0
      /\ \A i \in Log : at[i] <= t0 /\ (feed.store = "requests" => at[i] # t0)
  <2>1. CASE at = <<>>
    <3>1. t0 = 2 + gap /\ Log = {}
      BY <1>1, <2>1
    <3> HIDE DEF t0
    <3> QED
      BY <3>1
  <2>2. CASE at # <<>>
    <3>1. n \in Log /\ Last(at) = at[n] /\ t0 = at[n] + gap
      BY <1>1, <2>2 DEF Last
    <3>2. at[n] \in Nat /\ at[n] % 2 = 0
      BY <1>1, <3>1 DEF TimesGrow
    <3>3. \A i \in Log : at[i] <= at[n] /\ at[i] \in Nat
      <4>1. \A i \in Log : i <= n
        BY <1>1
      <4> HIDE DEF n
      <4> QED
        BY <1>1, <3>1, <4>1, LogFacts
    <3>4. feed.store = "requests" => gap = 2
      BY <1>2
    <3> HIDE DEF t0, n
    <3>5. PICK m \in Nat : m = at[n]
      BY <3>2
    <3>6. t0 = m + gap /\ m % 2 = 0
      BY <3>1, <3>2, <3>5
    <3>7. t0 \in Nat /\ t0 % 2 = 0 /\ m <= t0 /\ (gap = 2 => m < t0)
      BY <3>6
    <3>8. \A i \in Log : at[i] <= m /\ at[i] \in Nat
      BY <3>3, <3>5
    <3> QED
      BY <3>4, <3>7, <3>8
  <2> QED
    BY <2>1, <2>2
<1> DEFINE Same == {i \in Log : at[i] = t0}
<1>4. PICK t \in Nat : t = t0
  BY <1>3
<1>5. /\ t % 2 = 0 /\ at' = Append(at, t)
      /\ \A i \in Log : at[i] <= t /\ (feed.store = "requests" => at[i] # t)
      /\ Cardinality({i \in Log : at[i] = t}) < Ties
  BY <1>2, <1>3, <1>4
<1> HIDE DEF t0
<1>6. /\ at' \in Seq(Nat) /\ Log' = Log \cup {n+1} /\ n + 1 \notin Log
      /\ at'[n+1] = t /\ \A i \in Log : at'[i] = at[i]
      /\ \A i \in Log : i < n + 1
  <2>1. /\ at' \in Seq(Nat) /\ Len(at') = n + 1 /\ at'[n+1] = t
        /\ \A i \in 1..n : at'[i] = at[i]
    BY <1>1, <1>5, AppendProperties
  <2>2. Log' = 1..n+1
    BY <2>1 DEF Log
  <2> QED
    BY <1>1, <2>1, <2>2
<1> HIDE DEF n
<1>7. ASSUME NEW i \in Log', NEW j \in Log', i < j
      PROVE  at'[i] <= at'[j] /\ (feed'.store = "requests" => at'[i] # at'[j])
  <2>1. i \in Log
    BY <1>1, <1>6, <1>7
  <2>2. CASE j \in Log
    BY <1>1, <1>6, <1>7, <2>1, <2>2 DEF TimesGrow
  <2>3. CASE j = n + 1
    BY <1>1, <1>5, <1>6, <2>1, <2>3
  <2> QED
    BY <1>6, <2>2, <2>3
<1>8. ASSUME NEW i \in Log'
      PROVE  at'[i] % 2 = 0 /\ Cardinality({j \in Log' : at'[j] = at'[i]}) <= Ties
  <2> DEFINE T == {j \in Log : at[j] = at'[i]}
  <2>1. IsFiniteSet(T) /\ Cardinality(T) \in Nat /\ T \in SUBSET Log
    BY <1>1, FiniteLogs, LogFacts
  <2>2. CASE at'[i] # t
    <3>1. i \in Log /\ at'[i] = at[i]
      BY <1>6, <2>2
    <3>2. {j \in Log' : at'[j] = at'[i]} = {j \in Log : at[j] = at[i]}
      BY <1>6, <2>2, <3>1
    <3> QED
      BY <1>1, <3>1, <3>2 DEF TimesGrow
  <2>3. CASE at'[i] = t
    <3>1. {j \in Log' : at'[j] = at'[i]} = T \cup {n+1} /\ n + 1 \notin T
      BY <1>6, <2>3
    <3>2. Cardinality(T) < Ties
      BY <1>5, <2>3
    <3> HIDE DEF T
    <3>3. Cardinality(T \cup {n+1}) = Cardinality(T) + 1
      BY <2>1, <3>1, FS_AddElement
    <3>4. Cardinality(T) + 1 <= Ties
      BY <2>1, <3>2, Bounds
    <3> QED
      BY <1>5, <2>3, <3>1, <3>3, <3>4
  <2> QED
    BY <2>2, <2>3
<1>9. TimesGrow'
  BY <1>6, <1>7, <1>8 DEF TimesGrow
<1>10. Grown
  <2>1. FeedTyped'
    BY <1>1, <1>9 DEF FeedTyped
  <2> QED
    BY <1>1, <1>6, <2>1 DEF Grown
<1>11. Chain(pages)' /\ FetchOK' /\ FoundOK'
  BY <1>1, <1>10, KeptFetch
<1> QED
  BY <1>10, <1>11 DEF FeedIInv, Grown

LEMMA FeedStep ==
    ASSUME FeedIInv, [Next]_vars PROVE FeedIInv'
BY ArriveStep, ReuseStep, RequestStep, AnswerStep, FailStep, FinishStep, BeginStep, KeptStep
   DEF Next

LEMMA FeedBegins ==
    ASSUME Init PROVE FeedIInv
<1>1. /\ at \in {<<>>, <<4>>, <<6>>, <<2, 4, 6>>, <<4, 6, 8>>} /\ feed \in Feeds
      /\ pages = <<>> /\ fetch = [Idle EXCEPT !.kind = "all"] /\ follow = TRUE /\ failures = 0
  BY DEF Init
<1>2. TimesGrow
  <2>1. at \in Seq(Nat) /\ \A i, j \in Log : i < j => at[i] < at[j]
    <3>1. CASE at = <<>>
      BY <3>1 DEF Log
    <3>2. CASE at = <<4>>
      BY <3>2 DEF Log
    <3>3. CASE at = <<6>>
      BY <3>3 DEF Log
    <3>4. CASE at = <<2, 4, 6>>
      BY <3>4 DEF Log
    <3>5. CASE at = <<4, 6, 8>>
      BY <3>5 DEF Log
    <3> QED
      BY <1>1, <3>1, <3>2, <3>3, <3>4, <3>5
  <2>2. \A i \in Log : at[i] \in Nat /\ at[i] % 2 = 0
    BY <1>1 DEF Log
  <2>3. Len(at) \in Nat /\ Log = 1..Len(at) /\ Log \subseteq Nat
    BY <2>1 DEF Log
  <2>4. ASSUME NEW i \in Log PROVE Cardinality({j \in Log : at[j] = at[i]}) <= Ties
    <3>1. \A j \in Log : at[j] = at[i] => j = i
      <4> TAKE j \in Log
      <4>1. i \in Nat /\ j \in Nat /\ at[i] \in Nat /\ at[j] \in Nat
        BY <2>2, <2>3
      <4> QED
        BY <2>1, <4>1
    <3>2. {j \in Log : at[j] = at[i]} = {i}
      BY <3>1
    <3>3. Cardinality({i}) = 1
      BY FS_Singleton
    <3> QED
      BY <3>2, <3>3, Bounds
  <2>5. \A i, j \in Log : i < j => at[i] <= at[j] /\ (feed.store = "requests" => at[i] # at[j])
    BY <2>1, <2>2
  <2> QED
    BY <2>1, <2>2, <2>4, <2>5 DEF TimesGrow
<1>3. fetch = [kind |-> "all", done |-> <<>>, asked |-> FALSE, found |-> EmptyPage]
  BY <1>1 DEF Idle
<1>4. fetch \in FetchType /\ fetch.kind = "all" /\ fetch.done = <<>> /\ ~fetch.asked
  <2>1. <<>> \in Seq(PageType) /\ EmptyPage \in PageType
    BY NoneIsCursor
  <2> QED
    BY <1>3, <2>1 DEF FetchType
<1>5. FeedTyped
  BY <1>1, <1>2, <1>4, Bounds DEF FeedTyped
<1>6. Chain(<<>>)
  BY DEF Chain
<1>7. FetchOK /\ FoundOK
  BY <1>4, <1>6 DEF FetchOK, FoundOK
<1> QED
  BY <1>1, <1>5, <1>6, <1>7 DEF FeedIInv

-----------------------------------------------------------------------------
(* What the page shows                                                     *)

LEMMA ShownFacts ==
    ASSUME FeedIInv
    PROVE  /\ FeedTyped /\ Chain(pages) /\ pages \in Seq(PageType)
           /\ Len(pages) \in Nat /\ DOMAIN pages = 1..Len(pages)
           /\ \A u \in DOMAIN pages :
                pages[u] \in PageType /\ PageOK(pages[u]) /\ pages[u].ids \in SUBSET Log
           /\ Shown \in SUBSET Log
           /\ \A k \in Shown : \E u \in DOMAIN pages : k \in pages[u].ids
           /\ \A u \in DOMAIN pages : pages[u].ids \subseteq Shown
<1>1. /\ FeedTyped /\ Chain(pages) /\ pages \in Seq(PageType)
      /\ \A u \in DOMAIN pages : pages[u] \in PageType /\ PageOK(pages[u])
  BY DEF FeedIInv, FeedTyped, Chain
<1>2. \A u \in DOMAIN pages : pages[u].ids \in SUBSET Log
  BY <1>1 DEF PageOK, Stretch
<1>3. Len(pages) \in Nat /\ DOMAIN pages = 1..Len(pages)
  BY <1>1
<1> QED
  BY <1>1, <1>2, <1>3 DEF Shown

LEMMA FeedTypes == FeedIInv => TypeOK
<1> SUFFICES ASSUME FeedIInv PROVE TypeOK
  OBVIOUS
<1>1. /\ FeedTyped /\ TimesGrow /\ FetchOK /\ \A i \in Log : at[i] \in Nat
      /\ \A i \in DOMAIN pages : pages[i].ids \subseteq Log /\ Cardinality(pages[i].ids) <= PerPage
  BY ShownFacts, LogFacts DEF FeedIInv, FeedTyped, PageOK, Stretch
<1> QED
  BY <1>1 DEF FeedTyped, TimesGrow, FetchType, FetchOK, TypeOK

LEMMA FeedOrder == FeedIInv => InOrder
<1> SUFFICES ASSUME FeedIInv PROVE InOrder
  OBVIOUS
<1>1. Chain(pages)
  BY DEF FeedIInv
<1> QED
  BY <1>1 DEF Chain, Before, InOrder

LEMMA FeedHasNoGap == FeedIInv => NoGap
<1> SUFFICES ASSUME FeedIInv, NEW i \in Log, Shown # {}, Min(Shown) < i, i < Max(Shown),
                    i \notin Shown
             PROVE  \E j \in Shown : at[j] = at[i]
  BY DEF NoGap
<1> DEFINE A == {j \in Shown : Before(j, i)}
           B == {j \in Shown : Before(i, j)}
<1>1. /\ FeedTyped /\ Chain(pages) /\ Shown \in SUBSET Log
      /\ Len(pages) \in Nat /\ DOMAIN pages = 1..Len(pages)
      /\ \A u \in DOMAIN pages :
           pages[u] \in PageType /\ PageOK(pages[u]) /\ pages[u].ids \in SUBSET Log
      /\ \A k \in Shown : \E u \in DOMAIN pages : k \in pages[u].ids
      /\ \A u \in DOMAIN pages : pages[u].ids \subseteq Shown
  BY ShownFacts
<1>2. /\ i \in Nat /\ \A k \in Log : k \in Nat
      /\ Min(Shown) \in Shown /\ Max(Shown) \in Shown
  BY <1>1, EndsOf, LogFacts
<1>3. A # {} /\ B # {} /\ A \in SUBSET Log /\ B \in SUBSET Log
  <2>1. Min(Shown) \in A \/ Max(Shown) \in A
    BY <1>2 DEF Before
  <2>2. Min(Shown) \in B \/ Max(Shown) \in B
    BY <1>2 DEF Before
  <2> QED
    BY <1>1, <2>1, <2>2
<1> DEFINE a == BottomOf(A)
           b == TopOf(B)
<1>4. /\ a \in A /\ \A k \in A : k = a \/ Before(k, a)
      /\ b \in B
  <2> HIDE DEF A, B
  <2> QED
    BY <1>1, <1>3, EndsOf
<1> HIDE DEF a, b
<1>5. a \in Shown /\ b \in Shown /\ Before(a, i) /\ Before(i, b) /\ a \in Nat /\ b \in Nat /\ Before(a, b)
  BY <1>1, <1>2, <1>4, BeforeOrder
<1>6. PICK u \in DOMAIN pages, v \in DOMAIN pages : a \in pages[u].ids /\ b \in pages[v].ids
  BY <1>1, <1>5
<1>7. u # v
  <2> SUFFICES ASSUME u = v PROVE FALSE
    OBVIOUS
  <2>1. (a < i /\ i < b) \/ (b < i /\ i < a)
    BY <1>2, <1>5 DEF Before
  <2>2. i \in pages[u].ids
    BY <1>1, <1>6, <2>1 DEF PageOK, Stretch
  <2> QED
    BY <1>1, <2>2
<1>8. u < v /\ u \in Nat /\ v \in Nat
  <2>1. u \in Nat /\ v \in Nat
    BY <1>1
  <2>2. ~(v < u)
    <3> SUFFICES ASSUME v < u PROVE FALSE
      OBVIOUS
    <3>1. Before(b, a)
      BY <1>1, <1>6 DEF Chain
    <3> QED
      BY <1>5, <3>1, BeforeOrder
  <2> QED
    BY <1>7, <2>1, <2>2
<1>9. /\ u + 1 \in DOMAIN pages /\ u \in 1..Len(pages) - 1
      /\ u + 1 = v \/ (1 < u + 1 /\ u + 1 < Len(pages))
  <2>1. u >= 1 /\ v <= Len(pages)
    BY <1>1
  <2> QED
    BY <1>1, <1>8, <2>1
<1> DEFINE p == pages[u]
           q == pages[u+1]
<1>10. /\ p \in PageType /\ PageOK(p) /\ q \in PageType /\ PageOK(q) /\ Follow(p, q)
       /\ p.ids # {} /\ q.ids # {} /\ p.ids \in SUBSET Log /\ q.ids \in SUBSET Log
       /\ p.ids \subseteq Shown /\ q.ids \subseteq Shown /\ a \in p.ids
  <2>1. Follow(p, q)
    BY <1>1, <1>9 DEF Chain
  <2>2. q.ids # {}
    BY <1>1, <1>6, <1>9 DEF Chain
  <2> QED
    BY <1>1, <1>6, <1>9, <2>1, <2>2
<1> HIDE DEF p, q
\* The log i lies between the last log of p and all those of q.
<1>11. ASSUME NEW k \in q.ids PROVE Before(i, k)
  <2>1. Before(a, k) /\ k \in Shown /\ k \in Nat /\ k # i
    BY <1>1, <1>2, <1>10, FollowOrder
  <2>2. ~Before(k, i)
    <3> SUFFICES ASSUME Before(k, i) PROVE FALSE
      OBVIOUS
    <3>1. k = a \/ Before(k, a)
      BY <1>4, <2>1
    <3> QED
      BY <1>5, <2>1, <3>1, BeforeOrder
  <2> QED
    BY <1>2, <2>1, <2>2, BeforeOrder
<1>12. BottomOf(p.ids) = a
  <2> DEFINE c == BottomOf(p.ids)
  <2>1. c \in p.ids /\ (a = c \/ Before(a, c)) /\ c \in Shown /\ c \in Nat /\ c # i
    BY <1>1, <1>2, <1>10, EndsOf
  <2> HIDE DEF c
  <2>2. CASE Before(c, i)
    <3>1. c = a \/ Before(c, a)
      BY <1>4, <2>1, <2>2
    <3>2. c = a
      BY <1>5, <2>1, <3>1, BeforeOrder
    <3> QED
      BY <3>2 DEF c
  <2>3. CASE Before(i, c)
    <3>1. (a < i /\ i < c) \/ (c < i /\ i < a)
      BY <1>2, <1>5, <2>1, <2>3 DEF Before
    <3>2. i \in p.ids
      BY <1>10, <2>1, <3>1 DEF PageOK, Stretch
    <3> QED
      BY <1>10, <3>2
  <2> QED
    BY <1>2, <2>1, <2>2, <2>3, BeforeOrder
<1>13. CASE feed.store # "lines"
  <2>1. NextTo(a, TopOf(q.ids)) /\ TopOf(q.ids) \in q.ids
    BY <1>1, <1>10, <1>12, <1>13, EndsOf DEF Follow
  <2> QED
    BY <1>5, <1>11, <2>1 DEF NextTo
<1>14. CASE feed.store = "lines"
  <2> DEFINE c == Min(q.ids)
  <2>1. c \in q.ids /\ c \in Log /\ c \in Nat /\ ~NewestFirst /\ Max(p.ids) = a
    BY <1>1, <1>10, <1>12, <1>14, EndsOf, LogFacts DEF BottomOf
  <2>2. a < i /\ i < c /\ a \in Log
    BY <1>1, <1>2, <1>5, <1>11, <2>1 DEF Before
  <2>3. p.next # None /\ p.next.from = at[c]
    BY <1>10, <1>14 DEF Follow, Cursor, None
  <2>4. at[i] <= at[a] \/ at[c] <= at[i]
    BY <1>10, <1>14, <2>1, <2>3 DEF PageOK, PointsOn, TimeAfter
  <2>5. at[a] <= at[i] /\ at[i] <= at[c] /\ at[a] \in Nat /\ at[i] \in Nat /\ at[c] \in Nat
    <3> HIDE DEF c
    <3> QED
      BY <1>1, <1>2, <1>5, <2>1, <2>2, LogFacts
  <2>6. at[a] = at[i] \/ at[c] = at[i]
    BY <2>4, <2>5
  <2> QED
    BY <1>5, <1>10, <2>1, <2>6
<1> QED
  BY <1>13, <1>14

LEMMA FeedKnowsOlder == FeedIInv => OlderReachable
<1> SUFFICES ASSUME FeedIInv, pages # <<>> PROVE OlderReachable
  BY DEF OlderReachable
<1>1. Chain(pages) /\ pages \in Seq(PageType)
  BY DEF FeedIInv, FeedTyped
<1>2. KnowsOlder(Head(pages)) /\ KnowsOlder(Last(pages))
  BY <1>1, EndPages DEF PageOK
<1> QED
  BY <1>2 DEF KnowsOlder, OlderReachable

LEMMA FeedContext == FeedIInv => ContextHasLine
<1> SUFFICES ASSUME FeedIInv, NEW i \in Shown PROVE i \in get_context(Written(at[i]))
  BY DEF ContextHasLine
<1> DEFINE w == Written(at[i])
           S == {j \in Log : at[j] < w}
           R == {j \in Log : at[j] >= w}
           T == {j \in Log : at[j] = at[i]}
<1>1. /\ FeedTyped /\ TimesGrow /\ i \in Log /\ i \in Nat /\ at[i] \in Nat
      /\ \A j \in Log : j \in Nat /\ at[j] \in Nat
      /\ \A j, k \in Log : j <= k => at[j] <= at[k]
      /\ Len(at) \in Nat /\ Log = 1..Len(at)
  BY ShownFacts, LogFacts DEF FeedTyped
<1>2. w = at[i] \/ w = at[i] + 1
  BY DEF Written
<1>3. IsFiniteSet(T) /\ Cardinality(T) \in Nat /\ Cardinality(T) <= Ties /\ i \in T
  <2>1. T \in SUBSET (1..Len(at))
    BY <1>1
  <2>2. IsFiniteSet(T) /\ Cardinality(T) \in Nat
    <3> HIDE DEF T
    <3> QED
      BY <1>1, <2>1, FiniteLogs
  <2> QED
    BY <1>1, <2>2 DEF TimesGrow
<1>4. Ties \in Nat
  BY Bounds
<1> HIDE DEF w
\* The other lines of the same time are fewer than those searched for.
<1>5. ASSUME NEW X \in SUBSET (T \ {i}) PROVE Cardinality(X) < Ties
  <2> HIDE DEF T
  <2>1. Cardinality(T \ {i}) = Cardinality(T) - 1 /\ IsFiniteSet(T \ {i})
    BY <1>3, FS_RemoveElement, FS_Subset
  <2>2. Cardinality(X) <= Cardinality(T \ {i}) /\ Cardinality(X) \in Nat
    BY <2>1, FS_Subset, FS_CardinalityType
  <2> QED
    BY <1>3, <1>4, <2>1, <2>2
<1>6. CASE w = at[i]
  <2> DEFINE X == {j \in R : j < i}
  <2>1. i \in R
    BY <1>1, <1>6
  <2>2. X \in SUBSET (T \ {i})
    <3>1. \A j \in Log : j < i /\ at[j] >= at[i] => at[j] = at[i] /\ j # i
      <4> TAKE j \in Log
      <4>1. j < i => at[j] <= at[i]
        BY <1>1
      <4> QED
        BY <1>1, <4>1
    <3> QED
      BY <1>6, <3>1
  <2>3. Cardinality(X) < Ties /\ Cardinality(X) < Ties + 1
    <3>1. Cardinality(X) < Ties
      BY <1>5, <2>2
    <3>2. Cardinality(X) \in Nat
      <4>1. X \in SUBSET (1..Len(at))
        BY <1>1
      <4> HIDE DEF X
      <4> QED
        BY <1>1, <4>1, FiniteLogs
    <3> HIDE DEF X
    <3> QED
      BY <1>4, <3>1, <3>2
  <2>4. i \in FirstOf(R, Ties + 1)
    BY <2>1, <2>3 DEF FirstOf
  <2> QED
    BY <2>4 DEF get_context, ContextLines, w
<1>7. CASE w = at[i] + 1
  <2> DEFINE X == {j \in S : j > i}
  <2>1. i \in S
    BY <1>1, <1>7
  <2>2. X \in SUBSET (T \ {i})
    <3>1. \A j \in Log : j > i /\ at[j] < at[i] + 1 => at[j] = at[i] /\ j # i
      <4> TAKE j \in Log
      <4>1. j > i => at[i] <= at[j]
        BY <1>1
      <4> QED
        BY <1>1, <4>1
    <3> QED
      BY <1>7, <3>1
  <2>3. Cardinality(X) < Ties
    BY <1>5, <2>2
  <2>4. i \in LastOf(S, Ties)
    BY <2>1, <2>3 DEF LastOf
  <2> QED
    BY <2>4 DEF get_context, ContextLines, w
<1> QED
  BY <1>2, <1>6, <1>7

-----------------------------------------------------------------------------
(* The theorems                                                            *)

\* Whatever arrives while pages are asked for, reused or answered with an error, the
\* pages that are shown are one stretch of the log in its order, with no log twice and
\* none missing between two pages, unless it has the very time of one that is shown.
THEOREM FeedCorrect == Spec => []FeedInv
<1>1. Init => FeedIInv
  BY FeedBegins
<1>2. FeedIInv /\ [Next]_vars => FeedIInv'
  BY FeedStep
<1>3. FeedIInv => FeedInv
  BY FeedTypes, FeedOrder, FeedHasNoGap DEF FeedInv
<1> QED
  BY <1>1, <1>2, <1>3, PTL DEF Spec

\* As long as a log is older than those shown, the page at that end has a pointer to ask
\* for it, also when it was reused from an earlier fetch.
THEOREM OlderCorrect == Spec => []OlderReachable
<1>1. Init => FeedIInv
  BY FeedBegins
<1>2. FeedIInv /\ [Next]_vars => FeedIInv'
  BY FeedStep
<1> QED
  BY <1>1, <1>2, FeedKnowsOlder, PTL DEF Spec

\* The lines around a line contain it, although its time may be written later than it
\* is, when no more lines than are searched for have the same time.
THEOREM ContextCorrect == Spec => []ContextHasLine
<1>1. Init => FeedIInv
  BY FeedBegins
<1>2. FeedIInv /\ [Next]_vars => FeedIInv'
  BY FeedStep
<1> QED
  BY <1>1, <1>2, FeedContext, PTL DEF Spec

=============================================================================
