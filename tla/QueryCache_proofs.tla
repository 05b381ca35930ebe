-------------------------- MODULE QueryCache_proofs --------------------------
(***************************************************************************)
(* Theorems about QueryCache, from the rules of QueryRules: whatever forms *)
(* are submitted and pages opened, the page that is left at rest exists    *)
(* and shows what the form wrote, and no old answer replaces a newer one.  *)
(***************************************************************************)
EXTENDS QueryRules, TLAPS

-----------------------------------------------------------------------------
\* The inductive invariant

\* Before its action returns and after it, when the user has not gone elsewhere.
Awaited == stage # "returned" /\ ~left
Settled == stage = "returned" /\ ~left

\* The rules that the form and the query keep, for a form submitted at l.
AskedAt(l) == l \in OldPages /\ FormFits(l, form) /\ QueryFits(l, form, query)

Followed == \E l \in OldPages : AskedAt(l)

\* What is known after the request was applied is not asked for again in a fetch that
\* was answered before it.
AnswersInOrder ==
  /\ Accepted => stage \notin {"idle", "sent", "refused"}
  /\ data = "after" \/ loaded = "after" => Accepted /\ fetch # "before"
  /\ fetch = "after" => Accepted
  /\ Creates(form, query) => fetch # "before"
  /\ fetch = "gone" => Creates(form, query) \/ (Accepted /\ Deletes(form, query))

\* While the user waits, the page of the form is shown and nobody else asks.  What the
\* page shows is there, but for a query that the action removed.
InPlace ==
  Awaited =>
    /\ ~loading /\ then = Stay /\ AskedAt(current)
    /\ ~Mounted => fetch = "none"
    /\ Creates(form, query) => data = "none" /\ fetch = "none"
    /\ loaded # "none" => Ensures(current, query)
    /\ Ensures(current, query) \/ (stage # "idle" /\ Mounted) =>
         data # "none" \/ (Removes(form, query) /\ stage \in {"refreshing", "refreshed"})

\* What the action did to the query before it returns: one that is invalidated and shown
\* has the new data or a fetch that brings it, one that is removed is not in the cache.
Refetched ==
  stage \in {"refreshing", "refreshed"} /\ ~left /\ Accepted /\ ~Deletes(form, query) =>
    /\ Hit(form, query) /\ ~Removes(form, query) /\ Mounted =>
         /\ data = "after" \/ fetch \in {"sent", "after"}
         /\ form.action.awaits /\ stage = "refreshed" => data = "after"
    /\ Removes(form, query) /\ ~(Mounted /\ Ensures(current, query)) =>
         data = "none" /\ fetch = "none"

\* The locations that the router will show without the user.
Coming == (IF loading THEN {target} ELSE {}) \cup {then}

\* The cache has no data from before the request, and nothing brings it back.
NoOld ==
  /\ data # "before" /\ fetch \notin {"before", "gone"}
  /\ Mounted /\ data = "none" => loaded # "before"

\* A page that only a loader gets the query for may be shown next.
LoaderAhead ==
  \/ \E l \in Coming : LoaderOnly(l, query)
  \/ \E l \in OldPages : LoaderOnly(l, query) /\ ~Lost(form, l)

\* After the action, a component has the new data, or a fetch that brings it, or makes
\* place for a page without it; where a loader may be asked instead, which takes the data
\* that it finds, the cache has no old data.
Fresh ==
  Settled /\ Accepted /\ ~Deletes(form, query) /\ ~LeftStale(form, query)
      /\ (IsPage(current) \/ loading) =>
    /\ Mounted => \/ data = "after" \/ fetch \in {"sent", "after"}
                  \/ loading /\ ~Observes(target, query) /\ then = Stay
    /\ ~Mounted => fetch \notin {"before", "gone"}
    /\ LoaderAhead => NoOld
    /\ ~loading /\ LoaderOnly(current, query) => loaded = "after"

\* After the action, no loader can meet a 404: what is coming is a page; when it loads
\* what the form deletes, the cache has its data; and nobody asks for what a refused form
\* would have created.
Found ==
  Settled =>
    /\ current # NotFound
    /\ loading => IsPage(target)
    /\ then # Stay => loading /\ IsPage(then)
    /\ Accepted /\ Deletes(form, query) => \A l \in Coming : MayLoad(l, query) => data # "none"
    /\ Accepted /\ Creates(form, query) => fetch # "gone"
    /\ ~Accepted => then = Stay
    /\ ~Accepted /\ Creates(form, query) =>
         /\ fetch = "none"
         /\ \A l \in Coming \cup {current} : ~Observes(l, query) /\ ~MayLoad(l, query)

\* The page that comes last is not one of what the form deleted.
Placed ==
  Settled /\ Accepted /\ form.name # "EnvironmentName" =>
    /\ ~loading /\ IsPage(current) => ~Lost(form, current)
    /\ loading /\ then = Stay => ~Lost(form, target)
    /\ then # Stay => ~Lost(form, then)

CacheIInv ==
  TypeOK /\ Followed /\ AnswersInOrder /\ InPlace /\ Refetched /\ Fresh /\ Found /\ Placed

-----------------------------------------------------------------------------
\* Each step keeps the invariant

\* The names of states and tuples of variables are expanded everywhere.
USE DEF Mounted, Accepted, Awaited, Settled, scenario, view, cache

\* What was there before the form has a page of each kind.
LEMMA OldPagesArePages == \A l \in OldPages : IsPage(l)
BY DEF OldPages, IsPage, Go

\* The rules are those of the form and the query, which no step changes.
LEMMA FollowedKept == ASSUME Followed, UNCHANGED scenario PROVE Followed'
BY DEF Followed, AskedAt

\* Every page and form to start from keeps the rules, so the initial states do.
LEMMA CacheInit == Init => CacheIInv
<1> SUFFICES ASSUME Init PROVE CacheIInv
  OBVIOUS
<1>1. PICK start \in Starts : current = Go(start[1], Here) /\ form = start[2]
  BY DEF Init
<1>2. start \in PageForms /\ start[1] \in Pages
  BY StartsAndVisits DEF PageForms
<1>3. AskedAt(current)
  BY <1>1, <1>2, RulesKept DEF AskedAt, OldPages, Init
<1>4. ~Accepted /\ ~loading /\ then = Stay /\ ~left /\ stage = "idle"
  BY DEF Init
<1>5. TypeOK
  BY DEF Init, TypeOK, Values
<1>6. AnswersInOrder
  BY <1>4 DEF Init, AnswersInOrder
<1>7. InPlace
  BY <1>3 DEF Init, InPlace, AskedAt, QueryFits, CreatedFits, Creates, MayLoad, Act
<1> QED
  BY <1>3, <1>4, <1>5, <1>6, <1>7
     DEF CacheIInv, Followed, AskedAt, Refetched, Fresh, Found, Placed

\* The form is sent from a page that has what it shows.
LEMMA SubmitKeeps == ASSUME CacheIInv, Submit PROVE CacheIInv'
<1> USE DEF CacheIInv
<1>1. TypeOK'
  BY DEF Submit, TypeOK
<1>2. AnswersInOrder'
  BY DEF Submit, AnswersInOrder
<1>3. InPlace'
  BY DEF Submit, InPlace, AskedAt
<1>4. (Refetched /\ Fresh /\ Found /\ Placed)'
  BY DEF Submit, Refetched, Fresh, Found, Placed
<1> QED
  BY <1>1, <1>2, <1>3, <1>4, FollowedKept DEF Submit

\* The server applies the form; what is known so far is older.
LEMMA ApplyKeeps == ASSUME CacheIInv, Apply PROVE CacheIInv'
<1> USE DEF CacheIInv
<1>1. TypeOK'
  BY DEF Apply, TypeOK
<1>2. AnswersInOrder'
  BY DEF Apply, AnswersInOrder
<1>3. InPlace'
  BY DEF Apply, InPlace, AskedAt
<1>4. (Refetched /\ Fresh /\ Found /\ Placed)'
  BY DEF Apply, Refetched, Fresh, Found, Placed
<1> QED
  BY <1>1, <1>2, <1>3, <1>4, FollowedKept DEF Apply

\* A refused form leaves the data as it was.
LEMMA RefuseKeeps == ASSUME CacheIInv, Refuse PROVE CacheIInv'
<1> USE DEF CacheIInv
<1>1. TypeOK'
  BY DEF Refuse, TypeOK
<1>2. AnswersInOrder'
  BY DEF Refuse, AnswersInOrder
<1>3. InPlace'
  BY DEF Refuse, InPlace, AskedAt
<1>4. (Refetched /\ Fresh /\ Found /\ Placed)'
  BY DEF Refuse, Refetched, Fresh, Found, Placed
<1> QED
  BY <1>1, <1>2, <1>3, <1>4, FollowedKept DEF Refuse

\* An invalidated query that the page shows has data, so that asking again cancels the
\* fetch in flight: the one that is sent now is answered after the request was applied.
LEMMA RefreshKeeps == ASSUME CacheIInv, Refresh PROVE CacheIInv'
<1> USE DEF CacheIInv
<1>1. TypeOK'
  BY DEF Refresh, TypeOK, Values, AskAgain, Ask
<1>2. AnswersInOrder'
  BY DEF Refresh, AnswersInOrder, AskAgain, Ask
<1>3. InPlace'
  BY DEF Refresh, InPlace, AskedAt, Removes, Act
<1>4. Refetched'
  BY DEF Refresh, Refetched, InPlace, AskAgain, Hit, Removes, Act
<1>5. (Fresh /\ Found /\ Placed)'
  BY DEF Refresh, Fresh, Found, Placed
<1> QED
  BY <1>1, <1>2, <1>3, <1>4, <1>5, FollowedKept DEF Refresh

\* The action returns while the user waits.  There are four cases: it was accepted and the
\* user stays, goes to a page or goes elsewhere, or it was refused.
LEMMA AwaitedReturn ==
    ASSUME CacheIInv, Return, ~left
    PROVE  (Fresh /\ Found /\ Placed)'
<1> USE DEF CacheIInv
<1>1. UNCHANGED <<form, query, loaded, fetch, server, left>> /\ stage' = "returned"
  BY DEF Return
<1>2. AskedAt(current) /\ then = Stay /\ ~loading
  BY DEF Return, InPlace
<1>3. IsPage(current) /\ current # NotFound /\ current \in OldPages
  BY <1>2, OldPagesArePages, NotPages DEF AskedAt
<1>4. data' = data \/ (data' = "after" /\ Seeded(form, query) /\ Accepted)
  BY DEF Return, Seeded, Act
<1>5. Accepted => stage = "refreshed"
  BY DEF Return, AnswersInOrder
<1>6. ASSUME Accepted, Act.goes = Stay
      PROVE  (Fresh /\ Found /\ Placed)'
  <2>1. current' = current /\ target' = current /\ loading' /\ then' = form.then
    BY <1>2, <1>6 DEF Return, Redirect, Act
  <2>2. Coming' = NextPages(current, form)
    BY <1>6, <2>1 DEF Coming, NextPages, Act
  <2>3. Fresh'
    BY <1>1, <1>4, <1>5, <1>6, <2>1, <2>2
       DEF Fresh, InPlace, AskedAt, QueryFits, SeedFits, ChangedFits, Refetched, NoOld,
           LoaderAhead, Renewed, AnswersInOrder, Act
  <2>4. Found'
    BY <1>1, <1>3, <1>4, <1>5, <1>6, <2>1, <2>2
       DEF Found, InPlace, AskedAt, FormFits, QueryFits, DeletedFits, NextPages, Uses
  <2>5. Placed'
    BY <1>1, <1>2, <1>6, <2>1 DEF Placed, AskedAt, FormFits, Act
  <2> QED
    BY <2>3, <2>4, <2>5
<1>7. ASSUME Accepted, Act.goes # Stay, IsPage(Act.goes)
      PROVE  (Fresh /\ Found /\ Placed)'
  <2>1. current' = current /\ target' = Act.goes /\ loading' /\ then' = Stay
    BY <1>7 DEF Return, Redirect, Act
  <2>2. Coming' = {Act.goes, Stay}
    BY <2>1 DEF Coming
  <2>3. Fresh'
    BY <1>1, <1>4, <1>5, <1>7, <2>1, <2>2, NotPages
       DEF Fresh, InPlace, AskedAt, QueryFits, SeedFits, CreatedFits, ChangedFits, NextPages,
           Refetched, NoOld, LoaderAhead, LoaderOnly, Renewed, AnswersInOrder, Act, Ensures,
           Has
  <2>4. Found'
    BY <1>1, <1>2, <1>3, <1>7, <2>1, <2>2, NotPages
       DEF Found, InPlace, AskedAt, QueryFits, DeletedFits, MayLoad, Ensures, MayEnsure, Has,
           Act
  <2>5. Placed'
    BY <1>1, <1>2, <1>7, <2>1 DEF Placed, AskedAt, FormFits, Act
  <2> QED
    BY <2>3, <2>4, <2>5
<1>8. ASSUME Accepted, Act.goes # Stay, ~IsPage(Act.goes)
      PROVE  (Fresh /\ Found /\ Placed)'
  <2>1. current' = Act.goes /\ ~loading' /\ then' = Stay
    BY <1>8 DEF Return, Redirect, Act
  <2>2. Fresh' /\ Placed'
    BY <1>8, <2>1 DEF Fresh, Placed
  <2>3. Found'
    BY <1>1, <1>2, <1>8, <2>1, NotPages
       DEF Found, Coming, InPlace, AskedAt, FormFits, MayLoad, Ensures, MayEnsure, Has, Act
  <2> QED
    BY <2>2, <2>3
<1>9. ASSUME ~Accepted
      PROVE  (Fresh /\ Found /\ Placed)'
  <2>1. /\ then' = Stay
        /\ current' \in {current, Act.rejected} /\ (loading' => target' \in OldPages)
    BY <1>2, <1>9 DEF Return, Redirect, AskedAt, FormFits, Act
  <2>2. current' \in OldPages \/ ~IsPage(current')
    BY <1>3, <1>9 DEF Return, Redirect, Act
  <2>3. Found'
    BY <1>1, <1>2, <1>9, <2>1, NotPages, OldPagesArePages
       DEF Found, Coming, InPlace, AskedAt, FormFits, QueryFits, CreatedFits, MayLoad,
           Ensures, MayEnsure, Observes, Has, Act
  <2> QED
    BY <1>1, <1>9, <2>3 DEF Fresh, Placed
<1> QED
  BY <1>6, <1>7, <1>8, <1>9

\* When the user has left, nothing is claimed of the pages any more.
LEMMA ReturnKeeps == ASSUME CacheIInv, Return PROVE CacheIInv'
<1> USE DEF CacheIInv
<1>1. TypeOK'
  BY DEF Return, TypeOK, Values
<1>2. AnswersInOrder'
  BY DEF Return, AnswersInOrder, Followed, AskedAt, QueryFits, SeedFits, Seeded, Act
<1>3. (InPlace /\ Refetched)'
  BY DEF Return, InPlace, Refetched
<1>4. left => (Fresh /\ Found /\ Placed)'
  BY DEF Return, Fresh, Found, Placed
<1> QED
  BY <1>1, <1>2, <1>3, <1>4, AwaitedReturn, FollowedKept DEF Return

\* A loader asks for a query that is not in the cache.
LEMMA LoaderAsksKeeps == ASSUME CacheIInv, LoaderAsks PROVE CacheIInv'
<1> USE DEF CacheIInv
<1>1. TypeOK'
  BY DEF LoaderAsks, TypeOK
<1>2. AnswersInOrder'
  BY DEF LoaderAsks, AnswersInOrder
<1>3. (InPlace /\ Refetched)'
  BY DEF LoaderAsks, InPlace, Refetched, TypeOK
<1>4. Fresh'
  BY DEF LoaderAsks, Fresh, LoaderAhead, Coming, NoOld
<1>5. Found'
  BY DEF LoaderAsks, Found, Coming, MayLoad
<1>6. Placed'
  BY DEF LoaderAsks, Placed
<1> QED
  BY <1>1, <1>2, <1>3, <1>4, <1>5, <1>6, FollowedKept DEF LoaderAsks

\* The page that is shown was coming, so a loader that it only has found no old data.
LEMMA ShowKeeps == ASSUME CacheIInv, Show PROVE CacheIInv'
<1> USE DEF CacheIInv
<1>1. /\ UNCHANGED <<form, query, data, server, left, stage>>
      /\ loading /\ current' = target /\ then' = Stay /\ (loading' <=> then # Stay)
  BY DEF Show
<1>2. fetch' \in {fetch, "none", "sent"}
  BY DEF Show, Ask
<1>3. TypeOK'
  BY <1>2 DEF Show, TypeOK, Values
<1>4. AnswersInOrder'
  BY <1>1, <1>2 DEF Show, AnswersInOrder
<1>5. (InPlace /\ Refetched)'
  BY <1>1 DEF InPlace, Refetched, TypeOK
<1>6. Coming = {target, then} /\ Coming' \subseteq {then, Stay}
  BY <1>1 DEF Show, Coming
<1>7. Found'
  BY <1>2, <1>6, NotPages DEF Found, MayLoad, Ensures, MayEnsure, Has, Show
<1>8. Fresh'
  <2>1. LoaderAhead' => LoaderAhead
    BY <1>1, <1>6, NotPages DEF LoaderAhead, LoaderOnly, Ensures, Has
  <2> QED
    BY <1>6, <2>1 DEF Fresh, LoaderAhead, LoaderOnly, NoOld, Show, Ask, TypeOK, Values
<1>9. Placed'
  BY <1>1 DEF Placed, Show
<1> QED
  BY <1>1, <1>3, <1>4, <1>5, <1>7, <1>8, <1>9, FollowedKept

\* The user opens pages that are not of what the form deleted; before the action has
\* returned, nothing is claimed any more.
LEMMA VisitKeeps == ASSUME CacheIInv, Visit PROVE CacheIInv'
<1> USE DEF CacheIInv
<1>1. PICK l \in OldPages : Uses(l, query) /\ ~Lost(form, l) /\ target' = l
  BY StartsAndVisits DEF Visit, OldPages
<1>2. IsPage(l)
  BY OldPagesArePages
<1>3. TypeOK'
  BY DEF Visit, TypeOK
<1>4. AnswersInOrder'
  BY DEF Visit, AnswersInOrder
<1>5. (InPlace /\ Refetched)'
  BY DEF Visit, InPlace, Refetched, TypeOK
<1>6. Fresh'
  BY <1>1 DEF Visit, Fresh, LoaderAhead, Coming, NoOld
<1>7. Found'
  BY <1>1, <1>2
     DEF Visit, Found, Coming, Followed, AskedAt, QueryFits, CreatedFits, DeletedFits
<1>8. Placed'
  BY <1>1 DEF Visit, Placed, Found
<1> QED
  BY <1>3, <1>4, <1>5, <1>6, <1>7, <1>8, FollowedKept DEF Visit

\* A poll asks for what is shown, and its answer is as new as the data.
LEMMA PollKeeps == ASSUME CacheIInv, Poll PROVE CacheIInv'
<1> USE DEF CacheIInv
<1>1. TypeOK'
  BY DEF Poll, TypeOK
<1>2. AnswersInOrder'
  BY DEF Poll, AnswersInOrder
<1>3. InPlace'
  BY DEF Poll, InPlace, AskedAt
<1>4. Refetched'
  BY DEF Poll, Refetched
<1>5. Fresh'
  BY DEF Poll, Fresh, LoaderAhead, Coming, NoOld
<1>6. Found'
  BY DEF Poll, Found, Coming
<1>7. Placed'
  BY DEF Poll, Placed
<1> QED
  BY <1>1, <1>2, <1>3, <1>4, <1>5, <1>6, <1>7, FollowedKept DEF Poll

\* The server answers with the data that it has: "gone" only for what is not there yet or
\* no longer.
LEMMA ServerAnswersKeeps == ASSUME CacheIInv, ServerAnswers PROVE CacheIInv'
<1> USE DEF CacheIInv
<1>1. TypeOK'
  BY DEF ServerAnswers, Answer, TypeOK
<1>2. AnswersInOrder'
  BY DEF ServerAnswers, Answer, AnswersInOrder, Creates, Deletes, Act, TypeOK
<1>3. InPlace'
  BY DEF ServerAnswers, InPlace, AskedAt
<1>4. Refetched'
  BY DEF ServerAnswers, Answer, Refetched, Deletes, Act
<1>5. Fresh'
  BY DEF ServerAnswers, Answer, Fresh, LoaderAhead, Coming, NoOld, Deletes, Act
<1>6. Found'
  BY DEF ServerAnswers, Answer, Found, Coming, Followed, AskedAt, QueryFits, CreatedFits,
     Deletes, Act
<1>7. Placed'
  BY DEF ServerAnswers, Placed
<1> QED
  BY <1>1, <1>2, <1>3, <1>4, <1>5, <1>6, <1>7, FollowedKept DEF ServerAnswers

\* The answer becomes the data.
LEMMA DeliverKeeps == ASSUME CacheIInv, Deliver PROVE CacheIInv'
<1> USE DEF CacheIInv
<1>1. TypeOK'
  BY DEF Deliver, Refreshed, TypeOK, Values
<1>2. AnswersInOrder'
  BY DEF Deliver, Refreshed, AnswersInOrder
<1>3. InPlace'
  BY DEF Deliver, Refreshed, InPlace, AskedAt
<1>4. Refetched'
  BY DEF Deliver, Refreshed, Refetched, AnswersInOrder
<1>5. Fresh'
  BY DEF Deliver, Refreshed, Fresh, LoaderAhead, Coming, NoOld, AnswersInOrder
<1>6. Found'
  BY DEF Deliver, Refreshed, Found, Coming
<1>7. Placed'
  BY DEF Deliver, Refreshed, Placed
<1> QED
  BY <1>1, <1>2, <1>3, <1>4, <1>5, <1>6, <1>7, FollowedKept DEF Deliver

\* A 404 leaves the data as it is; no loader without data meets one while the user stays.
LEMMA DeliverGoneKeeps == ASSUME CacheIInv, DeliverGone PROVE CacheIInv'
<1> USE DEF CacheIInv
<1>1. TypeOK'
  BY DEF DeliverGone, Refreshed, TypeOK
<1>2. AnswersInOrder'
  BY DEF DeliverGone, Refreshed, AnswersInOrder
<1>3. InPlace'
  BY DEF DeliverGone, Refreshed, InPlace, AskedAt
<1>4. Refetched'
  BY DEF DeliverGone, Refreshed, Refetched, InPlace, AnswersInOrder
<1>5. Fresh'
  BY NotPages DEF DeliverGone, Refreshed, Fresh, LoaderAhead, Coming, NoOld
<1>6. Found'
  BY DEF DeliverGone, Refreshed, Found, AnswersInOrder, Coming, MayLoad
<1>7. Placed'
  BY NotPages DEF DeliverGone, Refreshed, Placed
<1> QED
  BY <1>1, <1>2, <1>3, <1>4, <1>5, <1>6, <1>7, FollowedKept DEF DeliverGone

\* A query that was removed is made anew from what the loader returned.
LEMMA RerenderKeeps == ASSUME CacheIInv, Rerender PROVE CacheIInv'
<1> USE DEF CacheIInv
<1>1. TypeOK'
  BY DEF Rerender, TypeOK
<1>2. AnswersInOrder'
  BY DEF Rerender, AnswersInOrder
<1>3. InPlace'
  BY DEF Rerender, InPlace, AskedAt, QueryFits, CreatedFits
<1>4. Refetched'
  BY DEF Rerender, Refetched, InPlace
<1>5. Fresh'
  BY DEF Rerender, Fresh, LoaderAhead, Coming, NoOld
<1>6. Found'
  BY DEF Rerender, Found, Coming
<1>7. Placed'
  BY DEF Rerender, Placed
<1> QED
  BY <1>1, <1>2, <1>3, <1>4, <1>5, <1>6, <1>7, FollowedKept DEF Rerender

\* Every step of the user, the router, the query client and the server keeps it.
LEMMA CacheStep == ASSUME CacheIInv, [Next]_vars PROVE CacheIInv'
<1>1. CASE UNCHANGED vars
  BY <1>1
     DEF vars, CacheIInv, TypeOK, Followed, AnswersInOrder, InPlace, Refetched, Fresh, Found,
         Placed, AskedAt, Coming, LoaderAhead, NoOld
<1> QED
  BY <1>1, SubmitKeeps, ApplyKeeps, RefuseKeeps, RefreshKeeps, ReturnKeeps, LoaderAsksKeeps,
     ShowKeeps, VisitKeeps, PollKeeps, ServerAnswersKeeps, DeliverKeeps, DeliverGoneKeeps,
     RerenderKeeps
     DEF Next

\* The invariant holds from every page and form.
THEOREM CacheCorrect == Spec => []CacheIInv
BY CacheInit, CacheStep, PTL DEF Spec

-----------------------------------------------------------------------------
\* What follows

\* Once the action of an accepted form has returned and the page is at rest, every query
\* that the page uses shows what the form wrote, whatever polls, refetches, loaders and
\* late answers came between, but for the forms in LeftStale and a user who left before.
THEOREM WritesShownCorrect == Spec => []WritesShown
<1>1. CacheIInv => WritesShown
  BY DEF CacheIInv, Fresh, WritesShown, AtRest, Value, Uses, LoaderOnly, Deletes, Ensures,
     Observes, Has, Act
<1> QED
  BY <1>1, CacheCorrect, PTL

\* The user who waits for the action is never left on the error page of a loader, nor on
\* the page of an object that the form deleted or renamed.
THEOREM PageCorrect == Spec => []PageInv
<1>1. CacheIInv => NoNotFound
  BY OldPagesArePages, NotPages DEF CacheIInv, InPlace, AskedAt, Found, NoNotFound
<1>2. CacheIInv => PageExists
  BY DEF CacheIInv, Placed, PageExists, AtRest
<1>3. CacheIInv => PageInv
  BY <1>1, <1>2 DEF CacheIInv, PageInv
<1> QED
  BY <1>3, CacheCorrect, PTL

\* Only an answer, an action or a component changes the data: the answer in flight is not
\* older, and a component has no data when it takes that of the loader.
LEMMA DataStep ==
    ASSUME CacheIInv, [Next]_vars, data = "after"
    PROVE  data' # "before"
<1>1. CASE UNCHANGED vars
  BY <1>1 DEF vars
<1>2. CASE Submit \/ Apply \/ Refuse \/ Refresh \/ Return
  BY <1>2 DEF Submit, Apply, Refuse, Refresh, Return
<1>3. CASE LoaderAsks \/ Show \/ Visit
  BY <1>3 DEF LoaderAsks, Show, Visit
<1>4. CASE Poll \/ ServerAnswers \/ Deliver \/ DeliverGone \/ Rerender
  BY <1>4 DEF Poll, ServerAnswers, Deliver, DeliverGone, Rerender, CacheIInv, AnswersInOrder
<1> QED
  BY <1>1, <1>2, <1>3, <1>4 DEF Next

\* An answer that the server gave before it applied the form never replaces one that it
\* gave after, whatever polls, loaders, refetches and navigations overlap.
THEOREM NoOldAnswerCorrect == Spec => NoOldAnswer
<1>1. CacheIInv /\ [Next]_vars => [data = "after" => data' # "before"]_vars
  BY DataStep
<1> QED
  BY <1>1, CacheCorrect, PTL DEF Spec, NoOldAnswer
=============================================================================
