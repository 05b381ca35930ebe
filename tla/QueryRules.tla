----------------------------- MODULE QueryRules -----------------------------
(***************************************************************************)
(* The rules that the actions, pages and queries of the web application    *)
(* keep together, and on which it rests that a page shows what a form      *)
(* wrote.  No function of the code states them: they are facts about all   *)
(* of its loaders, components and actions.  TLC evaluates each of them for *)
(* every form, on every page that has it, and every query that it changes. *)
(***************************************************************************)
EXTENDS QueryCache

\* Every page with every form that it has, those of the frame included.
PageForms == UNION {{<<n, f>> : f \in Site[Here][n].forms \cup Frame.forms} : n \in Pages}

\* The pages of the objects that were there before the form was submitted.
OldPages == {Go(n, Here) : n \in Pages}

ASSUME StartsAndVisits == Starts \subseteq PageForms /\ Visits \subseteq Pages

ASSUME NotPages == ~IsPage(Stay) /\ ~IsPage(NotFound)

-----------------------------------------------------------------------------
\* What a form does to a query

Hit(f, q)     == Named(f.action.invalidates, q)
Removes(f, q) == Named(f.action.removes, q)
Seeded(f, q)  == q.key \in f.action.seeds
Creates(f, q) == q.path \cap f.action.creates # {}
Deletes(f, q) == q.path \cap f.action.deletes # {}

\* What a page does with a query

MayLoad(l, q)    == Ensures(l, q) \/ MayEnsure(l, q)
LoaderOnly(l, q) == Ensures(l, q) /\ ~Observes(l, q)

-----------------------------------------------------------------------------
\* The rules of a form f that is submitted at l

\* Neither the redirect nor the component leads to a page of what the form deletes, and
\* an action that stays deletes nothing that the page is about.  A refused form leads to
\* a page of what is there.
FormFits(l, f) ==
  /\ NotFound \notin {f.action.goes, f.action.rejected}
  /\ IsPage(f.action.goes) => ~Lost(f, f.action.goes)
  /\ f.then # Stay => IsPage(f.then) /\ ~Lost(f, f.then)
  /\ f.action.goes = Stay /\ f.then = Stay /\ f.name # "EnvironmentName" => ~Lost(f, l)
  /\ IsPage(f.action.rejected) => f.action.rejected \in OldPages

\* The rules of a query q that f changes

\* An action gives the cache the answer only of a query about what its request creates.
SeedFits(f, q) == Seeded(f, q) => Creates(f, q)

\* What a request creates has no page yet.
CreatedFits(f, q) ==
  Creates(f, q) => /\ ~Deletes(f, q)
                   /\ \A m \in OldPages : ~Observes(m, q) /\ ~MayLoad(m, q)

\* No page that a form leads to loads what the form deletes, and the other pages that
\* load it are pages of what is deleted.  An action that stays on one of them keeps the
\* data that its loader or its component got.
DeletedFits(l, f, q) ==
  Deletes(f, q) =>
    /\ ~MayLoad(f.action.goes, q) /\ ~MayLoad(f.then, q)
    /\ \A m \in OldPages : MayLoad(m, q) => Lost(f, m)
    /\ f.action.goes = Stay /\ MayLoad(l, q) => Uses(l, q) /\ ~Removes(f, q)

\* The pages that f leads to at once.
NextPages(l, f) == {IF f.action.goes = Stay THEN l ELSE f.action.goes, f.then}

\* Whether the cache cannot have old data once the action is done: the query is of
\* what was created, or it is removed and not made anew from what the loader returned,
\* or the action awaits its refetch.
Renewed(l, f, q) ==
  \/ Creates(f, q) \/ Seeded(f, q)
  \/ Removes(f, q) /\ ~(Observes(l, q) /\ Ensures(l, q))
  \/ Hit(f, q) /\ ~Removes(f, q) /\ Observes(l, q) /\ f.action.awaits

\* A query that the page shows is invalidated, or is not shown on the page that the form
\* leads to; and a loader is all that a page has of a query only where the data of the
\* cache is renewed.
ChangedFits(l, f, q) ==
  ~Deletes(f, q) /\ ~LeftStale(f, q) =>
    /\ Observes(l, q) /\ ~(Hit(f, q) /\ ~Removes(f, q)) =>
         f.action.goes # Stay /\ ~Observes(f.action.goes, q)
    /\ \/ Renewed(l, f, q)
       \/ f.action.goes # Stay /\ ~IsPage(f.action.goes)
       \/ /\ \A m \in NextPages(l, f) : ~LoaderOnly(m, q)
          /\ \A m \in OldPages : LoaderOnly(m, q) => Lost(f, m)

QueryFits(l, f, q) ==
  SeedFits(f, q) /\ CreatedFits(f, q) /\ DeletedFits(l, f, q) /\ ChangedFits(l, f, q)

ASSUME RulesKept ==
  \A start \in PageForms :
    LET l == Go(start[1], Here)
        f == start[2]
    IN  FormFits(l, f) /\ \A q \in Asked(l, f) : QueryFits(l, f, q)
=============================================================================
