----------------------------- MODULE QueryCache -----------------------------
(***************************************************************************)
(* The web application's cache of the server's data, from the submission   *)
(* of a form to the page that shows what it changed.                       *)
(*                                                                         *)
(* The cache is the query client of root.tsx with its options: data stays  *)
(* for three days and is always stale, so a component that mounts asks the *)
(* server again; the focus of the window asks nothing; an error answer is  *)
(* not retried.  The router runs the loaders of a page before showing it,  *)
(* and the loaders of the page shown again after each action.  What the    *)
(* query client and the router do is modelled from their use here.         *)
(*                                                                         *)
(* A behaviour has one user on one page, who submits one form of it and    *)
(* may leave before the action is done, and one query: queries do not      *)
(* depend on each other, so each is followed alone, with every page, form  *)
(* and query chosen by the initial state.  The server's data for the query *)
(* is "before" or "after" the request of the form is applied.              *)
(***************************************************************************)
EXTENDS AppPages

CONSTANTS
  Starts,  \* the pages and forms to start from, as <<page, form>>
  Visits   \* the pages that the user may open afterwards

VARIABLES
  form,     \* the form that is submitted
  query,    \* the query that is followed
  current,     \* the location that is shown
  loading,  \* whether the loaders of the target run
  target,
  then,     \* where a component goes after that, or Stay
  left,     \* whether the user went elsewhere while the action ran
  loaded,   \* the data that the loader of the page returned
  data,     \* the data in the cache
  invalid,  \* whether it is marked as invalid
  fetch,    \* a fetch of the query: sent, answered with data, or "gone" (404)
  stage,   \* where the action of the form is
  server    \* the data that the server has

scenario == <<form, query>>
view     == <<current, loading, target, then, left, loaded>>
cache    == <<data, invalid, fetch>>
vars     == <<scenario, view, cache, stage, server>>

Values == {"none", "before", "after"}

\* The slugs of the pages that a behaviour may reach.
NewProject     == [Here EXCEPT !.p = "new"]
NewEnvironment == [Here EXCEPT !.e = "new"]
NewService     == [Here EXCEPT !.s = "new"]
NewStack       == [Here EXCEPT !.k = "new"]
Production     == [Here EXCEPT !.e = "production"]
FirstEnvironment == [NewProject EXCEPT !.e = "production"]

Slugs == {Here, NewProject, NewEnvironment, NewService, NewStack, Production, FirstEnvironment}

\* What each page has; joining the empty function makes it one that TLC evaluates once.
Site == [at \in Slugs |-> routes(at)] @@ <<>>

Act == form.action

IsPage(location) == location.page \in Pages

NotFound == [page |-> "not-found", at |-> Here]

\* What the page of a location has, in the frame around every page.
Has(location, q, part) ==
  IsPage(location) /\ (q \in Frame[part] \/ q \in Site[location.at][location.page][part])

Observes(location, q)  == Has(location, q, "mounts")
Ensures(location, q)   == Has(location, q, "loads")
MayEnsure(location, q) == Has(location, q, "first")
Uses(location, q) == Observes(location, q) \/ Ensures(location, q)

Mounted == Observes(current, query)

Queries == Frame.loads \cup Frame.mounts \cup
           UNION {Site[at][name].loads \cup Site[at][name].mounts : at \in Slugs, name \in Pages}

Changes(act, q) ==
  \/ q.reads \cap act.writes # {}
  \/ q.path \cap (act.creates \cup act.deletes) # {}

Named(selectors, q) == \E sel \in selectors : Matches(sel, q)

\* The queries that a form changes and a page of the behaviour uses, when the form f is
\* submitted at l.
Asked(l, f) ==
  {q \in Queries : Changes(f.action, q) /\ \E m \in {l, f.action.goes, f.then} : Uses(m, q)}

Accepted == server = "after"

\* What the server answers to the query.
Answer ==
  IF \/ ~Accepted /\ query.path \cap Act.creates # {}
     \/ Accepted /\ query.path \cap Act.deletes # {}
  THEN "gone"
  ELSE server

\* Asking joins the fetch in flight; asking again cancels it, unless it is the
\* first one of the query.
Ask == IF fetch = "none" THEN "sent" ELSE fetch
\* Faulty variant: joins every fetch in flight.
AskAgainJoins == Ask
AskAgain == IF data = "none" THEN Ask ELSE "sent"

-----------------------------------------------------------------------------
TypeOK ==
  /\ data \in Values /\ loaded \in Values /\ invalid \in BOOLEAN
  /\ fetch \in {"none", "sent", "before", "after", "gone"}
  /\ stage \in {"idle", "sent", "applied", "refused", "refreshing", "refreshed", "returned"}
  /\ server \in {"before", "after"}
  /\ loading \in BOOLEAN

\* The page is shown and at rest; the data of a query that no component observes
\* may be in the cache since an earlier page.
Init ==
  /\ \E start \in Starts : current = Go(start[1], Here) /\ form = start[2]
  /\ loading = FALSE /\ target = current /\ then = Stay /\ left = FALSE
  /\ query \in Asked(current, form)
  /\ server = "before" /\ stage = "idle" /\ invalid = FALSE
  /\ data \in IF query.path \cap Act.creates # {} THEN {"none"}
              ELSE IF Ensures(current, query) THEN {"before"} ELSE {"none", "before"}
  /\ loaded = IF Ensures(current, query) THEN "before" ELSE "none"
  /\ fetch \in IF ~Mounted THEN {"none"}
               ELSE IF data = "none" THEN {"sent"} ELSE {"none", "sent"}

-----------------------------------------------------------------------------
\* The action of the form

\* A form is submitted on a page that has what it shows.
Submit ==
  /\ stage = "idle" /\ ~loading
  /\ Mounted => data # "none"
  /\ stage' = "sent"
  /\ fetch' = IF Named(Act.cancels, query) THEN "none" ELSE fetch
  /\ UNCHANGED <<scenario, view, data, invalid, server>>

Apply ==
  /\ stage = "sent"
  /\ stage' = "applied" /\ server' = "after"
  /\ UNCHANGED <<scenario, view, cache>>

Refuse ==
  /\ stage = "sent"
  /\ stage' = "refused"
  /\ UNCHANGED <<scenario, view, cache, server>>

\* The answer arrives: queries are removed, or invalidated, which asks again for
\* those that are observed.
Refresh ==
  LET act == Act
      removed == Named(act.removes, query)
      hit == Named(act.invalidates, query)
  IN  /\ stage = "applied" \/ (stage = "refused" /\ act.always)
      /\ data' = IF removed THEN "none" ELSE data
      /\ invalid' = (hit \/ (invalid /\ ~removed))
      /\ fetch' = IF removed THEN "none" ELSE IF hit /\ Mounted THEN AskAgain ELSE fetch
      /\ stage' = IF hit /\ Mounted /\ act.awaits THEN "refreshing" ELSE "refreshed"
      /\ UNCHANGED <<scenario, view, server>>

\* Where the action redirects.  When the user has left, the newer navigation wins over
\* the redirect and the component is gone.
\* Faulty variant: only where the request was refused.
RedirectRefused == IF left \/ Accepted THEN Stay ELSE Act.rejected
Redirect == IF left THEN Stay ELSE IF Accepted THEN Act.goes ELSE Act.rejected

\* The action returns: the router goes where it says, or runs the loaders of the
\* page again; the component then sees its result.
Return ==
  /\ stage = "refreshed" \/ (stage = "refused" /\ ~Act.always)
  /\ stage' = "returned"
  /\ IF Accepted /\ query.key \in Act.seeds
     THEN data' = "after" /\ invalid' = FALSE
     ELSE UNCHANGED <<data, invalid>>
  /\ target' = IF Redirect # Stay THEN Redirect ELSE IF loading THEN target ELSE current
  /\ loading' = (Redirect = Stay \/ IsPage(Redirect))
  /\ current' = IF loading' THEN current ELSE Redirect
  /\ then' = IF Accepted /\ Redirect = Stay /\ ~left THEN form.then ELSE Stay
  /\ UNCHANGED <<scenario, left, loaded, fetch, server>>

-----------------------------------------------------------------------------
\* The router

LoaderAsks ==
  /\ loading /\ data = "none" /\ fetch = "none"
  /\ Ensures(target, query) \/ MayEnsure(target, query)
  /\ fetch' = "sent"
  /\ UNCHANGED <<scenario, view, data, invalid, stage, server>>

\* The loaders are done and the target is shown: a query that was observed and no
\* longer is has its fetch aborted, one that becomes observed is asked for.
Show ==
  /\ loading
  /\ Ensures(target, query) => data # "none"
  /\ current' = target
  /\ loaded' = IF Ensures(target, query) THEN data ELSE "none"
  /\ loading' = (then # Stay)
  /\ target' = IF then # Stay THEN then ELSE target
  /\ then' = Stay
  /\ fetch' \in CASE Observes(target, query) /\ ~Mounted -> {Ask}
                [] Observes(target, query) /\ Mounted /\ current # target -> {Ask, fetch}
                [] ~Observes(target, query) /\ Mounted -> {"none"}
                [] OTHER -> {fetch}
  /\ UNCHANGED <<scenario, left, data, invalid, stage, server>>

\* Whether a page is one of an object that the form f deletes or renames.
Lost(f, location) ==
  \E q \in Site[location.at][location.page].loads : q.path \cap f.action.deletes # {}

\* The user opens another page, whose objects exist.
Visit ==
  /\ stage # "idle" /\ ~loading /\ IsPage(current)
  /\ \E name \in Visits :
       LET l == Go(name, Here)
       IN  /\ Uses(l, query) /\ ~Lost(form, l)
           /\ target' = l
  /\ loading' = TRUE /\ left' = (left \/ stage # "returned")
  /\ UNCHANGED <<scenario, current, then, loaded, cache, stage, server>>

-----------------------------------------------------------------------------
\* The query client

\* Faulty variant: only refetches what an action invalidated.
PollInvalid ==
  /\ Mounted /\ query.polls /\ invalid /\ data # "none" /\ fetch = "none"
  /\ fetch' = "sent"
  /\ UNCHANGED <<scenario, view, data, invalid, stage, server>>

Poll ==
  /\ Mounted /\ query.polls /\ data # "none" /\ fetch = "none"
  /\ fetch' = "sent"
  /\ UNCHANGED <<scenario, view, data, invalid, stage, server>>

ServerAnswers ==
  /\ fetch = "sent"
  /\ fetch' = Answer
  /\ UNCHANGED <<scenario, view, data, invalid, stage, server>>

Refreshed == stage' = IF stage = "refreshing" THEN "refreshed" ELSE stage

Deliver ==
  /\ fetch \in {"before", "after"}
  /\ data' = fetch /\ invalid' = FALSE /\ fetch' = "none"
  /\ Refreshed
  /\ UNCHANGED <<scenario, view, server>>

\* A 404: the data is kept; a loader that had none throws notFound.
DeliverGone ==
  /\ fetch = "gone"
  /\ fetch' = "none"
  /\ IF loading /\ data = "none" /\ (Ensures(target, query) \/ MayEnsure(target, query))
     THEN /\ current' = NotFound /\ target' = NotFound /\ loading' = FALSE /\ then' = Stay
          /\ UNCHANGED <<left, loaded>>
     ELSE UNCHANGED view
  /\ Refreshed
  /\ UNCHANGED <<scenario, data, invalid, server>>

\* Faulty variant: gives the cache the data of the loader each time.
RerenderAlways ==
  /\ Mounted /\ loaded # "none"
  /\ data' = loaded /\ invalid' = FALSE
  /\ UNCHANGED <<scenario, view, fetch, stage, server>>

\* A component that is rendered again after its query was removed makes it anew
\* from its initial data.
Rerender ==
  /\ Mounted /\ data = "none" /\ loaded # "none"
  /\ data' = loaded /\ invalid' = FALSE
  /\ UNCHANGED <<scenario, view, fetch, stage, server>>

Next ==
  \/ Submit \/ Apply \/ Refuse \/ Refresh \/ Return
  \/ LoaderAsks \/ Show \/ Visit
  \/ Poll \/ ServerAnswers \/ Deliver \/ DeliverGone \/ Rerender

Fairness ==
  /\ WF_vars(Apply \/ Refuse) /\ WF_vars(Refresh) /\ WF_vars(Return)
  /\ WF_vars(LoaderAsks) /\ WF_vars(Show)
  /\ WF_vars(Poll) /\ WF_vars(ServerAnswers) /\ WF_vars(Deliver) /\ WF_vars(DeliverGone)

Spec == Init /\ [][Next]_vars /\ Fairness

-----------------------------------------------------------------------------
AtRest == stage = "returned" /\ ~loading /\ fetch = "none"

\* What the user reads: the data of the cache, or the answer of the loader.
Value == IF Mounted THEN data ELSE loaded

\* Forms whose action does not name some of the polled queries that it changes.
LeftToPolling == {"CardCancel", "DeploymentCancelForm", "DeleteCredentials", "StackCardRedeploy"}

\* Forms that change the names which the search box may be showing, and leave it.
LeaveSearch ==
  {"ArchiveStack", "CloneEnvironment", "CreateEnvironment", "EnvironmentName", "CreateForm",
   "ProjectSlug", "CreateDockerService", "CreatePublicGitService", "CreateGitAppService",
   "CreateStackFromContents", "CreateStackFromDokploy", "CreateStackFromTemplate"}

LeftStale(f, q) ==
  \/ f.name \in LeftToPolling /\ q.polls
  \/ f.name \in LeaveSearch /\ q = search("{f}")
  \/ f.name = "ProjectDescription" /\ q = projectSingle("p")

\* Once the action of an accepted form has returned and the page is at rest, every
\* query that the page uses shows what the form wrote, on the page of the form, the
\* page it leads to, and those opened next.  The exceptions are the forms above, and
\* a user who left before the action returned: a loader may then have taken the old
\* data, or the refetch joined a first fetch that the server had already answered.
WritesShown ==
  AtRest /\ Accepted /\ ~left /\ ~LeftStale(form, query)
    /\ Uses(current, query) /\ query.path \cap Act.deletes = {}
    => Value = "after"

\* An action that deletes or renames what the page shows never leaves the user on
\* the error page of a loader, unless the user went elsewhere.
NoNotFound == current # NotFound \/ left

\* The page at rest is not one of an object that the form deleted or renamed; only
\* the name of an environment leaves its settings on the old slug.
PageExists ==
  AtRest /\ Accepted /\ IsPage(current) /\ ~left /\ form.name # "EnvironmentName"
    => ~Lost(form, current)

\* The user is never left on the page of what is gone.
PageInv == TypeOK /\ NoNotFound /\ PageExists

\* An answer that the server gave before it applied the form never replaces one
\* that it gave after.
NoOldAnswer == [][data = "after" => data' # "before"]_vars

\* A polled query that the page shows ends up with what was written, whatever the
\* action did to the cache.
PolledShown ==
  Accepted /\ Mounted /\ query.polls /\ query.path \cap Act.deletes = {} /\ data # "none"
    ~> data = "after" \/ ~Mounted
=============================================================================
