# ZaneOps in TLA+

ZaneOps is a self-hosted platform that deploys services and compose stacks on
Docker Swarm. Its back end (`src/backend`) is a Django API, a set of Temporal
workflows and activities, and a Caddy proxy whose configuration the activities
edit. Its front end (`src/frontend/app`) is a single-page application: React
Router for the pages and actions, TanStack Query for the server's data. These
modules specify what a deployment may and may not do to what it replaces, and
what the application may and may not show while things change; they are checked
on small instances with TLC, and most safety properties are proved with TLAPS for
every instance.

Paths of the back end are relative to `src/backend`, those of the front end to
`src/frontend/app`.

## Inventory

### What is modelled: back end

**Docker service deployment** (`temporal/workflows/services.py`,
`temporal/activities/main_activities.py`). State: the `Deployment` rows of a
service (status, started and finished timestamps, production flag, blue/green
slot, sleep marker), the swarm services, volumes and configs, the proxy routes,
the monitor and metrics schedules, and the local variables of the one workflow
run that a service may have open. Operations: about thirty activities in order,
the cancellation at six points with the undoing of what was done, the handler of
`ActivityError`, the `finally` clause, `continue_as_new` with the next queued
deployment. Hard: every activity may be retried or fail for good, the run may
time out anywhere, and users, toggles and monitors touch the same rows and
services meanwhile. Correct when: production is unique and is handed over only to
a healthy copy, URLs stay served, each way a run ends leaves no service, route,
schedule or row behind, and the queue moves on.

**Deployment requests** (`zane_api/views/docker_services.py`,
`zane_api/views/deployments.py`, `zane_api/models/main.py`,
`temporal/client.py`). Views that queue, cancel and clean up deployments. They
change rows in a transaction and, in its `on_commit` callback, start the workflow
or signal it. Hard: the callback is a separate step that can be late or lost, a
start is swallowed when a run is open, a signal when none is. Correct when: a
queued deployment runs, a cancelled one does not.

**Start and stop of a service** (`ToggleServiceAPIView`,
`ToggleDockerServiceWorkflow`). A second workflow, under its own id, that scales
the production deployment down or back. Hard: nothing serialises it with the
deployment in progress. Correct when: a stopped service stays stopped, a running
one is not interrupted.

**Deployment monitor** (`temporal/schedules`). Refreshes the status of the
production deployment, guarded by a conditional save. Correct when: it never
resurrects a sleeping, removed or demoted row.

**Deploy semaphore** (`temporal/semaphore.py`,
`temporal/workflows/system.py`). A counter and a lock in the cache, both with a
time to live, bound the deployments that run together and keep the system
cleanup (which prunes volumes, images and networks) alone. Hard: reads and
writes of the cache are separate, the owner of the lock may die, the calls are
retried. Correct when: the limit holds, the cleanup is alone, slots come back.

**Compose stacks** (`temporal/workflows/compose.py`,
`temporal/activities/stack_activities.py`, `compose/views/stacks.py`). State:
the deployments of a stack, the one open run of its deploy workflow, the toggle
and the archive workflow, the lock that the three share, the services that
`docker stack deploy` leaves on the swarm, routes, schedules, temporary
directories. Hard: the CLI outlives the run that started it, a cancellation is a
signal that the run looks at between activities, the `finally` clause does
nothing once one is recorded, the lock is a cache key that expires. Correct when:
what was called off never reaches the swarm, the URLs of what is deployed are
served, an archived stack leaves nothing, the queue moves on.

**Proxy client** (`temporal/proxy.py`). The routes of all services, stacks and
registries are one list, rewritten as a whole on the condition of an etag, with
three attempts, while single routes are deleted on that condition or on none.
Correct when: no writer loses a route of another one, a request that succeeds has
done its own.

### What is modelled: front end

**Queries, actions and pages** (`lib/queries.ts`, the `clientAction`s and route
components of `routes/`, `root.tsx`, `routes.ts`). State: for each query the data
in the cache, whether it is invalid and the fetch in flight; the page, the loaders
that run, the action that is under way. Hard: an action must name each query that
its request changes; polls, loaders, refetches and navigations overlap; what the
page shows may be deleted or renamed by the action. Correct when: the page shows
what was written, never goes back to an older answer, never is that of an object
which is gone.

**Forms** (`routes/`, `components/`). Each has a panel that opens and closes,
inputs with or without a copy of the data, a fetcher, and effects that react to its
answer. Hard: the effects run on refetches too, errors are copied, a second user
writes. Correct when: a draft survives everything but its own acceptance, the form
shows what is saved otherwise, and creates once.

**Start and stop buttons** (`lib/toggle-state-store.tsx` and the forms that use
it). A press polls the server in the background and tells a toast. Correct when:
what the toast says is true, there is one at a time and it ends.

**Filters** (the headers of log pages and lists). Text, options and page live in
the URL; each component changes its own copy of it, after a debounce or at once.
Correct when: input, URL and list agree once nothing is under way.

**Logs** (`lib/queries.ts`, `search/loki_client.py`,
`zane_api/views/serializers/logs.py`). Infinite queries whose pages are refetched
while lines arrive. Correct when: what is shown is in order and without gaps,
older lines can be reached and new ones appear.

### Not modelled

| Part | Why |
|---|---|
| Git service deployments (`DeployGitServiceWorkflow`, `git_activities.py`) | clone and build are cancelled in the middle of an activity; the rest is the Docker workflow's |
| Change requests and snapshots (`zane_api/views/helpers.py`, models) | data transformations over many field types, each in one transaction |
| Archive of services, environments and projects | sequences of removals; that of a stack is modelled |
| The computation of a stack file (`compose/processor.py`) | text processing without state |
| Build registries, preview environments | only the route of a registry is modelled |
| Auto-update of ZaneOps | a sequence of Docker calls without state of its own |
| Users, workspaces, permissions, licensing | per-request database checks |
| Metrics, search, console, packaging, layout | input and output |

## Modules

| Module | Content |
|---|---|
| `ServiceDeployment` | shared state of one service, and the operators that read and write it, one per query, update or Docker call |
| `DeployRequests` | the views and `TemporalClient`; extends it |
| `DockerDeploy` | the deployment workflow, toggle, monitor, and the composition of all of them; extends it |
| `MCDockerDeploy` | its instances |
| `DockerDeploy_proofs` | theorems: types, the uniqueness of production |
| `DeployHandover_proofs` | theorems whatever fails: transient rows, the handover of production, stopped services; extends it |
| `DeployCalm_proofs` | theorems when nothing fails for good: URLs, aliases, leftovers, resources; extends it |
| `Semaphore` | what the semaphore promises, without lock or cache |
| `DeploySemaphore` | `AsyncSemaphore` call by call; implements `Semaphore` |
| `MCDeploySemaphore`, `DeploySemaphore_proofs` | its instances and theorems |
| `ComposeStackDeploy` | views, deploy, toggle and archive workflow of a stack |
| `CaddyProxy` | the list of routes and its concurrent writers |
| `MCStacks` | their instances; a behaviour is one of the stack or of the proxy |
| `Stacks_proofs` | theorems about both |
| `AppQueries` | each query factory of the application: key, objects of its URL, what it reads, whether it polls |
| `AppActions` | each action: what its request writes, creates and deletes, what it does to the cache, where it goes |
| `AppPages` | each page: the queries that it loads and mounts, the forms that it has; extends `AppActions`, which extends `AppQueries` |
| `QueryCache` | the query client and the router, for any form and query of `AppPages` |
| `QueryRules` | the rules that these tables keep together, evaluated by TLC and used by the theorems |
| `LogFeed` | an infinite query of logs, the stores that answer it, the page that shows it |
| `AppForms` | each form component |
| `FormPanel` | panel, field, fetcher and data of any form of `AppForms` |
| `ToggleToast` | start and stop buttons and their toasts |
| `FilterBar` | a bar of filters over the URL |
| `MCQueryCache`, `MCLogFeed`, `MCFlows` | their instances; `MCFlows` has one behaviour of `FormPanel`, `ToggleToast` or `FilterBar` |
| `QueryCache_proofs`, `LogFeed_proofs` | theorems about `QueryCache`, `LogFeed` |
| `Flows_proofs` | theorems about `ToggleToast`, `FilterBar` and `FormPanel` |

### How DockerDeploy corresponds to the code

* `run` is the open run: `run.pc` names its next activity, `run.cancels` is
  `self.cancellation_requested`, `run.prev` the previous production deployment as
  the run knows it, `run.madeVolumes` and `run.madeConfigs` what it would have to
  delete. `run.slot` is the slot in the payload the run was started with, which
  need not be the row's. A run that continues as a new one loses its signals.
* One action is one activity, with the branches of the workflow around it:
  `GetPreviousProduction`, `CreateVolumes`, ... `Release`. Two activities take
  several steps because the code does. The scale-down stops the
  service (`ScaleDownPrevious`), waits (`wait_down`), then saves (`PreviousIsDown`).
  `finish_and_save_deployment` makes three updates outside a transaction
  (`FinishDeployment`, `MakeProduction`, `RemoveSupersededRows`), and may
  die between them and start again (`FinishAgain`).
* `check_for_cancellation` precedes an activity at six points.
  `BeginCancellation` replaces the activity, with the completed step
  (`LastCompleted`) that decides what is undone.
* `Fail` is an activity that exhausted its attempts, or one that Docker refuses
  because a resource is in use. `AfterActivityError` says where the exception
  leads: the acquire and the release of the semaphore are outside the `try`, the
  handler's own failures skip to `finally`.
* `SwallowedFailure` is the `finally: return` of the removal of a service.
* `ExecutionTimeout` ends the run wherever it is, without `finally`.
* The views: `OpenDeploy` is the read of the production deployment that fixes the
  slot, `CommitDeploy` the commit, `SignalSuperseded` and `StartDeploy` the
  callback. `ReadForCancel` and `SaveCancel` are the cancel view in two steps,
  where the save writes every column it read.
* Numbers stand for deployments, in the order of `queued_at`. A configuration is
  what the workflow looks at: whether it excludes a second copy (ports or
  writable volumes), the volumes, configs and URLs it names.

Abstractions: RESTARTING is STARTING; the scale-back of a service and the
end of a scale-down are one step each; the URL of a deployment's own hash, the
networks, the image and the deletion of images are left out; toggles are one at
a time, as the workflow id makes them; a health check is any number of saves of
STARTING followed by either result, within its timeout.

### How DeploySemaphore corresponds to the code

Each call of `AsyncSemaphore` is a sequence of cache accesses: `TakeLock`
(`cache.add`), `ReadCount`, `WriteCount`, `Unlock` (`cache.delete`). `GiveUp` is
`release` finding the lock taken, or an activity's timeouts ending one of the
others. `Crash` ends an attempt between two accesses and retries it from its
start, with the lock left to expire (`LockExpires`). `CountExpires` is the
counter's time to live; `MaxStalls` and `MaxOverruns` bound the cases in which a
key expires while it is still needed.

### How ComposeStackDeploy corresponds to the code

* `work` is the open run of `DeployComposeStackWorkflow`; `work.pc` its next
  activity. A step in `Checked` comes after a `check_for_cancellation`; the
  `finally` clause (`FinallySteps`) asks the same first.
* `lock` is the key of the semaphore. A run waits for it; `ExpireLock` is its time
  to live, taken only when its owner is gone.
* `clis` are the `docker stack deploy` processes that go on after their run stopped
  waiting, `strayed` whether one wrote the swarm after that.
* `calledOff`, `deployed`, `last` and `toggles` are history, for the properties.

Health statuses of the services, which nothing reads here, and the content of
stack files are left out.

### How CaddyProxy corresponds to the code

A client is one activity at a time per owner. The etag is what was read, since
Caddy computes it from that; the one of a single route covers its place in the
list, so `DeleteRoute` may be refused for a move. The order of routes is left out.

### How the front-end modules correspond to the code

* `AppQueries`, `AppActions`, `AppPages` and `AppForms` are tables with one operator
  per factory, action, page and form, in the order of the files; `QueryCache` and
  `FormPanel` are the machines that run any entry of them. A query key is a
  sequence, as in the code, so that an invalidation reaches what its prefix reaches.
* `QueryCache` follows one form and one query: queries do not depend on each other.
  The server's data is "before" or "after" the request. The options come from
  `root.tsx`: always stale, no retry, no refetch on focus.
* `FormPanel` has one kind of field: "free" is uncontrolled, "copy" and "kept" are
  copies in the state of the component. One other user may write once.
* `ToggleToast` follows one service, `FilterBar` one bar with a text, one option
  and two pages.
* `LogFeed` has lines with times; each query of the file is one of two stores (lines
  by time from Loki, requests by a cursor), sorted one way.
* React Router, TanStack Query, React's inputs, Loki and the paginator of the REST
  framework are external: modelled from their use.

## Runs

The deployment and stack runs start from a service or stack that was never
deployed.

| Run | Question | Instance |
|---|---|---|
| `deploy_queue` | does a replacement, a failure, a cancellation at each point, a queue cleanup leave traffic, routes, schedules, services and rows in agreement? | three deployments of three kinds of configuration, monitor |
| `deploy_toggle` | what do start and stop requests break? | two deployments of three kinds, two toggles, monitor |
| `deploy_races` | what do late callbacks and signals and stale saves break? | two stateful deployments, three windows open |
| `deploy_faults` | is production unique and handed over safely whatever fails? | two deployments of two kinds, one permanent failure or death between updates at 24 steps, one execution timeout, one lost callback or signal, a slow deploy view |
| `deploy_liveness` | does the queue move on, is a cancellation honoured? | two deployments, slow signals, one failure |
| `semaphore` | do lock and counter implement the abstract semaphore, and does a full one free itself? | three deployments and the cleanup on two slots, one crash, one kill |
| `stacks` | the same questions for a stack; do concurrent writers of the routes keep each other's? | two deployments with a shared and a changing URL, one cancellation, two incidents (stop, start, archive, failure, lost callback); a service, a stack and a registry, three requests, two URLs |
| `query_cache` | does each page show what each form wrote? | every form of every page, every query it changes, visits to fifteen pages |
| `log_feed` | does a growing list stay in order, whole and up to date? | lines and requests sorted by time, pages of two, five lines, two of them at one time, one failed request |
| `flows` | are toasts, filters and forms right in every order of events? | four buttons, two presses from two pages, two tries; eleven bars, six inputs; every form and kind of field, two drafts |
| `lost_wakeup`, `cancelled_deployed` | the divergences below | two deployments each |

Bounds. Two deployments give a replacement and each of its interruptions; a third
adds a queue behind them, a second replacement (both slots are used again), and
the cleanup of a row that is neither the new nor the previous one. One volume,
one config, one URL suffice since the code treats each of them alone; the
configurations share or drop them. `MaxFaults`, `MaxTimeouts`, `MaxLost` and
`MaxToggles` bound the mishaps of a behaviour, `FaultySteps` the activities they
hit; one failure at any step shows what is not undone, and a second one would have
to hit the handler of the first, which `error_set_production` and
`error_queue_next` fail by themselves. `Races` opens the windows of the views: one
that is closed makes the request that is in it go first (`Undisturbed`), which
also keeps the instances small. `MonitorResults` are the statuses a check may
find. For a stack, two incidents are enough for one in the middle of another. `QueryCache`
has one submission per behaviour, whose overlaps with polls, loaders and visits are
what is asked; two overlapping submissions are left to `ToggleToast` and
`FormPanel`. The visits are to one page of each kind, as pages differ in which
queries they use. In `LogFeed` five lines fill two pages of two and
start a third; two at one time is the smallest tie. Six inputs to a bar are a
change, a second one before its navigation is done, and what undoes either.

`CHECK_DEADLOCK FALSE`, except in `semaphore`: once the last deployment has been
requested, or the user has made the last input, and nothing is pending, the system
really stops.

### Fairness

`DockerDeploy!Fairness` assumes weak fairness of the open run's steps (Temporal
schedules the next activity and retries within its timeouts), of the end of a
health check (it has a timeout), of toggles, of the commit and the callback of a
deploy request, and of the delivery of a signal. Users promise nothing.
`QueueServed` then says that a deployment that waits behind a run which has not
yet closed its queue is taken out of it; `CancelHonoured` that a cancellation
recorded before the last point leads to CANCELLED or, if the deployment
fails first, FAILED. `StackFairness` assumes the same of the three workflows of a
stack and of the expiry of a lock whose owner is gone; a failed activity is not
excluded by it but by the properties themselves.

`DeploySemaphore!Fairness` assumes that a call with the lock ends, that
deployments and cleanups end, that `release` and `reset` get as far as trying the
lock, and that keys expire: strongly for the counter, which stays idle long enough
again and again only because deployments come and go. `acquire` and `acquire_all`
poll at intervals and may miss every free moment, so nothing is assumed of them,
and no property says that an acquirer succeeds.

In the front end, requests are answered (an error is an answer), timers of polls
and pauses expire, handlers and effects run on. `LogFeed` asks for strong fairness
of the page at the visible end, whose fetch waits while the list is refetched. No
fairness on clicks, typing, navigation or other users.

## What is proved

`DockerDeploy_proofs`

* `TypeCorrect`: `Spec => []TypeOK`. `TypeInv` strengthens it with what a run
  needs: an open run has a deployment, the steps that use a previous
  deployment have one, the next deployment to continue with exists.
* `ProductionUnique`: for any number of deployments, failures, retries, timeouts,
  toggles and lost calls a service has at most one production row, provided that
  no step comes between the cancel view's read of a row and its save. The
  invariant `FlagInv` adds to `TypeInv` that no stale row is held. The argument:
  only `MakeProduction` sets a flag, and it clears all others in the same
  update; every other transaction leaves flags alone or clears them.
  The hypothesis is needed. With that window open TLC finds two production
  rows: a cancel that read the row while QUEUED saves CANCELLED over the run's
  result, a second one reads and saves across the flag's update, and each
  `deployment.save()` writes the flag it had read.

`DeployHandover_proofs`: what holds whatever fails.

* `TransientCorrect`: a row is PREPARING or CANCELLING only while the open run
  deploys it, with every race, lost call, toggle and failure but two: an execution
  timeout, which ends the run without another save, and a failure of the error
  handler's own save. `TransientInv` adds the steps of a run at which its row
  may be in such a status (`Unsettled`).
* `HandoverCorrect`: a deployment gives up production only for one that runs, is
  healthy and receives the requests of its URLs. `CoreInv` says of each step of a
  run what is true of the new deployment (`RunServes`), of the one that it replaces
  (`RunReplaces`), and that a deployment which has not begun has nothing yet
  (`FreshRows`, `RunPlace`). Failures, timeouts, lost calls, late signals and toggles
  are all allowed; two windows are not, and there the property is false. With
  "slow_cancel" a save brings an old flag back. With "slow_callback" the run of
  another request takes the deployment from the queue and times out; the run that
  the callback then starts finds a service of the deployment with the alias of that
  other run, keeps it, and exposes the alias of its own payload, which nobody has.
* `StoppedStaysAsleep`: what the user stopped stays stopped, when no other
  deployment has ports or writable volumes, for any toggles between deployments.
  `StopInv` adds that a toggle and a run do not have the same deployment
  (`ToggleApart`, `PreviousApart`). The four failures in `Fragile` are excluded: each
  ends an attempt or an error handler after the flag was moved, so that
  `finish_and_save_deployment` saves its result on a deployment that is already in
  production; its status is then no longer SLEEPING, and the next run wakes it up.

`DeployCalm_proofs`: what a service is worth to its users when no activity fails
for good, no run times out and the windows of the cancel view and the callback are
closed (`Calm`; the runs `deploy_queue` and `deploy_toggle` are instances of it).
Lost calls, late signals, retries, failed health checks, cancellations at each
point and, unless said otherwise, starts and stops are allowed, with any number of
deployments, volumes, configs and URLs. `Calm` is needed because a timeout undoes
nothing and the error handler does not undo everything (below).

* `UrlsServed`: every URL of the deployment in production reaches a running container, and
  those which the new deployment keeps are served while it is replaced.
* `NothingLeft`, `ResourcesKept`, `InstalledCorrect`, `AwakeCorrect`: a run that ends
  leaves one service; no cleanup takes a volume or config in use; routes, monitor and
  schedules are those of production; it sleeps only if the user said so.
  These five share `CalmInv`, which adds to `StopInv`: the service of
  the run exists exactly between the steps that create and remove it, under the
  alias of the run (`OwnService`); nobody else has one but production
  (`NoLeftover`); the row has the slot of the run (`SlotKept`); the resources of the run
  are there (`Prepared`), and those that it created belong to no other service
  (`Installed`); the deployment in production runs, rests, is routed and watched as
  the step of the run says (`ServiceInv`), and the run knows which it is
  (`PreviousKnown`). Each part needs the others: a cancellation that restores
  the old routes serves the URLs only if the old service still runs, which it does
  only if the run knows that it has to be woken up.
* `AliasesCorrect`, with "slow_view" closed too: two services never answer to one
  alias. `SlotInv` adds that the slot of every run, request and continuation is free
  (`SlotsFree`). A deploy view that commits after a run ended breaks it (below).
* `ExclusiveCorrect` and `SettledCorrect`, with no start or stop requests: deployments that
  exclude each other never run together, and no row stays in a transient status. `QuietInv`
  adds `StoppedFor` and `RowsSettled`. With toggles both are false: a start wakes up
  what a deployment scaled down, and a stop that finds its deployment replaced
  writes SLEEPING on a removed row.

`DeploySemaphore_proofs`

* `TypeCorrect`: the counter stays within `0 .. Limit`, whatever crashes, stalls
  and expires.
* `LimitKept`, `CleanupExcludes`, `UpdatesKept` and `Refinement`, under `Gentle`:
  only attempts at `acquire` and `acquire_all` die, no lock expires under its
  owner, no counter under a cleanup. The inductive invariant `IInv` says that at
  most one call is between the ends of the lock (`LockHeld`), that what it
  read is still there (`NoLostUpdate`), that the counter covers every slot that is
  used or being given back (`SlotsCovered`) and is full while a cleanup holds it
  (`CleanupHoldsAll`). `LimitKept` and `CleanupExcludes` follow by counting;
  `Refinement` maps every step to one of `Semaphore` or to a stutter. Without
  `Gentle` the properties fail, for example when a `release` is retried (below).

`Stacks_proofs`, without hypotheses but the bounds' types

* `StackCorrect`, `UrlsServedCorrect`, `FinishedAwakeCorrect`, `ArchivedCorrect`: the
  safety properties of a stack, for any number of deployments, cancellations and
  incidents. `IStack` says that the workflow between its acquisition and its reset
  has the lock (`LockExcludes`), hence what a run did is still there at its next
  step (`RunKeepsSwarm`, `RunKeepsRoutes`) and nothing comes back during an archive
  (`ArchiveAlone`); that a row which left QUEUED never returns to it, so that what was
  called off in the queue is never taken (`TakenOnce`); and what a run leaves
  without failures (`LeftBehind`).
* `ProxyCorrect`: for any owners, URLs and numbers of requests and attempts no
  writer loses the routes of another. `IProxy` says of each client what it has done
  of its goal at its step (`Progress`), which no step of another can undo because
  each touches its own owner's entries only or fails on the etag, and counts the
  writes that beat it (`Beaten`).

The run `stacks` composes `StackSpec` and `ProxySpec`, the specifications of these
theorems, and only chooses which one a behaviour follows.

`QueryCache_proofs`

* `WritesShownCorrect`, `PageCorrect`, `NoOldAnswerCorrect`, from any form on any page
  that has it, with any query that it changes and any visits to any pages; the run takes
  96 of the 208 pairs of a page and a form, and visits fifteen of the 61 pages.
  The tables are used only through the rules of `QueryRules`: no page that a form leads
  to is of what it deletes (`FormFits`), nothing is on a page before it is created
  (`CreatedFits`), an action that seeds an answer in the cache creates its object
  (`SeedFits`), what an action changes on its page is invalidated, removed or left
  behind, and a page that has nothing but a loader for it finds it renewed
  (`ChangedFits`). These are statements about finite tables without state: they are
  assumptions, which TLC evaluates in full on the run, for all
  208 pairs. The theorems are about the steps: that with such tables no order of
  refetches, polls, answers, loaders, redirects and visits shows anything else.
  `CacheIInv` is the invariant. `AnswersInOrder`: once newer data is known, no fetch in
  flight has an older answer. `InPlace`: until the action returns, the page of the form is
  at rest and has what it shows, so that an invalidation cancels the fetch in flight
  and does not join it. `Refetched`: what is invalidated and shown has a fetch sent
  after the request. `Fresh`: after the action a component has the new data or a fetch
  that brings it, and the cache has no old data where only a loader may be asked next,
  since a loader takes what it finds. `Found` and `Placed` follow the router: the
  locations that are coming are pages, not of what was deleted, and none of their loaders
  can meet a 404. `WritesShown` itself speaks of rest only and is not inductive.

`LogFeed_proofs`

* `FeedCorrect`, `OlderCorrect`, `ContextCorrect`: for any number of logs, of logs at
  one time, any size of page, either order and logs that arrive between the requests
  of one fetch. `FeedIInv` says that each page is a stretch of the log without
  gaps and that its cursors point to its neighbours (`PageOK`); that each
  page follows the one before it (`Chain`, `Follow`), also while a fetch has asked
  some of them again and not the others (`FetchOK`); and what a search around a line
  has found so far (`FoundOK`). It rests on lemmas about the first and last logs of
  a set and about the three kinds of requests. The exceptions are those
  that the properties name (ties at the end of a page, `Emptied`).

`Flows_proofs`

* `ToastCorrect`: for any presses, pages, tries and changes by others. `ToastIInv` adds
  what each call has seen (`AnswersSeen`, `TriesLeft`) and that one request is under
  way (`OneUnderway`).
* `FilterCorrect`: for every bar and any number of inputs. `BarIInv` says what text, option and
  page the URL will have after what is pending (`TextKept`, `ChoiceKept`, `PageKept`),
  and which copies of it are up to date (`CopiesKept`, `ShownKept`).
* `PanelCorrect`: for every form and any number of tries, and one other write at any
  time. The forms are taken entry by entry in one lemma only, `EveryForm`: each
  entry keeps the rules of `FormOK`, for example that what a success or a cancel does
  brings the field back to the data and clears the errors, or that the form is one of
  those which the properties name. Each step then uses the rules. `PanelIInv` says what
  the page and the server have while nobody else writes (`DataOK`); that the field has
  the draft, if there is one (`DraftOK`), is otherwise untouched (`FreeOK`) or holds the
  data or is about to be brought back to it by an accepted save (`CopyOK`, `Landing`);
  which request a fetcher waits for (`RequestOK`); that errors which the user left are
  cleared (`ErrorsOK`); and that what a form created is in its field only until
  its success is seen (`CreatedOK`). Each property alone is not inductive: what
  a field shows after a save rests on what the request carried before the answer.
  The exceptions are those of the properties: `LoseDraft`, `KeepErrors`, `KeepCopy`,
  `KeepLateText`, `KeepText`. `FormBounds` types the constants.

`flows` checks these specifications, from chosen initial states.

Model-checked only:

* liveness, which the prover does not handle;
* the refinement of `Semaphore` outside `Gentle`;
* `ResourcesExist` with late callbacks and cancels (`deploy_races`, two deployments):
  proved under `Calm` only, because with `Races = {"slow_cancel"}` and four deployments
  TLC refutes it (see "Other behaviours met while modelling").

## Where the code differs from what it says

* **lost_wakeup**. A deployment whose callback runs between
  `get_previous_queued_deployment` and the end of the open run gets
  `WorkflowAlreadyStarted`, which `start_workflow` swallows. It stays QUEUED until
  another deployment is requested, and may then run after a newer one.
* **cancelled_deployed**. A deployment that was picked as the next one and
  cancelled before the new run starts is deployed: `prepare_deployment` updates no
  row, and the run goes on.

## Other behaviours met while modelling

Not contradicted by a line of the repository, or found by hand or with other
constants. The properties name each as an exception or leave it out of the
instance.

Services:

* a deploy view that reads the production deployment before the open run ends and
  commits after (`Races = {"slow_view"}`) gives the new deployment the slot, and so
  the network alias, of the one it replaces: `SlotsDisjoint` fails;
* a cancel view that saves what it read while the deployment was queued
  (`Races = {"slow_cancel"}`), after that deployment went live and a second one scaled
  it down, takes the production flag from it. When the second one is cancelled it finds
  no previous deployment to scale back up. A third, which drops a volume, takes over
  with no previous deployment, and a fourth, which replaces the third, deletes that
  volume although the first one's stopped service still names it: `ResourcesExist`
  fails with `MaxDeployments = 4`;
* a start request during a deployment wakes up the copy which that deployment
  scaled down: `ExclusiveAlone` fails with `MaxToggles = 2`;
* a stop request that waits while its service is replaced saves SLEEPING over
  REMOVED;
* a cancellation after the last point is accepted (200 and a signal) and ignored;
* a URL that an earlier, never deployed, deployment added is not removed from
  the proxy when a later one is cancelled after its exposure;
* when an activity fails for good after the previous deployment was scaled down,
  the handler (`services.py:379-398`) does not scale it back, and it stays asleep;
* a deployment that excludes a second copy writes its marker over that of a manual
  stop (`main_activities.py:1007-1012`), so that its failure or cancellation wakes
  up what the user stopped, which the comment at line 1024 excludes;
* a `release` that dies after its write is retried and gives back a slot of another
  deployment (`semaphore.py:44-53`): with `CrashingOps = {"release"}`,
  `CleanupAlone` fails.

Stacks and proxy:

* a cancellation recorded after the last check skips the whole `finally` clause:
  the row stays DEPLOYING, the lock is held until its key expires, the queue stops,
  the temporary directory stays. A late callback that starts a run for a deployment
  which is already finished has similar ends: `prepare` raises, `finalize` writes
  FAILED over FINISHED or CANCELLED;
* a start that finds the old run open is swallowed, as for services; what was
  queued first may then be deployed last;
* what a cancelled deployment put on the swarm stays (nothing is rolled back), and
  the CLI, cancelled with TRY_CANCEL, goes on after its run and may write over the
  next deployment or an archived stack;
* `check_stack_health` always answers FINISHED (`return` in a `finally` clause), and
  a failure of a later activity does not change that;
* a deployment that dies after it deleted the old URLs leaves a URL of the last
  finished one unserved (three deployments, two failures);
* `save_cancelled` fails once the stack is archived, and the lock stays; the archive
  swallows its failures; when its callback is lost, everything stays;
* `upsert_registry_url` reads its etag once, when the route exists: none of its
  attempts after the first can succeed. Any status but 412 counts as a success.

Pages and forms:

* `LeftToPolling`: some cancel buttons, the deletion of credentials and the redeploy
  button of a stack's card name no query, and the page waits for the next poll;
  `LeaveSearch`: results in the search box keep old names; the description of a
  project is written and its query not invalidated; a rename of an environment
  leaves the page on the old slug; an invalidation that joins a first fetch which
  the server has already answered brings the old data;
* the sets `LoseDraft`, `KeepErrors`, `KeepCopy`, `KeepLateText` and `KeepText` of
  `FormPanel` name the forms that lose a draft to a refetch, show old errors again,
  or keep a text that is not what was saved;
* an error during the polling leaves the toast of a service loading for ever; a
  refused request has a toast, which may even say success; two presses from the card
  menu, or from two pages, have two toasts, and the first to end takes both out of
  the queue;
* filters: typing back the text of the URL does not cancel the pending search; a
  reset or removal while one is pending brings it back; a navigation started while
  another waits loses one of the changes; two quick options lose the first; the
  lists of deployments keep their page when an option is chosen, and are not found;
* logs: times beyond the integers of JavaScript are rounded, so that the first page
  can come back empty (`Emptied`); lines of one time are skipped where a page ends;
  requests sorted by ascending time with two pages or more, or by duration, never
  show new ones; an error answer replaces a page by an empty one; the list of sort
  keys goes through a `set` and loses its order.

## Plan

1. Proofs: which failures `UrlsServed` and `NothingLeft` survive.
2. `GitDeploy`: clone and build with mid-activity cancellation
   (`monitor_cancellation`), on top of `ServiceDeployment` and `DeployRequests`.
3. `ServiceArchive`: the archive of a service, an environment or a project against
   an open deployment.
