------------------------ MODULE ComposeStackDeploy -------------------------
(***************************************************************************)
(* A compose stack: its deployments, which queue behind the one workflow   *)
(* run that a stack may have, the cancellation of one, the workflows that  *)
(* stop and archive the stack, and the lock that the three share.          *)
(*                                                                         *)
(* Deployments are numbers, in the order of queued_at.  The statuses of    *)
(* services that health checks save are left out: nothing reads them here. *)
(***************************************************************************)
EXTENDS Naturals, FiniteSets, FiniteSetsExt

CONSTANTS
  MaxStackDeployments,  \* how many deployments are requested, at most
  UrlsOf,               \* the URLs of each deployment's snapshot
  MaxStackCancels,      \* how many calls of the cancel view, at most
  MaxIncidents          \* how many stop, start and archive requests, failures of
                        \* activities and runs, and lost callbacks there are, at most

StackDeployments == 1..MaxStackDeployments
NoStackDeployment == 0

ASSUME StackBounds ==
  /\ {MaxStackDeployments, MaxStackCancels, MaxIncidents} \subseteq Nat
  /\ DOMAIN UrlsOf = StackDeployments

VARIABLES
  rows,      \* the status of each deployment, "absent" before its request or without the stack
  work,      \* the open run of the deploy workflow
  toggling, archiving,   \* where the two other workflows are
  lock,      \* the workflow that holds the semaphore of the stack, or "free"
  swarm,     \* the deployment whose stack file the swarm has, or none
  asleep,    \* whether services of the stack are scaled down
  routes,    \* the URLs that the proxy routes to the stack
  schedules, \* those that exist
  dirs,      \* the deployments that have a temporary directory
  clis,      \* deployments whose `docker stack deploy` goes on without its run
  starts, signals,       \* callbacks to start a run, and to cancel a deployment
  cancelView,            \* the deployment that the cancel view read as not started
  last,      \* the last deployment that a run finalized as FINISHED, or none
  deployed,  \* the deployments that reached the swarm
  strayed,   \* whether one of clis reached it after its run
  calledOff, \* the deployments that the cancel view saved as CANCELLED while QUEUED
  toggles, cancelCalls, stackFaults, lost   \* how many there were

pending  == <<cancelView, cancelCalls, starts, signals, calledOff, lost>>
tables   == <<rows, last, pending>>
docker   == <<swarm, asleep, clis, deployed, strayed>>
proxied  == <<routes, schedules, dirs>>
other    == <<toggling, archiving, toggles>>
beyond   == <<other, lock, docker, proxied, stackFaults>>
stackVars == <<tables, work, beyond>>

Steps ==
  {"lock", "prepare", "tmp_dir", "files", "deploy", "expose", "health",
   "health_schedule", "metrics_schedule", "old_urls"}
FinallySteps == {"cleanup", "finalize", "reset", "next"}
CancelledSteps == {"c_cleanup", "c_save", "c_reset", "c_next"}

\* check_for_cancellation comes before these, and a monitor watches "deploy" and "health".
Checked == {"prepare", "tmp_dir", "files", "deploy", "expose", "health"}

Closed ==
  [id |-> NoStackDeployment, pc |-> "closed", cancels |-> {}, built |-> FALSE,
   result |-> "FAILED", next |-> NoStackDeployment]

DeployRun(d) == [Closed EXCEPT !.id = d, !.pc = "lock"]

StackTypeOK ==
  /\ rows \in [StackDeployments ->
                 {"absent", "QUEUED", "DEPLOYING", "FINISHED", "FAILED", "CANCELLED"}]
  /\ work.id \in StackDeployments \cup {NoStackDeployment}
  /\ work.pc \in Steps \cup FinallySteps \cup CancelledSteps \cup {"close", "closed"}
  /\ work.id = NoStackDeployment <=> work.pc = "closed"
  /\ work.cancels \subseteq StackDeployments
  /\ toggling \in {"idle", "lock", "stop", "start", "reset"}
  /\ archiving \in {"no", "view", "lock", "unexpose", "remove", "resources", "reset",
                    "undo", "done", "failed", "deleted"}
  /\ lock \in {"free", "deploy", "toggle", "archive"}
  /\ swarm \in StackDeployments \cup {NoStackDeployment}
  /\ schedules \subseteq {"monitor", "metrics"}
  /\ {swarm, last} \ {NoStackDeployment} \subseteq deployed

StackInit ==
  /\ rows = [d \in StackDeployments |-> "absent"]
  /\ work = Closed /\ toggling = "idle" /\ archiving = "no" /\ lock = "free"
  /\ swarm = NoStackDeployment /\ asleep = FALSE /\ clis = {} /\ deployed = {}
  /\ strayed = FALSE /\ last = NoStackDeployment
  /\ routes = {} /\ schedules = {} /\ dirs = {}
  /\ starts = {} /\ signals = {} /\ cancelView = NoStackDeployment
  /\ calledOff = {} /\ cancelCalls = 0 /\ toggles = 0 /\ stackFaults = 0 /\ lost = 0

-----------------------------------------------------------------------------
\* The views

StackExists == archiving = "no"
Requested(d) == rows[d] # "absent"

\* One more of the bounded incidents may happen.
Incident ==
  toggles + stackFaults + lost + (IF StackExists THEN 0 ELSE 1) < MaxIncidents

\* The deploy, redeploy and webhook views.
DeployStack ==
  /\ StackExists
  /\ \E d \in StackDeployments :
       /\ ~Requested(d) /\ \A e \in 1..(d - 1) : Requested(e)
       /\ rows' = [rows EXCEPT ![d] = "QUEUED"]
       /\ starts' = starts \cup {d}
  /\ UNCHANGED <<last, signals, cancelView, cancelCalls, calledOff, lost, work, beyond>>

\* Their callback: WorkflowAlreadyStartedError is swallowed.
StartStackRun(d) ==
  /\ d \in starts
  /\ starts' = starts \ {d}
  /\ work' = IF work = Closed THEN DeployRun(d) ELSE work
  /\ UNCHANGED <<rows, last, signals, cancelView, cancelCalls, calledOff, lost, beyond>>

\* The cancel view saves every column of a deployment that it read as not started, and
\* always sends the signal.
ReadForStackCancel(d) ==
  /\ StackExists /\ cancelView = NoStackDeployment
  /\ cancelCalls < MaxStackCancels /\ cancelCalls' = cancelCalls + 1
  /\ IF rows[d] = "QUEUED"
     THEN cancelView' = d /\ UNCHANGED signals
     ELSE rows[d] = "DEPLOYING" /\ signals' = signals \cup {d} /\ UNCHANGED cancelView
  /\ UNCHANGED <<rows, last, starts, calledOff, lost, work, beyond>>

SaveStackCancel ==
  /\ cancelView # NoStackDeployment
  /\ rows' = IF Requested(cancelView) THEN [rows EXCEPT ![cancelView] = "CANCELLED"] ELSE rows
  /\ calledOff' = IF rows[cancelView] = "QUEUED" THEN calledOff \cup {cancelView} ELSE calledOff
  /\ signals' = signals \cup {cancelView}
  /\ cancelView' = NoStackDeployment
  /\ UNCHANGED <<last, cancelCalls, starts, lost, work, beyond>>

\* A signal to a workflow that is not open is an RPCError, which is swallowed.
DeliverStackSignal(d) ==
  /\ d \in signals
  /\ signals' = signals \ {d}
  /\ work' = IF work = Closed THEN work ELSE [work EXCEPT !.cancels = @ \cup {d}]
  /\ UNCHANGED <<rows, last, starts, cancelView, cancelCalls, calledOff, lost, beyond>>

LoseStackCallback ==
  /\ Incident /\ starts \cup signals # {}
  /\ \/ \E d \in starts : starts' = starts \ {d} /\ UNCHANGED signals
     \/ \E d \in signals : signals' = signals \ {d} /\ UNCHANGED starts
  /\ lost' = lost + 1
  /\ UNCHANGED <<rows, last, cancelView, cancelCalls, calledOff, work, beyond>>

\* The toggle view wants a deployment that did not fail, and starts nothing while an
\* earlier toggle is open.
ToggleStack ==
  /\ StackExists /\ Incident /\ toggling = "idle"
  /\ \E d \in StackDeployments : rows[d] \notin {"absent", "FAILED"}
  /\ toggling' = "lock" /\ toggles' = toggles + 1
  /\ UNCHANGED <<tables, work, archiving, lock, docker, proxied, stackFaults>>

\* The archive view deletes the stack, its deployments with it, and starts the workflow
\* when there was one.
ArchiveStack ==
  /\ StackExists /\ Incident
  /\ archiving' = IF \E d \in StackDeployments : Requested(d) THEN "view" ELSE "deleted"
  /\ rows' = [d \in StackDeployments |-> "absent"]
  /\ UNCHANGED <<last, pending, work, toggling, toggles, lock, docker, proxied, stackFaults>>

StackViews ==
  \/ DeployStack \/ SaveStackCancel \/ LoseStackCallback \/ ToggleStack \/ ArchiveStack
  \/ \E d \in StackDeployments :
       StartStackRun(d) \/ ReadForStackCancel(d) \/ DeliverStackSignal(d)

-----------------------------------------------------------------------------
\* The deploy workflow: one action per activity, with the checks before it

Cancelled == work.id \in work.cancels

GotoStep(pc) == work' = [work EXCEPT !.pc = pc]

\* The finally clause does nothing for a deployment whose cancellation is recorded.
Finally(run) ==
  IF run.id \in run.cancels THEN [run EXCEPT !.pc = "close"]
  ELSE IF run.built THEN [run EXCEPT !.pc = "cleanup"] ELSE [run EXCEPT !.pc = "finalize"]

LockForDeploy ==
  /\ work.pc = "lock" /\ lock = "free"
  /\ lock' = "deploy" /\ GotoStep("prepare")
  /\ UNCHANGED <<tables, other, docker, proxied, stackFaults>>

\* handle_cancellation, from a check or from the monitor of the activity, which then
\* goes on until it notices.
BeginStackCancellation ==
  /\ work.pc \in Checked /\ Cancelled
  /\ GotoStep(IF work.built THEN "c_cleanup" ELSE "c_save")
  /\ clis' \in {clis} \cup (IF work.pc = "deploy" THEN {clis \cup {work.id}} ELSE {})
  /\ UNCHANGED <<tables, other, lock, swarm, asleep, deployed, strayed, proxied, stackFaults>>

\* Faulty variant: takes the deployment in any status.
PrepareAnyStatus ==
  /\ work.pc = "prepare" /\ ~Cancelled
  /\ rows' = IF Requested(work.id) THEN [rows EXCEPT ![work.id] = "DEPLOYING"] ELSE rows
  /\ GotoStep("tmp_dir")
  /\ UNCHANGED <<last, pending, beyond>>

\* A deployment that is not QUEUED is an error, which a cancellation may overtake.
PrepareStackDeployment ==
  /\ work.pc = "prepare"
  /\ IF rows[work.id] = "QUEUED"
     THEN /\ ~Cancelled
          /\ rows' = [rows EXCEPT ![work.id] = "DEPLOYING"] /\ GotoStep("tmp_dir")
     ELSE work' = Finally(work) /\ UNCHANGED rows
  /\ UNCHANGED <<last, pending, beyond>>

CreateTemporaryDirectory ==
  /\ work.pc = "tmp_dir" /\ ~Cancelled
  /\ dirs' = dirs \cup {work.id}
  /\ work' = [work EXCEPT !.pc = "files", !.built = TRUE]
  /\ UNCHANGED <<tables, other, lock, docker, routes, schedules, stackFaults>>

CreateFiles ==
  /\ work.pc = "files" /\ ~Cancelled
  /\ GotoStep("deploy")
  /\ UNCHANGED <<tables, beyond>>

\* The stack file is on the swarm: its services have the replicas that it says.
OnSwarm(d) ==
  swarm' = d /\ asleep' = FALSE /\ deployed' = deployed \cup {d}

DeployWithCli ==
  /\ work.pc = "deploy"
  /\ OnSwarm(work.id)
  /\ GotoStep("expose")
  /\ UNCHANGED <<tables, other, lock, clis, strayed, proxied, stackFaults>>

ExposeStack ==
  /\ work.pc = "expose" /\ ~Cancelled
  /\ routes' = routes \cup UrlsOf[work.id]
  /\ GotoStep("health")
  /\ UNCHANGED <<tables, other, lock, docker, schedules, dirs, stackFaults>>

\* FINISHED whatever the health is.  A cancellation may come as it ends, or after its
\* monitor: nothing looks at it from then on.
CheckStackHealth ==
  /\ work.pc = "health"
  /\ work' = [work EXCEPT !.pc = "health_schedule", !.result = "FINISHED"]
  /\ UNCHANGED <<tables, beyond>>

CreateStackSchedule(kind, then) ==
  /\ schedules' = schedules \cup {kind} /\ GotoStep(then)
  /\ UNCHANGED <<tables, other, lock, docker, routes, dirs, stackFaults>>

CreateHealthcheckSchedule ==
  work.pc = "health_schedule" /\ CreateStackSchedule("monitor", "metrics_schedule")

CreateMetricsSchedule ==
  work.pc = "metrics_schedule" /\ CreateStackSchedule("metrics", "old_urls")

\* Faulty variant: keeps those that are new.
CleanupKnownUrls ==
  /\ work.pc = "old_urls"
  /\ routes' = IF last = NoStackDeployment THEN routes
               ELSE routes \ UrlsOf[last]
  /\ work' = Finally(work)
  /\ UNCHANGED <<tables, other, lock, docker, schedules, dirs, stackFaults>>

CleanupOldStackUrls ==
  /\ work.pc = "old_urls"
  /\ routes' = routes \cap UrlsOf[work.id]
  /\ work' = Finally(work)
  /\ UNCHANGED <<tables, other, lock, docker, schedules, dirs, stackFaults>>

CleanupDirectory ==
  /\ \/ work.pc = "cleanup" /\ GotoStep("finalize")
     \/ work.pc = "c_cleanup" /\ GotoStep("c_save")
  /\ dirs' = dirs \ {work.id}
  /\ UNCHANGED <<tables, other, lock, docker, routes, schedules, stackFaults>>

\* Whatever the status of the deployment is.
FinalizeStackDeployment ==
  /\ work.pc = "finalize"
  /\ rows' = IF Requested(work.id) THEN [rows EXCEPT ![work.id] = work.result] ELSE rows
  /\ last' = IF work.result = "FINISHED" THEN work.id ELSE last
  /\ GotoStep("reset")
  /\ UNCHANGED <<pending, beyond>>

\* Faulty variant: only takes a deployment that did not begin.
SaveCancelledIfQueued ==
  /\ work.pc = "c_save"
  /\ IF Requested(work.id)
     THEN /\ rows' = IF rows[work.id] = "QUEUED"
                     THEN [rows EXCEPT ![work.id] = "CANCELLED"] ELSE rows
          /\ GotoStep("c_reset")
     ELSE GotoStep("close") /\ UNCHANGED rows
  /\ UNCHANGED <<last, pending, beyond>>

\* An error when the stack was deleted.
SaveCancelledStack ==
  /\ work.pc = "c_save"
  /\ IF Requested(work.id)
     THEN rows' = [rows EXCEPT ![work.id] = "CANCELLED"] /\ GotoStep("c_reset")
     ELSE GotoStep("close") /\ UNCHANGED rows
  /\ UNCHANGED <<last, pending, beyond>>

ResetAfterDeploy ==
  /\ \/ work.pc = "reset" /\ GotoStep("next")
     \/ work.pc = "c_reset" /\ GotoStep("c_next")
  /\ lock' = "free"
  /\ UNCHANGED <<tables, other, docker, proxied, stackFaults>>

\* Faulty variant: a cancellation ends the run.
GetNextOrStop ==
  LET queued == {d \in StackDeployments : rows[d] = "QUEUED"}
  IN  /\ work.pc \in {"next", "c_next"}
      /\ work' = [work EXCEPT !.pc = "close",
                              !.next = IF queued = {} \/ work.pc = "c_next"
                                       THEN NoStackDeployment ELSE Min(queued)]
      /\ UNCHANGED <<tables, beyond>>

GetNextQueuedStack ==
  LET queued == {d \in StackDeployments : rows[d] = "QUEUED"}
  IN  /\ work.pc \in {"next", "c_next"}
      /\ work' = [work EXCEPT !.pc = "close",
                              !.next = IF queued = {} THEN NoStackDeployment ELSE Min(queued)]
      /\ UNCHANGED <<tables, beyond>>

\* continue_as_new, or the end.
CloseStackRun ==
  /\ work.pc = "close"
  /\ work' = IF work.next = NoStackDeployment THEN Closed ELSE DeployRun(work.next)
  /\ UNCHANGED <<tables, beyond>>

StackRunStep ==
  \/ LockForDeploy \/ BeginStackCancellation \/ PrepareStackDeployment
  \/ CreateTemporaryDirectory \/ CreateFiles \/ DeployWithCli \/ ExposeStack
  \/ CheckStackHealth \/ CreateHealthcheckSchedule \/ CreateMetricsSchedule
  \/ CleanupOldStackUrls \/ CleanupDirectory \/ FinalizeStackDeployment
  \/ SaveCancelledStack \/ ResetAfterDeploy \/ GetNextQueuedStack \/ CloseStackRun

\* The CLI ends, or is stopped, after its run cancelled it or timed out.
EndCli(d) ==
  /\ d \in clis
  /\ clis' = clis \ {d}
  /\ \/ OnSwarm(d) /\ strayed' = TRUE
     \/ UNCHANGED <<swarm, asleep, deployed, strayed>>
  /\ UNCHANGED <<tables, work, other, lock, proxied, stackFaults>>

-----------------------------------------------------------------------------
\* The toggle and archive workflows

\* Faulty variant: does not wait for the lock.
ToggleAtOnce ==
  /\ toggling = "lock"
  /\ lock' = "toggle" /\ toggling' \in {"stop", "start"}
  /\ UNCHANGED <<tables, work, archiving, toggles, docker, proxied, stackFaults>>

LockForToggle ==
  /\ toggling = "lock" /\ lock = "free"
  /\ lock' = "toggle" /\ toggling' \in {"stop", "start"}
  /\ UNCHANGED <<tables, work, archiving, toggles, docker, proxied, stackFaults>>

\* All services, or only one of them.
ScaleStack ==
  /\ \/ toggling = "stop" /\ asleep' = (swarm # NoStackDeployment)
     \/ toggling = "start" /\ asleep' \in {FALSE, asleep}
  /\ toggling' = "reset"
  /\ UNCHANGED <<tables, work, archiving, toggles, lock, swarm, clis, deployed, strayed,
                 proxied, stackFaults>>

ResetAfterToggle ==
  /\ toggling = "reset"
  /\ toggling' = "idle" /\ lock' = "free"
  /\ UNCHANGED <<tables, work, archiving, toggles, docker, proxied, stackFaults>>

ArchiveGoto(pc) == archiving' = pc /\ UNCHANGED <<toggling, toggles>>

StartArchive ==
  /\ archiving = "view" /\ ArchiveGoto("lock")
  /\ UNCHANGED <<tables, work, lock, docker, proxied, stackFaults>>

\* Faulty variant: does not wait for the lock.
ArchiveAtOnce ==
  /\ archiving = "lock"
  /\ lock' = "archive" /\ ArchiveGoto("unexpose")
  /\ UNCHANGED <<tables, work, docker, proxied, stackFaults>>

LockForArchive ==
  /\ archiving = "lock" /\ lock = "free"
  /\ lock' = "archive" /\ ArchiveGoto("unexpose")
  /\ UNCHANGED <<tables, work, docker, proxied, stackFaults>>

UnexposeStack ==
  /\ archiving = "unexpose" /\ ArchiveGoto("remove")
  /\ routes' = {}
  /\ UNCHANGED <<tables, work, lock, docker, schedules, dirs, stackFaults>>

\* The stack is removed, and its containers are waited for.
RemoveStack ==
  /\ archiving = "remove" /\ ArchiveGoto("resources")
  /\ swarm' = NoStackDeployment /\ asleep' = FALSE
  /\ UNCHANGED <<tables, work, lock, clis, deployed, strayed, proxied, stackFaults>>

DeleteStackResources ==
  /\ archiving = "resources" /\ ArchiveGoto("reset")
  /\ schedules' = {}
  /\ UNCHANGED <<tables, work, lock, docker, routes, dirs, stackFaults>>

ResetAfterArchive ==
  /\ \/ archiving = "reset" /\ ArchiveGoto("done")
     \/ archiving = "undo" /\ ArchiveGoto("failed")
  /\ lock' = "free"
  /\ UNCHANGED <<tables, work, docker, proxied, stackFaults>>

ToggleStackStep == LockForToggle \/ ScaleStack \/ ResetAfterToggle

ArchiveStackStep ==
  \/ StartArchive \/ LockForArchive \/ UnexposeStack \/ RemoveStack \/ DeleteStackResources
  \/ ResetAfterArchive

-----------------------------------------------------------------------------
\* Failures

\* The key of the lock expires, once the workflow that took it has ended or when the
\* attempt that took it died.
ExpireLock ==
  /\ \/ lock = "deploy" /\ work.pc \in {"closed", "lock"}
     \/ lock = "toggle" /\ toggling \in {"idle", "lock"}
     \/ lock = "archive" /\ archiving \in {"lock", "failed"}
  /\ lock' = "free"
  /\ UNCHANGED <<tables, work, other, docker, proxied, stackFaults>>

StackFault == Incident /\ stackFaults' = stackFaults + 1

\* An activity of the deployment fails for good; what it did until then stays.
StackActivityFails ==
  /\ work.pc \notin {"close", "closed"} /\ StackFault
  /\ work' = IF work.pc \in Steps \ {"lock"}
             THEN Finally(work)
             ELSE [work EXCEPT !.pc = "close"]
  /\ lock' \in {lock} \cup (IF work.pc = "lock" /\ lock = "free" THEN {"deploy"} ELSE {})
  /\ routes' \in {routes} \cup (IF work.pc = "expose" THEN {routes \cup UrlsOf[work.id]} ELSE {})
  /\ \/ work.pc = "deploy" /\ OnSwarm(work.id)
     \/ UNCHANGED <<swarm, asleep, deployed>>
  /\ UNCHANGED <<tables, other, clis, strayed, schedules, dirs>>

\* An attempt at the lock dies after it took it; the next one waits.
StackLockLost ==
  /\ work.pc = "lock" /\ lock = "free" /\ StackFault
  /\ lock' = "deploy"
  /\ UNCHANGED <<tables, work, other, docker, proxied>>

\* The execution timeout ends the run without its finally clause.
StackRunTimesOut ==
  /\ work # Closed /\ StackFault
  /\ work' = Closed
  /\ clis' \in {clis} \cup (IF work.pc = "deploy" THEN {clis \cup {work.id}} ELSE {})
  /\ UNCHANGED <<tables, other, lock, swarm, asleep, deployed, strayed, proxied>>

ToggleFails ==
  /\ toggling # "idle" /\ StackFault
  /\ toggling' = IF toggling \in {"stop", "start"} THEN "reset" ELSE "idle"
  /\ asleep' \in {asleep} \cup (IF toggling = "stop" THEN {swarm # NoStackDeployment} ELSE {})
  /\ UNCHANGED <<tables, work, archiving, toggles, lock, swarm, clis, deployed, strayed, proxied>>

\* The archive swallows the failure of its activities.
ArchiveFails ==
  /\ archiving \in {"lock", "unexpose", "remove", "resources", "reset", "undo"} /\ StackFault
  /\ archiving' = IF archiving \in {"unexpose", "remove", "resources"} THEN "undo" ELSE "failed"
  /\ routes' \in {routes} \cup (IF archiving = "unexpose" THEN {{}} ELSE {})
  /\ schedules' \in {schedules} \cup (IF archiving = "resources" THEN SUBSET schedules ELSE {})
  /\ UNCHANGED <<tables, work, toggling, toggles, lock, docker, dirs>>

StackNext ==
  \/ StackViews \/ StackRunStep \/ ToggleStackStep \/ ArchiveStackStep
  \/ \E d \in StackDeployments : EndCli(d)
  \/ ExpireLock
  \/ StackActivityFails \/ StackLockLost \/ StackRunTimesOut \/ ToggleFails \/ ArchiveFails

StackSpec == StackInit /\ [][StackNext]_stackVars

\* Workflows, callbacks and signals go on, keys expire, a CLI ends.
StackFairness ==
  /\ WF_stackVars(StackRunStep) /\ WF_stackVars(ToggleStackStep)
  /\ WF_stackVars(ArchiveStackStep) /\ WF_stackVars(ExpireLock)

-----------------------------------------------------------------------------
\* A deployment that the user cancelled while it was queued never reaches the swarm,
\* whichever run picked it before and wherever the signal goes.
CancelledNotDeployed == calledOff \cap deployed = {}

\* Without failures, a deployment that its run left DEPLOYING, or whose temporary
\* directory it left, has at least reached the swarm: its cancellation came after the
\* last check, and the finally clause was skipped.
LeftAreDeployed ==
  stackFaults = 0 =>
    \A d \in StackDeployments \ {work.id} : rows[d] = "DEPLOYING" \/ d \in dirs => d \in deployed

\* What is deployed is neither what the user called off nor what a run left behind early.
StackInv == StackTypeOK /\ CancelledNotDeployed /\ LeftAreDeployed

\* A URL of every deployment that reached the swarm is served from the first of them that
\* finishes on; without failures, a deployment that finishes leaves no other.
StackUrlsServed ==
  /\ StackExists /\ last # NoStackDeployment
       => \A u \in UrlsOf[last] : (\A d \in deployed : u \in UrlsOf[d]) => u \in routes
  /\ work.pc = "finalize" /\ work.result = "FINISHED" /\ stackFaults = 0
       => routes = UrlsOf[work.id]

\* No stop request puts services to sleep in the middle of a deployment that is then
\* reported as FINISHED.
FinishedAwake == work.pc = "finalize" /\ work.result = "FINISHED" => ~asleep

\* An archived stack leaves no route, no schedule and no service behind, whatever was
\* queued or deployed when it was archived; only a CLI that its run left may.
ArchivedLeavesNothing ==
  archiving = "done" =>
    routes = {} /\ schedules = {} /\ (swarm = NoStackDeployment \/ strayed)

\* A deployment that waits behind a run is taken out of the queue, unless that run ends
\* with the lock, or fails.
StackQueueServed ==
  \A d \in StackDeployments :
    (rows[d] = "QUEUED" /\ work.id \notin {d, NoStackDeployment} /\ work.pc # "close")
      ~> (rows[d] # "QUEUED" \/ stackFaults > 0 \/ (work = Closed /\ lock = "deploy"))

\* The cancellation of an open deployment recorded before the health check leads to
\* CANCELLED, unless something fails or the stack is deleted.
StackCancelHonoured ==
  \A d \in StackDeployments :
    (/\ work.id = d /\ Cancelled
     /\ \/ work.pc \in {"lock", "prepare"} /\ rows[d] = "QUEUED"
        \/ work.pc \in Checked \ {"prepare", "health"} /\ rows[d] = "DEPLOYING")
      ~> (rows[d] \in {"CANCELLED", "absent"} \/ stackFaults > 0)
=============================================================================
