---------------------------- MODULE DockerDeploy ----------------------------
(***************************************************************************)
(* DeployDockerServiceWorkflow, one activity per action, composed with the *)
(* views of DeployRequests, the start/stop toggle of a service, and the    *)
(* monitor that refreshes the status of the production deployment.         *)
(*                                                                         *)
(* run.pc names the next activity of the open run.  An action with         *)
(* ~Requested in its guard begins where the code calls                     *)
(* check_for_cancellation: a signal recorded before that activity starts   *)
(* takes BeginCancellation instead.                                        *)
(***************************************************************************)
EXTENDS DeployRequests

CONSTANTS
    FaultySteps,    \* activities that may exhaust their five attempts
    MaxFaults,      \* bound on such failures
    MaxTimeouts,    \* bound on workflow executions that time out
    MaxToggles,     \* bound on start and stop requests
    MonitorResults  \* statuses the monitor may find

VARIABLES
    toggle,  \* the open run of ToggleDockerServiceWorkflow
    spent    \* failures, timeouts and toggles so far

vars == <<resources, requestVars, run, toggle, spent>>

DeploySteps ==
    {"acquire", "prepare", "get_previous", "create_volumes", "create_configs",
     "scale_down", "wait_down", "pull", "create_service", "healthcheck", "polling",
     "expose", "promote", "remove_previous", "remove_configs", "remove_volumes",
     "remove_urls", "mark_removed", "monitor_schedule", "stats_schedule",
     "remove_own", "scale_back", "finish", "set_production", "remove_superseded",
     "cleanup_unclean", "queue_next", "release"}

CancelSteps ==
    {"set_cancelling", "reset_urls", "cancel_service", "cancel_previous",
     "cancel_scale_back", "delete_configs", "delete_volumes", "save_cancelled",
     "cancel_queue_next"}

\* The handler of ActivityError runs outside the try: its own failures end
\* the run, after the finally clause.
ErrorSteps ==
    {"error_finish", "error_set_production", "error_remove_superseded", "error_queue_next"}

PCs == {"closed"} \cup DeploySteps \cup CancelSteps \cup ErrorSteps

ASSUME FaultAssumption ==
    /\ FaultySteps \subseteq PCs \ {"closed"}
    /\ MaxFaults \in Nat /\ MaxTimeouts \in Nat /\ MaxToggles \in Nat
    /\ MonitorResults \subseteq {"HEALTHY", "UNHEALTHY", "STARTING"}

Maybe(S) == S \cup {None}

RunType ==
    [pc : PCs, cur : Maybe(Deployments), slot : Slots, prev : Maybe(Deployments),
     prevFailed : BOOLEAN, cancels : SUBSET Deployments,
     result : {"HEALTHY", "FAILED"}, step : 0 .. 6, madeVolumes : SUBSET Volumes,
     madeConfigs : SUBSET Configs, next : Maybe(Deployments), nextSlot : Slots]

\* stopped is history: the deployments whose last toggle put them to sleep.
ToggleType ==
    [pc : {"idle", "start", "stop", "wait_down"}, dep : Maybe(Deployments),
     stopped : SUBSET Deployments]
NoToggle == [pc |-> "idle", dep |-> None, stopped |-> {}]

ToggleEnds(stopped) == toggle' = [pc |-> "idle", dep |-> None, stopped |-> stopped]

cur == run.cur
payload == snapshot[cur]

Goto(pc) == run' = [run EXCEPT !.pc = pc]

\* Shorthands for what a step leaves alone.
OutsideRun == <<requestVars, toggle, spent>>
Immutable == <<snapshot, addedUrls, appliedUrls>>

-----------------------------------------------------------------------------
(* Cancellation points                                                     *)

\* Faulty variant: numbers the last step one too high.
LastPointTooHigh ==
    [get_previous |-> 1, create_configs |-> 2, scale_down |-> 3, pull |-> 4,
     healthcheck |-> 5, promote |-> 7]

\* The step each cancellation point passes to check_for_cancellation, by the
\* activity that follows it.
LastCompleted ==
    [get_previous |-> 1, create_configs |-> 2, scale_down |-> 3, pull |-> 4,
     healthcheck |-> 5, promote |-> 6]

Requested == cur \in run.cancels

AtCancellationPoint == run.pc \in DOMAIN LastCompleted

\* check_for_cancellation answers True: handle_cancellation starts.
BeginCancellation ==
    /\ AtCancellationPoint
    /\ Requested
    /\ run' = [run EXCEPT !.pc = "set_cancelling", !.step = LastCompleted[run.pc]]
    /\ UNCHANGED <<resources, OutsideRun>>

-----------------------------------------------------------------------------
(* From the start of the run to the new service                            *)

AcquireSemaphore ==
    /\ run.pc = "acquire"
    /\ Goto("prepare")
    /\ UNCHANGED <<resources, OutsideRun>>

PrepareDeployment ==
    /\ run.pc = "prepare"
    /\ rows' = Prepare(rows, cur)
    /\ Goto("get_previous")
    /\ UNCHANGED <<Immutable, docker, route, schedules, OutsideRun>>

IsPreviousProduction(p) == IsNewest(p, Production(rows) \ {cur})

GetPreviousProduction ==
    /\ run.pc = "get_previous" /\ ~Requested
    /\ \E p \in Maybe(Deployments) :
        /\ IsPreviousProduction(p)
        /\ run' = [run EXCEPT !.pc = "create_volumes", !.prev = p,
                              !.prevFailed = p # None /\ rows[p].status = "FAILED"]
    /\ UNCHANGED <<resources, OutsideRun>>

\* Faulty variant: reports the volumes that were there as created.
ClaimVolumes ==
    /\ run.pc = "create_volumes"
    /\ volumes' = volumes \cup payload.volumes
    /\ run' = [run EXCEPT !.pc = "create_configs", !.madeVolumes = payload.volumes]
    /\ UNCHANGED <<database, swarm, configs, route, schedules, OutsideRun>>

CreateVolumes ==
    /\ run.pc = "create_volumes"
    /\ volumes' = volumes \cup payload.volumes
    /\ run' = [run EXCEPT !.pc = "create_configs",
                          !.madeVolumes = payload.volumes \ volumes]
    /\ UNCHANGED <<database, swarm, configs, route, schedules, OutsideRun>>

CreateConfigs ==
    /\ run.pc = "create_configs" /\ ~Requested
    /\ configs' = configs \cup payload.configs
    /\ run' = [run EXCEPT !.pc = "scale_down",
                          !.madeConfigs = payload.configs \ configs]
    /\ UNCHANGED <<database, swarm, volumes, route, schedules, OutsideRun>>

\* Faulty variant: tests the status of the previous deployment the wrong way.
MustScaleDownFailed == payload.exclusive /\ run.prev # None /\ run.prevFailed

\* The previous deployment must stop first: they share ports or volumes.
MustScaleDown == payload.exclusive /\ run.prev # None /\ ~run.prevFailed

SkipScaleDown ==
    /\ run.pc = "scale_down" /\ ~Requested
    /\ MustScaleDown => swarm[run.prev].replicas = "absent"
    /\ Goto("pull")
    /\ UNCHANGED <<resources, OutsideRun>>

ScaleDownPrevious ==
    /\ run.pc = "scale_down" /\ ~Requested
    /\ MustScaleDown
    /\ swarm[run.prev].replicas # "absent"
    /\ swarm' = SetReplicas(run.prev, "down")
    /\ Goto("wait_down")
    /\ UNCHANGED <<database, volumes, configs, route, schedules, OutsideRun>>

\* wait_for_service_to_be_down, then the row and the schedules.
PreviousIsDown ==
    /\ run.pc = "wait_down"
    /\ swarm[run.prev].replicas # "up"
    /\ PutToSleep(run.prev, "other")
    /\ Goto("pull")
    /\ UNCHANGED <<Immutable, docker, route, OutsideRun>>

\* Someone woke the service up: the activity times out, its retry stops it.
RetryScaleDown ==
    /\ run.pc = "wait_down"
    /\ swarm[run.prev].replicas = "up"
    /\ swarm' = SetReplicas(run.prev, "down")
    /\ UNCHANGED <<database, volumes, configs, route, schedules, run, OutsideRun>>

PullImage ==
    /\ run.pc = "pull" /\ ~Requested
    /\ \/ Goto("create_service")
       \/ run' = [run EXCEPT !.pc = "remove_own", !.result = "FAILED"]
    /\ UNCHANGED <<resources, OutsideRun>>

\* The alias of the new service is the slot of the run's payload.
CreateService ==
    /\ run.pc = "create_service"
    /\ swarm' = IF swarm[cur].replicas = "absent"
                THEN [swarm EXCEPT ![cur] = [replicas |-> "up", alias |-> run.slot]]
                ELSE swarm
    /\ Goto("healthcheck")
    /\ UNCHANGED <<database, volumes, configs, route, schedules, OutsideRun>>

-----------------------------------------------------------------------------
(* The health check and what follows it                                    *)

CheckingHealth ==
    \/ run.pc = "polling"
    \/ run.pc = "healthcheck" /\ ~Requested

\* run_deployment_healthcheck saves STARTING while the task is starting.
PollHealth ==
    /\ CheckingHealth
    /\ rows' = SetStatus(rows, cur, "STARTING")
    /\ Goto("polling")
    /\ UNCHANGED <<Immutable, docker, route, schedules, OutsideRun>>

HealthcheckEnds ==
    /\ CheckingHealth
    /\ \/ run' = [run EXCEPT !.pc = "expose", !.result = "HEALTHY"]
       \/ run' = [run EXCEPT !.pc = "remove_own", !.result = "FAILED"]
    /\ UNCHANGED <<resources, OutsideRun>>

Dial(R, urls, alias) == [u \in Urls |-> IF u \in urls THEN alias ELSE R[u]]

\* Faulty variant: exposes the URLs the deployment adds, not the ones it keeps.
ExposeAdded ==
    /\ run.pc = "expose"
    /\ route' = Dial(route, addedUrls[cur], run.slot)
    /\ Goto("promote")
    /\ UNCHANGED <<database, docker, schedules, OutsideRun>>

Expose ==
    /\ run.pc = "expose"
    /\ route' = Dial(route, payload.urls, run.slot)
    /\ Goto("promote")
    /\ UNCHANGED <<database, docker, schedules, OutsideRun>>

\* cleanup_previous_production_deployment (the method) starts by deleting the
\* schedules of the previous deployment; without one it is skipped.
DeletePreviousSchedules ==
    /\ run.pc = "promote" /\ ~Requested
    /\ IF run.prev = None
       THEN Goto("monitor_schedule") /\ UNCHANGED schedules
       ELSE /\ schedules' = [schedules EXCEPT ![run.prev] = NoSchedule]
            /\ Goto("remove_previous")
    /\ UNCHANGED <<database, docker, route, OutsideRun>>

RemoveService(d) == swarm' = SetReplicas(d, "absent")

RemovePreviousService ==
    /\ run.pc = "remove_previous"
    /\ RemoveService(run.prev)
    /\ Goto("remove_configs")
    /\ UNCHANGED <<database, volumes, configs, route, schedules, OutsideRun>>

\* An activity that cannot remove what Docker still uses fails: see Fail.
RemoveOldConfigs ==
    /\ run.pc = "remove_configs"
    /\ (configs \ payload.configs) \cap ConfigsInUse = {}
    /\ configs' = configs \cap payload.configs
    /\ Goto("remove_volumes")
    /\ UNCHANGED <<database, swarm, volumes, route, schedules, OutsideRun>>

RemoveOldVolumes ==
    /\ run.pc = "remove_volumes"
    /\ (volumes \ payload.volumes) \cap VolumesInUse = {}
    /\ volumes' = volumes \cap payload.volumes
    /\ Goto("remove_urls")
    /\ UNCHANGED <<database, swarm, configs, route, schedules, OutsideRun>>

RemoveOldUrls ==
    /\ run.pc = "remove_urls"
    /\ route' = Dial(route, Urls \ payload.urls, "none")
    /\ Goto("mark_removed")
    /\ UNCHANGED <<database, docker, schedules, OutsideRun>>

MarkPreviousRemoved ==
    /\ run.pc = "mark_removed"
    /\ rows' = MarkRemoved(rows, run.prev)
    /\ Goto("monitor_schedule")
    /\ UNCHANGED <<Immutable, docker, route, schedules, OutsideRun>>

CreateMonitorSchedule ==
    /\ run.pc = "monitor_schedule"
    /\ schedules' = [schedules EXCEPT ![cur].monitor = Create(@)]
    /\ Goto("stats_schedule")
    /\ UNCHANGED <<database, docker, route, OutsideRun>>

CreateStatsSchedule ==
    /\ run.pc = "stats_schedule"
    /\ schedules' = [schedules EXCEPT ![cur].metrics = Create(@)]
    /\ Goto("finish")
    /\ UNCHANGED <<database, docker, route, OutsideRun>>

RemoveOwnService ==
    /\ run.pc = "remove_own"
    /\ RemoveService(cur)
    /\ Goto("scale_back")
    /\ UNCHANGED <<database, volumes, configs, route, schedules, OutsideRun>>

ScaleBackPrevious ==
    /\ run.pc = "scale_back"
    /\ IF run.prev # None /\ ~run.prevFailed THEN ScaleBack(run.prev, FALSE)
       ELSE UNCHANGED <<rows, swarm, schedules>>
    /\ Goto("finish")
    /\ UNCHANGED <<Immutable, volumes, configs, route, OutsideRun>>

\* finish_and_save_deployment.  The handler of ActivityError runs it too, with
\* ErrorFinish for a start.
FinishDeployment ==
    /\ run.pc = "finish"
    /\ rows' = SaveResult(rows, cur, run.result)
    /\ Goto(IF BecomesProduction(rows, cur, run.result)
            THEN "set_production" ELSE "cleanup_unclean")
    /\ UNCHANGED <<Immutable, docker, route, schedules, OutsideRun>>

MakeProduction ==
    /\ run.pc \in {"set_production", "error_set_production"}
    /\ rows' = SetProduction(rows, cur)
    /\ Goto(IF run.pc = "set_production" THEN "remove_superseded"
            ELSE "error_remove_superseded")
    /\ UNCHANGED <<Immutable, docker, route, schedules, OutsideRun>>

RemoveSupersededRows ==
    /\ run.pc \in {"remove_superseded", "error_remove_superseded"}
    /\ rows' = RemoveSuperseded(rows, cur)
    /\ Goto(IF run.pc = "remove_superseded" THEN "cleanup_unclean" ELSE "error_queue_next")
    /\ UNCHANGED <<Immutable, docker, route, schedules, OutsideRun>>

\* A service that was left behind is only reported; the rows and the schedules
\* of the others are cleaned up.
CleanupUncleanDeployments ==
    /\ run.pc = "cleanup_unclean"
    /\ rows' = CleanupUnclean(rows, cur)
    /\ schedules' = [d \in Deployments |->
                        IF d \in Unclean(rows, cur) /\ swarm[d].replicas = "absent"
                        THEN NoSchedule ELSE schedules[d]]
    /\ Goto("queue_next")
    /\ UNCHANGED <<Immutable, docker, route, OutsideRun>>

-----------------------------------------------------------------------------
(* The end of a run                                                        *)

\* get_previous_queued_deployment: the oldest queued deployment, with a slot
\* computed from the production deployment of this moment.
GetNextQueued ==
    \E d \in Maybe(Deployments), latest \in Maybe(Deployments) :
        /\ IsOldest(d, WithStatus(rows, {"QUEUED"}))
        /\ IsNewest(latest, Production(rows))
        /\ LET slot == NextSlot(rows, latest)
           IN  IF d = None
               THEN rows' = rows /\ Goto("release")
               ELSE /\ rows' = [rows EXCEPT ![d].slot = slot]
                    /\ run' = [run EXCEPT !.pc = "release", !.next = d,
                                          !.nextSlot = slot]

QueueNext ==
    /\ run.pc \in {"queue_next", "cancel_queue_next", "error_queue_next"}
    /\ GetNextQueued
    /\ UNCHANGED <<Immutable, docker, route, schedules, OutsideRun>>

\* The finally clause releases the semaphore; then the run ends, or continues
\* as a new one that knows nothing of the signals this one received.
Release ==
    /\ run.pc = "release"
    /\ run' = IF run.next = None THEN NoRun ELSE NewRun(run.next, run.nextSlot)
    /\ UNCHANGED <<resources, OutsideRun>>

-----------------------------------------------------------------------------
(* handle_cancellation                                                     *)

SetCancelling ==
    /\ run.pc = "set_cancelling"
    /\ rows' = SetStatus(rows, cur, "CANCELLING")
    /\ Goto("reset_urls")
    /\ UNCHANGED <<Immutable, docker, route, schedules, OutsideRun>>

\* Faulty variant: removes the new URLs and leaves the others where they are.
RemoveAddedUrls ==
    /\ run.pc = "reset_urls"
    /\ route' = IF run.step < 6 THEN route ELSE Dial(route, addedUrls[cur], "none")
    /\ Goto("cancel_service")
    /\ UNCHANGED <<database, docker, schedules, OutsideRun>>

\* The URLs this deployment added are removed, those of the production
\* deployment are pointed back at it.
ResetUrls ==
    /\ run.pc = "reset_urls"
    /\ IF run.step < 6 THEN UNCHANGED route
       ELSE \E p \in Maybe(Deployments) :
                LET kept == Dial(route, addedUrls[cur], "none")
                IN  /\ IsPreviousProduction(p)
                    /\ route' = IF p = None THEN kept
                                ELSE Dial(kept, snapshot[p].urls, rows[p].slot)
    /\ Goto("cancel_service")
    /\ UNCHANGED <<database, docker, schedules, OutsideRun>>

\* Faulty variant: leaves the service of a step too early.
CancelExposedService ==
    /\ run.pc = "cancel_service"
    /\ IF run.step >= 6 THEN RemoveService(cur) ELSE UNCHANGED swarm
    /\ Goto(IF run.step >= 4 THEN "cancel_previous" ELSE "delete_configs")
    /\ UNCHANGED <<database, volumes, configs, route, schedules, OutsideRun>>

CancelService ==
    /\ run.pc = "cancel_service"
    /\ IF run.step >= 5 THEN RemoveService(cur) ELSE UNCHANGED swarm
    /\ Goto(IF run.step >= 4 THEN "cancel_previous" ELSE "delete_configs")
    /\ UNCHANGED <<database, volumes, configs, route, schedules, OutsideRun>>

\* The previous production deployment is looked up again.
CancelGetPrevious ==
    /\ run.pc = "cancel_previous"
    /\ \E p \in Maybe(Deployments) :
        /\ IsPreviousProduction(p)
        /\ run' = [run EXCEPT !.pc = "cancel_scale_back", !.prev = p]
    /\ UNCHANGED <<resources, OutsideRun>>

CancelScaleBack ==
    /\ run.pc = "cancel_scale_back"
    /\ IF run.prev # None THEN ScaleBack(run.prev, FALSE)
       ELSE UNCHANGED <<rows, swarm, schedules>>
    /\ Goto("delete_configs")
    /\ UNCHANGED <<Immutable, volumes, configs, route, OutsideRun>>

DeleteCreatedConfigs ==
    /\ run.pc = "delete_configs"
    /\ run.madeConfigs \cap ConfigsInUse = {}
    /\ configs' = IF run.step >= 3 THEN configs \ run.madeConfigs ELSE configs
    /\ Goto("delete_volumes")
    /\ UNCHANGED <<database, swarm, volumes, route, schedules, OutsideRun>>

DeleteCreatedVolumes ==
    /\ run.pc = "delete_volumes"
    /\ run.madeVolumes \cap VolumesInUse = {}
    /\ volumes' = volumes \ run.madeVolumes
    /\ Goto("save_cancelled")
    /\ UNCHANGED <<database, swarm, configs, route, schedules, OutsideRun>>

SaveCancelledDeployment ==
    /\ run.pc = "save_cancelled"
    /\ rows' = SaveCancelled(rows, cur)
    /\ Goto("cancel_queue_next")
    /\ UNCHANGED <<Immutable, docker, route, schedules, OutsideRun>>

-----------------------------------------------------------------------------
(* Failures                                                                *)

\* Docker refuses a removal: the activity fails however often it is retried.
Refused ==
    \/ run.pc = "remove_configs" /\ (configs \ payload.configs) \cap ConfigsInUse # {}
    \/ run.pc = "remove_volumes" /\ (volumes \ payload.volumes) \cap VolumesInUse # {}
    \/ run.pc = "delete_configs" /\ run.madeConfigs \cap ConfigsInUse # {}
    \/ run.pc = "delete_volumes" /\ run.madeVolumes \cap VolumesInUse # {}

\* Faulty variant: a cancellation that fails is abandoned.
AbandonCancellation ==
    run' = IF run.pc \in {"acquire", "release"} THEN NoRun
           ELSE IF run.pc \in ErrorSteps \cup CancelSteps THEN [run EXCEPT !.pc = "release"]
           ELSE [run EXCEPT !.pc = "error_finish"]

\* Where an ActivityError leads.  The semaphore is acquired before the try and
\* released in the finally clause: a failure there ends the run, the pending
\* continue_as_new with it.
AfterActivityError ==
    run' = IF run.pc \in {"acquire", "release"} THEN NoRun
           ELSE IF run.pc \in ErrorSteps THEN [run EXCEPT !.pc = "release"]
           ELSE [run EXCEPT !.pc = "error_finish"]

\* The activities the code skips when there is nothing to do.
Executes ==
    CASE run.pc = "create_volumes" -> payload.volumes # {}
      [] run.pc = "create_configs" -> payload.configs # {}
      [] run.pc = "scale_down" -> MustScaleDown
      [] run.pc = "expose" -> payload.urls # {}
      [] run.pc = "promote" -> run.prev # None
      [] run.pc = "scale_back" -> run.prev # None /\ ~run.prevFailed
      [] run.pc = "reset_urls" -> run.step >= 6
      [] run.pc = "cancel_service" -> run.step >= 5
      [] run.pc = "cancel_scale_back" -> run.prev # None
      [] run.pc = "delete_configs" -> run.madeConfigs # {}
      [] run.pc = "delete_volumes" -> run.madeVolumes # {}
      [] OTHER -> TRUE

Fail ==
    /\ \/ Refused /\ UNCHANGED spent
       \/ /\ run.pc \in FaultySteps
          /\ Executes
          /\ AtCancellationPoint => ~Requested
          /\ spent.faults < MaxFaults
          /\ spent' = [spent EXCEPT !.faults = @ + 1]
    /\ AfterActivityError
    /\ UNCHANGED <<resources, requestVars, toggle>>

\* `finally: return` in scale_down_and_remove_docker_service_deployment drops
\* the exception: the run goes on, the service stays.
SwallowedFailure ==
    /\ run.pc \in FaultySteps \cap {"remove_previous", "remove_own", "cancel_service"}
    /\ Executes
    /\ spent.faults < MaxFaults
    /\ spent' = [spent EXCEPT !.faults = @ + 1]
    /\ Goto(CASE run.pc = "remove_previous" -> "remove_configs"
              [] run.pc = "remove_own" -> "scale_back"
              [] run.pc = "cancel_service" -> "cancel_previous")
    /\ UNCHANGED <<resources, requestVars, toggle>>

\* Faulty variant: does not queue the next deployment.
ErrorFinishAndStop ==
    /\ run.pc = "error_finish"
    /\ rows' = SaveResult(rows, cur, "FAILED")
    /\ Goto("release")
    /\ UNCHANGED <<Immutable, docker, route, schedules, OutsideRun>>

\* except ActivityError: nothing is undone, the deployment is saved as failed.
ErrorFinish ==
    /\ run.pc = "error_finish"
    /\ rows' = SaveResult(rows, cur, "FAILED")
    /\ Goto(IF BecomesProduction(rows, cur, "FAILED")
            THEN "error_set_production" ELSE "error_queue_next")
    /\ UNCHANGED <<Immutable, docker, route, schedules, OutsideRun>>

\* The activity dies between two of its updates and runs again from the first.
FinishAgain ==
    /\ run.pc \in FaultySteps \cap {"set_production", "remove_superseded",
                                   "error_set_production", "error_remove_superseded"}
    /\ spent.faults < MaxFaults
    /\ spent' = [spent EXCEPT !.faults = @ + 1]
    /\ Goto(IF run.pc \in ErrorSteps THEN "error_finish" ELSE "finish")
    /\ UNCHANGED <<resources, requestVars, toggle>>

\* The execution timeout covers the run and those it continues as.
ExecutionTimeout ==
    /\ RunOpen
    /\ spent.timeouts < MaxTimeouts
    /\ spent' = [spent EXCEPT !.timeouts = @ + 1]
    /\ run' = NoRun
    /\ UNCHANGED <<resources, requestVars, toggle>>

-----------------------------------------------------------------------------
(* ToggleDockerServiceWorkflow and MonitorDockerDeploymentWorkflow         *)

\* The view reads the production deployment into the payload and starts the
\* workflow; while one is open, starting another has no effect.
RequestToggle ==
    /\ toggle.pc = "idle"
    /\ spent.toggles < MaxToggles
    /\ spent' = [spent EXCEPT !.toggles = @ + 1]
    /\ \E d \in Production(rows), desired \in {"start", "stop"} :
        /\ IsNewest(d, Production(rows))
        /\ toggle' = [toggle EXCEPT !.pc = desired, !.dep = d]
    /\ UNCHANGED <<resources, requestVars, run>>

ToggleStart ==
    /\ toggle.pc = "start"
    /\ ScaleBack(toggle.dep, TRUE)
    /\ ToggleEnds(toggle.stopped \ {toggle.dep})
    /\ UNCHANGED <<Immutable, volumes, configs, route, requestVars, run, spent>>

ToggleStop ==
    /\ toggle.pc = "stop"
    /\ IF swarm[toggle.dep].replicas = "absent"
       THEN ToggleEnds(toggle.stopped) /\ UNCHANGED swarm
       ELSE /\ swarm' = SetReplicas(toggle.dep, "down")
            /\ toggle' = [toggle EXCEPT !.pc = "wait_down"]
    /\ UNCHANGED <<database, volumes, configs, route, schedules, requestVars, run, spent>>

ToggleIsDown ==
    /\ toggle.pc = "wait_down"
    /\ swarm[toggle.dep].replicas # "up"
    /\ PutToSleep(toggle.dep, "manual")
    /\ ToggleEnds(toggle.stopped \cup {toggle.dep})
    /\ UNCHANGED <<Immutable, docker, route, requestVars, run, spent>>

ToggleRetryStop ==
    /\ toggle.pc = "wait_down"
    /\ swarm[toggle.dep].replicas = "up"
    /\ swarm' = SetReplicas(toggle.dep, "down")
    /\ UNCHANGED <<database, volumes, configs, route, schedules, requestVars, run,
                   toggle, spent>>

\* One check of the monitor and its save, which leaves a sleeping, removed or
\* demoted deployment alone.
MonitorDeployment(d) ==
    /\ schedules[d].monitor = "active"
    /\ swarm[d].replicas # "absent"
    /\ rows[d].production
    /\ rows[d].status \notin {"SLEEPING", "REMOVED"}
    /\ \E status \in MonitorResults :
        /\ swarm[d].replicas = "down" => status = "UNHEALTHY"
        /\ rows' = [rows EXCEPT ![d].status = status, ![d].marker = "other"]
    /\ UNCHANGED <<Immutable, docker, route, schedules, requestVars, run, toggle, spent>>

-----------------------------------------------------------------------------
DeployStep ==
    \/ AcquireSemaphore \/ PrepareDeployment \/ GetPreviousProduction
    \/ CreateVolumes \/ CreateConfigs
    \/ SkipScaleDown \/ ScaleDownPrevious \/ PreviousIsDown \/ RetryScaleDown
    \/ PullImage \/ CreateService \/ PollHealth \/ HealthcheckEnds \/ Expose
    \/ DeletePreviousSchedules \/ RemovePreviousService \/ RemoveOldConfigs
    \/ RemoveOldVolumes \/ RemoveOldUrls \/ MarkPreviousRemoved
    \/ CreateMonitorSchedule \/ CreateStatsSchedule
    \/ RemoveOwnService \/ ScaleBackPrevious
    \/ FinishDeployment \/ MakeProduction \/ RemoveSupersededRows
    \/ CleanupUncleanDeployments \/ QueueNext \/ Release

CancellationStep ==
    \/ BeginCancellation \/ SetCancelling \/ ResetUrls \/ CancelService
    \/ CancelGetPrevious \/ CancelScaleBack \/ DeleteCreatedConfigs
    \/ DeleteCreatedVolumes \/ SaveCancelledDeployment

FailureStep == Fail \/ SwallowedFailure \/ ErrorFinish \/ FinishAgain

RunStep == DeployStep \/ CancellationStep \/ FailureStep

ToggleStep == ToggleStart \/ ToggleStop \/ ToggleIsDown \/ ToggleRetryStop

Next ==
    \/ (DeployRequestStep \/ SignalStep) /\ UNCHANGED <<toggle, spent>>
    \/ /\ Undisturbed
       /\ \/ CancelRequestStep /\ UNCHANGED <<toggle, spent>>
          \/ RunStep
          \/ ExecutionTimeout
          \/ RequestToggle
          \/ ToggleStep
          \/ \E d \in Deployments : MonitorDeployment(d)

Init ==
    /\ ResourcesInit
    /\ RequestInit
    /\ toggle = NoToggle
    /\ spent = [faults |-> 0, timeouts |-> 0, toggles |-> 0]

Spec == Init /\ [][Next]_vars

-----------------------------------------------------------------------------
(* Properties                                                              *)

\* The values every variable ranges over.
TypeOK ==
    /\ ResourceTypes
    /\ RequestTypes
    /\ run \in RunType
    /\ toggle \in ToggleType
    /\ spent \in [faults : 0 .. MaxFaults, timeouts : 0 .. MaxTimeouts,
                  toggles : 0 .. MaxToggles]

\* A service never has two current production deployments, whatever runs,
\* requests, failures and retries follow one another.
OneProduction == \A d, e \in Production(rows) : d = e

\* p is between the scale-down of its service and the save of its SLEEPING
\* status, in a deployment or in a stop request.
Pausing(p) ==
    \/ run.pc = "wait_down" /\ run.prev = p
    \/ toggle.pc = "wait_down" /\ toggle.dep = p

\* The new deployment has been exposed and takes the place of p.
Replacing(p) ==
    /\ run.prev = p
    /\ run.pc \in {"remove_previous", "remove_configs", "remove_volumes",
                   "remove_urls", "mark_removed"}

\* Zero downtime: unless it was put to sleep, each URL of the production
\* deployment reaches a running container at every moment, the whole of the
\* replacement included; then only the URLs the new configuration drops.
LiveUrlsServed ==
    \A p \in Production(rows) :
        rows[p].status \notin {"FAILED", "SLEEPING"} /\ ~Pausing(p)
            => \A u \in snapshot[p].urls :
                Served(u) \/ (Replacing(p) /\ u \notin payload.urls)

\* Two swarm services never answer to the same network alias, so that a route
\* never spreads requests over two deployments.
SlotsDisjoint ==
    \A d, e \in Deployed : d # e => swarm[d].alias # swarm[e].alias

\* What the proxy sends to an alias reaches the deployment it was sent to, and
\* it only: the URLs are served, and no alias has two owners.
AliasesServe == LiveUrlsServed /\ SlotsDisjoint

\* When no deployment is in progress, the only swarm service left is the one
\* of the production deployment: each way a run ends removes its own.
NoLeftoverService == ~RunOpen => Deployed \subseteq Production(rows)

\* A swarm service never loses a volume or a config it was created with, to
\* the cleanup of a later deployment or to a cancellation.
ResourcesExist ==
    \A d \in Deployed :
        /\ snapshot[d].configs \subseteq configs
        /\ snapshot[d].volumes \subseteq volumes

\* When no deployment is in progress, no row that is not in production is left
\* in a transient or a live status.
SettledRows ==
    ~RunOpen =>
        \A d \in Existing(rows) \ Production(rows) :
            rows[d].status \in {"QUEUED", "FAILED", "REMOVED", "CANCELLED"}

\* A row is PREPARING or CANCELLING only while the open run is deploying it.
TransientRowsAreRunning ==
    \A d \in WithStatus(rows, {"PREPARING", "CANCELLING"}) : RunOpen /\ cur = d

\* When no deployment is in progress, no production deployment is still asleep
\* on behalf of a deployment: failed and cancelled ones gave it back.
ProductionAwake ==
    ~RunOpen => \A p \in Production(rows) :
        rows[p].status = "SLEEPING" => rows[p].marker = "manual"

\* When nothing is in progress, the production deployment is monitored, and it
\* is the only one that has schedules.
SchedulesMatchProduction ==
    ~RunOpen =>
        \A d \in Deployments :
            IF d \in Production(rows)
            THEN rows[d].status \notin {"FAILED", "SLEEPING"}
                    => schedules[d].monitor = "active"
            ELSE schedules[d] = NoSchedule

\* Two deployments whose configurations exclude a second copy (they have ports
\* or writable volumes) never run at the same time.
ExclusiveAlone ==
    \A d, e \in Running :
        d # e => ~(snapshot[d].exclusive /\ snapshot[e].exclusive)

\* When no deployment is in progress, the proxy sends each URL of the production
\* deployment to that deployment, asleep or not: an exposure that was cancelled
\* has been undone.
RoutesMatchProduction ==
    ~RunOpen => \A p \in Production(rows) :
        rows[p].status # "FAILED" =>
            \A u \in snapshot[p].urls : route[u] = swarm[p].alias

\* What is installed around the service is that of its production deployment.
InstalledForProduction == SchedulesMatchProduction /\ RoutesMatchProduction

\* A deployment that shares no port or volume with the others does not wake up
\* what the user put to sleep, however it ends: only a start request does.
StatelessKeepsAsleep ==
    \A p \in toggle.stopped :
        (\A d \in Deployments \ {p} : ~snapshot[d].exclusive)
            => swarm[p].replicas # "up"

\* A deployment gives up production only for one that is running, healthy and
\* already receives the requests of its URLs.
ProductionHandover ==
    [][\A p \in Production(rows) :
        p \notin Production(rows') =>
            /\ RunOpen /\ run.result = "HEALTHY" /\ cur # p
            /\ cur \in Running
            /\ \A u \in payload.urls : route[u] = swarm[cur].alias]_vars

-----------------------------------------------------------------------------
(* Fairness and liveness                                                   *)

\* What the system itself must go on doing.  The Temporal server schedules the
\* next activity of an open run, a health check is bounded by its timeout, the
\* API process ends a transaction and its callback, a sent signal arrives.
\* Users promise nothing: no fairness on deploying, cancelling or toggling.
Fairness ==
    /\ WF_vars(Undisturbed /\ RunStep)
    /\ WF_vars(Undisturbed /\ HealthcheckEnds)
    /\ WF_vars(Undisturbed /\ ToggleStep)
    /\ \A d \in Deployments :
        /\ WF_vars(DeliverSignal(d) /\ UNCHANGED <<toggle, spent>>)
        /\ WF_vars(/\ CommitDeploy(d) \/ SignalSuperseded(d) \/ StartDeploy(d)
                   /\ UNCHANGED <<toggle, spent>>)

FairSpec == Spec /\ Fairness

\* A deployment that is queued while a run has not yet asked for the next one
\* is taken out of the queue: run after run, whether the ones before it
\* succeed, fail, raise an ActivityError or are cancelled.
QueueServed ==
    \A d \in Deployments :
        rows[d].status = "QUEUED" /\ RunOpen /\ run.pc # "release"
            ~> rows[d].status # "QUEUED"

\* Where a cancellation point is still ahead, or the run already fails.
Interruptible ==
    PCs \ {"closed", "remove_previous", "remove_configs", "remove_volumes",
           "remove_urls", "mark_removed", "monitor_schedule", "stats_schedule",
           "finish", "set_production", "remove_superseded", "cleanup_unclean",
           "queue_next", "release"}

\* A cancellation that the run of the deployment records before its last
\* cancellation point makes it CANCELLED, or FAILED when it fails first.
CancelHonoured ==
    \A d \in Deployments :
        cur = d /\ Requested /\ run.pc \in Interruptible
            ~> rows[d].status \in {"CANCELLED", "FAILED"}

-----------------------------------------------------------------------------
(* What the tests and comments of the code say and the code does not do    *)

\* When no request and no deployment is in progress, nothing is left QUEUED.
NoStrandedDeployment ==
    ~RunOpen /\ (\A d \in Deployments : requests[d].stage \in {"none", "done"})
        => WithStatus(rows, {"QUEUED"}) = {}

\* A deployment the API has reported as CANCELLED is never deployed.
CancelledStaysCancelled ==
    [][\A d \in Deployments :
        rows[d].status = "CANCELLED" => rows'[d].status \in {"CANCELLED", "CANCELLING"}]_vars
=============================================================================
