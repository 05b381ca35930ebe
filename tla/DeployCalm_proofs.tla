-------------------------- MODULE DeployCalm_proofs --------------------------
(***************************************************************************)
(* What a service of DockerDeploy is worth to its users as long as no      *)
(* activity fails for good and no execution times out: its URLs are served *)
(* without interruption, and what a run leaves behind is in order.  For    *)
(* any number of deployments, of start and stop requests and of volumes,   *)
(* configs and URLs, and wherever a deployment is cancelled.               *)
(*                                                                         *)
(* Then, under one more hypothesis for each: two deployments that answer   *)
(* at the same time have different aliases; those whose configurations     *)
(* exclude each other never run together, and a run that ends leaves every *)
(* row settled.                                                            *)
(***************************************************************************)
EXTENDS DeployHandover_proofs

-----------------------------------------------------------------------------
(* The inductive invariant                                                 *)

\* The service of the previous deployment is removed before its row is.
Replaced == Promoting \ {"remove_previous"}
Gone(p) == run.prev = p /\ run.pc \in Replaced
Current(p) == rows[p].production /\ ~Gone(p)

Leaving == {"set_cancelling", "reset_urls", "cancel_service"}

\* The new deployment has replaced the previous one and has not got the flag yet.
Kept == run.pc \in {"finish", "set_production"} /\ run.result = "HEALTHY"

\* The new service runs, and the URLs of its deployment reach it.
Up ==
    \/ run.pc \in Serving
    \/ run.pc \in Leaving /\ run.step >= 5
    \/ Kept
Dialled ==
    \/ run.pc \in Exposed
    \/ run.pc \in {"set_cancelling", "reset_urls"} /\ run.step >= 6
    \/ Kept

\* The service of the run: it is there exactly when a cancellation would remove it.
OwnService ==
    /\ Up => swarm[cur] = [replicas |-> "up", alias |-> run.slot]
    /\ run.pc = "remove_own" => swarm[cur].replicas = "absent" \/ swarm[cur].alias = run.slot
    /\ RunOpen /\ ~Up /\ run.pc # "remove_own" /\ ~rows[cur].production
         => swarm[cur].replicas = "absent"
    /\ Dialled => \A u \in payload.urls : route[u] = run.slot
    /\ run.pc = "set_production" => rows[cur].status = run.result
    /\ run.pc = "remove_superseded" => rows[cur].production

NoLeftover ==
    \A d \in Deployments :
        swarm[d].replicas # "absent" => rows[d].production \/ (RunOpen /\ d = cur)

\* The row of a deployment has the slot that its run, or its request, was given.
SlotKept ==
    /\ RunOpen => rows[cur].slot = run.slot
    /\ run.next # None => rows[run.next].slot = run.nextSlot
    /\ \A d \in Deployments :
         requests[d].stage = "committed" => rows[d].slot = requests[d].slot

\* What a run created belongs to no other service.
Installed ==
    \A d \in Deployments : swarm[d].replicas # "absent" =>
        /\ snapshot[d].configs \subseteq configs
        /\ snapshot[d].volumes \subseteq volumes
        /\ RunOpen /\ d # cur => /\ run.madeConfigs \cap snapshot[d].configs = {}
                                 /\ run.madeVolumes \cap snapshot[d].volumes = {}
HasVolumes == {"create_configs", "scale_down", "wait_down", "pull", "create_service"}
HasConfigs == HasVolumes \ {"create_configs"}
Prepared ==
    /\ run.pc \in HasVolumes => payload.volumes \subseteq volumes
    /\ run.pc \in HasConfigs => payload.configs \subseteq configs

\* Of the deployment in production: its service is there unless it failed, and runs
\* unless somebody has put it to sleep or is about to.
RunsWell(p) ==
    /\ Gone(p) => swarm[p].replicas = "absent"
    /\ Current(p) =>
        /\ swarm[p].replicas = "absent" <=> rows[p].status = "FAILED"
        /\ swarm[p].replicas # "absent" => rows[p].slot = swarm[p].alias
        /\ rows[p].status \notin {"FAILED", "SLEEPING"} /\ ~Pausing(p)
             => swarm[p].replicas = "up"
    /\ toggle.pc = "wait_down" /\ toggle.dep = p /\ Current(p) => swarm[p].replicas # "absent"

\* It sleeps for the user, or for a run that will wake it up or replace it...
Lent(p) ==
    \/ /\ run.prev = p
       /\ run.pc \in {"pull", "create_service", "healthcheck", "polling", "expose", "promote",
                      "remove_own", "scale_back", "remove_previous"}
    \/ run.pc \in Leaving /\ run.step >= 4
    \/ run.pc \in {"cancel_previous", "cancel_scale_back"}
Rested(p) ==
    Current(p) /\ rows[p].status = "SLEEPING" /\ rows[p].marker # "manual" => Lent(p)

\* ...its URLs reach it, but for those that the new deployment has taken...
Routed(p) ==
    Current(p) /\ rows[p].status # "FAILED" =>
        \A u \in snapshot[p].urls :
            route[u] = IF Dialled /\ u \in payload.urls THEN run.slot ELSE swarm[p].alias

\* ...and it is watched, as no other deployment is.
Watching == run.pc = "stats_schedule" \/ Kept
InCharge(d) == rows[d].production /\ ~(run.prev = d /\ run.pc \in Promoting)
Watched(d) ==
    IF InCharge(d)
    THEN rows[d].status # "FAILED" =>
           /\ schedules[d].monitor # "none"
           /\ rows[d].status # "SLEEPING" => schedules[d].monitor = "active"
    ELSE IF RunOpen /\ d = cur /\ Watching
         THEN schedules[d].monitor = "active"
         ELSE schedules[d] = NoSchedule

ServiceInv == \A p \in Deployments : RunsWell(p) /\ Rested(p) /\ Routed(p) /\ Watched(p)

\* What the run noted of the previous deployment is still true when it uses it.
PreviousKnown ==
    /\ run.pc \in Known \ Replaced /\ run.prev # None
         => (run.prevFailed <=> swarm[run.prev].replicas = "absent")
    /\ run.pc = "wait_down" => ~run.prevFailed
    /\ run.pc = "cancel_scale_back" =>
         \A p \in Deployments : rows[p].production => p = run.prev

CalmInv ==
    /\ StopInv /\ FaultySteps = {} /\ MaxTimeouts = 0 /\ run.pc \notin ErrorSteps
    /\ OwnService /\ NoLeftover /\ SlotKept /\ Installed /\ Prepared
    /\ ServiceInv /\ PreviousKnown

\* What every step below relies on.
LEMMA CalmFacts ==
    ASSUME CalmInv
    PROVE  /\ TypeInv /\ CoreInv /\ rows \in Rows /\ run \in RunType /\ toggle \in ToggleType
           /\ swarm \in [Deployments -> SwarmType] /\ schedules \in [Deployments -> ScheduleType]
           /\ route \in [Urls -> Slots \cup {"none"}] /\ OneFlag(rows)
           /\ snapshot \in [Deployments -> SnapshotType]
           /\ run.prev \in Maybe(Deployments) /\ None \notin Deployments
           /\ RunPlace /\ RunServes /\ RunReplaces /\ FreshRows /\ PreviousApart
           /\ RunOpen => cur \in Deployments
BY DEF CalmInv, StopInv, CoreInv, FlagInv, TypeInv, TypeOK, ResourceTypes, RunType, Rows,
       None, Deployments

\* Until the run gives it the flag, nothing else concerns its deployment.
LEMMA OwnIdle ==
    ASSUME CalmInv, RunOpen, run.pc \notin PastFlag
    PROVE  ~rows[cur].production /\ (toggle.pc # "idle" => toggle.dep # cur)
BY DEF CalmInv, StopInv, ToggleApart, Idle

-----------------------------------------------------------------------------
(* The phases of a run that nothing fails                                  *)

\* The services that are there, during the promotion: those of the run only.
LEMMA AloneDeployed ==
    ASSUME CalmInv, run.pc \in Replaced, NEW d \in Deployed
    PROVE  d = cur
<1>1. /\ RunOpen /\ run.pc \notin PastFlag /\ run.pc \in Known
      /\ swarm[d].replicas # "absent" /\ d \in Deployments
  BY DEF Deployed, Replaced, Promoting, PastFlag, RunOpen, Known
<1>2. ASSUME rows[d].production PROVE d = cur
  <2>1. d \in Production(rows)
    BY <1>1, <1>2, CalmFacts DEF Production, Existing, FreshRows, Fresh, Idle, Begun
  <2>2. d \in {cur, run.prev}
    BY <1>1, <2>1, CalmFacts DEF RunReplaces
  <2>3. d # run.prev
    BY <1>1 DEF CalmInv, ServiceInv, RunsWell, Gone
  <2> QED
    BY <2>2, <2>3
<1> QED
  BY <1>1, <1>2 DEF CalmInv, NoLeftover

\* The services that are there, once a cancellation has removed that of the run.
LEMMA NoneCreated ==
    ASSUME CalmInv, run.pc \in {"delete_configs", "delete_volumes"}
    PROVE  \A d \in Deployments : swarm[d].replicas # "absent" =>
               /\ d # cur
               /\ run.madeConfigs \cap snapshot[d].configs = {}
               /\ run.madeVolumes \cap snapshot[d].volumes = {}
<1>1. RunOpen /\ run.pc \notin PastFlag /\ run.pc # "remove_own" /\ ~Up
  BY DEF RunOpen, PastFlag, Up, Kept, Serving, Exposed, Promoting, Leaving
<1>2. swarm[cur].replicas = "absent"
  BY <1>1, OwnIdle DEF CalmInv, OwnService
<1> QED
  BY <1>1, <1>2 DEF CalmInv, Installed

\* Docker refuses no removal.
LEMMA NotRefused == ASSUME CalmInv PROVE ~Refused
<1>1. ASSUME run.pc \in Replaced
      PROVE  ConfigsInUse \subseteq payload.configs /\ VolumesInUse \subseteq payload.volumes
  BY <1>1, AloneDeployed DEF ConfigsInUse, VolumesInUse, Running, Deployed, payload
<1>2. ASSUME run.pc \in {"delete_configs", "delete_volumes"}
      PROVE  /\ run.madeConfigs \cap ConfigsInUse = {}
             /\ run.madeVolumes \cap VolumesInUse = {}
  BY <1>2, NoneCreated DEF ConfigsInUse, VolumesInUse, Running, Deployed
<1> QED
  BY <1>1, <1>2 DEF Refused, Replaced, Promoting

LEMMA CalmSteps ==
    ASSUME CalmInv, RunStep \/ ExecutionTimeout PROVE DeployStep \/ CancellationStep
<1>1. ~ExecutionTimeout
  BY DEF CalmInv, StopInv, CoreInv, FlagInv, TypeInv, TypeOK, ExecutionTimeout
<1>2. ~Fail
  BY NotRefused DEF CalmInv, Fail
<1>3. ~SwallowedFailure /\ ~ErrorFinish /\ ~FinishAgain
  BY DEF CalmInv, SwallowedFailure, ErrorFinish, FinishAgain, ErrorSteps
<1> QED
  BY <1>1, <1>2, <1>3 DEF RunStep, FailureStep

\* The run goes on with its deployment; which actions begin and end each phase.
Phases ==
    /\ RunOpen /\ RunOpen' /\ cur' = cur /\ run'.slot = run.slot /\ run'.pc \notin ErrorSteps
    /\ run'.prev = run.prev \/ GetPreviousProduction \/ CancelGetPrevious
    /\ run'.prevFailed = run.prevFailed \/ GetPreviousProduction
    /\ Up' => Up \/ CreateService
    /\ Up => Up' \/ HealthcheckEnds \/ CancelService \/ MakeProduction
    /\ run'.pc = "remove_own" => PullImage \/ HealthcheckEnds
    /\ run.pc = "remove_own" => RemoveOwnService
    /\ Dialled' => Dialled \/ Expose
    /\ Dialled => Dialled' \/ ResetUrls \/ MakeProduction
    /\ run'.pc \in Replaced => run.pc \in Replaced \/ RemovePreviousService
    /\ run.pc \in Replaced => run'.pc \in Replaced \/ MarkPreviousRemoved
    /\ run'.pc \in Promoting =>
         run.pc \in Promoting \/ (DeletePreviousSchedules /\ run.prev # None)
    /\ run.pc \in Promoting => run'.pc \in Promoting \/ MarkPreviousRemoved

MorePhases ==
    /\ run'.pc \in Known \ Replaced => run.pc \in Known \ Replaced \/ GetPreviousProduction
    /\ run'.pc = "wait_down" => ScaleDownPrevious \/ run.pc = "wait_down"
    /\ run.pc = "wait_down" => PreviousIsDown \/ run'.pc = "wait_down"
    /\ run'.pc = "cancel_scale_back" => CancelGetPrevious
    /\ run'.pc = "set_production" =>
         FinishDeployment /\ run'.result = run.result
    /\ run'.pc = "remove_superseded" => MakeProduction
    /\ run'.pc = "release" => QueueNext
    /\ run'.madeVolumes = run.madeVolumes \/ CreateVolumes
    /\ run'.madeConfigs = run.madeConfigs \/ CreateConfigs
    /\ run'.pc \in HasVolumes => run.pc \in HasVolumes \/ CreateVolumes
    /\ run'.pc \in HasConfigs => run.pc \in HasConfigs \/ CreateConfigs
    /\ Watching' => Watching \/ CreateMonitorSchedule
    /\ Watching => Watching' \/ MakeProduction
    /\ \A p \in Deployments :
         Lent(p) => Lent(p)' \/ ScaleBackPrevious \/ CancelScaleBack
                    \/ (RemovePreviousService /\ p = run.prev)

\* The ends of the phases that have two.
LEMMA PhaseEnds ==
    ASSUME CalmInv
    PROVE  /\ HealthcheckEnds => Up' \/ run'.pc = "remove_own"
           /\ CancelService \/ RemoveOwnService => ~Up' /\ run'.pc # "remove_own"
           /\ ResetUrls => ~Dialled'
<1>1. run \in RunType
  BY CalmFacts
<1>2. HealthcheckEnds => Up' \/ run'.pc = "remove_own"
  BY <1>1, PromotionMoves DEF Moves, Up, Serving
<1>3. CancelService \/ RemoveOwnService => ~Up' /\ run'.pc # "remove_own"
  BY <1>1, PromotionMoves, CancellationMoves
  DEF Moves, Up, Kept, Serving, Exposed, Promoting, Leaving
<1>4. ResetUrls => ~Dialled'
  BY <1>1, CancellationMoves DEF Moves, Dialled, Kept, Exposed, Promoting
<1> QED
  BY <1>2, <1>3, <1>4

LEMMA CalmPhases ==
    ASSUME CalmInv, DeployStep \/ CancellationStep, ~Release PROVE Phases
<1>1. /\ run \in RunType /\ run.pc \notin ErrorSteps
      /\ run.pc \in Exposed \cup {"expose"} => run.result = "HEALTHY"
      /\ run.pc \in {"remove_own", "scale_back"} => run.result = "FAILED"
  BY CalmFacts DEF CalmInv, RunServes
<1> USE DEF Moves, Phases, RunOpen, ErrorSteps, Up, Dialled, Kept, Serving, Exposed, Promoting,
            Replaced, Leaving
<1>2. ASSUME \/ AcquireSemaphore \/ PrepareDeployment \/ GetPreviousProduction
             \/ CreateVolumes \/ CreateConfigs \/ SkipScaleDown \/ ScaleDownPrevious
             \/ PreviousIsDown \/ RetryScaleDown \/ PullImage \/ CreateService
      PROVE  Phases
  BY <1>1, <1>2, ActivityMoves DEF cur
<1>3. ASSUME \/ PollHealth \/ HealthcheckEnds \/ Expose \/ DeletePreviousSchedules
             \/ RemovePreviousService \/ RemoveOldConfigs \/ RemoveOldVolumes
      PROVE  Phases
  BY <1>1, <1>3, PromotionMoves
<1>4. ASSUME \/ RemoveOldUrls \/ MarkPreviousRemoved \/ CreateMonitorSchedule
             \/ CreateStatsSchedule \/ RemoveOwnService \/ ScaleBackPrevious
      PROVE  Phases
  BY <1>1, <1>4, PromotionMoves
<1>5. ASSUME \/ FinishDeployment \/ MakeProduction \/ RemoveSupersededRows
             \/ CleanupUncleanDeployments \/ QueueNext
      PROVE  Phases
  BY <1>1, <1>5, EndMoves DEF BecomesProduction
<1>6. ASSUME \/ BeginCancellation \/ SetCancelling \/ ResetUrls \/ CancelService
             \/ CancelGetPrevious \/ CancelScaleBack \/ DeleteCreatedConfigs
             \/ DeleteCreatedVolumes \/ SaveCancelledDeployment
      PROVE  Phases
  BY <1>1, <1>6, CancellationMoves DEF AtCancellationPoint, LastCompleted
<1> QED
  BY <1>2, <1>3, <1>4, <1>5, <1>6 DEF DeployStep, CancellationStep

LEMMA MoreCalmPhases ==
    ASSUME CalmInv, DeployStep \/ CancellationStep, ~Release PROVE MorePhases
<1>1. /\ run \in RunType /\ run.pc \notin ErrorSteps /\ None \notin Deployments
      /\ run.pc \in Exposed \cup {"expose"} => run.result = "HEALTHY"
      /\ run.pc \in {"remove_own", "scale_back"} => run.result = "FAILED"
  BY CalmFacts DEF CalmInv, RunServes
<1> USE DEF Moves, MorePhases, RunOpen, ErrorSteps, Watching, Kept, Exposed, Promoting,
            Replaced, Leaving, Known, Lent, HasVolumes, HasConfigs
<1>2. ASSUME \/ AcquireSemaphore \/ PrepareDeployment \/ GetPreviousProduction
             \/ CreateVolumes \/ CreateConfigs \/ SkipScaleDown \/ ScaleDownPrevious
             \/ PreviousIsDown \/ RetryScaleDown \/ PullImage \/ CreateService
      PROVE  MorePhases
  BY <1>1, <1>2, ActivityMoves
<1>3. ASSUME \/ PollHealth \/ HealthcheckEnds \/ Expose \/ DeletePreviousSchedules
             \/ RemovePreviousService \/ RemoveOldConfigs \/ RemoveOldVolumes
      PROVE  MorePhases
  BY <1>1, <1>3, PromotionMoves
<1>4. ASSUME \/ RemoveOldUrls \/ MarkPreviousRemoved \/ CreateMonitorSchedule
             \/ CreateStatsSchedule \/ RemoveOwnService \/ ScaleBackPrevious
      PROVE  MorePhases
  BY <1>1, <1>4, PromotionMoves
<1>5. ASSUME \/ FinishDeployment \/ MakeProduction \/ RemoveSupersededRows
             \/ CleanupUncleanDeployments \/ QueueNext
      PROVE  MorePhases
  BY <1>1, <1>5, EndMoves DEF BecomesProduction
<1>6. ASSUME \/ BeginCancellation \/ SetCancelling \/ ResetUrls \/ CancelService
             \/ CancelGetPrevious \/ CancelScaleBack \/ DeleteCreatedConfigs
             \/ DeleteCreatedVolumes \/ SaveCancelledDeployment
      PROVE  MorePhases
  BY <1>1, <1>6, CancellationMoves DEF AtCancellationPoint, LastCompleted
<1> QED
  BY <1>2, <1>3, <1>4, <1>5, <1>6 DEF DeployStep, CancellationStep

-----------------------------------------------------------------------------
(* What a step of a run leaves alone                                       *)

LEMMA RunFrames ==
    ASSUME DeployStep \/ CancellationStep
    PROVE  /\ UNCHANGED route \/ Expose \/ RemoveOldUrls \/ ResetUrls
           /\ UNCHANGED configs \/ CreateConfigs \/ RemoveOldConfigs \/ DeleteCreatedConfigs
           /\ UNCHANGED volumes \/ CreateVolumes \/ RemoveOldVolumes \/ DeleteCreatedVolumes
           /\ \/ UNCHANGED schedules
              \/ DeletePreviousSchedules \/ PreviousIsDown \/ CreateMonitorSchedule
              \/ CreateStatsSchedule \/ ScaleBackPrevious \/ CancelScaleBack
              \/ CleanupUncleanDeployments
<1>1. ASSUME \/ AcquireSemaphore \/ PrepareDeployment \/ GetPreviousProduction
             \/ CreateVolumes \/ CreateConfigs \/ SkipScaleDown \/ ScaleDownPrevious
             \/ PreviousIsDown \/ RetryScaleDown \/ PullImage \/ CreateService
             \/ PollHealth \/ HealthcheckEnds \/ Expose
      PROVE  /\ UNCHANGED route \/ Expose
             /\ UNCHANGED configs \/ CreateConfigs
             /\ UNCHANGED volumes \/ CreateVolumes
             /\ UNCHANGED schedules \/ PreviousIsDown
  BY <1>1
  DEF resources, database, docker, Immutable, AcquireSemaphore, PrepareDeployment,
      GetPreviousProduction, CreateVolumes, CreateConfigs, SkipScaleDown, ScaleDownPrevious,
      PreviousIsDown, RetryScaleDown, PullImage, CreateService, PollHealth, HealthcheckEnds,
      Expose
<1>2. ASSUME \/ DeletePreviousSchedules \/ RemovePreviousService \/ RemoveOldConfigs
             \/ RemoveOldVolumes \/ RemoveOldUrls \/ MarkPreviousRemoved
             \/ CreateMonitorSchedule \/ CreateStatsSchedule
             \/ RemoveOwnService \/ ScaleBackPrevious
      PROVE  /\ UNCHANGED route \/ RemoveOldUrls
             /\ UNCHANGED configs \/ RemoveOldConfigs
             /\ UNCHANGED volumes \/ RemoveOldVolumes
             /\ \/ UNCHANGED schedules \/ DeletePreviousSchedules \/ CreateMonitorSchedule
                \/ CreateStatsSchedule \/ ScaleBackPrevious
  BY <1>2
  DEF resources, database, docker, Immutable, DeletePreviousSchedules, RemovePreviousService,
      RemoveOldConfigs, RemoveOldVolumes, RemoveOldUrls, MarkPreviousRemoved,
      CreateMonitorSchedule, CreateStatsSchedule, RemoveOwnService, ScaleBackPrevious
<1>3. ASSUME \/ FinishDeployment \/ MakeProduction \/ RemoveSupersededRows
             \/ CleanupUncleanDeployments \/ QueueNext \/ Release
      PROVE  /\ UNCHANGED <<route, configs, volumes>>
             /\ UNCHANGED schedules \/ CleanupUncleanDeployments
  BY <1>3
  DEF resources, database, docker, Immutable, FinishDeployment, MakeProduction,
      RemoveSupersededRows, CleanupUncleanDeployments, QueueNext, Release
<1>4. ASSUME CancellationStep
      PROVE  /\ UNCHANGED route \/ ResetUrls
             /\ UNCHANGED configs \/ DeleteCreatedConfigs
             /\ UNCHANGED volumes \/ DeleteCreatedVolumes
             /\ UNCHANGED schedules \/ CancelScaleBack
  BY <1>4
  DEF resources, database, docker, Immutable, CancellationStep, BeginCancellation,
      SetCancelling, ResetUrls, CancelService, CancelGetPrevious, CancelScaleBack,
      DeleteCreatedConfigs, DeleteCreatedVolumes, SaveCancelledDeployment
<1> QED
  BY <1>1, <1>2, <1>3, <1>4 DEF DeployStep

\* Only a row that leaves the queue gets another slot.
KeepsSlots(R, S) == \A e \in Deployments : S[e].slot = R[e].slot

LEMMA TransactionsKeepSlots ==
    ASSUME NEW R \in Rows, NEW d, NEW flagged, NEW status
    PROVE  /\ KeepsSlots(R, FlagForCancellation(R, flagged))
           /\ KeepsSlots(R, Prepare(R, d))
           /\ KeepsSlots(R, SetStatus(R, d, status))
           /\ KeepsSlots(R, SaveCancelled(R, d))
           /\ KeepsSlots(R, SaveResult(R, d, status))
           /\ KeepsSlots(R, SetProduction(R, d))
           /\ KeepsSlots(R, RemoveSuperseded(R, d))
           /\ KeepsSlots(R, MarkRemoved(R, d))
           /\ KeepsSlots(R, CleanupUnclean(R, d))
<1>1. KeepsSlots(R, FlagForCancellation(R, flagged))
  BY DEF KeepsSlots, FlagForCancellation, Rows, RowType
<1>2. KeepsSlots(R, Prepare(R, d)) /\ KeepsSlots(R, SetStatus(R, d, status))
  BY DEF KeepsSlots, Prepare, SetStatus, Rows, RowType
<1>3. KeepsSlots(R, SaveCancelled(R, d))
  <2>1. ASSUME NEW e \in Deployments PROVE SaveCancelled(R, d)[e].slot = R[e].slot
    BY DEF SaveCancelled, Rows, RowType
  <2> QED
    BY <2>1 DEF KeepsSlots
<1>4. KeepsSlots(R, SaveResult(R, d, status))
  <2>1. ASSUME NEW e \in Deployments PROVE SaveResult(R, d, status)[e].slot = R[e].slot
    BY DEF SaveResult, Rows, RowType
  <2> QED
    BY <2>1 DEF KeepsSlots
<1>5. KeepsSlots(R, SetProduction(R, d)) /\ KeepsSlots(R, RemoveSuperseded(R, d))
  BY DEF KeepsSlots, SetProduction, RemoveSuperseded, Rows, RowType
<1>6. KeepsSlots(R, MarkRemoved(R, d)) /\ KeepsSlots(R, CleanupUnclean(R, d))
  BY DEF KeepsSlots, MarkRemoved, CleanupUnclean, Rows, RowType
<1> QED
  BY <1>1, <1>2, <1>3, <1>4, <1>5, <1>6

LEMMA SleepKeepsSlots ==
    ASSUME rows \in Rows, NEW d, NEW b, PutToSleep(d, b) \/ ScaleBack(d, b)
    PROVE  KeepsSlots(rows, rows')
<1>1. ASSUME NEW e \in Deployments, PutToSleep(d, b) PROVE rows'[e].slot = rows[e].slot
  BY <1>1 DEF PutToSleep, Rows, RowType
<1>2. ASSUME NEW e \in Deployments, ScaleBack(d, b) PROVE rows'[e].slot = rows[e].slot
  BY <1>2 DEF ScaleBack, Rows, RowType
<1> QED
  BY <1>1, <1>2 DEF KeepsSlots

LEMMA RunKeepsSlots ==
    ASSUME CalmInv, DeployStep \/ CancellationStep, ~QueueNext
    PROVE  KeepsSlots(rows, rows')
<1>1. rows \in Rows
  BY CalmFacts
<1>2. CASE \/ PrepareDeployment \/ PollHealth \/ FinishDeployment \/ MakeProduction
           \/ RemoveSupersededRows \/ MarkPreviousRemoved \/ CleanupUncleanDeployments
           \/ SetCancelling \/ SaveCancelledDeployment
  BY <1>1, <1>2, TransactionsKeepSlots
  DEF PrepareDeployment, PollHealth, FinishDeployment, MakeProduction, RemoveSupersededRows,
      MarkPreviousRemoved, CleanupUncleanDeployments, SetCancelling, SaveCancelledDeployment
<1>3. CASE PreviousIsDown \/ ScaleBackPrevious \/ CancelScaleBack
  BY <1>1, <1>3, SleepKeepsSlots
  DEF PreviousIsDown, ScaleBackPrevious, CancelScaleBack, KeepsSlots
<1>4. CASE ErrorFinish
  BY <1>4 DEF ErrorFinish, CalmInv, ErrorSteps
<1>5. UNCHANGED rows => KeepsSlots(rows, rows')
  BY DEF KeepsSlots
<1> QED
  BY <1>2, <1>3, <1>4, <1>5, OtherStepsKeepRows DEF RunStep

LEMMA ChosenSlot ==
    ASSUME CalmInv, QueueNext, NEW e \in Deployments
    PROVE  /\ rows'[e].slot = IF run'.next = e THEN run'.nextSlot ELSE rows[e].slot
           /\ rows'[e].status = rows[e].status /\ rows'[e].marker = rows[e].marker
           /\ run'.next = e => rows[e].status = "QUEUED"
<1>1. /\ rows \in Rows /\ run \in RunType /\ None \notin Deployments
      /\ run.next # None => run.pc = "release"
  BY CalmFacts DEF RunPlace
<1>2. PICK d \in Maybe(Deployments), latest \in Maybe(Deployments) :
        /\ IsOldest(d, WithStatus(rows, {"QUEUED"}))
        /\ LET slot == NextSlot(rows, latest)
           IN  IF d = None
               THEN rows' = rows /\ Goto("release")
               ELSE /\ rows' = [rows EXCEPT ![d].slot = slot]
                    /\ run' = [run EXCEPT !.pc = "release", !.next = d, !.nextSlot = slot]
  BY DEF QueueNext, GetNextQueued
<1>3. CASE d = None
  BY <1>1, <1>2, <1>3 DEF QueueNext, Goto, RunType
<1>4. CASE d # None
  <2>1. run'.next = d /\ run'.nextSlot = NextSlot(rows, latest)
    BY <1>1, <1>2, <1>4 DEF RunType
  <2>2. rows[d].status = "QUEUED"
    BY <1>2, <1>4 DEF IsOldest, WithStatus
  <2> QED
    BY <1>1, <1>2, <1>4, <2>1, <2>2 DEF Rows, RowType
<1> QED
  BY <1>3, <1>4

LEMMA RunMovesFlag ==
    ASSUME CalmInv, DeployStep \/ CancellationStep, NEW p \in Deployments
    PROVE  rows'[p].production =
             IF MakeProduction THEN p = cur
             ELSE rows[p].production /\ ~(MarkPreviousRemoved /\ p = run.prev)
<1>1. rows \in Rows /\ rows' \in Rows /\ TypeInv /\ CoreInv /\ RunStep
  BY CalmFacts, RunTypes DEF RunStep, TypeInv, TypeOK, ResourceTypes, Rows
<1>2. rows[p].production \in BOOLEAN /\ rows'[p].production \in BOOLEAN
  BY <1>1 DEF Rows, RowType
<1>3. CASE MakeProduction
  BY <1>1, <1>3, SetProductionRow DEF MakeProduction
<1>4. CASE MarkPreviousRemoved
  <2>1. ~MakeProduction
    BY <1>4 DEF MarkPreviousRemoved, MakeProduction
  <2>2. MarkRemoved(rows, run.prev)[p].production = (rows[p].production /\ p # run.prev)
    BY <1>1, MarkRemovedRow
  <2> QED
    BY <1>4, <2>1, <2>2 DEF MarkPreviousRemoved
<1>5. CASE ~MakeProduction /\ ~MarkPreviousRemoved
  <2>1. rows'[p].production => rows[p].production
    BY <1>1, <1>5, RunKeepsFlags DEF Keeps
  <2>2. rows[p].production => rows'[p].production
    BY <1>1, <1>5, RunTakesFlag
  <2> QED
    BY <1>2, <1>5, <2>1, <2>2
<1> QED
  BY <1>3, <1>4, <1>5

LEMMA ProductionRow ==
    ASSUME CalmInv, DeployStep \/ CancellationStep, NEW p \in Deployments, rows[p].production
    PROVE  \/ rows'[p].status = rows[p].status /\ rows'[p].marker = rows[p].marker
           \/ /\ PreviousIsDown /\ p = run.prev
              /\ rows'[p].status = "SLEEPING" /\ rows'[p].marker = "other"
           \/ /\ ScaleBackPrevious \/ CancelScaleBack
              /\ p = run.prev /\ swarm[p].replicas # "absent" /\ swarm'[p].replicas = "up"
              /\ rows[p].status = "SLEEPING" /\ rows'[p].status = "STARTING"
              /\ schedules'[p].monitor = Unpause(schedules[p].monitor)
           \/ MarkPreviousRemoved /\ p = run.prev
<1> DEFINE Same == rows'[p].status = rows[p].status /\ rows'[p].marker = rows[p].marker
<1>1. rows \in Rows /\ RunStep /\ run.pc \notin ErrorSteps
  BY CalmFacts DEF RunStep, CalmInv
<1>2. RunOpen /\ run.pc \notin PastFlag => p # cur
  BY OwnIdle
<1>3. ASSUME PrepareDeployment \/ PollHealth \/ SetCancelling PROVE Same
  <2>1. p # cur
    BY <1>2, <1>3
    DEF PrepareDeployment, PollHealth, CheckingHealth, SetCancelling, PastFlag, RunOpen
  <2> QED
    BY <1>1, <1>3, <2>1, PrepareRow, SetStatusRow
    DEF PrepareDeployment, PollHealth, SetCancelling
<1>4. ASSUME FinishDeployment \/ SaveCancelledDeployment PROVE Same
  <2>1. p # cur
    BY <1>2, <1>4 DEF FinishDeployment, SaveCancelledDeployment, PastFlag, RunOpen
  <2> QED
    BY <1>1, <1>4, <2>1, SaveResultRow, SaveCancelledRow
    DEF FinishDeployment, SaveCancelledDeployment
<1>5. ASSUME MakeProduction PROVE Same
  BY <1>1, <1>5, SetProductionRow DEF MakeProduction
<1>6. ASSUME RemoveSupersededRows PROVE Same
  <2>1. p = cur
    <3>1. RunOpen /\ rows[cur].production
      BY <1>1, <1>6 DEF RemoveSupersededRows, ErrorSteps, RunOpen, CalmInv, OwnService
    <3> QED
      BY <3>1, CalmFacts DEF OneFlag
  <2> QED
    BY <1>1, <1>6, <2>1, RemoveSupersededRow DEF RemoveSupersededRows
<1>7. ASSUME CleanupUncleanDeployments PROVE Same
  <2>1. p \notin Unclean(rows, cur)
    BY DEF Unclean
  <2> QED
    BY <1>1, <1>7, <2>1, CleanupUncleanRow DEF CleanupUncleanDeployments
<1>8. ASSUME MarkPreviousRemoved PROVE Same \/ p = run.prev
  BY <1>1, <1>8, MarkRemovedRow DEF MarkPreviousRemoved
<1>9. ASSUME PreviousIsDown
      PROVE  Same \/ (p = run.prev /\ rows'[p].status = "SLEEPING" /\ rows'[p].marker = "other")
  BY <1>1, <1>9, PutToSleepRow DEF PreviousIsDown
<1> DEFINE Woken == /\ p = run.prev /\ swarm[p].replicas # "absent"
                    /\ swarm'[p].replicas = "up"
                    /\ rows[p].status = "SLEEPING" /\ rows'[p].status = "STARTING"
                    /\ schedules'[p].monitor = Unpause(schedules[p].monitor)
<1>10. ASSUME NEW b \in BOOLEAN, ScaleBack(run.prev, b) PROVE Same \/ Woken
  <2>1. Same \/ /\ p = run.prev /\ rows[p].status = "SLEEPING" /\ rows'[p].status = "STARTING"
                /\ ~LeftAsleep(run.prev, b) /\ swarm[run.prev].replicas # "absent"
    BY <1>1, <1>10, ScaleBackRow
  <2>2. SUFFICES ASSUME p = run.prev, rows[p].status = "SLEEPING", ~LeftAsleep(p, b),
                        swarm[p].replicas # "absent"
                 PROVE  /\ swarm'[p].replicas = "up"
                        /\ schedules'[p].monitor = Unpause(schedules[p].monitor)
    BY <2>1
  <2>3. /\ swarm' = [swarm EXCEPT ![p].replicas = "up"]
        /\ schedules' = [schedules EXCEPT ![p].monitor = Unpause(@)]
    BY <1>10, <2>2 DEF ScaleBack, SetReplicas
  <2> QED
    BY <2>3, CalmFacts DEF SwarmType, ScheduleType
<1>11. ASSUME ScaleBackPrevious \/ CancelScaleBack PROVE Same \/ Woken
  <2>1. UNCHANGED rows \/ ScaleBack(run.prev, FALSE)
    BY <1>11 DEF ScaleBackPrevious, CancelScaleBack
  <2> QED
    BY <1>10, <2>1
<1>12. ASSUME QueueNext PROVE Same
  BY <1>12, ChosenSlot
<1>13. ~ErrorFinish
  BY <1>1 DEF ErrorFinish, ErrorSteps
<1> QED
  BY <1>1, <1>3, <1>4, <1>5, <1>6, <1>7, <1>8, <1>9, <1>11, <1>12, <1>13,
     OtherStepsKeepRows

-----------------------------------------------------------------------------
(* A step of a run keeps each part of the invariant                        *)

\* A run that begins finds nothing of its deployment.
LEMMA ReleaseBegins ==
    ASSUME CalmInv, Release
    PROVE  /\ run' = NoRun \/ (run.next # None /\ run' = NewRun(run.next, run.nextSlot))
           /\ UNCHANGED <<rows, snapshot, addedUrls, swarm, volumes, configs, route, schedules>>
           /\ run'.pc \in {"closed", "acquire"} /\ run'.next = None /\ run'.prev = None
           /\ ~Up' /\ ~Dialled' /\ ~Watching' /\ run'.pc \notin Known \cup PastFlag
           /\ run'.pc \notin Replaced \cup Promoting
           /\ RunOpen' => /\ cur' = run.next /\ cur' \in Deployments /\ run'.slot = run.nextSlot
                          /\ Fresh(cur')
                          /\ run'.madeConfigs = {} /\ run'.madeVolumes = {}
<1>1. /\ run' = NoRun \/ (run.next # None /\ run' = NewRun(run.next, run.nextSlot))
      /\ UNCHANGED <<rows, snapshot, addedUrls, swarm, volumes, configs, route, schedules>>
  BY DEF Release, resources, database, docker
<1>2. run'.pc \in {"closed", "acquire"} /\ run'.next = None /\ run'.prev = None
  BY <1>1 DEF NoRun, NewRun
<1>3. /\ ~Up' /\ ~Dialled' /\ ~Watching' /\ run'.pc \notin Known \cup PastFlag
      /\ run'.pc \notin Replaced \cup Promoting
  BY <1>2 DEF Up, Dialled, Watching, Kept, Serving, Exposed, Promoting, Replaced, Leaving,
              Known, PastFlag
<1>4. RunOpen' => /\ cur' = run.next /\ cur' \in Deployments /\ run'.slot = run.nextSlot
                  /\ Fresh(cur')
                  /\ run'.madeConfigs = {} /\ run'.madeVolumes = {}
  <2> SUFFICES ASSUME RunOpen' PROVE /\ cur' = run.next /\ cur' \in Deployments
                                     /\ run'.slot = run.nextSlot /\ Fresh(cur')
                                     /\ run'.madeConfigs = {} /\ run'.madeVolumes = {}
    OBVIOUS
  <2>1. run.next # None /\ run' = NewRun(run.next, run.nextSlot)
    BY <1>1, NoRunClosed DEF RunOpen
  <2>2. Fresh(run.next) /\ run.next \in Deployments
    BY <2>1, CalmFacts DEF RunPlace, RunType, Maybe
  <2> QED
    BY <2>1, <2>2 DEF NewRun, cur
<1> QED
  BY <1>1, <1>2, <1>3, <1>4

LEMMA RunKeepsOwnService ==
    ASSUME CalmInv, DeployStep \/ CancellationStep PROVE OwnService'
<1>1. CASE Release
  <2>1. RunOpen' => swarm'[cur'].replicas = "absent"
    BY <1>1, ReleaseBegins DEF Fresh
  <2> QED
    BY <1>1, <2>1, ReleaseBegins DEF OwnService, cur
<1>2. CASE ~Release
  <2>1. /\ Phases /\ MorePhases /\ OwnService /\ RunStep /\ TypeInv /\ run.pc \notin ErrorSteps
        /\ rows \in Rows /\ swarm \in [Deployments -> SwarmType]
        /\ cur \in Deployments /\ cur' = cur /\ run'.slot = run.slot /\ RunOpen
    BY <1>2, CalmPhases, MoreCalmPhases, CalmFacts DEF CalmInv, RunStep, Phases
  <2>2. cur # run.prev
    BY <2>1, CalmFacts DEF RunPlace
  <2>3. \/ swarm'[cur] = swarm[cur]
        \/ CreateService /\ swarm'[cur] = [replicas |-> "up", alias |-> run.slot]
        \/ (RemoveOwnService \/ CancelService) /\ swarm'[cur].replicas = "absent"
    BY <2>1, <2>2, RunSwarm
  <2>4. Up' => swarm'[cur] = [replicas |-> "up", alias |-> run.slot]
    <3>1. CASE CreateService
      <4>1. swarm[cur].replicas = "absent"
        BY <3>1, CalmFacts DEF CreateService, RunPlace, Before, Fresh
      <4> QED
        BY <2>1, <3>1, <4>1 DEF CreateService
    <3>2. CASE ~CreateService
      BY <2>1, <2>3, <3>2, PhaseEnds DEF Phases, OwnService
    <3> QED
      BY <3>1, <3>2
  <2>5. ASSUME run'.pc = "remove_own"
        PROVE  swarm'[cur].replicas = "absent" \/ swarm'[cur].alias = run.slot
    <3>1. UNCHANGED swarm
      BY <2>1, <2>5 DEF Phases, PullImage, HealthcheckEnds, resources, docker
    <3>2. CASE PullImage
      <4>1. run.pc = "pull" /\ ~Up
        BY <3>2 DEF PullImage, Up, Serving, Exposed, Promoting, Kept, Leaving
      <4>2. ~rows[cur].production
        BY <2>1, <4>1, OwnIdle DEF PastFlag
      <4> QED
        BY <2>1, <3>1, <4>1, <4>2 DEF OwnService
    <3>3. CASE HealthcheckEnds
      <4>1. Up
        BY <3>3 DEF HealthcheckEnds, CheckingHealth, Up, Serving
      <4> QED
        BY <2>1, <3>1, <4>1 DEF OwnService
    <3> QED
      BY <2>1, <2>5, <3>2, <3>3 DEF Phases
  <2>6. ASSUME ~Up', run'.pc # "remove_own", ~rows'[cur].production
        PROVE  swarm'[cur].replicas = "absent"
    <3>1. ~MakeProduction /\ ~rows[cur].production
      BY <2>1, <2>2, <2>6, RunMovesFlag
    <3>2. CASE Up
      <4>1. CancelService
        BY <2>1, <2>6, <3>1, <3>2, PhaseEnds DEF Phases
      <4>2. run.step >= 5
        BY <3>2, <4>1 DEF CancelService, Up, Serving, Exposed, Promoting, Kept
      <4> QED
        BY <2>1, <4>1, <4>2 DEF CancelService, RemoveService, SetReplicas, SwarmType
    <3>3. CASE run.pc = "remove_own"
      BY <2>1, <3>3 DEF Phases, RemoveOwnService, RemoveService, SetReplicas, SwarmType
    <3>4. CASE ~Up /\ run.pc # "remove_own"
      <4>1. swarm[cur].replicas = "absent"
        BY <2>1, <3>1, <3>4 DEF OwnService
      <4>2. ~CreateService
        BY <2>6 DEF CreateService, Goto, Up, Serving, CalmInv, StopInv, CoreInv, FlagInv,
                    TypeInv, TypeOK, RunType
      <4> QED
        BY <2>3, <4>1, <4>2
    <3> QED
      BY <3>2, <3>3, <3>4
  <2>7. payload' = payload /\ payload.urls \subseteq Urls
    BY <2>1, SnapshotStays, CalmFacts DEF payload, SnapshotType
  <2>8. Dialled' => \A u \in payload.urls : route'[u] = run.slot
    BY <2>1, <2>7, RunRoutes, PhaseEnds DEF Phases, OwnService
  <2>9. run'.pc = "set_production" => rows'[cur].status = run'.result
    BY <2>1, SaveResultRow DEF MorePhases, FinishDeployment
  <2>10. run'.pc = "remove_superseded" => rows'[cur].production
    BY <2>1, RunMovesFlag DEF MorePhases
  <2> QED
    BY <2>1, <2>4, <2>5, <2>6, <2>7, <2>8, <2>9, <2>10 DEF OwnService
<1> QED
  BY <1>1, <1>2

LEMMA RunKeepsNoLeftover ==
    ASSUME CalmInv, DeployStep \/ CancellationStep PROVE NoLeftover'
<1> SUFFICES ASSUME NEW d \in Deployments, swarm'[d].replicas # "absent"
             PROVE  rows'[d].production \/ (RunOpen' /\ d = cur')
  BY DEF NoLeftover
<1>1. swarm[d].replicas # "absent" \/ (CreateService /\ d = cur)
  BY CalmFacts, RunSwarm DEF RunStep
<1>2. CASE Release
  <2>1. swarm[d].replicas # "absent" /\ UNCHANGED rows
    BY <1>1, <1>2 DEF Release, CreateService, resources, database
  <2>2. RunOpen /\ ~Up /\ run.pc # "remove_own"
    BY <1>2 DEF Release, RunOpen, Up, Kept, Serving, Exposed, Promoting, Leaving
  <2> QED
    BY <2>1, <2>2 DEF CalmInv, NoLeftover, OwnService
<1>3. CASE ~Release
  <2>1. Phases
    BY <1>3, CalmPhases
  <2>2. CASE d = cur
    BY <2>1, <2>2 DEF Phases
  <2>3. CASE d # cur
    <3>1. swarm[d].replicas # "absent" /\ rows[d].production
      BY <1>1, <2>3 DEF CalmInv, NoLeftover
    <3>2. ~MakeProduction
      <4>1. ASSUME MakeProduction PROVE d \in {cur}
        <5>1. run.pc \in Alone /\ d \in Production(rows)
          BY <3>1, <4>1, CalmFacts
          DEF MakeProduction, Alone, Production, Existing, FreshRows, Fresh, Idle, Begun
        <5> QED
          BY <5>1, CalmFacts DEF RunReplaces, Alone
      <4> QED
        BY <2>3, <4>1
    <3>3. ~(MarkPreviousRemoved /\ d = run.prev)
      BY <3>1 DEF MarkPreviousRemoved, CalmInv, ServiceInv, RunsWell, Gone, Replaced, Promoting
    <3> QED
      BY <3>1, <3>2, <3>3, RunMovesFlag
  <2> QED
    BY <2>2, <2>3
<1> QED
  BY <1>2, <1>3

LEMMA RunKeepsSlotKept ==
    ASSUME CalmInv, Undisturbed, DeployStep \/ CancellationStep PROVE SlotKept'
<1>1. /\ UNCHANGED requests /\ SlotKept
      /\ \A d \in Deployments : requests[d].stage # "committed"
  BY RunKeepsToggle, NoneCommitted, CalmFacts DEF RunStep, CalmInv
<1>2. CASE Release
  <2>1. RunOpen' => cur' # None /\ rows'[cur'].slot = run'.slot
    BY <1>1, <1>2, ReleaseBegins, CalmFacts DEF SlotKept
  <2> QED
    BY <1>1, <1>2, <2>1, ReleaseBegins DEF SlotKept
<1>3. CASE ~Release
  <2>1. /\ Phases /\ MorePhases /\ cur \in Deployments /\ cur' = cur /\ RunOpen
        /\ run'.slot = run.slot /\ run' \in RunType /\ RunPlace'
    BY <1>3, CalmPhases, MoreCalmPhases, CalmFacts, RunTypes, RunKeepsPlace
    DEF Phases, RunStep, TypeInv, TypeOK
  <2>2. CASE QueueNext
    <3>1. rows[cur].status # "QUEUED"
      BY <2>1, <2>2, CalmFacts DEF QueueNext, RunPlace, Begun
    <3>2. rows'[cur].slot = run.slot
      BY <1>1, <2>1, <2>2, <3>1, ChosenSlot DEF SlotKept
    <3>3. run'.next # None => rows'[run'.next].slot = run'.nextSlot
      BY <2>1, <2>2, ChosenSlot DEF RunType, Maybe
    <3> QED
      BY <1>1, <2>1, <3>2, <3>3 DEF SlotKept
  <2>3. CASE ~QueueNext
    <3>1. run'.next = None
      BY <2>1, <2>3 DEF RunPlace, MorePhases
    <3>2. rows'[cur].slot = run.slot
      BY <1>1, <2>1, <2>3, RunKeepsSlots DEF KeepsSlots, SlotKept
    <3> QED
      BY <1>1, <2>1, <3>1, <3>2 DEF SlotKept
  <2> QED
    BY <2>2, <2>3
<1> QED
  BY <1>2, <1>3

LEMMA RunKeepsInstalled ==
    ASSUME CalmInv, DeployStep \/ CancellationStep PROVE Installed' /\ Prepared'
<1>1. /\ UNCHANGED snapshot /\ Installed /\ Prepared
      /\ snapshot \in [Deployments -> SnapshotType]
  BY SnapshotStays, CalmFacts DEF RunStep, CalmInv
<1>2. ASSUME NEW d \in Deployments, swarm'[d].replicas # "absent"
      PROVE  /\ swarm[d].replicas # "absent" \/ (CreateService /\ d = cur)
             /\ snapshot[d].configs \subseteq configs /\ snapshot[d].volumes \subseteq volumes
  <2>1. swarm[d].replicas # "absent" \/ (CreateService /\ d = cur)
    BY <1>2, CalmFacts, RunSwarm DEF RunStep
  <2>2. CreateService => payload.configs \subseteq configs /\ payload.volumes \subseteq volumes
    BY <1>1 DEF CreateService, Prepared, HasConfigs, HasVolumes
  <2> QED
    BY <1>1, <2>1, <2>2 DEF Installed, payload
<1>3. ASSUME NEW d \in Deployments, swarm'[d].replicas # "absent"
      PROVE  snapshot[d].configs \subseteq configs'
  <2>1. CASE RemoveOldConfigs
    <3>1. d \in Deployed /\ run.pc \in Replaced
      BY <1>2, <1>3, <2>1 DEF RemoveOldConfigs, CreateService, Deployed, Replaced, Promoting
    <3>2. snapshot[d].configs = payload.configs
      BY <3>1, AloneDeployed DEF payload
    <3> QED
      BY <1>2, <1>3, <2>1, <3>2 DEF RemoveOldConfigs
  <2>2. CASE DeleteCreatedConfigs
    <3>1. run.madeConfigs \cap snapshot[d].configs = {}
      BY <1>2, <1>3, <2>2, NoneCreated DEF DeleteCreatedConfigs, CreateService
    <3> QED
      BY <1>2, <1>3, <2>2, <3>1 DEF DeleteCreatedConfigs
  <2>3. CASE CreateConfigs
    BY <1>2, <1>3, <2>3 DEF CreateConfigs
  <2> QED
    BY <1>2, <1>3, <2>1, <2>2, <2>3, RunFrames
<1>4. ASSUME NEW d \in Deployments, swarm'[d].replicas # "absent"
      PROVE  snapshot[d].volumes \subseteq volumes'
  <2>1. CASE RemoveOldVolumes
    <3>1. d \in Deployed /\ run.pc \in Replaced
      BY <1>2, <1>4, <2>1 DEF RemoveOldVolumes, CreateService, Deployed, Replaced, Promoting
    <3>2. snapshot[d].volumes = payload.volumes
      BY <3>1, AloneDeployed DEF payload
    <3> QED
      BY <1>2, <1>4, <2>1, <3>2 DEF RemoveOldVolumes
  <2>2. CASE DeleteCreatedVolumes
    <3>1. run.madeVolumes \cap snapshot[d].volumes = {}
      BY <1>2, <1>4, <2>2, NoneCreated DEF DeleteCreatedVolumes, CreateService
    <3> QED
      BY <1>2, <1>4, <2>2, <3>1 DEF DeleteCreatedVolumes
  <2>3. CASE CreateVolumes
    BY <1>2, <1>4, <2>3 DEF CreateVolumes
  <2> QED
    BY <1>2, <1>4, <2>1, <2>2, <2>3, RunFrames
<1>5. CASE Release
  <2>1. Prepared'
    BY <1>5, ReleaseBegins DEF Prepared, HasConfigs, HasVolumes
  <2>2. Installed'
    BY <1>1, <1>3, <1>4, <1>5, ReleaseBegins DEF Installed
  <2> QED
    BY <2>1, <2>2
<1>6. CASE ~Release
  <2>1. Phases /\ MorePhases /\ cur' = cur /\ RunOpen /\ run \in RunType /\ payload' = payload
    BY <1>1, <1>6, CalmPhases, MoreCalmPhases, CalmFacts DEF Phases, payload
  <2>2. ASSUME NEW d \in Deployments, swarm'[d].replicas # "absent", d # cur
        PROVE  /\ run'.madeConfigs \cap snapshot[d].configs = {}
               /\ run'.madeVolumes \cap snapshot[d].volumes = {}
    <3>1. swarm[d].replicas # "absent"
      BY <1>2, <2>2
    <3>2. run'.madeConfigs \cap snapshot[d].configs = {}
      BY <1>1, <2>1, <2>2, <3>1 DEF Installed, MorePhases, CreateConfigs, RunType
    <3>3. run'.madeVolumes \cap snapshot[d].volumes = {}
      BY <1>1, <2>1, <2>2, <3>1 DEF Installed, MorePhases, CreateVolumes, RunType
    <3> QED
      BY <3>2, <3>3
  <2>3. Installed'
    BY <1>1, <1>3, <1>4, <2>1, <2>2 DEF Installed
  <2>4. run'.pc \in HasVolumes => payload.volumes \subseteq volumes'
    <3>1. run.pc \in HasVolumes => UNCHANGED volumes
      BY RunFrames DEF HasVolumes, CreateVolumes, RemoveOldVolumes, DeleteCreatedVolumes
    <3> QED
      BY <1>1, <2>1, <3>1 DEF MorePhases, Prepared, CreateVolumes
  <2>5. run'.pc \in HasConfigs => payload.configs \subseteq configs'
    <3>1. run.pc \in HasConfigs => UNCHANGED configs
      BY RunFrames
      DEF HasConfigs, HasVolumes, CreateConfigs, RemoveOldConfigs, DeleteCreatedConfigs
    <3> QED
      BY <1>1, <2>1, <3>1 DEF MorePhases, Prepared, CreateConfigs
  <2> QED
    BY <2>1, <2>3, <2>4, <2>5 DEF Prepared
<1> QED
  BY <1>5, <1>6

LEMMA RunKeepsPreviousKnown ==
    ASSUME CalmInv, DeployStep \/ CancellationStep PROVE PreviousKnown'
<1>1. CASE Release
  BY <1>1, ReleaseBegins DEF PreviousKnown, Known
<1>2. CASE ~Release
  <2>1. /\ Phases /\ MorePhases /\ PreviousKnown /\ RunStep /\ TypeInv /\ run \in RunType
        /\ run.prev \in Maybe(Deployments) /\ None \notin Deployments
        /\ swarm \in [Deployments -> SwarmType]
        /\ run.prev # None => run.prev # cur
    BY <1>2, CalmPhases, MoreCalmPhases, CalmFacts DEF CalmInv, RunStep, RunPlace
  <2>2. ASSUME run'.pc \in Known \ Replaced, run'.prev # None
        PROVE  run'.prevFailed <=> swarm'[run'.prev].replicas = "absent"
    <3>1. CASE GetPreviousProduction
      <4>1. PICK p \in Maybe(Deployments) :
              /\ IsPreviousProduction(p)
              /\ run' = [run EXCEPT !.pc = "create_volumes", !.prev = p,
                                    !.prevFailed = p # None /\ rows[p].status = "FAILED"]
        BY <3>1 DEF GetPreviousProduction
      <4>2. run'.prev = p /\ (run'.prevFailed <=> p # None /\ rows[p].status = "FAILED")
        BY <2>1, <4>1 DEF RunType
      <4>3. p \in Production(rows)
        BY <2>2, <4>1, <4>2 DEF IsPreviousProduction, IsNewest
      <4>4. p \in Deployments /\ Current(p)
        BY <3>1, <4>3 DEF Production, Existing, Current, Gone, Replaced, Promoting,
                          GetPreviousProduction
      <4>5. swarm[p].replicas = "absent" <=> rows[p].status = "FAILED"
        BY <4>4 DEF CalmInv, ServiceInv, RunsWell
      <4>6. UNCHANGED swarm
        BY <3>1 DEF GetPreviousProduction, resources, docker
      <4> QED
        BY <2>1, <2>2, <4>2, <4>5, <4>6
    <3>2. CASE ~GetPreviousProduction
      <4>1. ~CancelGetPrevious
        BY <2>1, <2>2, CancellationMoves DEF Moves, Known, Promoting
      <4>2. run'.prev = run.prev /\ run'.prevFailed = run.prevFailed
        BY <2>1, <3>2, <4>1 DEF Phases
      <4>3. ~RemovePreviousService
        BY <2>1, <2>2, PromotionMoves DEF Moves, Replaced, Promoting
      <4>4. swarm'[run.prev].replicas = "absent" <=> swarm[run.prev].replicas = "absent"
        BY <2>1, <2>2, <4>2, <4>3, RunSwarm DEF Maybe
      <4> QED
        BY <2>1, <2>2, <3>2, <4>2, <4>4 DEF MorePhases, PreviousKnown
    <3> QED
      BY <3>1, <3>2
  <2>3. run'.pc = "wait_down" => ~run'.prevFailed
    <3>1. ScaleDownPrevious => ~run.prevFailed
      BY DEF ScaleDownPrevious, MustScaleDown
    <3>2. run'.pc = "wait_down" => run'.prevFailed = run.prevFailed
      BY <2>1, ActivityMoves DEF Phases, Moves
    <3> QED
      BY <2>1, <3>1, <3>2 DEF MorePhases, PreviousKnown
  <2>4. ASSUME run'.pc = "cancel_scale_back", NEW p \in Deployments, rows'[p].production
        PROVE  p = run'.prev
    <3>1. CancelGetPrevious
      BY <2>1, <2>4 DEF MorePhases
    <3>2. UNCHANGED rows /\ ~rows[cur].production
      BY <3>1, OwnIdle DEF CancelGetPrevious, RunOpen, PastFlag, resources, database
    <3>3. PICK q \in Maybe(Deployments) :
            /\ IsPreviousProduction(q)
            /\ run' = [run EXCEPT !.pc = "cancel_scale_back", !.prev = q]
      BY <3>1 DEF CancelGetPrevious
    <3>4. run'.prev = q
      BY <2>1, <3>3 DEF RunType
    <3>5. p \in Production(rows) \ {cur}
      BY <2>4, <3>2, CalmFacts DEF Production, Existing, FreshRows, Fresh, Idle, Begun
    <3>6. q \in Production(rows)
      BY <3>3, <3>5 DEF IsPreviousProduction, IsNewest
    <3> QED
      BY <3>4, <3>5, <3>6, CalmFacts DEF OneFlag, Production, Existing
  <2> QED
    BY <2>2, <2>3, <2>4 DEF PreviousKnown
<1> QED
  BY <1>1, <1>2

-----------------------------------------------------------------------------
(* ... and what it does to the deployment in production                    *)

LEMMA RunKeepsAlias ==
    ASSUME CalmInv, DeployStep \/ CancellationStep, NEW e \in Deployments
    PROVE  swarm'[e].alias = swarm[e].alias \/ (CreateService /\ e = cur)
<1>1. swarm \in [Deployments -> SwarmType] /\ TypeInv
  BY CalmFacts
<1>2. CASE CreateService
  BY <1>1, <1>2 DEF CreateService
<1>3. CASE RemoveOwnService \/ CancelService \/ RemovePreviousService
  BY <1>1, <1>3
  DEF RemoveOwnService, CancelService, RemovePreviousService, RemoveService, SetReplicas,
      SwarmType
<1>4. CASE ScaleDownPrevious \/ RetryScaleDown
  BY <1>1, <1>4 DEF ScaleDownPrevious, RetryScaleDown, SetReplicas, SwarmType
<1>5. CASE ScaleBackPrevious \/ CancelScaleBack
  <2>1. UNCHANGED swarm \/ swarm' = SetReplicas(run.prev, "up")
    BY <1>5 DEF ScaleBackPrevious, CancelScaleBack, ScaleBack
  <2> QED
    BY <1>1, <2>1 DEF SetReplicas, SwarmType
<1>6. CASE ~(\/ CreateService \/ RemoveOwnService \/ CancelService \/ RemovePreviousService
             \/ ScaleDownPrevious \/ RetryScaleDown \/ ScaleBackPrevious \/ CancelScaleBack)
  <2>1. swarm'[e] = swarm[e]
    BY <1>1, <1>6, RunSwarm DEF RunStep
  <2> QED
    BY <2>1
<1> QED
  BY <1>2, <1>3, <1>4, <1>5, <1>6

\* The schedules of a deployment, as far as they change.
LEMMA RunSchedules ==
    ASSUME CalmInv, DeployStep \/ CancellationStep, NEW e \in Deployments
    PROVE  \/ schedules'[e] = schedules[e]
           \/ DeletePreviousSchedules /\ e = run.prev /\ schedules'[e] = NoSchedule
           \/ /\ CreateMonitorSchedule /\ e = cur
              /\ schedules'[e].monitor = Create(schedules[e].monitor)
           \/ CreateStatsSchedule /\ e = cur /\ schedules'[e].monitor = schedules[e].monitor
           \/ /\ PreviousIsDown /\ e = run.prev
              /\ schedules'[e] = [monitor |-> Pause(schedules[e].monitor),
                                  metrics |-> Pause(schedules[e].metrics)]
           \/ /\ ScaleBackPrevious \/ CancelScaleBack
              /\ e = run.prev /\ rows[e].status = "SLEEPING"
              /\ schedules'[e] = [schedules[e] EXCEPT !.monitor = Unpause(@)]
           \/ /\ CleanupUncleanDeployments /\ ~rows[e].production
              /\ schedules'[e] = NoSchedule
<1>1. schedules \in [Deployments -> ScheduleType]
  BY CalmFacts
<1>2. CASE DeletePreviousSchedules
  BY <1>1, <1>2 DEF DeletePreviousSchedules
<1>3. CASE CreateMonitorSchedule \/ CreateStatsSchedule
  BY <1>1, <1>3 DEF CreateMonitorSchedule, CreateStatsSchedule, ScheduleType
<1>4. CASE PreviousIsDown
  BY <1>1, <1>4 DEF PreviousIsDown, PutToSleep, ScheduleType
<1>5. CASE ScaleBackPrevious
  BY <1>1, <1>5 DEF ScaleBackPrevious, ScaleBack, ScheduleType
<1>6. CASE CancelScaleBack
  BY <1>1, <1>6 DEF CancelScaleBack, ScaleBack, ScheduleType
<1>7. CASE CleanupUncleanDeployments
  BY <1>1, <1>7 DEF CleanupUncleanDeployments, Unclean
<1> QED
  BY <1>2, <1>3, <1>4, <1>5, <1>6, <1>7, RunFrames

\* The deployments in production whose service the run does not remove now.
LEMMA StaysCurrent ==
    ASSUME CalmInv, DeployStep \/ CancellationStep, ~Release, NEW p \in Deployments
    PROVE  /\ Current(p)' /\ ~(MakeProduction /\ p = cur) =>
                /\ Current(p) /\ ~MakeProduction /\ ~(MarkPreviousRemoved /\ p = run.prev)
                /\ ~(RemovePreviousService /\ p = run.prev)
           /\ Gone(p)' => Gone(p) \/ (RemovePreviousService /\ p = run.prev)
<1>1. Phases /\ run \in RunType
  BY CalmPhases, CalmFacts
<1>2. run.pc \in Replaced \cup {"remove_previous"} \/ run'.pc \in Replaced
        => run'.prev = run.prev
  BY <1>1, ActivityMoves, CancellationMoves DEF Phases, Moves, Replaced, Promoting
<1>3. RemovePreviousService => run'.pc \in Replaced /\ run.pc = "remove_previous"
  BY <1>1, PromotionMoves DEF Moves, Replaced, Promoting
<1>4. Gone(p)' => Gone(p) \/ (RemovePreviousService /\ p = run.prev)
  BY <1>1, <1>2 DEF Phases, Gone
<1>5. ASSUME Current(p)', ~(MakeProduction /\ p = cur)
      PROVE  /\ Current(p) /\ ~MakeProduction /\ ~(MarkPreviousRemoved /\ p = run.prev)
             /\ ~(RemovePreviousService /\ p = run.prev)
  <2>1. rows'[p].production /\ ~Gone(p)'
    BY <1>5 DEF Current
  <2>2. rows[p].production /\ ~MakeProduction /\ ~(MarkPreviousRemoved /\ p = run.prev)
    BY <1>5, <2>1, RunMovesFlag
  <2>3. ~Gone(p)
    BY <1>1, <1>2, <2>1, <2>2 DEF Phases, Gone
  <2>4. ~(RemovePreviousService /\ p = run.prev)
    BY <1>2, <1>3, <2>1 DEF Gone
  <2> QED
    BY <2>2, <2>3, <2>4 DEF Current
<1> QED
  BY <1>4, <1>5

\* Of its service, a run changes but the replicas, and waits when it stops it.
LEMMA CurrentService ==
    ASSUME CalmInv, DeployStep \/ CancellationStep, NEW p \in Deployments, Current(p),
           ~(RemovePreviousService /\ p = run.prev)
    PROVE  /\ swarm'[p].replicas = "absent" <=> swarm[p].replicas = "absent"
           /\ swarm'[p].alias = swarm[p].alias
           /\ \/ swarm'[p].replicas \in {swarm[p].replicas, "up"}
              \/ run'.pc = "wait_down" /\ run'.prev = p
           /\ rows'[p].slot = rows[p].slot
<1>1. rows[p].production /\ TypeInv /\ run \in RunType
  BY CalmFacts DEF Current
<1>2. p = cur => ~CreateService /\ ~RemoveOwnService /\ ~CancelService
  BY <1>1, OwnIdle DEF CreateService, RemoveOwnService, CancelService, RunOpen, PastFlag
<1>3. swarm'[p].alias = swarm[p].alias
  BY <1>2, RunKeepsAlias
<1>4. rows'[p].slot = rows[p].slot
  <2>1. rows[p].status # "QUEUED"
    BY <1>1, CalmFacts DEF FreshRows, Fresh, Idle, Begun
  <2> QED
    BY <2>1, RunKeepsSlots, ChosenSlot DEF KeepsSlots
<1>5. ScaleDownPrevious \/ RetryScaleDown => run'.pc = "wait_down" /\ run'.prev = run.prev
  BY <1>1, ActivityMoves DEF Moves
<1>6. /\ swarm'[p].replicas = "absent" <=> swarm[p].replicas = "absent"
      /\ \/ swarm'[p].replicas \in {swarm[p].replicas, "up"}
         \/ run'.pc = "wait_down" /\ run'.prev = p
  BY <1>1, <1>2, <1>5, RunSwarm DEF RunStep
<1> QED
  BY <1>3, <1>4, <1>6

\* The deployment that has just got the flag.
LEMMA NewProduction ==
    ASSUME CalmInv, MakeProduction
    PROVE  /\ cur \in Deployments /\ cur' = cur /\ run'.slot = run.slot /\ run.pc = "set_production"
           /\ ~rows[cur].production /\ (toggle.pc # "idle" => toggle.dep # cur)
           /\ UNCHANGED <<swarm, schedules, route, snapshot, toggle>>
           /\ rows'[cur].status = run.result /\ rows'[cur].slot = run.slot
           /\ run.result = "HEALTHY" =>
                /\ swarm[cur] = [replicas |-> "up", alias |-> run.slot]
                /\ \A u \in payload.urls : route[u] = run.slot
                /\ schedules[cur].monitor = "active"
           /\ run.result # "HEALTHY" => run.result = "FAILED" /\ swarm[cur].replicas = "absent"
<1>1. /\ run \in RunType /\ rows \in Rows /\ run.pc = "set_production" /\ RunOpen
      /\ cur \in Deployments /\ OwnService /\ SlotKept
  BY CalmFacts DEF CalmInv, MakeProduction, ErrorSteps, RunOpen
<1>2. ~rows[cur].production /\ (toggle.pc # "idle" => toggle.dep # cur)
  BY <1>1, OwnIdle DEF PastFlag
<1>3. UNCHANGED <<swarm, schedules, route, snapshot, toggle>>
  BY DEF MakeProduction, docker, Immutable, OutsideRun
<1>4. cur' = cur /\ run'.slot = run.slot
  BY <1>1, EndMoves DEF Moves
<1>5. rows'[cur].status = run.result
  BY <1>1, SetProductionRow DEF MakeProduction, OwnService
<1>6. rows'[cur].slot = run.slot
  BY <1>1, TransactionsKeepSlots DEF MakeProduction, KeepsSlots, SlotKept
<1>7. run.result = "HEALTHY" => Kept /\ Up /\ Dialled
  BY <1>1 DEF Kept, Up, Dialled
<1>8. run.result = "HEALTHY" => schedules[cur].monitor = "active"
  BY <1>1, <1>2, <1>7 DEF CalmInv, ServiceInv, Watched, InCharge, Watching
<1>9. run.result # "HEALTHY" => run.result = "FAILED" /\ swarm[cur].replicas = "absent"
  BY <1>1, <1>2 DEF RunType, OwnService, Up, Kept, Serving, Exposed, Promoting, Leaving
<1> QED
  BY <1>1, <1>2, <1>3, <1>4, <1>5, <1>6, <1>7, <1>8, <1>9 DEF OwnService

LEMMA RunKeepsWell ==
    ASSUME CalmInv, DeployStep \/ CancellationStep, ~Release, NEW p \in Deployments
    PROVE  RunsWell(p)'
<1>1. /\ Phases /\ MorePhases /\ RunsWell(p) /\ PreviousKnown /\ UNCHANGED toggle
      /\ TypeInv /\ rows \in Rows /\ swarm \in [Deployments -> SwarmType]
      /\ run.prev # None => run.prev # cur
  BY CalmPhases, MoreCalmPhases, RunKeepsToggle, CalmFacts
  DEF CalmInv, ServiceInv, RunStep, RunPlace
<1>2. ASSUME Gone(p)' PROVE swarm'[p].replicas = "absent"
  <2>1. CASE RemovePreviousService /\ p = run.prev
    BY <1>1, <2>1 DEF RemovePreviousService, RemoveService, SetReplicas, SwarmType
  <2>2. CASE Gone(p)
    <3>1. swarm[p].replicas = "absent" /\ ~CreateService
      BY <1>1, <2>2 DEF RunsWell, Gone, Replaced, Promoting, CreateService
    <3> QED
      BY <1>1, <3>1, RunSwarm DEF RunStep
  <2> QED
    BY <1>2, <2>1, <2>2, StaysCurrent
<1>3. CASE MakeProduction /\ p = cur
  BY <1>2, <1>3, NewProduction DEF RunsWell
<1>4. CASE Current(p)' /\ ~(MakeProduction /\ p = cur)
  <2>1. /\ Current(p) /\ ~(MarkPreviousRemoved /\ p = run.prev)
        /\ ~(RemovePreviousService /\ p = run.prev)
    BY <1>4, StaysCurrent
  <2>2. /\ swarm'[p].replicas = "absent" <=> swarm[p].replicas = "absent"
        /\ swarm'[p].alias = swarm[p].alias /\ rows'[p].slot = rows[p].slot
        /\ \/ swarm'[p].replicas \in {swarm[p].replicas, "up"}
           \/ run'.pc = "wait_down" /\ run'.prev = p
    BY <2>1, CurrentService
  <2>3. swarm'[p].replicas = "absent" <=> rows'[p].status = "FAILED"
    <3>1. PreviousIsDown /\ p = run.prev => swarm[p].replicas # "absent"
      BY <1>1, CalmFacts DEF PreviousIsDown, PreviousKnown, Known, Replaced, Promoting
    <3> QED
      BY <1>1, <2>1, <2>2, <3>1, ProductionRow DEF RunsWell, Current
  <2>4. rows'[p].status \notin {"FAILED", "SLEEPING"} /\ ~Pausing(p)'
          => swarm'[p].replicas = "up"
    <3> SUFFICES ASSUME rows'[p].status \notin {"FAILED", "SLEEPING"}, ~Pausing(p)'
                 PROVE  swarm'[p].replicas = "up"
      OBVIOUS
    <3>1. ~(run'.pc = "wait_down" /\ run'.prev = p)
      BY DEF Pausing
    <3>2. PreviousIsDown /\ p = run.prev => rows'[p].status = "SLEEPING"
      BY <1>1, PutToSleepRow DEF PreviousIsDown
    <3>3. run.pc = "wait_down" /\ ~PreviousIsDown => run'.pc = "wait_down" /\ run'.prev = run.prev
      BY <1>1 DEF MorePhases, Phases, GetPreviousProduction, CancelGetPrevious
    <3>4. ~Pausing(p)
      BY <1>1, <3>1, <3>2, <3>3 DEF Pausing
    <3> QED
      BY <1>1, <2>1, <2>2, <3>1, <3>4, ProductionRow DEF RunsWell, Current
  <2> QED
    BY <1>1, <1>2, <2>1, <2>2, <2>3, <2>4 DEF RunsWell
<1> QED
  BY <1>2, <1>3, <1>4 DEF RunsWell

\* A run wakes up the deployment that it, or another run, has put to sleep.
LEMMA WakesUp ==
    ASSUME CalmInv, ScaleBackPrevious \/ CancelScaleBack, NEW p \in Deployments, Current(p),
           Lent(p), rows[p].status = "SLEEPING", rows[p].marker # "manual"
    PROVE  rows'[p].status = "STARTING"
<1>1. rows \in Rows /\ None \notin Deployments /\ PreviousKnown
  BY CalmFacts DEF CalmInv
<1>2. rows[p].production /\ swarm[p].replicas # "absent"
  BY DEF Current, CalmInv, ServiceInv, RunsWell
<1>3. p = run.prev
  BY <1>1, <1>2
  DEF ScaleBackPrevious, CancelScaleBack, Lent, Leaving, PreviousKnown
<1>4. ScaleBackPrevious => ~run.prevFailed
  BY <1>1, <1>2, <1>3 DEF ScaleBackPrevious, PreviousKnown, Known, Replaced, Promoting
<1>5. ScaleBack(p, FALSE)
  BY <1>1, <1>3, <1>4 DEF ScaleBackPrevious, CancelScaleBack
<1> QED
  BY <1>1, <1>2, <1>5 DEF ScaleBack, LeftAsleep, Rows, RowType

LEMMA RunKeepsRested ==
    ASSUME CalmInv, DeployStep \/ CancellationStep, ~Release, NEW p \in Deployments
    PROVE  Rested(p)'
<1> SUFFICES ASSUME Current(p)', rows'[p].status = "SLEEPING", rows'[p].marker # "manual"
             PROVE  Lent(p)'
  BY DEF Rested
<1>1. Phases /\ MorePhases /\ Rested(p) /\ run \in RunType
  BY CalmPhases, MoreCalmPhases, CalmFacts DEF CalmInv, ServiceInv
<1>2. ~(MakeProduction /\ p = cur)
  BY NewProduction, CalmFacts DEF RunType
<1>3. /\ Current(p) /\ rows[p].production /\ ~(MarkPreviousRemoved /\ p = run.prev)
      /\ ~(RemovePreviousService /\ p = run.prev)
  BY <1>2, StaysCurrent DEF Current
<1>4. CASE rows'[p].status = rows[p].status /\ rows'[p].marker = rows[p].marker
  <2>1. Lent(p)
    BY <1>1, <1>3, <1>4 DEF Rested
  <2>2. ~ScaleBackPrevious /\ ~CancelScaleBack
    BY <1>3, <1>4, <2>1, WakesUp
  <2> QED
    BY <1>1, <1>3, <2>1, <2>2 DEF MorePhases
<1>5. CASE PreviousIsDown /\ p = run.prev
  BY <1>1, <1>5, ActivityMoves DEF Moves, Lent
<1> QED
  BY <1>3, <1>4, <1>5, ProductionRow

\* A deployment that is not marked as failed was not before.
LEMMA NotFailed ==
    ASSUME CalmInv, DeployStep \/ CancellationStep, NEW p \in Deployments, Current(p),
           ~(MarkPreviousRemoved /\ p = run.prev), rows'[p].status # "FAILED"
    PROVE  rows[p].status # "FAILED"
<1>1. PreviousIsDown /\ p = run.prev => swarm[p].replicas # "absent"
  BY CalmFacts DEF CalmInv, PreviousIsDown, PreviousKnown, Known, Replaced, Promoting
<1>2. swarm[p].replicas # "absent" => rows[p].status # "FAILED"
  BY DEF CalmInv, ServiceInv, RunsWell
<1> QED
  BY <1>1, <1>2, ProductionRow DEF Current

LEMMA RunKeepsRouted ==
    ASSUME CalmInv, DeployStep \/ CancellationStep, ~Release, NEW p \in Deployments
    PROVE  Routed(p)'
<1>1. /\ Phases /\ run \in RunType /\ OneFlag(rows) /\ rows \in Rows /\ None \notin Deployments
      /\ UNCHANGED snapshot /\ snapshot \in [Deployments -> SnapshotType] /\ cur' = cur
      /\ payload' = payload /\ run'.slot = run.slot
      /\ route \in [Urls -> Slots \cup {"none"}]
  BY CalmPhases, CalmFacts, SnapshotStays DEF RunStep, Phases, payload
<1> SUFFICES ASSUME Current(p)', rows'[p].status # "FAILED", NEW u \in snapshot[p].urls
             PROVE  route'[u] = IF Dialled' /\ u \in payload.urls THEN run.slot
                                ELSE swarm'[p].alias
  BY <1>1 DEF Routed
<1>2. u \in Urls
  BY <1>1 DEF SnapshotType
<1>3. CASE MakeProduction /\ p = cur
  <2>1. UNCHANGED <<route, swarm>> /\ run.result = "HEALTHY"
    BY <1>3, NewProduction
  <2> QED
    BY <1>3, <2>1, NewProduction DEF payload
<1>4. CASE ~(MakeProduction /\ p = cur)
  <2>1. /\ Current(p) /\ ~MakeProduction /\ rows[p].production
        /\ ~(MarkPreviousRemoved /\ p = run.prev) /\ ~(RemovePreviousService /\ p = run.prev)
    BY <1>4, StaysCurrent DEF Current
  <2>2. /\ rows[p].status # "FAILED" /\ swarm'[p].alias = swarm[p].alias
        /\ rows[p].slot = swarm[p].alias
    <3>1. rows[p].status # "FAILED"
      BY <2>1, NotFailed
    <3> QED
      BY <2>1, <3>1, CurrentService DEF CalmInv, ServiceInv, RunsWell
  <2>3. route[u] = IF Dialled /\ u \in payload.urls THEN run.slot ELSE swarm[p].alias
    BY <2>1, <2>2 DEF CalmInv, ServiceInv, Routed
  <2>4. CASE Expose
    <3>1. ~Dialled /\ Dialled'
      BY <1>1, <2>4, PromotionMoves DEF Moves, Dialled, Exposed, Promoting, Kept
    <3>2. route'[u] = IF u \in payload.urls THEN run.slot ELSE route[u]
      BY <1>2, <2>4 DEF Expose, Dial
    <3> QED
      BY <2>2, <2>3, <3>1, <3>2
  <2>5. ~RemoveOldUrls
    <3>1. SUFFICES ASSUME RemoveOldUrls PROVE FALSE
      OBVIOUS
    <3>2. /\ run.pc \in Known /\ run.pc \in Replaced /\ RunOpen /\ run.pc \notin PastFlag
      BY <3>1 DEF RemoveOldUrls, Known, Promoting, Replaced, RunOpen, PastFlag
    <3>3. p \in Production(rows)
      BY <2>1, CalmFacts DEF Production, Existing, FreshRows, Fresh, Idle, Begun
    <3>4. p # cur /\ p \in {cur, run.prev}
      BY <2>1, <3>2, <3>3, OwnIdle, CalmFacts DEF RunReplaces
    <3> QED
      BY <2>1, <3>2, <3>4 DEF Current, Gone
  <2>6. CASE ResetUrls /\ run.step < 6
    <3>1. ~Dialled /\ ~Dialled' /\ UNCHANGED route
      BY <2>6, CalmFacts, PhaseEnds DEF ResetUrls, Dialled, Kept, Exposed, Promoting, RunType
    <3> QED
      BY <2>2, <2>3, <3>1
  <2>7. CASE ResetUrls /\ ~(run.step < 6)
    <3>1. PICK q \in Maybe(Deployments) :
            LET kept == Dial(route, addedUrls[cur], "none")
            IN  /\ IsPreviousProduction(q)
                /\ route' = IF q = None THEN kept
                            ELSE Dial(kept, snapshot[q].urls, rows[q].slot)
      BY <2>7 DEF ResetUrls
    <3>2. p \in Production(rows) \ {cur}
      BY <2>1, <2>7, OwnIdle, CalmFacts
      DEF ResetUrls, RunOpen, PastFlag, Production, Existing, FreshRows, Fresh, Idle, Begun
    <3>3. q = p
      BY <1>1, <3>1, <3>2
      DEF IsPreviousProduction, IsNewest, OneFlag, Production, Existing
    <3>4. route'[u] = rows[p].slot
      BY <1>1, <1>2, <3>1, <3>3 DEF Dial
    <3>5. ~Dialled'
      BY <2>7, PhaseEnds
    <3> QED
      BY <2>2, <3>4, <3>5
  <2>8. CASE UNCHANGED route /\ ~Expose /\ ~ResetUrls
    <3>1. Dialled' <=> Dialled
      BY <1>1, <2>1, <2>8 DEF Phases
    <3> QED
      BY <2>2, <2>3, <2>8, <3>1
  <2> QED
    BY <2>4, <2>5, <2>6, <2>7, <2>8, RunFrames
<1> QED
  BY <1>3, <1>4

\* When a deployment ceases to be the one in charge, its schedules are deleted.
LEMMA Dismissed ==
    ASSUME CalmInv, DeployStep \/ CancellationStep, ~Release, NEW d \in Deployments, ~InCharge(d)'
    PROVE  InCharge(d) => schedules'[d] = NoSchedule
<1> SUFFICES ASSUME InCharge(d) PROVE schedules'[d] = NoSchedule
  OBVIOUS
<1>1. /\ Phases /\ schedules \in [Deployments -> ScheduleType] /\ run \in RunType
      /\ None \notin Deployments
  BY CalmPhases, CalmFacts
<1>2. ~MakeProduction
  <2>1. SUFFICES ASSUME MakeProduction PROVE FALSE
    OBVIOUS
  <2>2. d # cur /\ run.pc \in Alone
    BY <1>1, <2>1, RunMovesFlag, NewProduction, EndMoves
    DEF InCharge, Moves, Promoting, Alone
  <2>3. d \in Production(rows)
    BY CalmFacts DEF InCharge, Production, Existing, FreshRows, Fresh, Idle, Begun
  <2> QED
    BY <2>2, <2>3, CalmFacts DEF RunReplaces, Alone
<1>3. rows'[d].production
  BY <1>2, RunMovesFlag DEF InCharge, MarkPreviousRemoved, Promoting
<1>4. DeletePreviousSchedules /\ d = run.prev
  <2>1. run'.prev = d /\ run'.pc \in Promoting
    BY <1>3 DEF InCharge
  <2>2. run'.prev = run.prev
    BY <1>1, <2>1, ActivityMoves, CancellationMoves DEF Phases, Moves, Promoting
  <2> QED
    BY <1>1, <2>1, <2>2 DEF Phases, InCharge
<1> QED
  BY <1>1, <1>4 DEF DeletePreviousSchedules

\* The deployment of the run is watched from the creation of its schedule on...
LEMMA RunKeepsWatching ==
    ASSUME CalmInv, DeployStep \/ CancellationStep, ~Release, Watching'
    PROVE  schedules'[cur].monitor = "active"
<1>1. /\ Phases /\ MorePhases /\ schedules \in [Deployments -> ScheduleType]
      /\ cur \in Deployments /\ RunOpen /\ run \in RunType
      /\ run.prev # None => run.prev # cur
  BY CalmPhases, MoreCalmPhases, CalmFacts DEF Phases, RunPlace
<1>2. /\ RunOpen /\ (Watching \/ run.pc = "monitor_schedule")
      /\ run.pc \notin {"promote", "wait_down", "scale_back", "cancel_scale_back",
                        "cleanup_unclean"}
  BY <1>1
  DEF MorePhases, CreateMonitorSchedule, Watching, Kept, RunOpen
<1>3. ~InCharge(cur)
  BY <1>1, <1>2, OwnIdle DEF InCharge, Watching, Kept, PastFlag
<1>4. CASE Watching
  <2>1. schedules[cur].monitor = "active" /\ ~CreateMonitorSchedule
    BY <1>1, <1>3, <1>4
    DEF CalmInv, ServiceInv, Watched, Watching, Kept, CreateMonitorSchedule
  <2> QED
    BY <1>1, <1>2, <2>1, RunSchedules
    DEF DeletePreviousSchedules, PreviousIsDown, ScaleBackPrevious, CancelScaleBack,
        CleanupUncleanDeployments
<1>5. CASE ~Watching
  <2>1. CreateMonitorSchedule
    BY <1>1, <1>5 DEF MorePhases
  <2>2. schedules[cur] = NoSchedule
    BY <1>1, <1>3, <1>5 DEF CalmInv, ServiceInv, Watched
  <2>3. schedules'[cur].monitor = Create(schedules[cur].monitor)
    BY <1>1, <2>1 DEF CreateMonitorSchedule, ScheduleType
  <2> QED
    BY <2>2, <2>3 DEF NoSchedule, Create
<1> QED
  BY <1>4, <1>5

\* ...the one in charge as long as it is...
LEMMA RunKeepsCharge ==
    ASSUME CalmInv, DeployStep \/ CancellationStep, ~Release, NEW d \in Deployments,
           InCharge(d)', rows'[d].status # "FAILED"
    PROVE  /\ schedules'[d].monitor # "none"
           /\ rows'[d].status # "SLEEPING" => schedules'[d].monitor = "active"
<1>1. /\ Phases /\ schedules \in [Deployments -> ScheduleType] /\ rows \in Rows
      /\ run \in RunType /\ None \notin Deployments
  BY CalmPhases, CalmFacts
<1>2. CASE MakeProduction /\ d = cur
  BY <1>1, <1>2, NewProduction
<1>3. CASE ~(MakeProduction /\ d = cur)
  <2>1. rows[d].production /\ ~MakeProduction /\ ~(MarkPreviousRemoved /\ d = run.prev)
    BY <1>3, RunMovesFlag DEF InCharge
  <2>2. InCharge(d)
    <3>1. run.prev = d /\ run.pc \in Promoting => run'.pc \in Promoting /\ run'.prev = d
      BY <1>1, <2>1, ActivityMoves, CancellationMoves DEF Phases, Moves, Promoting
    <3> QED
      BY <2>1, <3>1 DEF InCharge
  <2>3. Current(d)
    BY <2>2 DEF InCharge, Current, Gone, Replaced
  <2>4. rows[d].status # "FAILED"
    BY <2>1, <2>3, NotFailed
  <2>5. /\ schedules[d].monitor # "none"
        /\ rows[d].status # "SLEEPING" => schedules[d].monitor = "active"
    BY <2>2, <2>4 DEF CalmInv, ServiceInv, Watched
  <2>6. ~(DeletePreviousSchedules /\ d = run.prev)
    BY <1>1, PromotionMoves DEF Moves, InCharge, Promoting
  <2>7. d = cur => ~CreateMonitorSchedule /\ ~CreateStatsSchedule
    BY <2>1, OwnIdle DEF CreateMonitorSchedule, CreateStatsSchedule, RunOpen, PastFlag
  <2>8. PreviousIsDown /\ d = run.prev => rows'[d].status = "SLEEPING"
    BY <1>1, PutToSleepRow DEF PreviousIsDown
  <2>9. \/ schedules'[d] = schedules[d]
        \/ /\ PreviousIsDown /\ d = run.prev
           /\ schedules'[d].monitor = Pause(schedules[d].monitor)
        \/ schedules'[d].monitor = Unpause(schedules[d].monitor)
    <3>1. CASE (ScaleBackPrevious \/ CancelScaleBack) /\ schedules'[d] # schedules[d]
      BY <1>1, <2>1, <3>1, RunSchedules
      DEF ScheduleType, ScaleBackPrevious, CancelScaleBack, DeletePreviousSchedules,
          CreateMonitorSchedule, CreateStatsSchedule, PreviousIsDown, CleanupUncleanDeployments
    <3>2. \/ schedules'[d] = schedules[d]
          \/ /\ PreviousIsDown /\ d = run.prev
             /\ schedules'[d] = [monitor |-> Pause(schedules[d].monitor),
                                 metrics |-> Pause(schedules[d].metrics)]
          \/ ScaleBackPrevious \/ CancelScaleBack
      BY <2>1, <2>6, <2>7, RunSchedules
    <3> QED
      BY <3>1, <3>2
  <2>10. CASE rows'[d].status = rows[d].status
    BY <2>5, <2>8, <2>9, <2>10 DEF Pause, Unpause
  <2>11. CASE PreviousIsDown /\ rows'[d].status = "SLEEPING"
    BY <2>5, <2>9, <2>11 DEF Pause, Unpause
  <2>12. CASE schedules'[d].monitor = Unpause(schedules[d].monitor)
    BY <2>5, <2>12 DEF Unpause
  <2> QED
    BY <2>1, <2>10, <2>11, <2>12, ProductionRow
<1> QED
  BY <1>2, <1>3

\* ...and no other.
LEMMA RunKeepsUnwatched ==
    ASSUME CalmInv, DeployStep \/ CancellationStep, ~Release, NEW d \in Deployments,
           ~InCharge(d)', ~(d = cur /\ Watching')
    PROVE  schedules'[d] = NoSchedule
<1>1. /\ Phases /\ MorePhases /\ schedules \in [Deployments -> ScheduleType] /\ RunOpen
      /\ run \in RunType
  BY CalmPhases, MoreCalmPhases, CalmFacts DEF Phases
<1>2. CASE InCharge(d)
  BY <1>2, Dismissed
<1>3. CASE ~InCharge(d)
  <2>1. ~(d = cur /\ Watching)
    <3>1. ASSUME d = cur, Watching PROVE FALSE
      <4>1. MakeProduction
        BY <1>1, <3>1 DEF MorePhases
      <4>2. rows'[d].production /\ run'.pc \notin Promoting
        BY <1>1, <3>1, <4>1, RunMovesFlag, EndMoves, CalmFacts DEF Moves, Promoting, CalmInv, ErrorSteps, MakeProduction
      <4> QED
        BY <4>2 DEF InCharge
    <3> QED
      BY <3>1
  <2>2. schedules[d] = NoSchedule
    BY <1>1, <1>3, <2>1 DEF CalmInv, ServiceInv, Watched
  <2>3. d = cur => ~CreateMonitorSchedule /\ ~CreateStatsSchedule
    BY <1>1, <2>1, PromotionMoves DEF Moves, Watching
  <2>4. schedules'[d] \in {schedules[d], NoSchedule,
                           [monitor |-> Pause(schedules[d].monitor),
                            metrics |-> Pause(schedules[d].metrics)],
                           [schedules[d] EXCEPT !.monitor = Unpause(@)]}
    BY <2>3, RunSchedules
  <2> QED
    BY <2>2, <2>4 DEF NoSchedule, Pause, Unpause
<1> QED
  BY <1>2, <1>3

LEMMA RunKeepsServiceInv ==
    ASSUME CalmInv, DeployStep \/ CancellationStep PROVE ServiceInv'
<1> SUFFICES ASSUME NEW p \in Deployments
             PROVE  RunsWell(p)' /\ Rested(p)' /\ Routed(p)' /\ Watched(p)'
  BY DEF ServiceInv
<1>1. CASE ~Release
  <2>1. cur' = cur /\ RunOpen'
    BY <1>1, CalmPhases DEF Phases
  <2>2. Watched(p)'
    BY <1>1, <2>1, RunKeepsWatching, RunKeepsCharge, RunKeepsUnwatched DEF Watched
  <2> QED
    BY <1>1, <2>2, RunKeepsWell, RunKeepsRested, RunKeepsRouted
<1>2. CASE Release
  <2>1. /\ RunsWell(p) /\ Rested(p) /\ Routed(p) /\ Watched(p) /\ UNCHANGED toggle
        /\ run.pc = "release"
    BY <1>2, RunKeepsToggle DEF CalmInv, ServiceInv, RunStep, Release
  <2>2. /\ UNCHANGED <<rows, swarm, snapshot, schedules, route>>
        /\ ~Gone(p) /\ ~Gone(p)' /\ ~Dialled /\ ~Dialled' /\ ~Watching /\ ~Watching'
        /\ (Pausing(p)' <=> Pausing(p)) /\ (InCharge(p)' <=> InCharge(p)) /\ ~Lent(p)
    BY <1>2, <2>1, ReleaseBegins
    DEF Gone, Dialled, Watching, Kept, Pausing, InCharge, Lent, Leaving, Exposed, Promoting,
        Replaced
  <2>3. RunsWell(p)' /\ Rested(p)'
    BY <2>1, <2>2 DEF RunsWell, Rested, Current
  <2>4. Routed(p)' /\ Watched(p)'
    BY <2>1, <2>2 DEF Routed, Watched, Current
  <2> QED
    BY <2>3, <2>4
<1> QED
  BY <1>1, <1>2

-----------------------------------------------------------------------------
(* What the steps outside the run do to it                                 *)

SameRun ==
    /\ run'.pc = run.pc /\ cur' = cur /\ run'.slot = run.slot /\ run'.prev = run.prev
    /\ run'.prevFailed = run.prevFailed /\ run'.result = run.result /\ run'.step = run.step
    /\ run'.next = run.next /\ run'.nextSlot = run.nextSlot
    /\ run'.madeVolumes = run.madeVolumes /\ run'.madeConfigs = run.madeConfigs

LEMMA SamePhases ==
    ASSUME SameRun
    PROVE  /\ (Up' <=> Up) /\ (Dialled' <=> Dialled)
           /\ (Watching' <=> Watching) /\ (RunOpen' <=> RunOpen)
           /\ \A p \in Deployments : (Gone(p)' <=> Gone(p)) /\ (Lent(p)' <=> Lent(p))
<1>1. (Up' <=> Up) /\ (Dialled' <=> Dialled)
  BY DEF SameRun, Up, Dialled, Kept, Leaving
<1>2. (Watching' <=> Watching) /\ (RunOpen' <=> RunOpen)
  BY DEF SameRun, Watching, Kept, RunOpen
<1>3. \A p \in Deployments : (Gone(p)' <=> Gone(p)) /\ (Lent(p)' <=> Lent(p))
  BY DEF SameRun, Gone, Lent, Leaving
<1> QED
  BY <1>1, <1>2, <1>3

\* They create and remove no service, and leave that of the run alone.
LEMMA OthersKeepRun ==
    ASSUME CalmInv, SameRun, UNCHANGED <<route, volumes, configs>>,
           RunOpen => payload' = payload,
           \A e \in Deployments :
               /\ rows'[e].production = rows[e].production
               /\ swarm'[e].replicas = "absent" <=> swarm[e].replicas = "absent"
               /\ swarm[e].replicas # "absent" => snapshot'[e] = snapshot[e],
           RunOpen => swarm'[cur].alias = swarm[cur].alias,
           RunOpen /\ run.pc \notin PastFlag => swarm'[cur] = swarm[cur],
           run.pc = "set_production" => rows'[cur].status = rows[cur].status
    PROVE  OwnService' /\ NoLeftover' /\ Installed' /\ Prepared' /\ PreviousKnown'
<1>1. /\ RunOpen => cur \in Deployments
      /\ run.prev \in Maybe(Deployments)
      /\ OwnService /\ NoLeftover /\ Installed /\ Prepared /\ PreviousKnown
  BY CalmFacts DEF CalmInv
<1>2. /\ Up => RunOpen /\ run.pc \notin PastFlag
      /\ Dialled => RunOpen
      /\ run.pc \in {"set_production", "remove_superseded", "remove_own"} => RunOpen
      /\ run.pc = "remove_own" => run.pc \notin PastFlag
      /\ run.pc \in HasVolumes \cup HasConfigs => RunOpen
  BY DEF Up, Dialled, Kept, Serving, Exposed, Promoting, Leaving, RunOpen, PastFlag, HasVolumes,
         HasConfigs
<1>3. OwnService'
  <2>1. (Up => swarm[cur] = [replicas |-> "up", alias |-> run.slot])'
    BY <1>1, <1>2, SamePhases DEF OwnService, SameRun
  <2>2. (Dialled => \A u \in payload.urls : route[u] = run.slot)'
    BY <1>1, <1>2, SamePhases DEF OwnService, SameRun
  <2>3. /\ (run.pc = "remove_own"
              => swarm[cur].replicas = "absent" \/ swarm[cur].alias = run.slot)'
        /\ (RunOpen /\ ~Up /\ run.pc # "remove_own" /\ ~rows[cur].production
              => swarm[cur].replicas = "absent")'
    BY <1>1, <1>2, SamePhases DEF OwnService, SameRun
  <2>4. /\ (run.pc = "set_production" => rows[cur].status = run.result)'
        /\ (run.pc = "remove_superseded" => rows[cur].production)'
    BY <1>1, <1>2, SamePhases DEF OwnService, SameRun
  <2> QED
    BY <2>1, <2>2, <2>3, <2>4 DEF OwnService
<1>4. NoLeftover'
  BY <1>1, SamePhases DEF NoLeftover, SameRun
<1>5. Installed'
  BY <1>1, SamePhases DEF Installed, SameRun
<1>6. Prepared'
  BY <1>1, <1>2 DEF Prepared, SameRun
<1>7. PreviousKnown'
  BY <1>1 DEF PreviousKnown, SameRun, Maybe
<1> QED
  BY <1>3, <1>4, <1>5, <1>6, <1>7

\* A cancellation requested of a deployment, even of one in production that is starting
\* again, leaves its service as it is.
LEMMA StatusKeepsService ==
    ASSUME CalmInv, SameRun, UNCHANGED <<route, swarm, schedules, toggle>>,
           RunOpen => payload' = payload, NEW p \in Deployments,
           rows'[p].production = rows[p].production,
           rows[p].production =>
               /\ snapshot'[p] = snapshot[p] /\ rows'[p].slot = rows[p].slot
               /\ \/ rows'[p].status = rows[p].status /\ rows'[p].marker = rows[p].marker
                  \/ rows[p].status \in CancellableStatuses /\ rows'[p].status = "CANCELLED"
    PROVE  RunsWell(p)' /\ Rested(p)' /\ Routed(p)' /\ Watched(p)'
<1>1. /\ RunsWell(p) /\ Rested(p) /\ Routed(p) /\ Watched(p)
      /\ (Current(p)' <=> Current(p)) /\ (InCharge(p)' <=> InCharge(p))
      /\ (Pausing(p)' <=> Pausing(p)) /\ (Gone(p)' <=> Gone(p))
      /\ Dialled => RunOpen
  BY SamePhases
  DEF CalmInv, ServiceInv, Current, InCharge, Pausing, SameRun, Dialled, Kept, Exposed,
      Promoting, RunOpen
<1>2. Current(p) \/ InCharge(p) =>
        /\ rows'[p].status = "FAILED" <=> rows[p].status = "FAILED"
        /\ rows'[p].status = "SLEEPING" => rows[p].status = "SLEEPING" /\ rows'[p].marker = rows[p].marker
        /\ rows'[p].status \notin {"FAILED", "SLEEPING"}
             => rows[p].status \notin {"FAILED", "SLEEPING"}
        /\ snapshot'[p] = snapshot[p] /\ rows'[p].slot = rows[p].slot
  BY DEF Current, InCharge, CancellableStatuses, ActiveStatuses
<1>3. RunsWell(p)'
  BY <1>1, <1>2 DEF RunsWell
<1>4. Rested(p)'
  BY <1>1, <1>2, SamePhases DEF Rested
<1>5. Routed(p)'
  BY <1>1, <1>2, SamePhases DEF Routed, SameRun
<1>6. Watched(p)'
  BY <1>1, <1>2, SamePhases DEF Watched, SameRun
<1> QED
  BY <1>3, <1>4, <1>5, <1>6

-----------------------------------------------------------------------------
(* Start and stop requests, and the monitor                                *)

\* They are about the deployment in production, or about none that has a service.
LEMMA ToggledService ==
    ASSUME CalmInv, NEW d \in Deployments, swarm[d].replicas # "absent",
           rows[d].production \/ (toggle.pc # "idle" /\ toggle.dep = d)
    PROVE  Current(d) /\ (RunOpen /\ run.pc \notin PastFlag => d # cur)
<1>1. RunOpen /\ run.pc \notin PastFlag => d # cur
  BY OwnIdle
<1>2. rows[d].production
  <2>1. RunOpen /\ run.pc \in PastFlag => ~Up /\ run.pc # "remove_own"
    BY DEF Up, Kept, Serving, Exposed, Promoting, Leaving, PastFlag
  <2> QED
    BY <1>1, <2>1 DEF CalmInv, NoLeftover, OwnService
<1>3. ~Gone(d)
  BY DEF CalmInv, ServiceInv, RunsWell
<1> QED
  BY <1>1, <1>2, <1>3 DEF Current

\* What a step of them does to a deployment: nothing, a start, a stop, the save of a stop,
\* or a check of the monitor.
ToggleEffect(p) ==
    \/ /\ rows'[p] = rows[p] /\ swarm'[p] = swarm[p] /\ schedules'[p] = schedules[p]
       /\ toggle'.pc = "wait_down" /\ toggle'.dep = p
            <=> toggle.pc = "wait_down" /\ toggle.dep = p
    \/ /\ toggle'.pc = "idle" /\ swarm[p].replicas # "absent" /\ Current(p)
       /\ swarm'[p].replicas = "up"
       /\ IF rows[p].status = "SLEEPING"
          THEN /\ rows'[p].status = "STARTING"
               /\ schedules'[p] = [schedules[p] EXCEPT !.monitor = Unpause(@)]
          ELSE rows'[p] = rows[p] /\ schedules'[p] = schedules[p]
    \/ /\ toggle'.pc = "wait_down" /\ toggle'.dep = p
       /\ swarm[p].replicas # "absent" /\ swarm'[p].replicas = "down"
       /\ rows'[p] = rows[p] /\ schedules'[p] = schedules[p]
    \/ /\ toggle.pc = "wait_down" /\ toggle.dep = p /\ toggle'.pc = "idle"
       /\ swarm'[p] = swarm[p]
       /\ rows'[p].status = "SLEEPING" /\ rows'[p].marker = "manual"
       /\ schedules'[p] = [monitor |-> Pause(schedules[p].monitor),
                           metrics |-> Pause(schedules[p].metrics)]
    \/ /\ toggle' = toggle /\ swarm'[p] = swarm[p] /\ schedules'[p] = schedules[p]
       /\ schedules[p].monitor = "active" /\ swarm[p].replicas # "absent" /\ Current(p)
       /\ rows[p].status # "SLEEPING" /\ rows'[p].status \in {"HEALTHY", "UNHEALTHY", "STARTING"}

LEMMA ToggleEffects ==
    ASSUME CalmInv,
           RequestToggle \/ ToggleStep \/ \E d \in Deployments : MonitorDeployment(d),
           NEW p \in Deployments
    PROVE  /\ ToggleEffect(p)
           /\ rows'[p].production = rows[p].production /\ rows'[p].slot = rows[p].slot
           /\ swarm'[p].alias = swarm[p].alias
           /\ swarm'[p].replicas = "absent" <=> swarm[p].replicas = "absent"
           /\ RunOpen /\ run.pc \notin PastFlag /\ p = cur
                => swarm'[p] = swarm[p] /\ rows'[p] = rows[p]
<1> DEFINE Kind == /\ ToggleEffect(p)
                   /\ rows'[p].production = rows[p].production /\ rows'[p].slot = rows[p].slot
                   /\ swarm'[p].alias = swarm[p].alias
                   /\ swarm'[p].replicas = "absent" <=> swarm[p].replicas = "absent"
           Own == RunOpen /\ run.pc \notin PastFlag /\ p = cur
                    => swarm'[p] = swarm[p] /\ rows'[p] = rows[p]
<1>1. /\ rows \in Rows /\ swarm \in [Deployments -> SwarmType] /\ toggle \in ToggleType
      /\ schedules \in [Deployments -> ScheduleType]
  BY CalmFacts
<1>2. RunOpen /\ run.pc \notin PastFlag /\ p = cur
        => ~rows[p].production /\ (toggle.pc # "idle" => toggle.dep # p)
  BY OwnIdle
<1>3. CASE RequestToggle
  <2>1. UNCHANGED <<rows, swarm, schedules>> /\ toggle.pc = "idle"
    BY <1>3 DEF RequestToggle, resources, database, docker
  <2>2. toggle'.pc # "wait_down"
    <3>1. PICK d \in Production(rows), desired \in {"start", "stop"} :
            toggle' = [toggle EXCEPT !.pc = desired, !.dep = d]
      BY <1>3 DEF RequestToggle
    <3> QED
      BY <1>1, <3>1 DEF ToggleType
  <2> QED
    BY <2>1, <2>2 DEF ToggleEffect
<1>4. CASE ToggleStart
  <2>1. toggle.pc = "start" /\ toggle'.pc = "idle" /\ ScaleBack(toggle.dep, TRUE)
    BY <1>4 DEF ToggleStart, ToggleEnds
  <2>2. CASE swarm[toggle.dep].replicas = "absent" \/ p # toggle.dep
    <3>1. rows'[p] = rows[p] /\ swarm'[p] = swarm[p] /\ schedules'[p] = schedules[p]
      BY <1>1, <2>1, <2>2 DEF ScaleBack, SetReplicas, Rows
    <3> QED
      BY <2>1, <3>1 DEF ToggleEffect
  <2>3. CASE swarm[p].replicas # "absent" /\ p = toggle.dep
    <3>1. /\ swarm' = [swarm EXCEPT ![p].replicas = "up"]
          /\ IF rows[p].status = "SLEEPING"
             THEN /\ rows' = [rows EXCEPT ![p].status = "STARTING", ![p].marker = "other"]
                  /\ schedules' = [schedules EXCEPT ![p].monitor = Unpause(@)]
             ELSE UNCHANGED <<rows, schedules>>
      BY <2>1, <2>3 DEF ScaleBack, LeftAsleep, SetReplicas
    <3>2. Current(p)
      BY <2>1, <2>3, ToggledService
    <3>3. /\ swarm'[p].replicas = "up" /\ swarm'[p].alias = swarm[p].alias
          /\ rows'[p].production = rows[p].production /\ rows'[p].slot = rows[p].slot
      BY <1>1, <3>1 DEF SwarmType, Rows, RowType
    <3>4. IF rows[p].status = "SLEEPING"
          THEN /\ rows'[p].status = "STARTING"
               /\ schedules'[p] = [schedules[p] EXCEPT !.monitor = Unpause(@)]
          ELSE rows'[p] = rows[p] /\ schedules'[p] = schedules[p]
      BY <1>1, <3>1 DEF Rows, RowType
    <3> QED
      BY <1>2, <2>1, <2>3, <3>2, <3>3, <3>4 DEF ToggleEffect
  <2> QED
    BY <2>2, <2>3
<1>5. CASE ToggleStop
  <2>1. UNCHANGED <<rows, schedules>> /\ toggle.pc = "stop"
    BY <1>5 DEF ToggleStop, database
  <2>2. CASE swarm[toggle.dep].replicas = "absent"
    BY <1>5, <2>1, <2>2 DEF ToggleStop, ToggleEnds, ToggleEffect
  <2>3. CASE swarm[toggle.dep].replicas # "absent"
    <3>1. /\ swarm' = [swarm EXCEPT ![toggle.dep].replicas = "down"]
          /\ toggle'.pc = "wait_down" /\ toggle'.dep = toggle.dep
      BY <1>1, <1>5, <2>3 DEF ToggleStop, SetReplicas, ToggleType
    <3>2. CASE p = toggle.dep
      BY <1>1, <1>2, <2>1, <2>3, <3>1, <3>2 DEF ToggleEffect, SwarmType
    <3>3. CASE p # toggle.dep
      BY <1>1, <2>1, <3>1, <3>3 DEF ToggleEffect
    <3> QED
      BY <3>2, <3>3
  <2> QED
    BY <2>2, <2>3
<1>6. CASE ToggleIsDown
  <2>1. /\ toggle.pc = "wait_down" /\ toggle'.pc = "idle" /\ UNCHANGED swarm
        /\ rows' = [rows EXCEPT ![toggle.dep].status = "SLEEPING",
                                ![toggle.dep].marker = "manual"]
        /\ schedules' = [schedules EXCEPT ![toggle.dep].monitor = Pause(@),
                                          ![toggle.dep].metrics = Pause(@)]
    BY <1>6 DEF ToggleIsDown, ToggleEnds, PutToSleep, docker
  <2>2. CASE p = toggle.dep
    <3>1. /\ rows'[p].status = "SLEEPING" /\ rows'[p].marker = "manual"
          /\ rows'[p].production = rows[p].production /\ rows'[p].slot = rows[p].slot
      BY <1>1, <2>1, <2>2 DEF Rows, RowType
    <3>2. schedules'[p] = [monitor |-> Pause(schedules[p].monitor),
                           metrics |-> Pause(schedules[p].metrics)]
      BY <1>1, <2>1, <2>2 DEF ScheduleType
    <3> QED
      BY <1>2, <2>1, <2>2, <3>1, <3>2 DEF ToggleEffect
  <2>3. CASE p # toggle.dep
    <3>1. rows'[p] = rows[p] /\ schedules'[p] = schedules[p]
      BY <1>1, <2>1, <2>3 DEF Rows
    <3> QED
      BY <2>1, <2>3, <3>1 DEF ToggleEffect
  <2> QED
    BY <2>2, <2>3
<1>7. CASE ToggleRetryStop
  <2>1. /\ toggle.pc = "wait_down" /\ UNCHANGED <<rows, schedules, toggle>>
        /\ swarm' = [swarm EXCEPT ![toggle.dep].replicas = "down"]
        /\ swarm[toggle.dep].replicas = "up"
    BY <1>7 DEF ToggleRetryStop, SetReplicas, database
  <2>2. CASE p = toggle.dep
    BY <1>1, <1>2, <2>1, <2>2 DEF ToggleEffect, SwarmType
  <2>3. CASE p # toggle.dep
    BY <1>1, <2>1, <2>3 DEF ToggleEffect
  <2> QED
    BY <2>2, <2>3
<1>8. ASSUME NEW d \in Deployments, MonitorDeployment(d) PROVE Kind /\ Own
  <2>1. /\ UNCHANGED <<swarm, schedules, toggle>>
        /\ schedules[d].monitor = "active" /\ swarm[d].replicas # "absent"
        /\ rows[d].production /\ rows[d].status # "SLEEPING"
    BY <1>8 DEF MonitorDeployment, docker
  <2>2. PICK status \in MonitorResults :
          rows' = [rows EXCEPT ![d].status = status, ![d].marker = "other"]
    BY <1>8 DEF MonitorDeployment
  <2>3. CASE p = d
    <3>1. Current(p)
      BY <2>1, <2>3, ToggledService
    <3>2. /\ rows'[p].status = status /\ status \in {"HEALTHY", "UNHEALTHY", "STARTING"}
          /\ rows'[p].production = rows[p].production /\ rows'[p].slot = rows[p].slot
      BY <1>1, <2>2, <2>3, FaultAssumption DEF Rows, RowType
    <3> QED
      BY <1>2, <2>1, <2>3, <3>1, <3>2 DEF ToggleEffect
  <2>4. CASE p # d
    <3>1. rows'[p] = rows[p]
      BY <1>1, <2>2, <2>4 DEF Rows
    <3> QED
      BY <2>1, <3>1 DEF ToggleEffect
  <2> QED
    BY <2>3, <2>4
<1> QED
  BY <1>3, <1>4, <1>5, <1>6, <1>7, <1>8 DEF ToggleStep

LEMMA ToggleKeepsService ==
    ASSUME CalmInv,
           RequestToggle \/ ToggleStep \/ \E d \in Deployments : MonitorDeployment(d),
           NEW p \in Deployments
    PROVE  RunsWell(p)' /\ Rested(p)' /\ Routed(p)' /\ Watched(p)'
<1>1. /\ RunsWell(p) /\ Rested(p) /\ Routed(p) /\ Watched(p)
      /\ UNCHANGED <<run, snapshot, route>>
  BY ToggleKeepsOthers DEF CalmInv, StopInv, ServiceInv
<1>2. /\ ToggleEffect(p)
      /\ rows'[p].production = rows[p].production /\ rows'[p].slot = rows[p].slot
      /\ swarm'[p].alias = swarm[p].alias
      /\ swarm'[p].replicas = "absent" <=> swarm[p].replicas = "absent"
  BY ToggleEffects
<1>3. SameRun
  BY <1>1 DEF SameRun, cur
<1>4. /\ (Current(p)' <=> Current(p)) /\ (InCharge(p)' <=> InCharge(p)) /\ (Gone(p)' <=> Gone(p))
      /\ payload' = payload /\ cur' = cur
      /\ InCharge(p) => Current(p)
  BY <1>1, <1>2
  DEF Current, InCharge, Gone, Replaced, payload, cur
<1>5. RunsWell(p)'
  BY <1>1, <1>2, <1>4 DEF RunsWell, Pausing, ToggleEffect
<1>6. Rested(p)'
  BY <1>1, <1>2, <1>3, <1>4, SamePhases DEF Rested, ToggleEffect
<1>7. Routed(p)'
  <2>1. Current(p) /\ rows'[p].status # "FAILED" => rows[p].status # "FAILED"
    BY <1>1, <1>2 DEF ToggleEffect, RunsWell
  <2> QED
    BY <1>1, <1>2, <1>3, <1>4, <2>1, SamePhases DEF Routed
<1>8. Watched(p)'
  <2>1. RunOpen /\ Watching => RunOpen /\ run.pc \notin PastFlag
    BY DEF Watching, Kept, PastFlag
  <2>2. CASE InCharge(p)
    <3>1. /\ rows'[p].status # "FAILED" => rows[p].status # "FAILED"
          /\ rows[p].status # "FAILED" =>
               /\ schedules[p].monitor # "none"
               /\ rows[p].status # "SLEEPING" => schedules[p].monitor = "active"
      BY <1>1, <1>2, <1>4, <2>2 DEF Watched, ToggleEffect, RunsWell
    <3>2. schedules'[p].monitor \in {schedules[p].monitor, Pause(schedules[p].monitor),
                                    Unpause(schedules[p].monitor)}
      BY <1>2, CalmFacts DEF ToggleEffect, ScheduleType
    <3>3. schedules[p].monitor # "none" => schedules'[p].monitor # "none"
      BY <3>2 DEF Pause, Unpause
    <3>4. rows'[p].status \notin {"FAILED", "SLEEPING"} => schedules'[p].monitor = "active"
      <4>1. CASE rows[p].status = "SLEEPING" /\ rows'[p].status # "SLEEPING"
        <5>1. schedules'[p].monitor = Unpause(schedules[p].monitor)
          BY <1>2, <4>1, CalmFacts DEF ToggleEffect, ScheduleType
        <5> QED
          BY <3>1, <4>1, <5>1 DEF Unpause
      <4>2. CASE rows[p].status # "SLEEPING" /\ rows'[p].status # "SLEEPING"
        BY <1>2, <3>1, <4>2 DEF ToggleEffect
      <4> QED
        BY <4>1, <4>2
    <3> QED
      BY <1>4, <2>2, <3>1, <3>3, <3>4 DEF Watched
  <2>3. CASE ~InCharge(p) /\ RunOpen /\ p = cur /\ Watching
    <3>1. schedules[p].monitor = "active" /\ ~rows[p].production
          /\ (toggle.pc # "idle" => toggle.dep # p)
      BY <1>1, <2>1, <2>3, OwnIdle DEF Watched
    <3>2. schedules'[p] = schedules[p]
      BY <1>2, <3>1 DEF ToggleEffect, Current
    <3> QED
      BY <1>3, <1>4, <2>3, <3>1, <3>2, SamePhases DEF Watched
  <2>4. CASE ~InCharge(p) /\ ~(RunOpen /\ p = cur /\ Watching)
    <3>1. schedules[p] = NoSchedule
      BY <1>1, <2>4 DEF Watched
    <3>2. schedules'[p] = NoSchedule
      BY <1>2, <3>1 DEF ToggleEffect, NoSchedule, Pause, Unpause
    <3> QED
      BY <1>3, <1>4, <2>4, <3>2, SamePhases DEF Watched
  <2> QED
    BY <2>2, <2>3, <2>4
<1> QED
  BY <1>5, <1>6, <1>7, <1>8

\* The parts of the invariant that a step may change.
CalmParts ==
    /\ run.pc \notin ErrorSteps
    /\ OwnService /\ NoLeftover /\ SlotKept /\ Installed /\ Prepared
    /\ ServiceInv /\ PreviousKnown

LEMMA RunKeepsCalm ==
    ASSUME CalmInv, Undisturbed, RunStep \/ ExecutionTimeout PROVE CalmParts'
<1>1. DeployStep \/ CancellationStep
  BY CalmSteps
<1>2. run'.pc \notin ErrorSteps
  BY <1>1, CalmPhases, ReleaseBegins DEF Phases, ErrorSteps
<1> QED
  BY <1>1, <1>2, RunKeepsOwnService, RunKeepsNoLeftover, RunKeepsSlotKept, RunKeepsInstalled,
     RunKeepsServiceInv, RunKeepsPreviousKnown
  DEF CalmParts

LEMMA ToggleKeepsCalm ==
    ASSUME CalmInv,
           RequestToggle \/ ToggleStep \/ \E d \in Deployments : MonitorDeployment(d)
    PROVE  CalmParts'
<1>1. /\ UNCHANGED <<run, requests, snapshot, route, volumes, configs>>
      /\ RunOpen => cur \in Deployments
      /\ run.next \in Maybe(Deployments)
  <2>1. UNCHANGED <<run, requests, snapshot, route>>
    BY ToggleKeepsOthers, DeploymentsExist DEF CalmInv, StopInv
  <2>2. UNCHANGED <<volumes, configs>>
    BY DEF RequestToggle, ToggleStep, ToggleStart, ToggleStop, ToggleIsDown, ToggleRetryStop,
           MonitorDeployment, resources, docker
  <2> QED
    BY <2>1, <2>2, CalmFacts DEF RunType
<1>2. SameRun /\ payload' = payload
  BY <1>1 DEF SameRun, cur, payload
<1>3. \A e \in Deployments :
        /\ rows'[e].production = rows[e].production /\ rows'[e].slot = rows[e].slot
        /\ swarm'[e].alias = swarm[e].alias
        /\ swarm'[e].replicas = "absent" <=> swarm[e].replicas = "absent"
        /\ RunOpen /\ run.pc \notin PastFlag /\ e = cur
             => swarm'[e] = swarm[e] /\ rows'[e] = rows[e]
  BY ToggleEffects
<1>4. OwnService' /\ NoLeftover' /\ Installed' /\ Prepared' /\ PreviousKnown'
  BY <1>1, <1>2, <1>3, OthersKeepRun DEF RunOpen, PastFlag
<1>5. SlotKept'
  BY <1>1, <1>2, <1>3 DEF CalmInv, SlotKept, SameRun, RunOpen, Maybe
<1>6. ServiceInv'
  BY ToggleKeepsService DEF ServiceInv
<1> QED
  BY <1>2, <1>4, <1>5, <1>6 DEF CalmParts, CalmInv, SameRun

-----------------------------------------------------------------------------
(* The requests of the API                                                 *)

LEMMA CancelKeepsCalm ==
    ASSUME CalmInv, CancelRequestStep, UNCHANGED toggle
    PROVE  CalmParts'
<1>1. /\ UNCHANGED <<run, requests, snapshot, route, swarm, volumes, configs, schedules>>
      /\ rows \in Rows /\ "slow_cancel" \notin Races
      /\ cancelReads = [e \in Deployments |-> AbsentRow]
      /\ RunOpen => cur \in Deployments
      /\ run.next \in Maybe(Deployments)
  <2>1. UNCHANGED <<run, requests, snapshot, route, swarm, volumes, configs, schedules>>
    BY DEF CancelRequestStep, CancelDeployment, ReadForCancel, SaveCancel, CleanupQueue,
           resources, database, docker
  <2> QED
    BY <2>1, CalmFacts DEF CoreInv, FlagInv, RunType
<1>2. SameRun /\ payload' = payload
  BY <1>1 DEF SameRun, cur, payload
<1>3. ASSUME NEW e \in Deployments
      PROVE  /\ rows'[e].production = rows[e].production /\ rows'[e].slot = rows[e].slot
             /\ \/ rows'[e].status = rows[e].status /\ rows'[e].marker = rows[e].marker
                \/ rows[e].status \in CancellableStatuses /\ rows'[e].status = "CANCELLED"
  <2>1. ASSUME NEW d \in Deployments, CancelDeployment(d)
        PROVE  rows' = rows \/ (/\ rows[d].status \in CancellableStatuses
                                /\ rows' = [rows EXCEPT ![d] = CancelledRow(@)])
    BY <2>1 DEF CancelDeployment, Cancellable
  <2>2. ASSUME NEW d \in Deployments, rows[d].status \in CancellableStatuses,
               rows' = [rows EXCEPT ![d] = CancelledRow(@)]
        PROVE  rows'[e] = rows[e] \/ (/\ rows[e].status \in CancellableStatuses
                                      /\ rows'[e] = CancelledRow(rows[e]))
    BY <1>1, <2>2 DEF Rows
  <2>3. ASSUME NEW b \in BOOLEAN, CleanupQueue(b)
        PROVE  rows'[e] = rows[e] \/ (/\ rows[e].status \in CancellableStatuses
                                      /\ rows'[e] = CancelledRow(rows[e]))
    <3>1. PICK spared : rows' = FlagForCancellation(rows, FlaggedRows(rows, b, spared))
      BY <2>3 DEF CleanupQueue
    <3> QED
      BY <1>1, <3>1, FlaggedRow DEF FlagForCancellation, CancelledRow
  <2>4. rows'[e] = rows[e] \/ (/\ rows[e].status \in CancellableStatuses
                               /\ rows'[e] = CancelledRow(rows[e]))
    BY <1>1, <2>1, <2>2, <2>3 DEF CancelRequestStep, ReadForCancel, SaveCancel
  <2> QED
    BY <1>1, <2>4 DEF CancelledRow, Rows, RowType
<1>4. run.pc = "set_production" => rows'[cur].status = rows[cur].status
  <2>1. run.pc = "set_production"
          => rows[cur].status \in {"HEALTHY", "FAILED"} /\ cur \in Deployments
    BY <1>1, CalmFacts DEF CalmInv, OwnService, RunType, RunOpen
  <2> QED
    BY <1>3, <2>1 DEF CancellableStatuses, ActiveStatuses
<1>5. OwnService' /\ NoLeftover' /\ Installed' /\ Prepared' /\ PreviousKnown'
  BY <1>1, <1>2, <1>3, <1>4, OthersKeepRun
<1>6. SlotKept'
  BY <1>1, <1>2, <1>3 DEF CalmInv, SlotKept, SameRun, RunOpen, Maybe
<1>7. ServiceInv'
  BY <1>1, <1>2, <1>3, StatusKeepsService DEF ServiceInv
<1> QED
  BY <1>2, <1>5, <1>6, <1>7 DEF CalmParts, CalmInv, SameRun

LEMMA CommitKeepsCalm ==
    ASSUME CalmInv, UNCHANGED toggle, NEW d \in Deployments, CommitDeploy(d)
    PROVE  CalmParts'
<1>1. /\ UNCHANGED <<run, route, swarm, volumes, configs, schedules>>
      /\ rows \in Rows /\ snapshot \in [Deployments -> SnapshotType]
      /\ requests \in [Deployments -> RequestType]
      /\ RunOpen => cur \in Deployments
      /\ run.next \in Maybe(Deployments)
      /\ rows[d].status = "ABSENT" /\ Fresh(d)
  BY CalmFacts
  DEF CommitDeploy, docker, RunType, CoreInv, RequestsMatch, FreshRows, Begun, TypeInv, TypeOK,
      RequestTypes
<1>2. /\ RunOpen => cur # d
      /\ run.next # None => run.next # d
  BY <1>1, CalmFacts DEF RunPlace
<1>3. SameRun /\ (RunOpen => payload' = payload)
  BY <1>1, <1>2 DEF SameRun, cur, payload, CommitDeploy
<1>4. ~rows'[d].production /\ rows'[d].slot = requests[d].slot
  <2>1. rows'[d] = QueuedRow(requests[d].slot)
    BY <1>1, CommitRow
  <2> QED
    BY <2>1 DEF QueuedRow
<1>5. ASSUME NEW e \in Deployments, e # d
      PROVE  /\ rows'[e].production = rows[e].production /\ rows'[e].slot = rows[e].slot
             /\ \/ rows'[e].status = rows[e].status /\ rows'[e].marker = rows[e].marker
                \/ rows[e].status \in CancellableStatuses /\ rows'[e].status = "CANCELLED"
             /\ snapshot'[e] = snapshot[e] /\ requests'[e] = requests[e]
  <2>1. PICK b \in BOOLEAN :
          LET flagged == IF b THEN FlaggedRows(rows, TRUE, None) ELSE {}
          IN  rows' = [FlagForCancellation(rows, flagged) EXCEPT
                          ![d] = QueuedRow(requests[d].slot)]
    BY DEF CommitDeploy
  <2>2. rows'[e] = rows[e] \/ (/\ rows[e].status \in CancellableStatuses
                               /\ rows'[e] = CancelledRow(rows[e]))
    BY <1>1, <1>5, <2>1, FlaggedRow DEF FlagForCancellation, CancelledRow
  <2>3. snapshot'[e] = snapshot[e] /\ requests'[e] = requests[e]
    BY <1>1, <1>5 DEF CommitDeploy
  <2> QED
    BY <1>1, <2>2, <2>3 DEF CancelledRow, Rows, RowType
<1>6. \A e \in Deployments :
        /\ rows'[e].production = rows[e].production
        /\ swarm[e].replicas # "absent" => snapshot'[e] = snapshot[e]
        /\ rows[e].production => e # d
  <2>1. rows[d].production = FALSE /\ rows'[d].production = FALSE
        /\ swarm[d].replicas = "absent"
    BY <1>1, <1>4 DEF Fresh, Idle
  <2> QED
    BY <1>5, <2>1
<1>7. run.pc = "set_production" => rows'[cur].status = rows[cur].status
  <2>1. run.pc = "set_production"
          => rows[cur].status \in {"HEALTHY", "FAILED"} /\ cur \in Deployments /\ cur # d
    BY <1>1, <1>2, CalmFacts DEF CalmInv, OwnService, RunType, RunOpen
  <2> QED
    BY <1>5, <2>1 DEF CancellableStatuses, ActiveStatuses
<1>8. OwnService' /\ NoLeftover' /\ Installed' /\ Prepared' /\ PreviousKnown'
  BY <1>1, <1>3, <1>6, <1>7, OthersKeepRun
<1>9. SlotKept'
  <2>1. /\ (RunOpen => rows[cur].slot = run.slot)'
        /\ (run.next # None => rows[run.next].slot = run.nextSlot)'
    BY <1>1, <1>2, <1>3, <1>5 DEF CalmInv, SlotKept, SameRun, RunOpen, Maybe
  <2>2. requests'[d].slot = requests[d].slot
    BY <1>1 DEF CommitDeploy, RequestType
  <2>3. \A e \in Deployments :
          requests'[e].stage = "committed" => rows'[e].slot = requests'[e].slot
    BY <1>4, <1>5, <2>2 DEF CalmInv, SlotKept
  <2> QED
    BY <2>1, <2>3 DEF SlotKept
<1>10. ServiceInv'
  <2>1. ASSUME NEW p \in Deployments
        PROVE  RunsWell(p)' /\ Rested(p)' /\ Routed(p)' /\ Watched(p)'
    BY <1>1, <1>3, <1>5, <1>6, <2>1, StatusKeepsService
  <2> QED
    BY <2>1 DEF ServiceInv
<1> QED
  BY <1>3, <1>8, <1>9, <1>10 DEF CalmParts, CalmInv, SameRun

LEMMA CallsKeepCalm ==
    ASSUME CalmInv, UNCHANGED toggle, NEW d \in Deployments,
           \/ OpenDeploy(d) \/ SignalSuperseded(d) \/ StartDeploy(d) \/ LoseCallback(d)
           \/ DeliverSignal(d) \/ LoseSignal(d)
    PROVE  CalmParts'
<1>1. /\ UNCHANGED <<rows, swarm, snapshot, route, volumes, configs, schedules>>
      /\ run \in RunType /\ requests \in [Deployments -> RequestType]
      /\ SlotKept /\ NoLeftover /\ Installed /\ ServiceInv
  <2>1. UNCHANGED <<rows, swarm, snapshot, route, volumes, configs, schedules>>
    BY DEF OpenDeploy, SignalSuperseded, StartDeploy, LoseCallback, DeliverSignal, LoseSignal,
           resources, database, docker
  <2> QED
    BY <2>1, CalmFacts DEF CalmInv, TypeInv, TypeOK, RequestTypes
<1>2. ASSUME NEW e \in Deployments, requests'[e].stage = "committed"
      PROVE  rows'[e].slot = requests'[e].slot
  <2>1. requests[e].stage = "committed" /\ requests'[e].slot = requests[e].slot
    BY <1>1, <1>2 DEF OpenDeploy, SignalSuperseded, StartDeploy, LoseCallback, DeliverSignal,
                      LoseSignal, RequestType
  <2> QED
    BY <1>1, <2>1 DEF SlotKept
<1>3. CASE run' = run \/ run' = [run EXCEPT !.cancels = run'.cancels]
  <2>1. SameRun /\ payload' = payload
    BY <1>1, <1>3 DEF RunType, SameRun, cur, payload
  <2>2. OwnService' /\ NoLeftover' /\ Installed' /\ Prepared' /\ PreviousKnown'
    BY <1>1, <2>1, OthersKeepRun DEF SameRun
  <2>3. SlotKept'
    BY <1>1, <1>2, <2>1 DEF SlotKept, SameRun, RunOpen
  <2>4. ServiceInv'
    <3>1. ASSUME NEW p \in Deployments
          PROVE  RunsWell(p)' /\ Rested(p)' /\ Routed(p)' /\ Watched(p)'
      BY <1>1, <2>1, <3>1, StatusKeepsService
    <3> QED
      BY <3>1 DEF ServiceInv
  <2> QED
    BY <2>1, <2>2, <2>3, <2>4 DEF CalmParts, CalmInv, SameRun
<1>4. CASE StartDeploy(d) /\ ~RunOpen
  <2>1. /\ run.pc = "closed" /\ run.prev = None /\ Fresh(d)
        /\ run' = NewRun(d, requests[d].slot) /\ rows[d].slot = requests[d].slot
    BY <1>1, <1>4, CalmFacts
    DEF StartDeploy, RunOpen, RunPlace, CoreInv, RequestsMatch, FreshRows, Begun, SlotKept
  <2>2. /\ run'.pc = "acquire" /\ cur' = d /\ run'.slot = requests[d].slot /\ run'.next = None
        /\ run'.prev = None /\ run'.madeConfigs = {} /\ run'.madeVolumes = {}
    BY <2>1 DEF NewRun, cur
  <2>3. /\ ~Up' /\ ~Dialled /\ ~Dialled' /\ ~Watching /\ ~Watching'
        /\ \A p \in Deployments : ~Gone(p) /\ ~Gone(p)' /\ ~Lent(p)
    BY <2>1, <2>2
    DEF Up, Dialled, Watching, Kept, Serving, Exposed, Promoting, Replaced, Leaving, Gone, Lent
  <2>4. OwnService'
    BY <1>1, <2>1, <2>2, <2>3 DEF OwnService, Fresh
  <2>5. NoLeftover' /\ Installed' /\ Prepared' /\ PreviousKnown'
    BY <1>1, <2>1, <2>2
    DEF NoLeftover, Installed, Prepared, HasConfigs, HasVolumes, PreviousKnown, Known, Promoting,
        RunOpen
  <2>6. SlotKept'
    BY <1>1, <1>2, <2>1, <2>2 DEF SlotKept
  <2>7. ASSUME NEW p \in Deployments PROVE RunsWell(p)' /\ Rested(p)' /\ Routed(p)' /\ Watched(p)'
    <3>1. /\ RunsWell(p) /\ Rested(p) /\ Routed(p) /\ Watched(p)
          /\ Current(p)' <=> Current(p)
          /\ InCharge(p)' <=> InCharge(p)
          /\ Pausing(p)' <=> Pausing(p)
      BY <1>1, <2>1, <2>2, <2>3
      DEF ServiceInv, Current, InCharge, Pausing, Promoting
    <3>2. RunsWell(p)' /\ Rested(p)'
      BY <1>1, <2>3, <3>1 DEF RunsWell, Rested
    <3>3. Routed(p)' /\ Watched(p)'
      BY <1>1, <2>3, <3>1 DEF Routed, Watched
    <3> QED
      BY <3>2, <3>3
  <2> QED
    BY <2>2, <2>4, <2>5, <2>6, <2>7 DEF CalmParts, ServiceInv, ErrorSteps
<1>5. ASSUME SignalSuperseded(d) \/ DeliverSignal(d)
      PROVE  run' = run \/ run' = [run EXCEPT !.cancels = run'.cancels]
  BY <1>1, <1>5 DEF SignalSuperseded, DeliverSignal, RunType
<1>6. ASSUME OpenDeploy(d) \/ LoseCallback(d) \/ LoseSignal(d) \/ (StartDeploy(d) /\ RunOpen)
      PROVE  run' = run
  BY <1>6 DEF OpenDeploy, LoseCallback, LoseSignal, StartDeploy
<1> QED
  BY <1>3, <1>4, <1>5, <1>6

-----------------------------------------------------------------------------
(* The theorems                                                            *)

LEMMA CalmInvStep == CalmInv /\ [Next]_vars => CalmInv'
<1> SUFFICES ASSUME CalmInv, [Next]_vars PROVE CalmInv'
  OBVIOUS
<1>1. StopInv'
  BY StopInvStep DEF CalmInv
<1>2. ASSUME DeployRequestStep \/ SignalStep, UNCHANGED toggle PROVE CalmParts'
  BY <1>2, CommitKeepsCalm, CallsKeepCalm DEF DeployRequestStep, SignalStep
<1>3. ASSUME UNCHANGED vars PROVE CalmParts'
  <2>1. UNCHANGED <<rows, swarm, snapshot, route, volumes, configs, schedules, requests, run,
                    toggle>>
    BY <1>3 DEF vars, resources, database, docker, requestVars
  <2>2. SameRun /\ payload' = payload
    BY <2>1 DEF SameRun, cur, payload
  <2>3. OwnService' /\ NoLeftover' /\ Installed' /\ Prepared' /\ PreviousKnown'
    BY <2>1, <2>2, OthersKeepRun
  <2>4. SlotKept'
    BY <2>1, <2>2 DEF CalmInv, SlotKept, SameRun, RunOpen
  <2>5. ASSUME NEW p \in Deployments
        PROVE  RunsWell(p)' /\ Rested(p)' /\ Routed(p)' /\ Watched(p)'
    BY <2>1, <2>2, <2>5, StatusKeepsService
  <2> QED
    BY <2>1, <2>3, <2>4, <2>5 DEF CalmParts, CalmInv, ServiceInv
<1>4. CalmParts'
  BY <1>2, <1>3, RunKeepsCalm, ToggleKeepsCalm, CancelKeepsCalm DEF Next
<1> QED
  BY <1>1, <1>4 DEF CalmInv, CalmParts

\* No activity fails for good, no execution times out, and the cancel view and the
\* callback of a deploy view end before anything else happens.
Calm ==
    /\ FaultySteps = {} /\ MaxTimeouts = 0
    /\ "slow_cancel" \notin Races /\ "slow_callback" \notin Races

LEMMA StopInvInit == ASSUME Calm, Init PROVE StopInv
<1>1. toggle = NoToggle /\ run = NoRun
  BY DEF Init, RequestInit
<1>2. \A d \in Deployments : ~snapshot[d].exclusive
  BY DEF Init, ResourcesInit
<1>3. CoreInv
  BY CoreInvInit DEF Calm
<1>4. StoppedAsleep /\ ToggleApart /\ PreviousApart
  BY <1>1 DEF StoppedAsleep, ToggleApart, PreviousApart, NoToggle, NoRun, NewRun, RunOpen,
              Tied, Known, Promoting
<1>5. FaultySteps \cap Fragile = {}
  BY DEF Calm
<1> QED
  BY <1>2, <1>3, <1>4, <1>5 DEF StopInv, NoSnapshots

LEMMA CalmInvInit == ASSUME Calm, Init PROVE CalmInv
<1>1. /\ toggle = NoToggle /\ run = NoRun
      /\ rows = [d \in Deployments |-> AbsentRow]
      /\ swarm = [d \in Deployments |-> [replicas |-> "absent", alias |-> "BLUE"]]
      /\ schedules = [d \in Deployments |-> NoSchedule]
      /\ requests = [d \in Deployments |-> NoRequest]
  BY DEF Init, RequestInit, ResourcesInit
<1>2. /\ run.pc = "closed" /\ run.next = None /\ run.prev = None
      /\ \A d \in Deployments : ~rows[d].production /\ requests[d].stage = "none"
  BY <1>1 DEF NoRun, NewRun, AbsentRow, QueuedRow, NoRequest
<1>3. OwnService /\ NoLeftover /\ Prepared
  BY <1>1, <1>2
  DEF OwnService, NoLeftover, Prepared, RunOpen, Up, Dialled, Kept, Serving, Exposed, Promoting,
      Leaving, HasConfigs, HasVolumes
<1>4. SlotKept /\ Installed /\ PreviousKnown /\ run.pc \notin ErrorSteps
  BY <1>1, <1>2
  DEF SlotKept, Installed, PreviousKnown, RunOpen, Known, Promoting, ErrorSteps
<1>5. ASSUME NEW p \in Deployments PROVE RunsWell(p) /\ Rested(p) /\ Routed(p) /\ Watched(p)
  <2>1. ~Current(p) /\ ~InCharge(p) /\ ~Gone(p) /\ ~RunOpen
    BY <1>2 DEF Current, InCharge, Gone, Replaced, Promoting, RunOpen
  <2> QED
    BY <1>1, <2>1 DEF RunsWell, Rested, Routed, Watched
<1> QED
  BY <1>3, <1>4, <1>5, StopInvInit DEF CalmInv, ServiceInv, Calm

LEMMA CalmHolds == ASSUME Calm PROVE Spec => []CalmInv
BY CalmInvInit, CalmInvStep, PTL DEF Spec

\* Zero downtime: every URL of the deployment in production reaches a running container at
\* every moment, through deployments, cancellations at any point and starts and stops, for
\* any number of them; while it is being replaced, every URL that the new one keeps.
THEOREM UrlsServed == ASSUME Calm PROVE Spec => []LiveUrlsServed
<1>1. CalmInv => LiveUrlsServed
  <2> SUFFICES ASSUME CalmInv, NEW p \in Production(rows),
                      rows[p].status \notin {"FAILED", "SLEEPING"}, ~Pausing(p),
                      NEW u \in snapshot[p].urls
               PROVE  Served(u) \/ (Replacing(p) /\ u \notin payload.urls)
    BY DEF LiveUrlsServed
  <2>1. p \in Deployments /\ rows[p].production
    BY DEF Production, Existing
  <2>2. CASE Current(p)
    <3>1. swarm[p].replicas = "up"
      BY <2>1, <2>2 DEF CalmInv, ServiceInv, RunsWell
    <3>2. route[u] = IF Dialled /\ u \in payload.urls THEN run.slot ELSE swarm[p].alias
      BY <2>1, <2>2 DEF CalmInv, ServiceInv, Routed
    <3>3. Dialled => Up /\ cur \in Deployments
      <4>1. run.step \in 0 .. 6 /\ (RunOpen => cur \in Deployments)
        BY CalmFacts DEF RunType
      <4>2. Dialled => Up
        BY <4>1 DEF Dialled, Up, Serving, Leaving
      <4>3. Dialled => RunOpen
        BY DEF Dialled, Exposed, Promoting, Kept, RunOpen
      <4> QED
        BY <4>1, <4>2, <4>3
    <3>4. Dialled => swarm[cur].replicas = "up" /\ swarm[cur].alias = run.slot
      BY <3>3 DEF CalmInv, OwnService
    <3> QED
      BY <2>1, <3>1, <3>2, <3>3, <3>4 DEF Served, Running
  <2>3. CASE Gone(p)
    <3>1. run.pc \in Serving /\ run.pc \in Exposed /\ RunOpen /\ Replacing(p)
      BY <2>3 DEF Gone, Replaced, Promoting, Serving, Exposed, RunOpen, Replacing
    <3>2. /\ swarm[cur] = [replicas |-> "up", alias |-> run.slot]
          /\ \A w \in payload.urls : route[w] = run.slot
          /\ cur \in Deployments
      BY <3>1, CalmFacts DEF RunServes
    <3> QED
      BY <3>1, <3>2 DEF Served, Running
  <2> QED
    BY <2>1, <2>2, <2>3 DEF Current
<1> QED
  BY <1>1, CalmHolds, PTL

\* When a run ends, however it ends, it leaves no service behind but that of the deployment
\* in production.
THEOREM NothingLeft == ASSUME Calm PROVE Spec => []NoLeftoverService
<1>1. CalmInv => NoLeftoverService
  <2> SUFFICES ASSUME CalmInv, ~RunOpen, NEW d \in Deployed PROVE d \in Production(rows)
    BY DEF NoLeftoverService
  <2>1. d \in Deployments /\ rows[d].production
    BY DEF Deployed, CalmInv, NoLeftover
  <2> QED
    BY <2>1, CalmFacts DEF Production, Existing, FreshRows, Fresh, Idle, Begun
<1> QED
  BY <1>1, CalmHolds, PTL

\* No cleanup and no cancellation takes a volume or a config from a service that names it.
THEOREM ResourcesKept == ASSUME Calm PROVE Spec => []ResourcesExist
<1>1. CalmInv => ResourcesExist
  BY DEF CalmInv, Installed, ResourcesExist, Deployed
<1> QED
  BY <1>1, CalmHolds, PTL

\* Between two runs, the proxy, the monitor and the schedules are those of the deployment
\* in production: what a run installed before it was cancelled has been undone.
THEOREM InstalledCorrect == ASSUME Calm PROVE Spec => []InstalledForProduction
<1>1. CalmInv => InstalledForProduction
  <2> SUFFICES ASSUME CalmInv, ~RunOpen PROVE InstalledForProduction
    BY DEF InstalledForProduction, SchedulesMatchProduction, RoutesMatchProduction
  <2>1. /\ run.pc = "closed"
        /\ \A d \in Deployments :
             /\ Watched(d) /\ Routed(d) /\ ~Gone(d)
             /\ InCharge(d) <=> rows[d].production
             /\ d \in Production(rows) <=> rows[d].production
    BY CalmFacts
    DEF RunOpen, CalmInv, ServiceInv, Gone, Replaced, InCharge, Promoting, Production, Existing,
        FreshRows, Fresh, Idle, Begun
  <2>2. SchedulesMatchProduction
    BY <2>1 DEF SchedulesMatchProduction, Watched
  <2>3. ~Dialled
    BY <2>1 DEF Dialled, Exposed, Promoting, Kept
  <2>4. RoutesMatchProduction
    BY <2>1, <2>3 DEF RoutesMatchProduction, Routed, Current, Production, Existing
  <2> QED
    BY <2>2, <2>4 DEF InstalledForProduction
<1> QED
  BY <1>1, CalmHolds, PTL

\* A run that put the previous deployment to sleep wakes it up again, or has replaced it:
\* between two runs a deployment in production sleeps for its user only.
THEOREM AwakeCorrect == ASSUME Calm PROVE Spec => []ProductionAwake
<1>1. CalmInv => ProductionAwake
  <2> SUFFICES ASSUME CalmInv, ~RunOpen, NEW p \in Production(rows), rows[p].status = "SLEEPING"
               PROVE  rows[p].marker = "manual"
    BY DEF ProductionAwake
  <2>1. p \in Deployments /\ Current(p) /\ ~Lent(p)
    BY DEF Production, Existing, Current, Gone, Replaced, Promoting, RunOpen, Lent, Leaving
  <2> QED
    BY <2>1 DEF CalmInv, ServiceInv, Rested
<1> QED
  BY <1>1, CalmHolds, PTL


-----------------------------------------------------------------------------
(* The slots                                                               *)

\* The slot that a request, a run or a run to come was given is free: the service of
\* the deployment in production has the other one.
SlotsFree ==
    \A p \in Deployments : rows[p].production /\ swarm[p].replicas # "absent" =>
        /\ RunOpen /\ run.pc \notin PastFlag => run.slot # rows[p].slot
        /\ run.next # None => run.nextSlot # rows[p].slot
        /\ \A d \in Deployments : requests[d].stage \in {"open", "committed"}
                                     => requests[d].slot # rows[p].slot

SlotInv == CalmInv /\ "slow_view" \notin Races /\ SlotsFree

\* get_next_deployment_slot avoids the slot of a service that is there.
LEMMA NextSlotFree ==
    ASSUME CalmInv, NEW latest \in Maybe(Deployments), IsNewest(latest, Production(rows)),
           NEW p \in Deployments, rows[p].production, swarm[p].replicas # "absent"
    PROVE  NextSlot(rows, latest) # rows[p].slot
<1>1. p \in Production(rows) /\ rows \in Rows /\ None \notin Deployments
  BY CalmFacts DEF Production, Existing, FreshRows, Fresh, Idle, Begun
<1>2. latest = p
  BY <1>1, CalmFacts DEF IsNewest, Production, Existing, OneFlag
<1>3. rows[p].status # "FAILED"
  BY <1>1 DEF CalmInv, ServiceInv, RunsWell, Current
<1> QED
  BY <1>1, <1>2, <1>3 DEF NextSlot

\* When a run, a toggle or a cancel request moves, no deploy request has a slot to use.
LEMMA NonePending ==
    ASSUME SlotInv, Undisturbed, NEW d \in Deployments
    PROVE  requests[d].stage \notin {"open", "committed"}
BY NoneCommitted, CalmFacts DEF SlotInv, Undisturbed, Hurried

LEMMA RunKeepsSlotsFree ==
    ASSUME SlotInv, Undisturbed, RunStep \/ ExecutionTimeout PROVE SlotsFree'
<1>1. /\ DeployStep \/ CancellationStep
      /\ CalmInv /\ TypeInv /\ CoreInv /\ SlotsFree
      /\ UNCHANGED requests
  BY CalmSteps, CalmFacts, RunKeepsToggle DEF SlotInv
<1>2. SUFFICES ASSUME NEW p \in Deployments, rows'[p].production, swarm'[p].replicas # "absent"
               PROVE  /\ RunOpen' /\ run'.pc \notin PastFlag => run'.slot # rows'[p].slot
                      /\ run'.next # None => run'.nextSlot # rows'[p].slot
  BY <1>1, NonePending DEF SlotsFree
<1>3. CASE Release
  <2>1. /\ rows' = rows /\ swarm' = swarm /\ run'.next = None
        /\ RunOpen' => run.next # None /\ run'.slot = run.nextSlot
    BY <1>1, <1>3, ReleaseBegins, CalmFacts
  <2> QED
    BY <1>1, <1>2, <2>1 DEF SlotsFree
<1>4. CASE MakeProduction
  <2>1. run'.pc \in PastFlag /\ run'.next = run.next /\ run.pc # "release"
    BY <1>1, <1>4, EndMoves DEF Moves, PastFlag, CalmInv, TypeInv, TypeOK
  <2> QED
    BY <1>1, <2>1, CalmFacts DEF RunPlace
<1>5. CASE ~Release /\ ~MakeProduction
  <2>1. Phases /\ RunStep /\ GoesOn /\ EntersPhases
    BY <1>1, <1>5, CalmPhases, RunFlow DEF Phases, RunOpen, RunStep, NoRun, NewRun
  <2>7. run'.pc \notin PastFlag => run.pc \notin PastFlag
    BY <1>1, <1>5, <2>1, RunApart DEF CalmInv
  <2>2. rows[p].production
    BY <1>1, <1>2, <1>5, RunMovesFlag
  <2>3. swarm[p].replicas # "absent"
    <3>1. CreateService => p # cur
      BY <1>1, <2>2, OwnIdle DEF CreateService, RunOpen, PastFlag
    <3> QED
      BY <1>1, <1>2, <3>1, RunSwarm DEF RunStep
  <2>4. rows'[p].slot = rows[p].slot
    <3>1. rows[p].status # "QUEUED"
      BY <2>2, CalmFacts, <1>1 DEF FreshRows, Fresh, Idle, Begun
    <3> QED
      BY <1>1, <3>1, RunKeepsSlots, ChosenSlot DEF KeepsSlots
  <2>5. RunOpen' /\ run'.pc \notin PastFlag => run'.slot # rows'[p].slot
    BY <1>1, <2>1, <2>2, <2>3, <2>4, <2>7 DEF SlotsFree, Phases
  <2>6. run'.next # None => run'.nextSlot # rows'[p].slot
    <3>1. CASE QueueNext
      <4>1. PICK d \in Maybe(Deployments), latest \in Maybe(Deployments) :
              /\ IsNewest(latest, Production(rows))
              /\ LET slot == NextSlot(rows, latest)
                 IN  IF d = None
                     THEN rows' = rows /\ Goto("release")
                     ELSE run' = [run EXCEPT !.pc = "release", !.next = d, !.nextSlot = slot]
        BY <3>1 DEF QueueNext, GetNextQueued
      <4>2. run.next = None /\ run \in RunType
        BY <1>1, <3>1, CalmFacts DEF QueueNext, RunPlace
      <4>3. run'.next # None => run'.nextSlot = NextSlot(rows, latest)
        BY <4>1, <4>2 DEF Goto, RunType
      <4> QED
        BY <1>1, <2>2, <2>3, <2>4, <4>1, <4>3, NextSlotFree
    <3>2. CASE ~QueueNext
      <4>1. RunPlace' /\ MorePhases
        BY <1>1, <1>5, RunKeepsPlace, MoreCalmPhases DEF RunStep
      <4> QED
        BY <3>2, <4>1 DEF RunPlace, MorePhases
    <3> QED
      BY <3>1, <3>2
  <2> QED
    BY <2>5, <2>6
<1> QED
  BY <1>3, <1>4, <1>5

\* What others do to the deployment in production moves no slot.
LEMMA OthersKeepSlotsFree ==
    ASSUME SlotInv, RunOpen' => RunOpen, UNCHANGED <<run.slot, run.next, run.nextSlot>>,
           run'.pc = run.pc,
           \A p \in Deployments :
               /\ rows'[p].production = rows[p].production
               /\ rows[p].production => rows'[p].slot = rows[p].slot
               /\ swarm'[p].replicas = "absent" <=> swarm[p].replicas = "absent",
           \A d \in Deployments : requests'[d].stage \in {"open", "committed"} =>
               /\ requests[d].stage \in {"open", "committed"}
               /\ requests'[d].slot = requests[d].slot
    PROVE  SlotsFree'
BY DEF SlotInv, SlotsFree

LEMMA CallsKeepSlotsFree ==
    ASSUME SlotInv, NEW d \in Deployments,
           \/ OpenDeploy(d) \/ SignalSuperseded(d) \/ StartDeploy(d) \/ LoseCallback(d)
           \/ DeliverSignal(d) \/ LoseSignal(d)
    PROVE  SlotsFree'
<1>1. /\ UNCHANGED <<rows, swarm>>
      /\ run \in RunType /\ requests \in [Deployments -> RequestType]
      /\ CalmInv /\ SlotsFree
  <2>1. UNCHANGED <<rows, swarm>>
    BY DEF OpenDeploy, SignalSuperseded, StartDeploy, LoseCallback, DeliverSignal, LoseSignal,
           resources, database, docker
  <2> QED
    BY <2>1, CalmFacts DEF SlotInv, TypeInv, TypeOK, RequestTypes
<1>2. ASSUME NEW p \in Deployments, rows[p].production, swarm[p].replicas # "absent",
             NEW e \in Deployments, requests'[e].stage \in {"open", "committed"}
      PROVE  requests'[e].slot # rows[p].slot
  <2>1. CASE OpenDeploy(d) /\ e = d
    <3>1. PICK latest \in Maybe(Deployments) :
            /\ IsNewest(latest, Production(rows))
            /\ requests' = [requests EXCEPT ![d].stage = "open",
                                            ![d].slot = NextSlot(rows, latest)]
      BY <2>1 DEF OpenDeploy, Maybe
    <3>2. requests'[d].slot = NextSlot(rows, latest)
      BY <1>1, <3>1 DEF RequestType
    <3> QED
      BY <1>1, <1>2, <2>1, <3>1, <3>2, NextSlotFree
  <2>2. CASE ~(OpenDeploy(d) /\ e = d)
    <3>1. requests[e].stage \in {"open", "committed"} /\ requests'[e].slot = requests[e].slot
      BY <1>1, <1>2, <2>2
      DEF OpenDeploy, SignalSuperseded, StartDeploy, LoseCallback, DeliverSignal, LoseSignal,
          RequestType
    <3> QED
      BY <1>1, <1>2, <3>1 DEF SlotsFree
  <2> QED
    BY <2>1, <2>2
<1>3. CASE StartDeploy(d) /\ ~RunOpen
  <2>1. /\ requests[d].stage = "committed"
        /\ run'.slot = requests[d].slot /\ run'.next = None
    BY <1>3 DEF StartDeploy, NewRun
  <2> QED
    BY <1>1, <1>2, <2>1 DEF SlotsFree
<1>4. CASE ~(StartDeploy(d) /\ ~RunOpen)
  <2>1. /\ run'.pc = run.pc /\ run'.slot = run.slot /\ run'.next = run.next
        /\ run'.nextSlot = run.nextSlot
    BY <1>1, <1>4
    DEF OpenDeploy, SignalSuperseded, StartDeploy, LoseCallback, DeliverSignal, LoseSignal,
        RunType
  <2> QED
    BY <1>1, <1>2, <2>1 DEF SlotsFree, RunOpen
<1> QED
  BY <1>3, <1>4

LEMMA CommitKeepsSlotsFree ==
    ASSUME SlotInv, NEW d \in Deployments, CommitDeploy(d) PROVE SlotsFree'
<1>1. /\ UNCHANGED <<run, swarm>>
      /\ rows \in Rows /\ requests \in [Deployments -> RequestType]
      /\ Fresh(d) /\ rows[d].status = "ABSENT"
  BY CalmFacts
  DEF SlotInv, CommitDeploy, docker, CoreInv, RequestsMatch, FreshRows, Begun, TypeInv, TypeOK,
      RequestTypes
<1>2. ASSUME NEW p \in Deployments
      PROVE  /\ rows'[p].production = rows[p].production
             /\ rows[p].production => rows'[p].slot = rows[p].slot
  <2>1. rows'[d] = QueuedRow(requests[d].slot) /\ ~rows[d].production
    BY <1>1, CommitRow DEF Fresh, Idle
  <2>2. PICK b \in BOOLEAN :
          LET flagged == IF b THEN FlaggedRows(rows, TRUE, None) ELSE {}
          IN  rows' = [FlagForCancellation(rows, flagged) EXCEPT
                          ![d] = QueuedRow(requests[d].slot)]
    BY DEF CommitDeploy
  <2>3. p # d => rows'[p] = rows[p] \/ rows'[p] = CancelledRow(rows[p])
    BY <2>2 DEF FlagForCancellation, CancelledRow
  <2>4. rows[d].production = FALSE /\ rows'[d].production = FALSE
    BY <1>1, <2>1 DEF Rows, RowType, QueuedRow
  <2> QED
    BY <1>1, <2>3, <2>4 DEF CancelledRow, Rows, RowType
<1>3. ASSUME NEW e \in Deployments, requests'[e].stage \in {"open", "committed"}
      PROVE  /\ requests[e].stage \in {"open", "committed"}
             /\ requests'[e].slot = requests[e].slot
  BY <1>1, <1>3 DEF CommitDeploy, RequestType
<1> QED
  BY <1>1, <1>2, <1>3, OthersKeepSlotsFree DEF RunOpen

LEMMA SlotInvStep == SlotInv /\ [Next]_vars => SlotInv'
<1> SUFFICES ASSUME SlotInv, [Next]_vars PROVE SlotInv'
  OBVIOUS
<1>1. CalmInv' /\ CalmInv
  BY CalmInvStep DEF SlotInv
<1>2. ASSUME DeployRequestStep \/ SignalStep PROVE SlotsFree'
  BY <1>2, CommitKeepsSlotsFree, CallsKeepSlotsFree DEF DeployRequestStep, SignalStep
<1>3. ASSUME UNCHANGED vars PROVE SlotsFree'
  BY <1>3 DEF vars, resources, database, docker, requestVars, SlotInv, SlotsFree, RunOpen
<1>4. ASSUME RequestToggle \/ ToggleStep \/ \E d \in Deployments : MonitorDeployment(d)
      PROVE  SlotsFree'
  <2>1. UNCHANGED <<run, requests>>
    BY <1>1, <1>4, ToggleKeepsOthers, DeploymentsExist DEF CalmInv, StopInv
  <2>2. \A p \in Deployments :
          /\ rows'[p].production = rows[p].production /\ rows'[p].slot = rows[p].slot
          /\ swarm'[p].replicas = "absent" <=> swarm[p].replicas = "absent"
    BY <1>1, <1>4, ToggleEffects
  <2> QED
    BY <2>1, <2>2, OthersKeepSlotsFree DEF RunOpen
<1>5. ASSUME CancelRequestStep, UNCHANGED toggle PROVE SlotsFree'
  <2>1. /\ UNCHANGED <<run, requests, swarm>>
        /\ rows \in Rows /\ cancelReads = [e \in Deployments |-> AbsentRow]
        /\ "slow_cancel" \notin Races
    <3>1. UNCHANGED <<run, requests, swarm>>
      BY <1>5 DEF CancelRequestStep, CancelDeployment, ReadForCancel, SaveCancel, CleanupQueue,
                  resources, database, docker
    <3> QED
      BY <1>1, <3>1, CalmFacts DEF CoreInv, FlagInv
  <2>2. ASSUME NEW p \in Deployments
        PROVE  rows'[p].production = rows[p].production /\ rows'[p].slot = rows[p].slot
    <3>1. ASSUME NEW e \in Deployments, CancelDeployment(e)
          PROVE  rows'[p].production = rows[p].production /\ rows'[p].slot = rows[p].slot
      BY <2>1, <3>1 DEF CancelDeployment, CancelledRow, Rows, RowType
    <3>2. ASSUME NEW b \in BOOLEAN, CleanupQueue(b)
          PROVE  rows'[p].production = rows[p].production /\ rows'[p].slot = rows[p].slot
      <4>1. PICK flagged : rows' = FlagForCancellation(rows, flagged)
        BY <3>2 DEF CleanupQueue
      <4> QED
        BY <2>1, <4>1 DEF FlagForCancellation, Rows, RowType
    <3> QED
      BY <1>5, <2>1, <3>1, <3>2 DEF CancelRequestStep, ReadForCancel, SaveCancel
  <2> QED
    BY <2>1, <2>2, OthersKeepSlotsFree DEF RunOpen
<1>6. SlotsFree'
  BY <1>2, <1>3, <1>4, <1>5, RunKeepsSlotsFree DEF Next
<1> QED
  BY <1>1, <1>6 DEF SlotInv

LEMMA SlotInvInit == ASSUME Calm, "slow_view" \notin Races, Init PROVE SlotInv
<1>1. SlotsFree
  BY DEF Init, ResourcesInit, SlotsFree
<1> QED
  BY <1>1, CalmInvInit DEF SlotInv

\* What the proxy sends to an alias reaches one deployment, and the URLs are served: while
\* the service of a deployment is being replaced, the new one has the other slot, whichever
\* run, request or queue it comes from.
THEOREM AliasesCorrect ==
    ASSUME Calm, "slow_view" \notin Races PROVE Spec => []AliasesServe
<1>1. SlotInv => SlotsDisjoint
  <2> SUFFICES ASSUME SlotInv, NEW d \in Deployed, NEW e \in Deployed, d # e,
                      swarm[d].alias = swarm[e].alias
               PROVE  FALSE
    BY DEF SlotsDisjoint
  <2>1. CalmInv /\ SlotsFree
    BY DEF SlotInv
  <2>2. ASSUME NEW p \in Deployed, NEW c \in Deployed, p # c, ~rows[c].production
        PROVE  rows[p].production /\ swarm[p].alias # swarm[c].alias
    <3>1. /\ p \in Deployments /\ swarm[p].replicas # "absent"
          /\ c = cur /\ RunOpen /\ swarm[cur].replicas # "absent"
          /\ rows[p].production
      BY <2>1, <2>2 DEF Deployed, CalmInv, NoLeftover
    <3>2. swarm[p].alias = rows[p].slot
      BY <2>1, <3>1 DEF CalmInv, ServiceInv, RunsWell, Current
    <3>3. Up \/ run.pc = "remove_own"
      BY <2>1, <2>2, <3>1 DEF CalmInv, OwnService
    <3>4. swarm[cur].alias = run.slot /\ run.pc \notin PastFlag
      BY <2>1, <3>1, <3>3
      DEF CalmInv, OwnService, Up, Kept, Serving, Exposed, Promoting, Leaving, PastFlag
    <3> QED
      BY <2>1, <3>1, <3>2, <3>4 DEF SlotsFree
  <2>3. d \in Deployments /\ e \in Deployments /\ ~(rows[d].production /\ rows[e].production)
    BY <2>1, CalmFacts DEF OneFlag, Deployed
  <2> QED
    BY <2>2, <2>3
<1>2. Spec => []SlotInv
  BY SlotInvInit, SlotInvStep, PTL DEF Spec
<1> QED
  BY <1>1, <1>2, UrlsServed, PTL DEF AliasesServe

-----------------------------------------------------------------------------
(* The rows, and the deployments that exclude each other                   *)

\* The steps at which an exclusive deployment has, or is about to have, its service.
Occupied ==
    \/ run.pc \in {"pull", "create_service", "remove_own"} \cup Serving
    \/ run.pc \in Leaving /\ run.step >= 4

\* It has waited for the service of the previous one to be down, and nobody starts it.
StoppedFor ==
    Occupied /\ payload.exclusive
        => \A p \in Deployments : rows[p].production => swarm[p].replicas # "up"

\* The row of a deployment that is not in production is done with, or not begun, or that of
\* the deployment in progress.
Settled == {"ABSENT", "QUEUED", "FAILED", "REMOVED", "CANCELLED"}
InProgress(d) ==
    /\ RunOpen /\ d = cur
    /\ run.pc \notin {"acquire", "prepare", "cancel_queue_next"} \cup PastFlag
RowsSettled ==
    \A d \in Deployments : rows[d].production \/ rows[d].status \in Settled \/ InProgress(d)

QuietInv ==
    /\ CalmInv /\ MaxToggles = 0 /\ toggle.pc = "idle"
    /\ StoppedFor /\ RowsSettled

\* The way into the phase, and the steps out of InProgress.
LEMMA QuietPhases ==
    ASSUME CalmInv, DeployStep \/ CancellationStep, ~Release
    PROVE  /\ Occupied' => Occupied \/ SkipScaleDown \/ PreviousIsDown
           /\ Occupied' => ~MakeProduction /\ ~ScaleBackPrevious /\ ~CancelScaleBack
           /\ InProgress(cur) /\ ~InProgress(cur)' =>
                SaveCancelledDeployment \/ FinishDeployment \/ MakeProduction
           /\ FinishDeployment => InProgress(cur)' \/ run'.pc = "cleanup_unclean"
           /\ RemoveSupersededRows => run.pc = "remove_superseded"
           /\ RemoveSupersededRows \/ CleanupUncleanDeployments => ~InProgress(cur)'
           /\ PrepareDeployment \/ PollHealth \/ SetCancelling => InProgress(cur)'
           /\ PreviousIsDown => run.pc \in Tied
           /\ ScaleBackPrevious \/ CancelScaleBack => run.pc \in Tied
<1> DEFINE Goal ==
           /\ Occupied' => Occupied \/ SkipScaleDown \/ PreviousIsDown
           /\ Occupied' => ~MakeProduction /\ ~ScaleBackPrevious /\ ~CancelScaleBack
           /\ InProgress(cur) /\ ~InProgress(cur)' =>
                SaveCancelledDeployment \/ FinishDeployment \/ MakeProduction
           /\ FinishDeployment => InProgress(cur)' \/ run'.pc = "cleanup_unclean"
           /\ RemoveSupersededRows => run.pc = "remove_superseded"
           /\ RemoveSupersededRows \/ CleanupUncleanDeployments => ~InProgress(cur)'
           /\ PrepareDeployment \/ PollHealth \/ SetCancelling => InProgress(cur)'
           /\ PreviousIsDown => run.pc \in Tied
           /\ ScaleBackPrevious \/ CancelScaleBack => run.pc \in Tied
<1>1. run \in RunType /\ run.pc \notin ErrorSteps
  BY CalmFacts DEF CalmInv
<1> USE DEF Moves, Occupied, InProgress, RunOpen, ErrorSteps, Serving, Exposed, Promoting,
            Leaving, PastFlag, Tied, Known
<1>2. ASSUME \/ AcquireSemaphore \/ PrepareDeployment \/ GetPreviousProduction
             \/ CreateVolumes \/ CreateConfigs \/ SkipScaleDown \/ ScaleDownPrevious
             \/ PreviousIsDown \/ RetryScaleDown \/ PullImage \/ CreateService
      PROVE  Goal
  BY <1>1, <1>2, ActivityMoves, PromotionMoves, EndMoves, CancellationMoves DEF cur
<1>3. ASSUME \/ PollHealth \/ HealthcheckEnds \/ Expose \/ DeletePreviousSchedules
             \/ RemovePreviousService \/ RemoveOldConfigs \/ RemoveOldVolumes
      PROVE  Goal
  BY <1>1, <1>3, ActivityMoves, PromotionMoves, EndMoves, CancellationMoves DEF cur
<1>4. ASSUME \/ RemoveOldUrls \/ MarkPreviousRemoved \/ CreateMonitorSchedule
             \/ CreateStatsSchedule \/ RemoveOwnService \/ ScaleBackPrevious
      PROVE  Goal
  BY <1>1, <1>4, ActivityMoves, PromotionMoves, EndMoves, CancellationMoves DEF cur
<1>5. ASSUME \/ FinishDeployment \/ MakeProduction \/ RemoveSupersededRows
             \/ CleanupUncleanDeployments \/ QueueNext
      PROVE  Goal
  BY <1>1, <1>5, ActivityMoves, PromotionMoves, EndMoves, CancellationMoves
  DEF cur, BecomesProduction
<1>6. ASSUME \/ BeginCancellation \/ SetCancelling \/ ResetUrls \/ CancelService
             \/ CancelGetPrevious \/ CancelScaleBack \/ DeleteCreatedConfigs
             \/ DeleteCreatedVolumes \/ SaveCancelledDeployment
      PROVE  Goal
  BY <1>1, <1>6, ActivityMoves, PromotionMoves, EndMoves, CancellationMoves
  DEF cur, AtCancellationPoint, LastCompleted
<1> QED
  BY <1>2, <1>3, <1>4, <1>5, <1>6 DEF DeployStep, CancellationStep

LEMMA RunKeepsStoppedFor ==
    ASSUME QuietInv, DeployStep \/ CancellationStep PROVE StoppedFor'
<1>1. /\ CalmInv /\ TypeInv /\ run \in RunType /\ StoppedFor /\ PreviousKnown
      /\ swarm \in [Deployments -> SwarmType] /\ UNCHANGED snapshot
  BY CalmFacts, SnapshotStays DEF QuietInv, CalmInv, RunStep
<1>2. CASE Release
  BY <1>1, <1>2, ReleaseBegins
  DEF StoppedFor, Occupied, Serving, Exposed, Promoting, Leaving
<1>3. CASE ~Release
  <2>1. Phases /\ payload' = payload
    BY <1>1, <1>3, CalmPhases DEF Phases, payload, cur
  <2> SUFFICES ASSUME Occupied', payload.exclusive, NEW p \in Deployments, rows'[p].production
               PROVE  swarm'[p].replicas # "up"
    BY <2>1 DEF StoppedFor
  <2>2. ~MakeProduction /\ ~ScaleBackPrevious /\ ~CancelScaleBack
    BY <1>1, <1>3, QuietPhases
  <2>3. rows[p].production
    BY <1>1, <2>2, RunMovesFlag
  <2>4. CreateService => p # cur
    BY <1>1, <2>3, OwnIdle DEF CreateService, RunOpen, PastFlag
  <2>5. swarm'[p].replicas = swarm[p].replicas \/ swarm'[p].replicas # "up"
    BY <1>1, <2>2, <2>4, RunSwarm DEF RunStep
  <2>6. CASE Occupied
    BY <1>1, <2>3, <2>5, <2>6 DEF StoppedFor
  <2>7. CASE SkipScaleDown \/ PreviousIsDown
    <3>1. run.pc \in Known \ Replaced /\ RunOpen /\ run.pc \notin PastFlag /\ UNCHANGED swarm
      BY <2>7
      DEF SkipScaleDown, PreviousIsDown, Known, Replaced, Promoting, RunOpen, PastFlag, docker,
          resources
    <3>2. p = run.prev /\ run.prev # None
      <4>1. p # cur /\ p \in Production(rows)
        BY <1>1, <2>3, <3>1, OwnIdle, CalmFacts
        DEF Production, Existing, FreshRows, Fresh, Idle, Begun
      <4> QED
        BY <1>1, <3>1, <4>1, CalmFacts DEF RunReplaces
    <3>3. run.prevFailed <=> swarm[p].replicas = "absent"
      BY <1>1, <3>1, <3>2 DEF PreviousKnown
    <3>4. swarm[p].replicas # "up"
      BY <2>7, <3>2, <3>3 DEF SkipScaleDown, PreviousIsDown, MustScaleDown
    <3> QED
      BY <3>1, <3>4
  <2> QED
    BY <1>1, <1>3, <2>6, <2>7, QuietPhases
<1> QED
  BY <1>2, <1>3

LEMMA RunKeepsSettled ==
    ASSUME QuietInv, DeployStep \/ CancellationStep PROVE RowsSettled'
<1>1. /\ CalmInv /\ TypeInv /\ run \in RunType /\ RowsSettled /\ rows \in Rows
      /\ run.pc \notin ErrorSteps
  BY CalmFacts DEF QuietInv, CalmInv
<1>2. CASE Release
  BY <1>1, <1>2, ReleaseBegins
  DEF Release, RowsSettled, InProgress, PastFlag
<1>3. CASE ~Release
  <2>1. Phases /\ RunStep
    BY <1>1, <1>3, CalmPhases DEF RunStep
  <2> SUFFICES ASSUME NEW d \in Deployments, ~rows'[d].production
               PROVE  rows'[d].status \in Settled \/ InProgress(d)'
    BY DEF RowsSettled
  <2> DEFINE Done == rows'[d].status \in Settled \/ InProgress(d)'
  <2>2. run.prev # None /\ run.pc \in Tied => rows[run.prev].production
    BY <1>1 DEF CalmInv, StopInv, PreviousApart
  <2>3. ASSUME rows[d].production PROVE Done
    <3>1. CASE MakeProduction
      <4>1. d \in Production(rows) /\ run.pc = "set_production"
        BY <1>1, <2>3, <3>1, CalmFacts
        DEF MakeProduction, ErrorSteps, Production, Existing, FreshRows, Fresh, Idle, Begun
      <4>2. d = cur
        BY <1>1, <4>1, CalmFacts DEF RunReplaces
      <4> QED
        BY <1>1, <2>3, <4>1, <4>2, OwnIdle DEF RunOpen, PastFlag
    <3>2. CASE ~MakeProduction
      <4>1. MarkPreviousRemoved /\ d = run.prev
        BY <1>1, <2>3, <3>2, RunMovesFlag
      <4> QED
        BY <1>1, <4>1, MarkRemovedRow DEF MarkPreviousRemoved, Settled
    <3> QED
      BY <3>1, <3>2
  <2>4. ASSUME ~rows[d].production PROVE Done
    <3>1. rows[d].status \in Settled \/ InProgress(d)
      BY <1>1, <2>4 DEF RowsSettled
    <3>2. InProgress(d) <=> d = cur /\ InProgress(cur)
      BY DEF InProgress
    <3>3. InProgress(d)' <=> d = cur /\ InProgress(cur)'
      BY <2>1 DEF InProgress, Phases
    <3>4. CASE PrepareDeployment \/ PollHealth \/ SetCancelling
      <4>1. d = cur => Done
        BY <1>1, <1>3, <3>3, <3>4, QuietPhases
      <4>2. d # cur => rows'[d].status = rows[d].status
        BY <1>1, <3>4, PrepareRow, SetStatusRow DEF PrepareDeployment, PollHealth, SetCancelling
      <4> QED
        BY <3>1, <3>2, <4>1, <4>2
    <3>5. CASE SaveCancelledDeployment
      <4>1. rows'[d].status = IF d = cur THEN "CANCELLED" ELSE rows[d].status
        BY <1>1, <3>5, SaveCancelledRow DEF SaveCancelledDeployment
      <4> QED
        BY <3>1, <3>2, <4>1 DEF Settled
    <3>6. CASE FinishDeployment
      <4>1. rows'[d].status = IF d = cur THEN run.result ELSE rows[d].status
        BY <1>1, <3>6, SaveResultRow DEF FinishDeployment
      <4>2. InProgress(cur)' \/ run.result = "FAILED"
        BY <1>1, <1>3, <3>6, QuietPhases
        DEF FinishDeployment, BecomesProduction, Goto, RunType
      <4> QED
        BY <3>1, <3>2, <3>3, <4>1, <4>2 DEF Settled
    <3>7. CASE RemoveSupersededRows
      <4>1. d # cur
        BY <1>1, <1>3, <2>4, <3>7, QuietPhases DEF CalmInv, OwnService
      <4> QED
        BY <1>1, <3>1, <3>2, <3>7, <4>1, RemoveSupersededRow DEF RemoveSupersededRows, Settled
    <3>8. CASE CleanupUncleanDeployments
      <4>1. rows'[d].status \in {rows[d].status, "REMOVED"}
        BY <1>1, <3>8, CleanupUncleanRow DEF CleanupUncleanDeployments
      <4>2. ~InProgress(d)
        BY <3>8 DEF CleanupUncleanDeployments, InProgress, PastFlag
      <4> QED
        BY <3>1, <4>1, <4>2 DEF Settled
    <3>9. CASE MarkPreviousRemoved
      <4>1. rows'[d].status \in {rows[d].status, "REMOVED"}
        BY <1>1, <3>9, MarkRemovedRow DEF MarkPreviousRemoved
      <4>2. InProgress(d) => InProgress(d)'
        BY <1>1, <1>3, <3>2, <3>3, <3>9, QuietPhases
        DEF MarkPreviousRemoved, SaveCancelledDeployment, FinishDeployment, MakeProduction
      <4> QED
        BY <3>1, <4>1, <4>2 DEF Settled
    <3>10. CASE ~(\/ PrepareDeployment \/ PollHealth \/ SetCancelling \/ SaveCancelledDeployment
                  \/ FinishDeployment \/ RemoveSupersededRows \/ CleanupUncleanDeployments
                  \/ MarkPreviousRemoved)
      <4>1. CASE MakeProduction
        <5>1. /\ SetProduction(rows, cur)[d].status = rows[d].status
              /\ SetProduction(rows, cur)[d].production = (d = cur)
          BY <1>1, SetProductionRow
        <5>2. d # cur /\ rows'[d].status = rows[d].status
          BY <4>1, <5>1 DEF MakeProduction
        <5> QED
          BY <3>1, <3>2, <5>2
      <4>2. CASE ~MakeProduction
        <5>1. rows'[d].status = rows[d].status
          <6>1. CASE PreviousIsDown
            <7>1. d # run.prev
              BY <1>1, <1>3, <2>2, <2>4, <6>1, QuietPhases, CalmFacts
            <7> QED
              BY <1>1, <6>1, <7>1, PutToSleepRow DEF PreviousIsDown
          <6>2. CASE ScaleBackPrevious \/ CancelScaleBack
            <7>1. d # run.prev
              BY <1>1, <1>3, <2>2, <2>4, <6>2, QuietPhases, CalmFacts
            <7>2. UNCHANGED rows \/ ScaleBack(run.prev, FALSE)
              BY <6>2 DEF ScaleBackPrevious, CancelScaleBack
            <7>3. ASSUME NEW b \in BOOLEAN, ScaleBack(run.prev, b)
                  PROVE  rows'[d].status = rows[d].status
              BY <1>1, <7>1, <7>3, ScaleBackRow
            <7> QED
              BY <7>2, <7>3
          <6>3. CASE QueueNext
            BY <1>1, <6>3, ChosenSlot
          <6>4. ~ErrorFinish
            BY <1>1 DEF ErrorFinish, ErrorSteps
          <6> QED
            BY <1>1, <2>1, <3>10, <4>2, <6>1, <6>2, <6>3, <6>4, OtherStepsKeepRows
        <5>2. InProgress(cur) => InProgress(cur)'
          BY <1>1, <1>3, <3>10, <4>2, QuietPhases
        <5> QED
          BY <3>1, <3>2, <3>3, <5>1, <5>2
      <4> QED
        BY <4>1, <4>2
    <3> QED
      BY <3>4, <3>5, <3>6, <3>7, <3>8, <3>9, <3>10
  <2> QED
    BY <2>3, <2>4
<1> QED
  BY <1>2, <1>3

\* What others do: the services stay as they are, and no row that is not in production goes
\* further than CANCELLED.
LEMMA OthersKeepQuiet ==
    ASSUME QuietInv, SameRun, RunOpen => payload' = payload,
           \A d \in Deployments :
               /\ rows'[d].production = rows[d].production
               /\ rows[d].production \/ rows'[d].status \in {rows[d].status, "QUEUED", "CANCELLED"},
           UNCHANGED swarm
    PROVE  StoppedFor' /\ RowsSettled'
<1>1. Occupied => RunOpen
  BY DEF Occupied, RunOpen, Serving, Exposed, Promoting, Leaving
<1>2. StoppedFor'
  BY <1>1 DEF QuietInv, StoppedFor, Occupied, SameRun
<1>3. RowsSettled'
  BY SamePhases DEF QuietInv, RowsSettled, InProgress, SameRun, Settled
<1> QED
  BY <1>2, <1>3

LEMMA CallsKeepQuiet ==
    ASSUME QuietInv, NEW d \in Deployments,
           \/ OpenDeploy(d) \/ SignalSuperseded(d) \/ StartDeploy(d) \/ LoseCallback(d)
           \/ DeliverSignal(d) \/ LoseSignal(d)
    PROVE  StoppedFor' /\ RowsSettled'
<1>1. UNCHANGED <<rows, swarm, snapshot>> /\ run \in RunType /\ CalmInv /\ RowsSettled
  <2>1. UNCHANGED <<rows, swarm, snapshot>>
    BY DEF OpenDeploy, SignalSuperseded, StartDeploy, LoseCallback, DeliverSignal, LoseSignal,
           resources, database, docker
  <2> QED
    BY <2>1, CalmFacts DEF QuietInv
<1>2. CASE StartDeploy(d) /\ ~RunOpen
  <2>1. run'.pc = "acquire" /\ run.pc = "closed"
    BY <1>2 DEF StartDeploy, NewRun, RunOpen
  <2> QED
    BY <1>1, <2>1
    DEF StoppedFor, Occupied, Serving, Exposed, Promoting, Leaving, RowsSettled, InProgress,
        RunOpen
<1>3. CASE ~(StartDeploy(d) /\ ~RunOpen)
  <2>1. run' = run \/ run' = [run EXCEPT !.cancels = run'.cancels]
    BY <1>1, <1>3
    DEF OpenDeploy, SignalSuperseded, StartDeploy, LoseCallback, DeliverSignal, LoseSignal,
        RunType
  <2>2. SameRun /\ payload' = payload
    BY <1>1, <2>1 DEF RunType, SameRun, cur, payload
  <2> QED
    BY <1>1, <2>2, OthersKeepQuiet
<1> QED
  BY <1>2, <1>3

LEMMA CommitKeepsQuiet ==
    ASSUME QuietInv, NEW d \in Deployments, CommitDeploy(d) PROVE StoppedFor' /\ RowsSettled'
<1>1. /\ UNCHANGED <<run, swarm>> /\ rows \in Rows /\ rows[d].status = "ABSENT" /\ Fresh(d)
      /\ RunOpen => cur # d
  BY CalmFacts
  DEF QuietInv, CommitDeploy, docker, CoreInv, RequestsMatch, FreshRows, Begun, RunPlace
<1>2. SameRun /\ (RunOpen => payload' = payload)
  BY <1>1, CalmFacts DEF QuietInv, SameRun, cur, payload, CommitDeploy, TypeInv, TypeOK
<1>3. ASSUME NEW e \in Deployments
      PROVE  /\ rows'[e].production = rows[e].production
             /\ rows[e].production \/ rows'[e].status \in {rows[e].status, "QUEUED", "CANCELLED"}
  <2>1. CASE e = d
    <3>1. rows'[d] = QueuedRow(requests[d].slot) /\ rows[d].production = FALSE
      BY <1>1, CommitRow DEF Fresh, Idle, Rows, RowType
    <3>2. rows'[d].production = FALSE /\ rows'[d].status = "QUEUED"
      BY <3>1 DEF QueuedRow
    <3> QED
      BY <2>1, <3>1, <3>2
  <2>2. CASE e # d
    <3>1. rows'[e].status = rows[e].status \/ rows'[e].status = "CANCELLED"
      BY <1>1, <2>2, CommitRow
    <3>2. rows'[e].production = rows[e].production
      BY <1>1, <2>2, CommitRow
    <3> QED
      BY <3>1, <3>2
  <2> QED
    BY <2>1, <2>2
<1> QED
  BY <1>1, <1>2, <1>3, OthersKeepQuiet

LEMMA CancelKeepsQuiet ==
    ASSUME QuietInv, CancelRequestStep, UNCHANGED toggle PROVE StoppedFor' /\ RowsSettled'
<1>1. /\ UNCHANGED <<run, swarm, snapshot>> /\ rows \in Rows /\ CalmInv
      /\ cancelReads = [e \in Deployments |-> AbsentRow]
      /\ "slow_cancel" \notin Races
  <2>1. UNCHANGED <<run, swarm, snapshot>>
    BY DEF CancelRequestStep, CancelDeployment, ReadForCancel, SaveCancel, CleanupQueue,
           resources, database, docker
  <2> QED
    BY <2>1, CalmFacts DEF QuietInv, CoreInv, FlagInv
<1>2. SameRun /\ payload' = payload
  BY <1>1 DEF SameRun, cur, payload
<1>3. ASSUME NEW e \in Deployments
      PROVE  /\ rows'[e].production = rows[e].production
             /\ rows'[e].status \in {rows[e].status, "CANCELLED"}
  <2>1. ASSUME NEW d \in Deployments, CancelDeployment(d)
        PROVE  /\ rows'[e].production = rows[e].production
               /\ rows'[e].status \in {rows[e].status, "CANCELLED"}
    BY <1>1, <2>1 DEF CancelDeployment, CancelledRow, Rows, RowType
  <2>2. ASSUME NEW b \in BOOLEAN, CleanupQueue(b)
        PROVE  /\ rows'[e].production = rows[e].production
               /\ rows'[e].status \in {rows[e].status, "CANCELLED"}
    <3>1. PICK flagged : rows' = FlagForCancellation(rows, flagged)
      BY <2>2 DEF CleanupQueue
    <3> QED
      BY <1>1, <3>1, FlagRow
  <2> QED
    BY <1>1, <2>1, <2>2 DEF CancelRequestStep, ReadForCancel, SaveCancel
<1> QED
  BY <1>1, <1>2, <1>3, OthersKeepQuiet

LEMMA MonitorKeepsQuiet ==
    ASSUME QuietInv, NEW d \in Deployments, MonitorDeployment(d)
    PROVE  StoppedFor' /\ RowsSettled' /\ toggle'.pc = "idle"
<1>1. UNCHANGED <<run, swarm, snapshot, toggle>> /\ rows \in Rows /\ rows[d].production
  BY CalmFacts DEF QuietInv, MonitorDeployment, docker, Immutable, requestVars
<1>2. PICK status : rows' = [rows EXCEPT ![d].status = status, ![d].marker = "other"]
  BY DEF MonitorDeployment
<1>3. ASSUME NEW e \in Deployments
      PROVE  /\ rows'[e].production = rows[e].production
             /\ rows[e].production \/ rows'[e].status = rows[e].status
  BY <1>1, <1>2 DEF Rows, RowType
<1> QED
  BY <1>1, <1>3, OthersKeepQuiet DEF QuietInv, SameRun, cur, payload

LEMMA QuietInvStep == QuietInv /\ [Next]_vars => QuietInv'
<1> SUFFICES ASSUME QuietInv, [Next]_vars PROVE QuietInv'
  OBVIOUS
<1> DEFINE Parts == StoppedFor' /\ RowsSettled' /\ toggle'.pc = "idle"
<1>1. CalmInv /\ CalmInv' /\ toggle.pc = "idle" /\ MaxToggles = 0
  BY CalmInvStep DEF QuietInv
<1>2. ~RequestToggle /\ ~ToggleStep
  <2>1. spent.toggles \in 0 .. MaxToggles
    BY <1>1, CalmFacts DEF TypeInv, TypeOK
  <2>2. ~(spent.toggles < MaxToggles)
    BY <1>1, <2>1
  <2>3. ~ToggleStep
    BY <1>1 DEF ToggleStep, ToggleStart, ToggleStop, ToggleIsDown, ToggleRetryStop
  <2> QED
    BY <2>2, <2>3 DEF RequestToggle
<1>3. ASSUME DeployRequestStep \/ SignalStep, UNCHANGED toggle PROVE Parts
  BY <1>1, <1>3, CommitKeepsQuiet, CallsKeepQuiet DEF DeployRequestStep, SignalStep
<1>4. ASSUME RunStep \/ ExecutionTimeout PROVE Parts
  BY <1>1, <1>4, CalmSteps, RunKeepsToggle, RunKeepsStoppedFor, RunKeepsSettled
<1>5. ASSUME CancelRequestStep, UNCHANGED toggle PROVE Parts
  BY <1>1, <1>5, CancelKeepsQuiet
<1>6. ASSUME UNCHANGED vars PROVE Parts
  <2>1. UNCHANGED <<rows, swarm, snapshot, run, toggle>>
    BY <1>6 DEF vars, resources, database, docker, requestVars
  <2> QED
    BY <1>1, <2>1, OthersKeepQuiet DEF SameRun, cur, payload
<1>7. Parts
  BY <1>2, <1>3, <1>4, <1>5, <1>6, MonitorKeepsQuiet DEF Next
<1> QED
  BY <1>1, <1>7 DEF QuietInv

LEMMA QuietHolds == ASSUME Calm, MaxToggles = 0 PROVE Spec => []QuietInv
<1>1. Init => QuietInv
  <2> SUFFICES ASSUME Init PROVE QuietInv
    OBVIOUS
  <2>1. run.pc = "closed" /\ toggle.pc = "idle"
    BY DEF Init, RequestInit, NoRun, NewRun, NoToggle
  <2>2. \A d \in Deployments : rows[d].status = "ABSENT"
    BY DEF Init, ResourcesInit, AbsentRow, QueuedRow
  <2> QED
    BY <2>1, <2>2, CalmInvInit
    DEF QuietInv, StoppedFor, Occupied, Serving, Exposed, Promoting, Leaving, RowsSettled, Settled
<1> QED
  BY <1>1, QuietInvStep, PTL DEF Spec

\* Two deployments that share ports or volumes they write to never run together: the new
\* service is created once the previous one is down, and a cancellation or a failure removes
\* it before the previous one is woken up.
THEOREM ExclusiveCorrect == ASSUME Calm, MaxToggles = 0 PROVE Spec => []ExclusiveAlone
<1>1. QuietInv => ExclusiveAlone
  <2> SUFFICES ASSUME QuietInv, NEW d \in Running, NEW e \in Running, d # e,
                      snapshot[d].exclusive, snapshot[e].exclusive
               PROVE  FALSE
    BY DEF ExclusiveAlone
  <2>1. CalmInv /\ StoppedFor /\ run.step \in 0 .. 6
    BY CalmFacts DEF QuietInv, RunType
  <2>2. ASSUME NEW p \in Running, NEW c \in Running, p # c, ~rows[c].production,
               snapshot[c].exclusive
        PROVE  FALSE
    <3>1. /\ p \in Deployments /\ swarm[p].replicas = "up"
          /\ c = cur /\ RunOpen /\ swarm[cur].replicas # "absent" /\ rows[p].production
      BY <2>1, <2>2 DEF Running, CalmInv, NoLeftover
    <3>2. Up \/ run.pc = "remove_own"
      BY <2>1, <2>2, <3>1 DEF CalmInv, OwnService
    <3>3. CASE Kept
      <4>1. p \in Production(rows)
        BY <2>1, <3>1, CalmFacts DEF Production, Existing, FreshRows, Fresh, Idle, Begun
      <4> QED
        BY <2>1, <2>2, <3>1, <3>3, <4>1, CalmFacts DEF RunReplaces, Kept
    <3>4. CASE ~Kept
      <4>1. Occupied
        BY <2>1, <3>2, <3>4 DEF Up, Occupied
      <4> QED
        BY <2>1, <2>2, <3>1, <4>1 DEF StoppedFor, payload
    <3> QED
      BY <3>3, <3>4
  <2>3. d \in Deployments /\ e \in Deployments /\ ~(rows[d].production /\ rows[e].production)
    BY <2>1, CalmFacts DEF OneFlag, Running
  <2> QED
    BY <2>2, <2>3
<1> QED
  BY <1>1, QuietHolds, PTL

\* However a run ends, it leaves no row in a transient or a live status but that of the
\* deployment in production.
THEOREM SettledCorrect == ASSUME Calm, MaxToggles = 0 PROVE Spec => []SettledRows
<1>1. QuietInv => SettledRows
  BY DEF QuietInv, RowsSettled, Settled, InProgress, SettledRows, Production, Existing
<1> QED
  BY <1>1, QuietHolds, PTL

=============================================================================
