------------------------ MODULE DockerDeploy_proofs ------------------------
(***************************************************************************)
(* Theorems about DockerDeploy, for any number of deployments, volumes,    *)
(* configs and URLs, any mix of races, lost calls, failures, timeouts and  *)
(* toggles: the types, and that a service never has two production         *)
(* deployments.                                                            *)
(***************************************************************************)
EXTENDS DockerDeploy, TLAPS

Rows == [Deployments -> RowType]

-----------------------------------------------------------------------------
(* What the transactions return                                            *)

LEMMA QueuedRowType ==
    ASSUME NEW slot \in Slots
    PROVE  QueuedRow(slot) \in RowType /\ AbsentRow \in RowType
BY DEF QueuedRow, AbsentRow, RowType, Statuses, Slots, Markers

LEMMA NextSlotType ==
    ASSUME NEW R, NEW latest
    PROVE  NextSlot(R, latest) \in Slots
BY DEF NextSlot, Slots

LEMMA PrepareType == ASSUME NEW R \in Rows, NEW d PROVE Prepare(R, d) \in Rows
BY DEF Prepare, Rows, RowType, Statuses

LEMMA SetStatusType ==
    ASSUME NEW R \in Rows, NEW d, NEW status \in Statuses
    PROVE  SetStatus(R, d, status) \in Rows
BY DEF SetStatus, Rows, RowType

LEMMA SaveCancelledType ==
    ASSUME NEW R \in Rows, NEW d PROVE SaveCancelled(R, d) \in Rows
<1>1. CASE d \in Deployments
  <2> DEFINE row == [R[d] EXCEPT !.status = "CANCELLED", !.finished = TRUE,
                                 !.marker = "other"]
  <2>1. row \in RowType
    BY <1>1 DEF Rows, RowType, Statuses, Markers
  <2>2. SaveCancelled(R, d) = [R EXCEPT ![d] = row]
    BY DEF SaveCancelled, Rows, RowType
  <2> QED
    BY <2>1, <2>2 DEF Rows
<1>2. CASE d \notin Deployments
  BY <1>2 DEF SaveCancelled, Rows
<1> QED
  BY <1>1, <1>2

LEMMA FlagType ==
    ASSUME NEW R \in Rows, NEW flagged
    PROVE  FlagForCancellation(R, flagged) \in Rows
BY DEF FlagForCancellation, Rows, RowType, Statuses, Markers

LEMMA CancelledRowType ==
    ASSUME NEW row \in RowType PROVE CancelledRow(row) \in RowType
BY DEF CancelledRow, RowType, Statuses, Markers

LEMMA SaveResultType ==
    ASSUME NEW R \in Rows, NEW d \in Deployments, NEW result \in {"HEALTHY", "FAILED"}
    PROVE  SaveResult(R, d, result) \in Rows
<1> DEFINE row == [R[d] EXCEPT !.status = result, !.finished = TRUE, !.marker = "other"]
<1>1. row \in RowType
  BY DEF Rows, RowType, Statuses, Markers
<1>2. SaveResult(R, d, result) = [R EXCEPT ![d] = row]
  BY DEF SaveResult, Rows, RowType
<1> QED
  BY <1>1, <1>2 DEF Rows

LEMMA SetProductionType ==
    ASSUME NEW R \in Rows, NEW d PROVE SetProduction(R, d) \in Rows
BY DEF SetProduction, Rows, RowType

LEMMA RemoveSupersededType ==
    ASSUME NEW R \in Rows, NEW d PROVE RemoveSuperseded(R, d) \in Rows
BY DEF RemoveSuperseded, Rows, RowType, Statuses

LEMMA MarkRemovedType == ASSUME NEW R \in Rows, NEW d PROVE MarkRemoved(R, d) \in Rows
BY DEF MarkRemoved, Rows, RowType, Statuses

LEMMA CleanupUncleanType ==
    ASSUME NEW R \in Rows, NEW d PROVE CleanupUnclean(R, d) \in Rows
BY DEF CleanupUnclean, Rows, RowType, Statuses

-----------------------------------------------------------------------------
(* Types                                                                   *)

\* An open run and an open toggle work on a deployment.
TypeInv ==
    /\ TypeOK
    /\ RunOpen => cur \in Deployments
    /\ toggle.pc # "idle" => toggle.dep \in Deployments

LEMMA NewRunType ==
    ASSUME NEW d \in Maybe(Deployments), NEW slot \in Slots
    PROVE  NewRun(d, slot) \in RunType /\ NoRun \in RunType
<1>1. "acquire" \in PCs /\ "closed" \in PCs
  BY DEF PCs, DeploySteps
<1>2. d \in Maybe(Deployments) /\ None \in Maybe(Deployments) /\ "BLUE" \in Slots
  BY DEF Maybe, Slots
<1>3. 0 \in 0 .. 6
  OBVIOUS
<1>4. NewRun(d, slot) \in RunType /\ NewRun(None, "BLUE") \in RunType
  BY <1>1, <1>2, <1>3 DEF NewRun, RunType
<1> QED
  BY <1>1, <1>4 DEF NoRun, RunType

LEMMA RequestUpdateType ==
    ASSUME NEW request \in RequestType, NEW stage \in {"none", "open", "committed", "done"},
           NEW slot \in Slots, NEW superseded \in SUBSET Deployments
    PROVE  /\ [request EXCEPT !.stage = stage, !.slot = slot] \in RequestType
           /\ [request EXCEPT !.stage = stage, !.toCancel = superseded] \in RequestType
BY DEF RequestType

LEMMA NoRunClosed == NoRun.pc = "closed"
BY DEF NoRun, NewRun

\* Most steps of a run change its pc only.
LEMMA GotoType ==
    ASSUME TypeInv, RunOpen, NEW pc \in PCs, Goto(pc)
    PROVE  run' \in RunType /\ cur' \in Deployments
BY DEF TypeInv, TypeOK, Goto, RunType, cur

LEMMA ScaleBackType ==
    ASSUME TypeInv, NEW d \in Deployments, NEW wake, ScaleBack(d, wake)
    PROVE  rows' \in Rows /\ swarm' \in [Deployments -> SwarmType]
           /\ schedules' \in [Deployments -> ScheduleType]
<1> USE DEF TypeInv, TypeOK, ResourceTypes, Rows
<1>1. CASE LeftAsleep(d, wake) \/ swarm[d].replicas = "absent"
  BY <1>1 DEF ScaleBack
<1>2. CASE ~(LeftAsleep(d, wake) \/ swarm[d].replicas = "absent")
  <2>1. swarm' \in [Deployments -> SwarmType]
    BY <1>2 DEF ScaleBack, SetReplicas, SwarmType, Replicas
  <2>2. CASE rows[d].status = "SLEEPING"
    <3>1. rows' \in Rows
      BY <1>2, <2>2 DEF ScaleBack, RowType, Statuses, Markers
    <3>2. schedules' \in [Deployments -> ScheduleType]
      BY <1>2, <2>2 DEF ScaleBack, ScheduleType, ScheduleStates, Unpause
    <3> QED
      BY <2>1, <3>1, <3>2
  <2>3. CASE rows[d].status # "SLEEPING"
    BY <1>2, <2>1, <2>3 DEF ScaleBack
  <2> QED
    BY <2>2, <2>3
<1> QED
  BY <1>1, <1>2

LEMMA PutToSleepType ==
    ASSUME TypeInv, NEW d, NEW marker \in Markers, PutToSleep(d, marker)
    PROVE  rows' \in Rows /\ schedules' \in [Deployments -> ScheduleType]
<1>1. rows \in Rows /\ schedules \in [Deployments -> ScheduleType]
  BY DEF TypeInv, TypeOK, ResourceTypes, Rows
<1>2. CASE d \in Deployments
  <2> DEFINE row == [rows[d] EXCEPT !.status = "SLEEPING", !.marker = marker]
             schedule == [schedules[d] EXCEPT !.monitor = Pause(@), !.metrics = Pause(@)]
  <2>1. row \in RowType
    <3>1. rows[d] \in RowType
      BY <1>1, <1>2 DEF Rows
    <3> QED
      BY <3>1 DEF RowType, Statuses
  <2>2. rows' = [rows EXCEPT ![d] = row]
    BY <1>1 DEF PutToSleep, Rows, RowType
  <2>3. schedule \in ScheduleType
    BY <1>1, <1>2 DEF ScheduleType, ScheduleStates, Pause
  <2>4. schedules' = [schedules EXCEPT ![d] = schedule]
    BY <1>1 DEF PutToSleep, ScheduleType
  <2>5. rows' \in Rows
    BY <1>1, <2>1, <2>2 DEF Rows
  <2>6. schedules' \in [Deployments -> ScheduleType]
    BY <1>1, <2>3, <2>4
  <2> QED
    BY <2>5, <2>6
<1>3. CASE d \notin Deployments
  BY <1>1, <1>3 DEF PutToSleep, Rows
<1> QED
  BY <1>2, <1>3

LEMMA RunTypes == ASSUME TypeInv, DeployStep \/ CancellationStep PROVE TypeInv'
<1> USE DEF TypeInv, TypeOK, ResourceTypes, RequestTypes, Rows, resources, database, docker,
            requestVars, OutsideRun, Immutable, cur, payload, RunOpen
<1>1. CASE AcquireSemaphore
  BY <1>1, GotoType DEF AcquireSemaphore, PCs, DeploySteps, CancelSteps, ErrorSteps
<1>2. CASE PrepareDeployment
  BY <1>2, PrepareType, GotoType DEF PrepareDeployment, PCs, DeploySteps, CancelSteps, ErrorSteps
<1>3. CASE GetPreviousProduction
  <2>1. PICK p \in Maybe(Deployments) :
           run' = [run EXCEPT !.pc = "create_volumes", !.prev = p,
                              !.prevFailed = p # None /\ rows[p].status = "FAILED"]
    BY <1>3 DEF GetPreviousProduction
  <2>2. (p # None /\ rows[p].status = "FAILED") \in BOOLEAN
    OBVIOUS
  <2>3. run' \in RunType /\ cur' = cur
    BY <2>1, <2>2 DEF RunType, PCs, DeploySteps
  <2> QED
    BY <1>3, <2>3 DEF GetPreviousProduction, PCs
<1>4. CASE CreateVolumes
  BY <1>4, GotoType DEF CreateVolumes, PCs, DeploySteps, CancelSteps, ErrorSteps, RunType, SnapshotType
<1>5. CASE CreateConfigs
  BY <1>5, GotoType DEF CreateConfigs, PCs, DeploySteps, CancelSteps, ErrorSteps, RunType, SnapshotType
<1>6. CASE SkipScaleDown
  BY <1>6, GotoType DEF SkipScaleDown, PCs, DeploySteps, CancelSteps, ErrorSteps
<1>7. CASE ScaleDownPrevious
  BY <1>7, GotoType DEF ScaleDownPrevious, PCs, DeploySteps, CancelSteps, ErrorSteps, SetReplicas, SwarmType, Replicas
<1>8. CASE PreviousIsDown
  BY <1>8, PutToSleepType, GotoType DEF PreviousIsDown, PCs, DeploySteps, Markers
<1>9. CASE RetryScaleDown
  BY <1>9, GotoType DEF RetryScaleDown, PCs, DeploySteps, CancelSteps, ErrorSteps, SetReplicas, SwarmType, Replicas
<1>10. CASE PullImage
  BY <1>10, GotoType DEF PullImage, PCs, DeploySteps, CancelSteps, ErrorSteps, RunType
<1>11. CASE CreateService
  BY <1>11, GotoType DEF CreateService, PCs, DeploySteps, CancelSteps, ErrorSteps, SwarmType, Replicas, RunType
<1>12. CASE PollHealth
  BY <1>12, SetStatusType, GotoType DEF PollHealth, PCs, DeploySteps, CancelSteps, ErrorSteps, CheckingHealth, Statuses
<1>13. CASE HealthcheckEnds
  <2>1. run' \in RunType /\ cur' = cur /\ RunOpen
    <3>1. CASE run' = [run EXCEPT !.pc = "expose", !.result = "HEALTHY"]
      BY <1>13, <3>1 DEF HealthcheckEnds, CheckingHealth, RunType, PCs, DeploySteps
    <3>2. CASE run' = [run EXCEPT !.pc = "remove_own", !.result = "FAILED"]
      BY <1>13, <3>2 DEF HealthcheckEnds, CheckingHealth, RunType, PCs, DeploySteps
    <3> QED
      BY <1>13, <3>1, <3>2 DEF HealthcheckEnds
  <2> QED
    BY <1>13, <2>1 DEF HealthcheckEnds
<1>14. CASE Expose
  BY <1>14, GotoType DEF Expose, PCs, DeploySteps, CancelSteps, ErrorSteps, Dial, RunType
<1>15. CASE DeletePreviousSchedules
  <2>1. RunOpen /\ NoSchedule \in ScheduleType
    BY <1>15 DEF DeletePreviousSchedules, NoSchedule, ScheduleType, ScheduleStates
  <2>2. schedules' \in [Deployments -> ScheduleType]
    BY <1>15, <2>1 DEF DeletePreviousSchedules
  <2>3. run' \in RunType /\ cur' \in Deployments
    BY <1>15, <2>1, GotoType DEF DeletePreviousSchedules, PCs, DeploySteps
  <2> QED
    BY <1>15, <2>2, <2>3 DEF DeletePreviousSchedules
<1>16. CASE RemovePreviousService
  BY <1>16, GotoType DEF RemovePreviousService, PCs, DeploySteps, CancelSteps, ErrorSteps, RemoveService, SetReplicas, SwarmType, Replicas
<1>17. CASE RemoveOldConfigs
  BY <1>17, GotoType DEF RemoveOldConfigs, PCs, DeploySteps, CancelSteps, ErrorSteps
<1>18. CASE RemoveOldVolumes
  BY <1>18, GotoType DEF RemoveOldVolumes, PCs, DeploySteps, CancelSteps, ErrorSteps
<1>19. CASE RemoveOldUrls
  BY <1>19, GotoType DEF RemoveOldUrls, PCs, DeploySteps, CancelSteps, ErrorSteps, Dial
<1>20. CASE MarkPreviousRemoved
  BY <1>20, MarkRemovedType, GotoType DEF MarkPreviousRemoved, PCs, DeploySteps, CancelSteps, ErrorSteps
<1>21. CASE CreateMonitorSchedule
  BY <1>21, GotoType DEF CreateMonitorSchedule, PCs, DeploySteps, CancelSteps, ErrorSteps, Create, ScheduleType, ScheduleStates
<1>22. CASE CreateStatsSchedule
  BY <1>22, GotoType DEF CreateStatsSchedule, PCs, DeploySteps, CancelSteps, ErrorSteps, Create, ScheduleType, ScheduleStates
<1>23. CASE RemoveOwnService
  BY <1>23, GotoType DEF RemoveOwnService, PCs, DeploySteps, CancelSteps, ErrorSteps, RemoveService, SetReplicas, SwarmType, Replicas
<1>24. CASE ScaleBackPrevious
  <2>1. CASE run.prev # None /\ ~run.prevFailed
    <3>1. run.prev \in Deployments
      BY <2>1 DEF RunType, Maybe
    <3> QED
      BY <1>24, <2>1, <3>1, ScaleBackType, GotoType DEF ScaleBackPrevious, PCs, DeploySteps
  <2>2. CASE ~(run.prev # None /\ ~run.prevFailed)
    BY <1>24, <2>2, GotoType DEF ScaleBackPrevious, PCs, DeploySteps
  <2> QED
    BY <2>1, <2>2
<1>25. CASE FinishDeployment
  <2>1. RunOpen /\ run.result \in {"HEALTHY", "FAILED"}
    BY <1>25 DEF FinishDeployment, RunType
  <2>2. rows' \in Rows
    BY <1>25, <2>1, SaveResultType DEF FinishDeployment
  <2>3. run' \in RunType /\ cur' \in Deployments
    BY <1>25, <2>1, GotoType DEF FinishDeployment, PCs, DeploySteps
  <2> QED
    BY <1>25, <2>2, <2>3 DEF FinishDeployment
<1>38. CASE MakeProduction
  <2>1. RunOpen
    BY <1>38 DEF MakeProduction
  <2>2. run' \in RunType /\ cur' \in Deployments
    BY <1>38, <2>1, GotoType DEF MakeProduction, PCs, DeploySteps, ErrorSteps
  <2> QED
    BY <1>38, <2>2, SetProductionType DEF MakeProduction
<1>39. CASE RemoveSupersededRows
  <2>1. RunOpen
    BY <1>39 DEF RemoveSupersededRows
  <2>2. run' \in RunType /\ cur' \in Deployments
    BY <1>39, <2>1, GotoType DEF RemoveSupersededRows, PCs, DeploySteps, ErrorSteps
  <2> QED
    BY <1>39, <2>2, RemoveSupersededType DEF RemoveSupersededRows
<1>26. CASE CleanupUncleanDeployments
  BY <1>26, CleanupUncleanType, GotoType DEF CleanupUncleanDeployments, PCs, DeploySteps, CancelSteps, ErrorSteps, NoSchedule, ScheduleType, ScheduleStates
<1>27. CASE QueueNext
  <2>1. PICK d \in Maybe(Deployments), latest \in Maybe(Deployments) :
           LET slot == NextSlot(rows, latest)
           IN  IF d = None
               THEN rows' = rows /\ Goto("release")
               ELSE /\ rows' = [rows EXCEPT ![d].slot = slot]
                    /\ run' = [run EXCEPT !.pc = "release", !.next = d,
                                          !.nextSlot = slot]
    BY <1>27 DEF QueueNext, GetNextQueued
  <2>2. NextSlot(rows, latest) \in Slots
    BY NextSlotType
  <2>3. RunOpen
    BY <1>27 DEF QueueNext
  <2>4. rows' \in Rows /\ run' \in RunType /\ cur' = cur
    <3>1. CASE d = None
      BY <2>1, <2>3, <3>1 DEF Goto, RunType, PCs, DeploySteps
    <3>2. CASE d # None
      <4> DEFINE slot == NextSlot(rows, latest)
      <4>1. /\ rows' = [rows EXCEPT ![d].slot = slot]
            /\ run' = [run EXCEPT !.pc = "release", !.next = d, !.nextSlot = slot]
        BY <2>1, <3>2
      <4>2. slot \in Slots
        BY <2>2
      <4> HIDE DEF slot
      <4>3. rows' \in Rows
        BY <4>1, <4>2 DEF RowType
      <4>4. run' \in RunType /\ cur' = cur
        BY <4>1, <4>2 DEF RunType, PCs, DeploySteps
      <4> QED
        BY <4>3, <4>4
    <3> QED
      BY <3>1, <3>2
  <2> QED
    BY <1>27, <2>3, <2>4 DEF QueueNext
<1>28. CASE Release
  <2>1. RunOpen
    BY <1>28 DEF Release
  <2>2. CASE run.next = None
    <3>1. run' = NoRun
      BY <1>28, <2>2 DEF Release
    <3>2. run' \in RunType
      BY <2>2, <3>1, NewRunType DEF RunType
    <3>3. run'.pc = "closed"
      BY <3>1, NoRunClosed
    <3> QED
      BY <1>28, <3>2, <3>3 DEF Release
  <2>3. CASE run.next # None
    <3>1. run.next \in Deployments /\ run.nextSlot \in Slots
      BY <2>3 DEF RunType, Maybe
    <3>2. run' = NewRun(run.next, run.nextSlot)
      BY <1>28, <2>3 DEF Release
    <3>3. run' \in RunType
      BY <3>1, <3>2, NewRunType DEF Maybe
    <3>4. cur' = run.next
      BY <3>2 DEF NewRun
    <3> QED
      BY <1>28, <3>1, <3>3, <3>4 DEF Release
  <2> QED
    BY <2>2, <2>3
<1>29. CASE BeginCancellation
  <2>1. run.pc \in DOMAIN LastCompleted /\ RunOpen /\ LastCompleted[run.pc] \in 0 .. 6
    BY <1>29 DEF BeginCancellation, AtCancellationPoint, LastCompleted
  <2>2. run' \in RunType /\ cur' = cur
    BY <1>29, <2>1 DEF BeginCancellation, RunType, PCs, CancelSteps
  <2> QED
    BY <1>29, <2>1, <2>2 DEF BeginCancellation
<1>30. CASE SetCancelling
  BY <1>30, SetStatusType, GotoType DEF SetCancelling, PCs, DeploySteps, CancelSteps, ErrorSteps, Statuses
<1>31. CASE ResetUrls
  BY <1>31, GotoType DEF ResetUrls, PCs, DeploySteps, CancelSteps, ErrorSteps, Dial, Maybe, IsPreviousProduction, RowType
<1>32. CASE CancelService
  <2>1. RunOpen
    BY <1>32 DEF CancelService
  <2>2. swarm' \in [Deployments -> SwarmType]
    BY <1>32 DEF CancelService, RemoveService, SetReplicas, SwarmType, Replicas
  <2>3. run' \in RunType /\ cur' \in Deployments
    BY <1>32, <2>1, GotoType DEF CancelService, PCs, CancelSteps
  <2> QED
    BY <1>32, <2>2, <2>3 DEF CancelService
<1>33. CASE CancelGetPrevious
  BY <1>33, GotoType DEF CancelGetPrevious, PCs, DeploySteps, CancelSteps, ErrorSteps, RunType, Maybe
<1>34. CASE CancelScaleBack
  <2>1. CASE run.prev # None
    <3>1. run.prev \in Deployments
      BY <2>1 DEF RunType, Maybe
    <3> QED
      BY <1>34, <2>1, <3>1, ScaleBackType, GotoType DEF CancelScaleBack, PCs, CancelSteps
  <2>2. CASE run.prev = None
    BY <1>34, <2>2, GotoType DEF CancelScaleBack, PCs, CancelSteps
  <2> QED
    BY <2>1, <2>2
<1>35. CASE DeleteCreatedConfigs
  BY <1>35, GotoType DEF DeleteCreatedConfigs, PCs, DeploySteps, CancelSteps, ErrorSteps
<1>36. CASE DeleteCreatedVolumes
  BY <1>36, GotoType DEF DeleteCreatedVolumes, PCs, DeploySteps, CancelSteps, ErrorSteps
<1>37. CASE SaveCancelledDeployment
  BY <1>37, SaveCancelledType, GotoType DEF SaveCancelledDeployment, PCs, DeploySteps, CancelSteps, ErrorSteps
<1> QED
  BY <1>1, <1>2, <1>3, <1>4, <1>5, <1>6, <1>7, <1>8, <1>9, <1>10, <1>11, <1>12, <1>13, <1>14, <1>15, <1>16, <1>17, <1>18, <1>19, <1>20, <1>21, <1>22, <1>23, <1>24, <1>25, <1>26, <1>27, <1>28, <1>29, <1>30, <1>31, <1>32, <1>33, <1>34, <1>35, <1>36, <1>37, <1>38, <1>39 DEF DeployStep, CancellationStep

LEMMA FailureTypes ==
    ASSUME TypeInv, FailureStep \/ ExecutionTimeout
    PROVE  TypeInv'
<1> USE FaultAssumption
    DEF TypeInv, TypeOK, ResourceTypes, RequestTypes, resources, database, docker,
        requestVars, OutsideRun, Immutable, cur
<1>1. NoRun \in RunType /\ NoRun.pc = "closed"
  BY NewRunType, NoRunClosed DEF Maybe, Slots
<1>2. CASE Fail
  <2>1. RunOpen
    BY <1>2 DEF Fail, Refused, RunOpen, FaultAssumption
  <2>2. run' = NoRun \/ Goto("release") \/ Goto("error_finish")
    BY <1>2 DEF Fail, AfterActivityError, Goto
  <2>3. run' \in RunType /\ (RunOpen' => cur' \in Deployments)
    BY <1>1, <2>1, <2>2, GotoType DEF RunOpen, PCs, DeploySteps, ErrorSteps
  <2>4. spent' \in [faults : 0 .. MaxFaults, timeouts : 0 .. MaxTimeouts,
                    toggles : 0 .. MaxToggles]
    BY <1>2 DEF Fail
  <2> QED
    BY <1>2, <2>3, <2>4 DEF Fail
<1>3. CASE SwallowedFailure
  <2>1. RunOpen
    BY <1>3 DEF SwallowedFailure, RunOpen
  <2>2. Goto("remove_configs") \/ Goto("scale_back") \/ Goto("cancel_previous")
    BY <1>3 DEF SwallowedFailure
  <2>3. run' \in RunType /\ cur' \in Deployments
    BY <2>1, <2>2, GotoType DEF PCs, DeploySteps, CancelSteps
  <2>4. spent' \in [faults : 0 .. MaxFaults, timeouts : 0 .. MaxTimeouts,
                    toggles : 0 .. MaxToggles]
    BY <1>3 DEF SwallowedFailure
  <2> QED
    BY <1>3, <2>3, <2>4 DEF SwallowedFailure
<1>4. CASE ErrorFinish
  <2>1. RunOpen
    BY <1>4 DEF ErrorFinish, RunOpen
  <2>2. rows' \in Rows
    BY <1>4, <2>1, SaveResultType DEF ErrorFinish, Rows
  <2>3. run' \in RunType /\ cur' \in Deployments
    BY <1>4, <2>1, GotoType DEF ErrorFinish, PCs, ErrorSteps
  <2> QED
    BY <1>4, <2>2, <2>3 DEF ErrorFinish, Rows
<1>5. CASE ExecutionTimeout
  <2>1. spent' \in [faults : 0 .. MaxFaults, timeouts : 0 .. MaxTimeouts,
                    toggles : 0 .. MaxToggles]
    BY <1>5 DEF ExecutionTimeout
  <2> QED
    BY <1>1, <1>5, <2>1 DEF ExecutionTimeout, RunOpen
<1>6. CASE FinishAgain
  <2>1. RunOpen
    BY <1>6 DEF FinishAgain, RunOpen
  <2>2. run' \in RunType /\ cur' \in Deployments
    BY <1>6, <2>1, GotoType DEF FinishAgain, PCs, DeploySteps, ErrorSteps
  <2>3. spent' \in [faults : 0 .. MaxFaults, timeouts : 0 .. MaxTimeouts,
                    toggles : 0 .. MaxToggles]
    BY <1>6 DEF FinishAgain
  <2> QED
    BY <1>6, <2>2, <2>3 DEF FinishAgain
<1> QED
  BY <1>2, <1>3, <1>4, <1>5, <1>6 DEF FailureStep

LEMMA ToggleTypes ==
    ASSUME TypeInv, RequestToggle \/ ToggleStep PROVE TypeInv'
<1> USE FaultAssumption
    DEF TypeInv, TypeOK, ResourceTypes, RequestTypes, resources, database, docker,
        requestVars, Immutable, cur, RunOpen
<1>1. CASE RequestToggle
  <2>1. spent' \in [faults : 0 .. MaxFaults, timeouts : 0 .. MaxTimeouts,
                    toggles : 0 .. MaxToggles]
    <3>1. spent.toggles < MaxToggles /\ spent' = [spent EXCEPT !.toggles = @ + 1]
      BY <1>1 DEF RequestToggle
    <3> QED
      BY <3>1
  <2>2. toggle' \in ToggleType /\ toggle'.dep \in Deployments
    BY <1>1 DEF RequestToggle, ToggleType, Production, Existing, Maybe
  <2> QED
    BY <1>1, <2>1, <2>2 DEF RequestToggle
<1>2. ASSUME NEW S \in SUBSET Deployments, ToggleEnds(S)
      PROVE  toggle' \in ToggleType /\ toggle'.pc = "idle"
  BY <1>2 DEF ToggleEnds, ToggleType, Maybe
<1>3. toggle.stopped \in SUBSET Deployments
  BY DEF ToggleType
<1>4. CASE ToggleStart
  <2>1. toggle' \in ToggleType /\ toggle'.pc = "idle"
    BY <1>2, <1>3, <1>4 DEF ToggleStart
  <2>2. toggle.dep \in Deployments
    BY <1>4 DEF ToggleStart
  <2> QED
    BY <1>4, <2>1, <2>2, ScaleBackType DEF ToggleStart, Rows
<1>5. CASE ToggleStop
  <2>1. toggle' \in ToggleType /\ (toggle'.pc # "idle" => toggle'.dep = toggle.dep)
    BY <1>2, <1>3, <1>5 DEF ToggleStop, ToggleType
  <2>2. swarm' \in [Deployments -> SwarmType]
    BY <1>5 DEF ToggleStop, SetReplicas, SwarmType, Replicas
  <2> QED
    BY <1>5, <2>1, <2>2 DEF ToggleStop
<1>6. CASE ToggleIsDown
  <2>1. toggle.stopped \cup {toggle.dep} \in SUBSET Deployments
    BY <1>3, <1>6 DEF ToggleIsDown
  <2>2. toggle' \in ToggleType /\ toggle'.pc = "idle"
    BY <1>2, <1>6, <2>1 DEF ToggleIsDown
  <2> QED
    BY <1>6, <2>2, PutToSleepType DEF ToggleIsDown, Markers, Rows
<1>7. CASE ToggleRetryStop
  BY <1>7 DEF ToggleRetryStop, SetReplicas, SwarmType, Replicas
<1> QED
  BY <1>1, <1>4, <1>5, <1>6, <1>7 DEF ToggleStep

LEMMA MonitorTypes ==
    ASSUME TypeInv, NEW d \in Deployments, MonitorDeployment(d) PROVE TypeInv'
<1>1. PICK status \in MonitorResults :
          rows' = [rows EXCEPT ![d].status = status, ![d].marker = "other"]
  BY DEF MonitorDeployment
<1> DEFINE row == [rows[d] EXCEPT !.status = status, !.marker = "other"]
<1>2. rows \in Rows
  BY DEF TypeInv, TypeOK, ResourceTypes, Rows
<1>3. row \in RowType
  <2>1. rows[d] \in RowType
    BY <1>2 DEF Rows
  <2> QED
    BY <2>1, FaultAssumption DEF RowType, Statuses, Markers
<1>4. rows' = [rows EXCEPT ![d] = row]
  BY <1>1, <1>2 DEF Rows, RowType
<1>5. rows' \in Rows
  BY <1>2, <1>3, <1>4 DEF Rows
<1> QED
  BY <1>5 DEF MonitorDeployment, TypeInv, TypeOK, ResourceTypes, RequestTypes, Rows,
              Immutable, docker, requestVars, cur, RunOpen

LEMMA RequestStepTypes ==
    ASSUME TypeInv, DeployRequestStep, UNCHANGED <<toggle, spent>> PROVE TypeInv'
<1> USE DEF TypeInv, TypeOK, ResourceTypes, RequestTypes, resources, database, docker,
            cur, RunOpen, Rows
<1>1. PICK d \in Deployments :
          OpenDeploy(d) \/ CommitDeploy(d) \/ SignalSuperseded(d) \/ StartDeploy(d)
            \/ LoseCallback(d)
  BY DEF DeployRequestStep
<1>2. CASE OpenDeploy(d)
  <2>1. PICK latest : requests' = [requests EXCEPT ![d].stage = "open",
                                                  ![d].slot = NextSlot(rows, latest)]
    BY <1>2 DEF OpenDeploy
  <2>2. NextSlot(rows, latest) \in Slots
    BY NextSlotType
  <2>3. requests' \in [Deployments -> RequestType]
    <3> DEFINE slot == NextSlot(rows, latest)
               rec == [requests[d] EXCEPT !.stage = "open", !.slot = slot]
    <3>1. rec \in RequestType
      BY <2>2, RequestUpdateType
    <3>2. requests' = [requests EXCEPT ![d] = rec]
      BY <2>1 DEF RequestType
    <3> HIDE DEF rec
    <3> QED
      BY <3>1, <3>2
  <2> QED
    BY <1>2, <2>3 DEF OpenDeploy
<1>3. CASE CommitDeploy(d)
  <2>1. PICK s \in Snapshots, flagged \in SUBSET Deployments :
          /\ rows' = [FlagForCancellation(rows, flagged) EXCEPT
                         ![d] = QueuedRow(requests[d].slot)]
          /\ requests' = [requests EXCEPT ![d].stage = "committed", ![d].toCancel = flagged]
          /\ snapshot' = [snapshot EXCEPT ![d] = s]
          /\ addedUrls' = [addedUrls EXCEPT ![d] = s.urls \ appliedUrls]
          /\ appliedUrls' = s.urls
    <3>1. FlaggedRows(rows, TRUE, None) \in SUBSET Deployments
      BY DEF FlaggedRows, WithStatus
    <3>2. PICK s \in Snapshots, cleanupQueue \in BOOLEAN :
            LET flagged == IF cleanupQueue THEN FlaggedRows(rows, TRUE, None) ELSE {}
            IN  /\ rows' = [FlagForCancellation(rows, flagged) EXCEPT
                               ![d] = QueuedRow(requests[d].slot)]
                /\ requests' = [requests EXCEPT ![d].stage = "committed",
                                                ![d].toCancel = flagged]
                /\ snapshot' = [snapshot EXCEPT ![d] = s]
                /\ addedUrls' = [addedUrls EXCEPT ![d] = s.urls \ appliedUrls]
                /\ appliedUrls' = s.urls
      BY <1>3 DEF CommitDeploy
    <3> DEFINE flagged == IF cleanupQueue THEN FlaggedRows(rows, TRUE, None) ELSE {}
    <3>3. flagged \in SUBSET Deployments
      BY <3>1
    <3> QED
      BY <3>2, <3>3
  <2>2. s \in SnapshotType /\ s.urls \in SUBSET Urls
    BY SnapshotAssumption DEF SnapshotType
  <2>3. QueuedRow(requests[d].slot) \in RowType
    BY QueuedRowType DEF RequestType
  <2>4. rows' \in Rows
    BY <2>1, <2>3, FlagType
  <2>5. requests' \in [Deployments -> RequestType]
    <3> DEFINE rec == [requests[d] EXCEPT !.stage = "committed", !.toCancel = flagged]
    <3>1. rec \in RequestType
      BY RequestUpdateType, NextSlotType
    <3>2. requests' = [requests EXCEPT ![d] = rec]
      BY <2>1 DEF RequestType
    <3> HIDE DEF rec
    <3> QED
      BY <3>1, <3>2
  <2>6. snapshot' \in [Deployments -> SnapshotType]
        /\ addedUrls' \in [Deployments -> SUBSET Urls] /\ appliedUrls' \in SUBSET Urls
    BY <2>1, <2>2
  <2> QED
    BY <1>3, <2>4, <2>5, <2>6 DEF CommitDeploy
<1>4. CASE SignalSuperseded(d)
  <2>1. PICK target \in requests[d].toCancel :
          /\ requests' = [requests EXCEPT ![d].toCancel = @ \ {target}]
          /\ run' = IF RunOpen THEN [run EXCEPT !.cancels = @ \cup {target}] ELSE run
    BY <1>4 DEF SignalSuperseded
  <2>2. requests' \in [Deployments -> RequestType] /\ target \in Deployments
    BY <2>1 DEF RequestType
  <2>3. run' \in RunType /\ cur' = cur /\ run'.pc = run.pc
    BY <2>1, <2>2 DEF RunType
  <2> QED
    BY <1>4, <2>2, <2>3 DEF SignalSuperseded
<1>5. CASE StartDeploy(d)
  <2>1. requests' \in [Deployments -> RequestType] /\ requests[d].slot \in Slots
    BY <1>5 DEF StartDeploy, RequestType
  <2>2. NewRun(d, requests[d].slot) \in RunType
    BY <2>1, NewRunType DEF Maybe
  <2>3. NewRun(d, requests[d].slot).cur = d
    BY DEF NewRun
  <2> QED
    BY <1>5, <2>1, <2>2, <2>3 DEF StartDeploy
<1>6. CASE LoseCallback(d)
  <2> DEFINE rec == [requests[d] EXCEPT !.stage = "done", !.toCancel = {}]
  <2>1. rec \in RequestType
    BY RequestUpdateType, NextSlotType
  <2>2. requests' = [requests EXCEPT ![d] = rec]
    BY <1>6 DEF LoseCallback, RequestType
  <2>3. lost' \in 0 .. MaxLost
    BY <1>6, LostAssumption DEF LoseCallback
  <2> HIDE DEF rec
  <2>4. requests' \in [Deployments -> RequestType]
    BY <2>1, <2>2
  <2> QED
    BY <1>6, <2>3, <2>4 DEF LoseCallback
<1> QED
  BY <1>1, <1>2, <1>3, <1>4, <1>5, <1>6

LEMMA CancelStepTypes ==
    ASSUME TypeInv, SignalStep \/ CancelRequestStep, UNCHANGED <<toggle, spent>>
    PROVE  TypeInv'
<1> USE DEF TypeInv, TypeOK, ResourceTypes, RequestTypes, resources, docker, database,
            cur, RunOpen, Rows
<1>1. ASSUME NEW d \in Deployments, CancelDeployment(d) PROVE TypeInv'
  <2>1. rows' \in Rows
    BY <1>1, CancelledRowType DEF CancelDeployment
  <2> QED
    BY <1>1, <2>1 DEF CancelDeployment
<1>2. ASSUME NEW d \in Deployments, ReadForCancel(d) PROVE TypeInv'
  BY <1>2 DEF ReadForCancel
<1>3. ASSUME NEW d \in Deployments, SaveCancel(d) PROVE TypeInv'
  <2>1. AbsentRow \in RowType
    BY QueuedRowType DEF Slots
  <2> QED
    BY <1>3, <2>1, CancelledRowType DEF SaveCancel
<1>4. ASSUME NEW b \in BOOLEAN, CleanupQueue(b) PROVE TypeInv'
  <2>1. PICK flagged \in SUBSET Deployments :
          rows' = FlagForCancellation(rows, flagged) /\ signals' = signals \cup flagged
    BY <1>4 DEF CleanupQueue, FlaggedRows, WithStatus
  <2>2. rows' \in Rows
    BY <2>1, FlagType
  <2> QED
    BY <1>4, <2>1, <2>2 DEF CleanupQueue
<1>5. ASSUME NEW d \in Deployments, DeliverSignal(d) PROVE TypeInv'
  <2>1. run' \in RunType /\ cur' = cur /\ run'.pc = run.pc
    BY <1>5 DEF DeliverSignal, RunType
  <2> QED
    BY <1>5, <2>1 DEF DeliverSignal
<1>6. ASSUME NEW d \in Deployments, LoseSignal(d) PROVE TypeInv'
  BY <1>6, LostAssumption DEF LoseSignal
<1> QED
  BY <1>1, <1>2, <1>3, <1>4, <1>5, <1>6 DEF SignalStep, CancelRequestStep

LEMMA TypeInvStep == TypeInv /\ [Next]_vars => TypeInv'
<1> SUFFICES ASSUME TypeInv, [Next]_vars PROVE TypeInv'
  OBVIOUS
<1>1. CASE UNCHANGED vars
  BY <1>1 DEF vars, resources, database, docker, requestVars, TypeInv, TypeOK,
              ResourceTypes, RequestTypes, cur, RunOpen
<1> QED
  BY <1>1, RunTypes, FailureTypes, ToggleTypes, MonitorTypes, RequestStepTypes,
     CancelStepTypes
  DEF Next, RunStep

LEMMA TypeInvInit == Init => TypeInv
<1> SUFFICES ASSUME Init PROVE TypeInv
  OBVIOUS
<1>1. AbsentRow \in RowType /\ NoRun \in RunType /\ NoRun.pc = "closed"
  BY QueuedRowType, NewRunType, NoRunClosed DEF Maybe, Slots
<1>2. ResourceTypes
  BY <1>1 DEF Init, ResourcesInit, ResourceTypes, SnapshotType, SwarmType, Replicas, Slots,
              NoSchedule, ScheduleType, ScheduleStates
<1>3. RequestTypes /\ run = NoRun
  BY <1>1, LostAssumption DEF Init, RequestInit, RequestTypes, NoRequest, RequestType, Slots
<1>4. toggle \in ToggleType /\ toggle.pc = "idle"
  BY DEF Init, NoToggle, ToggleType, Maybe
<1>5. spent \in [faults : 0 .. MaxFaults, timeouts : 0 .. MaxTimeouts,
                 toggles : 0 .. MaxToggles]
  BY FaultAssumption DEF Init
<1> QED
  BY <1>1, <1>2, <1>3, <1>4, <1>5 DEF TypeInv, TypeOK, RunOpen

\* The values every variable ranges over, for every value of the constants.
THEOREM TypeCorrect == Spec => []TypeOK
<1>1. TypeInv => TypeOK
  BY DEF TypeInv
<1> QED
  BY <1>1, TypeInvInit, TypeInvStep, PTL DEF Spec

-----------------------------------------------------------------------------
(* One production deployment                                               *)

\* At most one row has the flag, and no cancel view is between the read of its
\* row and its save: with the save of an old row, it may come back.
OneFlag(R) == \A d, e \in Deployments : R[d].production /\ R[e].production => d = e

FlagInv ==
    /\ TypeInv
    /\ OneFlag(rows)
    /\ "slow_cancel" \notin Races
    /\ cancelReads = [d \in Deployments |-> AbsentRow]

\* No row gains the flag.
Keeps(R, S) == \A d \in Deployments : S[d].production => R[d].production

LEMMA KeepsOneFlag ==
    ASSUME NEW R, NEW S, OneFlag(R), Keeps(R, S) PROVE OneFlag(S)
BY DEF OneFlag, Keeps

\* All transactions but one keep the flags.
LEMMA TransactionsKeep ==
    ASSUME NEW R \in Rows, NEW d, NEW flagged, NEW status
    PROVE  /\ Keeps(R, R)
           /\ Keeps(R, FlagForCancellation(R, flagged))
           /\ Keeps(R, Prepare(R, d))
           /\ Keeps(R, SetStatus(R, d, status))
           /\ Keeps(R, SaveCancelled(R, d))
           /\ Keeps(R, SaveResult(R, d, status))
           /\ Keeps(R, RemoveSuperseded(R, d))
           /\ Keeps(R, MarkRemoved(R, d))
           /\ Keeps(R, CleanupUnclean(R, d))
<1>1. Keeps(R, R) /\ Keeps(R, FlagForCancellation(R, flagged))
  BY DEF Keeps, FlagForCancellation, Rows, RowType
<1>2. Keeps(R, Prepare(R, d)) /\ Keeps(R, SetStatus(R, d, status))
  BY DEF Keeps, Prepare, SetStatus, Rows, RowType
<1>3. Keeps(R, SaveCancelled(R, d))
  <2>1. ASSUME NEW e \in Deployments
        PROVE  SaveCancelled(R, d)[e].production = R[e].production
    BY DEF SaveCancelled, Rows, RowType
  <2> QED
    BY <2>1 DEF Keeps
<1>4. Keeps(R, SaveResult(R, d, status))
  <2>1. ASSUME NEW e \in Deployments
        PROVE  SaveResult(R, d, status)[e].production = R[e].production
    BY DEF SaveResult, Rows, RowType
  <2> QED
    BY <2>1 DEF Keeps
<1>5. Keeps(R, RemoveSuperseded(R, d)) /\ Keeps(R, MarkRemoved(R, d))
  BY DEF Keeps, RemoveSuperseded, MarkRemoved, Rows, RowType
<1>6. Keeps(R, CleanupUnclean(R, d))
  BY DEF Keeps, CleanupUnclean, Rows, RowType
<1> QED
  BY <1>1, <1>2, <1>3, <1>4, <1>5, <1>6

\* The one that gives the flag takes it from all the others.
LEMMA SetProductionOneFlag ==
    ASSUME NEW R \in Rows, NEW d PROVE OneFlag(SetProduction(R, d))
<1>1. ASSUME NEW e \in Deployments PROVE SetProduction(R, d)[e].production = (e = d)
  BY DEF SetProduction, Rows, RowType
<1> QED
  BY <1>1 DEF OneFlag

LEMMA ScaleBackKeeps ==
    ASSUME rows \in Rows, NEW d, NEW wake, ScaleBack(d, wake)
    PROVE  Keeps(rows, rows')
<1>1. CASE rows' = rows
  BY <1>1 DEF Keeps
<1>2. CASE rows' = [rows EXCEPT ![d].status = "STARTING", ![d].marker = "other"]
  <2>1. ASSUME NEW e \in Deployments PROVE rows'[e].production = rows[e].production
    BY <1>2 DEF Rows, RowType
  <2> QED
    BY <2>1 DEF Keeps
<1> QED
  BY <1>1, <1>2 DEF ScaleBack

LEMMA PutToSleepKeeps ==
    ASSUME rows \in Rows, NEW d, NEW marker, PutToSleep(d, marker)
    PROVE  Keeps(rows, rows')
<1>1. ASSUME NEW e \in Deployments PROVE rows'[e].production = rows[e].production
  BY DEF PutToSleep, Rows, RowType
<1> QED
  BY <1>1 DEF Keeps

LEMMA RunFlags ==
    ASSUME FlagInv, RunStep \/ ExecutionTimeout
    PROVE  OneFlag(rows') /\ UNCHANGED cancelReads
<1>1. rows \in Rows /\ OneFlag(rows)
  BY DEF FlagInv, TypeInv, TypeOK, ResourceTypes, Rows
<1>2. UNCHANGED cancelReads
  BY DEF RunStep, DeployStep, CancellationStep, FailureStep, ExecutionTimeout, OutsideRun,
         requestVars, AcquireSemaphore, PrepareDeployment, GetPreviousProduction, CreateVolumes,
         CreateConfigs, SkipScaleDown, ScaleDownPrevious, PreviousIsDown, RetryScaleDown,
         PullImage, CreateService, PollHealth, HealthcheckEnds, Expose,
         DeletePreviousSchedules, RemovePreviousService, RemoveOldConfigs, RemoveOldVolumes,
         RemoveOldUrls, MarkPreviousRemoved, CreateMonitorSchedule, CreateStatsSchedule,
         RemoveOwnService, ScaleBackPrevious, FinishDeployment, MakeProduction,
         RemoveSupersededRows, CleanupUncleanDeployments, QueueNext, Release,
         BeginCancellation, SetCancelling, ResetUrls, CancelService, CancelGetPrevious,
         CancelScaleBack, DeleteCreatedConfigs, DeleteCreatedVolumes,
         SaveCancelledDeployment, Fail, SwallowedFailure, ErrorFinish, FinishAgain
<1>3. CASE \/ PrepareDeployment \/ PollHealth \/ SetCancelling \/ SaveCancelledDeployment
           \/ MarkPreviousRemoved \/ CleanupUncleanDeployments
           \/ FinishDeployment \/ RemoveSupersededRows \/ ErrorFinish
  BY <1>1, <1>2, <1>3, TransactionsKeep, KeepsOneFlag
  DEF PrepareDeployment, PollHealth, SetCancelling, SaveCancelledDeployment,
      MarkPreviousRemoved, CleanupUncleanDeployments, FinishDeployment,
      RemoveSupersededRows, ErrorFinish
<1>4. CASE MakeProduction
  BY <1>1, <1>2, <1>4, SetProductionOneFlag DEF MakeProduction
<1>5. CASE PreviousIsDown
  BY <1>1, <1>2, <1>5, PutToSleepKeeps, KeepsOneFlag DEF PreviousIsDown
<1>6. CASE ScaleBackPrevious \/ CancelScaleBack
  <2>1. rows' = rows \/ ScaleBack(run.prev, FALSE)
    BY <1>6 DEF ScaleBackPrevious, CancelScaleBack
  <2> QED
    BY <1>1, <1>2, <2>1, ScaleBackKeeps, KeepsOneFlag
<1>7. CASE QueueNext
  <2>1. \E d, slot : rows' = rows \/ rows' = [rows EXCEPT ![d].slot = slot]
    BY <1>7 DEF QueueNext, GetNextQueued
  <2>2. Keeps(rows, rows')
    BY <1>1, <2>1 DEF Keeps, Rows, RowType
  <2> QED
    BY <1>1, <1>2, <2>2, KeepsOneFlag
<1>8. CASE \/ AcquireSemaphore \/ GetPreviousProduction \/ CreateVolumes \/ CreateConfigs
           \/ SkipScaleDown \/ ScaleDownPrevious \/ RetryScaleDown \/ PullImage
           \/ CreateService \/ HealthcheckEnds \/ Expose \/ DeletePreviousSchedules
           \/ RemovePreviousService \/ RemoveOldConfigs \/ RemoveOldVolumes \/ RemoveOldUrls
           \/ CreateMonitorSchedule \/ CreateStatsSchedule \/ RemoveOwnService \/ Release
           \/ BeginCancellation \/ ResetUrls \/ CancelService \/ CancelGetPrevious
           \/ DeleteCreatedConfigs \/ DeleteCreatedVolumes
           \/ Fail \/ SwallowedFailure \/ FinishAgain \/ ExecutionTimeout
  <2>1. UNCHANGED rows
    BY <1>8
    DEF resources, database, AcquireSemaphore, GetPreviousProduction, CreateVolumes,
        CreateConfigs, SkipScaleDown, ScaleDownPrevious, RetryScaleDown, PullImage,
        CreateService, HealthcheckEnds, Expose, DeletePreviousSchedules,
        RemovePreviousService, RemoveOldConfigs, RemoveOldVolumes, RemoveOldUrls,
        CreateMonitorSchedule, CreateStatsSchedule, RemoveOwnService, Release,
        BeginCancellation, ResetUrls, CancelService, CancelGetPrevious,
        DeleteCreatedConfigs, DeleteCreatedVolumes, Fail, SwallowedFailure, FinishAgain,
        ExecutionTimeout
  <2> QED
    BY <1>1, <1>2, <2>1
<1> QED
  BY <1>2, <1>3, <1>4, <1>5, <1>6, <1>7, <1>8
  DEF RunStep, DeployStep, CancellationStep, FailureStep

LEMMA ToggleFlags ==
    ASSUME FlagInv, \/ RequestToggle \/ ToggleStep
                    \/ \E d \in Deployments : MonitorDeployment(d)
    PROVE  OneFlag(rows') /\ UNCHANGED cancelReads
<1>1. rows \in Rows /\ OneFlag(rows)
  BY DEF FlagInv, TypeInv, TypeOK, ResourceTypes, Rows
<1>2. UNCHANGED cancelReads
  BY DEF RequestToggle, ToggleStep, ToggleStart, ToggleStop, ToggleIsDown, ToggleRetryStop,
         MonitorDeployment, requestVars
<1>3. CASE RequestToggle \/ ToggleStop \/ ToggleRetryStop
  BY <1>1, <1>2, <1>3 DEF RequestToggle, ToggleStop, ToggleRetryStop, resources, database
<1>4. CASE ToggleStart
  BY <1>1, <1>2, <1>4, ScaleBackKeeps, KeepsOneFlag DEF ToggleStart
<1>5. CASE ToggleIsDown
  BY <1>1, <1>2, <1>5, PutToSleepKeeps, KeepsOneFlag DEF ToggleIsDown
<1>6. ASSUME NEW d \in Deployments, MonitorDeployment(d) PROVE OneFlag(rows')
  <2>1. PICK status : rows' = [rows EXCEPT ![d].status = status, ![d].marker = "other"]
    BY <1>6 DEF MonitorDeployment
  <2>2. ASSUME NEW e \in Deployments PROVE rows'[e].production = rows[e].production
    BY <1>1, <2>1 DEF Rows, RowType
  <2> QED
    BY <1>1, <2>2 DEF OneFlag
<1> QED
  BY <1>2, <1>3, <1>4, <1>5, <1>6 DEF ToggleStep

LEMMA RequestFlags ==
    ASSUME FlagInv, DeployRequestStep \/ SignalStep \/ CancelRequestStep
    PROVE  OneFlag(rows') /\ UNCHANGED cancelReads
<1>1. /\ rows \in Rows /\ OneFlag(rows) /\ "slow_cancel" \notin Races
      /\ cancelReads = [d \in Deployments |-> AbsentRow]
  BY DEF FlagInv, TypeInv, TypeOK, ResourceTypes, RequestTypes, Rows
<1>2. ASSUME NEW d \in Deployments, CommitDeploy(d)
      PROVE  OneFlag(rows') /\ UNCHANGED cancelReads
  <2>1. PICK flagged : rows' = [FlagForCancellation(rows, flagged) EXCEPT
                                   ![d] = QueuedRow(requests[d].slot)]
    BY <1>2 DEF CommitDeploy
  <2>2. Keeps(rows, FlagForCancellation(rows, flagged))
    BY <1>1, TransactionsKeep
  <2>3. ~QueuedRow(requests[d].slot).production
    BY DEF QueuedRow
  <2>4. DOMAIN FlagForCancellation(rows, flagged) = Deployments
    BY DEF FlagForCancellation
  <2>5. Keeps(rows, rows')
    BY <2>1, <2>2, <2>3, <2>4 DEF Keeps
  <2> QED
    BY <1>1, <1>2, <2>5, KeepsOneFlag DEF CommitDeploy
<1>3. ASSUME NEW d \in Deployments,
             \/ OpenDeploy(d) \/ SignalSuperseded(d) \/ StartDeploy(d) \/ LoseCallback(d)
             \/ DeliverSignal(d) \/ LoseSignal(d)
      PROVE  UNCHANGED <<rows, cancelReads>>
  BY <1>3 DEF OpenDeploy, SignalSuperseded, StartDeploy, LoseCallback, DeliverSignal,
              LoseSignal, resources, database
<1>4. ASSUME NEW d \in Deployments, CancelDeployment(d)
      PROVE  OneFlag(rows') /\ UNCHANGED cancelReads
  <2>1. ASSUME NEW e \in Deployments PROVE rows'[e].production = rows[e].production
    BY <1>1, <1>4 DEF CancelDeployment, CancelledRow, Rows, RowType
  <2> QED
    BY <1>1, <1>4, <2>1 DEF OneFlag, CancelDeployment
<1>5. ASSUME NEW d \in Deployments PROVE ~ReadForCancel(d) /\ ~SaveCancel(d)
  BY <1>1 DEF ReadForCancel, SaveCancel
<1>6. ASSUME NEW b \in BOOLEAN, CleanupQueue(b)
      PROVE  OneFlag(rows') /\ UNCHANGED cancelReads
  BY <1>1, <1>6, TransactionsKeep, KeepsOneFlag DEF CleanupQueue
<1> QED
  BY <1>1, <1>2, <1>3, <1>4, <1>5, <1>6
  DEF DeployRequestStep, SignalStep, CancelRequestStep

LEMMA FlagInvStep == FlagInv /\ [Next]_vars => FlagInv'
<1> SUFFICES ASSUME FlagInv, [Next]_vars PROVE FlagInv'
  OBVIOUS
<1>1. TypeInv'
  BY TypeInvStep DEF FlagInv
<1>2. OneFlag(rows') /\ UNCHANGED cancelReads
  <2>1. CASE UNCHANGED vars
    BY <2>1 DEF FlagInv, vars, resources, database, requestVars
  <2>2. CASE Next
    BY <2>2, RunFlags, ToggleFlags, RequestFlags DEF Next, FlagInv
  <2> QED
    BY <2>1, <2>2
<1> QED
  BY <1>1, <1>2 DEF FlagInv

\* A service never has two current production deployments, as long as the cancel
\* view reads and saves its row without interruption: finish_and_save_deployment
\* takes the flag from all the others when it gives it, and no other transaction
\* of the workflow, the views or the monitor, in whatever order, retried or
\* interrupted, gives it to a row.
THEOREM ProductionUnique ==
    ASSUME "slow_cancel" \notin Races PROVE Spec => []OneProduction
<1>1. Init => FlagInv
  <2> SUFFICES ASSUME Init PROVE FlagInv
    OBVIOUS
  <2>1. rows = [d \in Deployments |-> AbsentRow] /\ cancelReads = rows
    BY DEF Init, ResourcesInit, RequestInit
  <2>2. ~AbsentRow.production
    BY DEF AbsentRow, QueuedRow
  <2> QED
    BY <2>1, <2>2, TypeInvInit DEF FlagInv, OneFlag
<1>2. FlagInv => OneProduction
  BY DEF FlagInv, OneFlag, OneProduction, Production, Existing
<1> QED
  BY <1>1, <1>2, FlagInvStep, PTL DEF Spec
=============================================================================
