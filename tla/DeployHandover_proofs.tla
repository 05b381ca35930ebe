------------------------ MODULE DeployHandover_proofs ------------------------
(***************************************************************************)
(* What the runs of DockerDeploy leave in the rows of the others, for any  *)
(* number of deployments and any failures: transient statuses do not       *)
(* outlive their run, production is handed over only to a deployment that  *)
(* serves, and a deployment that was put to sleep stays so.                *)
(***************************************************************************)
EXTENDS DockerDeploy_proofs

-----------------------------------------------------------------------------
(* What a transaction leaves in the row e                                  *)

LEMMA FlagRow ==
    ASSUME NEW R \in Rows, NEW flagged, NEW e \in Deployments
    PROVE  LET S == FlagForCancellation(R, flagged)
           IN  /\ S[e].status = IF e \in flagged /\ ~R[e].started
                                THEN "CANCELLED" ELSE R[e].status
               /\ S[e].production = R[e].production
BY DEF FlagForCancellation, Rows, RowType

LEMMA PrepareRow ==
    ASSUME NEW R \in Rows, NEW d, NEW e \in Deployments
    PROVE  LET S == Prepare(R, d)
           IN  /\ S[e].status = IF e = d /\ R[e].status = "QUEUED"
                                THEN "PREPARING" ELSE R[e].status
               /\ S[e].production = R[e].production /\ S[e].marker = R[e].marker
BY DEF Prepare, Rows, RowType

LEMMA SetStatusRow ==
    ASSUME NEW R \in Rows, NEW d, NEW status, NEW e \in Deployments
    PROVE  LET S == SetStatus(R, d, status)
           IN  /\ S[e].status = IF e = d THEN status ELSE R[e].status
               /\ S[e].production = R[e].production /\ S[e].marker = R[e].marker
BY DEF SetStatus, Rows, RowType

LEMMA SaveCancelledRow ==
    ASSUME NEW R \in Rows, NEW d, NEW e \in Deployments
    PROVE  LET S == SaveCancelled(R, d)
           IN  /\ S[e].status = IF e = d THEN "CANCELLED" ELSE R[e].status
               /\ S[e].production = R[e].production
               /\ e # d => S[e].marker = R[e].marker
BY DEF SaveCancelled, Rows, RowType

LEMMA SaveResultRow ==
    ASSUME NEW R \in Rows, NEW d, NEW result, NEW e \in Deployments
    PROVE  LET S == SaveResult(R, d, result)
           IN  /\ S[e].status = IF e = d THEN result ELSE R[e].status
               /\ S[e].production = R[e].production
               /\ e # d => S[e].marker = R[e].marker
BY DEF SaveResult, Rows, RowType

LEMMA SetProductionRow ==
    ASSUME NEW R \in Rows, NEW d, NEW e \in Deployments
    PROVE  LET S == SetProduction(R, d)
           IN  /\ S[e].status = R[e].status /\ S[e].marker = R[e].marker
               /\ S[e].production = (e = d)
BY DEF SetProduction, Rows, RowType

LEMMA RemoveSupersededRow ==
    ASSUME NEW R \in Rows, NEW d, NEW e \in Deployments
    PROVE  LET S == RemoveSuperseded(R, d)
           IN  /\ S[e].status \in {R[e].status, "REMOVED"}
               /\ e = d \/ R[e].status \notin ActiveStatuses => S[e].status = R[e].status
               /\ S[e].production = R[e].production /\ S[e].marker = R[e].marker
BY DEF RemoveSuperseded, Superseded, Rows, RowType

LEMMA MarkRemovedRow ==
    ASSUME NEW R \in Rows, NEW p, NEW e \in Deployments
    PROVE  LET S == MarkRemoved(R, p)
           IN  /\ S[e].status = IF e = p THEN "REMOVED" ELSE R[e].status
               /\ S[e].production = (R[e].production /\ e # p)
               /\ S[e].marker = R[e].marker
BY DEF MarkRemoved, Rows, RowType

LEMMA CleanupUncleanRow ==
    ASSUME NEW R \in Rows, NEW d, NEW e \in Deployments
    PROVE  LET S == CleanupUnclean(R, d)
           IN  /\ S[e].status = IF e \in Unclean(R, d) THEN "REMOVED" ELSE R[e].status
               /\ S[e].production = R[e].production /\ S[e].marker = R[e].marker
BY DEF CleanupUnclean, Rows, RowType

LEMMA SlotRow ==
    ASSUME NEW R \in Rows, NEW d, NEW slot, NEW e \in Deployments
    PROVE  LET S == [R EXCEPT ![d].slot = slot]
           IN  /\ S[e].status = R[e].status /\ S[e].production = R[e].production
               /\ S[e].marker = R[e].marker
BY DEF Rows, RowType

LEMMA PutToSleepRow ==
    ASSUME rows \in Rows, NEW d, NEW marker, PutToSleep(d, marker), NEW e \in Deployments
    PROVE  /\ rows'[e].status = IF e = d THEN "SLEEPING" ELSE rows[e].status
           /\ rows'[e].production = rows[e].production
           /\ rows'[e].marker = IF e = d THEN marker ELSE rows[e].marker
BY DEF PutToSleep, Rows, RowType

LEMMA ScaleBackRow ==
    ASSUME rows \in Rows, NEW d, NEW wake, ScaleBack(d, wake), NEW e \in Deployments
    PROVE  /\ \/ rows'[e].status = rows[e].status /\ rows'[e].marker = rows[e].marker
              \/ /\ e = d /\ rows[e].status = "SLEEPING" /\ rows'[e].status = "STARTING"
                 /\ ~LeftAsleep(d, wake) /\ swarm[d].replicas # "absent"
           /\ rows'[e].production = rows[e].production
BY DEF ScaleBack, Rows, RowType

\* The rows that a deploy view or a cleanup of the queue flags.
LEMMA FlaggedRow ==
    ASSUME NEW R \in Rows, NEW b, NEW spared, NEW e \in FlaggedRows(R, b, spared)
    PROVE  e \in Deployments /\ R[e].status \in CancellableStatuses
BY DEF FlaggedRows, WithStatus, CancellableStatuses

LEMMA CommitRow ==
    ASSUME rows \in Rows, NEW d \in Deployments, CommitDeploy(d)
    PROVE  /\ rows'[d] = QueuedRow(requests[d].slot)
           /\ \A e \in Deployments \ {d} :
                /\ \/ rows'[e].status = rows[e].status
                   \/ rows[e].status \in CancellableStatuses /\ rows'[e].status = "CANCELLED"
                /\ rows'[e].production = rows[e].production
<1>1. PICK b \in BOOLEAN :
        LET flagged == IF b THEN FlaggedRows(rows, TRUE, None) ELSE {}
        IN  rows' = [FlagForCancellation(rows, flagged) EXCEPT
                        ![d] = QueuedRow(requests[d].slot)]
  BY DEF CommitDeploy
<1> DEFINE flagged == IF b THEN FlaggedRows(rows, TRUE, None) ELSE {}
           R == FlagForCancellation(rows, flagged)
<1>2. DOMAIN R = Deployments
  BY DEF FlagForCancellation
<1>3. \A e \in Deployments :
        /\ R[e].status = IF e \in flagged /\ ~rows[e].started
                         THEN "CANCELLED" ELSE rows[e].status
        /\ R[e].production = rows[e].production
  BY FlagRow
<1>4. \A e \in flagged : rows[e].status \in CancellableStatuses
  BY FlaggedRow
<1>5. rows' = [R EXCEPT ![d] = QueuedRow(requests[d].slot)]
  BY <1>1
<1> HIDE DEF R, flagged
<1> QED
  BY <1>2, <1>3, <1>4, <1>5

-----------------------------------------------------------------------------
(* Where each step of a run leads                                          *)

\* The run goes from one activity to another; of its fields, only those named in
\* `changed` may change.
Moves(from, to, changed) ==
    /\ run.pc = from /\ run'.pc = to
    /\ cur' = cur /\ run'.slot = run.slot
    /\ "prev" \in changed \/ run'.prev = run.prev
    /\ "prevFailed" \in changed \/ run'.prevFailed = run.prevFailed
    /\ "result" \in changed \/ run'.result = run.result
    /\ "step" \in changed \/ run'.step = run.step
    /\ "madeVolumes" \in changed \/ run'.madeVolumes = run.madeVolumes
    /\ "madeConfigs" \in changed \/ run'.madeConfigs = run.madeConfigs
    /\ "next" \in changed \/ (run'.next = run.next /\ run'.nextSlot = run.nextSlot)

LEMMA GotoMoves ==
    ASSUME run \in RunType, NEW pc, Goto(pc) PROVE Moves(run.pc, pc, {})
BY DEF RunType, Goto, Moves, cur

LEMMA ActivityMoves ==
    ASSUME run \in RunType
    PROVE  /\ AcquireSemaphore => Moves("acquire", "prepare", {})
           /\ PrepareDeployment => Moves("prepare", "get_previous", {})
           /\ GetPreviousProduction =>
                Moves("get_previous", "create_volumes", {"prev", "prevFailed"})
           /\ CreateVolumes => Moves("create_volumes", "create_configs", {"madeVolumes"})
           /\ CreateConfigs => Moves("create_configs", "scale_down", {"madeConfigs"})
           /\ SkipScaleDown => Moves("scale_down", "pull", {})
           /\ ScaleDownPrevious => Moves("scale_down", "wait_down", {})
           /\ PreviousIsDown => Moves("wait_down", "pull", {})
           /\ RetryScaleDown => run' = run /\ run.pc = "wait_down"
           /\ PullImage =>
                \/ Moves("pull", "create_service", {})
                \/ Moves("pull", "remove_own", {"result"}) /\ run'.result = "FAILED"
           /\ CreateService => Moves("create_service", "healthcheck", {})
<1>1. /\ AcquireSemaphore => Moves("acquire", "prepare", {})
      /\ PrepareDeployment => Moves("prepare", "get_previous", {})
      /\ SkipScaleDown => Moves("scale_down", "pull", {})
      /\ ScaleDownPrevious => Moves("scale_down", "wait_down", {})
      /\ PreviousIsDown => Moves("wait_down", "pull", {})
      /\ CreateService => Moves("create_service", "healthcheck", {})
  BY GotoMoves DEF AcquireSemaphore, PrepareDeployment, SkipScaleDown, ScaleDownPrevious,
                   PreviousIsDown, CreateService
<1>2. ASSUME GetPreviousProduction
      PROVE  Moves("get_previous", "create_volumes", {"prev", "prevFailed"})
  <2>1. PICK p, failed : run' = [run EXCEPT !.pc = "create_volumes", !.prev = p,
                                            !.prevFailed = failed]
    BY <1>2 DEF GetPreviousProduction
  <2>2. run.pc = "get_previous"
    BY <1>2 DEF GetPreviousProduction
  <2> QED
    BY <2>1, <2>2 DEF Moves, RunType, cur
<1>3. ASSUME CreateVolumes
      PROVE  Moves("create_volumes", "create_configs", {"madeVolumes"})
  <2>1. PICK made : run' = [run EXCEPT !.pc = "create_configs", !.madeVolumes = made]
    BY <1>3 DEF CreateVolumes
  <2>2. run.pc = "create_volumes"
    BY <1>3 DEF CreateVolumes
  <2> QED
    BY <2>1, <2>2 DEF Moves, RunType, cur
<1>4. ASSUME CreateConfigs
      PROVE  Moves("create_configs", "scale_down", {"madeConfigs"})
  <2>1. PICK made : run' = [run EXCEPT !.pc = "scale_down", !.madeConfigs = made]
    BY <1>4 DEF CreateConfigs
  <2>2. run.pc = "create_configs"
    BY <1>4 DEF CreateConfigs
  <2> QED
    BY <2>1, <2>2 DEF Moves, RunType, cur
<1>5. ASSUME PullImage
      PROVE  \/ Moves("pull", "create_service", {})
             \/ Moves("pull", "remove_own", {"result"}) /\ run'.result = "FAILED"
  <2>1. /\ run.pc = "pull"
        /\ \/ Goto("create_service")
           \/ run' = [run EXCEPT !.pc = "remove_own", !.result = "FAILED"]
    BY <1>5 DEF PullImage
  <2>2. run' = [run EXCEPT !.pc = "remove_own", !.result = "FAILED"]
          => Moves("pull", "remove_own", {"result"}) /\ run'.result = "FAILED"
    BY <2>1 DEF Moves, RunType, cur
  <2> QED
    BY <2>1, <2>2, GotoMoves
<1>6. RetryScaleDown => run' = run /\ run.pc = "wait_down"
  BY DEF RetryScaleDown
<1> QED
  BY <1>1, <1>2, <1>3, <1>4, <1>5, <1>6

LEMMA PromotionMoves ==
    ASSUME run \in RunType
    PROVE  /\ PollHealth => /\ run.pc \in {"healthcheck", "polling"}
                            /\ Moves(run.pc, "polling", {})
           /\ HealthcheckEnds =>
                /\ run.pc \in {"healthcheck", "polling"}
                /\ \/ Moves(run.pc, "expose", {"result"}) /\ run'.result = "HEALTHY"
                   \/ Moves(run.pc, "remove_own", {"result"}) /\ run'.result = "FAILED"
           /\ Expose => Moves("expose", "promote", {})
           /\ DeletePreviousSchedules =>
                Moves("promote",
                      IF run.prev = None THEN "monitor_schedule" ELSE "remove_previous", {})
           /\ RemovePreviousService => Moves("remove_previous", "remove_configs", {})
           /\ RemoveOldConfigs => Moves("remove_configs", "remove_volumes", {})
           /\ RemoveOldVolumes => Moves("remove_volumes", "remove_urls", {})
           /\ RemoveOldUrls => Moves("remove_urls", "mark_removed", {})
           /\ MarkPreviousRemoved => Moves("mark_removed", "monitor_schedule", {})
           /\ CreateMonitorSchedule => Moves("monitor_schedule", "stats_schedule", {})
           /\ CreateStatsSchedule => Moves("stats_schedule", "finish", {})
           /\ RemoveOwnService => Moves("remove_own", "scale_back", {})
           /\ ScaleBackPrevious => Moves("scale_back", "finish", {})
<1>1. /\ PollHealth => /\ run.pc \in {"healthcheck", "polling"}
                       /\ Moves(run.pc, "polling", {})
      /\ Expose => Moves("expose", "promote", {})
      /\ DeletePreviousSchedules =>
           Moves("promote",
                 IF run.prev = None THEN "monitor_schedule" ELSE "remove_previous", {})
      /\ RemovePreviousService => Moves("remove_previous", "remove_configs", {})
      /\ RemoveOldConfigs => Moves("remove_configs", "remove_volumes", {})
      /\ RemoveOldVolumes => Moves("remove_volumes", "remove_urls", {})
  BY GotoMoves DEF PollHealth, CheckingHealth, Expose, DeletePreviousSchedules,
                   RemovePreviousService, RemoveOldConfigs, RemoveOldVolumes
<1>2. /\ RemoveOldUrls => Moves("remove_urls", "mark_removed", {})
      /\ MarkPreviousRemoved => Moves("mark_removed", "monitor_schedule", {})
      /\ CreateMonitorSchedule => Moves("monitor_schedule", "stats_schedule", {})
      /\ CreateStatsSchedule => Moves("stats_schedule", "finish", {})
      /\ RemoveOwnService => Moves("remove_own", "scale_back", {})
      /\ ScaleBackPrevious => Moves("scale_back", "finish", {})
  BY GotoMoves DEF RemoveOldUrls, MarkPreviousRemoved, CreateMonitorSchedule,
                   CreateStatsSchedule, RemoveOwnService, ScaleBackPrevious
<1>3. ASSUME HealthcheckEnds
      PROVE  /\ run.pc \in {"healthcheck", "polling"}
             /\ \/ Moves(run.pc, "expose", {"result"}) /\ run'.result = "HEALTHY"
                \/ Moves(run.pc, "remove_own", {"result"}) /\ run'.result = "FAILED"
  <2>1. /\ run.pc \in {"healthcheck", "polling"}
        /\ \/ run' = [run EXCEPT !.pc = "expose", !.result = "HEALTHY"]
           \/ run' = [run EXCEPT !.pc = "remove_own", !.result = "FAILED"]
    BY <1>3 DEF HealthcheckEnds, CheckingHealth
  <2> QED
    BY <2>1 DEF Moves, RunType, cur
<1> QED
  BY <1>1, <1>2, <1>3

LEMMA EndMoves ==
    ASSUME run \in RunType
    PROVE  /\ FinishDeployment =>
                Moves("finish", IF BecomesProduction(rows, cur, run.result)
                                THEN "set_production" ELSE "cleanup_unclean", {})
           /\ MakeProduction =>
                \/ Moves("set_production", "remove_superseded", {})
                \/ Moves("error_set_production", "error_remove_superseded", {})
           /\ RemoveSupersededRows =>
                \/ Moves("remove_superseded", "cleanup_unclean", {})
                \/ Moves("error_remove_superseded", "error_queue_next", {})
           /\ CleanupUncleanDeployments => Moves("cleanup_unclean", "queue_next", {})
           /\ QueueNext =>
                /\ run.pc \in {"queue_next", "cancel_queue_next", "error_queue_next"}
                /\ Moves(run.pc, "release", {"next"})
<1>1. /\ FinishDeployment =>
           Moves("finish", IF BecomesProduction(rows, cur, run.result)
                           THEN "set_production" ELSE "cleanup_unclean", {})
      /\ MakeProduction =>
           \/ Moves("set_production", "remove_superseded", {})
           \/ Moves("error_set_production", "error_remove_superseded", {})
      /\ RemoveSupersededRows =>
           \/ Moves("remove_superseded", "cleanup_unclean", {})
           \/ Moves("error_remove_superseded", "error_queue_next", {})
      /\ CleanupUncleanDeployments => Moves("cleanup_unclean", "queue_next", {})
  BY GotoMoves DEF FinishDeployment, MakeProduction, RemoveSupersededRows,
                   CleanupUncleanDeployments
<1>2. ASSUME QueueNext
      PROVE  /\ run.pc \in {"queue_next", "cancel_queue_next", "error_queue_next"}
             /\ Moves(run.pc, "release", {"next"})
  <2>1. PICK d, slot :
          \/ Goto("release")
          \/ run' = [run EXCEPT !.pc = "release", !.next = d, !.nextSlot = slot]
    BY <1>2 DEF QueueNext, GetNextQueued
  <2>2. Goto("release") => Moves(run.pc, "release", {"next"})
    BY GotoMoves DEF Moves
  <2>3. run' = [run EXCEPT !.pc = "release", !.next = d, !.nextSlot = slot]
          => Moves(run.pc, "release", {"next"})
    BY DEF Moves, RunType, cur
  <2> QED
    BY <1>2, <2>1, <2>2, <2>3 DEF QueueNext
<1> QED
  BY <1>1, <1>2

LEMMA CancellationMoves ==
    ASSUME run \in RunType
    PROVE  /\ BeginCancellation =>
                /\ AtCancellationPoint /\ Moves(run.pc, "set_cancelling", {"step"})
                /\ run'.step = LastCompleted[run.pc]
           /\ SetCancelling => Moves("set_cancelling", "reset_urls", {})
           /\ ResetUrls => Moves("reset_urls", "cancel_service", {})
           /\ CancelService =>
                Moves("cancel_service",
                      IF run.step >= 4 THEN "cancel_previous" ELSE "delete_configs", {})
           /\ CancelGetPrevious => Moves("cancel_previous", "cancel_scale_back", {"prev"})
           /\ CancelScaleBack => Moves("cancel_scale_back", "delete_configs", {})
           /\ DeleteCreatedConfigs => Moves("delete_configs", "delete_volumes", {})
           /\ DeleteCreatedVolumes => Moves("delete_volumes", "save_cancelled", {})
           /\ SaveCancelledDeployment => Moves("save_cancelled", "cancel_queue_next", {})
<1>1. /\ SetCancelling => Moves("set_cancelling", "reset_urls", {})
      /\ ResetUrls => Moves("reset_urls", "cancel_service", {})
      /\ CancelService =>
           Moves("cancel_service",
                 IF run.step >= 4 THEN "cancel_previous" ELSE "delete_configs", {})
      /\ CancelScaleBack => Moves("cancel_scale_back", "delete_configs", {})
  BY GotoMoves DEF SetCancelling, ResetUrls, CancelService, CancelScaleBack
<1>2. /\ DeleteCreatedConfigs => Moves("delete_configs", "delete_volumes", {})
      /\ DeleteCreatedVolumes => Moves("delete_volumes", "save_cancelled", {})
      /\ SaveCancelledDeployment => Moves("save_cancelled", "cancel_queue_next", {})
  BY GotoMoves DEF DeleteCreatedConfigs, DeleteCreatedVolumes, SaveCancelledDeployment
<1>3. ASSUME CancelGetPrevious
      PROVE  Moves("cancel_previous", "cancel_scale_back", {"prev"})
  <2>1. PICK p : run' = [run EXCEPT !.pc = "cancel_scale_back", !.prev = p]
    BY <1>3 DEF CancelGetPrevious
  <2>2. run.pc = "cancel_previous"
    BY <1>3 DEF CancelGetPrevious
  <2> QED
    BY <2>1, <2>2 DEF Moves, RunType, cur
<1>4. ASSUME BeginCancellation
      PROVE  /\ AtCancellationPoint /\ Moves(run.pc, "set_cancelling", {"step"})
             /\ run'.step = LastCompleted[run.pc]
  BY <1>4 DEF BeginCancellation, Moves, RunType, cur
<1> QED
  BY <1>1, <1>2, <1>3, <1>4

LEMMA FailureMoves ==
    ASSUME run \in RunType
    PROVE  /\ Fail => \/ run' = NoRun
                      \/ run.pc \in ErrorSteps /\ Moves(run.pc, "release", {})
                      \/ run.pc \notin ErrorSteps /\ Moves(run.pc, "error_finish", {})
           /\ SwallowedFailure =>
                \/ Moves("remove_previous", "remove_configs", {})
                \/ Moves("remove_own", "scale_back", {})
                \/ /\ Moves("cancel_service", "cancel_previous", {})
           /\ ErrorFinish =>
                Moves("error_finish", IF BecomesProduction(rows, cur, "FAILED")
                                      THEN "error_set_production" ELSE "error_queue_next", {})
           /\ FinishAgain =>
                /\ run.pc \in FaultySteps
                /\ \/ run.pc \in {"set_production", "remove_superseded"}
                      /\ Moves(run.pc, "finish", {})
                   \/ run.pc \in {"error_set_production", "error_remove_superseded"}
                      /\ Moves(run.pc, "error_finish", {})
<1>1. ErrorFinish =>
        Moves("error_finish", IF BecomesProduction(rows, cur, "FAILED")
                              THEN "error_set_production" ELSE "error_queue_next", {})
  BY GotoMoves DEF ErrorFinish
<1>2. SwallowedFailure =>
        \/ Moves("remove_previous", "remove_configs", {})
        \/ Moves("remove_own", "scale_back", {})
        \/ Moves("cancel_service", "cancel_previous", {})
  BY GotoMoves DEF SwallowedFailure
<1>3. ASSUME Fail
      PROVE  \/ run' = NoRun
             \/ run.pc \in ErrorSteps /\ Moves(run.pc, "release", {})
             \/ run.pc \notin ErrorSteps /\ Moves(run.pc, "error_finish", {})
  <2>1. \/ run' = NoRun
        \/ run.pc \in ErrorSteps /\ Goto("release")
        \/ run.pc \notin ErrorSteps /\ Goto("error_finish")
    BY <1>3 DEF Fail, AfterActivityError, Goto
  <2> QED
    BY <2>1, GotoMoves
<1>4. ASSUME FinishAgain
      PROVE  /\ run.pc \in FaultySteps
             /\ \/ run.pc \in {"set_production", "remove_superseded"}
                   /\ Moves(run.pc, "finish", {})
                \/ run.pc \in {"error_set_production", "error_remove_superseded"}
                   /\ Moves(run.pc, "error_finish", {})
  BY <1>4, GotoMoves DEF FinishAgain, ErrorSteps
<1> QED
  BY <1>1, <1>2, <1>3, <1>4

-----------------------------------------------------------------------------
(* Transient rows                                                          *)

Transient == {"PREPARING", "CANCELLING"}

\* The steps of a run at which the row of its deployment may be transient.
Unsettled ==
    (DeploySteps \ {"acquire", "prepare", "set_production", "remove_superseded",
                    "cleanup_unclean", "queue_next", "release"})
    \cup (CancelSteps \ {"cancel_queue_next"}) \cup {"error_finish"}

TransientInv ==
    /\ TypeInv
    /\ \A d \in WithStatus(rows, Transient) : cur = d /\ run.pc \in Unsettled

\* No row becomes transient.
Settles(R, S) == \A e \in Deployments : S[e].status \in Transient => R[e].status = S[e].status

LEMMA TransactionsSettle ==
    ASSUME NEW R \in Rows, NEW d, NEW flagged, NEW slot,
           NEW status \in Statuses \ Transient
    PROVE  /\ Settles(R, FlagForCancellation(R, flagged))
           /\ Settles(R, SetStatus(R, d, status))
           /\ Settles(R, SaveCancelled(R, d))
           /\ Settles(R, SaveResult(R, d, status))
           /\ Settles(R, SetProduction(R, d))
           /\ Settles(R, RemoveSuperseded(R, d))
           /\ Settles(R, MarkRemoved(R, d))
           /\ Settles(R, CleanupUnclean(R, d))
           /\ Settles(R, [R EXCEPT ![d].slot = slot])
BY FlagRow, SetStatusRow, SaveCancelledRow, SaveResultRow, SetProductionRow,
   RemoveSupersededRow, MarkRemovedRow, CleanupUncleanRow, SlotRow DEF Settles, Transient

LEMMA ScaleBackSettles ==
    ASSUME rows \in Rows, NEW d, NEW wake, ScaleBack(d, wake) PROVE Settles(rows, rows')
BY ScaleBackRow DEF Settles, Transient

LEMMA PutToSleepSettles ==
    ASSUME rows \in Rows, NEW d, NEW marker, PutToSleep(d, marker) PROVE Settles(rows, rows')
BY PutToSleepRow DEF Settles, Transient

\* The steps of a run that write no row.
LEMMA OtherStepsKeepRows ==
    ASSUME RunStep \/ ExecutionTimeout,
           ~(\/ PrepareDeployment \/ PollHealth \/ FinishDeployment \/ MakeProduction
             \/ RemoveSupersededRows \/ MarkPreviousRemoved \/ CleanupUncleanDeployments
             \/ SetCancelling \/ SaveCancelledDeployment \/ ErrorFinish
             \/ PreviousIsDown \/ ScaleBackPrevious \/ CancelScaleBack \/ QueueNext)
    PROVE  UNCHANGED rows
BY DEF RunStep, DeployStep, CancellationStep, FailureStep, resources, database,
       AcquireSemaphore, GetPreviousProduction, CreateVolumes,
       CreateConfigs, SkipScaleDown, ScaleDownPrevious, RetryScaleDown, PullImage,
       CreateService, HealthcheckEnds, Expose, DeletePreviousSchedules,
       RemovePreviousService, RemoveOldConfigs, RemoveOldVolumes, RemoveOldUrls,
       CreateMonitorSchedule, CreateStatsSchedule, RemoveOwnService, Release,
       BeginCancellation, ResetUrls, CancelService, CancelGetPrevious,
       DeleteCreatedConfigs, DeleteCreatedVolumes, Fail, SwallowedFailure, FinishAgain,
       ExecutionTimeout

LEMMA TransientRun ==
    ASSUME TransientInv, RunStep \/ ExecutionTimeout, MaxTimeouts = 0,
           "error_finish" \notin FaultySteps
    PROVE  TransientInv'
<1> DEFINE Inv == \A d \in WithStatus(rows, Transient) : cur = d /\ run.pc \in Unsettled
<1>1. rows \in Rows /\ Inv /\ run \in RunType /\ spent.timeouts \in Nat
  BY DEF TransientInv, TypeInv, TypeOK, ResourceTypes, Rows
<1>2. TypeInv'
  BY RunTypes, FailureTypes DEF TransientInv, RunStep
<1>3. ASSUME Settles(rows, rows'), NEW pc \in Unsettled, cur' = cur, run'.pc = pc PROVE Inv'
  BY <1>1, <1>3 DEF Settles, WithStatus
<1>4. ASSUME Settles(rows, rows'), run.pc \notin Unsettled PROVE Inv'
  BY <1>1, <1>4 DEF Settles, WithStatus
<1>5. ASSUME Settles(rows, rows'), rows'[cur].status \notin Transient PROVE Inv'
  BY <1>1, <1>5 DEF Settles, WithStatus
<1>6. UNCHANGED rows => Settles(rows, rows')
  BY DEF Settles
<1>7. Settles(rows, rows') \/ PrepareDeployment \/ SetCancelling
  <2>1. ASSUME \/ PollHealth \/ FinishDeployment \/ MakeProduction \/ RemoveSupersededRows
               \/ MarkPreviousRemoved \/ CleanupUncleanDeployments
               \/ SaveCancelledDeployment \/ ErrorFinish
        PROVE  Settles(rows, rows')
    <3>1. {"STARTING", "FAILED", run.result} \subseteq Statuses \ Transient
      BY <1>1 DEF RunType, Statuses, Transient
    <3> QED
      BY <1>1, <2>1, <3>1, TransactionsSettle
      DEF PollHealth, FinishDeployment, MakeProduction, RemoveSupersededRows,
          MarkPreviousRemoved, CleanupUncleanDeployments, SaveCancelledDeployment,
          ErrorFinish
  <2>2. ASSUME PreviousIsDown \/ ScaleBackPrevious \/ CancelScaleBack
        PROVE  Settles(rows, rows')
    BY <1>1, <1>6, <2>2, PutToSleepSettles, ScaleBackSettles
    DEF PreviousIsDown, ScaleBackPrevious, CancelScaleBack
  <2>3. ASSUME QueueNext PROVE Settles(rows, rows')
    <3>1. PICK d, slot : rows' = rows \/ rows' = [rows EXCEPT ![d].slot = slot]
      BY <2>3 DEF QueueNext, GetNextQueued
    <3> QED
      BY <1>1, <1>6, <3>1 DEF Settles, Rows, RowType
  <2> QED
    BY <1>6, <2>1, <2>2, <2>3, OtherStepsKeepRows
<1>8. \/ run.pc \notin Unsettled
      \/ cur' = cur /\ run'.pc \in Unsettled
      \/ FinishDeployment \/ ErrorFinish \/ SaveCancelledDeployment
  <2> USE DEF Moves, Unsettled, DeploySteps, CancelSteps, ErrorSteps
  <2>1. ASSUME \/ AcquireSemaphore \/ PrepareDeployment \/ GetPreviousProduction
               \/ CreateVolumes \/ CreateConfigs \/ SkipScaleDown \/ ScaleDownPrevious
               \/ PreviousIsDown \/ RetryScaleDown \/ PullImage \/ CreateService
        PROVE  run.pc \notin Unsettled \/ (cur' = cur /\ run'.pc \in Unsettled)
    BY <1>1, <2>1, ActivityMoves DEF cur
  <2>2. ASSUME \/ PollHealth \/ HealthcheckEnds \/ Expose \/ DeletePreviousSchedules
               \/ RemovePreviousService \/ RemoveOldConfigs \/ RemoveOldVolumes
               \/ RemoveOldUrls \/ MarkPreviousRemoved \/ CreateMonitorSchedule
               \/ CreateStatsSchedule \/ RemoveOwnService \/ ScaleBackPrevious
        PROVE  cur' = cur /\ run'.pc \in Unsettled
    BY <1>1, <2>2, PromotionMoves
  <2>3. ASSUME \/ MakeProduction \/ RemoveSupersededRows \/ CleanupUncleanDeployments
               \/ QueueNext
        PROVE  run.pc \notin Unsettled
    BY <1>1, <2>3, EndMoves
  <2>4. ASSUME \/ BeginCancellation \/ SetCancelling \/ ResetUrls \/ CancelService
               \/ CancelGetPrevious \/ CancelScaleBack \/ DeleteCreatedConfigs
               \/ DeleteCreatedVolumes
        PROVE  cur' = cur /\ run'.pc \in Unsettled
    BY <1>1, <2>4, CancellationMoves
  <2>5. ASSUME SwallowedFailure \/ FinishAgain
        PROVE  run.pc \notin Unsettled \/ (cur' = cur /\ run'.pc \in Unsettled)
    BY <1>1, <2>5, FailureMoves
  <2>6. ASSUME Fail
        PROVE  run.pc \notin Unsettled \/ (cur' = cur /\ run'.pc \in Unsettled)
    <3>1. run.pc \in Unsettled => run' # NoRun
      <4>1. run.pc \in Unsettled /\ run.pc \notin ErrorSteps => Goto("error_finish")
        BY <2>6 DEF Fail, AfterActivityError, Goto
      <4>2. run.pc \in Unsettled => run.pc \notin ErrorSteps
        BY <2>6 DEF Fail, Refused
      <4>3. Goto("error_finish") => run'.pc = "error_finish"
        BY <1>1, GotoMoves
      <4> QED
        BY <4>1, <4>2, <4>3, NoRunClosed
    <3>2. CASE run.pc \in Unsettled
      <4>1. run.pc \notin ErrorSteps
        BY <2>6, <3>2 DEF Fail, Refused, Unsettled, DeploySteps, CancelSteps, ErrorSteps
      <4>2. Moves(run.pc, "error_finish", {})
        BY <1>1, <2>6, <3>1, <3>2, <4>1, FailureMoves
      <4> QED
        BY <4>2 DEF Moves, Unsettled
    <3> QED
      BY <3>2
  <2>7. ASSUME Release \/ ExecutionTimeout PROVE run.pc \notin Unsettled
    <3>1. CASE Release
      BY <3>1 DEF Release
    <3>2. CASE ExecutionTimeout
      BY <1>1, <3>2 DEF ExecutionTimeout
    <3> QED
      BY <2>7, <3>1, <3>2
  <2> QED
    BY <2>1, <2>2, <2>3, <2>4, <2>5, <2>6, <2>7
    DEF RunStep, DeployStep, CancellationStep, FailureStep
<1>9. ASSUME PrepareDeployment PROVE Inv'
  BY <1>1, <1>9, PrepareRow
  DEF PrepareDeployment, Goto, RunType, cur, WithStatus, Unsettled, DeploySteps, CancelSteps,
      Transient
<1>10. ASSUME SetCancelling PROVE Inv'
  BY <1>1, <1>10, SetStatusRow
  DEF SetCancelling, Goto, RunType, cur, WithStatus, Unsettled, CancelSteps, Transient
<1>11. ASSUME FinishDeployment \/ ErrorFinish \/ SaveCancelledDeployment PROVE Inv'
  <2>1. rows'[cur].status \notin Transient
    BY <1>1, <1>11, SaveResultRow, SaveCancelledRow
    DEF FinishDeployment, ErrorFinish, SaveCancelledDeployment, TransientInv, TypeInv,
        RunOpen, RunType, Transient
  <2> QED
    BY <1>5, <1>7, <1>11, <2>1
    DEF PrepareDeployment, SetCancelling, FinishDeployment, ErrorFinish,
        SaveCancelledDeployment
<1>12. Inv'
  BY <1>3, <1>4, <1>7, <1>8, <1>9, <1>10, <1>11
<1> QED
  BY <1>2, <1>12 DEF TransientInv

LEMMA TransientOthers ==
    ASSUME TransientInv,
           \/ RequestToggle \/ ToggleStep \/ \E d \in Deployments : MonitorDeployment(d)
           \/ /\ DeployRequestStep \/ SignalStep \/ CancelRequestStep
              /\ UNCHANGED <<toggle, spent>>
    PROVE  TransientInv'
<1> DEFINE Inv == \A d \in WithStatus(rows, Transient) : cur = d /\ run.pc \in Unsettled
<1>1. rows \in Rows /\ Inv /\ run \in RunType /\ cancelReads \in Rows
  BY DEF TransientInv, TypeInv, TypeOK, ResourceTypes, RequestTypes, Rows
<1>2. TypeInv'
  BY ToggleTypes, MonitorTypes, RequestStepTypes, CancelStepTypes DEF TransientInv
<1>3. ASSUME Settles(rows, rows'),
             run.pc \notin Unsettled \/ (cur' = cur /\ run'.pc = run.pc)
      PROVE Inv'
  BY <1>1, <1>3 DEF Settles, WithStatus
<1>4. ASSUME RequestToggle \/ ToggleStop \/ ToggleRetryStop PROVE Inv'
  BY <1>3, <1>4 DEF Settles, RequestToggle, ToggleStop, ToggleRetryStop, resources, database, cur
<1>5. ASSUME ToggleStart \/ ToggleIsDown PROVE Inv'
  BY <1>1, <1>3, <1>5, ScaleBackSettles, PutToSleepSettles DEF ToggleStart, ToggleIsDown, cur
<1>6. ASSUME NEW d \in Deployments, MonitorDeployment(d) PROVE Inv'
  <2>1. PICK status \in MonitorResults :
          rows' = [rows EXCEPT ![d].status = status, ![d].marker = "other"]
    BY <1>6 DEF MonitorDeployment
  <2>2. status \notin Transient
    BY FaultAssumption DEF Transient
  <2>3. Settles(rows, rows')
    BY <1>1, <2>1, <2>2 DEF Settles, Rows, RowType
  <2> QED
    BY <1>3, <1>6, <2>3 DEF MonitorDeployment, cur
<1>7. ASSUME NEW d \in Deployments, CommitDeploy(d) PROVE Inv'
  <2>1. ASSUME NEW e \in Deployments, rows'[e].status \in Transient
        PROVE  rows[e].status = rows'[e].status
    <3>1. rows'[d] = QueuedRow(requests[d].slot)
      BY <1>1, <1>7, CommitRow
    <3>2. rows'[d].status = "QUEUED"
      BY <3>1 DEF QueuedRow
    <3>3. e # d => rows'[e].status = rows[e].status \/ rows'[e].status = "CANCELLED"
      BY <1>1, <1>7, CommitRow
    <3> QED
      BY <2>1, <3>2, <3>3 DEF Transient
  <2>2. Settles(rows, rows')
    BY <2>1 DEF Settles
  <2> QED
    BY <1>3, <1>7, <2>2 DEF CommitDeploy, cur
<1>8. ASSUME NEW d \in Deployments,
             \/ OpenDeploy(d) \/ SignalSuperseded(d) \/ StartDeploy(d) \/ LoseCallback(d)
             \/ DeliverSignal(d) \/ LoseSignal(d) \/ ReadForCancel(d)
      PROVE  Inv'
  <2>1. run.pc \notin Unsettled \/ (cur' = cur /\ run'.pc = run.pc)
    BY <1>1, <1>8
    DEF OpenDeploy, SignalSuperseded, StartDeploy, LoseCallback, DeliverSignal, LoseSignal,
        ReadForCancel, RunOpen, RunType, cur, Unsettled, DeploySteps, CancelSteps
  <2> QED
    BY <1>3, <1>8, <2>1
    DEF OpenDeploy, SignalSuperseded, StartDeploy, LoseCallback, DeliverSignal, LoseSignal,
        ReadForCancel, resources, database, Settles
<1>9. ASSUME NEW d \in Deployments, CancelDeployment(d) \/ SaveCancel(d) PROVE Inv'
  <2>1. Settles(rows, rows')
    BY <1>1, <1>9 DEF CancelDeployment, SaveCancel, CancelledRow, Settles, Transient, Rows, RowType
  <2> QED
    BY <1>3, <1>9, <2>1 DEF CancelDeployment, SaveCancel, cur
<1>10. ASSUME NEW b \in BOOLEAN, CleanupQueue(b) PROVE Inv'
  <2>1. Settles(rows, rows')
    BY <1>1, <1>10, FlagRow DEF CleanupQueue, Settles, Transient
  <2> QED
    BY <1>3, <1>10, <2>1 DEF CleanupQueue, cur
<1>11. Inv'
  BY <1>4, <1>5, <1>6, <1>7, <1>8, <1>9, <1>10
  DEF ToggleStep, DeployRequestStep, SignalStep, CancelRequestStep
<1> QED
  BY <1>2, <1>11 DEF TransientInv

\* A row is PREPARING or CANCELLING only while the open run is deploying it, whatever
\* races, lost calls, failures and toggles there are, as long as no execution times out
\* and the error handler can save its FAILED: every other way out of these statuses that
\* the run has is saved, and no request, toggle or monitor sets them.
THEOREM TransientCorrect ==
    ASSUME MaxTimeouts = 0, "error_finish" \notin FaultySteps
    PROVE  Spec => []TransientRowsAreRunning
<1>1. Init => TransientInv
  BY TypeInvInit DEF Init, ResourcesInit, AbsentRow, QueuedRow, TransientInv, WithStatus,
                     Transient
<1>2. TransientInv /\ [Next]_vars => TransientInv'
  <2> SUFFICES ASSUME TransientInv, [Next]_vars PROVE TransientInv'
    OBVIOUS
  <2>1. CASE UNCHANGED vars
    BY <2>1, TypeInvStep
    DEF vars, resources, database, TransientInv, WithStatus, cur
  <2>2. CASE Next
    BY <2>2, TransientRun, TransientOthers DEF Next
  <2> QED
    BY <2>1, <2>2
<1>3. TransientInv => TransientRowsAreRunning
  BY DEF TransientInv, TransientRowsAreRunning, RunOpen, Transient, Unsettled, DeploySteps,
         CancelSteps
<1> QED
  BY <1>1, <1>2, <1>3, PTL DEF Spec

-----------------------------------------------------------------------------
(* A deployment runs once, and what its run relies on                      *)

Begun(d) == rows[d].status \notin {"ABSENT", "QUEUED"}

\* No production deployment, toggle or history of toggles has to do with d.
Idle(d) ==
    /\ ~rows[d].production
    /\ toggle.pc # "idle" => toggle.dep # d
    /\ d \notin toggle.stopped

Fresh(d) == Idle(d) /\ swarm[d].replicas = "absent"

\* The steps of a run before its service exists, those after, those at which its URLs
\* reach it, and those that take the place of the previous deployment.
Before == {"acquire", "prepare", "get_previous", "create_volumes", "create_configs",
           "scale_down", "wait_down", "pull", "create_service"}
Promoting == {"remove_previous", "remove_configs", "remove_volumes", "remove_urls",
              "mark_removed"}
Exposed == {"promote", "monitor_schedule", "stats_schedule"} \cup Promoting
Serving == {"healthcheck", "polling", "expose"} \cup Exposed

\* The steps at which the run knows the previous production deployment.
Known == {"create_volumes", "create_configs", "scale_down", "wait_down", "pull",
          "create_service", "healthcheck", "polling", "expose", "promote", "remove_own",
          "scale_back"} \cup Promoting

\* A row is inserted by the commit of its request, and is still QUEUED at the callback.
RequestsMatch ==
    \A d \in Deployments :
        /\ requests[d].stage \in {"none", "open"} => rows[d].status = "ABSENT"
        /\ requests[d].stage = "committed" => rows[d].status = "QUEUED"

FreshRows == \A d \in Deployments : ~Begun(d) => Fresh(d)

\* The deployment of the run, the next one and the previous one.
RunPlace ==
    /\ RunOpen => rows[cur].status # "ABSENT"
    /\ RunOpen /\ run.pc \notin {"acquire", "prepare", "error_finish", "release"} => Begun(cur)
    /\ run.pc \in Before => Fresh(cur)
    /\ run.next # None =>
         run.pc = "release" /\ Fresh(run.next) /\ rows[run.next].status # "ABSENT"
    /\ run.prev # None => RunOpen /\ run.prev # cur /\ Begun(run.prev)

\* From its creation on the new service runs; from its exposure on it has the URLs.
RunServes ==
    /\ run.pc \in Serving => swarm[cur] = [replicas |-> "up", alias |-> run.slot] /\ Idle(cur)
    /\ run.pc \in Exposed => \A u \in payload.urls : route[u] = run.slot
    /\ run.pc \in Exposed \cup {"expose"} => run.result = "HEALTHY"
    /\ run.pc \in {"remove_own", "scale_back"} => run.result = "FAILED"
    /\ run.pc \in Promoting => run.prev # None

\* Only the previous deployment has the flag, until it loses it; from then on, none but
\* that of the run has.
RunReplaces ==
    /\ run.pc \in Known => \A p \in Production(rows) : p \in {cur, run.prev}
    /\ \/ run.pc \in {"monitor_schedule", "stats_schedule", "set_production",
                      "error_set_production"}
       \/ run.pc \in {"finish", "remove_superseded"} /\ run.result = "HEALTHY"
       => Production(rows) \subseteq {cur}

CoreInv ==
    /\ FlagInv /\ "slow_callback" \notin Races
    /\ RequestsMatch /\ FreshRows /\ RunPlace /\ RunServes /\ RunReplaces

-----------------------------------------------------------------------------
(* Rows do not go back                                                     *)

\* No row is inserted, and none is queued again.
Ages(R, S) ==
    \A e \in Deployments :
        /\ S[e].status = "ABSENT" <=> R[e].status = "ABSENT"
        /\ S[e].status = "QUEUED" => R[e].status = "QUEUED"

LEMMA FlagAges ==
    ASSUME NEW R \in Rows, NEW flagged, \A e \in flagged : R[e].status \in CancellableStatuses
    PROVE  Ages(R, FlagForCancellation(R, flagged))
BY FlagRow DEF Ages, CancellableStatuses, ActiveStatuses

LEMMA StatusAges ==
    ASSUME NEW R \in Rows, NEW d \in Deployments, R[d].status # "ABSENT",
           NEW status \in Statuses \ {"ABSENT", "QUEUED"}
    PROVE  Ages(R, SetStatus(R, d, status)) /\ Ages(R, SaveResult(R, d, status))
BY SetStatusRow, SaveResultRow DEF Ages

LEMMA TransactionsAge ==
    ASSUME NEW R \in Rows, NEW d \in Deployments, R[d].status # "ABSENT"
    PROVE  /\ Ages(R, Prepare(R, d))
           /\ Ages(R, SaveCancelled(R, d))
           /\ Ages(R, SetProduction(R, d))
           /\ Ages(R, RemoveSuperseded(R, d))
           /\ Ages(R, MarkRemoved(R, d))
           /\ Ages(R, CleanupUnclean(R, d))
<1>1. Ages(R, Prepare(R, d)) /\ Ages(R, SaveCancelled(R, d)) /\ Ages(R, SetProduction(R, d))
  BY PrepareRow, SaveCancelledRow, SetProductionRow DEF Ages
<1>2. Ages(R, RemoveSuperseded(R, d)) /\ Ages(R, MarkRemoved(R, d))
  BY RemoveSupersededRow, MarkRemovedRow DEF Ages, ActiveStatuses
<1>3. Ages(R, CleanupUnclean(R, d))
  BY CleanupUncleanRow DEF Ages, Unclean, Existing
<1> QED
  BY <1>1, <1>2, <1>3

LEMMA RunAges ==
    ASSUME CoreInv, RunStep \/ ExecutionTimeout PROVE Ages(rows, rows')
<1>1. /\ rows \in Rows /\ run \in RunType
      /\ RunOpen => cur \in Deployments /\ rows[cur].status # "ABSENT"
      /\ run.prev \in Deployments => rows[run.prev].status # "ABSENT"
  BY DEF CoreInv, FlagInv, TypeInv, TypeOK, ResourceTypes, Rows, RunPlace, Begun, None,
         Deployments
<1>2. UNCHANGED rows => Ages(rows, rows')
  BY DEF Ages
<1>3. {"STARTING", "FAILED", "CANCELLING", run.result} \subseteq Statuses \ {"ABSENT", "QUEUED"}
  BY <1>1 DEF RunType, Statuses
<1>4. ASSUME \/ PrepareDeployment \/ PollHealth \/ FinishDeployment \/ MakeProduction
             \/ RemoveSupersededRows \/ CleanupUncleanDeployments \/ SetCancelling
             \/ SaveCancelledDeployment \/ ErrorFinish
      PROVE  Ages(rows, rows')
  <2>1. RunOpen
    BY <1>4 DEF PrepareDeployment, PollHealth, CheckingHealth, FinishDeployment,
                MakeProduction, RemoveSupersededRows, CleanupUncleanDeployments,
                SetCancelling, SaveCancelledDeployment, ErrorFinish, RunOpen
  <2> QED
    BY <1>1, <1>3, <1>4, <2>1, StatusAges, TransactionsAge
    DEF PrepareDeployment, PollHealth, FinishDeployment, MakeProduction,
        RemoveSupersededRows, CleanupUncleanDeployments, SetCancelling,
        SaveCancelledDeployment, ErrorFinish
<1>5. ASSUME MarkPreviousRemoved PROVE Ages(rows, rows')
  BY <1>1, <1>5, TransactionsAge
  DEF MarkPreviousRemoved, CoreInv, RunServes, Promoting, RunType, Maybe
<1>6. ASSUME PreviousIsDown \/ ScaleBackPrevious \/ CancelScaleBack
      PROVE  Ages(rows, rows')
  <2>1. CASE PreviousIsDown
    BY <1>1, <2>1, PutToSleepRow DEF PreviousIsDown, Ages
  <2>2. CASE ScaleBackPrevious
    BY <1>1, <1>2, <2>2, ScaleBackRow DEF ScaleBackPrevious, ScaleBack, Ages
  <2>3. CASE CancelScaleBack
    BY <1>1, <1>2, <2>3, ScaleBackRow DEF CancelScaleBack, ScaleBack, Ages
  <2> QED
    BY <1>6, <2>1, <2>2, <2>3
<1>7. ASSUME QueueNext PROVE Ages(rows, rows')
  <2>1. PICK d, slot : rows' = rows \/ rows' = [rows EXCEPT ![d].slot = slot]
    BY <1>7 DEF QueueNext, GetNextQueued
  <2> QED
    BY <1>1, <1>2, <2>1 DEF Ages, Rows, RowType
<1> QED
  BY <1>2, <1>4, <1>5, <1>6, <1>7, OtherStepsKeepRows

LEMMA ToggleAges ==
    ASSUME CoreInv,
           RequestToggle \/ ToggleStep \/ \E d \in Deployments : MonitorDeployment(d)
    PROVE  Ages(rows, rows')
<1>1. /\ rows \in Rows
      /\ toggle.pc # "idle" => toggle.dep \in Deployments /\ Begun(toggle.dep)
      /\ \A d \in Deployments : rows[d].production => Begun(d)
  BY DEF CoreInv, FlagInv, TypeInv, TypeOK, ResourceTypes, Rows, FreshRows, Fresh, Idle
<1>2. ASSUME ToggleStart \/ ToggleIsDown PROVE Ages(rows, rows')
  <2>1. CASE ToggleStart
    BY <1>1, <2>1, ScaleBackRow DEF ToggleStart, ScaleBack, Ages
  <2>2. CASE ToggleIsDown
    BY <1>1, <2>2, PutToSleepRow DEF ToggleIsDown, Ages, Begun
  <2> QED
    BY <1>2, <2>1, <2>2
<1>3. ASSUME NEW d \in Deployments, MonitorDeployment(d) PROVE Ages(rows, rows')
  <2>1. PICK status \in MonitorResults :
          rows' = [rows EXCEPT ![d].status = status, ![d].marker = "other"]
    BY <1>3 DEF MonitorDeployment
  <2>2. status \notin {"ABSENT", "QUEUED"} /\ Begun(d)
    BY <1>1, <1>3, FaultAssumption DEF MonitorDeployment
  <2> QED
    BY <1>1, <2>1, <2>2 DEF Ages, Begun, Rows, RowType
<1> QED
  BY <1>2, <1>3
  DEF ToggleStep, RequestToggle, ToggleStop, ToggleRetryStop, resources, database, Ages

LEMMA CancelAges ==
    ASSUME CoreInv, CancelRequestStep PROVE Ages(rows, rows')
<1>1. /\ rows \in Rows /\ "slow_cancel" \notin Races
      /\ cancelReads = [d \in Deployments |-> AbsentRow]
  BY DEF CoreInv, FlagInv, TypeInv, TypeOK, ResourceTypes, Rows
<1>2. ASSUME NEW d \in Deployments, CancelDeployment(d) PROVE Ages(rows, rows')
  BY <1>1, <1>2 DEF CancelDeployment, Cancellable, CancelledRow, CancellableStatuses,
                    ActiveStatuses, Ages, Rows, RowType
<1>3. ASSUME NEW b \in BOOLEAN, CleanupQueue(b) PROVE Ages(rows, rows')
  <2>1. PICK spared : rows' = FlagForCancellation(rows, FlaggedRows(rows, b, spared))
    BY <1>3 DEF CleanupQueue
  <2> QED
    BY <1>1, <2>1, FlagAges, FlaggedRow
<1> QED
  BY <1>1, <1>2, <1>3 DEF CancelRequestStep, ReadForCancel, SaveCancel

-----------------------------------------------------------------------------
(* What a step does to the service of a deployment                         *)

LEMMA RunSwarm ==
    ASSUME TypeInv, RunStep \/ ExecutionTimeout, NEW e \in Deployments
    PROVE  \/ swarm'[e] = swarm[e]
           \/ /\ CreateService /\ e = cur
              /\ swarm'[e] = [replicas |-> "up", alias |-> run.slot]
           \/ /\ RemoveOwnService \/ CancelService
              /\ e = cur /\ swarm'[e].replicas = "absent"
           \/ /\ RemovePreviousService /\ e = run.prev /\ swarm'[e].replicas = "absent"
           \/ /\ ScaleDownPrevious \/ RetryScaleDown
              /\ e = run.prev /\ swarm[e].replicas # "absent" /\ swarm'[e].replicas = "down"
           \/ /\ ScaleBackPrevious \/ CancelScaleBack
              /\ e = run.prev /\ swarm[e].replicas # "absent" /\ swarm'[e].replicas = "up"
              /\ ~LeftAsleep(e, FALSE)
<1>1. swarm \in [Deployments -> SwarmType] /\ run \in RunType
  BY DEF TypeInv, TypeOK, ResourceTypes
<1>2. CASE CreateService
  BY <1>1, <1>2 DEF CreateService
<1>3. CASE RemoveOwnService \/ CancelService \/ RemovePreviousService
  BY <1>1, <1>3
  DEF RemoveOwnService, CancelService, RemovePreviousService, RemoveService, SetReplicas,
      SwarmType
<1>4. CASE ScaleDownPrevious \/ RetryScaleDown
  BY <1>1, <1>4 DEF ScaleDownPrevious, RetryScaleDown, SetReplicas, SwarmType
<1>5. CASE ScaleBackPrevious \/ CancelScaleBack
  BY <1>1, <1>5 DEF ScaleBackPrevious, CancelScaleBack, ScaleBack, SetReplicas, SwarmType
<1>6. CASE ~(\/ CreateService \/ RemoveOwnService \/ CancelService \/ RemovePreviousService
             \/ ScaleDownPrevious \/ RetryScaleDown \/ ScaleBackPrevious \/ CancelScaleBack)
  <2>1. UNCHANGED swarm
    BY <1>6
    DEF RunStep, DeployStep, CancellationStep, FailureStep, resources, docker,
        AcquireSemaphore, PrepareDeployment, GetPreviousProduction, CreateVolumes,
        CreateConfigs, SkipScaleDown, PreviousIsDown, PullImage, PollHealth,
        HealthcheckEnds, Expose, DeletePreviousSchedules, RemoveOldConfigs,
        RemoveOldVolumes, RemoveOldUrls, MarkPreviousRemoved, CreateMonitorSchedule,
        CreateStatsSchedule, FinishDeployment, MakeProduction, RemoveSupersededRows,
        CleanupUncleanDeployments, QueueNext, Release, BeginCancellation, SetCancelling,
        ResetUrls, CancelGetPrevious, DeleteCreatedConfigs, DeleteCreatedVolumes,
        SaveCancelledDeployment, Fail, SwallowedFailure, ErrorFinish, FinishAgain,
        ExecutionTimeout
  <2> QED
    BY <2>1
<1> QED
  BY <1>2, <1>3, <1>4, <1>5, <1>6

\* No step of a run but the update of finish_and_save_deployment gives the flag.
LEMMA RunKeepsFlags ==
    ASSUME TypeInv, RunStep \/ ExecutionTimeout, ~MakeProduction
    PROVE  Keeps(rows, rows')
<1>1. rows \in Rows
  BY DEF TypeInv, TypeOK, ResourceTypes, Rows
<1>2. CASE \/ PrepareDeployment \/ PollHealth \/ SetCancelling \/ SaveCancelledDeployment
           \/ MarkPreviousRemoved \/ CleanupUncleanDeployments
           \/ FinishDeployment \/ RemoveSupersededRows \/ ErrorFinish
  BY <1>1, <1>2, TransactionsKeep
  DEF PrepareDeployment, PollHealth, SetCancelling, SaveCancelledDeployment,
      MarkPreviousRemoved, CleanupUncleanDeployments, FinishDeployment,
      RemoveSupersededRows, ErrorFinish
<1>3. CASE PreviousIsDown \/ ScaleBackPrevious \/ CancelScaleBack
  BY <1>1, <1>3, PutToSleepKeeps, ScaleBackKeeps
  DEF PreviousIsDown, ScaleBackPrevious, CancelScaleBack, Keeps
<1>4. CASE QueueNext
  <2>1. PICK d, slot : rows' = rows \/ rows' = [rows EXCEPT ![d].slot = slot]
    BY <1>4 DEF QueueNext, GetNextQueued
  <2> QED
    BY <1>1, <2>1 DEF Keeps, Rows, RowType
<1> QED
  BY <1>2, <1>3, <1>4, OtherStepsKeepRows DEF Keeps

\* A run leaves the toggles alone.
LEMMA RunKeepsToggle ==
    ASSUME RunStep \/ ExecutionTimeout
    PROVE  UNCHANGED <<toggle, requests>>
BY DEF RunStep, DeployStep, CancellationStep, FailureStep, ExecutionTimeout, OutsideRun,
       requestVars, AcquireSemaphore, PrepareDeployment, GetPreviousProduction, CreateVolumes,
       CreateConfigs, SkipScaleDown, ScaleDownPrevious, PreviousIsDown, RetryScaleDown,
       PullImage, CreateService, PollHealth, HealthcheckEnds, Expose,
       DeletePreviousSchedules, RemovePreviousService, RemoveOldConfigs, RemoveOldVolumes,
       RemoveOldUrls, MarkPreviousRemoved, CreateMonitorSchedule, CreateStatsSchedule,
       RemoveOwnService, ScaleBackPrevious, FinishDeployment, MakeProduction,
       RemoveSupersededRows, CleanupUncleanDeployments, QueueNext, Release,
       BeginCancellation, SetCancelling, ResetUrls, CancelService, CancelGetPrevious,
       CancelScaleBack, DeleteCreatedConfigs, DeleteCreatedVolumes,
       SaveCancelledDeployment, Fail, SwallowedFailure, ErrorFinish, FinishAgain

LEMMA RunKeepsProduction ==
    ASSUME CoreInv, RunStep \/ ExecutionTimeout, ~MakeProduction
    PROVE  Production(rows') \subseteq Production(rows)
<1>1. Keeps(rows, rows') /\ Ages(rows, rows')
  BY RunKeepsFlags, RunAges DEF CoreInv, FlagInv
<1> QED
  BY <1>1 DEF Keeps, Ages, Production, Existing

LEMMA RunKeepsFresh ==
    ASSUME CoreInv, RunStep \/ ExecutionTimeout, NEW d \in Deployments
    PROVE  /\ Idle(d) /\ ~(MakeProduction /\ d = cur) => Idle(d)'
           /\ Fresh(d) /\ ~((MakeProduction \/ CreateService) /\ d = cur) => Fresh(d)'
<1>1. TypeInv /\ rows \in Rows
  BY DEF CoreInv, FlagInv, TypeInv, TypeOK, ResourceTypes, Rows
<1>2. Idle(d) /\ ~(MakeProduction /\ d = cur) => Idle(d)'
  <2>1. rows'[d].production => rows[d].production \/ (MakeProduction /\ d = cur)
    <3>1. CASE MakeProduction
      BY <1>1, <3>1, SetProductionRow DEF MakeProduction
    <3>2. CASE ~MakeProduction
      BY <1>1, <3>2, RunKeepsFlags DEF Keeps
    <3> QED
      BY <3>1, <3>2
  <2> QED
    BY <2>1, RunKeepsToggle DEF Idle
<1>3. swarm[d].replicas = "absent" /\ ~(CreateService /\ d = cur)
        => swarm'[d].replicas = "absent"
  BY <1>1, RunSwarm
<1> QED
  BY <1>2, <1>3 DEF Fresh

LEMMA RunKeepsFreshRows ==
    ASSUME CoreInv, RunStep \/ ExecutionTimeout PROVE FreshRows'
<1> SUFFICES ASSUME NEW d \in Deployments, ~Begun(d)' PROVE Fresh(d)'
  BY DEF FreshRows
<1>1. ~Begun(d) /\ Fresh(d)
  BY RunAges DEF Ages, Begun, CoreInv, FreshRows
<1>2. MakeProduction \/ CreateService => Begun(cur)
  BY DEF MakeProduction, CreateService, CoreInv, RunPlace, RunOpen
<1> QED
  BY <1>1, <1>2, RunKeepsFresh

-----------------------------------------------------------------------------
(* Where a step of a run leads                                             *)

\* The steps before the row of the deployment is known to have left the queue.
Unknown == {"acquire", "prepare", "error_finish", "release"}

\* The steps at which no other deployment has the flag, whatever the result.
Alone == {"monitor_schedule", "stats_schedule", "set_production", "error_set_production"}

\* The run goes on with the same deployment, and enters a phase by the action that opens
\* it only.
GoesOn ==
    /\ RunOpen /\ RunOpen' /\ cur' = cur /\ run'.slot = run.slot
    /\ run'.prev = run.prev \/ GetPreviousProduction \/ CancelGetPrevious
    /\ run'.next = run.next \/ QueueNext
    /\ run'.result = run.result \/ PullImage \/ HealthcheckEnds

EntersPhases ==
    /\ run'.pc \in Unknown \/ run.pc \notin Unknown \/ PrepareDeployment \/ ErrorFinish
    /\ run'.pc \in Before => run.pc \in Before /\ ~CreateService
    /\ run'.pc \in Serving => run.pc \in Serving \/ CreateService
    /\ run'.pc \in Exposed => run.pc \in Exposed \/ Expose
    /\ run'.pc \in Promoting =>
         run.pc \in Promoting \/ (DeletePreviousSchedules /\ run.prev # None)
    /\ run'.pc \in Known => run.pc \in Known \/ GetPreviousProduction

LEMMA RunFlow ==
    ASSUME TypeInv, RunStep \/ ExecutionTimeout
    PROVE  run' = NoRun \/ Release \/ (GoesOn /\ EntersPhases)
<1>1. run \in RunType
  BY DEF TypeInv, TypeOK
<1> DEFINE Goes == GoesOn /\ EntersPhases
<1> USE DEF Moves, GoesOn, EntersPhases, RunOpen, Unknown, Before, Serving, Exposed, Promoting,
            Known
<1>2. ASSUME \/ AcquireSemaphore \/ PrepareDeployment \/ GetPreviousProduction
             \/ CreateVolumes \/ CreateConfigs \/ SkipScaleDown \/ ScaleDownPrevious
             \/ PreviousIsDown \/ RetryScaleDown \/ PullImage \/ CreateService
      PROVE  Goes
  BY <1>1, <1>2, ActivityMoves DEF cur
<1>3. ASSUME \/ PollHealth \/ HealthcheckEnds \/ Expose \/ DeletePreviousSchedules
             \/ RemovePreviousService \/ RemoveOldConfigs \/ RemoveOldVolumes
             \/ RemoveOldUrls \/ MarkPreviousRemoved \/ CreateMonitorSchedule
             \/ CreateStatsSchedule \/ RemoveOwnService \/ ScaleBackPrevious
      PROVE  Goes
  BY <1>1, <1>3, PromotionMoves, ActivityMoves
<1>4. ASSUME \/ FinishDeployment \/ MakeProduction \/ RemoveSupersededRows
             \/ CleanupUncleanDeployments \/ QueueNext
      PROVE  Goes
  BY <1>1, <1>4, EndMoves
<1>5. ASSUME \/ BeginCancellation \/ SetCancelling \/ ResetUrls \/ CancelService
             \/ CancelGetPrevious \/ CancelScaleBack \/ DeleteCreatedConfigs
             \/ DeleteCreatedVolumes \/ SaveCancelledDeployment
      PROVE  Goes
  BY <1>1, <1>5, CancellationMoves DEF AtCancellationPoint, LastCompleted
<1>6. ASSUME SwallowedFailure \/ ErrorFinish \/ FinishAgain PROVE Goes
  BY <1>1, <1>6, FailureMoves, ActivityMoves
<1>7. ASSUME Fail PROVE Goes \/ run' = NoRun
  <2>1. run.pc # "closed"
    BY <1>7, FaultAssumption DEF Fail, Refused
  <2> QED
    BY <1>1, <1>7, <2>1, FailureMoves DEF ErrorSteps
<1> QED
  BY <1>2, <1>3, <1>4, <1>5, <1>6, <1>7
  DEF RunStep, DeployStep, CancellationStep, FailureStep, ExecutionTimeout

\* A run sends the URLs of its deployment to its slot, and takes from it only others,
\* unless it is cancelled.
LEMMA RunRoutes ==
    ASSUME TypeInv, RunStep \/ ExecutionTimeout, ~ResetUrls, NEW u \in payload.urls, RunOpen
    PROVE  /\ UNCHANGED snapshot
           /\ route'[u] = route[u] \/ Expose
           /\ Expose => route'[u] = run.slot
<1>1. u \in Urls /\ route \in [Urls -> Slots \cup {"none"}]
  BY DEF TypeInv, TypeOK, ResourceTypes, SnapshotType, payload
<1>2. ASSUME Expose PROVE UNCHANGED snapshot /\ route'[u] = run.slot
  BY <1>1, <1>2 DEF Expose, Dial, database
<1>3. ASSUME RemoveOldUrls PROVE UNCHANGED snapshot /\ route'[u] = route[u]
  BY <1>1, <1>3 DEF RemoveOldUrls, Dial, database
<1>4. ASSUME ~Expose, ~RemoveOldUrls PROVE UNCHANGED <<snapshot, route>>
  BY <1>4
  DEF RunStep, DeployStep, CancellationStep, FailureStep, ExecutionTimeout, resources,
      database, Immutable, AcquireSemaphore, PrepareDeployment, GetPreviousProduction,
      CreateVolumes, CreateConfigs, SkipScaleDown, ScaleDownPrevious, PreviousIsDown,
      RetryScaleDown, PullImage, CreateService, PollHealth, HealthcheckEnds,
      DeletePreviousSchedules, RemovePreviousService, RemoveOldConfigs, RemoveOldVolumes,
      MarkPreviousRemoved, CreateMonitorSchedule, CreateStatsSchedule, RemoveOwnService,
      ScaleBackPrevious, FinishDeployment, MakeProduction, RemoveSupersededRows,
      CleanupUncleanDeployments, QueueNext, Release, BeginCancellation, SetCancelling,
      CancelService, CancelGetPrevious, CancelScaleBack, DeleteCreatedConfigs,
      DeleteCreatedVolumes, SaveCancelledDeployment, Fail, SwallowedFailure, ErrorFinish,
      FinishAgain
<1> QED
  BY <1>2, <1>3, <1>4 DEF Expose

\* Only the release follows the choice of the next deployment, and no failure undoes it.
LEMMA NextLeaves ==
    ASSUME TypeInv, RunStep \/ ExecutionTimeout, run.pc = "release", ~Release
    PROVE  run' = NoRun
<1>1. run \in RunType
  BY DEF TypeInv, TypeOK
<1>2. ~DeployStep
  BY <1>1, ActivityMoves, PromotionMoves, EndMoves DEF DeployStep, Moves
<1>3. ~CancellationStep /\ ~SwallowedFailure /\ ~ErrorFinish /\ ~FinishAgain
  BY <1>1, CancellationMoves, FailureMoves
  DEF CancellationStep, Moves, AtCancellationPoint, LastCompleted
<1> QED
  BY <1>2, <1>3 DEF RunStep, FailureStep, Fail, AfterActivityError, ExecutionTimeout

LEMMA SnapshotStays ==
    ASSUME RunStep \/ ExecutionTimeout PROVE UNCHANGED snapshot
BY DEF RunStep, DeployStep, CancellationStep, FailureStep, ExecutionTimeout, resources,
      database, Immutable, AcquireSemaphore, PrepareDeployment, GetPreviousProduction,
      CreateVolumes, CreateConfigs, SkipScaleDown, ScaleDownPrevious, PreviousIsDown,
      RetryScaleDown, PullImage, CreateService, PollHealth, HealthcheckEnds, Expose,
      DeletePreviousSchedules, RemovePreviousService, RemoveOldConfigs, RemoveOldVolumes,
      RemoveOldUrls, ResetUrls,
      MarkPreviousRemoved, CreateMonitorSchedule, CreateStatsSchedule, RemoveOwnService,
      ScaleBackPrevious, FinishDeployment, MakeProduction, RemoveSupersededRows,
      CleanupUncleanDeployments, QueueNext, Release, BeginCancellation, SetCancelling,
      CancelService, CancelGetPrevious, CancelScaleBack, DeleteCreatedConfigs,
      DeleteCreatedVolumes, SaveCancelledDeployment, Fail, SwallowedFailure, ErrorFinish,
      FinishAgain

\* The steps at which no other deployment has the flag.
Cleared ==
    \/ run.pc \in Alone
    \/ run.pc \in {"finish", "remove_superseded"} /\ run.result = "HEALTHY"

\* The result is that of the pull and of the health check; the flags are cleared by the
\* cleanup of the previous deployment and by the last update of a result.
LEMMA ResultKept ==
    ASSUME TypeInv, RunServes, RunStep \/ ExecutionTimeout, GoesOn
    PROVE  /\ run'.pc \in Exposed \cup {"expose"} => run'.result = "HEALTHY"
           /\ run'.pc \in {"remove_own", "scale_back"} => run'.result = "FAILED"
           /\ Cleared' =>
                \/ Cleared \/ MakeProduction \/ MarkPreviousRemoved
                \/ DeletePreviousSchedules /\ run.prev = None
                \/ (FinishDeployment \/ ErrorFinish) /\ Existing(rows) = {cur}
<1> DEFINE Results == /\ run'.pc \in Exposed \cup {"expose"} => run'.result = "HEALTHY"
                      /\ run'.pc \in {"remove_own", "scale_back"} => run'.result = "FAILED"
           Clears == Cleared' =>
                       \/ Cleared \/ MakeProduction \/ MarkPreviousRemoved
                       \/ DeletePreviousSchedules /\ run.prev = None
                       \/ (FinishDeployment \/ ErrorFinish) /\ Existing(rows) = {cur}
<1>1. /\ run \in RunType
      /\ run.pc \in Exposed \cup {"expose"} => run.result = "HEALTHY"
      /\ run.pc \in {"remove_own", "scale_back"} => run.result = "FAILED"
  BY DEF TypeInv, TypeOK, RunServes
<1> USE DEF Moves, Exposed, Promoting, Cleared, Alone, BecomesProduction
<1>2. ASSUME \/ AcquireSemaphore \/ PrepareDeployment \/ GetPreviousProduction
             \/ CreateVolumes \/ CreateConfigs \/ SkipScaleDown \/ ScaleDownPrevious
             \/ PreviousIsDown \/ RetryScaleDown \/ PullImage \/ CreateService
      PROVE  Results /\ Clears
  BY <1>1, <1>2, ActivityMoves
<1>3. ASSUME \/ PollHealth \/ HealthcheckEnds \/ Expose \/ DeletePreviousSchedules
             \/ RemovePreviousService \/ RemoveOldConfigs \/ RemoveOldVolumes
             \/ RemoveOldUrls \/ MarkPreviousRemoved \/ CreateMonitorSchedule
             \/ CreateStatsSchedule \/ RemoveOwnService \/ ScaleBackPrevious
      PROVE  Results /\ Clears
  BY <1>1, <1>3, PromotionMoves
<1>4. ASSUME \/ FinishDeployment \/ MakeProduction \/ RemoveSupersededRows
             \/ CleanupUncleanDeployments \/ QueueNext
      PROVE  Results /\ Clears
  BY <1>1, <1>4, EndMoves
<1>5. ASSUME \/ BeginCancellation \/ SetCancelling \/ ResetUrls \/ CancelService
             \/ CancelGetPrevious \/ CancelScaleBack \/ DeleteCreatedConfigs
             \/ DeleteCreatedVolumes \/ SaveCancelledDeployment
      PROVE  Results /\ Clears
  BY <1>1, <1>5, CancellationMoves
<1>6. ASSUME Fail \/ SwallowedFailure \/ ErrorFinish \/ FinishAgain
      PROVE  Results /\ Clears
  BY <1>1, <1>6, FailureMoves, NoRunClosed
<1>7. ASSUME Release \/ ExecutionTimeout PROVE Results /\ Clears
  <2>1. run'.pc \in {"closed", "acquire"}
    BY <1>7 DEF Release, ExecutionTimeout, NoRun, NewRun
  <2> QED
    BY <2>1
<1> QED
  BY <1>2, <1>3, <1>4, <1>5, <1>6, <1>7
  DEF RunStep, DeployStep, CancellationStep, FailureStep

LEMMA RunKeepsPlace ==
    ASSUME CoreInv, RunStep \/ ExecutionTimeout PROVE RunPlace'
<1>1. /\ TypeInv /\ rows \in Rows /\ run \in RunType /\ RunPlace /\ FreshRows
      /\ RunOpen => cur \in Deployments
      /\ run.prev \in Maybe(Deployments) /\ None \notin Deployments
  BY DEF CoreInv, FlagInv, TypeInv, TypeOK, ResourceTypes, RunType, Rows, None, Deployments
<1>2. Ages(rows, rows')
  BY RunAges
<1>3. CASE run' = NoRun
  BY <1>3 DEF NoRun, NewRun, RunPlace, RunOpen, Before
<1>4. CASE Release
  <2>1. CASE run.next = None
    BY <1>3, <1>4, <2>1 DEF Release
  <2>2. CASE run.next # None
    <3>1. PICK n \in Deployments : n = run.next
      BY <1>1, <2>2 DEF RunType, Maybe
    <3>2. Fresh(n) /\ rows[n].status # "ABSENT"
      BY <1>1, <2>2, <3>1 DEF RunPlace
    <3>3. Fresh(n)' /\ rows'[n].status # "ABSENT"
      BY <1>4, <3>2 DEF Release, Fresh, Idle, OutsideRun, resources, database, docker
    <3>4. /\ run'.pc = "acquire" /\ cur' = n /\ run'.next = None
          /\ run'.prev = None
      BY <1>4, <2>2, <3>1 DEF Release, NewRun, cur
    <3>5. Fresh(cur)' /\ rows'[cur'].status # "ABSENT"
      BY <3>3, <3>4 DEF Fresh, Idle
    <3> QED
      BY <3>4, <3>5 DEF RunPlace, RunOpen
  <2> QED
    BY <2>1, <2>2
<1>5. CASE GoesOn /\ EntersPhases
  <2>1. cur \in Deployments /\ cur' = cur /\ RunOpen /\ RunOpen'
    BY <1>1, <1>5 DEF GoesOn
  <2>2. rows'[cur].status # "ABSENT"
    BY <1>1, <1>2, <2>1 DEF RunPlace, Ages
  <2>3. run'.pc \notin Unknown => Begun(cur)'
    <3>1. ASSUME PrepareDeployment PROVE rows'[cur].status # "QUEUED"
      BY <1>1, <2>1, <3>1, PrepareRow DEF PrepareDeployment
    <3>2. ASSUME ErrorFinish PROVE rows'[cur].status # "QUEUED"
      BY <1>1, <2>1, <3>2, SaveResultRow DEF ErrorFinish
    <3>3. ASSUME run.pc \notin Unknown PROVE rows'[cur].status # "QUEUED"
      BY <1>1, <1>2, <2>1, <3>3 DEF RunPlace, Ages, Begun, Unknown
    <3> QED
      BY <1>5, <2>1, <2>2, <3>1, <3>2, <3>3 DEF EntersPhases, Begun
  <2>4. run'.pc \in Before => Fresh(cur)'
    <3>1. run'.pc \in Before => Fresh(cur) /\ ~CreateService /\ ~MakeProduction
      BY <1>1, <1>5 DEF EntersPhases, RunPlace, MakeProduction, Before
    <3>2. Fresh(cur) /\ ~CreateService /\ ~MakeProduction => Fresh(cur)'
      <4>1. Fresh(cur) /\ ~CreateService /\ ~MakeProduction
              => swarm'[cur].replicas = "absent" /\ Idle(cur)'
        BY <2>1, RunKeepsFresh DEF Fresh
      <4> QED
        BY <2>1, <4>1 DEF Fresh
    <3> QED
      BY <3>1, <3>2
  <2>5. run'.next # None =>
          /\ run'.pc = "release" /\ Fresh(run.next)' /\ rows'[run'.next].status # "ABSENT"
    <3>1. CASE QueueNext
      <4>1. run.next = None
        BY <1>1, <3>1 DEF RunPlace, QueueNext
      <4>2. PICK d \in Maybe(Deployments) :
              /\ IsOldest(d, WithStatus(rows, {"QUEUED"}))
              /\ run'.pc = "release"
              /\ run'.next = d
        BY <1>1, <3>1, <4>1 DEF QueueNext, GetNextQueued, Goto, RunType
      <4>3. ASSUME d # None PROVE d \in Deployments /\ rows[d].status = "QUEUED"
        BY <4>2, <4>3 DEF IsOldest, WithStatus
      <4>4. ASSUME d # None PROVE Fresh(d)' /\ rows'[d].status # "ABSENT"
        <5>1. Fresh(d) /\ d \in Deployments
          BY <1>1, <4>3, <4>4 DEF FreshRows, Begun
        <5>2. ~MakeProduction /\ ~CreateService
          BY <3>1 DEF QueueNext, MakeProduction, CreateService
        <5> QED
          BY <1>2, <4>3, <4>4, <5>1, <5>2, RunKeepsFresh DEF Ages
      <4>5. d # None => Fresh(run.next)'
        BY <4>2, <4>4 DEF Fresh, Idle
      <4> QED
        BY <4>2, <4>4, <4>5
    <3>2. CASE ~QueueNext
      <4>1. run'.next = run.next
        BY <1>5, <3>2 DEF GoesOn
      <4>2. CASE run.next = None
        BY <4>1, <4>2
      <4>3. CASE run.next # None
        BY <1>1, <1>3, <1>4, <1>5, <3>2, <4>3, NextLeaves DEF RunPlace, GoesOn, RunOpen, NoRun, NewRun
      <4> QED
        BY <4>2, <4>3
    <3> QED
      BY <3>1, <3>2
  <2>6. run'.prev # None => run'.prev # cur /\ Begun(run.prev)'
    <3>1. CASE GetPreviousProduction \/ CancelGetPrevious
      <4>1. PICK p \in Maybe(Deployments) : IsPreviousProduction(p) /\ run'.prev = p
        BY <1>1, <3>1 DEF GetPreviousProduction, CancelGetPrevious, RunType
      <4>2. ASSUME p # None PROVE p \in Deployments /\ rows[p].production /\ p # cur
        BY <4>1, <4>2 DEF IsPreviousProduction, IsNewest, Production, Existing
      <4>3. ASSUME p # None PROVE Begun(p)
        BY <1>1, <4>2, <4>3 DEF FreshRows, Fresh, Idle
      <4>4. ASSUME p # None PROVE Begun(p)'
        BY <1>2, <4>2, <4>3, <4>4 DEF Begun, Ages
      <4> QED
        BY <4>1, <4>2, <4>4 DEF Begun
    <3>2. CASE run'.prev = run.prev
      <4>1. run.prev # None => run.prev \in Deployments /\ run.prev # cur /\ Begun(run.prev)
        BY <1>1 DEF RunPlace, Maybe
      <4> QED
        BY <1>2, <3>2, <4>1 DEF Begun, Ages
    <3> QED
      BY <1>5, <3>1, <3>2 DEF GoesOn
  <2> QED
    BY <2>1, <2>2, <2>3, <2>4, <2>5, <2>6 DEF RunPlace, Begun, Unknown
<1> QED
  BY <1>1, <1>3, <1>4, <1>5, RunFlow

LEMMA RunKeepsServing ==
    ASSUME CoreInv, RunStep \/ ExecutionTimeout, GoesOn, EntersPhases,
           run'.pc \in Serving
    PROVE  swarm'[cur] = [replicas |-> "up", alias |-> run.slot] /\ Idle(cur)'
<1>1. /\ TypeInv /\ RunPlace /\ RunServes /\ swarm \in [Deployments -> SwarmType]
      /\ cur \in Deployments /\ cur' = cur /\ cur # run.prev
  BY DEF CoreInv, FlagInv, TypeInv, TypeOK, ResourceTypes, GoesOn, RunPlace, None,
         Deployments
<1>2. Idle(cur)
  BY <1>1 DEF EntersPhases, RunServes, RunPlace, Fresh, CreateService, Before
<1>3. ~MakeProduction
  BY DEF EntersPhases, MakeProduction, CreateService, Serving, Exposed, Promoting
<1>4. Idle(cur)'
  BY <1>1, <1>2, <1>3, RunKeepsFresh DEF Idle
<1>5. CASE CreateService
  BY <1>1, <1>4, <1>5 DEF CreateService, RunPlace, Before, Fresh, SwarmType
<1>6. CASE ~CreateService
  <2>1. run.pc \in Serving
    BY <1>6 DEF EntersPhases
  <2>2. ~RemoveOwnService /\ ~CancelService
    BY <2>1 DEF RemoveOwnService, CancelService, Serving, Exposed, Promoting
  <2>3. swarm'[cur] = swarm[cur]
    BY <1>1, <1>6, <2>2, RunSwarm
  <2> QED
    BY <1>1, <1>4, <2>1, <2>3 DEF RunServes
<1> QED
  BY <1>4, <1>5, <1>6

LEMMA RunKeepsExposure ==
    ASSUME CoreInv, RunStep \/ ExecutionTimeout, GoesOn, EntersPhases,
           run'.pc \in Exposed
    PROVE  UNCHANGED snapshot /\ \A u \in payload.urls : route'[u] = run.slot
<1>1. TypeInv /\ RunServes /\ RunOpen
  BY DEF CoreInv, FlagInv, GoesOn
<1>2. ~ResetUrls
  BY DEF EntersPhases, ResetUrls, Expose, Exposed, Promoting
<1>3. ASSUME NEW u \in payload.urls PROVE UNCHANGED snapshot /\ route'[u] = run.slot
  BY <1>1, <1>2, RunRoutes DEF EntersPhases, RunServes
<1>4. UNCHANGED snapshot
  BY SnapshotStays
<1> QED
  BY <1>3, <1>4

LEMMA RunKeepsServes ==
    ASSUME CoreInv, RunStep \/ ExecutionTimeout PROVE RunServes'
<1>1. /\ TypeInv /\ RunPlace /\ RunServes /\ run \in RunType
      /\ run.next # None => run.pc = "release"
  BY DEF CoreInv, FlagInv, TypeInv, TypeOK, RunPlace
<1>2. CASE run' = NoRun \/ Release
  <2>1. run'.pc \in {"closed", "acquire"}
    BY <1>2 DEF Release, NoRun, NewRun
  <2> QED
    BY <2>1 DEF RunServes, Serving, Exposed, Promoting
<1>3. CASE GoesOn /\ EntersPhases
  <2>1. cur' = cur /\ run'.slot = run.slot
    BY <1>3 DEF GoesOn
  <2>2. run'.pc \in Serving => (swarm[cur] = [replicas |-> "up", alias |-> run.slot])'
                               /\ Idle(cur)'
    BY <1>3, <2>1, RunKeepsServing
  <2>3. run'.pc \in Exposed => (\A u \in payload.urls : route[u] = run.slot)'
    BY <1>3, <2>1, RunKeepsExposure DEF payload
  <2>4. run'.pc \in Exposed \cup {"expose"} => run'.result = "HEALTHY"
    BY <1>1, <1>3, ResultKept DEF Exposed, Promoting
  <2>5. run'.pc \in {"remove_own", "scale_back"} => run'.result = "FAILED"
    BY <1>1, <1>3, ResultKept
  <2>6. run'.pc \in Promoting => run'.prev # None
    BY <1>1, <1>3 DEF EntersPhases, RunServes, GoesOn, GetPreviousProduction,
                      CancelGetPrevious, DeletePreviousSchedules, Promoting
  <2> QED
    BY <2>2, <2>3, <2>4, <2>5, <2>6 DEF RunServes
<1> QED
  BY <1>1, <1>2, <1>3, RunFlow

LEMMA RunKeepsReplaces ==
    ASSUME CoreInv, RunStep \/ ExecutionTimeout PROVE RunReplaces'
<1>1. /\ TypeInv /\ rows \in Rows /\ OneFlag(rows) /\ RunServes /\ RunReplaces
      /\ run \in RunType /\ None \notin Deployments
  BY DEF CoreInv, FlagInv, TypeInv, TypeOK, ResourceTypes, Rows, None, Deployments
<1>2. CASE run' = NoRun \/ Release
  <2>1. run'.pc \in {"closed", "acquire"}
    BY <1>2 DEF Release, NoRun, NewRun
  <2> QED
    BY <2>1 DEF RunReplaces, Known, Promoting
<1>3. CASE GoesOn /\ EntersPhases
  <2>1. cur' = cur
    BY <1>3 DEF GoesOn
  <2>2. run'.pc \in Known => (\A p \in Production(rows) : p \in {cur, run.prev})'
    <3>1. CASE GetPreviousProduction
      <4>1. PICK q \in Maybe(Deployments) : IsPreviousProduction(q) /\ run'.prev = q
        BY <1>1, <3>1 DEF GetPreviousProduction, RunType
      <4>2. ASSUME NEW p \in Production(rows) PROVE p \in {cur, q}
        BY <1>1, <4>1 DEF IsPreviousProduction, IsNewest, OneFlag, Production, Existing
      <4>3. rows' = rows
        BY <3>1 DEF GetPreviousProduction, resources, database
      <4> QED
        BY <2>1, <4>1, <4>2, <4>3
    <3>2. CASE run'.pc \in Known /\ ~GetPreviousProduction
      <4>1. run.pc \in Known /\ run'.prev = run.prev
        BY <1>3, <3>2 DEF EntersPhases, GoesOn, CancelGetPrevious, Known, Promoting
      <4>2. ~MakeProduction
        BY <4>1 DEF MakeProduction, Known, Promoting
      <4>3. Production(rows') \subseteq Production(rows)
        BY <1>1, <4>2, RunKeepsProduction
      <4> QED
        BY <1>1, <2>1, <4>1, <4>3 DEF RunReplaces
    <3> QED
      BY <3>1, <3>2
  <2>3. Cleared' => Production(rows') \subseteq {cur}
    <3>1. CASE MakeProduction
      BY <1>1, <3>1, SetProductionRow DEF MakeProduction, Production, Existing
    <3>2. CASE MarkPreviousRemoved
      <4>1. run.pc \in Known /\ rows' = MarkRemoved(rows, run.prev)
        BY <3>2 DEF MarkPreviousRemoved, Known, Promoting
      <4>2. ASSUME NEW p \in Production(rows') PROVE p \in Production(rows) /\ p # run.prev
        <5>1. p \in Deployments /\ rows'[p].production
          BY DEF Production, Existing
        <5>2. rows'[p].production = (rows[p].production /\ p # run.prev)
          <6>1. MarkRemoved(rows, run.prev)[p].production = (rows[p].production /\ p # run.prev)
            BY <1>1, <5>1, MarkRemovedRow
          <6> QED
            BY <4>1, <6>1
        <5>3. ~MakeProduction
          BY <3>2 DEF MarkPreviousRemoved, MakeProduction
        <5> QED
          BY <5>1, <5>2, <5>3, RunKeepsProduction
      <4> QED
        BY <1>1, <4>1, <4>2 DEF RunReplaces
    <3>3. CASE DeletePreviousSchedules /\ run.prev = None
      <4>1. run.pc \in Known /\ rows' = rows
        BY <3>3 DEF DeletePreviousSchedules, Known, database
      <4> QED
        BY <1>1, <3>3, <4>1 DEF RunReplaces, Production, Existing
    <3>4. CASE (FinishDeployment \/ ErrorFinish) /\ Existing(rows) = {cur}
      <4>1. ~MakeProduction
        BY <3>4 DEF FinishDeployment, ErrorFinish, MakeProduction
      <4> QED
        BY <1>1, <3>4, <4>1, RunKeepsProduction DEF Production
    <3>5. CASE Cleared /\ ~MakeProduction
      BY <1>1, <3>5, RunKeepsProduction DEF RunReplaces, Cleared, Alone
    <3> QED
      BY <1>1, <1>3, <3>1, <3>2, <3>3, <3>4, <3>5, ResultKept
  <2> QED
    BY <2>1, <2>2, <2>3 DEF RunReplaces, Cleared, Alone
<1> QED
  BY <1>1, <1>2, <1>3, RunFlow

-----------------------------------------------------------------------------
(* What the others do to the deployment of the run                         *)

\* No callback is pending when a run, a toggle or a cancel request moves.
LEMMA NoneCommitted ==
    ASSUME CoreInv, Undisturbed, NEW d \in Deployments
    PROVE  requests[d].stage # "committed"
BY DEF CoreInv, Undisturbed, Hurried

LEMMA AgesKeepsRequests ==
    ASSUME CoreInv, Undisturbed, Ages(rows, rows'), UNCHANGED requests
    PROVE  RequestsMatch'
<1>1. ASSUME NEW d \in Deployments, requests[d].stage \in {"none", "open"}
      PROVE  rows'[d].status = "ABSENT"
  BY <1>1 DEF CoreInv, RequestsMatch, Ages
<1> QED
  BY <1>1, NoneCommitted DEF RequestsMatch

LEMMA ToggleKeepsOthers ==
    ASSUME CoreInv,
           RequestToggle \/ ToggleStep \/ \E e \in Deployments : MonitorDeployment(e),
           NEW d \in Deployments
    PROVE  /\ rows'[d].production = rows[d].production
           /\ Idle(d) => Idle(d)' /\ swarm'[d] = swarm[d]
           /\ UNCHANGED <<run, requests, snapshot, route>>
<1>1. rows \in Rows /\ swarm \in [Deployments -> SwarmType] /\ toggle \in ToggleType
  BY DEF CoreInv, FlagInv, TypeInv, TypeOK, ResourceTypes, Rows
<1>2. CASE RequestToggle
  <2>1. PICK e \in Production(rows) : toggle'.dep = e /\ toggle'.stopped = toggle.stopped
    BY <1>1, <1>2 DEF RequestToggle, ToggleType
  <2>2. rows[e].production /\ UNCHANGED <<rows, swarm, run, requests, snapshot, route>>
    BY <1>2 DEF RequestToggle, resources, database, docker, requestVars, Production
  <2> QED
    BY <2>1, <2>2 DEF Idle
<1>3. CASE ToggleStart
  <2>1. rows'[d].production = rows[d].production /\ (d # toggle.dep => swarm'[d] = swarm[d])
    BY <1>1, <1>3, ScaleBackRow DEF ToggleStart, ScaleBack, SetReplicas
  <2> QED
    BY <1>3, <2>1 DEF ToggleStart, ToggleEnds, Immutable, requestVars, Idle
<1>4. CASE ToggleStop
  BY <1>1, <1>4
  DEF ToggleStop, ToggleEnds, ToggleType, SetReplicas, database, requestVars, Idle
<1>5. CASE ToggleIsDown
  <2>1. rows'[d].production = rows[d].production
    BY <1>1, <1>5, PutToSleepRow DEF ToggleIsDown
  <2> QED
    BY <1>5, <2>1 DEF ToggleIsDown, ToggleEnds, Immutable, docker, requestVars, Idle
<1>6. CASE ToggleRetryStop
  BY <1>1, <1>6 DEF ToggleRetryStop, SetReplicas, database, requestVars, Idle
<1>7. ASSUME NEW e \in Deployments, MonitorDeployment(e)
      PROVE  /\ rows'[d].production = rows[d].production
             /\ UNCHANGED <<run, requests, snapshot, route, toggle, swarm>>
  <2>1. PICK status : rows' = [rows EXCEPT ![e].status = status, ![e].marker = "other"]
    BY <1>7 DEF MonitorDeployment
  <2>2. rows'[d].production = rows[d].production
    BY <1>1, <2>1 DEF Rows, RowType
  <2> QED
    BY <1>7, <2>2 DEF MonitorDeployment, Immutable, docker, requestVars
<1>8. CASE \E e \in Deployments : MonitorDeployment(e)
  BY <1>7, <1>8 DEF Idle
<1> QED
  BY <1>2, <1>3, <1>4, <1>5, <1>6, <1>8 DEF ToggleStep

LEMMA CancelKeepsOthers ==
    ASSUME CoreInv, CancelRequestStep, UNCHANGED toggle, NEW d \in Deployments
    PROVE  /\ rows'[d].production = rows[d].production
           /\ Idle(d) => Idle(d)' /\ swarm'[d] = swarm[d]
           /\ UNCHANGED <<run, requests, snapshot, route>>
<1>1. /\ rows \in Rows /\ "slow_cancel" \notin Races
      /\ cancelReads = [e \in Deployments |-> AbsentRow]
  BY DEF CoreInv, FlagInv, TypeInv, TypeOK, ResourceTypes, Rows
<1>2. rows'[d].production = rows[d].production
  <2>1. ASSUME NEW e \in Deployments, CancelDeployment(e)
        PROVE  rows'[d].production = rows[d].production
    BY <1>1, <2>1 DEF CancelDeployment, CancelledRow, Rows, RowType
  <2>2. ASSUME NEW b \in BOOLEAN, CleanupQueue(b)
        PROVE  rows'[d].production = rows[d].production
    BY <1>1, <2>2, FlagRow DEF CleanupQueue
  <2> QED
    BY <1>1, <2>1, <2>2 DEF CancelRequestStep, ReadForCancel, SaveCancel
<1>3. UNCHANGED <<run, requests, snapshot, route, swarm>>
  BY DEF CancelRequestStep, CancelDeployment, ReadForCancel, SaveCancel, CleanupQueue,
         resources, database, docker
<1> QED
  BY <1>2, <1>3 DEF Idle

\* What keeps the flags, the run and the services of idle deployments keeps the invariant.
LEMMA OthersKeepCore ==
    ASSUME CoreInv, Undisturbed, Ages(rows, rows'),
           UNCHANGED <<run, requests, snapshot, route>>,
           \A d \in Deployments :
               /\ rows'[d].production = rows[d].production
               /\ Idle(d) => Idle(d)' /\ swarm'[d] = swarm[d]
    PROVE  RequestsMatch' /\ FreshRows' /\ RunPlace' /\ RunServes' /\ RunReplaces'
<1>1. /\ RunPlace /\ RunServes /\ RunReplaces /\ FreshRows /\ run \in RunType
      /\ RunOpen => cur \in Deployments
  BY DEF CoreInv, FlagInv, TypeInv, TypeOK
<1>2. \A d \in Deployments : Begun(d) => Begun(d)'
  BY DEF Ages, Begun
<1>3. \A d \in Deployments : Fresh(d) => Fresh(d)'
  BY DEF Fresh
<1>4. RequestsMatch'
  BY AgesKeepsRequests
<1>5. FreshRows'
  BY <1>1, <1>2, <1>3 DEF FreshRows
<1>6. RunPlace'
  <2>1. \A d \in Deployments : rows[d].status # "ABSENT" => rows'[d].status # "ABSENT"
    BY DEF Ages
  <2>2. /\ RunOpen => rows'[cur].status # "ABSENT"
        /\ RunOpen /\ run.pc \notin {"acquire", "prepare", "error_finish", "release"}
             => Begun(cur)'
        /\ run.pc \in Before => Fresh(cur)'
    BY <1>1, <1>2, <1>3, <2>1 DEF RunPlace, RunOpen, Before, cur
  <2>3. run.next # None => /\ run.pc = "release" /\ Fresh(run.next)'
                           /\ rows'[run.next].status # "ABSENT"
    BY <1>1, <1>3, <2>1 DEF RunPlace, RunType, Maybe
  <2>4. run.prev # None => RunOpen /\ run.prev # cur /\ Begun(run.prev)'
    BY <1>1, <1>2 DEF RunPlace, RunType, Maybe
  <2> QED
    BY <2>2, <2>3, <2>4 DEF RunPlace, RunOpen, cur
<1>7. RunServes'
  BY <1>1 DEF RunServes, RunOpen, Serving, Exposed, Promoting, cur, payload
<1>8. Production(rows') = Production(rows)
  BY DEF Production, Existing, Ages
<1>9. RunReplaces'
  BY <1>1, <1>8 DEF RunReplaces, cur
<1> QED
  BY <1>4, <1>5, <1>6, <1>7, <1>9

LEMMA DeploymentsExist == \E d \in Deployments : TRUE
BY DeploymentAssumption DEF Deployments

\* A commit inserts a row that nothing knew of.
LEMMA CommitKeepsCore ==
    ASSUME CoreInv, UNCHANGED toggle, NEW d \in Deployments, CommitDeploy(d),
           \A e \in Deployments \ {d} : ~Hurried(e)
    PROVE  RequestsMatch' /\ FreshRows' /\ RunPlace' /\ RunServes' /\ RunReplaces'
<1>1. /\ RunPlace /\ RunServes /\ RunReplaces /\ FreshRows /\ run \in RunType
      /\ rows \in Rows /\ requests \in [Deployments -> RequestType]
      /\ snapshot \in [Deployments -> SnapshotType]
      /\ RunOpen => cur \in Deployments
  BY DEF CoreInv, FlagInv, TypeInv, TypeOK, ResourceTypes, RequestTypes, Rows
<1>2. rows[d].status = "ABSENT" /\ ~Begun(d) /\ Fresh(d)
  BY DEF CoreInv, RequestsMatch, FreshRows, CommitDeploy, Begun
<1>3. UNCHANGED <<run, swarm, route>>
  BY DEF CommitDeploy, docker
<1>4. rows'[d].status = "QUEUED" /\ ~rows'[d].production
  <2>1. rows'[d] = QueuedRow(requests[d].slot)
    BY <1>1, CommitRow
  <2> QED
    BY <2>1 DEF QueuedRow
<1>5. ASSUME NEW e \in Deployments, e # d
      PROVE  /\ rows'[e].status = "ABSENT" <=> rows[e].status = "ABSENT"
             /\ rows'[e].status = "QUEUED" => rows[e].status = "QUEUED"
             /\ rows'[e].production = rows[e].production
             /\ snapshot'[e] = snapshot[e]
             /\ requests'[e] = requests[e]
  <2>1. snapshot'[e] = snapshot[e] /\ requests'[e] = requests[e]
    BY <1>1, <1>5 DEF CommitDeploy
  <2>2. /\ \/ rows'[e].status = rows[e].status
           \/ rows[e].status \in CancellableStatuses /\ rows'[e].status = "CANCELLED"
        /\ rows'[e].production = rows[e].production
    BY <1>1, <1>5, CommitRow
  <2> QED
    BY <2>1, <2>2 DEF CancellableStatuses, ActiveStatuses
<1>6. \A e \in Deployments : (Fresh(e) => Fresh(e)') /\ (e # d /\ Begun(e) => Begun(e)')
  BY <1>2, <1>3, <1>4, <1>5 DEF Fresh, Idle, Begun
<1>7. \A e \in Deployments : rows[e].status # "ABSENT" => e # d /\ rows'[e].status # "ABSENT"
  BY <1>2, <1>5
<1>8. RequestsMatch'
  <2>1. requests'[d].stage = "committed"
    BY <1>1 DEF CommitDeploy, RequestType
  <2>2. ASSUME NEW e \in Deployments, e # d
        PROVE  /\ requests'[e].stage \in {"none", "open"} => rows'[e].status = "ABSENT"
               /\ requests'[e].stage # "committed"
    BY <1>5, <2>2 DEF CoreInv, RequestsMatch, Hurried
  <2> QED
    BY <1>4, <2>1, <2>2 DEF RequestsMatch
<1>9. FreshRows'
  <2>1. ASSUME NEW e \in Deployments, ~Begun(e)' PROVE Fresh(e)'
    BY <1>1, <1>2, <1>6, <2>1 DEF FreshRows
  <2> QED
    BY <2>1 DEF FreshRows
<1>10. RunPlace'
  <2>1. /\ RunOpen => rows'[cur].status # "ABSENT"
        /\ RunOpen /\ run.pc \notin {"acquire", "prepare", "error_finish", "release"}
             => Begun(cur)'
        /\ run.pc \in Before => Fresh(cur)'
    BY <1>1, <1>3, <1>6, <1>7 DEF RunPlace, RunOpen, Before, cur
  <2>2. run.next # None => /\ run.pc = "release" /\ Fresh(run.next)'
                           /\ rows'[run.next].status # "ABSENT"
    BY <1>1, <1>3, <1>6, <1>7 DEF RunPlace, RunType, Maybe
  <2>3. run.prev # None => RunOpen /\ run.prev # cur /\ Begun(run.prev)'
    BY <1>1, <1>2, <1>3, <1>6 DEF RunPlace, RunType, Maybe
  <2> QED
    BY <1>3, <2>1, <2>2, <2>3 DEF RunPlace, RunOpen, cur
<1>11. RunServes'
  <2>1. run.pc \in Exposed => snapshot'[cur] = snapshot[cur]
    BY <1>1, <1>5, <1>7 DEF RunPlace, RunOpen, Exposed, Promoting
  <2>2. run.pc \in Serving => Idle(cur)'
    <3>1. run.pc \in Serving => cur \in Deployments /\ cur # d /\ Idle(cur)
      BY <1>1, <1>7 DEF RunServes, RunPlace, RunOpen, Serving, Exposed, Promoting
    <3> QED
      BY <1>3, <1>5, <3>1 DEF Idle, cur
  <2> QED
    BY <1>1, <1>3, <2>1, <2>2 DEF RunServes, cur, payload
<1>12. Production(rows') \subseteq Production(rows)
  BY <1>4, <1>5 DEF Production, Existing
<1>13. RunReplaces'
  BY <1>1, <1>3, <1>12 DEF RunReplaces, cur
<1> QED
  BY <1>8, <1>9, <1>10, <1>11, <1>13

\* The other requests write no row; a callback starts a run for a deployment that is
\* still queued.
LEMMA CallsKeepCore ==
    ASSUME CoreInv, UNCHANGED toggle, NEW d \in Deployments,
           \/ OpenDeploy(d) \/ SignalSuperseded(d) \/ StartDeploy(d) \/ LoseCallback(d)
           \/ DeliverSignal(d) \/ LoseSignal(d)
    PROVE  RequestsMatch' /\ FreshRows' /\ RunPlace' /\ RunServes' /\ RunReplaces'
<1>1. /\ RunPlace /\ RunServes /\ RunReplaces /\ FreshRows /\ run \in RunType
      /\ RequestsMatch /\ requests \in [Deployments -> RequestType]
  BY DEF CoreInv, FlagInv, TypeInv, TypeOK, RequestTypes
<1>2. UNCHANGED <<rows, swarm, route, snapshot>>
  BY DEF OpenDeploy, SignalSuperseded, StartDeploy, LoseCallback, DeliverSignal, LoseSignal,
         resources, database, docker
<1>3. RequestsMatch'
  <2>1. ASSUME NEW e \in Deployments
        PROVE  \/ requests'[e].stage = requests[e].stage
               \/ requests[e].stage = "none" /\ requests'[e].stage = "open"
               \/ requests'[e].stage = "done"
    BY <1>1 DEF OpenDeploy, SignalSuperseded, StartDeploy, LoseCallback, DeliverSignal,
                LoseSignal, RequestType
  <2> QED
    BY <1>1, <1>2, <2>1 DEF RequestsMatch
<1>4. FreshRows'
  BY <1>1, <1>2 DEF FreshRows, Fresh, Idle, Begun
<1>5. CASE run' = run \/ run' = [run EXCEPT !.cancels = run'.cancels]
  <2>1. /\ cur' = cur /\ run'.pc = run.pc /\ run'.next = run.next /\ run'.prev = run.prev
        /\ run'.slot = run.slot /\ run'.result = run.result /\ payload' = payload
    BY <1>1, <1>2, <1>5 DEF RunType, cur, payload
  <2>2. RunPlace'
    BY <1>1, <1>2, <2>1 DEF RunPlace, RunOpen, Fresh, Idle, Begun
  <2>3. RunServes' /\ RunReplaces'
    BY <1>1, <1>2, <2>1 DEF RunServes, RunReplaces, RunOpen, Idle
  <2> QED
    BY <1>3, <1>4, <2>2, <2>3
<1>6. CASE StartDeploy(d) /\ ~RunOpen
  <2>1. Fresh(d) /\ rows[d].status = "QUEUED"
    BY <1>1, <1>6 DEF StartDeploy, RequestsMatch, FreshRows, Begun
  <2>2. run' = NewRun(d, requests[d].slot)
    BY <1>6 DEF StartDeploy
  <2>3. run'.pc = "acquire" /\ cur' = d /\ run'.next = None /\ run'.prev = None
    BY <2>2 DEF NewRun, cur
  <2>4. Fresh(cur)' /\ rows'[cur'].status # "ABSENT"
    BY <1>2, <2>1, <2>3 DEF Fresh, Idle
  <2>5. RunPlace'
    BY <2>3, <2>4 DEF RunPlace, RunOpen
  <2>6. RunServes' /\ RunReplaces'
    BY <2>3 DEF RunServes, RunReplaces, Serving, Exposed, Promoting, Known
  <2> QED
    BY <1>3, <1>4, <2>5, <2>6
<1>7. ASSUME SignalSuperseded(d) \/ DeliverSignal(d)
      PROVE  run' = run \/ run' = [run EXCEPT !.cancels = run'.cancels]
  BY <1>1, <1>7 DEF SignalSuperseded, DeliverSignal, RunType
<1>8. ASSUME OpenDeploy(d) \/ LoseCallback(d) \/ LoseSignal(d) \/ (StartDeploy(d) /\ RunOpen)
      PROVE  run' = run
  BY <1>8 DEF OpenDeploy, LoseCallback, LoseSignal, StartDeploy
<1> QED
  BY <1>5, <1>6, <1>7, <1>8

LEMMA CoreInvStep == CoreInv /\ [Next]_vars => CoreInv'
<1> SUFFICES ASSUME CoreInv, [Next]_vars PROVE CoreInv'
  OBVIOUS
<1>1. FlagInv' /\ "slow_callback" \notin Races
  BY FlagInvStep DEF CoreInv
<1> DEFINE Parts == RequestsMatch /\ FreshRows /\ RunPlace /\ RunServes /\ RunReplaces
<1>2. ASSUME Undisturbed, RunStep \/ ExecutionTimeout PROVE Parts'
  <2>1. RequestsMatch'
    BY <1>2, RunAges, RunKeepsToggle, AgesKeepsRequests
  <2> QED
    BY <1>2, <2>1, RunKeepsFreshRows, RunKeepsPlace, RunKeepsServes, RunKeepsReplaces
<1>3. ASSUME Undisturbed,
             RequestToggle \/ ToggleStep \/ \E d \in Deployments : MonitorDeployment(d)
      PROVE  Parts'
  BY <1>3, ToggleAges, ToggleKeepsOthers, OthersKeepCore, DeploymentsExist
<1>4. ASSUME Undisturbed, CancelRequestStep, UNCHANGED toggle PROVE Parts'
  BY <1>4, CancelAges, CancelKeepsOthers, OthersKeepCore, DeploymentsExist
<1>5. ASSUME DeployRequestStep \/ SignalStep, UNCHANGED toggle PROVE Parts'
  BY <1>5, CommitKeepsCore, CallsKeepCore DEF DeployRequestStep, SignalStep
<1>6. ASSUME UNCHANGED vars PROVE Parts'
  <2>1. UNCHANGED <<rows, swarm, route, snapshot, requests, run, toggle>>
    BY <1>6 DEF vars, resources, database, docker, requestVars
  <2> QED
    BY <2>1 DEF CoreInv, RequestsMatch, FreshRows, RunPlace, RunServes, RunReplaces,
                RunOpen, Fresh, Idle, Begun, cur, payload
<1>7. Parts'
  BY <1>2, <1>3, <1>4, <1>5, <1>6 DEF Next
<1> QED
  BY <1>1, <1>7 DEF CoreInv

LEMMA CoreInvInit ==
    ASSUME "slow_cancel" \notin Races, "slow_callback" \notin Races, Init
    PROVE  CoreInv
<1>1. /\ rows = [d \in Deployments |-> AbsentRow] /\ cancelReads = rows
      /\ swarm = [d \in Deployments |-> [replicas |-> "absent", alias |-> "BLUE"]]
      /\ requests = [d \in Deployments |-> NoRequest] /\ run = NoRun
      /\ toggle = NoToggle
  BY DEF Init, ResourcesInit, RequestInit
<1>2. ~AbsentRow.production /\ AbsentRow.status = "ABSENT"
  BY DEF AbsentRow, QueuedRow
<1>3. FlagInv
  BY <1>1, <1>2, TypeInvInit DEF FlagInv, OneFlag
<1>4. RequestsMatch /\ FreshRows
  BY <1>1, <1>2 DEF RequestsMatch, NoRequest, FreshRows, Fresh, Idle, NoToggle
<1>5. run.pc = "closed" /\ run.next = None /\ run.prev = None
  BY <1>1 DEF NoRun, NewRun
<1>6. RunPlace /\ RunServes /\ RunReplaces
  BY <1>5 DEF RunPlace, RunServes, RunReplaces, RunOpen, Before, Serving, Exposed, Promoting,
              Known
<1> QED
  BY <1>3, <1>4, <1>6 DEF CoreInv

\* A run takes the flag from a row with MakeProduction or MarkPreviousRemoved only.
LEMMA RunTakesFlag ==
    ASSUME CoreInv, RunStep \/ ExecutionTimeout, NEW p \in Deployments,
           rows[p].production, ~rows'[p].production
    PROVE  MakeProduction \/ (MarkPreviousRemoved /\ p = run.prev)
<1>1. rows \in Rows
  BY DEF CoreInv, FlagInv, TypeInv, TypeOK, ResourceTypes, Rows
<1>2. ~(PrepareDeployment \/ PollHealth \/ SetCancelling)
  BY <1>1, PrepareRow, SetStatusRow DEF PrepareDeployment, PollHealth, SetCancelling
<1>3. ~(FinishDeployment \/ ErrorFinish \/ SaveCancelledDeployment)
  BY <1>1, SaveResultRow, SaveCancelledRow
  DEF FinishDeployment, ErrorFinish, SaveCancelledDeployment
<1>4. ~(RemoveSupersededRows \/ CleanupUncleanDeployments)
  BY <1>1, RemoveSupersededRow, CleanupUncleanRow
  DEF RemoveSupersededRows, CleanupUncleanDeployments
<1>5. ~(PreviousIsDown \/ ScaleBackPrevious \/ CancelScaleBack)
  BY <1>1, PutToSleepRow, ScaleBackRow DEF PreviousIsDown, ScaleBackPrevious, CancelScaleBack
<1>6. ~QueueNext
  <2>1. ASSUME QueueNext PROVE FALSE
    <3>1. PICK d, slot : rows' = rows \/ rows' = [rows EXCEPT ![d].slot = slot]
      BY <2>1 DEF QueueNext, GetNextQueued
    <3> QED
      BY <1>1, <3>1 DEF Rows, RowType
  <2> QED
    BY <2>1
<1>7. MarkPreviousRemoved => p = run.prev
  <2>1. ASSUME MarkPreviousRemoved, p # run.prev PROVE FALSE
    <3>1. MarkRemoved(rows, run.prev)[p].production = (rows[p].production /\ p # run.prev)
      BY <1>1, MarkRemovedRow
    <3> QED
      BY <2>1, <3>1 DEF MarkPreviousRemoved
  <2> QED
    BY <2>1
<1> QED
  BY <1>2, <1>3, <1>4, <1>5, <1>6, <1>7, OtherStepsKeepRows

\* A deployment gives up production only for one that is running, healthy and already
\* receives the requests of its URLs: for any number of deployments, whatever activities
\* fail, executions time out, calls are lost, cancel signals arrive late or services are
\* stopped and started meanwhile.  Two windows are excluded, because the property is false
\* in them: the one of the cancel view, whose save brings an old flag back, and the one
\* between a commit and its callback.  There, the run of another request may take the
\* deployment from the queue and time out; the run that the callback starts then finds a
\* service with the alias of that other run, and exposes an alias that nobody has.
THEOREM HandoverCorrect ==
    ASSUME "slow_cancel" \notin Races, "slow_callback" \notin Races
    PROVE  Spec => ProductionHandover
<1> DEFINE Handover(p) == /\ RunOpen /\ run.result = "HEALTHY" /\ cur # p
                          /\ cur \in Running
                          /\ \A u \in payload.urls : route[u] = swarm[cur].alias
<1>1. Init => CoreInv
  BY CoreInvInit
<1>2. CoreInv /\ [Next]_vars =>
        [\A p \in Production(rows) : p \notin Production(rows') => Handover(p)]_vars
  <2> SUFFICES ASSUME CoreInv, Next, NEW p \in Production(rows), p \notin Production(rows')
               PROVE  Handover(p)
    BY DEF vars
  <2>1. /\ p \in Deployments /\ rows[p].production /\ rows[p].status # "ABSENT"
        /\ rows \in Rows
        /\ rows'[p].status # "ABSENT" => ~rows'[p].production
    BY DEF Production, Existing, CoreInv, FlagInv, TypeInv, TypeOK, ResourceTypes, Rows
  <2>2. RunStep \/ ExecutionTimeout
    <3>1. ASSUME RequestToggle \/ ToggleStep \/ \E d \in Deployments : MonitorDeployment(d)
          PROVE  FALSE
      BY <2>1, <3>1, ToggleAges, ToggleKeepsOthers DEF Ages
    <3>2. ASSUME CancelRequestStep, UNCHANGED toggle PROVE FALSE
      BY <2>1, <3>2, CancelAges, CancelKeepsOthers DEF Ages
    <3>3. ASSUME NEW d \in Deployments, CommitDeploy(d) PROVE FALSE
      <4>1. rows[d].status = "ABSENT"
        BY <3>3 DEF CommitDeploy, CoreInv, RequestsMatch
      <4>2. /\ \/ rows'[p].status = rows[p].status \/ rows'[p].status = "CANCELLED"
            /\ rows'[p].production = rows[p].production
        BY <2>1, <3>3, <4>1, CommitRow
      <4> QED
        BY <2>1, <4>2
    <3>4. ASSUME NEW d \in Deployments,
                 \/ OpenDeploy(d) \/ SignalSuperseded(d) \/ StartDeploy(d)
                 \/ LoseCallback(d) \/ DeliverSignal(d) \/ LoseSignal(d)
          PROVE  FALSE
      BY <2>1, <3>4 DEF OpenDeploy, SignalSuperseded, StartDeploy, LoseCallback,
                        DeliverSignal, LoseSignal, resources, database
    <3> QED
      BY <3>1, <3>2, <3>3, <3>4 DEF Next, DeployRequestStep, SignalStep
  <2>3. ~rows'[p].production
    BY <2>1, <2>2, RunAges DEF Ages
  <2>4. MarkPreviousRemoved /\ p = run.prev
    <3>1. ~MakeProduction
      <4>1. ASSUME MakeProduction PROVE p = cur
        BY <4>1 DEF MakeProduction, CoreInv, RunReplaces
      <4>2. ASSUME MakeProduction PROVE rows'[cur].production
        BY <2>1, <4>1, <4>2, SetProductionRow DEF MakeProduction
      <4> QED
        BY <2>3, <4>1, <4>2
    <3> QED
      BY <2>1, <2>2, <2>3, <3>1, RunTakesFlag
  <2>5. run.pc = "mark_removed"
    BY <2>4 DEF MarkPreviousRemoved
  <2>6. /\ run.result = "HEALTHY" /\ swarm[cur] = [replicas |-> "up", alias |-> run.slot]
        /\ \A u \in payload.urls : route[u] = run.slot
    BY <2>5 DEF CoreInv, RunServes, Serving, Exposed, Promoting
  <2>7. RunOpen /\ cur # p /\ cur \in Deployments
    BY <2>4, <2>5 DEF CoreInv, FlagInv, TypeInv, RunPlace, RunOpen, None, Deployments
  <2> QED
    BY <2>6, <2>7 DEF Running
<1> QED
  BY <1>1, <1>2, CoreInvStep, PTL DEF Spec, ProductionHandover

-----------------------------------------------------------------------------
(* A deployment that the user has stopped                                  *)

\* The steps at which the deployment of the run may already be in production.
PastFlag == {"remove_superseded", "error_remove_superseded", "cleanup_unclean",
             "queue_next", "error_queue_next", "release"}

\* No other deployment has ports or writable volumes.
Unshared(p) == \A d \in Deployments \ {p} : ~snapshot[d].exclusive

\* As long as it is in production, its row tells scale_back_service_deployment not to.
Asleep(p) ==
    \/ swarm[p].replicas = "absent"
    \/ /\ swarm[p].replicas = "down"
       /\ rows[p].production => rows[p].status = "SLEEPING" /\ rows[p].marker = "manual"

StoppedAsleep == \A p \in toggle.stopped : Begun(p) /\ (Unshared(p) => Asleep(p))

\* Nobody stops or starts the deployment of the run before it is in production.
ToggleApart == RunOpen /\ run.pc \notin PastFlag => Idle(cur)

\* The steps at which the run may still stop or wake up the previous deployment.
Tied == (Known \ Promoting) \cup {"cancel_scale_back"}

\* It stops it for an exclusive deployment only, and wakes up none that lost its flag.
PreviousApart ==
    /\ run.pc = "wait_down" => payload.exclusive /\ run.prev # None
    /\ run.pc \in Tied /\ run.prev # None => rows[run.prev].production

\* A deployment that was never committed has no configuration.
NoSnapshots == \A d \in Deployments : rows[d].status = "ABSENT" => ~snapshot[d].exclusive

\* The activities after whose failure a run saves the result of a deployment that is in
\* production already.
Fragile == {"remove_superseded", "error_remove_superseded", "cleanup_unclean", "queue_next"}

StopInv ==
    /\ CoreInv /\ FaultySteps \cap Fragile = {}
    /\ StoppedAsleep /\ ToggleApart /\ PreviousApart /\ NoSnapshots

\* Rows that sleep for the user are left alone.
LEMMA RunKeepsAsleep ==
    ASSUME StopInv, RunStep \/ ExecutionTimeout, NEW p \in toggle.stopped, Unshared(p)
    PROVE  Asleep(p)'
<1>1. /\ rows \in Rows /\ p \in Deployments /\ TypeInv /\ Begun(p) /\ Asleep(p)
      /\ run \in RunType /\ None \notin Deployments /\ cur = run.cur
      /\ RunOpen => cur \in Deployments
  BY DEF StopInv, CoreInv, FlagInv, TypeInv, TypeOK, ResourceTypes, Rows, ToggleType,
         StoppedAsleep, None, Deployments, cur
<1>2. RunOpen /\ run.pc \notin PastFlag => p # cur
  BY DEF StopInv, ToggleApart, Idle
<1>3. swarm[p].replicas = "absent" => swarm'[p].replicas = "absent"
  <2>1. ~(CreateService /\ p = cur)
    BY <1>2 DEF CreateService, PastFlag, RunOpen
  <2> QED
    BY <1>1, <2>1, RunSwarm
<1> SUFFICES ASSUME swarm[p].replicas = "down",
                    rows[p].production => rows[p].status = "SLEEPING" /\ rows[p].marker = "manual"
             PROVE  Asleep(p)'
  BY <1>1, <1>3 DEF Asleep
<1> DEFINE Left == rows'[p].production
                     => rows'[p].status = "SLEEPING" /\ rows'[p].marker = "manual"
<1>4. swarm'[p].replicas \in {"absent", "down"}
  <2>1. ~(CreateService /\ p = cur)
    BY <1>2 DEF CreateService, PastFlag, RunOpen
  <2>2. (ScaleBackPrevious \/ CancelScaleBack) /\ p = run.prev => LeftAsleep(p, FALSE)
    BY <1>1 DEF ScaleBackPrevious, CancelScaleBack, StopInv, PreviousApart, Tied, Known,
                Promoting, LeftAsleep
  <2> QED
    BY <1>1, <2>1, <2>2, RunSwarm
<1>5. ASSUME \/ PollHealth \/ SetCancelling \/ FinishDeployment \/ ErrorFinish
             \/ SaveCancelledDeployment
      PROVE  Left
  <2>1. p # cur
    BY <1>2, <1>5
    DEF PollHealth, CheckingHealth, SetCancelling, FinishDeployment, ErrorFinish,
        SaveCancelledDeployment, PastFlag, RunOpen
  <2> QED
    BY <1>1, <1>5, <2>1, SetStatusRow, SaveResultRow, SaveCancelledRow
    DEF PollHealth, SetCancelling, FinishDeployment, ErrorFinish, SaveCancelledDeployment
<1>6. ASSUME PrepareDeployment PROVE Left
  BY <1>1, <1>6, PrepareRow DEF PrepareDeployment
<1>7. ASSUME RemoveSupersededRows PROVE Left
  <2>1. LET S == RemoveSuperseded(rows, cur)
        IN  /\ rows[p].status \notin ActiveStatuses => S[p].status = rows[p].status
            /\ S[p].production = rows[p].production /\ S[p].marker = rows[p].marker
    BY <1>1, RemoveSupersededRow
  <2> QED
    BY <1>7, <2>1 DEF RemoveSupersededRows, ActiveStatuses
<1>8. ASSUME CleanupUncleanDeployments PROVE Left
  <2>1. rows[p].production => p \notin Unclean(rows, cur)
    BY DEF Unclean
  <2>2. LET S == CleanupUnclean(rows, cur)
        IN  /\ S[p].status = IF p \in Unclean(rows, cur) THEN "REMOVED" ELSE rows[p].status
            /\ S[p].production = rows[p].production /\ S[p].marker = rows[p].marker
    BY <1>1, CleanupUncleanRow
  <2> QED
    BY <1>8, <2>1, <2>2 DEF CleanupUncleanDeployments
<1>9. ASSUME MakeProduction PROVE Left
  <2>1. p # cur
    BY <1>2, <1>9 DEF MakeProduction, RunOpen, PastFlag
  <2>2. LET S == SetProduction(rows, cur)
        IN  /\ S[p].status = rows[p].status /\ S[p].marker = rows[p].marker
            /\ S[p].production = (p = cur)
    BY <1>1, SetProductionRow
  <2> QED
    BY <1>1, <1>9, <2>1, <2>2 DEF MakeProduction
<1>10. ASSUME MarkPreviousRemoved PROVE Left
  <2>1. LET S == MarkRemoved(rows, run.prev)
        IN  /\ S[p].status = IF p = run.prev THEN "REMOVED" ELSE rows[p].status
            /\ S[p].production = (rows[p].production /\ p # run.prev)
            /\ S[p].marker = rows[p].marker
    BY <1>1, MarkRemovedRow
  <2> QED
    BY <1>10, <2>1 DEF MarkPreviousRemoved
<1>11. ~PreviousIsDown
  <2>1. ASSUME PreviousIsDown PROVE payload.exclusive /\ cur \in Deployments /\ p # cur
    BY <1>1, <1>2, <2>1 DEF PreviousIsDown, StopInv, PreviousApart, RunOpen, PastFlag
  <2> QED
    BY <2>1 DEF Unshared, payload
<1>12. ASSUME ScaleBackPrevious \/ CancelScaleBack PROVE Left
  <2>1. p = run.prev => rows[p].production
    BY <1>1, <1>12 DEF ScaleBackPrevious, CancelScaleBack, StopInv, PreviousApart, Tied, Known,
                       Promoting
  <2> QED
    BY <1>1, <1>12, <2>1
    DEF ScaleBackPrevious, CancelScaleBack, ScaleBack, LeftAsleep, Rows, RowType
<1>13. ASSUME QueueNext PROVE Left
  <2>1. PICK d, slot : rows' = rows \/ rows' = [rows EXCEPT ![d].slot = slot]
    BY <1>13 DEF QueueNext, GetNextQueued
  <2> QED
    BY <1>1, <2>1 DEF Rows, RowType
<1>14. Left
  BY <1>5, <1>6, <1>7, <1>8, <1>9, <1>10, <1>11, <1>12, <1>13, OtherStepsKeepRows
<1> QED
  BY <1>4, <1>14 DEF Asleep

LEMMA RunKeepsStopped ==
    ASSUME StopInv, RunStep \/ ExecutionTimeout PROVE StoppedAsleep' /\ NoSnapshots'
<1>1. UNCHANGED <<snapshot, toggle>> /\ Ages(rows, rows')
  BY SnapshotStays, RunKeepsToggle, RunAges DEF StopInv
<1>2. toggle.stopped \subseteq Deployments
  BY DEF StopInv, CoreInv, FlagInv, TypeInv, TypeOK, ToggleType
<1>3. ASSUME NEW p \in toggle.stopped PROVE Begun(p)' /\ (Unshared(p)' => Asleep(p)')
  <2>1. Begun(p)'
    BY <1>1, <1>2 DEF StopInv, StoppedAsleep, Begun, Ages
  <2>2. Unshared(p)' => Unshared(p)
    BY <1>1 DEF Unshared
  <2> QED
    BY <2>1, <2>2, RunKeepsAsleep
<1>4. StoppedAsleep'
  BY <1>1, <1>3 DEF StoppedAsleep
<1>5. NoSnapshots'
  BY <1>1 DEF StopInv, NoSnapshots, Ages
<1> QED
  BY <1>4, <1>5

\* The ways into the two phases.
LEMMA RunApart ==
    ASSUME StopInv, RunStep \/ ExecutionTimeout, GoesOn, EntersPhases, ~Release
    PROVE  /\ run'.pc \notin PastFlag => run.pc \notin PastFlag /\ ~MakeProduction
           /\ run'.pc = "wait_down" => ScaleDownPrevious \/ run.pc = "wait_down"
           /\ run'.pc \in Tied =>
                run.pc \in Tied \/ GetPreviousProduction \/ CancelGetPrevious
<1> DEFINE Apart ==
      /\ run'.pc \notin PastFlag => run.pc \notin PastFlag /\ ~MakeProduction
      /\ run'.pc = "wait_down" => ScaleDownPrevious \/ run.pc = "wait_down"
      /\ run'.pc \in Tied => run.pc \in Tied \/ GetPreviousProduction \/ CancelGetPrevious
<1>1. run \in RunType /\ RunOpen /\ run'.pc # "closed" /\ FaultySteps \cap Fragile = {}
  BY DEF StopInv, CoreInv, FlagInv, TypeInv, TypeOK, GoesOn, RunOpen
<1> USE DEF Moves, Promoting, PastFlag, Tied, Known
<1>2. ASSUME \/ AcquireSemaphore \/ PrepareDeployment \/ GetPreviousProduction
             \/ CreateVolumes \/ CreateConfigs \/ SkipScaleDown \/ ScaleDownPrevious
             \/ PreviousIsDown \/ RetryScaleDown \/ PullImage \/ CreateService
      PROVE  Apart
  BY <1>1, <1>2, ActivityMoves, EndMoves
<1>3. ASSUME \/ PollHealth \/ HealthcheckEnds \/ Expose \/ DeletePreviousSchedules
             \/ RemovePreviousService \/ RemoveOldConfigs \/ RemoveOldVolumes
             \/ RemoveOldUrls \/ MarkPreviousRemoved \/ CreateMonitorSchedule
             \/ CreateStatsSchedule \/ RemoveOwnService \/ ScaleBackPrevious
      PROVE  Apart
  BY <1>1, <1>3, PromotionMoves, EndMoves
<1>4. ASSUME \/ FinishDeployment \/ MakeProduction \/ RemoveSupersededRows
             \/ CleanupUncleanDeployments \/ QueueNext
      PROVE  Apart
  BY <1>1, <1>4, EndMoves
<1>5. ASSUME \/ BeginCancellation \/ SetCancelling \/ ResetUrls \/ CancelService
             \/ CancelGetPrevious \/ CancelScaleBack \/ DeleteCreatedConfigs
             \/ DeleteCreatedVolumes \/ SaveCancelledDeployment
      PROVE  Apart
  BY <1>1, <1>5, CancellationMoves, EndMoves DEF AtCancellationPoint, LastCompleted
<1>6. ASSUME SwallowedFailure \/ ErrorFinish \/ FinishAgain PROVE Apart
  BY <1>1, <1>6, FailureMoves, EndMoves DEF Fragile
<1>7. ASSUME Fail PROVE Apart
  <2>1. run.pc \notin Fragile
    BY <1>1, <1>7 DEF Fail, Refused, Fragile
  <2>2. \/ run.pc \in ErrorSteps /\ run'.pc = "release"
        \/ run.pc \notin ErrorSteps /\ run'.pc = "error_finish"
    BY <1>1, <1>7, FailureMoves, NoRunClosed
  <2>4. run.pc # "release"
    BY <1>1, <1>7, NoRunClosed DEF Fail, AfterActivityError
  <2>3. ~MakeProduction
    BY <1>1, <2>2, EndMoves
  <2> QED
    BY <2>1, <2>2, <2>3, <2>4 DEF ErrorSteps, Fragile
<1>8. ~ExecutionTimeout
  BY <1>1 DEF ExecutionTimeout, NoRun, NewRun
<1> QED
  BY <1>2, <1>3, <1>4, <1>5, <1>6, <1>7, <1>8
  DEF RunStep, DeployStep, CancellationStep, FailureStep

LEMMA RunKeepsApart ==
    ASSUME StopInv, RunStep \/ ExecutionTimeout PROVE ToggleApart' /\ PreviousApart'
<1>1. /\ TypeInv /\ rows \in Rows /\ OneFlag(rows) /\ CoreInv /\ RunPlace
      /\ ToggleApart /\ PreviousApart
      /\ run.prev \in Maybe(Deployments) /\ None \notin Deployments
      /\ RunOpen => cur \in Deployments
  BY DEF StopInv, CoreInv, FlagInv, TypeInv, TypeOK, ResourceTypes, Rows, RunType, None,
         Deployments
<1>2. UNCHANGED <<snapshot, toggle>>
  BY SnapshotStays, RunKeepsToggle
<1>4. CASE run' = NoRun
  <2>1. run'.pc = "closed"
    BY <1>4 DEF NoRun, NewRun
  <2> QED
    BY <2>1 DEF ToggleApart, PreviousApart, RunOpen, Tied, Known, Promoting
<1>5. CASE Release /\ run' # NoRun
  <2>1. run'.pc = "acquire"
    BY <1>5 DEF Release, NewRun
  <2>2. RunPlace'
    BY <1>1, RunKeepsPlace
  <2>3. Idle(cur)'
    BY <2>1, <2>2 DEF RunPlace, Before, Fresh
  <2> QED
    BY <2>1, <2>3 DEF ToggleApart, PreviousApart, Tied, Known, Promoting
<1>6. CASE GoesOn /\ EntersPhases /\ ~Release
  <2>1. cur' = cur /\ cur \in Deployments /\ RunOpen
    BY <1>1, <1>6 DEF GoesOn
  <2>2. run'.pc \notin PastFlag => Idle(cur)'
    <3>1. run'.pc \notin PastFlag => Idle(cur) /\ ~MakeProduction
      BY <1>1, <1>6, <2>1, RunApart DEF ToggleApart
    <3> QED
      BY <1>1, <2>1, <3>1, RunKeepsFresh DEF Idle
  <2>3. run'.pc = "wait_down" => payload'.exclusive /\ run'.prev # None
    <3>1. ASSUME run'.pc = "wait_down"
          PROVE  payload.exclusive /\ run.prev # None /\ run'.prev = run.prev
      BY <1>1, <1>6, <3>1, RunApart
      DEF ScaleDownPrevious, MustScaleDown, PreviousApart, GoesOn, GetPreviousProduction,
          CancelGetPrevious
    <3> QED
      BY <1>2, <2>1, <3>1 DEF payload
  <2>4. run'.pc \in Tied /\ run'.prev # None => rows'[run'.prev].production
    <3>1. CASE GetPreviousProduction \/ CancelGetPrevious
      <4>1. PICK q \in Maybe(Deployments) : IsPreviousProduction(q) /\ run'.prev = q
        BY <1>1, <3>1 DEF GetPreviousProduction, CancelGetPrevious, TypeInv, TypeOK, RunType
      <4>2. rows' = rows
        BY <3>1 DEF GetPreviousProduction, CancelGetPrevious, resources, database
      <4> QED
        BY <4>1, <4>2 DEF IsPreviousProduction, IsNewest, Production, Existing
    <3>2. CASE run'.pc \in Tied /\ run'.prev = run.prev /\ run.prev # None
               /\ ~GetPreviousProduction /\ ~CancelGetPrevious
      <4>1. run.pc \in Tied /\ run.prev \in Deployments /\ rows[run.prev].production
        BY <1>1, <1>6, <3>2, RunApart DEF PreviousApart, Maybe
      <4>2. ~MakeProduction /\ ~MarkPreviousRemoved
        BY <4>1 DEF MakeProduction, MarkPreviousRemoved, Tied, Known, Promoting
      <4>3. rows'[run.prev].production
        BY <1>1, <4>1, <4>2, RunTakesFlag
      <4> QED
        BY <3>2, <4>3
    <3> QED
      BY <1>6, <3>1, <3>2 DEF GoesOn
  <2> QED
    BY <2>2, <2>3, <2>4 DEF ToggleApart, PreviousApart
<1> QED
  BY <1>1, <1>4, <1>5, <1>6, RunFlow

\* What keeps the flags, the rows that sleep, the run and the services.
LEMMA OthersKeepStopped ==
    ASSUME StopInv, Ages(rows, rows'), UNCHANGED <<toggle, swarm, run, snapshot>>,
           \A e \in Deployments :
               /\ rows'[e].production = rows[e].production
               /\ rows[e].status = "SLEEPING" =>
                    rows'[e].status = "SLEEPING" /\ rows'[e].marker = rows[e].marker
    PROVE  StoppedAsleep' /\ ToggleApart' /\ PreviousApart' /\ NoSnapshots'
<1>1. /\ StoppedAsleep /\ ToggleApart /\ PreviousApart /\ NoSnapshots
      /\ RunOpen => cur \in Deployments
      /\ toggle \in ToggleType /\ run.prev \in Maybe(Deployments)
  BY DEF StopInv, CoreInv, FlagInv, TypeInv, TypeOK, RunType
<1>2. ASSUME NEW p \in toggle.stopped PROVE Begun(p)' /\ (Unshared(p)' => Asleep(p)')
  <2>1. p \in Deployments /\ Begun(p) /\ (Unshared(p) => Asleep(p))
    BY <1>1, <1>2 DEF StoppedAsleep, ToggleType
  <2>2. Begun(p)'
    BY <2>1 DEF Begun, Ages
  <2>3. Unshared(p)' = Unshared(p)
    BY DEF Unshared
  <2>4. Asleep(p) => Asleep(p)'
    BY <2>1 DEF Asleep
  <2> QED
    BY <2>1, <2>2, <2>3, <2>4
<1>3. StoppedAsleep'
  BY <1>2 DEF StoppedAsleep
<1>4. ToggleApart' /\ PreviousApart'
  BY <1>1 DEF ToggleApart, PreviousApart, RunOpen, Idle, cur, payload, Maybe
<1>5. NoSnapshots'
  BY <1>1 DEF NoSnapshots, Ages
<1> QED
  BY <1>3, <1>4, <1>5

LEMMA ToggleKeepsStopped ==
    ASSUME StopInv,
           RequestToggle \/ ToggleStep \/ \E d \in Deployments : MonitorDeployment(d)
    PROVE  StoppedAsleep' /\ ToggleApart' /\ PreviousApart' /\ NoSnapshots'
<1>1. /\ CoreInv /\ StoppedAsleep /\ ToggleApart /\ PreviousApart /\ NoSnapshots
      /\ RunOpen => cur \in Deployments
      /\ toggle \in ToggleType
      /\ toggle.pc # "idle" => toggle.dep \in Deployments
      /\ rows \in Rows /\ swarm \in [Deployments -> SwarmType]
      /\ run.prev \in Maybe(Deployments)
  BY DEF StopInv, CoreInv, FlagInv, TypeInv, TypeOK, ResourceTypes, Rows, RunType
<1>2. /\ UNCHANGED <<run, snapshot>> /\ Ages(rows, rows')
      /\ \A d \in Deployments : Idle(d) => Idle(d)' /\ swarm'[d] = swarm[d]
      /\ \A d \in Deployments : rows'[d].production = rows[d].production
  BY <1>1, ToggleAges, ToggleKeepsOthers, DeploymentsExist
<1>3. NoSnapshots'
  BY <1>1, <1>2 DEF NoSnapshots, Ages
<1>4. \A d \in Deployments : swarm[d].replicas = "absent" => swarm'[d].replicas = "absent"
  BY <1>1 DEF RequestToggle, ToggleStep, ToggleStart, ScaleBack, ToggleStop, ToggleIsDown,
              ToggleRetryStop, MonitorDeployment, resources, docker, SetReplicas
<1>5. (RunOpen /\ run.pc \notin PastFlag => Idle(cur))'
  BY <1>1, <1>2 DEF ToggleApart, RunOpen, cur, Idle
<1>7. PreviousApart'
  BY <1>1, <1>2 DEF PreviousApart, payload, cur, Maybe
<1>8. StoppedAsleep'
  <2> SUFFICES ASSUME NEW p \in toggle'.stopped
               PROVE  Begun(p)' /\ (Unshared(p) => Asleep(p)')
    BY <1>2 DEF StoppedAsleep, Unshared
  <2>1. p \in toggle.stopped \/ (ToggleIsDown /\ p = toggle.dep)
    <3>1. ASSUME ToggleStart \/ ToggleIsDown
          PROVE  \/ toggle'.stopped = toggle.stopped \ {toggle.dep}
                 \/ ToggleIsDown /\ toggle'.stopped = toggle.stopped \cup {toggle.dep}
      <4>1. CASE ToggleStart
        BY <4>1 DEF ToggleStart, ToggleEnds
      <4>2. CASE ToggleIsDown
        BY <4>2 DEF ToggleIsDown, ToggleEnds
      <4> QED
        BY <3>1, <4>1, <4>2
    <3>2. ASSUME RequestToggle \/ ToggleStop PROVE toggle'.stopped = toggle.stopped
      <4>1. CASE RequestToggle
        BY <1>1, <4>1 DEF RequestToggle, ToggleType
      <4>2. CASE ToggleStop
        BY <1>1, <4>2 DEF ToggleStop, ToggleEnds, ToggleType
      <4> QED
        BY <3>2, <4>1, <4>2
    <3>3. ASSUME ToggleRetryStop \/ \E d \in Deployments : MonitorDeployment(d)
          PROVE  toggle' = toggle
      BY <3>3 DEF ToggleRetryStop, MonitorDeployment
    <3> QED
      BY <3>1, <3>2, <3>3 DEF ToggleStep
  <2>2. CASE ToggleIsDown /\ p = toggle.dep
    <3>1. p \in Deployments /\ Begun(p)
      BY <1>1, <2>2 DEF ToggleIsDown, CoreInv, FreshRows, Fresh, Idle
    <3>2. /\ rows'[p].status = "SLEEPING" /\ rows'[p].marker = "manual"
          /\ rows'[p].production = rows[p].production /\ swarm' = swarm
      BY <1>1, <2>2, <3>1, PutToSleepRow DEF ToggleIsDown, docker
    <3>3. swarm[p].replicas \in {"absent", "down"}
      BY <1>1, <2>2, <3>1 DEF ToggleIsDown, SwarmType, Replicas
    <3> QED
      BY <3>2, <3>3 DEF Begun, Asleep
  <2>3. CASE p \in toggle.stopped /\ ~(ToggleIsDown /\ p = toggle.dep)
    <3>1. p \in Deployments /\ Begun(p) /\ Begun(p)'
      BY <1>1, <1>2, <2>3 DEF StoppedAsleep, ToggleType, Begun, Ages
    <3>2. Unshared(p) => Asleep(p)
      BY <1>1, <2>3 DEF StoppedAsleep
    <3>3. ASSUME Asleep(p) PROVE Asleep(p)'
      <4>1. CASE swarm[p].replicas = "absent"
        BY <1>4, <3>1, <4>1 DEF Asleep
      <4>2. CASE swarm[p].replicas = "down"
        <5>1. rows[p].production => rows[p].status = "SLEEPING" /\ rows[p].marker = "manual"
          BY <3>3, <4>2 DEF Asleep
        <5>2. rows[p].production => rows'[p].status = "SLEEPING" /\ rows'[p].marker = "manual"
          <6> SUFFICES ASSUME rows[p].production
                       PROVE  rows'[p].status = "SLEEPING" /\ rows'[p].marker = "manual"
            OBVIOUS
          <6>1. CASE ToggleStart
            <7>1. p # toggle.dep
              BY <1>1, <6>1 DEF ToggleStart, ToggleEnds
            <7> QED
              BY <1>1, <3>1, <5>1, <6>1, <7>1 DEF ToggleStart, ScaleBack, Rows, RowType
          <6>2. CASE ToggleIsDown
            BY <1>1, <2>3, <3>1, <5>1, <6>2, PutToSleepRow DEF ToggleIsDown
          <6>3. ASSUME NEW e \in Deployments, MonitorDeployment(e)
                PROVE  rows'[p].status = "SLEEPING" /\ rows'[p].marker = "manual"
            <7>1. PICK status : rows' = [rows EXCEPT ![e].status = status,
                                                     ![e].marker = "other"]
              BY <6>3 DEF MonitorDeployment
            <7>2. p # e
              BY <5>1, <6>3 DEF MonitorDeployment
            <7> QED
              BY <1>1, <3>1, <5>1, <7>1, <7>2 DEF Rows
          <6>4. CASE RequestToggle \/ ToggleStop \/ ToggleRetryStop
            BY <5>1, <6>4 DEF RequestToggle, ToggleStop, ToggleRetryStop, resources, database
          <6> QED
            BY <6>1, <6>2, <6>3, <6>4 DEF ToggleStep
        <5>3. swarm'[p].replicas = "down"
          <6>1. CASE ToggleStart
            <7>1. p # toggle.dep
              BY <1>1, <6>1 DEF ToggleStart, ToggleEnds
            <7> QED
              BY <1>1, <3>1, <4>2, <6>1, <7>1 DEF ToggleStart, ScaleBack, SetReplicas
          <6>2. CASE ToggleStop \/ ToggleRetryStop
            BY <1>1, <3>1, <4>2, <6>2 DEF ToggleStop, ToggleRetryStop, SetReplicas, SwarmType
          <6>3. CASE \/ RequestToggle \/ ToggleIsDown
                     \/ \E d \in Deployments : MonitorDeployment(d)
            BY <4>2, <6>3 DEF RequestToggle, ToggleIsDown, MonitorDeployment, resources, docker
          <6> QED
            BY <6>1, <6>2, <6>3 DEF ToggleStep
        <5> QED
          BY <1>2, <3>1, <5>1, <5>2, <5>3 DEF Asleep
      <4> QED
        BY <3>3, <4>1, <4>2 DEF Asleep
    <3> QED
      BY <3>1, <3>2, <3>3
  <2> QED
    BY <2>1, <2>2, <2>3
<1> QED
  BY <1>3, <1>5, <1>7, <1>8 DEF ToggleApart

\* A cancel request writes the rows that are queued or active only.
LEMMA CancelKeepsStopped ==
    ASSUME StopInv, CancelRequestStep, UNCHANGED toggle
    PROVE  StoppedAsleep' /\ ToggleApart' /\ PreviousApart' /\ NoSnapshots'
<1>1. /\ CoreInv /\ rows \in Rows /\ "slow_cancel" \notin Races
      /\ cancelReads = [e \in Deployments |-> AbsentRow]
  BY DEF StopInv, CoreInv, FlagInv, TypeInv, TypeOK, ResourceTypes, Rows
<1>2. ASSUME NEW e \in Deployments, rows[e].status = "SLEEPING" PROVE rows'[e] = rows[e]
  <2>1. ASSUME NEW d \in Deployments, CancelDeployment(d) PROVE rows'[e] = rows[e]
    <3>1. d # e
      BY <1>2, <2>1 DEF CancelDeployment, Cancellable, CancellableStatuses, ActiveStatuses
    <3> QED
      BY <1>1, <2>1, <3>1 DEF CancelDeployment, Rows
  <2>2. ASSUME NEW b \in BOOLEAN, CleanupQueue(b) PROVE rows'[e] = rows[e]
    <3>1. PICK spared : rows' = FlagForCancellation(rows, FlaggedRows(rows, b, spared))
      BY <2>2 DEF CleanupQueue
    <3>2. e \notin FlaggedRows(rows, b, spared)
      BY <1>1, <1>2, FlaggedRow DEF CancellableStatuses, ActiveStatuses
    <3> QED
      BY <3>1, <3>2 DEF FlagForCancellation
  <2> QED
    BY <1>1, <2>1, <2>2 DEF CancelRequestStep, ReadForCancel, SaveCancel
<1>3. UNCHANGED <<swarm, run, snapshot>> /\ Ages(rows, rows')
  <2>1. UNCHANGED swarm
    BY DEF CancelRequestStep, CancelDeployment, ReadForCancel, SaveCancel, CleanupQueue,
           resources, docker
  <2> QED
    BY <1>1, <2>1, CancelAges, CancelKeepsOthers, DeploymentsExist
<1> QED
  BY <1>1, <1>2, <1>3, CancelKeepsOthers, OthersKeepStopped

LEMMA CommitKeepsStopped ==
    ASSUME StopInv, UNCHANGED toggle, NEW d \in Deployments, CommitDeploy(d)
    PROVE  StoppedAsleep' /\ ToggleApart' /\ PreviousApart' /\ NoSnapshots'
<1>1. /\ CoreInv /\ rows \in Rows /\ RunPlace /\ run.prev \in Maybe(Deployments)
      /\ RunOpen => cur \in Deployments
      /\ toggle \in ToggleType
      /\ snapshot \in [Deployments -> SnapshotType]
      /\ StoppedAsleep /\ ToggleApart /\ PreviousApart /\ NoSnapshots
  BY DEF StopInv, CoreInv, FlagInv, TypeInv, TypeOK, ResourceTypes, Rows, RunType
<1>2. rows[d].status = "ABSENT" /\ Fresh(d) /\ ~snapshot[d].exclusive
  BY <1>1 DEF CoreInv, RequestsMatch, FreshRows, CommitDeploy, Begun, NoSnapshots
<1>3. UNCHANGED <<run, swarm>>
  BY DEF CommitDeploy, docker
<1>4. /\ rows'[d].status = "QUEUED"
      /\ \A e \in Deployments : e # d => snapshot'[e] = snapshot[e]
  <2>1. rows'[d] = QueuedRow(requests[d].slot)
    BY <1>1, CommitRow
  <2>2. rows'[d].status = "QUEUED"
    BY <2>1 DEF QueuedRow
  <2>3. \A e \in Deployments : e # d => snapshot'[e] = snapshot[e]
    BY <1>1 DEF CommitDeploy
  <2> QED
    BY <2>2, <2>3
<1>5. ASSUME NEW e \in Deployments, e # d
      PROVE  /\ rows[e].status = "SLEEPING" => rows'[e] = rows[e]
             /\ rows'[e].production = rows[e].production
             /\ Begun(e) => Begun(e)'
             /\ rows'[e].status = "ABSENT" => rows[e].status = "ABSENT"
  <2>1. /\ \/ rows'[e].status = rows[e].status \/ rows'[e].status = "CANCELLED"
        /\ rows'[e].production = rows[e].production
    BY <1>1, <1>5, CommitRow
  <2>2. ASSUME rows[e].status = "SLEEPING" PROVE rows'[e] = rows[e]
    <3>1. PICK b \in BOOLEAN :
            LET flagged == IF b THEN FlaggedRows(rows, TRUE, None) ELSE {}
            IN  rows' = [FlagForCancellation(rows, flagged) EXCEPT
                            ![d] = QueuedRow(requests[d].slot)]
      BY DEF CommitDeploy
    <3>2. e \notin (IF b THEN FlaggedRows(rows, TRUE, None) ELSE {})
      BY <1>1, <2>2, FlaggedRow DEF CancellableStatuses, ActiveStatuses
    <3> QED
      BY <1>5, <3>1, <3>2 DEF FlagForCancellation
  <2> QED
    BY <2>1, <2>2 DEF Begun
<1>6. ASSUME NEW p \in toggle.stopped PROVE Begun(p)' /\ (Unshared(p)' => Asleep(p)')
  <2>1. p \in Deployments /\ p # d /\ Begun(p) /\ (Unshared(p) => Asleep(p))
    BY <1>1, <1>2, <1>6 DEF StoppedAsleep, ToggleType, Fresh, Idle
  <2>2. Unshared(p)' => Unshared(p)
    BY <1>2, <1>4 DEF Unshared
  <2>3. Asleep(p) => Asleep(p)'
    BY <1>3, <1>5, <2>1 DEF Asleep
  <2> QED
    BY <1>5, <2>1, <2>2, <2>3
<1>7. StoppedAsleep'
  BY <1>6 DEF StoppedAsleep
<1>8. ToggleApart'
  <2>1. RunOpen => cur # d
    BY <1>1, <1>2 DEF RunPlace
  <2> QED
    BY <1>1, <1>3, <1>5, <2>1 DEF ToggleApart, RunOpen, Idle, cur
<1>9. PreviousApart'
  <2>1. RunOpen => cur # d
    BY <1>1, <1>2 DEF RunPlace
  <2>2. ~rows[d].production
    BY <1>2 DEF Fresh, Idle
  <2> QED
    BY <1>1, <1>3, <1>4, <1>5, <2>1, <2>2
    DEF PreviousApart, RunOpen, cur, payload, Maybe, Tied, Known, Promoting
<1>10. NoSnapshots'
  BY <1>1, <1>4, <1>5 DEF NoSnapshots
<1> QED
  BY <1>7, <1>8, <1>9, <1>10

LEMMA CallsKeepStopped ==
    ASSUME StopInv, CoreInv', UNCHANGED toggle, NEW d \in Deployments,
           \/ OpenDeploy(d) \/ SignalSuperseded(d) \/ StartDeploy(d) \/ LoseCallback(d)
           \/ DeliverSignal(d) \/ LoseSignal(d)
    PROVE  StoppedAsleep' /\ ToggleApart' /\ PreviousApart' /\ NoSnapshots'
<1>1. StoppedAsleep /\ ToggleApart /\ PreviousApart /\ NoSnapshots /\ run \in RunType
  BY DEF StopInv, CoreInv, FlagInv, TypeInv, TypeOK
<1>2. UNCHANGED <<rows, swarm, snapshot>>
  BY DEF OpenDeploy, SignalSuperseded, StartDeploy, LoseCallback, DeliverSignal, LoseSignal,
         resources, database, docker
<1>3. StoppedAsleep' /\ NoSnapshots'
  BY <1>1, <1>2 DEF StoppedAsleep, NoSnapshots, Begun, Unshared, Asleep
<1>5. CASE run' = run \/ run' = [run EXCEPT !.cancels = run'.cancels]
  <2>1. cur' = cur /\ run'.pc = run.pc /\ run'.prev = run.prev /\ payload' = payload
    BY <1>1, <1>2, <1>5 DEF RunType, cur, payload
  <2> QED
    BY <1>1, <1>2, <1>3, <2>1 DEF ToggleApart, PreviousApart, RunOpen, Idle
<1>6. CASE StartDeploy(d) /\ ~RunOpen
  <2>1. run'.pc = "acquire"
    BY <1>6 DEF StartDeploy, NewRun
  <2>2. Idle(cur)'
    BY <2>1 DEF CoreInv, RunPlace, Before, Fresh
  <2> QED
    BY <1>3, <2>1, <2>2 DEF ToggleApart, PreviousApart, Tied, Known, Promoting
<1>7. ASSUME SignalSuperseded(d) \/ DeliverSignal(d)
      PROVE  run' = run \/ run' = [run EXCEPT !.cancels = run'.cancels]
  BY <1>1, <1>7 DEF SignalSuperseded, DeliverSignal, RunType
<1>8. ASSUME OpenDeploy(d) \/ LoseCallback(d) \/ LoseSignal(d) \/ (StartDeploy(d) /\ RunOpen)
      PROVE  run' = run
  BY <1>8 DEF OpenDeploy, LoseCallback, LoseSignal, StartDeploy
<1> QED
  BY <1>5, <1>6, <1>7, <1>8

LEMMA StopInvStep == StopInv /\ [Next]_vars => StopInv'
<1> SUFFICES ASSUME StopInv, [Next]_vars PROVE StopInv'
  OBVIOUS
<1> DEFINE Parts == StoppedAsleep /\ ToggleApart /\ PreviousApart /\ NoSnapshots
<1>1. CoreInv' /\ FaultySteps \cap Fragile = {}
  BY CoreInvStep DEF StopInv
<1>2. ASSUME RunStep \/ ExecutionTimeout PROVE Parts'
  BY <1>2, RunKeepsStopped, RunKeepsApart
<1>3. ASSUME RequestToggle \/ ToggleStep \/ \E d \in Deployments : MonitorDeployment(d)
      PROVE  Parts'
  BY <1>3, ToggleKeepsStopped
<1>4. ASSUME CancelRequestStep, UNCHANGED toggle PROVE Parts'
  BY <1>4, CancelKeepsStopped
<1>5. ASSUME DeployRequestStep \/ SignalStep, UNCHANGED toggle PROVE Parts'
  BY <1>1, <1>5, CommitKeepsStopped, CallsKeepStopped DEF DeployRequestStep, SignalStep
<1>6. ASSUME UNCHANGED vars PROVE Parts'
  <2>1. UNCHANGED <<rows, swarm, snapshot, run, toggle>>
    BY <1>6 DEF vars, resources, database, docker
  <2> QED
    BY <2>1 DEF StopInv, StoppedAsleep, ToggleApart, PreviousApart, NoSnapshots, RunOpen,
                Begun, Unshared, Asleep, Idle, cur, payload
<1>7. Parts'
  BY <1>2, <1>3, <1>4, <1>5, <1>6 DEF Next
<1> QED
  BY <1>1, <1>7 DEF StopInv

\* What the user has stopped stays stopped, unless a deployment has ports or writable
\* volumes: for any number of deployments and of toggles in between, whatever their
\* deployments do.  Only the four failures are excluded that make
\* finish_and_save_deployment save the result of a deployment that is in production
\* already: its status is no longer SLEEPING then, and the next run wakes it up.
THEOREM StoppedStaysAsleep ==
    ASSUME "slow_cancel" \notin Races, "slow_callback" \notin Races,
           FaultySteps \cap Fragile = {}
    PROVE  Spec => []StatelessKeepsAsleep
<1>1. Init => StopInv
  <2> SUFFICES ASSUME Init PROVE StopInv
    OBVIOUS
  <2>1. toggle = NoToggle /\ run = NoRun
    BY DEF Init, RequestInit
  <2>2. \A d \in Deployments : ~snapshot[d].exclusive
    BY DEF Init, ResourcesInit
  <2>3. CoreInv
    BY CoreInvInit
  <2>4. StoppedAsleep /\ ToggleApart /\ PreviousApart
    BY <2>1 DEF StoppedAsleep, ToggleApart, PreviousApart, NoToggle, NoRun, NewRun, RunOpen,
                Tied, Known, Promoting
  <2> QED
    BY <2>2, <2>3, <2>4 DEF StopInv, NoSnapshots
<1>2. StopInv => StatelessKeepsAsleep
  BY DEF StopInv, StoppedAsleep, Unshared, Asleep, StatelessKeepsAsleep
<1> QED
  BY <1>1, <1>2, StopInvStep, PTL DEF Spec
=============================================================================
