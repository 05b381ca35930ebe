---------------------------- MODULE Stacks_proofs ----------------------------
(***************************************************************************)
(* Theorems about the deployment of compose stacks and about the list of   *)
(* routes that stacks share with services and registries.                  *)
(*                                                                         *)
(* ComposeStackDeploy, for any number of deployments, cancellations and    *)
(* incidents and any URLs of the deployments: the lock keeps the three     *)
(* workflows apart; from that follow what a run may rely on between two of *)
(* its activities (the routes, the replicas) and what the archive may.     *)
(* What was called off stays off the swarm because a row that left QUEUED  *)
(* never comes back to it.                                                 *)
(*                                                                         *)
(* CaddyProxy, for any owners, URLs and numbers of requests and runs: the  *)
(* list of routes survives its concurrent writers, a request that succeeds *)
(* is served, and a call gives up only after as many writes of others as   *)
(* it made attempts.  The invariant says, for each step of a client, what  *)
(* that client has done of its goal.  It speaks only of the client's own   *)
(* routes, and of the list as a whole only to count the writes of others.  *)
(***************************************************************************)
EXTENDS ComposeStackDeploy, CaddyProxy, WellFoundedInduction, TLAPS

-----------------------------------------------------------------------------
(* A stack                                                                 *)

\* The steps of a run after its deployment was taken out of the queue, those after it
\* reached the swarm, and all that hold the lock.
Taken == {"tmp_dir", "files", "deploy", "expose", "health", "health_schedule",
          "metrics_schedule", "old_urls"}
Reached == {"expose", "health", "health_schedule", "metrics_schedule", "old_urls"}
Holding == {"prepare", "cleanup", "finalize", "reset", "c_cleanup", "c_save", "c_reset"} \cup Taken

PCs == Steps \cup FinallySteps \cup CancelledSteps \cup {"close", "closed"}

Run ==
  [id : StackDeployments \cup {NoStackDeployment}, pc : PCs,
   cancels : SUBSET StackDeployments, built : BOOLEAN, result : {"FAILED", "FINISHED"},
   next : StackDeployments \cup {NoStackDeployment}]

\* The steps at which the result may be FINISHED.
Late == {"health_schedule", "metrics_schedule", "old_urls", "cleanup", "finalize", "reset",
         "next", "close"}

\* A run, with what it has at each step.
RunTyped(run) ==
  /\ run \in Run
  /\ run.id = NoStackDeployment <=> run.pc = "closed"
  /\ run.pc = "closed" => run = Closed
  /\ run.pc \in {"lock", "prepare", "tmp_dir"} => ~run.built
  /\ run.pc \in Taken \ {"tmp_dir"} => run.built
  /\ run.result = "FINISHED" => run.pc \in Late

VarsTyped ==
  /\ rows \in [StackDeployments ->
                 {"absent", "QUEUED", "DEPLOYING", "FINISHED", "FAILED", "CANCELLED"}]
  /\ toggling \in {"idle", "lock", "stop", "start", "reset"}
  /\ archiving \in {"no", "view", "lock", "unexpose", "remove", "resources", "reset",
                    "undo", "done", "failed", "deleted"}
  /\ lock \in {"free", "deploy", "toggle", "archive"}
  /\ {swarm, last, cancelView} \subseteq StackDeployments \cup {NoStackDeployment}
  /\ swarm # NoStackDeployment => swarm \in deployed
  /\ deployed \cup clis \cup starts \cup signals \cup calledOff \subseteq StackDeployments
  /\ schedules \subseteq {"monitor", "metrics"}
  /\ {strayed, asleep} \subseteq BOOLEAN
  /\ stackFaults \in Nat

\* A workflow that is between its acquisition and its reset has the lock.
LockExcludes ==
  /\ work.pc \in Holding => lock = "deploy"
  /\ toggling \in {"stop", "start", "reset"} => lock = "toggle"
  /\ archiving \in {"unexpose", "remove", "resources", "reset", "undo"} => lock = "archive"

\* The deployments that reached the swarm or are on their way to it.
OnTheirWay ==
  deployed \cup clis \cup {d \in StackDeployments : d = work.id /\ work.pc \in Taken}

\* They are out of the queue, and were never called off.
TakenOnce ==
  /\ \A d \in StackDeployments : rows[d] # "absent" => StackExists
  /\ \A d \in OnTheirWay :
       d \notin calledOff /\ rows[d] # "QUEUED" /\ (StackExists => rows[d] # "absent")
  /\ \A d \in calledOff : rows[d] # "QUEUED" /\ (StackExists => rows[d] # "absent")

\* Without failures, a run leaves DEPLOYING or a directory only to a deployment that
\* reached the swarm.
LeftBehind ==
  stackFaults = 0 =>
    \A d \in StackDeployments :
      /\ rows[d] = "DEPLOYING" =>
           \/ d \in deployed
           \/ d = work.id /\ work.pc \in {"tmp_dir", "files", "deploy", "c_cleanup", "c_save"}
      /\ d \in dirs =>
           \/ d \in deployed
           \/ d = work.id /\ work.pc \in {"files", "deploy", "c_cleanup"}

\* A run is about to finish: it deployed and exposed its deployment.
Finishing == work.pc \in {"cleanup", "finalize"} /\ work.result = "FINISHED"

\* What a run did stays while it goes on.
RunKeepsSwarm ==
  /\ work.pc \in Reached \/ Finishing => work.id \in deployed /\ ~asleep
  /\ last # NoStackDeployment => last \in deployed

RunKeepsRoutes ==
  /\ work.pc \in Reached \ {"expose"} \/ Finishing => UrlsOf[work.id] \subseteq routes
  /\ Finishing /\ stackFaults = 0 => routes = UrlsOf[work.id]

\* The URLs of every deployment that reached the swarm are served.
CommonUrlsServed ==
  StackExists /\ last # NoStackDeployment =>
    \A u \in UrlsOf[last] : (\A d \in deployed : u \in UrlsOf[d]) => u \in routes

\* The archive has the stack for itself, then nothing comes back.
ArchiveAlone ==
  /\ archiving \in {"unexpose", "remove", "resources", "reset", "done"} =>
       work.pc \notin Taken
  /\ archiving \in {"remove", "resources", "reset", "done"} => routes = {}
  /\ archiving \in {"resources", "reset", "done"} => swarm = NoStackDeployment \/ strayed
  /\ archiving \in {"reset", "done"} => schedules = {}

IStack ==
  /\ RunTyped(work) /\ VarsTyped /\ LockExcludes /\ TakenOnce /\ LeftBehind
  /\ RunKeepsSwarm /\ RunKeepsRoutes /\ CommonUrlsServed /\ ArchiveAlone

-----------------------------------------------------------------------------
(* The run                                                                 *)

LEMMA ClosedRun == RunTyped(Closed) /\ Closed.result = "FAILED" /\ Closed.id = NoStackDeployment
<1>1. Closed \in Run /\ Closed.pc = "closed"
  BY DEF Closed, Run, PCs
<1> QED
  BY <1>1 DEF RunTyped, Closed, Taken

LEMMA OpenedRun ==
  ASSUME NEW d \in StackDeployments
  PROVE  LET run == DeployRun(d)
         IN  RunTyped(run) /\ run.pc = "lock" /\ run.id = d /\ run.result = "FAILED"
<1> DEFINE run == DeployRun(d)
<1>1. /\ run \in Run /\ run.pc = "lock" /\ run.id = d /\ run.result = "FAILED" /\ ~run.built
  BY DEF DeployRun, Run, PCs, Steps, Closed
<1>2. d # NoStackDeployment
  BY DEF StackDeployments, NoStackDeployment
<1> HIDE DEF run
<1>3. RunTyped(run)
  BY <1>1, <1>2 DEF RunTyped, Taken
<1> QED
  BY <1>1, <1>3 DEF run

\* A run that goes to another step keeps all else.
LEMMA Moved ==
  ASSUME work \in Run, NEW pc \in PCs, GotoStep(pc)
  PROVE  /\ work' \in Run /\ work'.pc = pc /\ work'.id = work.id
         /\ work'.built = work.built /\ work'.result = work.result
BY DEF GotoStep, Run

LEMMA StepOfRun ==
  ASSUME RunTyped(work), work.pc # "closed", NEW pc \in PCs \ {"closed"}, GotoStep(pc),
         pc \in {"lock", "prepare", "tmp_dir"} => ~work.built,
         pc \in Taken \ {"tmp_dir"} => work.built,
         work.result = "FINISHED" => pc \in Late
  PROVE  RunTyped(work')
BY Moved DEF RunTyped

\* The finally clause closes the run of a deployment whose cancellation is recorded.
LEMMA FinallyOfRun ==
  ASSUME RunTyped(work), work.pc # "closed"
  PROVE  LET run == Finally(work)
         IN  /\ RunTyped(run) /\ run.id = work.id /\ run.result = work.result
             /\ run.pc = IF Cancelled THEN "close"
                         ELSE IF work.built THEN "cleanup" ELSE "finalize"
<1> DEFINE run == Finally(work)
<1>1. /\ run \in Run /\ run.id = work.id /\ run.built = work.built /\ run.result = work.result
      /\ run.pc = IF Cancelled THEN "close"
                  ELSE IF work.built THEN "cleanup" ELSE "finalize"
  BY DEF Finally, Cancelled, Run, PCs, FinallySteps, RunTyped
<1> HIDE DEF run
<1>2. RunTyped(run)
  BY <1>1 DEF RunTyped, Taken, Late
<1> QED
  BY <1>1, <1>2 DEF run

\* The deployment that waits longest is one of them.
LEMMA EarliestQueued ==
  ASSUME NEW queued \in SUBSET StackDeployments, queued # {}
  PROVE  Min(queued) \in queued
<1> DEFINE Less == {ss \in Nat \X Nat : ss[1] < ss[2]}
<1>1. queued \subseteq Nat
  BY DEF StackDeployments
<1>2. IsWellFoundedOn(Less, Nat)
  BY NatLessThanWellFounded DEF OpToRel
<1>3. \A d, e \in Nat : e < d => <<e, d>> \in Less
  OBVIOUS
<1> HIDE DEF Less
<1>4. PICK d \in queued : \A e \in queued : ~(<<e, d>> \in Less)
  BY <1>1, <1>2, WFMin
<1>5. \A e \in queued : d <= e
  <2> TAKE e \in queued
  <2>1. d \in Nat /\ e \in Nat
    BY <1>1
  <2>2. ~(e < d)
    BY <1>3, <1>4, <2>1
  <2> QED
    BY <2>1, <2>2
<1> QED
  BY <1>5 DEF Min

\* A run that goes from a step to another, and keeps its deployment and result.
Moves(from, to) ==
  work.pc \in from /\ work'.pc \in to /\ work'.id = work.id /\ work'.result = work.result

\* A run that opens or closes.
Renewed(pc) == work'.pc = pc /\ work'.result = "FAILED"

\* Where each action takes the run.
LEMMA RunMoves ==
  ASSUME RunTyped(work)
  PROVE
  /\ LockForDeploy => Moves({"lock"}, {"prepare"})
  /\ BeginStackCancellation =>
       Moves(Checked, IF work.built THEN {"c_cleanup"} ELSE {"c_save"})
  /\ PrepareStackDeployment =>
       Moves({"prepare"}, IF rows[work.id] = "QUEUED" THEN {"tmp_dir"} ELSE {"close", "finalize"})
  /\ CreateTemporaryDirectory => Moves({"tmp_dir"}, {"files"})
  /\ CreateFiles => Moves({"files"}, {"deploy"})
  /\ DeployWithCli => Moves({"deploy"}, {"expose"})
  /\ ExposeStack => Moves({"expose"}, {"health"})
  /\ CheckStackHealth =>
       work.pc = "health" /\ work'.pc = "health_schedule" /\ work'.id = work.id
  /\ CreateHealthcheckSchedule => Moves({"health_schedule"}, {"metrics_schedule"})
  /\ CreateMetricsSchedule => Moves({"metrics_schedule"}, {"old_urls"})
  /\ CleanupOldStackUrls => Moves({"old_urls"}, {"close", "cleanup"})
  /\ CleanupDirectory => Moves({"cleanup"}, {"finalize"}) \/ Moves({"c_cleanup"}, {"c_save"})
  /\ FinalizeStackDeployment => Moves({"finalize"}, {"reset"})
  /\ SaveCancelledStack =>
       Moves({"c_save"}, IF Requested(work.id) THEN {"c_reset"} ELSE {"close"})
  /\ ResetAfterDeploy => Moves({"reset", "c_reset"}, {"next", "c_next"})
  /\ GetNextQueuedStack => Moves({"next", "c_next"}, {"close"})
  /\ CloseStackRun => work.pc = "close" /\ (Renewed("closed") \/ Renewed("lock"))
  /\ StackActivityFails =>
       IF work.pc \in Steps \ {"lock"}
       THEN Moves(Steps, {"close"} \cup IF work.built THEN {"cleanup"} ELSE {"finalize"})
       ELSE Moves(PCs \ {"closed"}, {"close"})
  /\ StackRunTimesOut => Renewed("closed")
  /\ \A d \in StackDeployments :
       /\ StartStackRun(d) => UNCHANGED work \/ (work.pc = "closed" /\ Renewed("lock"))
       /\ DeliverStackSignal(d) => Moves({work.pc}, {work.pc})
<1>1. work \in Run
  BY DEF RunTyped
<1> USE <1>1 DEF Moves, Renewed, PCs, Steps, FinallySteps, CancelledSteps
<1>2. ASSUME NEW pc \in PCs, GotoStep(pc) PROVE Moves({work.pc}, {pc})
  BY <1>2, Moved
<1>3. LockForDeploy => Moves({"lock"}, {"prepare"})
  BY <1>2 DEF LockForDeploy
<1>4. BeginStackCancellation => Moves(Checked, IF work.built THEN {"c_cleanup"} ELSE {"c_save"})
  BY <1>2 DEF BeginStackCancellation
<1>5. PrepareStackDeployment =>
        Moves({"prepare"}, IF rows[work.id] = "QUEUED" THEN {"tmp_dir"} ELSE {"close", "finalize"})
  BY <1>2, FinallyOfRun DEF PrepareStackDeployment, RunTyped
<1>6. /\ CreateTemporaryDirectory => Moves({"tmp_dir"}, {"files"})
      /\ CheckStackHealth =>
           work.pc = "health" /\ work'.pc = "health_schedule" /\ work'.id = work.id
  BY DEF CreateTemporaryDirectory, CheckStackHealth, Run
<1>7. /\ CreateFiles => Moves({"files"}, {"deploy"})
      /\ DeployWithCli => Moves({"deploy"}, {"expose"})
      /\ ExposeStack => Moves({"expose"}, {"health"})
  BY <1>2 DEF CreateFiles, DeployWithCli, ExposeStack
<1>8. /\ CreateHealthcheckSchedule => Moves({"health_schedule"}, {"metrics_schedule"})
      /\ CreateMetricsSchedule => Moves({"metrics_schedule"}, {"old_urls"})
  BY <1>2 DEF CreateHealthcheckSchedule, CreateMetricsSchedule, CreateStackSchedule
<1>9. CleanupOldStackUrls => Moves({"old_urls"}, {"close", "cleanup"})
  BY FinallyOfRun DEF CleanupOldStackUrls, RunTyped, Taken
<1>10. /\ CleanupDirectory => Moves({"cleanup"}, {"finalize"}) \/ Moves({"c_cleanup"}, {"c_save"})
       /\ FinalizeStackDeployment => Moves({"finalize"}, {"reset"})
  BY <1>2 DEF CleanupDirectory, FinalizeStackDeployment
<1>11. /\ SaveCancelledStack =>
            Moves({"c_save"}, IF Requested(work.id) THEN {"c_reset"} ELSE {"close"})
       /\ ResetAfterDeploy => Moves({"reset", "c_reset"}, {"next", "c_next"})
  BY <1>2 DEF SaveCancelledStack, ResetAfterDeploy
<1>12. GetNextQueuedStack => Moves({"next", "c_next"}, {"close"})
  BY DEF GetNextQueuedStack, Run
<1>13. CloseStackRun => work.pc = "close" /\ (Renewed("closed") \/ Renewed("lock"))
  BY ClosedRun, OpenedRun DEF CloseStackRun, Run, Closed
<1>14. StackActivityFails =>
         IF work.pc \in Steps \ {"lock"}
         THEN Moves(Steps, {"close"} \cup IF work.built THEN {"cleanup"} ELSE {"finalize"})
         ELSE Moves(PCs \ {"closed"}, {"close"})
  <2> SUFFICES ASSUME StackActivityFails
               PROVE IF work.pc \in Steps \ {"lock"}
                     THEN Moves(Steps, {"close"} \cup IF work.built THEN {"cleanup"} ELSE {"finalize"})
                     ELSE Moves(PCs \ {"closed"}, {"close"})
    OBVIOUS
  <2>1. CASE work.pc \in Steps \ {"lock"}
    BY <2>1, FinallyOfRun DEF StackActivityFails
  <2>2. CASE work.pc \notin Steps \ {"lock"}
    BY <1>2, <2>2 DEF StackActivityFails, GotoStep, Run
  <2> QED
    BY <2>1, <2>2
<1>15. StackRunTimesOut => Renewed("closed")
  BY ClosedRun DEF StackRunTimesOut, Closed
<1>16. ASSUME NEW d \in StackDeployments
       PROVE  /\ StartStackRun(d) => UNCHANGED work \/ (work.pc = "closed" /\ Renewed("lock"))
              /\ DeliverStackSignal(d) => Moves({work.pc}, {work.pc})
  BY <1>16, ClosedRun, OpenedRun DEF StartStackRun, DeliverStackSignal, Run, Closed
<1> QED
  BY <1>3, <1>4, <1>5, <1>6, <1>7, <1>8, <1>9, <1>10, <1>11, <1>12, <1>13, <1>14, <1>15, <1>16

-----------------------------------------------------------------------------
(* Types                                                                   *)

LEMMA TypedImplies == RunTyped(work) /\ VarsTyped /\ RunKeepsSwarm => StackTypeOK
BY DEF RunKeepsSwarm, RunTyped, VarsTyped, StackTypeOK, Run, PCs

LEMMA RunTypedStep == RunTyped(work) /\ VarsTyped /\ [StackNext]_stackVars => RunTyped(work')
<1> SUFFICES ASSUME RunTyped(work), VarsTyped, [StackNext]_stackVars PROVE RunTyped(work')
  OBVIOUS
<1>1. CASE UNCHANGED work
  BY <1>1
<1>2. ASSUME NEW d \in StackDeployments, StartStackRun(d) PROVE RunTyped(work')
  BY <1>2, OpenedRun DEF StartStackRun
<1>3. ASSUME NEW d \in StackDeployments, DeliverStackSignal(d) PROVE RunTyped(work')
  <2>1. CASE work = Closed
    BY <1>3, <2>1 DEF DeliverStackSignal
  <2>2. CASE work # Closed
    <3>1. work' = [work EXCEPT !.cancels = @ \cup {d}]
      BY <1>3, <2>2 DEF DeliverStackSignal
    <3>2. /\ work' \in Run /\ work'.id = work.id /\ work'.pc = work.pc
          /\ work'.built = work.built /\ work'.result = work.result
      BY <3>1 DEF RunTyped, Run
    <3> QED
      BY <2>2, <3>2 DEF RunTyped
  <2> QED
    BY <2>1, <2>2
<1> USE DEF PCs, Steps, FinallySteps, CancelledSteps, Taken, Late
<1>11. CASE LockForDeploy
  BY <1>11, StepOfRun DEF LockForDeploy, RunTyped
<1>12. CASE BeginStackCancellation
  <2>1. /\ work.pc \in Checked /\ work.result = "FAILED"
        /\ GotoStep(IF work.built THEN "c_cleanup" ELSE "c_save")
    BY <1>12 DEF BeginStackCancellation, Checked, RunTyped, Run
  <2> QED
    BY <2>1, StepOfRun DEF Checked
<1>13. CASE PrepareStackDeployment
  BY <1>13, StepOfRun, FinallyOfRun DEF PrepareStackDeployment, RunTyped
<1>14. CASE CreateTemporaryDirectory
  <2>1. work' = [work EXCEPT !.pc = "files", !.built = TRUE] /\ work.pc = "tmp_dir"
    BY <1>14 DEF CreateTemporaryDirectory
  <2>2. /\ work' \in Run /\ work'.id = work.id /\ work'.pc = "files" /\ work'.built
        /\ work'.result = work.result
    BY <2>1 DEF RunTyped, Run
  <2> QED
    BY <2>1, <2>2 DEF RunTyped
<1>15. CASE CreateFiles \/ DeployWithCli \/ ExposeStack
  BY <1>15, StepOfRun DEF CreateFiles, DeployWithCli, ExposeStack, RunTyped
<1>16. CASE CheckStackHealth
  <2>1. work' = [work EXCEPT !.pc = "health_schedule", !.result = "FINISHED"] /\ work.pc = "health"
    BY <1>16 DEF CheckStackHealth
  <2>2. /\ work' \in Run /\ work'.id = work.id /\ work'.pc = "health_schedule"
        /\ work'.built = work.built
    BY <2>1 DEF RunTyped, Run
  <2> QED
    BY <2>1, <2>2 DEF RunTyped
<1>17. CASE CreateHealthcheckSchedule \/ CreateMetricsSchedule
  BY <1>17, StepOfRun DEF CreateHealthcheckSchedule, CreateMetricsSchedule, CreateStackSchedule,
                          RunTyped
<1>18. CASE CleanupOldStackUrls
  BY <1>18, FinallyOfRun DEF CleanupOldStackUrls
<1>19. CASE CleanupDirectory \/ FinalizeStackDeployment \/ SaveCancelledStack \/ ResetAfterDeploy
  BY <1>19, StepOfRun DEF CleanupDirectory, FinalizeStackDeployment, SaveCancelledStack,
                          ResetAfterDeploy, RunTyped
<1>20. CASE GetNextQueuedStack
  <2> DEFINE queued == {d \in StackDeployments : rows[d] = "QUEUED"}
  <2>1. PICK next \in StackDeployments \cup {NoStackDeployment} :
          work' = [work EXCEPT !.pc = "close", !.next = next]
    BY <1>20, EarliestQueued DEF GetNextQueuedStack
  <2>2. /\ work' \in Run /\ work'.id = work.id /\ work'.pc = "close"
        /\ work'.result = work.result
    BY <2>1 DEF RunTyped, Run
  <2> QED
    BY <1>20, <2>2 DEF GetNextQueuedStack, RunTyped
<1>21. CASE CloseStackRun
  BY <1>21, ClosedRun, OpenedRun DEF CloseStackRun, RunTyped, Run
<1>22. CASE StackActivityFails
  <2>1. CASE work.pc \in Steps \ {"lock"}
    BY <1>22, <2>1, FinallyOfRun DEF StackActivityFails
  <2>2. CASE work.pc \notin Steps \ {"lock"}
    <3>1. GotoStep("close") /\ work.pc # "closed"
      BY <1>22, <2>2 DEF StackActivityFails, GotoStep
    <3> QED
      BY <3>1, StepOfRun
  <2> QED
    BY <2>1, <2>2
<1>23. CASE StackRunTimesOut
  BY <1>23, ClosedRun DEF StackRunTimesOut
<1> QED
  <2>1. CASE StackViews
    BY <1>1, <1>2, <1>3, <2>1 DEF StackViews, DeployStack, ReadForStackCancel, SaveStackCancel,
       LoseStackCallback, ToggleStack, ArchiveStack
  <2>2. CASE StackRunStep
    BY <1>11, <1>12, <1>13, <1>14, <1>15, <1>16, <1>17, <1>18, <1>19, <1>20, <1>21, <2>2
    DEF StackRunStep
  <2>3. CASE ToggleStackStep \/ ArchiveStackStep \/ \E d \in StackDeployments : EndCli(d)
    BY <1>1, <2>3 DEF ToggleStackStep, LockForToggle, ScaleStack, ResetAfterToggle,
       ArchiveStackStep, StartArchive, LockForArchive, UnexposeStack, RemoveStack,
       DeleteStackResources, ResetAfterArchive, EndCli
  <2>4. CASE ExpireLock \/ StackLockLost \/ ToggleFails \/ ArchiveFails
    BY <1>1, <2>4 DEF ExpireLock, StackLockLost, ToggleFails, ArchiveFails
  <2>5. CASE UNCHANGED stackVars
    BY <1>1, <2>5 DEF stackVars, beyond, tables
  <2> QED
    BY <1>22, <1>23, <2>1, <2>2, <2>3, <2>4, <2>5 DEF StackNext

LEMMA VarsTypedStep == RunTyped(work) /\ VarsTyped /\ [StackNext]_stackVars => VarsTyped'
<1> SUFFICES ASSUME RunTyped(work), VarsTyped, [StackNext]_stackVars PROVE VarsTyped'
  OBVIOUS
<1> USE DEF VarsTyped, tables, pending, docker, proxied, other, beyond
<1>1. work.id \in StackDeployments \cup {NoStackDeployment} /\ work.result \in {"FAILED", "FINISHED"}
  BY DEF RunTyped, Run
<1>2. work.pc # "closed" => work.id \in StackDeployments
  BY <1>1 DEF RunTyped
<1>3. CASE StackViews
  <2>1. CASE DeployStack
    BY <2>1 DEF DeployStack
  <2>2. CASE SaveStackCancel
    BY <2>2 DEF SaveStackCancel, Requested
  <2>3. CASE LoseStackCallback
    BY <2>3 DEF LoseStackCallback
  <2>4. CASE ToggleStack
    BY <2>4 DEF ToggleStack
  <2>5. CASE ArchiveStack
    BY <2>5 DEF ArchiveStack
  <2>6. ASSUME NEW d \in StackDeployments,
               StartStackRun(d) \/ ReadForStackCancel(d) \/ DeliverStackSignal(d)
        PROVE  VarsTyped'
    BY <2>6 DEF StartStackRun, ReadForStackCancel, DeliverStackSignal
  <2> QED
    BY <1>3, <2>1, <2>2, <2>3, <2>4, <2>5, <2>6 DEF StackViews
<1>4. CASE StackRunStep
  <2>1. CASE LockForDeploy \/ CreateFiles \/ CheckStackHealth \/ GetNextQueuedStack \/ CloseStackRun
    BY <2>1 DEF LockForDeploy, CreateFiles, CheckStackHealth, GetNextQueuedStack, CloseStackRun
  <2>2. CASE BeginStackCancellation
    BY <1>2, <2>2 DEF BeginStackCancellation
  <2>3. CASE PrepareStackDeployment
    BY <1>2, <2>3 DEF PrepareStackDeployment
  <2>4. CASE CreateTemporaryDirectory \/ ExposeStack \/ CleanupOldStackUrls \/ CleanupDirectory
    BY <2>4 DEF CreateTemporaryDirectory, ExposeStack, CleanupOldStackUrls, CleanupDirectory
  <2>5. CASE DeployWithCli
    BY <1>2, <2>5 DEF DeployWithCli, OnSwarm
  <2>6. CASE CreateHealthcheckSchedule \/ CreateMetricsSchedule
    BY <2>6 DEF CreateHealthcheckSchedule, CreateMetricsSchedule, CreateStackSchedule
  <2>7. CASE FinalizeStackDeployment
    BY <1>1, <1>2, <2>7 DEF FinalizeStackDeployment, Requested
  <2>8. CASE SaveCancelledStack \/ ResetAfterDeploy
    BY <2>8 DEF SaveCancelledStack, ResetAfterDeploy
  <2> QED
    BY <1>4, <2>1, <2>2, <2>3, <2>4, <2>5, <2>6, <2>7, <2>8 DEF StackRunStep
<1>5. CASE ToggleStackStep
  BY <1>5 DEF ToggleStackStep, LockForToggle, ScaleStack, ResetAfterToggle
<1>6. CASE ArchiveStackStep
  BY <1>6 DEF ArchiveStackStep, StartArchive, LockForArchive, UnexposeStack, RemoveStack,
     DeleteStackResources, ResetAfterArchive, ArchiveGoto
<1>7. ASSUME NEW d \in StackDeployments, EndCli(d) PROVE VarsTyped'
  BY <1>7 DEF EndCli, OnSwarm
<1>8. ASSUME StackFault PROVE stackFaults' \in Nat
  BY <1>8 DEF StackFault
<1>9. CASE StackActivityFails
  BY <1>2, <1>8, <1>9 DEF StackActivityFails, OnSwarm
<1>10. CASE ExpireLock \/ StackLockLost
  BY <1>8, <1>10 DEF ExpireLock, StackLockLost
<1>11. CASE StackRunTimesOut
  BY <1>2, <1>8, <1>11 DEF StackRunTimesOut
<1>12. CASE ToggleFails \/ ArchiveFails
  BY <1>8, <1>12 DEF ToggleFails, ArchiveFails
<1>13. CASE UNCHANGED stackVars
  BY <1>13 DEF stackVars
<1> QED
  BY <1>3, <1>4, <1>5, <1>6, <1>7, <1>9, <1>10, <1>11, <1>12, <1>13 DEF StackNext

-----------------------------------------------------------------------------
(* The lock                                                                *)

LEMMA LockExcludesStep ==
  RunTyped(work) /\ VarsTyped /\ LockExcludes /\ [StackNext]_stackVars => LockExcludes'
<1> SUFFICES ASSUME RunTyped(work), VarsTyped, LockExcludes, [StackNext]_stackVars
             PROVE  LockExcludes'
  OBVIOUS
<1> USE RunMoves DEF LockExcludes, Holding, Taken, Moves, Renewed, other, beyond
<1>1. CASE StackViews
  <2>1. CASE DeployStack \/ SaveStackCancel \/ LoseStackCallback \/ ToggleStack \/ ArchiveStack
    BY <2>1 DEF DeployStack, SaveStackCancel, LoseStackCallback, ToggleStack, ArchiveStack,
                StackExists
  <2>2. ASSUME NEW d \in StackDeployments, StartStackRun(d) \/ DeliverStackSignal(d)
        PROVE  LockExcludes'
    BY <2>2 DEF StartStackRun, DeliverStackSignal
  <2>3. ASSUME NEW d \in StackDeployments, ReadForStackCancel(d) PROVE LockExcludes'
    BY <2>3 DEF ReadForStackCancel
  <2> QED
    BY <1>1, <2>1, <2>2, <2>3 DEF StackViews
<1>2. CASE StackRunStep
  <2>1. CASE LockForDeploy
    BY <2>1 DEF LockForDeploy
  <2>2. CASE BeginStackCancellation \/ PrepareStackDeployment \/ CreateTemporaryDirectory
             \/ CreateFiles \/ DeployWithCli \/ ExposeStack \/ CheckStackHealth
    BY <2>2 DEF BeginStackCancellation, PrepareStackDeployment, CreateTemporaryDirectory,
       CreateFiles, DeployWithCli, ExposeStack, CheckStackHealth, Checked
  <2>3. CASE CreateHealthcheckSchedule \/ CreateMetricsSchedule \/ CleanupOldStackUrls
             \/ CleanupDirectory \/ FinalizeStackDeployment \/ SaveCancelledStack
    BY <2>3 DEF CreateHealthcheckSchedule, CreateMetricsSchedule, CreateStackSchedule,
       CleanupOldStackUrls, CleanupDirectory, FinalizeStackDeployment, SaveCancelledStack
  <2>4. CASE ResetAfterDeploy
    BY <2>4 DEF ResetAfterDeploy
  <2>5. CASE GetNextQueuedStack \/ CloseStackRun
    BY <2>5 DEF GetNextQueuedStack, CloseStackRun
  <2> QED
    BY <1>2, <2>1, <2>2, <2>3, <2>4, <2>5 DEF StackRunStep
<1>3. CASE ToggleStackStep
  BY <1>3 DEF ToggleStackStep, LockForToggle, ScaleStack, ResetAfterToggle
<1>4. CASE ArchiveStackStep
  BY <1>4 DEF ArchiveStackStep, StartArchive, LockForArchive, UnexposeStack, RemoveStack,
     DeleteStackResources, ResetAfterArchive, ArchiveGoto
<1>5. ASSUME NEW d \in StackDeployments, EndCli(d) PROVE LockExcludes'
  BY <1>5 DEF EndCli
<1>6. CASE ExpireLock
  BY <1>6 DEF ExpireLock
<1>7. CASE StackActivityFails
  BY <1>7 DEF StackActivityFails, Steps
<1>8. CASE StackLockLost \/ StackRunTimesOut
  BY <1>8 DEF StackLockLost, StackRunTimesOut
<1>9. CASE ToggleFails \/ ArchiveFails
  BY <1>9 DEF ToggleFails, ArchiveFails
<1>10. CASE UNCHANGED stackVars
  BY <1>10 DEF stackVars
<1> QED
  BY <1>1, <1>2, <1>3, <1>4, <1>5, <1>6, <1>7, <1>8, <1>9, <1>10 DEF StackNext

-----------------------------------------------------------------------------
(* What is taken out of the queue                                          *)

LEMMA TakenOnceStep ==
  RunTyped(work) /\ VarsTyped /\ TakenOnce /\ [StackNext]_stackVars => TakenOnce'
<1> SUFFICES ASSUME RunTyped(work), VarsTyped, TakenOnce, [StackNext]_stackVars
             PROVE  TakenOnce'
  OBVIOUS
<1>id. work.pc # "closed" => work.id \in StackDeployments
  BY DEF RunTyped, Run
<1>way. ASSUME OnTheirWay' \subseteq OnTheirWay, UNCHANGED <<rows, calledOff, archiving>>
        PROVE  TakenOnce'
  BY <1>way DEF TakenOnce, StackExists, VarsTyped
<1> USE RunMoves DEF TakenOnce, OnTheirWay, Taken, Moves, Renewed, StackExists, VarsTyped,
                     tables, pending, docker, proxied, other, beyond
<1>1. CASE StackViews
  <2>1. CASE DeployStack
    BY <2>1 DEF DeployStack, Requested
  <2>2. CASE SaveStackCancel
    BY <2>2 DEF SaveStackCancel, Requested
  <2>3. CASE LoseStackCallback \/ ToggleStack
    BY <2>3 DEF LoseStackCallback, ToggleStack
  <2>4. CASE ArchiveStack
    BY <2>4 DEF ArchiveStack
  <2>5. ASSUME NEW d \in StackDeployments, StartStackRun(d) \/ DeliverStackSignal(d)
        PROVE  TakenOnce'
    BY <2>5 DEF StartStackRun, DeliverStackSignal
  <2>6. ASSUME NEW d \in StackDeployments, ReadForStackCancel(d) PROVE TakenOnce'
    BY <2>6 DEF ReadForStackCancel
  <2> QED
    BY <1>1, <2>1, <2>2, <2>3, <2>4, <2>5, <2>6 DEF StackViews
<1>2. CASE StackRunStep
  <2>1. CASE LockForDeploy \/ CreateTemporaryDirectory \/ CreateFiles
             \/ ExposeStack \/ CheckStackHealth
    BY <2>1 DEF LockForDeploy, CreateTemporaryDirectory, CreateFiles, ExposeStack, CheckStackHealth
  <2>2. CASE BeginStackCancellation
    <3>1. clis' \subseteq clis \cup {d \in StackDeployments : d = work.id /\ work.pc = "deploy"}
      BY <1>id, <2>2 DEF BeginStackCancellation
    <3>2. OnTheirWay' \subseteq OnTheirWay
      BY <2>2, <3>1 DEF BeginStackCancellation, Checked
    <3> QED
      BY <1>way, <2>2, <3>2 DEF BeginStackCancellation
  <2>3. CASE PrepareStackDeployment
    BY <2>3 DEF PrepareStackDeployment
  <2>4. CASE DeployWithCli
    <3>1. OnTheirWay' \subseteq OnTheirWay
      BY <1>id, <2>4 DEF DeployWithCli, OnSwarm
    <3> QED
      BY <1>way, <2>4, <3>1 DEF DeployWithCli
  <2>5. CASE CreateHealthcheckSchedule \/ CreateMetricsSchedule \/ CleanupOldStackUrls
             \/ CleanupDirectory 
    BY <2>5 DEF CreateHealthcheckSchedule, CreateMetricsSchedule, CreateStackSchedule,
       CleanupOldStackUrls, CleanupDirectory
  <2>6. CASE FinalizeStackDeployment \/ SaveCancelledStack
    BY <2>6 DEF FinalizeStackDeployment, SaveCancelledStack, Requested, RunTyped, Run
  <2>7. CASE ResetAfterDeploy \/ GetNextQueuedStack \/ CloseStackRun
    BY <2>7 DEF ResetAfterDeploy, GetNextQueuedStack, CloseStackRun
  <2> QED
    BY <1>2, <2>1, <2>2, <2>3, <2>4, <2>5, <2>6, <2>7 DEF StackRunStep
<1>3. CASE ToggleStackStep
  BY <1>3 DEF ToggleStackStep, LockForToggle, ScaleStack, ResetAfterToggle
<1>4. CASE ArchiveStackStep
  BY <1>4 DEF ArchiveStackStep, StartArchive, LockForArchive, UnexposeStack, RemoveStack,
     DeleteStackResources, ResetAfterArchive, ArchiveGoto
<1>5. ASSUME NEW d \in StackDeployments, EndCli(d) PROVE TakenOnce'
  BY <1>5 DEF EndCli, OnSwarm
<1>6. CASE ExpireLock \/ StackLockLost
  BY <1>6 DEF ExpireLock, StackLockLost
<1>7. CASE StackActivityFails
  <2>1. deployed' \subseteq deployed \cup {d \in StackDeployments : d = work.id /\ work.pc = "deploy"}
    BY <1>id, <1>7 DEF StackActivityFails, OnSwarm
  <2>2. OnTheirWay' \subseteq OnTheirWay
    BY <1>7, <2>1 DEF StackActivityFails
  <2> QED
    BY <1>way, <1>7, <2>2 DEF StackActivityFails
<1>8. CASE StackRunTimesOut
  <2>1. clis' \subseteq clis \cup {d \in StackDeployments : d = work.id /\ work.pc = "deploy"}
    BY <1>id, <1>8 DEF StackRunTimesOut
  <2>2. OnTheirWay' \subseteq OnTheirWay
    BY <1>8, <2>1 DEF StackRunTimesOut
  <2> QED
    BY <1>way, <1>8, <2>2 DEF StackRunTimesOut
<1>9. CASE ToggleFails \/ ArchiveFails
  BY <1>9 DEF ToggleFails, ArchiveFails
<1>10. CASE UNCHANGED stackVars
  BY <1>10 DEF stackVars
<1> QED
  BY <1>1, <1>2, <1>3, <1>4, <1>5, <1>6, <1>7, <1>8, <1>9, <1>10 DEF StackNext

-----------------------------------------------------------------------------
(* What a run leaves behind                                                *)

LEMMA LeftBehindStep ==
  RunTyped(work) /\ VarsTyped /\ LeftBehind /\ [StackNext]_stackVars
    => LeftBehind'
<1> SUFFICES ASSUME RunTyped(work), VarsTyped, LeftBehind, [StackNext]_stackVars
             PROVE  LeftBehind'
  OBVIOUS
<1> USE RunMoves DEF LeftBehind, VarsTyped, Moves, Renewed, tables, pending, docker, proxied, other, beyond
<1>1. CASE StackViews
  <2>1. CASE DeployStack \/ LoseStackCallback \/ ToggleStack
    BY <2>1 DEF DeployStack, LoseStackCallback, ToggleStack, Requested
  <2>2. CASE SaveStackCancel
    BY <2>2 DEF SaveStackCancel, Requested
  <2>3. CASE ArchiveStack
    BY <2>3 DEF ArchiveStack
  <2>4. ASSUME NEW d \in StackDeployments, StartStackRun(d) \/ DeliverStackSignal(d)
        PROVE  LeftBehind'
    BY <2>4 DEF StartStackRun, DeliverStackSignal
  <2>5. ASSUME NEW d \in StackDeployments, ReadForStackCancel(d) PROVE LeftBehind'
    BY <2>5 DEF ReadForStackCancel
  <2> QED
    BY <1>1, <2>1, <2>2, <2>3, <2>4, <2>5 DEF StackViews
<1>2. CASE StackRunStep
  <2>1. CASE LockForDeploy \/ CreateFiles \/ CheckStackHealth
    BY <2>1 DEF LockForDeploy, CreateFiles, CheckStackHealth
  <2>2. CASE BeginStackCancellation
    BY <2>2 DEF BeginStackCancellation, Checked, RunTyped, Taken
  <2>3. CASE PrepareStackDeployment
    BY <2>3 DEF PrepareStackDeployment
  <2>4. CASE CreateTemporaryDirectory
    BY <2>4 DEF CreateTemporaryDirectory
  <2>5. CASE DeployWithCli
    BY <2>5 DEF DeployWithCli, OnSwarm
  <2>6. CASE ExposeStack
    BY <2>6 DEF ExposeStack
  <2>7. CASE CreateHealthcheckSchedule \/ CreateMetricsSchedule
    BY <2>7 DEF CreateHealthcheckSchedule, CreateMetricsSchedule, CreateStackSchedule
  <2>8. CASE CleanupOldStackUrls
    BY <2>8 DEF CleanupOldStackUrls
  <2>9. CASE CleanupDirectory
    BY <2>9 DEF CleanupDirectory
  <2>10. CASE FinalizeStackDeployment \/ SaveCancelledStack
    <3>1. work.result \in {"FAILED", "FINISHED"}
      BY DEF RunTyped, Run
    <3> QED
      BY <2>10, <3>1 DEF FinalizeStackDeployment, SaveCancelledStack, Requested
  <2>11. CASE ResetAfterDeploy \/ GetNextQueuedStack \/ CloseStackRun
    BY <2>11 DEF ResetAfterDeploy, GetNextQueuedStack, CloseStackRun
  <2> QED
    BY <1>2, <2>1, <2>2, <2>3, <2>4, <2>5, <2>6, <2>7, <2>8, <2>9, <2>10, <2>11 DEF StackRunStep
<1>3. CASE ToggleStackStep
  BY <1>3 DEF ToggleStackStep, LockForToggle, ScaleStack, ResetAfterToggle
<1>4. CASE ArchiveStackStep
  BY <1>4 DEF ArchiveStackStep, StartArchive, LockForArchive, UnexposeStack, RemoveStack,
     DeleteStackResources, ResetAfterArchive, ArchiveGoto
<1>5. ASSUME NEW d \in StackDeployments, EndCli(d) PROVE LeftBehind'
  BY <1>5 DEF EndCli, OnSwarm
<1>6. CASE ExpireLock \/ StackLockLost
  BY <1>6 DEF ExpireLock, StackLockLost, StackFault
<1>7. CASE StackActivityFails
  BY <1>7 DEF StackActivityFails, OnSwarm, StackFault, Steps
<1>8. CASE StackRunTimesOut
  BY <1>8 DEF StackRunTimesOut, StackFault
<1>9. CASE ToggleFails \/ ArchiveFails
  BY <1>9 DEF ToggleFails, ArchiveFails, StackFault
<1>10. CASE UNCHANGED stackVars
  BY <1>10 DEF stackVars
<1> QED
  BY <1>1, <1>2, <1>3, <1>4, <1>5, <1>6, <1>7, <1>8, <1>9, <1>10 DEF StackNext

-----------------------------------------------------------------------------
(* What a run may rely on                                                  *)

LEMMA RunKeepsSwarmStep ==
  RunTyped(work) /\ VarsTyped /\ LockExcludes /\ RunKeepsSwarm /\ [StackNext]_stackVars
    => RunKeepsSwarm'
<1> SUFFICES ASSUME RunTyped(work), VarsTyped, LockExcludes, RunKeepsSwarm, [StackNext]_stackVars
             PROVE  RunKeepsSwarm'
  OBVIOUS
<1>failed. work.pc \notin Late => work.result = "FAILED"
  BY DEF RunTyped, Run
<1> USE RunMoves DEF RunKeepsSwarm, LockExcludes, Finishing, Holding, Reached, Taken, VarsTyped, Moves, Renewed,
               tables, pending, docker, proxied, other, beyond
<1>1. CASE StackViews
  <2>1. CASE DeployStack \/ LoseStackCallback \/ ToggleStack
    BY <2>1 DEF DeployStack, LoseStackCallback, ToggleStack, Requested
  <2>2. CASE SaveStackCancel
    BY <2>2 DEF SaveStackCancel, Requested
  <2>3. CASE ArchiveStack
    BY <2>3 DEF ArchiveStack
  <2>4. ASSUME NEW d \in StackDeployments, StartStackRun(d) \/ DeliverStackSignal(d)
        PROVE  RunKeepsSwarm'
    BY <2>4 DEF StartStackRun, DeliverStackSignal
  <2>5. ASSUME NEW d \in StackDeployments, ReadForStackCancel(d) PROVE RunKeepsSwarm'
    BY <2>5 DEF ReadForStackCancel
  <2> QED
    BY <1>1, <2>1, <2>2, <2>3, <2>4, <2>5 DEF StackViews
<1>2. CASE StackRunStep
  <2>1. CASE LockForDeploy \/ CreateFiles \/ CheckStackHealth
    BY <2>1 DEF LockForDeploy, CreateFiles, CheckStackHealth
  <2>2. CASE BeginStackCancellation
    BY <2>2 DEF BeginStackCancellation, Checked
  <2>3. CASE PrepareStackDeployment
    BY <1>failed, <2>3 DEF PrepareStackDeployment, Late
  <2>4. CASE CreateTemporaryDirectory
    BY <2>4 DEF CreateTemporaryDirectory
  <2>5. CASE DeployWithCli
    BY <2>5 DEF DeployWithCli, OnSwarm
  <2>6. CASE ExposeStack
    BY <2>6 DEF ExposeStack
  <2>7. CASE CreateHealthcheckSchedule \/ CreateMetricsSchedule
    BY <2>7 DEF CreateHealthcheckSchedule, CreateMetricsSchedule, CreateStackSchedule
  <2>8. CASE CleanupOldStackUrls
    BY <2>8 DEF CleanupOldStackUrls
  <2>9. CASE CleanupDirectory
    BY <2>9 DEF CleanupDirectory
  <2>10. CASE FinalizeStackDeployment \/ SaveCancelledStack
    BY <2>10 DEF FinalizeStackDeployment, SaveCancelledStack, Requested
  <2>11. CASE ResetAfterDeploy \/ GetNextQueuedStack \/ CloseStackRun
    BY <2>11 DEF ResetAfterDeploy, GetNextQueuedStack, CloseStackRun
  <2> QED
    BY <1>2, <2>1, <2>2, <2>3, <2>4, <2>5, <2>6, <2>7, <2>8, <2>9, <2>10, <2>11 DEF StackRunStep
<1>3. CASE ToggleStackStep
  BY <1>3 DEF ToggleStackStep, LockForToggle, ScaleStack, ResetAfterToggle
<1>4. CASE ArchiveStackStep
  BY <1>4 DEF ArchiveStackStep, StartArchive, LockForArchive, UnexposeStack, RemoveStack,
     DeleteStackResources, ResetAfterArchive, ArchiveGoto
<1>5. ASSUME NEW d \in StackDeployments, EndCli(d) PROVE RunKeepsSwarm'
  BY <1>5 DEF EndCli, OnSwarm
<1>6. CASE ExpireLock \/ StackLockLost
  BY <1>6 DEF ExpireLock, StackLockLost, StackFault
<1>7. CASE StackActivityFails
  <2>1. work'.pc \notin Reached /\ work'.id = work.id
    BY <1>7
  <2>2. Finishing' => work.pc \in {"health_schedule", "metrics_schedule", "old_urls"}
    BY <1>failed, <1>7 DEF Steps, Late
  <2>3. work.pc # "deploy" => UNCHANGED <<deployed, asleep>>
    BY <1>7 DEF StackActivityFails
  <2>4. UNCHANGED last /\ deployed \subseteq deployed'
    BY <1>7 DEF StackActivityFails, OnSwarm
  <2> QED
    BY <2>1, <2>2, <2>3, <2>4
<1>8. CASE StackRunTimesOut
  BY <1>8 DEF StackRunTimesOut, StackFault
<1>9. CASE ToggleFails \/ ArchiveFails
  BY <1>9 DEF ToggleFails, ArchiveFails, StackFault
<1>10. CASE UNCHANGED stackVars
  BY <1>10 DEF stackVars
<1> QED
  BY <1>1, <1>2, <1>3, <1>4, <1>5, <1>6, <1>7, <1>8, <1>9, <1>10 DEF StackNext

LEMMA RunKeepsRoutesStep ==
  RunTyped(work) /\ VarsTyped /\ LockExcludes /\ RunKeepsRoutes /\ [StackNext]_stackVars
    => RunKeepsRoutes'
<1> SUFFICES ASSUME RunTyped(work), VarsTyped, LockExcludes, RunKeepsRoutes, [StackNext]_stackVars
             PROVE  RunKeepsRoutes'
  OBVIOUS
<1>failed. work.pc \notin Late => work.result = "FAILED"
  BY DEF RunTyped, Run
<1> USE RunMoves DEF RunKeepsRoutes, LockExcludes, Finishing, Holding, Reached, Taken, VarsTyped, Moves,
               Renewed, tables, pending, docker, proxied, other, beyond
<1>1. CASE StackViews
  <2>1. CASE DeployStack \/ LoseStackCallback \/ ToggleStack
    BY <2>1 DEF DeployStack, LoseStackCallback, ToggleStack, Requested
  <2>2. CASE SaveStackCancel
    BY <2>2 DEF SaveStackCancel, Requested
  <2>3. CASE ArchiveStack
    BY <2>3 DEF ArchiveStack
  <2>4. ASSUME NEW d \in StackDeployments, StartStackRun(d) \/ DeliverStackSignal(d)
        PROVE  RunKeepsRoutes'
    BY <2>4 DEF StartStackRun, DeliverStackSignal
  <2>5. ASSUME NEW d \in StackDeployments, ReadForStackCancel(d) PROVE RunKeepsRoutes'
    BY <2>5 DEF ReadForStackCancel
  <2> QED
    BY <1>1, <2>1, <2>2, <2>3, <2>4, <2>5 DEF StackViews
<1>2. CASE StackRunStep
  <2>1. CASE LockForDeploy \/ CreateFiles \/ CheckStackHealth
    BY <2>1 DEF LockForDeploy, CreateFiles, CheckStackHealth
  <2>2. CASE BeginStackCancellation
    BY <2>2 DEF BeginStackCancellation, Checked
  <2>3. CASE PrepareStackDeployment
    BY <1>failed, <2>3 DEF PrepareStackDeployment, Late
  <2>4. CASE CreateTemporaryDirectory
    BY <2>4 DEF CreateTemporaryDirectory
  <2>5. CASE DeployWithCli
    BY <2>5 DEF DeployWithCli, OnSwarm
  <2>6. CASE ExposeStack
    BY <2>6 DEF ExposeStack
  <2>7. CASE CreateHealthcheckSchedule \/ CreateMetricsSchedule
    BY <2>7 DEF CreateHealthcheckSchedule, CreateMetricsSchedule, CreateStackSchedule
  <2>8. CASE CleanupOldStackUrls
    BY <2>8 DEF CleanupOldStackUrls
  <2>9. CASE CleanupDirectory
    BY <2>9 DEF CleanupDirectory
  <2>10. CASE FinalizeStackDeployment \/ SaveCancelledStack
    BY <2>10 DEF FinalizeStackDeployment, SaveCancelledStack, Requested
  <2>11. CASE ResetAfterDeploy \/ GetNextQueuedStack \/ CloseStackRun
    BY <2>11 DEF ResetAfterDeploy, GetNextQueuedStack, CloseStackRun
  <2> QED
    BY <1>2, <2>1, <2>2, <2>3, <2>4, <2>5, <2>6, <2>7, <2>8, <2>9, <2>10, <2>11 DEF StackRunStep
<1>3. CASE ToggleStackStep
  BY <1>3 DEF ToggleStackStep, LockForToggle, ScaleStack, ResetAfterToggle
<1>4. CASE ArchiveStackStep
  BY <1>4 DEF ArchiveStackStep, StartArchive, LockForArchive, UnexposeStack, RemoveStack,
     DeleteStackResources, ResetAfterArchive, ArchiveGoto
<1>5. ASSUME NEW d \in StackDeployments, EndCli(d) PROVE RunKeepsRoutes'
  BY <1>5 DEF EndCli, OnSwarm
<1>6. CASE ExpireLock \/ StackLockLost
  BY <1>6 DEF ExpireLock, StackLockLost, StackFault
<1>7. CASE StackActivityFails
  <2>1. work'.pc \notin Reached /\ work'.id = work.id
    BY <1>7
  <2>2. Finishing' => work.pc \in {"health_schedule", "metrics_schedule", "old_urls"}
    BY <1>failed, <1>7 DEF Steps, Late
  <2>3. routes \subseteq routes' /\ stackFaults' # 0
    BY <1>7 DEF StackActivityFails, StackFault
  <2> QED
    BY <2>1, <2>2, <2>3
<1>8. CASE StackRunTimesOut
  BY <1>8 DEF StackRunTimesOut, StackFault
<1>9. CASE ToggleFails \/ ArchiveFails
  BY <1>9 DEF ToggleFails, ArchiveFails, StackFault
<1>10. CASE UNCHANGED stackVars
  BY <1>10 DEF stackVars
<1> QED
  BY <1>1, <1>2, <1>3, <1>4, <1>5, <1>6, <1>7, <1>8, <1>9, <1>10 DEF StackNext

LEMMA CommonUrlsServedStep ==
  RunTyped(work) /\ VarsTyped /\ RunKeepsSwarm /\ RunKeepsRoutes /\ CommonUrlsServed /\ [StackNext]_stackVars
    => CommonUrlsServed'
<1> SUFFICES ASSUME RunTyped(work), VarsTyped, RunKeepsSwarm, RunKeepsRoutes, CommonUrlsServed, [StackNext]_stackVars
             PROVE  CommonUrlsServed'
  OBVIOUS
<1> USE RunMoves DEF CommonUrlsServed, RunKeepsSwarm, RunKeepsRoutes, Finishing, Reached, StackExists, VarsTyped,
               Moves, Renewed, tables, pending, docker, proxied, other, beyond
<1>1. CASE StackViews
  <2>1. CASE DeployStack \/ LoseStackCallback \/ ToggleStack
    BY <2>1 DEF DeployStack, LoseStackCallback, ToggleStack, Requested
  <2>2. CASE SaveStackCancel
    BY <2>2 DEF SaveStackCancel, Requested
  <2>3. CASE ArchiveStack
    BY <2>3 DEF ArchiveStack
  <2>4. ASSUME NEW d \in StackDeployments, StartStackRun(d) \/ DeliverStackSignal(d)
        PROVE  CommonUrlsServed'
    BY <2>4 DEF StartStackRun, DeliverStackSignal
  <2>5. ASSUME NEW d \in StackDeployments, ReadForStackCancel(d) PROVE CommonUrlsServed'
    BY <2>5 DEF ReadForStackCancel
  <2> QED
    BY <1>1, <2>1, <2>2, <2>3, <2>4, <2>5 DEF StackViews
<1>2. CASE StackRunStep
  <2>1. CASE LockForDeploy \/ CreateFiles \/ CheckStackHealth
    BY <2>1 DEF LockForDeploy, CreateFiles, CheckStackHealth
  <2>2. CASE BeginStackCancellation
    BY <2>2 DEF BeginStackCancellation, Checked
  <2>3. CASE PrepareStackDeployment
    BY <2>3 DEF PrepareStackDeployment
  <2>4. CASE CreateTemporaryDirectory
    BY <2>4 DEF CreateTemporaryDirectory
  <2>5. CASE DeployWithCli
    BY <2>5 DEF DeployWithCli, OnSwarm
  <2>6. CASE ExposeStack
    BY <2>6 DEF ExposeStack
  <2>7. CASE CreateHealthcheckSchedule \/ CreateMetricsSchedule
    BY <2>7 DEF CreateHealthcheckSchedule, CreateMetricsSchedule, CreateStackSchedule
  <2>8. CASE CleanupOldStackUrls
    BY <2>8 DEF CleanupOldStackUrls
  <2>9. CASE CleanupDirectory
    BY <2>9 DEF CleanupDirectory
  <2>10. CASE FinalizeStackDeployment \/ SaveCancelledStack
    BY <2>10 DEF FinalizeStackDeployment, SaveCancelledStack, Requested
  <2>11. CASE ResetAfterDeploy \/ GetNextQueuedStack \/ CloseStackRun
    BY <2>11 DEF ResetAfterDeploy, GetNextQueuedStack, CloseStackRun
  <2> QED
    BY <1>2, <2>1, <2>2, <2>3, <2>4, <2>5, <2>6, <2>7, <2>8, <2>9, <2>10, <2>11 DEF StackRunStep
<1>3. CASE ToggleStackStep
  BY <1>3 DEF ToggleStackStep, LockForToggle, ScaleStack, ResetAfterToggle
<1>4. CASE ArchiveStackStep
  BY <1>4 DEF ArchiveStackStep, StartArchive, LockForArchive, UnexposeStack, RemoveStack,
     DeleteStackResources, ResetAfterArchive, ArchiveGoto
<1>5. ASSUME NEW d \in StackDeployments, EndCli(d) PROVE CommonUrlsServed'
  BY <1>5 DEF EndCli, OnSwarm
<1>6. CASE ExpireLock \/ StackLockLost
  BY <1>6 DEF ExpireLock, StackLockLost, StackFault
<1>7. CASE StackActivityFails
  BY <1>7 DEF StackActivityFails, OnSwarm, StackFault, Steps
<1>8. CASE StackRunTimesOut
  BY <1>8 DEF StackRunTimesOut, StackFault
<1>9. CASE ToggleFails \/ ArchiveFails
  BY <1>9 DEF ToggleFails, ArchiveFails, StackFault
<1>10. CASE UNCHANGED stackVars
  BY <1>10 DEF stackVars
<1> QED
  BY <1>1, <1>2, <1>3, <1>4, <1>5, <1>6, <1>7, <1>8, <1>9, <1>10 DEF StackNext

-----------------------------------------------------------------------------
(* What the archive may rely on                                            *)

LEMMA ArchiveAloneStep ==
  RunTyped(work) /\ VarsTyped /\ LockExcludes /\ TakenOnce /\ ArchiveAlone /\ [StackNext]_stackVars
    => ArchiveAlone'
<1> SUFFICES ASSUME RunTyped(work), VarsTyped, LockExcludes, TakenOnce, ArchiveAlone, [StackNext]_stackVars
             PROVE  ArchiveAlone'
  OBVIOUS
<1>id. work.pc # "closed" => work.id \in StackDeployments
  BY DEF RunTyped, Run
<1> USE RunMoves DEF ArchiveAlone, LockExcludes, TakenOnce, Holding, Taken, StackExists, VarsTyped, Moves,
               Renewed, tables, pending, docker, proxied, other, beyond
<1>1. CASE StackViews
  <2>1. CASE DeployStack \/ LoseStackCallback \/ ToggleStack
    BY <2>1 DEF DeployStack, LoseStackCallback, ToggleStack, Requested
  <2>2. CASE SaveStackCancel
    BY <2>2 DEF SaveStackCancel, Requested
  <2>3. CASE ArchiveStack
    BY <2>3 DEF ArchiveStack
  <2>4. ASSUME NEW d \in StackDeployments, StartStackRun(d) \/ DeliverStackSignal(d)
        PROVE  ArchiveAlone'
    BY <2>4 DEF StartStackRun, DeliverStackSignal
  <2>5. ASSUME NEW d \in StackDeployments, ReadForStackCancel(d) PROVE ArchiveAlone'
    BY <2>5 DEF ReadForStackCancel
  <2> QED
    BY <1>1, <2>1, <2>2, <2>3, <2>4, <2>5 DEF StackViews
<1>2. CASE StackRunStep
  <2>1. CASE LockForDeploy \/ CreateFiles \/ CheckStackHealth
    BY <2>1 DEF LockForDeploy, CreateFiles, CheckStackHealth
  <2>2. CASE BeginStackCancellation
    BY <2>2 DEF BeginStackCancellation, Checked
  <2>3. CASE PrepareStackDeployment
    BY <1>id, <2>3 DEF PrepareStackDeployment
  <2>4. CASE CreateTemporaryDirectory
    BY <2>4 DEF CreateTemporaryDirectory
  <2>5. CASE DeployWithCli
    BY <2>5 DEF DeployWithCli, OnSwarm
  <2>6. CASE ExposeStack
    BY <2>6 DEF ExposeStack
  <2>7. CASE CreateHealthcheckSchedule \/ CreateMetricsSchedule
    BY <2>7 DEF CreateHealthcheckSchedule, CreateMetricsSchedule, CreateStackSchedule
  <2>8. CASE CleanupOldStackUrls
    BY <2>8 DEF CleanupOldStackUrls
  <2>9. CASE CleanupDirectory
    BY <2>9 DEF CleanupDirectory
  <2>10. CASE FinalizeStackDeployment \/ SaveCancelledStack
    BY <2>10 DEF FinalizeStackDeployment, SaveCancelledStack, Requested
  <2>11. CASE ResetAfterDeploy \/ GetNextQueuedStack \/ CloseStackRun
    BY <2>11 DEF ResetAfterDeploy, GetNextQueuedStack, CloseStackRun
  <2> QED
    BY <1>2, <2>1, <2>2, <2>3, <2>4, <2>5, <2>6, <2>7, <2>8, <2>9, <2>10, <2>11 DEF StackRunStep
<1>3. CASE ToggleStackStep
  BY <1>3 DEF ToggleStackStep, LockForToggle, ScaleStack, ResetAfterToggle
<1>4. CASE ArchiveStackStep
  BY <1>4 DEF ArchiveStackStep, StartArchive, LockForArchive, UnexposeStack, RemoveStack,
     DeleteStackResources, ResetAfterArchive, ArchiveGoto
<1>5. ASSUME NEW d \in StackDeployments, EndCli(d) PROVE ArchiveAlone'
  BY <1>5 DEF EndCli, OnSwarm
<1>6. CASE ExpireLock \/ StackLockLost
  BY <1>6 DEF ExpireLock, StackLockLost, StackFault
<1>7. CASE StackActivityFails
  BY <1>7 DEF StackActivityFails, OnSwarm, StackFault, Steps
<1>8. CASE StackRunTimesOut
  BY <1>8 DEF StackRunTimesOut, StackFault
<1>9. CASE ToggleFails \/ ArchiveFails
  BY <1>9 DEF ToggleFails, ArchiveFails, StackFault
<1>10. CASE UNCHANGED stackVars
  BY <1>10 DEF stackVars
<1> QED
  BY <1>1, <1>2, <1>3, <1>4, <1>5, <1>6, <1>7, <1>8, <1>9, <1>10 DEF StackNext

-----------------------------------------------------------------------------
(* Results                                                                 *)

LEMMA IStackInit == StackInit => IStack
<1> SUFFICES ASSUME StackInit PROVE IStack
  OBVIOUS
<1> USE DEF StackInit
<1>1. RunTyped(work) /\ work.pc = "closed" /\ work.id = NoStackDeployment
  BY ClosedRun DEF Closed
<1>2. VarsTyped
  BY DEF VarsTyped
<1>3. LockExcludes /\ TakenOnce /\ LeftBehind
  BY <1>1 DEF LockExcludes, Holding, Taken, TakenOnce, OnTheirWay, LeftBehind
<1>4. RunKeepsSwarm /\ RunKeepsRoutes /\ CommonUrlsServed /\ ArchiveAlone
  BY <1>1 DEF RunKeepsSwarm, RunKeepsRoutes, CommonUrlsServed, ArchiveAlone, Reached, Finishing,
     Taken
<1> QED
  BY <1>1, <1>2, <1>3, <1>4 DEF IStack

LEMMA IStackStep == IStack /\ [StackNext]_stackVars => IStack'
BY RunTypedStep, VarsTypedStep, LockExcludesStep, TakenOnceStep, LeftBehindStep,
   RunKeepsSwarmStep, RunKeepsRoutesStep, CommonUrlsServedStep, ArchiveAloneStep DEF IStack

LEMMA IStackInvariant == StackSpec => []IStack
BY IStackInit, IStackStep, PTL DEF StackSpec

\* The variables keep their types, a deployment that the user called off in the queue
\* never reaches the swarm, and without failures what a run leaves behind did.
THEOREM StackCorrect == StackSpec => []StackInv
<1>1. IStack => StackTypeOK
  BY TypedImplies DEF IStack
<1>2. IStack => CancelledNotDeployed
  BY DEF IStack, TakenOnce, OnTheirWay, CancelledNotDeployed
<1>3. IStack => LeftAreDeployed
  BY DEF IStack, LeftBehind, LeftAreDeployed
<1> QED
  BY <1>1, <1>2, <1>3, IStackInvariant, PTL DEF StackInv

\* A URL that every deployment on the swarm has is served from the first that finishes
\* on; without failures, one that finishes leaves exactly its own.
THEOREM UrlsServedCorrect == StackSpec => []StackUrlsServed
<1>1. IStack => StackUrlsServed
  BY DEF IStack, CommonUrlsServed, RunKeepsRoutes, Finishing, StackUrlsServed
<1> QED
  BY <1>1, IStackInvariant, PTL

\* No stop request puts services to sleep between a deployment on the swarm and its
\* report as FINISHED.
THEOREM FinishedAwakeCorrect == StackSpec => []FinishedAwake
<1>1. IStack => FinishedAwake
  BY DEF IStack, RunKeepsSwarm, Finishing, FinishedAwake
<1> QED
  BY <1>1, IStackInvariant, PTL

\* An archived stack has no route and no schedule, and no service but what a CLI that
\* outlived its run put back.
THEOREM ArchivedCorrect == StackSpec => []ArchivedLeavesNothing
<1>1. IStack => ArchivedLeavesNothing
  BY DEF IStack, ArchiveAlone, ArchivedLeavesNothing
<1> QED
  BY <1>1, IStackInvariant, PTL

-----------------------------------------------------------------------------
(* The list of routes                                                      *)

ProxySteps ==
  {"idle", "start", "insert", "patch", "replace", "remove", "delete", "list", "purge",
   "done", "error", "failed"}

Client ==
  [step : ProxySteps, version : Nat, goal : SUBSET Urls, left : SUBSET Urls,
   url : Urls \cup {NoUrl}, seen : (SUBSET Route) \cup {NoRead},
   attempts : 0..MAX_ETAG_ATTEMPTS, beaten : 0..MAX_ETAG_ATTEMPTS, runs : 0..MaxProxyRuns]

\* The values of a client, and its counters at each step.
ClientTyped(c) ==
  /\ c \in Client
  /\ c.url \in c.left \cup {NoUrl}
  /\ c.step = "start" => c.runs < MaxProxyRuns
  /\ c.step \in {"patch", "delete"} => c.url \in c.left /\ c.attempts > 0
  /\ c.step \in {"insert", "remove", "replace"} => c.attempts < MAX_ETAG_ATTEMPTS
  /\ c.step \in {"list", "purge"} => c.url = NoUrl

\* A call in progress was beaten at each attempt that failed, and at the present one
\* when the list rs is no longer what it read.
Beaten(c, o, rs) ==
  /\ c.step \in {"insert", "remove"} => c.beaten >= c.attempts
  /\ c.step \in {"patch", "delete"} =>
       c.beaten + 1 >= c.attempts /\ (c.seen # rs => c.beaten >= c.attempts)
  /\ c.step = "error" /\ o \notin Registries => c.beaten = MAX_ETAG_ATTEMPTS

Entry(c, o, u) == [owner |-> o, url |-> u, version |-> c.version]

\* What the routes rs of the owner are at each step of its request.
Progress(c, o, rs) ==
  /\ o \in Registries => \A u, v \in c.goal : u = v
  /\ c.step \in {"insert", "patch"} =>
       c.goal # {} /\ c.left \subseteq c.goal /\ \A u \in c.goal \ c.left : Entry(c, o, u) \in rs
  /\ c.step = "replace" => o \in Registries /\ c.left = c.goal /\ c.goal # {}
  /\ c.step \in {"list", "purge"} =>
       /\ o \in Registries => c.goal = {}
       /\ \A u \in c.goal : Entry(c, o, u) \in rs
  /\ c.step = "purge" =>
       c.left \cap c.goal = {} /\ \A r \in rs : r.url \in c.goal \cup c.left
  /\ c.step \in {"remove", "delete"} =>
       c.goal = {} /\ \A r \in rs : r.url \in c.left
  /\ c.step = "done" =>
       rs = [owner : {o}, url : c.goal, version : {c.version}]

ClientOK(c, o, rs) ==
  ClientTyped(c) /\ Beaten(c, o, rs) /\ Progress(c, o, {r \in rs : r.owner = o})

TableOK(rs) ==
  /\ rs \subseteq Route
  /\ \A r, s \in rs : SameId(r, s.owner, s.url) => r = s

IProxy ==
  /\ TableOK(table)
  /\ client \in [Owners -> Client]
  /\ ours \in [Owners -> SUBSET Route]
  /\ OthersKept
  /\ \A o \in Owners : ClientOK(client[o], o, table)

-----------------------------------------------------------------------------
(* Steps of a client                                                       *)

LEMMA NewClientTyped ==
  /\ NewClient \in Client
  /\ NewClient.left = {} /\ NewClient.url = NoUrl /\ NewClient.attempts = 0
  /\ NewClient.beaten = 0 /\ NewClient.runs = 0
<1>1. 0 \in 0..MaxProxyRuns /\ 0 \in 0..MAX_ETAG_ATTEMPTS
  BY ProxyBounds DEF MAX_ETAG_ATTEMPTS
<1> QED
  BY <1>1 DEF NewClient, Client, ProxySteps

LEMMA IProxyInit == ProxyInit => IProxy
<1> SUFFICES ASSUME ProxyInit PROVE IProxy
  OBVIOUS
<1>1. NewClient \in Client
  BY NewClientTyped
<1>2. ClientTyped(NewClient)
  BY <1>1 DEF ClientTyped, NewClient
<1>3. TableOK(table) /\ OthersKept /\ ours \in [Owners -> SUBSET Route]
  BY DEF ProxyInit, TableOK, OthersKept, RoutesOf
<1>4. ASSUME NEW o \in Owners PROVE Beaten(NewClient, o, table) /\ Progress(NewClient, o, {})
  BY DEF Beaten, Progress, NewClient
<1> QED
  BY <1>1, <1>2, <1>3, <1>4 DEF ProxyInit, IProxy, ClientOK

\* A step that only changes the client of o.
LEMMA GotoKeeps ==
  ASSUME IProxy, NEW o \in Owners, NEW c, Goto(o, c), ClientOK(c, o, table)
  PROVE  IProxy'
<1>1. table' = table /\ ours' = ours /\ client' = [client EXCEPT ![o] = c]
  BY DEF Goto
<1>2. c \in Client
  BY DEF ClientOK, ClientTyped
<1>3. client' \in [Owners -> Client]
  BY <1>1, <1>2 DEF IProxy
<1>4. ASSUME NEW p \in Owners PROVE ClientOK(client'[p], p, table')
  BY <1>1, <1>4 DEF IProxy
<1>5. OthersKept'
  BY <1>1 DEF IProxy, OthersKept, RoutesOf
<1> QED
  BY <1>1, <1>3, <1>4, <1>5 DEF IProxy

\* A write of o leaves the routes of the others, and a list with one route under an id.
LEMMA WrittenTable ==
  ASSUME NEW rs, TableOK(rs), NEW o \in Owners, NEW u \in Urls, NEW c \in Client, client[o] = c
  PROVE  /\ TableOK(Drop(rs, o, u)) /\ TableOK(Put(rs, o, u))
         /\ Put(rs, o, u) = Drop(rs, o, u) \cup {Entry(c, o, u)}
         /\ \A p \in Owners \ {o} :
              /\ {r \in Drop(rs, o, u) : r.owner = p} = {r \in rs : r.owner = p}
              /\ {r \in Put(rs, o, u) : r.owner = p} = {r \in rs : r.owner = p}
<1>1. Entry(c, o, u) \in Route
  BY DEF Entry, Client, Route
<1>2. Put(rs, o, u) = Drop(rs, o, u) \cup {Entry(c, o, u)}
  BY DEF Put, Entry
<1>3. TableOK(Drop(rs, o, u))
  BY DEF TableOK, Drop
<1>4. TableOK(Put(rs, o, u))
  <2>1. ASSUME NEW r \in Drop(rs, o, u)
        PROVE  ~SameId(r, o, u) /\ ~SameId(Entry(c, o, u), r.owner, r.url)
    BY DEF Drop, SameId, Entry
  <2>2. Entry(c, o, u).owner = o /\ Entry(c, o, u).url = u
    BY DEF Entry
  <2> QED
    BY <1>1, <1>2, <1>3, <2>1, <2>2 DEF TableOK
<1>5. ASSUME NEW p \in Owners \ {o}
      PROVE  {r \in Drop(rs, o, u) : r.owner = p} = {r \in rs : r.owner = p}
  BY DEF Drop, SameId
<1>6. ASSUME NEW p \in Owners \ {o}
      PROVE  {r \in Put(rs, o, u) : r.owner = p} = {r \in rs : r.owner = p}
  BY <1>2, <1>5 DEF Entry
<1> QED
  BY <1>2, <1>3, <1>4, <1>5, <1>6

\* A write by o, after which it goes on as c.
LEMMA WriteKeeps ==
  ASSUME IProxy, NEW o \in Owners, NEW u \in Urls, NEW c,
         \/ Write(o, Put(table, o, u), Put(ours[o], o, u), c)
         \/ Write(o, Drop(table, o, u), Drop(ours[o], o, u), c),
         ClientOK(c, o, table')
  PROVE  IProxy'
<1>1. /\ \/ table' = Put(table, o, u) /\ ours' = [ours EXCEPT ![o] = Put(ours[o], o, u)]
         \/ table' = Drop(table, o, u) /\ ours' = [ours EXCEPT ![o] = Drop(ours[o], o, u)]
      /\ client' =
           [p \in Owners |->
              IF p = o THEN c
              ELSE IF client[p].attempts > 0 /\ client[p].beaten < MAX_ETAG_ATTEMPTS
              THEN [client[p] EXCEPT !.beaten = @ + 1]
              ELSE client[p]]
  BY DEF Write
<1>2. client[o] \in Client /\ c \in Client
  BY DEF IProxy, ClientOK, ClientTyped
<1>3. TableOK(table')
  BY <1>1, <1>2, WrittenTable DEF IProxy
<1>4. ASSUME NEW p \in Owners \ {o} 
      PROVE  {r \in table' : r.owner = p} = {r \in table : r.owner = p} /\ ours'[p] = ours[p]
  BY <1>1, <1>2, WrittenTable DEF IProxy
<1>5. {r \in table' : r.owner = o} = ours'[o] /\ ours' \in [Owners -> SUBSET Route]
  <2>1. ours[o] = {r \in table : r.owner = o}
    BY DEF IProxy, OthersKept, RoutesOf
  <2>2. Put(ours[o], o, u) = {r \in Put(table, o, u) : r.owner = o}
    BY <2>1 DEF Put, Drop
  <2>3. Drop(ours[o], o, u) = {r \in Drop(table, o, u) : r.owner = o}
    BY <2>1 DEF Drop
  <2>4. {r \in table' : r.owner = o} = ours'[o] 
    BY <1>1, <2>2, <2>3 DEF IProxy
  <2>5. {r \in table' : r.owner = o} \in SUBSET Route
    BY <1>3 DEF TableOK
  <2> QED
    BY <1>1, <2>2, <2>3, <2>4, <2>5 DEF IProxy
<1>6. OthersKept'
  BY <1>4, <1>5 DEF IProxy, OthersKept, RoutesOf
<1>7. ASSUME NEW p \in Owners \ {o} PROVE ClientOK(client'[p], p, table')
  <2> DEFINE b == client[p]
             d == client'[p]
             rs == {r \in table : r.owner = p}
  <2>1. ClientTyped(b) /\ Beaten(b, p, table) /\ Progress(b, p, rs) /\ b \in Client
    BY DEF IProxy, ClientOK
  <2>2. CASE b.attempts > 0 /\ b.beaten < MAX_ETAG_ATTEMPTS
    <3>1. d = [b EXCEPT !.beaten = @ + 1]
      BY <1>1, <2>2
    <3> HIDE DEF b, d
    <3>2. d \in Client
      BY <3>1, <2>1, <2>2 DEF Client, MAX_ETAG_ATTEMPTS
    <3>3. ClientTyped(d)
      BY <3>1, <3>2, <2>1 DEF ClientTyped, Client
    <3>4. Beaten(d, p, table')
      BY <3>1, <2>1, <2>2 DEF Beaten, Client, MAX_ETAG_ATTEMPTS
    <3>5. Progress(d, p, rs)
      BY <3>1, <2>1 DEF Progress, Entry, Client
    <3> QED
      BY <3>3, <3>4, <3>5, <1>4 DEF ClientOK, d
  <2>3. CASE ~(b.attempts > 0 /\ b.beaten < MAX_ETAG_ATTEMPTS)
    <3>1. d = b
      BY <1>1, <2>3
    <3> HIDE DEF b, d
    <3>2. Beaten(d, p, table')
      BY <3>1, <2>1, <2>3 DEF Beaten, ClientTyped, Client, MAX_ETAG_ATTEMPTS
    <3> QED
      BY <3>1, <3>2, <2>1, <1>4 DEF ClientOK, d
  <2> QED
    BY <2>2, <2>3
<1>8. client' \in [Owners -> Client]
  BY <1>1, <1>2, <1>7 DEF ClientOK, ClientTyped
<1>9. ClientOK(client'[o], o, table')
  BY <1>1
<1> QED
  BY <1>3, <1>5, <1>6, <1>7, <1>8, <1>9 DEF IProxy

-----------------------------------------------------------------------------
(* The steps keep the invariant                                            *)

LEMMA RequestRoutesKeeps ==
  ASSUME IProxy, NEW o \in Owners, RequestRoutes(o) PROVE IProxy'
<1> DEFINE c == client[o]
<1>1. c \in Client
  BY DEF IProxy
<1>2. PICK goal \in SUBSET Urls :
        /\ o \in Registries => \A u, v \in goal : u = v
        /\ Goto(o, [NewClient EXCEPT !.step = "start", !.version = c.version + 1, !.goal = goal])
  BY DEF RequestRoutes
<1> DEFINE d == [NewClient EXCEPT !.step = "start", !.version = c.version + 1, !.goal = goal]
<1>3. /\ d.step = "start" /\ d.version = c.version + 1 /\ d.goal = goal /\ d.left = {}
      /\ d.url = NoUrl /\ d.runs = 0 
      /\ d \in Client
  <2>1. c.version + 1 \in Nat /\ "start" \in ProxySteps
    BY <1>1 DEF Client, ProxySteps
  <2>2. d \in Client
    BY <2>1, NewClientTyped DEF Client
  <2>3. /\ d.step = "start" /\ d.version = c.version + 1 /\ d.goal = goal
        /\ d.left = NewClient.left /\ d.url = NewClient.url /\ d.runs = NewClient.runs
    BY NewClientTyped DEF Client
  <2> QED
    BY <2>2, <2>3, NewClientTyped
<1> HIDE DEF d
<1>4. ClientTyped(d)
  BY <1>3, ProxyBounds DEF ClientTyped
<1>5. Beaten(d, o, table) /\ Progress(d, o, {r \in table : r.owner = o})
  BY <1>2, <1>3 DEF Beaten, Progress
<1>6. Goto(o, d)
  BY <1>2 DEF d
<1> QED
  BY <1>4, <1>5, <1>6, GotoKeeps DEF ClientOK

LEMMA StartActivityKeeps ==
  ASSUME IProxy, NEW o \in Owners, StartActivity(o) PROVE IProxy'
<1> DEFINE c == client[o]
           rs == {r \in table : r.owner = o}
           begun == [NewClient EXCEPT !.version = c.version, !.goal = c.goal, !.runs = c.runs + 1]
<1>1. ClientTyped(c) /\ Progress(c, o, rs) /\ c.step = "start"
  BY DEF IProxy, ClientOK, StartActivity
<1>2. table \in SUBSET Route /\ \A r \in rs : r.url \in Urls
  BY DEF IProxy, TableOK, Route
<1>3. /\ begun \in Client /\ begun.goal = c.goal /\ begun.left = {} /\ begun.url = NoUrl
      /\ begun.attempts = 0 /\ begun.beaten = 0
  <2>1. c.version \in Nat /\ c.goal \in SUBSET Urls /\ c.runs + 1 \in 0..MaxProxyRuns
    BY <1>1, ProxyBounds DEF ClientTyped, Client
  <2>2. begun \in Client
    BY <2>1, NewClientTyped DEF Client
  <2>3. /\ begun.goal = c.goal /\ begun.left = NewClient.left /\ begun.url = NewClient.url
        /\ begun.attempts = NewClient.attempts /\ begun.beaten = NewClient.beaten
    BY NewClientTyped DEF Client
  <2> QED
    BY <2>2, <2>3, NewClientTyped
<1> HIDE DEF begun
<1>4. CASE c.goal # {} /\ o \in Registries /\ RoutesOf(o) # {}
  <2> DEFINE d == [begun EXCEPT !.step = "replace", !.left = c.goal, !.seen = table]
  <2>1. d \in Client
    BY <1>1, <1>2, <1>3 DEF ClientTyped, Client, ProxySteps
  <2>2. ClientTyped(d)
    BY <2>1, <1>3 DEF ClientTyped, Client, MAX_ETAG_ATTEMPTS
  <2>3. Beaten(d, o, table) /\ Progress(d, o, rs)
    BY <1>1, <1>3, <1>4 DEF Beaten, Progress, Client
  <2>4. Goto(o, d)
    BY <1>4 DEF StartActivity, begun
  <2> QED
    BY <2>2, <2>3, <2>4, GotoKeeps DEF ClientOK
<1>5. CASE c.goal # {} /\ ~(o \in Registries /\ RoutesOf(o) # {})
  <2> DEFINE d == [begun EXCEPT !.step = "insert", !.left = c.goal]
  <2>1. d \in Client
    BY <1>1, <1>3 DEF ClientTyped, Client, ProxySteps
  <2>2. ClientTyped(d)
    BY <2>1, <1>3 DEF ClientTyped, Client, MAX_ETAG_ATTEMPTS
  <2>3. Beaten(d, o, table) /\ Progress(d, o, rs)
    BY <1>1, <1>3, <1>5 DEF Beaten, Progress, Client
  <2>4. Goto(o, d)
    BY <1>5 DEF StartActivity, begun
  <2> QED
    BY <2>2, <2>3, <2>4, GotoKeeps DEF ClientOK
<1>6. CASE c.goal = {} /\ o \in Services
  <2> DEFINE d == [begun EXCEPT !.step = "remove", !.left = Urls]
  <2>1. d \in Client
    BY <1>3 DEF Client, ProxySteps
  <2>2. ClientTyped(d)
    BY <2>1, <1>3 DEF ClientTyped, Client, MAX_ETAG_ATTEMPTS
  <2>3. Beaten(d, o, table) /\ Progress(d, o, rs)
    BY <1>1, <1>2, <1>3, <1>6 DEF Beaten, Progress, Client
  <2>4. Goto(o, d)
    BY <1>6 DEF StartActivity, begun
  <2> QED
    BY <2>2, <2>3, <2>4, GotoKeeps DEF ClientOK
<1>7. CASE c.goal = {} /\ o \notin Services
  <2> DEFINE d == [begun EXCEPT !.step = "list"]
  <2>1. d \in Client
    BY <1>3 DEF Client, ProxySteps
  <2>2. ClientTyped(d)
    BY <2>1, <1>3 DEF ClientTyped, Client, MAX_ETAG_ATTEMPTS
  <2>3. Beaten(d, o, table) /\ Progress(d, o, rs)
    BY <1>1, <1>3, <1>7 DEF Beaten, Progress, Client
  <2>4. Goto(o, d)
    BY <1>7 DEF StartActivity, begun
  <2> QED
    BY <2>2, <2>3, <2>4, GotoKeeps DEF ClientOK
<1> QED
  BY <1>4, <1>5, <1>6, <1>7

\* An attempt at one of the URLs that are left.
LEMMA AttemptOK ==
  ASSUME NEW o \in Owners, NEW c, NEW step \in {"patch", "delete"}, TableOK(table),
         ClientOK(c, o, table), NEW u \in c.left,
         c.step = IF step = "patch" THEN "insert" ELSE "remove"
  PROVE  ClientOK([Attempt(c, u) EXCEPT !.step = step], o, table)
<1> DEFINE d == [Attempt(c, u) EXCEPT !.step = step]
           rs == {r \in table : r.owner = o}
<1>1. ClientTyped(c) /\ Beaten(c, o, table) /\ Progress(c, o, rs)
  BY DEF ClientOK
<1>2. table \in SUBSET Route
  BY DEF TableOK
<1>3. /\ d \in Client /\ d.step = step /\ d.url = u /\ d.attempts = c.attempts + 1
      /\ d.beaten = c.beaten /\ d.seen = table /\ d.goal = c.goal /\ d.left = c.left
      /\ d.version = c.version
  <2>1. c \in Client /\ c.attempts + 1 \in 0..MAX_ETAG_ATTEMPTS /\ u \in Urls
    BY <1>1 DEF ClientTyped, Client, MAX_ETAG_ATTEMPTS
  <2>2. Attempt(c, u) \in Client
    BY <1>2, <2>1 DEF Attempt, Client
  <2>3. /\ Attempt(c, u).url = u /\ Attempt(c, u).attempts = c.attempts + 1
        /\ Attempt(c, u).beaten = c.beaten /\ Attempt(c, u).seen = table
        /\ Attempt(c, u).goal = c.goal /\ Attempt(c, u).left = c.left
        /\ Attempt(c, u).version = c.version
    BY <2>1 DEF Attempt, Client
  <2> QED
    BY <2>2, <2>3 DEF Client, ProxySteps
<1> HIDE DEF d, rs
<1>4. ClientTyped(d)
  BY <1>1, <1>3 DEF ClientTyped, Client
<1>5. Beaten(d, o, table)
  BY <1>1, <1>3 DEF Beaten, ClientTyped, Client
<1>6. Progress(d, o, rs)
  BY <1>1, <1>3 DEF Progress, Entry
<1> QED
  BY <1>4, <1>5, <1>6 DEF ClientOK, d, rs

\* The routes that an owner has alone: those of a registry, which have one id.
LEMMA OnlyEntry ==
  ASSUME NEW c, NEW o, NEW u, c.goal = {u}
  PROVE  [owner : {o}, url : c.goal, version : {c.version}] = {Entry(c, o, u)}
<1> DEFINE all == [owner : {o}, url : c.goal, version : {c.version}]
<1>1. Entry(c, o, u) \in all
  BY DEF Entry
<1>2. ASSUME NEW r \in all PROVE r = Entry(c, o, u)
  BY <1>2 DEF Entry
<1> HIDE DEF all
<1>3. all = {Entry(c, o, u)}
  BY <1>1, <1>2
<1> QED
  BY <1>3 DEF all

LEMMA ReadRoutesKeeps ==
  ASSUME IProxy, NEW o \in Owners, ReadRoutes(o) PROVE IProxy'
<1> DEFINE c == client[o]
           rs == {r \in table : r.owner = o}
<1>1. /\ ClientTyped(c) /\ Beaten(c, o, table) /\ Progress(c, o, rs) /\ c.step = "insert"
      /\ TableOK(table)
  BY DEF IProxy, ClientOK, ReadRoutes
<1>2. CASE c.left = {}
  <2> DEFINE d == [c EXCEPT !.step = IF o \in Registries THEN "done" ELSE "list"]
  <2>1. ClientTyped(d) /\ d.step = (IF o \in Registries THEN "done" ELSE "list") /\ d.goal = c.goal
        /\ d.version = c.version
    BY <1>1, <1>2 DEF ClientTyped, Client, ProxySteps
  <2>2. Goto(o, d)
    BY <1>2 DEF ReadRoutes
  <2> HIDE DEF d
  <2>3. \A u \in c.goal : Entry(d, o, u) \in rs
    BY <1>1, <1>2, <2>1 DEF Progress, Entry
  <2>4. ASSUME o \in Registries PROVE rs = [owner : {o}, url : d.goal, version : {d.version}]
    <3>1. PICK u \in d.goal : d.goal = {u}
      BY <1>1, <2>1, <2>4 DEF Progress
    <3>2. Entry(d, o, u) \in rs
      BY <2>1, <2>3, <3>1
    <3>3. \A r \in rs : r = Entry(d, o, u)
      BY <1>1, <2>4, <3>2 DEF TableOK, SameId
    <3>4. rs = {Entry(d, o, u)}
      BY <3>2, <3>3
    <3> QED
      BY <3>1, <3>4, OnlyEntry
  <2>5. Beaten(d, o, table)
    BY <2>1 DEF Beaten
  <2>6. Progress(d, o, rs)
    BY <1>1, <2>1, <2>3, <2>4 DEF Progress
  <2> QED
    BY <2>1, <2>2, <2>5, <2>6, GotoKeeps DEF ClientOK
<1>3. CASE c.left # {}
  <2>1. PICK u \in Current(c) : Goto(o, [Attempt(c, u) EXCEPT !.step = "patch"])
    BY <1>3 DEF ReadRoutes
  <2>2. u \in c.left
    BY <1>1, <2>1 DEF Current, ClientTyped
  <2>3. ClientOK(c, o, table)
    BY DEF IProxy
  <2>4. ClientOK([Attempt(c, u) EXCEPT !.step = "patch"], o, table)
    BY <1>1, <2>2, <2>3, AttemptOK
  <2> QED
    BY <2>1, <2>4, GotoKeeps
<1> QED
  BY <1>2, <1>3

\* A refused condition at a list that others have changed.
LEMMA RefusedKeeps ==
  ASSUME IProxy, NEW o \in Owners, NEW step \in {"insert", "remove"}, table # client[o].seen,
         client[o].step = IF step = "insert" THEN "patch" ELSE "delete", Refused(o, step)
  PROVE  IProxy'
<1> DEFINE c == client[o]
           rs == {r \in table : r.owner = o}
           next == IF c.attempts < MAX_ETAG_ATTEMPTS THEN step ELSE "error"
           d == [c EXCEPT !.step = next]
<1>1. ClientTyped(c) /\ Beaten(c, o, table) /\ Progress(c, o, rs)
  BY DEF IProxy, ClientOK
<1>2. Goto(o, d)
  BY DEF Refused
<1>3. /\ d \in Client /\ d.step = next /\ d.url = c.url /\ d.attempts = c.attempts
      /\ d.beaten = c.beaten /\ d.goal = c.goal /\ d.left = c.left /\ d.version = c.version
  BY <1>1 DEF ClientTyped, Client, ProxySteps
<1>4. c.beaten >= c.attempts
  BY <1>1 DEF Beaten
<1> HIDE DEF c, d, rs
<1>5. ClientTyped(d)
  BY <1>1, <1>3 DEF ClientTyped, Client
<1>6. Beaten(d, o, table)
  BY <1>1, <1>3, <1>4 DEF Beaten, ClientTyped, Client, MAX_ETAG_ATTEMPTS
<1>7. Progress(d, o, rs)
  BY <1>1, <1>3 DEF Progress, Entry, c
<1> QED
  BY <1>2, <1>5, <1>6, <1>7, GotoKeeps DEF ClientOK, d, rs

LEMMA NextUrlTyped ==
  ASSUME NEW c \in Client
  PROVE  LET n == NextUrl(c)
         IN  /\ n \in Client /\ n.step = c.step /\ n.url = NoUrl /\ n.attempts = 0
             /\ n.beaten = 0 /\ n.goal = c.goal /\ n.left = c.left \ {c.url}
             /\ n.version = c.version /\ n.runs = c.runs
<1>1. 0 \in 0..MAX_ETAG_ATTEMPTS /\ NoRead \in (SUBSET Route) \cup {NoRead}
      /\ c.left \ {c.url} \in SUBSET Urls /\ NoUrl \in Urls \cup {NoUrl}
  BY DEF MAX_ETAG_ATTEMPTS, Client
<1> QED
  BY <1>1 DEF NextUrl, Client

\* After a URL, the request is at the next one.
LEMMA AfterUrl ==
  ASSUME NEW c \in Client, NEW step \in {"insert", "remove"}
  PROVE  LET d == [NextUrl(c) EXCEPT !.step = step]
         IN  /\ ClientTyped(d) /\ d.step = step /\ d.attempts = 0 /\ d.beaten = 0
             /\ d.goal = c.goal /\ d.left = c.left \ {c.url} /\ d.version = c.version
<1> DEFINE n == NextUrl(c)
           d == [n EXCEPT !.step = step]
<1>1. /\ n \in Client /\ n.url = NoUrl /\ n.attempts = 0 /\ n.beaten = 0
      /\ n.goal = c.goal /\ n.left = c.left \ {c.url} /\ n.version = c.version
  BY NextUrlTyped
<1> HIDE DEF n
<1>2. /\ d \in Client /\ d.step = step /\ d.url = NoUrl /\ d.attempts = 0 /\ d.beaten = 0
      /\ d.goal = c.goal /\ d.left = c.left \ {c.url} /\ d.version = c.version
  BY <1>1 DEF Client, ProxySteps
<1> HIDE DEF d
<1>3. ClientTyped(d)
  BY <1>2 DEF ClientTyped, MAX_ETAG_ATTEMPTS
<1> QED
  BY <1>2, <1>3 DEF d, n

LEMMA PatchRoutesKeeps ==
  ASSUME IProxy, NEW o \in Owners, PatchRoutes(o) PROVE IProxy'
<1> DEFINE c == client[o]
           rs == {r \in table : r.owner = o}
<1>1. /\ ClientTyped(c) /\ Progress(c, o, rs) /\ c.step = "patch" /\ TableOK(table)
      /\ c \in Client
  BY DEF IProxy, ClientOK, ClientTyped, PatchRoutes
<1>2. CASE table = c.seen
  <2> DEFINE d == [NextUrl(c) EXCEPT !.step = "insert"]
             rt == {r \in table' : r.owner = o}
  <2>1. Write(o, Put(table, o, c.url), Put(ours[o], o, c.url), d)
    BY <1>1, <1>2 DEF PatchRoutes, IfMatch
  <2>2. /\ ClientTyped(d) /\ d.step = "insert" /\ d.attempts = 0 /\ d.beaten = 0
        /\ d.goal = c.goal /\ d.left = c.left \ {c.url} /\ d.version = c.version
    BY <1>1, AfterUrl
  <2>3. c.url \in Urls /\ c.url \in c.left
    BY <1>1 DEF ClientTyped, Client
  <2>4. table' = Drop(table, o, c.url) \cup {Entry(c, o, c.url)}
    BY <1>1, <2>1, <2>3, WrittenTable DEF Write
  <2> HIDE DEF d
  <2>5. ASSUME NEW u \in d.goal \ d.left PROVE Entry(d, o, u) \in rt
    <3>1. CASE u = c.url
      BY <2>2, <2>4, <3>1 DEF Entry
    <3>2. CASE u # c.url
      <4>1. Entry(c, o, u) \in rs
        BY <1>1, <2>2, <2>5, <3>2 DEF Progress
      <4>2. o \notin Registries
        BY <1>1, <2>2, <2>3, <3>2 DEF Progress
      <4>3. Entry(c, o, u) \in Drop(table, o, c.url)
        BY <4>1, <4>2, <3>2 DEF Drop, SameId, Entry
      <4> QED
        BY <4>1, <4>3, <2>2, <2>4 DEF Entry
    <3> QED
      BY <3>1, <3>2
  <2>6. Progress(d, o, rt)
    BY <1>1, <2>2, <2>5 DEF Progress
  <2>7. Beaten(d, o, table')
    BY <2>2 DEF Beaten
  <2>8. ClientOK(d, o, table')
    BY <2>2, <2>6, <2>7 DEF ClientOK
  <2> QED
    BY <2>1, <2>3, <2>8, WriteKeeps
<1>3. CASE table # c.seen
  BY <1>1, <1>3, RefusedKeeps DEF PatchRoutes, IfMatch
<1> QED
  BY <1>2, <1>3

LEMMA PatchRegistryKeeps ==
  ASSUME IProxy, NEW o \in Owners, PatchRegistry(o) PROVE IProxy'
<1> DEFINE c == client[o]
           rs == {r \in table : r.owner = o}
<1>1. /\ ClientTyped(c) /\ Progress(c, o, rs) /\ c.step = "replace" /\ TableOK(table)
      /\ c \in Client
  BY DEF IProxy, ClientOK, ClientTyped, PatchRegistry
<1>2. ASSUME NEW u \in c.left,
             Write(o, Put(table, o, u), Put(ours[o], o, u), [c EXCEPT !.step = "done"])
      PROVE  IProxy'
  <2> DEFINE d == [c EXCEPT !.step = "done"]
             rt == {r \in table' : r.owner = o}
  <2>1. /\ d \in Client /\ d.step = "done" /\ d.goal = c.goal /\ d.left = c.left
        /\ d.version = c.version /\ d.url = c.url
    BY <1>1 DEF Client, ProxySteps
  <2>2. u \in Urls /\ o \in Registries /\ d.goal = {u}
    BY <1>1, <1>2, <2>1 DEF Progress, Client
  <2>3. table' = Drop(table, o, u) \cup {Entry(c, o, u)}
    BY <1>1, <1>2, <2>2, WrittenTable DEF Write
  <2> HIDE DEF d
  <2>4. rt = {Entry(d, o, u)}
    BY <2>1, <2>2, <2>3 DEF Drop, SameId, Entry
  <2>5. Progress(d, o, rt)
    <3>1. rt = [owner : {o}, url : d.goal, version : {d.version}]
      BY <2>2, <2>4, OnlyEntry
    <3> QED
      BY <1>1, <2>1, <3>1 DEF Progress
  <2>6. ClientTyped(d) /\ Beaten(d, o, table')
    BY <1>1, <2>1 DEF ClientTyped, Beaten
  <2> QED
    BY <1>2, <2>2, <2>5, <2>6, WriteKeeps DEF ClientOK, d
<1>3. ASSUME NEW next \in {"replace", "error"},
             next = "replace" => c.attempts + 1 < MAX_ETAG_ATTEMPTS,
             Goto(o, [[c EXCEPT !.attempts = @ + 1] EXCEPT !.step = next])
      PROVE  IProxy'
  <2> DEFINE a == [c EXCEPT !.attempts = @ + 1]
             d == [a EXCEPT !.step = next]
  <2>1. c.attempts + 1 \in 0..MAX_ETAG_ATTEMPTS
    BY <1>1 DEF ClientTyped, Client, MAX_ETAG_ATTEMPTS
  <2>2. /\ a \in Client /\ a.attempts = c.attempts + 1 /\ a.goal = c.goal /\ a.left = c.left
        /\ a.url = c.url
    BY <1>1, <2>1 DEF Client
  <2> HIDE DEF a
  <2>3. /\ d \in Client /\ d.step = next /\ d.attempts = c.attempts + 1 /\ d.goal = c.goal
        /\ d.left = c.left /\ d.url = c.url
    BY <2>2 DEF Client, ProxySteps
  <2> HIDE DEF d
  <2>4. ClientTyped(d)
    BY <1>1, <1>3, <2>3 DEF ClientTyped
  <2>5. Beaten(d, o, table) /\ Progress(d, o, rs)
    BY <1>1, <2>3 DEF Beaten, Progress
  <2> QED
    BY <1>3, <2>4, <2>5, GotoKeeps DEF ClientOK, d, a
<1>4. \E u \in c.left :
         \/ Write(o, Put(table, o, u), Put(ours[o], o, u), [c EXCEPT !.step = "done"])
         \/ Goto(o, [[c EXCEPT !.attempts = @ + 1] EXCEPT !.step =
                       IF [c EXCEPT !.attempts = @ + 1].attempts < MAX_ETAG_ATTEMPTS
                       THEN "replace" ELSE "error"])
  BY DEF PatchRegistry
<1>5. [c EXCEPT !.attempts = @ + 1].attempts = c.attempts + 1
  BY <1>1 DEF Client
<1> QED
  BY <1>2, <1>3, <1>4, <1>5

LEMMA ReadRouteKeeps ==
  ASSUME IProxy, NEW o \in Owners, ReadRoute(o) PROVE IProxy'
<1> DEFINE c == client[o]
           rs == {r \in table : r.owner = o}
<1>1. /\ ClientTyped(c) /\ Beaten(c, o, table) /\ Progress(c, o, rs) /\ c.step = "remove"
      /\ TableOK(table) /\ c \in Client
  BY DEF IProxy, ClientOK, ClientTyped, ReadRoute
<1>2. CASE c.left = {}
  <2> DEFINE d == [c EXCEPT !.step = "done"]
  <2>1. Goto(o, d)
    BY <1>2 DEF ReadRoute
  <2>2. ClientTyped(d) /\ d.step = "done" /\ d.goal = c.goal
    BY <1>1 DEF ClientTyped, Client, ProxySteps
  <2> HIDE DEF d
  <2>3. rs = {} /\ [owner : {o}, url : {}, version : {d.version}] = {}
    BY <1>1, <1>2 DEF Progress
  <2>4. Beaten(d, o, table) /\ Progress(d, o, rs)
    BY <1>1, <2>2, <2>3 DEF Beaten, Progress
  <2> QED
    BY <2>1, <2>2, <2>4, GotoKeeps DEF ClientOK
<1>3. ASSUME NEW u \in c.left, Goto(o, [Attempt(c, u) EXCEPT !.step = "delete"])
      PROVE  IProxy'
  <2>1. ClientOK([Attempt(c, u) EXCEPT !.step = "delete"], o, table)
    BY <1>1, AttemptOK DEF IProxy
  <2> QED
    BY <1>3, <2>1, GotoKeeps
<1>4. ASSUME NEW u \in c.left, ~\E r \in table : SameId(r, o, u),
             Goto(o, NextUrl([c EXCEPT !.url = u]))
      PROVE  IProxy'
  <2> DEFINE x == [c EXCEPT !.url = u]
             d == NextUrl(x)
  <2>1. x \in Client /\ x.url = u /\ x.step = "remove" /\ x.goal = c.goal /\ x.left = c.left
    BY <1>1 DEF Client
  <2> HIDE DEF x
  <2>2. /\ d \in Client /\ d.step = "remove" /\ d.url = NoUrl /\ d.attempts = 0
        /\ d.beaten = 0 /\ d.goal = c.goal /\ d.left = c.left \ {u}
    BY <2>1, NextUrlTyped
  <2> HIDE DEF d
  <2>3. \A r \in rs : r.url # u
    BY <1>4 DEF SameId
  <2>4. ClientTyped(d) /\ Beaten(d, o, table) /\ Progress(d, o, rs)
    BY <1>1, <2>2, <2>3 DEF ClientTyped, Beaten, Progress, MAX_ETAG_ATTEMPTS
  <2> QED
    BY <1>4, <2>4, GotoKeeps DEF ClientOK, d, x
<1>5. Current(c) \subseteq c.left
  BY <1>1 DEF Current, ClientTyped
<1> QED
  BY <1>2, <1>3, <1>4, <1>5 DEF ReadRoute

LEMMA DeleteRouteKeeps ==
  ASSUME IProxy, NEW o \in Owners, DeleteRoute(o) PROVE IProxy'
<1> DEFINE c == client[o]
           rs == {r \in table : r.owner = o}
<1>1. /\ ClientTyped(c) /\ Progress(c, o, rs) /\ c.step = "delete" /\ c \in Client
      /\ c.url \in c.left /\ c.url \in Urls
  BY DEF IProxy, ClientOK, ClientTyped, DeleteRoute, Client
<1>2. ASSUME Write(o, Drop(table, o, c.url), Drop(ours[o], o, c.url),
                   [NextUrl(c) EXCEPT !.step = "remove"])
      PROVE  IProxy'
  <2> DEFINE d == [NextUrl(c) EXCEPT !.step = "remove"]
             rt == {r \in table' : r.owner = o}
  <2>1. /\ ClientTyped(d) /\ d.step = "remove" /\ d.attempts = 0 /\ d.beaten = 0
        /\ d.goal = c.goal /\ d.left = c.left \ {c.url}
    BY <1>1, AfterUrl
  <2> HIDE DEF d
  <2>2. \A r \in rt : r \in rs /\ r.url # c.url
    BY <1>2 DEF Write, Drop, SameId
  <2>3. Beaten(d, o, table') /\ Progress(d, o, rt)
    BY <1>1, <2>1, <2>2 DEF Beaten, Progress
  <2> QED
    BY <1>1, <1>2, <2>1, <2>3, WriteKeeps DEF ClientOK, d
<1>3. ASSUME table # c.seen, Refused(o, "remove") PROVE IProxy'
  BY <1>1, <1>3, RefusedKeeps
<1> QED
  BY <1>2, <1>3 DEF DeleteRoute, IfMatch

LEMMA ListRoutesKeeps ==
  ASSUME IProxy, NEW o \in Owners, ListRoutes(o) PROVE IProxy'
<1> DEFINE c == client[o]
           rs == {r \in table : r.owner = o}
           many == {r.url : r \in RoutesOf(o)} \ c.goal
           d == [c EXCEPT !.step = "purge", !.left = many]
<1>1. ClientTyped(c) /\ Progress(c, o, rs) /\ c.step = "list" /\ c \in Client
      /\ TableOK(table)
  BY DEF IProxy, ClientOK, ClientTyped, ListRoutes
<1>2. many \in SUBSET Urls
  BY <1>1 DEF TableOK, Route, RoutesOf
<1>3. /\ d \in Client /\ d.step = "purge" /\ d.goal = c.goal /\ d.left = many
      /\ d.version = c.version /\ d.url = c.url
  BY <1>1, <1>2 DEF Client, ProxySteps
<1>4. Goto(o, d)
  BY DEF ListRoutes
<1> HIDE DEF d
<1>5. ClientTyped(d) /\ Beaten(d, o, table)
  <2>1. d.url \in d.left \cup {NoUrl}
    BY <1>1, <1>3 DEF ClientTyped
  <2> QED
    BY <1>1, <1>3, <2>1 DEF ClientTyped, Beaten
<1>6. Progress(d, o, rs)
  BY <1>1, <1>3 DEF Progress, Entry, RoutesOf
<1> QED
  BY <1>4, <1>5, <1>6, GotoKeeps DEF ClientOK

LEMMA PurgeKeeps ==
  ASSUME IProxy, NEW o \in Owners, Purge(o) PROVE IProxy'
<1> DEFINE c == client[o]
           rs == {r \in table : r.owner = o}
<1>1. /\ ClientTyped(c) /\ Progress(c, o, rs) /\ c.step = "purge" /\ c \in Client
      /\ TableOK(table)
  BY DEF IProxy, ClientOK, ClientTyped, Purge
<1>2. CASE c.left = {}
  <2> DEFINE d == [c EXCEPT !.step = "done"]
  <2>1. Goto(o, d)
    BY <1>2 DEF Purge
  <2>2. ClientTyped(d) /\ d.step = "done" /\ d.goal = c.goal /\ d.version = c.version
    BY <1>1 DEF ClientTyped, Client, ProxySteps
  <2> HIDE DEF d
  <2>3. ASSUME NEW r \in rs PROVE r \in [owner : {o}, url : d.goal, version : {d.version}]
    <3>1. Entry(c, o, r.url) \in rs /\ r.url \in c.goal
      BY <1>1, <1>2 DEF Progress
    <3>2. r = Entry(c, o, r.url)
      BY <1>1, <3>1 DEF TableOK, SameId, Entry
    <3> QED
      BY <2>2, <3>1, <3>2 DEF Entry
  <2>4. ASSUME NEW r \in [owner : {o}, url : d.goal, version : {d.version}] PROVE r \in rs
    <3>1. r = Entry(c, o, r.url) /\ r.url \in c.goal
      BY <2>2, <2>4 DEF Entry
    <3> QED
      BY <1>1, <3>1 DEF Progress
  <2>5. Beaten(d, o, table) /\ Progress(d, o, rs)
    BY <1>1, <2>2, <2>3, <2>4 DEF Beaten, Progress
  <2> QED
    BY <2>1, <2>2, <2>5, GotoKeeps DEF ClientOK
<1>3. ASSUME NEW u \in c.left,
             Write(o, Drop(table, o, u), Drop(ours[o], o, u), [c EXCEPT !.left = @ \ {u}])
      PROVE  IProxy'
  <2> DEFINE d == [c EXCEPT !.left = @ \ {u}]
             rt == {r \in table' : r.owner = o}
  <2>1. /\ d \in Client /\ d.step = "purge" /\ d.goal = c.goal /\ d.left = c.left \ {u}
        /\ d.version = c.version /\ d.url = c.url
    BY <1>1 DEF Client
  <2> HIDE DEF d
  <2>2. \A r \in rt : r \in rs /\ r.url # u
    BY <1>3 DEF Write, Drop, SameId
  <2>3. ASSUME NEW v \in d.goal PROVE Entry(d, o, v) \in rt
    <3>1. Entry(c, o, v) \in rs /\ v # u /\ o \notin Registries
      BY <1>1, <2>1, <2>3 DEF Progress
    <3> QED
      BY <1>3, <2>1, <3>1 DEF Write, Drop, SameId, Entry
  <2>4. Progress(d, o, rt)
    BY <1>1, <2>1, <2>2, <2>3 DEF Progress
  <2>5. ClientTyped(d) /\ Beaten(d, o, table')
    BY <1>1, <2>1 DEF ClientTyped, Beaten
  <2>6. u \in Urls
    BY <1>1 DEF Client
  <2> QED
    BY <1>3, <2>4, <2>5, <2>6, WriteKeeps DEF ClientOK, d
<1> QED
  BY <1>2, <1>3 DEF Purge

LEMMA RunAgainKeeps ==
  ASSUME IProxy, NEW o \in Owners, RunAgain(o) PROVE IProxy'
<1> DEFINE c == client[o]
           rs == {r \in table : r.owner = o}
           next == IF c.runs < MaxProxyRuns THEN "start" ELSE "failed"
           d == [c EXCEPT !.step = next]
<1>1. ClientTyped(c) /\ Progress(c, o, rs) /\ c \in Client
  BY DEF IProxy, ClientOK, ClientTyped
<1>2. Goto(o, d)
  BY DEF RunAgain
<1>3. /\ d \in Client /\ d.step = next /\ d.goal = c.goal /\ d.left = c.left
      /\ d.url = c.url /\ d.runs = c.runs
  BY <1>1 DEF Client, ProxySteps
<1> HIDE DEF d
<1>4. ClientTyped(d) /\ Beaten(d, o, table) /\ Progress(d, o, rs)
  BY <1>1, <1>3 DEF ClientTyped, Beaten, Progress
<1> QED
  BY <1>2, <1>4, GotoKeeps DEF ClientOK

LEMMA IProxyStep == IProxy /\ [ProxyNext]_proxyVars => IProxy'
<1> SUFFICES ASSUME IProxy, [ProxyNext]_proxyVars PROVE IProxy'
  OBVIOUS
<1>1. ASSUME NEW o \in Owners,
             \/ RequestRoutes(o) \/ StartActivity(o) \/ ReadRoutes(o) \/ PatchRoutes(o)
             \/ PatchRegistry(o) \/ ReadRoute(o) \/ DeleteRoute(o) \/ ListRoutes(o)
             \/ Purge(o) \/ RunAgain(o)
      PROVE  IProxy'
  BY <1>1, RequestRoutesKeeps, StartActivityKeeps, ReadRoutesKeeps, PatchRoutesKeeps,
     PatchRegistryKeeps, ReadRouteKeeps, DeleteRouteKeeps, ListRoutesKeeps, PurgeKeeps,
     RunAgainKeeps
<1>2. CASE UNCHANGED proxyVars
  BY <1>2 DEF proxyVars, IProxy, OthersKept, RoutesOf
<1> QED
  BY <1>1, <1>2 DEF ProxyNext

-----------------------------------------------------------------------------
(* Results                                                                 *)

LEMMA IProxyImplies == IProxy => ProxyInv
<1> SUFFICES ASSUME IProxy PROVE ProxyInv
  OBVIOUS
<1>1. ProxyTypeOK
  BY DEF IProxy, TableOK, ProxyTypeOK, Client
<1>2. OthersKept
  BY DEF IProxy
<1>3. RequestServed
  BY DEF IProxy, ClientOK, Progress, RequestServed, RoutesOf
<1>4. BeatenEachTime
  BY DEF IProxy, ClientOK, Beaten, BeatenEachTime
<1> QED
  BY <1>1, <1>2, <1>3, <1>4 DEF ProxyInv

\* Whoever writes the list of routes at the same time, every owner has in it exactly the
\* routes it put there and did not delete, a request that succeeds leaves its URLs and no
\* other, and a call that gives up was beaten at each of its attempts.
THEOREM ProxyCorrect == ProxySpec => []ProxyInv
<1> QED
  BY IProxyInit, IProxyStep, IProxyImplies, PTL DEF ProxySpec

=============================================================================
