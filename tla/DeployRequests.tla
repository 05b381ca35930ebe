--------------------------- MODULE DeployRequests ---------------------------
(***************************************************************************)
(* The HTTP side of a service's deployments: the views that queue, cancel  *)
(* and clean up deployments, and what TemporalClient does for them once    *)
(* their transaction is committed.  A service has one workflow id, so at   *)
(* most one run of its deployment workflow is open: `run` is the local     *)
(* state of that run, and run.pc = "closed" says that there is none.       *)
(***************************************************************************)
EXTENDS ServiceDeployment

CONSTANTS
    Races,    \* which windows of the views the instance explores
    MaxLost   \* bound on callbacks and signals lost to a crash or an outage

(***************************************************************************)
(* "slow_view": other steps happen between a deploy view's read of the     *)
(* production deployment and its commit.  "slow_callback": other steps     *)
(* happen between the commit and its on_commit callback.  "slow_cancel":   *)
(* other steps happen between a cancel view's read of the row and its      *)
(* save.  "slow_signal": other steps happen between that commit and the    *)
(* delivery of the signal.  Without one of them, nothing else happens in   *)
(* its window.                                                             *)
(***************************************************************************)
ASSUME RacesAssumption ==
    Races \subseteq {"slow_view", "slow_callback", "slow_cancel", "slow_signal"}
ASSUME LostAssumption == MaxLost \in Nat

VARIABLES
    requests,    \* the deploy request that creates each deployment
    signals,     \* cancel signals sent and not yet delivered
    cancelReads, \* the row a cancel view has read and will save
    run,         \* the open run of the deployment workflow
    lost         \* callbacks and signals lost so far

requestVars == <<requests, signals, cancelReads, lost>>

RequestType ==
    [stage : {"none", "open", "committed", "done"}, slot : Slots,
     toCancel : SUBSET Deployments]

NoRequest == [stage |-> "none", slot |-> "BLUE", toCancel |-> {}]

\* A run as start_workflow or continue_as_new creates it: its payload names
\* the deployment and the slot it was given, its fields are empty.
NewRun(d, slot) ==
    [pc |-> "acquire", cur |-> d, slot |-> slot, prev |-> None, prevFailed |-> FALSE,
     cancels |-> {}, result |-> "FAILED", step |-> 0, madeVolumes |-> {},
     madeConfigs |-> {}, next |-> None, nextSlot |-> "BLUE"]

NoRun == [NewRun(None, "BLUE") EXCEPT !.pc = "closed"]

RunOpen == run.pc # "closed"

\* A request in the middle of a window this instance does not explore.
Hurried(d) ==
    \/ requests[d].stage = "open" /\ "slow_view" \notin Races
    \/ requests[d].stage = "committed" /\ "slow_callback" \notin Races
    \/ d \in signals /\ "slow_signal" \notin Races

Undisturbed == \A d \in Deployments : ~Hurried(d)

-----------------------------------------------------------------------------
(* Deploying                                                               *)

\* The transaction starts: the row gets its queued_at, the slot is computed
\* from the production deployment of this moment.
OpenDeploy(d) ==
    /\ requests[d].stage = "none"
    /\ \A e \in Deployments : e < d => requests[e].stage # "none"
    /\ \E latest \in Deployments \cup {None} :
        /\ IsNewest(latest, Production(rows))
        /\ requests' = [requests EXCEPT ![d].stage = "open",
                                        ![d].slot = NextSlot(rows, latest)]
    /\ UNCHANGED <<resources, signals, cancelReads, run, lost>>

\* The transaction commits: the row and the applied changes become visible.
\* With cleanup_queue, the rows it flagged were locked by its UPDATE, so that
\* they change at this moment.
CommitDeploy(d) ==
    /\ requests[d].stage = "open"
    /\ \E s \in Snapshots, cleanupQueue \in BOOLEAN :
        LET flagged == IF cleanupQueue THEN FlaggedRows(rows, TRUE, None) ELSE {}
        IN  /\ rows' = [FlagForCancellation(rows, flagged) EXCEPT
                           ![d] = QueuedRow(requests[d].slot)]
            /\ requests' = [requests EXCEPT ![d].stage = "committed",
                                            ![d].toCancel = flagged]
            /\ snapshot' = [snapshot EXCEPT ![d] = s]
            /\ addedUrls' = [addedUrls EXCEPT ![d] = s.urls \ appliedUrls]
            /\ appliedUrls' = s.urls
    /\ UNCHANGED <<docker, route, schedules, signals, cancelReads, run, lost>>

\* The callback signals the superseded deployments, one call after the other...
\* (a signal to a workflow that is not open is an RPCError, swallowed).
SignalSuperseded(d) ==
    /\ requests[d].stage = "committed"
    /\ \E target \in requests[d].toCancel :
        /\ requests' = [requests EXCEPT ![d].toCancel = @ \ {target}]
        /\ run' = IF RunOpen THEN [run EXCEPT !.cancels = @ \cup {target}] ELSE run
    /\ UNCHANGED <<resources, signals, cancelReads, lost>>

\* ...and starts the workflow.  When a run is open the server answers
\* WorkflowAlreadyStarted, which astart_workflow swallows.
StartDeploy(d) ==
    /\ requests[d].stage = "committed"
    /\ requests[d].toCancel = {}
    /\ run' = IF RunOpen THEN run ELSE NewRun(d, requests[d].slot)
    /\ requests' = [requests EXCEPT ![d].stage = "done"]
    /\ UNCHANGED <<resources, signals, cancelReads, lost>>

\* The API process dies between the commit and the end of the callback.
LoseCallback(d) ==
    /\ requests[d].stage = "committed"
    /\ lost < MaxLost
    /\ lost' = lost + 1
    /\ requests' = [requests EXCEPT ![d].stage = "done", ![d].toCancel = {}]
    /\ UNCHANGED <<resources, signals, cancelReads, run>>

-----------------------------------------------------------------------------
(* Cancelling                                                              *)

\* The condition of CancelServiceDeploymentAPIView, its 409 otherwise.
Cancellable(row) == ~row.finished /\ row.status \in CancellableStatuses

CancelledRow(row) == [row EXCEPT !.status = "CANCELLED", !.marker = "other"]

\* The cancel view: a deployment that did not start is CANCELLED at once; in
\* every case the workflow is signalled after the commit.
CancelDeployment(d) ==
    /\ Cancellable(rows[d])
    /\ rows' = IF rows[d].started THEN rows ELSE [rows EXCEPT ![d] = CancelledRow(@)]
    /\ signals' = signals \cup {d}
    /\ UNCHANGED <<snapshot, addedUrls, appliedUrls, docker, route, schedules,
                   requests, cancelReads, run, lost>>

\* The same view in two steps.  deployment.save() names no field, so that it
\* writes back every column of the row the view has read.
ReadForCancel(d) ==
    /\ "slow_cancel" \in Races
    /\ Cancellable(rows[d]) /\ ~rows[d].started
    /\ cancelReads[d] = AbsentRow
    /\ cancelReads' = [cancelReads EXCEPT ![d] = rows[d]]
    /\ UNCHANGED <<resources, requests, signals, run, lost>>

SaveCancel(d) ==
    /\ cancelReads[d] # AbsentRow
    /\ rows' = [rows EXCEPT ![d] = CancelledRow(cancelReads[d])]
    /\ cancelReads' = [cancelReads EXCEPT ![d] = AbsentRow]
    /\ signals' = signals \cup {d}
    /\ UNCHANGED <<snapshot, addedUrls, appliedUrls, docker, route, schedules,
                   requests, run, lost>>

\* CleanupDeploymentQueueAPIView
CleanupQueue(includeRunning) ==
    \E spared \in Deployments \cup {None} :
        LET flagged == FlaggedRows(rows, includeRunning, spared)
        IN  /\ IsOldest(spared, WithStatus(rows, CancellableStatuses))
            /\ flagged # {}
            /\ rows' = FlagForCancellation(rows, flagged)
            /\ signals' = signals \cup flagged
            /\ UNCHANGED <<snapshot, addedUrls, appliedUrls, docker, route,
                           schedules, requests, cancelReads, run, lost>>

\* workflow_signal: the open run records the request; without an open run the
\* RPCError is swallowed and the signal is gone.
DeliverSignal(d) ==
    /\ d \in signals
    /\ signals' = signals \ {d}
    /\ run' = IF RunOpen THEN [run EXCEPT !.cancels = @ \cup {d}] ELSE run
    /\ UNCHANGED <<resources, requests, cancelReads, lost>>

LoseSignal(d) ==
    /\ d \in signals
    /\ lost < MaxLost
    /\ lost' = lost + 1
    /\ signals' = signals \ {d}
    /\ UNCHANGED <<resources, requests, cancelReads, run>>

\* A request that is in such a window goes first.
DeployRequestStep ==
    \E d \in Deployments :
        /\ \A e \in Deployments \ {d} : ~Hurried(e)
        /\ \/ OpenDeploy(d)
           \/ CommitDeploy(d)
           \/ SignalSuperseded(d)
           \/ StartDeploy(d)
           \/ LoseCallback(d)

SignalStep == \E d \in Deployments : DeliverSignal(d) \/ LoseSignal(d)

CancelRequestStep ==
    \/ \E d \in Deployments : CancelDeployment(d) \/ ReadForCancel(d) \/ SaveCancel(d)
    \/ \E includeRunning \in BOOLEAN : CleanupQueue(includeRunning)

RequestTypes ==
    /\ requests \in [Deployments -> RequestType]
    /\ signals \in SUBSET Deployments
    /\ cancelReads \in [Deployments -> RowType]
    /\ lost \in 0 .. MaxLost

RequestInit ==
    /\ requests = [d \in Deployments |-> NoRequest]
    /\ signals = {}
    /\ cancelReads = [d \in Deployments |-> AbsentRow]
    /\ run = NoRun
    /\ lost = 0
=============================================================================
