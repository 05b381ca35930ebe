------------------------- MODULE ServiceDeployment -------------------------
(***************************************************************************)
(* State shared by everything that deploys one ZaneOps service, and the    *)
(* operators that read and write it: the rows of the Deployment table, the *)
(* Docker resources (swarm services, volumes, configs), the routes of the  *)
(* Caddy proxy and the Temporal schedules that watch a deployment.         *)
(*                                                                         *)
(* An operator on a table R (SetProduction, FlagForCancellation...) is one *)
(* database transaction: from the rows it finds to the rows it leaves. The *)
(* workflow modules extend this one and decide when each of them runs.     *)
(***************************************************************************)
EXTENDS Integers, FiniteSets

CONSTANTS
    MaxDeployments,  \* deployments the service ever gets
    Volumes,         \* docker volumes its configuration may name
    Configs,         \* docker configs (name and version)
    Urls,            \* public URLs
    Snapshots        \* the configurations a user may deploy

None == 0

\* Deployments are numbered in the order of their queued_at column.
Deployments == 1 .. MaxDeployments

\* What DeploymentDetails keeps of service_snapshot: whether the service has
\* ports or writable volumes (and so excludes a second running copy), the
\* resources it names, its URLs.
SnapshotType ==
    [exclusive : BOOLEAN, volumes : SUBSET Volumes,
     configs : SUBSET Configs, urls : SUBSET Urls]

ASSUME DeploymentAssumption == MaxDeployments \in Nat \ {0}
ASSUME SnapshotAssumption ==
    /\ Snapshots \subseteq SnapshotType
    /\ Snapshots # {}

Slots == {"BLUE", "GREEN"}

(***************************************************************************)
(* DeploymentStatus.  RESTARTING is STARTING: no code tells them apart but *)
(* the one that displays them.  BUILDING belongs to Git services.  ABSENT  *)
(* is a row that was not inserted yet.                                     *)
(***************************************************************************)
Statuses == {"ABSENT", "QUEUED", "PREPARING", "STARTING", "HEALTHY", "UNHEALTHY",
             "FAILED", "SLEEPING", "CANCELLING", "CANCELLED", "REMOVED"}

\* status_reason, as far as scale_back_service_deployment reads it.
Markers == {"manual", "other"}

\* started, finished: whether started_at and finished_at are not null.
RowType ==
    [status : Statuses, started : BOOLEAN, finished : BOOLEAN,
     production : BOOLEAN, slot : Slots, marker : Markers]

\* The columns of a row that was just inserted, but for its slot.
QueuedRow(slot) ==
    [status |-> "QUEUED", started |-> FALSE, finished |-> FALSE,
     production |-> FALSE, slot |-> slot, marker |-> "other"]

AbsentRow == [QueuedRow("BLUE") EXCEPT !.status = "ABSENT"]

VARIABLES
    rows,        \* the Deployment table, restricted to the service
    snapshot,    \* service_snapshot of each deployment
    addedUrls,   \* URLs that the changes of each deployment ADD
    appliedUrls, \* URLs of the service once every deployed change is applied
    swarm,       \* swarm service of each deployment, with its network alias
    volumes,     \* docker volumes labelled with the service
    configs,     \* docker configs labelled with the service
    route,       \* network alias (a slot) each URL's proxy route dials
    schedules    \* the monitor and metrics schedules of each deployment

database == <<rows, snapshot, addedUrls, appliedUrls>>
docker == <<swarm, volumes, configs>>
resources == <<database, docker, route, schedules>>

Existing(R) == {d \in Deployments : R[d].status # "ABSENT"}
WithStatus(R, S) == {d \in Deployments : R[d].status \in S}
Production(R) == {d \in Existing(R) : R[d].production}

\* order_by("-queued_at").first() and order_by("queued_at").first() over S.
IsNewest(d, S) ==
    \/ S = {} /\ d = None
    \/ d \in S /\ \A e \in S : e <= d
IsOldest(d, S) ==
    \/ S = {} /\ d = None
    \/ d \in S /\ \A e \in S : d <= e

-----------------------------------------------------------------------------
(* Reads and writes of the Deployment table                                *)

\* Faulty variant: keeps the slot of the production deployment.
SameSlot(R, latest) == IF latest = None THEN "BLUE" ELSE R[latest].slot

\* get_next_deployment_slot(latest)
NextSlot(R, latest) ==
    IF latest # None /\ R[latest].slot = "BLUE" /\ R[latest].status # "FAILED"
    THEN "GREEN" ELSE "BLUE"

ActiveStatuses == {"PREPARING", "STARTING"}

\* Statuses from which the cancel view accepts a request.
CancellableStatuses == {"QUEUED"} \cup ActiveStatuses

\* The rows flag_deployments_for_cancellation selects, when `spared` is the
\* deployment it takes for the one in progress.
FlaggedRows(R, includeRunning, spared) ==
    IF includeRunning THEN WithStatus(R, CancellableStatuses)
    ELSE WithStatus(R, {"QUEUED"}) \ {spared}

\* Its update: a deployment that has not started is cancelled on the spot.
FlagForCancellation(R, flagged) ==
    [d \in Deployments |->
        IF d \in flagged /\ ~R[d].started
        THEN [R[d] EXCEPT !.status = "CANCELLED", !.marker = "other"] ELSE R[d]]

Prepare(R, d) ==
    IF R[d].status = "QUEUED"
    THEN [R EXCEPT ![d].status = "PREPARING", ![d].started = TRUE] ELSE R

SetStatus(R, d, status) == [R EXCEPT ![d].status = status]

\* Faulty variant: forgets the status.
SaveCancelledTime(R, d) == [R EXCEPT ![d].finished = TRUE, ![d].marker = "other"]

SaveCancelled(R, d) ==
    [R EXCEPT ![d].status = "CANCELLED", ![d].finished = TRUE, ![d].marker = "other"]

\* Faulty variant: compares the count of deployments the wrong way.
AlwaysProduction(R, d, result) == result = "HEALTHY" \/ Cardinality(Existing(R)) >= 1

\* finish_and_save_deployment is three updates: the result of the deployment;
\* if it is healthy, or the only one the service ever had, the production flag,
\* which it takes from all the others; and then the status of those that were
\* left active.
BecomesProduction(R, d, result) == result = "HEALTHY" \/ Existing(R) = {d}

\* Faulty variant: sets the flag with the result.
SaveAsProduction(R, d, result) ==
    [R EXCEPT ![d].status = result, ![d].finished = TRUE, ![d].marker = "other",
              ![d].production = TRUE]

\* Faulty variant: forgets the status of a failed deployment.
SaveHealthy(R, d, result) ==
    IF result = "HEALTHY"
    THEN [R EXCEPT ![d].status = result, ![d].finished = TRUE, ![d].marker = "other"]
    ELSE [R EXCEPT ![d].finished = TRUE, ![d].marker = "other"]

SaveResult(R, d, result) ==
    [R EXCEPT ![d].status = result, ![d].finished = TRUE, ![d].marker = "other"]

SetProduction(R, d) ==
    [e \in Deployments |-> [R[e] EXCEPT !.production = (e = d)]]

Superseded(row) ==
    row.status \in ActiveStatuses /\ ~(row.started /\ row.finished)

RemoveSuperseded(R, d) ==
    [e \in Deployments |->
        IF e # d /\ Superseded(R[e])
        THEN [R[e] EXCEPT !.status = "REMOVED", !.started = TRUE, !.finished = TRUE]
        ELSE R[e]]

\* cleanup_previous_production_deployment (the activity)
MarkRemoved(R, p) == [R EXCEPT ![p].status = "REMOVED", ![p].production = FALSE]

\* cleanup_previous_unclean_deployments.  Its two CASE expressions have no
\* default: a timestamp that was set becomes null, a null one is set.
Unclean(R, d) ==
    {e \in Existing(R) \ {d} :
        /\ ~R[e].production
        /\ R[e].status \notin {"QUEUED", "FAILED", "REMOVED", "CANCELLED"}}

CleanupUnclean(R, d) ==
    [e \in Deployments |->
        IF e \in Unclean(R, d)
        THEN [R[e] EXCEPT !.status = "REMOVED", !.started = ~R[e].started,
                          !.finished = ~R[e].finished]
        ELSE R[e]]

-----------------------------------------------------------------------------
(* Docker, the proxy and the schedules                                     *)

Replicas == {"absent", "down", "up"}
SwarmType == [replicas : Replicas, alias : Slots]
ScheduleStates == {"none", "active", "paused"}
ScheduleType == [monitor : ScheduleStates, metrics : ScheduleStates]
NoSchedule == [monitor |-> "none", metrics |-> "none"]

Running == {d \in Deployments : swarm[d].replicas = "up"}
Deployed == {d \in Deployments : swarm[d].replicas # "absent"}

\* A request for the URL reaches a running container.
Served(u) == \E d \in Running : swarm[d].alias = route[u]

SetReplicas(d, replicas) == [swarm EXCEPT ![d].replicas = replicas]

\* delete_schedule, pause_schedule and unpause_schedule of a schedule that may
\* not exist: the RPCError is swallowed.
Pause(state) == IF state = "none" THEN "none" ELSE "paused"
Unpause(state) == IF state = "none" THEN "none" ELSE "active"
Create(state) == IF state = "none" THEN "active" ELSE state

\* The end of scale_down_service_deployment, once the service has no task left.
PutToSleep(d, marker) ==
    /\ rows' = [rows EXCEPT ![d].status = "SLEEPING", ![d].marker = marker]
    /\ schedules' = [schedules EXCEPT
                        ![d].monitor = Pause(@), ![d].metrics = Pause(@)]

\* Faulty variant: does not look for the marker of a manual stop.
AnySleeper(d, wake) == ~wake /\ rows[d].status = "SLEEPING"

\* Faulty variant: reads the marker the wrong way.
OtherSleeper(d, wake) ==
    ~wake /\ rows[d].status = "SLEEPING" /\ rows[d].marker # "manual"

\* scale_back_service_deployment.  wake is wake_up_if_sleeping.
LeftAsleep(d, wake) ==
    ~wake /\ rows[d].status = "SLEEPING" /\ rows[d].marker = "manual"

ScaleBack(d, wake) ==
    IF LeftAsleep(d, wake) \/ swarm[d].replicas = "absent"
    THEN UNCHANGED <<rows, swarm, schedules>>
    ELSE /\ swarm' = SetReplicas(d, "up")
         /\ IF rows[d].status = "SLEEPING"
            THEN /\ rows' = [rows EXCEPT ![d].status = "STARTING", ![d].marker = "other"]
                 /\ schedules' = [schedules EXCEPT ![d].monitor = Unpause(@)]
            ELSE UNCHANGED <<rows, schedules>>

\* Docker refuses to remove a config a service names, or a volume a container
\* mounts.
ConfigsInUse == UNION {snapshot[d].configs : d \in Deployed}
VolumesInUse == UNION {snapshot[d].volumes : d \in Running}

ResourceTypes ==
    /\ rows \in [Deployments -> RowType]
    /\ snapshot \in [Deployments -> SnapshotType]
    /\ addedUrls \in [Deployments -> SUBSET Urls]
    /\ appliedUrls \in SUBSET Urls
    /\ swarm \in [Deployments -> SwarmType]
    /\ volumes \in SUBSET Volumes
    /\ configs \in SUBSET Configs
    /\ route \in [Urls -> Slots \cup {"none"}]
    /\ schedules \in [Deployments -> ScheduleType]

ResourcesInit ==
    /\ rows = [d \in Deployments |-> AbsentRow]
    /\ snapshot = [d \in Deployments |->
           [exclusive |-> FALSE, volumes |-> {}, configs |-> {}, urls |-> {}]]
    /\ addedUrls = [d \in Deployments |-> {}]
    /\ appliedUrls = {}
    /\ swarm = [d \in Deployments |-> [replicas |-> "absent", alias |-> "BLUE"]]
    /\ volumes = {}
    /\ configs = {}
    /\ route = [u \in Urls |-> "none"]
    /\ schedules = [d \in Deployments |-> NoSchedule]
=============================================================================
