\* Two deployments; one activity fails for good at almost any step, one execution
\* times out and one callback or signal is lost at any moment; other steps happen
\* between a deploy view's read and its commit.
SPECIFICATION Spec
CONSTANTS
    v1 = v1
    c1 = c1
    u1 = u1
    MaxDeployments = 2
    Volumes = {v1}
    Configs = {c1}
    Urls = {u1}
    Snapshots <- BothKinds
    Races = {"slow_view"}
    MaxLost = 1
    FaultySteps = {
        "acquire", "prepare", "create_configs", "wait_down", "create_service",
        "expose", "promote", "remove_previous", "remove_urls", "mark_removed",
        "stats_schedule", "remove_own", "scale_back", "finish", "set_production",
        "remove_superseded", "error_set_production", "queue_next",
        "release", "reset_urls", "cancel_service", "cancel_scale_back",
        "delete_volumes", "error_queue_next"}
    MaxFaults = 1
    MaxTimeouts = 1
    MaxToggles = 0
    MonitorResults = {"HEALTHY", "STARTING"}
CHECK_DEADLOCK FALSE
INVARIANTS
    TypeOK
    OneProduction
PROPERTIES
    ProductionHandover
