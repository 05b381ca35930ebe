\* Two deployments whose signals are slow and whose activities may fail.
SPECIFICATION FairSpec
CONSTANTS
    v1 = v1
    c1 = c1
    u1 = u1
    MaxDeployments = 2
    Volumes = {v1}
    Configs = {c1}
    Urls = {u1}
    Snapshots <- JustStateful
    Races = {"slow_signal"}
    MaxLost = 0
    FaultySteps = {"create_configs", "wait_down", "mark_removed", "queue_next", "delete_volumes"}
    MaxFaults = 1
    MaxTimeouts = 0
    MaxToggles = 0
    MonitorResults = {}
CHECK_DEADLOCK FALSE
PROPERTIES
    QueueServed
    CancelHonoured
