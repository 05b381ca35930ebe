\* Two deployments; the callbacks and signals of the views are late, the
\* cancel view saves what it read before.
SPECIFICATION Spec
CONSTANTS
    v1 = v1
    c1 = c1
    u1 = u1
    MaxDeployments = 2
    Volumes = {v1}
    Configs = {c1}
    Urls = {u1}
    Snapshots <- JustStateful
    Races = {"slow_callback", "slow_cancel", "slow_signal"}
    MaxLost = 0
    FaultySteps = {}
    MaxFaults = 0
    MaxTimeouts = 0
    MaxToggles = 0
    MonitorResults = {}
CHECK_DEADLOCK FALSE
INVARIANTS
    TransientRowsAreRunning
    
