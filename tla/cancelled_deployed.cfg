\* Two deployments and no failure: one is cancelled before it starts.
SPECIFICATION Spec
CONSTANTS
    v1 = v1
    c1 = c1
    u1 = u1
    MaxDeployments = 2
    Volumes = {v1}
    Configs = {c1}
    Urls = {u1}
    Snapshots <- JustStateless
    Races = {}
    MaxLost = 0
    FaultySteps = {}
    MaxFaults = 0
    MaxTimeouts = 0
    MaxToggles = 0
    MonitorResults = {}
CHECK_DEADLOCK FALSE
PROPERTIES
    CancelledStaysCancelled
