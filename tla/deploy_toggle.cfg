\* Two deployments and two start or stop requests at any moment.
SPECIFICATION Spec
CONSTANTS
    v1 = v1
    c1 = c1
    u1 = u1
    MaxDeployments = 2
    Volumes = {v1}
    Configs = {c1}
    Urls = {u1}
    Snapshots <- AllKinds
    Races = {}
    MaxLost = 0
    FaultySteps = {}
    MaxFaults = 0
    MaxTimeouts = 0
    MaxToggles = 2
    MonitorResults = {"HEALTHY", "STARTING"}
CHECK_DEADLOCK FALSE
INVARIANTS
    LiveUrlsServed
    ProductionAwake
    
