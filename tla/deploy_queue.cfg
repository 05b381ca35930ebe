\* Three deployments of any of three kinds of configuration, one after the other,
\* cancelled or cleaned up at any moment; nothing else goes wrong.
SPECIFICATION Spec
CONSTANTS
    v1 = v1
    c1 = c1
    u1 = u1
    MaxDeployments = 3
    Volumes = {v1}
    Configs = {c1}
    Urls = {u1}
    Snapshots <- AllKinds
    Races = {}
    MaxLost = 0
    FaultySteps = {}
    MaxFaults = 0
    MaxTimeouts = 0
    MaxToggles = 0
    MonitorResults = {"HEALTHY", "STARTING"}
CHECK_DEADLOCK FALSE
INVARIANTS
    AliasesServe
    ExclusiveAlone
    NoLeftoverService
    SettledRows
    InstalledForProduction
