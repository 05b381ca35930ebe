\* Three deployments and the cleanup share two slots, with the fairness of the calls.
SPECIFICATION FairSpec
CONSTANTS
    d1 = d1
    d2 = d2
    d3 = d3
    Deployers = {d1, d2, d3}
    Cleaner = cleaner
    Limit = 2
    CrashingOps = {"acquire", "acquire_all"}
    MaxCrashes = 1
    MaxStalls = 0
    MaxKills = 1
    MaxOverruns = 0
INVARIANTS
    AtMostLimit
    CleanupAlone
    NoLostUpdate
PROPERTIES
    Implements
    SlotsComeBack
