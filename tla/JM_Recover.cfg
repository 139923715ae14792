SPECIFICATION FairSpec
CONSTANTS
    Packages = {p1}
    Versions = {1}
    Devices = {d1}
    NoState = NoState
    Jobs = {j1, j2}
    NoJob = NoJob
    Workers = 1
    Requests = {"install", "update", "disable", "rollback", "apply"}
    Faults = {"late"}
    SystemPackages = {}
    NeverTouch = {}
    MaxOps = 3
    MaxFaults = 1
INVARIANTS Recoverable
PROPERTIES PendingIsDecided OnlyThreadsOvertake
