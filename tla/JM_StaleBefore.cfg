SPECIFICATION Spec
CONSTANTS
    Packages = {p1}
    Versions = {1, 2}
    Devices = {d1}
    NoState = NoState
    Jobs = {j1, j2}
    NoJob = NoJob
    Workers = 1
    Requests = {"update", "disable"}
    Faults = {}
    SystemPackages = {}
    NeverTouch = {}
    MaxOps = 2
    MaxFaults = 0
SYMMETRY Symmetry
INVARIANTS NoSharedBeforeState
