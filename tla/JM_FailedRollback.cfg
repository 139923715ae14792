SPECIFICATION Spec
CONSTANTS
    Packages = {p1}
    Versions = {1}
    Devices = {d1}
    NoState = NoState
    Jobs = {j1}
    NoJob = NoJob
    Workers = 1
    Requests = {"disable", "rollback"}
    Faults = {}
    SystemPackages = {}
    NeverTouch = {}
    MaxOps = 2
    MaxFaults = 0
SYMMETRY Symmetry
INVARIANTS UncertainMatchReconciles
