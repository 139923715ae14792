SPECIFICATION Spec
CONSTANTS
    Packages = {p1, p2}
    Versions = {1}
    Devices = {d1, d2}
    NoState = NoState
    Jobs = {j1, j2}
    NoJob = NoJob
    Workers = 1
    Requests = {"update", "disable", "rollback", "apply", "delete", "clear", "download"}
    Faults = {"crash", "late", "external", "device", "cli"}
    SystemPackages = {p2}
    NeverTouch = {}
    MaxOps = 2
    MaxFaults = 1
SYMMETRY Symmetry
PROPERTIES RevertedWasRestored
