SPECIFICATION Spec
CONSTANTS
    p1 = p1
    p2 = p2
    Packages = {p1, p2}
    Starts <- InitialStates
    Rank <- PackageOrder
    Versions = {1, 2}
    Devices = {d1, d2}
    NoState = NoState
    Threads = {t1, t2}
    NoThread = NoThread
    NoDeletion = NoDeletion
    NoFile = NoFile
    Served <- ServedFiles
    MaxOps = 3
    MaxProfiles = 1
    MaxFaults = 1
SYMMETRY Symmetry
INVARIANTS TypeOK AppliedMeansReached StopsAtFirstMismatch ProfileRowsReverse RetentionHolds
