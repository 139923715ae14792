SPECIFICATION Spec
CONSTANTS
    p1 = p1
    p2 = p2
    Packages = {p1, p2}
    Starts <- FirstCapture
    Rank <- PackageOrder
    Versions = {1, 2}
    Devices = {d1, d2}
    NoState = NoState
    Threads = {t1, t2}
    NoThread = NoThread
    NoDeletion = NoDeletion
    NoFile = NoFile
    Served <- ServedFiles
    MaxOps = 3
    MaxProfiles = 1
    MaxFaults = 0
SYMMETRY Symmetry
INVARIANTS RequiredFilesStay
