SPECIFICATION Spec
CONSTANTS
    Runs = {r1, r2, r3}
    Seconds = {s1}
    Order <- WriteOrder
    Sensitive = {"device"}
    Needed = {"manifest", "restore-plan"}
    NoFile = NoFile
    MaxFaults = 1
SYMMETRY Symmetry
INVARIANTS TypeOK AcceptedIsWhole VerdictsHold
PROPERTIES SnapshotsStay
