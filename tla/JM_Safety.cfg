SPECIFICATION Spec
CONSTANTS
    Packages = {p1}
    Versions = {1}
    Devices = {d1}
    NoState = NoState
    Jobs = {j1, j2}
    NoJob = NoJob
    Workers = 2
    Requests = {"install", "update", "uninstall", "enable", "disable", "rollback", "apply"}
    Faults = {"crash", "storage"}
    SystemPackages = {}
    NeverTouch = {}
    MaxOps = 3
    MaxFaults = 2
SYMMETRY Symmetry
INVARIANTS TypeOK OneMutatorPerPackage UnresolvedChain InductiveInvariant LedgerMatchesTv
PROPERTIES LedgerIsEvidence JournaledBeforeExecution ImplementsGate
