SPECIFICATION Spec
CONSTANTS
    Workers = {o1, o2}
    Observers = {o1, o2}
    Installer = installer
    Clients = {c1}
    Passwords = {a, b}
    First = a
    Limit = 2
    Window = 1
    NoClient = NoClient
    MaxTime = 2
    MaxRequests = 4
    MaxFaults = 2
INVARIANTS TypeOK LimiterIsExact FileStaysWhole LoginIsCurrent
SYMMETRY Symmetry
