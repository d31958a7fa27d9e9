SPECIFICATION Spec
CONSTANTS
    Goroutines = {g1}
    Projects = {p1, p2}
    Regions = {us}
    Registries = {r1, r2}
    Devices = {d1, d2}
    Calls <- AllCalls
    Setters = {"IfNoneMatch"}
    NoSetter = NoSetter
    ServiceAccount = ServiceAccount
    MaxOptions = 2
    NoRequest = NoRequest
    Nil = Nil
    Blank = Blank
    Failed = Failed
    MaxEpoch = 1
SYMMETRY AnyName
INVARIANTS
    OnlyProjectLost
VIEW UpToLastCall
