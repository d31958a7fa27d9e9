SPECIFICATION IoTHistorySpec
CONSTANTS
    Goroutines = {g1, g2}
    Projects = {p1}
    Regions = {us}
    Registries = {r1}
    Devices = {d1}
    Calls = {"get", "delete"}
    Setters = {}
    NoSetter = NoSetter
    ServiceAccount = ServiceAccount
    MaxOptions = 2
    NoRequest = NoRequest
    Nil = Nil
    Blank = Blank
    Failed = Failed
    MaxEpoch = 0
INVARIANTS
    TypeOK
    BodiesClosed
    CancellationReported
PROPERTIES
    AdminCallsReturn
    EveryCallReturns
