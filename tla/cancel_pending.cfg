SPECIFICATION ClientSpec
CONSTANTS
    Goroutines = {g1}
    Projects = {p1}
    Regions = {us}
    Registries = {r1}
    Devices = {d1}
    Calls = {"get"}
    Setters = {}
    NoSetter = NoSetter
    ServiceAccount = ServiceAccount
    MaxOptions = 0
    NoRequest = NoRequest
    Nil = Nil
    Blank = Blank
    Failed = Failed
    MaxEpoch = 0
PROPERTIES
    CancelledCallsReturn
