SPECIFICATION Spec
CONSTANTS
    Goroutines = {g1, g2}
    Regions <- NestedRegions
    Registries <- NestedRegistries
    NoOne = NoOne
    Nil = Nil
    Blank = Blank
    Failed = Failed
    MaxEpoch = 0
SYMMETRY AnyGoroutine
INVARIANTS
    ReturnsRequestedRegistry
