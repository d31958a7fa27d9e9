SPECIFICATION Spec
CONSTANTS
    Goroutines = {g1, g2}
    Regions <- OneRegion
    Registries <- TwoRegistries
    NoOne = NoOne
    Nil = Nil
    Blank = Blank
    Failed = Failed
    MaxEpoch = 0
SYMMETRY AnyGoroutine
INVARIANTS
    MapAccessGuarded
