SPECIFICATION Spec
CONSTANTS
    Goroutines = {g1, g2, g3}
    Regions <- OneRegion
    Registries <- TwoRegistries
    NoOne = NoOne
    Nil = Nil
    Blank = Blank
    Failed = Failed
    MaxEpoch = 1
SYMMETRY AnyGoroutine
INVARIANTS
    TypeOK
    LockDiscipline
    NeverAllBlocked
    HitNeverNil
    ReturnsRequestedRegistry
PROPERTIES
    CacheNeverOlder
    ImplementsStore
