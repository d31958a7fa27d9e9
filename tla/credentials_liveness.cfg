SPECIFICATION LiveSpec
CONSTANTS
    Goroutines = {g1, g2, g3}
    Regions <- OneRegion
    Registries <- OneRegistry
    NoOne = NoOne
    Nil = Nil
    Blank = Blank
    Failed = Failed
    MaxEpoch = 0
PROPERTIES
    EveryCallReturns
