SPECIFICATION LiveSpec
CONSTANTS
    Lists <- EveryList
    PageCount = 3
    FirstToken = 7
    Precision = 3
    NoToken = NoToken
    Contexts = {c1}
    NoContext = NoContext
    MaxDepth = 2
INVARIANTS
    TypeOK
    PagesInOrder
    TokenRestored
    OnlyLastPageLost
PROPERTIES
    PagesEnds
