SPECIFICATION Spec
CONSTANTS
    Literals = {a, b}
    EmptyText = EmptyText
    NoName = NoName
    Unnamed <- NumberedName
    Paths <- SmallPaths
    Values <- SmallValues
    Absent = Absent
    MaxTokens = 9
    MaxPath = 4
SYMMETRY AnyLiteral
CHECK_DEADLOCK FALSE
INVARIANTS
    TypeOK
    TemplateSound
    MatchDecides
    RenderInvertsMatch
    MatchInvertsRender
