SPECIFICATION Spec
CONSTANTS
    Null = Null
    Nodes <- MCNodes
    ScreenIds <- MCScreenIds
    Texts <- MCTexts
    Symbols <- MCSymbols
    Values <- MCValues
    Objects <- MCObjects
    Descriptions <- CollidingOnly
INVARIANTS
    ScopeShowsNamedScreen
