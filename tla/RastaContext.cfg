SPECIFICATION FairSpec
CONSTANTS
    Null = Null
    Nodes <- MCNodes
    ScreenIds <- MCScreenIds
    Texts <- MCTexts
    Symbols <- MCSymbols
    Values <- MCValues
    Objects <- MCObjects
    Descriptions <- AllDescriptions
INVARIANTS
    TypeOK
    IInv
    ScopesFormPath
    InitcommandBelongs
    MenuShowsOwnChoices
    ChoicesLead
    ScopeShowsNamedScreen
    FastpathSound
    FastpathComplete
PROPERTIES
    NewScreenAsksInitcommand
    LowerScopesKeepSymbols
    LoadRestores
    LoadRetraces
    ImplementsTrail
    CallsReturn
    FailedLoadReverts
