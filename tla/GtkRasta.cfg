SPECIFICATION FairSpec
CONSTANTS
    Null = Null
    Nodes <- MCNodes
    ScreenIds <- MCScreenIds
    Texts <- MCTexts
    Symbols <- MCSymbols
    Values <- MCValues
    Descriptions <- MCDescriptions
    doc <- Window
    Fields <- MCFields
    Ring <- MCRing
    Refused <- MCRefused
    Empty = ""
    Tty <- MCTty
    Confirmed <- MCConfirmed
    Output <- MCOutput
    MaxPieces = 2
    Nobody = Nobody
CHECK_DEADLOCK FALSE
INVARIANTS
    TypeOK
    CommandOwnsScreen
    LinesWhole
PROPERTIES
    DialogStores
    ImplementsFrontEnd
    ActivityEnds
    CancelEnds
