SPECIFICATION FairSpec
CONSTANTS
    Null = Null
    Nodes <- MCNodes
    ScreenIds <- MCScreenIds
    Texts <- MCTexts
    Symbols <- MCSymbols
    Values <- MCValues
    Descriptions <- MCDescriptions
    doc <- Terminal
    Saved <- MCSaved
    Fields <- MCFields
    Ring <- MCRing
    Refused <- MCRefused
    Empty = ""
    Joined <- MCJoined
    FirstWord <- MCFirstWord
    Lines <- MCLines
    Numbers <- MCNumbers
    PageSize = 1
    Capacity = 1
    MaxPieces = 2
    Nobody = Nobody
CHECK_DEADLOCK FALSE
INVARIANTS
    TypeOK
PROPERTIES
    RequiredAnswered
    ImplementsFrontEnd
    CommandEnds
    EndOfInput
