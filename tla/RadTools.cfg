SPECIFICATION Spec
CONSTANTS
    Missing = Missing
    Names <- MCNames
    Unreadable = Unreadable
    add1 = add1
    add2 = add2
    del1 = del1
    Runs <- MCRuns
    Spellings <- MCSpellings
    Files <- MCFiles
    Keys <- MCKeys
    FileOf <- MCFileOf
    KeyOf <- MCKeyOf
    Deltas <- MCDeltas
    CommandLines <- MCCommandLines
    Outcomes <- MCOutcomes
    Valid <- MCValid
    InitialDocs <- MCInitialDocs
INVARIANTS
    TypeOK
    AloneWithFile
    EditIsCurrent
    LockHasOwner
    FilesStayValid
    DeletionUndoesAddition
PROPERTIES
    ImplementsStore
CHECK_DEADLOCK FALSE
