SPECIFICATION Spec
CONSTANTS
    Nothing = Nothing
    Empty = Empty
    first = first
    second = second
    third = third
    Requests <- MCRequests
    Users = {"root", "joel"}
    Strangers = {"nobody"}
    Passwords = {"", "secret"}
    PasswordOf <- MCPasswordOf
    Timeout = 1
    MaxTime = 2
SYMMETRY MCSymmetry
INVARIANTS
    TypeOK
    RecordsOwn
    EmptyHasWriter
    SomebodyAhead
PROPERTIES
    ExpiredForGood
CHECK_DEADLOCK FALSE
