\* The hash table with an initial size of 2: the third add starts a rehash.  The
\* constants of the others do not matter.
SPECIFICATION MCSpec
CONSTANTS
    Programs = {"dict"}
    MaxConn = 1
    MaxSent = 1
    Listen = listen
    MaxOpen = 1
    MaxTotal = 1
    MaxFd = 0
    Size = 1
    Default = 1
    MaxCalls = 2
    NoChannel = none
    Key <- Pointers
    Text <- OwnText
    Hash <- SomeHash
    Val = {v1, v2}
    Absent = absent
    InitialSize = 2
    ExpandTo = {2, 8}
    RehashBy = {1}
INVARIANT
    TablesConsistent
PROPERTY
    ImplementsMap
CHECK_DEADLOCK FALSE
