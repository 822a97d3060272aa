\* Three connections of which two can be open at once, so that accept fails; two
\* descriptors and two slots of the library, whose user makes four calls.
SPECIFICATION LoopsSpec
CONSTANTS
    Programs = {"server", "loop"}
    MaxConn = 3
    MaxSent = 2
    Listen = listen
    MaxOpen = 2
    MaxTotal = 3
    MaxFd = 1
    Size = 2
    Default = 1
    MaxCalls = 4
    NoChannel = none
    Key <- Pointers
    Text <- OwnText
    Hash <- SomeHash
    Val = {v1, v2}
    Absent = absent
    InitialSize = 2
    ExpandTo = {2, 8}
    RehashBy = {1}
INVARIANTS
    EventsStillHold
    EachReportedOnce
    NoStaleCall
PROPERTIES
    ImplementsService
    EventuallyServed
    EventuallyDispatched
CHECK_DEADLOCK FALSE
