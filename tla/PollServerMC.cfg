\* Four connections for two slots: slots are used again, connections are lost,
\* and accept fails when three are open.
SPECIFICATION LiveSpec
CONSTANTS
    MaxConn = 4
    PollFdSize = 3
    MaxOpen = 3
    NoConn = noConn
    MaxSent = 1
INVARIANTS
    SlotsAreOpen
PROPERTIES
    ImplementsService
    LostOnlyWhenFull
    EventuallyServed
CHECK_DEADLOCK FALSE
