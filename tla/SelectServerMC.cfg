\* Three connections, one buffer that two of them use in turn, one descriptor
\* equal to FD_MAX_SIZE and one above it.
SPECIFICATION LiveSpec
CONSTANTS
    MaxConn = 3
    NoConn = noConn
    FdMaxSize = 3
    FdLimit = 4
    Capacity = 2
    MaxSent = 3
INVARIANTS
    OnlyOneLost
    EchoIsPrefix
PROPERTY
    EventuallyEchoed
CHECK_DEADLOCK FALSE
