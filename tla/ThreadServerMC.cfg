\* Every thread copies conn_fd before the next accept returns; there are more
\* connections than descriptors.
SPECIFICATION LiveSpec
CONSTANTS
    MaxThread = 3
    MaxConn = 3
    NoConn = noConn
    MaxFd = 2
    NoFd = noFd
    MaxSent = 2
    Prompt = TRUE
INVARIANTS
    OneThreadPerConnection
PROPERTIES
    ImplementsService
    EventuallyServed
CHECK_DEADLOCK FALSE
