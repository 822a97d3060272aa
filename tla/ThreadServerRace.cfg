\* Any schedule.
SPECIFICATION Spec
CONSTANTS
    MaxThread = 2
    MaxConn = 2
    NoConn = noConn
    MaxFd = 2
    NoFd = noFd
    MaxSent = 1
    Prompt = FALSE
INVARIANT
    OneThreadPerConnection
CHECK_DEADLOCK FALSE
