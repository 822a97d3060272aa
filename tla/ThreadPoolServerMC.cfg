\* Three connections share two workers, two descriptors and a queue of one
\* slot: main waits for room, workers wait for work, descriptors are reused.
SPECIFICATION LiveSpec
CONSTANTS
    Main = main
    Workers = {w1, w2}
    Size = 1
    MaxFd = 2
    NoFd = noFd
    NoThread = noThread
    MaxConn = 3
    NoConn = noConn
    MaxSent = 1
INVARIANTS
    OneHand
PROPERTIES
    ImplementsService
    EventuallyServed
CHECK_DEADLOCK FALSE
