\* Three connections and two process slots: a slot is used again, fork fails
\* when both children are alive or not reaped, and signals merge.
SPECIFICATION LiveSpec
CONSTANTS
    MaxChild = 2
    MaxConn = 3
    NoConn = noConn
    MaxSent = 1
INVARIANTS
    OpenIsHeld
    ZombieIsSignalled
PROPERTIES
    ImplementsService
    EventuallyServed
CHECK_DEADLOCK FALSE
