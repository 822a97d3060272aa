\* Two telnet clients with three messages between them; a directory to go to and
\* one to come back to.  The constants of the others are as in ConnectionsMC.cfg.
SPECIFICATION TelnetSpec
CONSTANTS
    Programs = {"telnet"}
    Time = 10
    Interval = 3
    Probes = 3
    MaxSleep = 10
    MaxLag = 2
    MaxAsked = 4
    Base = 2
    Width = 2
    MaxLine = 2
    BufSize = 3
    MaxMessages = 3
    MaxConn = 2
    NoConn = noConn
    MaxText = 4
    HttpLine = 4
    MaxTyped = 3
    TelnetProbes = 1
    Dir = {"d1", "d2"}
    Start = "d1"
INVARIANTS
    AnswersInOrder
    OwnDirectory

    
CHECK_DEADLOCK FALSE
