\* The constants of heartbeat, where an answer takes up to 14 seconds, more than
\* the probes allow, or as little as it can.  Four lines for close_server.  Three
\* messages of at most two bits, where an integer is two bits.  Two connections of
\* the HTTP server with four characters in all, and lines that are cut after three.
SPECIFICATION ConnectionsSpec
CONSTANTS
    Programs = {"heartbeat", "close", "framing", "http"}
    Time = 10
    Interval = 3
    Probes = 3
    MaxSleep = 10
    MaxLag = 2
    MaxAsked = 4
    Base = 2
    Width = 2
    MaxLine = 2
    BufSize = 3
    MaxMessages = 3
    MaxConn = 2
    NoConn = noConn
    MaxText = 4
    HttpLine = 4
    MaxTyped = 3
    TelnetProbes = 1
    Dir = {"d1", "d2"}
    Start = "d1"
INVARIANTS
    OnlyDeadGivenUp
    SilenceBounded
    ShutdownLosesNothing
    DiesOfLostAnswers
    ReceivedIsPrefix
    AnsweredAtEmptyLine
PROPERTIES
    EventuallyOver
    EventuallyReceived
    EventuallyAnswered
CHECK_DEADLOCK FALSE
