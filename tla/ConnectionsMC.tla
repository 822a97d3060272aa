----------------------------- MODULE ConnectionsMC -----------------------------
(***************************************************************************)
(* The programs that are about what goes on in one connection at a time,   *)
(* on small instances: Heartbeat, HalfClose, LengthFraming, HttpServer or  *)
(* Telnet runs, whichever of Programs the initial state says.              *)
(***************************************************************************)
EXTENDS Heartbeat

CONSTANTS Programs,
          MaxAsked,                                \* HalfClose
          Base, Width, MaxLine, BufSize, MaxMessages,  \* LengthFraming
          MaxConn, NoConn, MaxText, HttpLine,          \* HttpServer
          MaxTyped, TelnetProbes, Dir, Start           \* Telnet

VARIABLES program,
          closer, asked, answered, conn, up, down, doomed, answerer, held,
          sender, sent, stream, receiver, field, msg_length, got, received,
          stage, peer, text, wire, at, conn_fd, buf, request, exited,
          user, timeouts, typed, shown, turn, upward, downward, rst, serving,
          cwd, replied, whole

Half == INSTANCE HalfClose WITH client <- closer, server <- answerer
Framing == INSTANCE LengthFraming WITH client <- sender, server <- receiver
Http == INSTANCE HttpServer WITH MaxLine <- HttpLine
Tel == INSTANCE Telnet WITH MaxAsked <- MaxTyped, Probes <- TelnetProbes,
    client <- user, heartbeats <- timeouts, asked <- typed, got <- shown, stage <- turn,
    up <- upward, down <- downward, reset <- rst, conn_fd <- serving

ASSUME ConnectionsAssumption ==
    /\ Programs \subseteq {"heartbeat", "close", "framing", "http", "telnet"}
    /\ Half!AskedAssumption /\ Framing!FramingAssumption
    /\ Http!HttpAssumption /\ Tel!TelnetAssumption

halfVars == <<closer, asked, answered, conn, up, down, doomed, answerer, held>>
framingVars == <<sender, sent, stream, receiver, field, msg_length, got, received>>
httpVars == <<stage, peer, text, wire, at, conn_fd, buf, request, exited>>
telnetVars == <<user, timeouts, typed, shown, turn, upward, downward, rst, serving,
                cwd, replied, whole>>
MCvars == <<program, vars, halfVars, framingVars, httpVars, telnetVars>>

\* The choices of Heartbeat's and Telnet's Init are made only when they run.
MCInit ==
    /\ program \in Programs
    /\ Init /\ (program # "heartbeat" => sleeping_time = 0)
    /\ Half!Init /\ Framing!Init /\ Http!Init
    /\ Tel!Init /\ (program # "telnet" => whole = FALSE)

HeartbeatStep(A) ==
    /\ program = "heartbeat" /\ A
    /\ UNCHANGED <<program, halfVars, framingVars, httpVars, telnetVars>>
HalfStep(A) ==
    /\ program = "close" /\ A
    /\ UNCHANGED <<program, vars, framingVars, httpVars, telnetVars>>
FramingStep(A) ==
    /\ program = "framing" /\ A
    /\ UNCHANGED <<program, vars, halfVars, httpVars, telnetVars>>
HttpStep(A) ==
    /\ program = "http" /\ ~exited /\ A
    /\ UNCHANGED <<program, vars, halfVars, framingVars, telnetVars>>
TelnetStep(A) ==
    /\ program = "telnet" /\ A
    /\ UNCHANGED <<program, vars, halfVars, framingVars, httpVars>>

\* The steps of the five next-state relations, one by one.
MCNext ==
    \/ HeartbeatStep(Ping) \/ HeartbeatStep(GiveUp) \/ HeartbeatStep(Receive)
    \/ HeartbeatStep(Terminated) \/ HeartbeatStep(Read) \/ HeartbeatStep(Pong)
    \/ HeartbeatStep(End) \/ HeartbeatStep(Cut) \/ HeartbeatStep(Tick)
    \/ HalfStep(Half!Ask) \/ HalfStep(Half!ReadAnswers) \/ HalfStep(Half!ServerTerminated)
    \/ HalfStep(Half!ShutDown) \/ HalfStep(Half!Close) \/ HalfStep(Half!Refused)
    \/ HalfStep(Half!Read) \/ HalfStep(Half!Stop) \/ HalfStep(Half!Answer)
    \/ HalfStep(Half!Interrupt)
    \/ \E n \in 1 .. Width + BufSize :
         \/ FramingStep(Framing!ReadSome(n)) \/ FramingStep(Framing!LengthRead(n))
         \/ FramingStep(Framing!TypeRead(n)) \/ FramingStep(Framing!BodyRead(n))
    \/ FramingStep(Framing!EndOfStream) \/ FramingStep(Framing!ReadFails)
    \/ \E b \in Framing!Bodies : FramingStep(Framing!Send(b)) \/ FramingStep(Framing!Kill(b))
    \/ FramingStep(Framing!Close) \/ FramingStep(Framing!Reset)
    \/ \E c \in Http!Conn :
         \/ HttpStep(Http!Accept(c)) \/ HttpStep(Http!CreateFails(c))
         \/ HttpStep(Http!Connect(c)) \/ HttpStep(Http!Fin(c)) \/ HttpStep(Http!Reset(c))
         \/ \E x \in Http!Char : HttpStep(Http!Send(c, x))
    \/ HttpStep(Http!Recv) \/ HttpStep(Http!Peek)
    \/ HttpStep(Http!RecvEnd) \/ HttpStep(Http!RecvFails)
    \/ HttpStep(Http!RequestLine) \/ HttpStep(Http!HeaderLine)
    \/ HttpStep(Http!EndOfHeaders) \/ HttpStep(Http!Answer)
    \/ \E c \in Tel!Conn :
         \/ TelnetStep(Tel!Connect(c)) \/ TelnetStep(Tel!Ping(c)) \/ TelnetStep(Tel!Receive(c))
         \/ TelnetStep(Tel!EndOfInput(c)) \/ TelnetStep(Tel!GiveUp(c))
         \/ TelnetStep(Tel!Quit(c)) \/ TelnetStep(Tel!Kill(c))
         \/ TelnetStep(Tel!Accept(c)) \/ TelnetStep(Tel!Serve(c))
         \/ TelnetStep(Tel!ReadFails(c)) \/ TelnetStep(Tel!Close(c))
         \/ \E line \in Tel!Lines : TelnetStep(Tel!TypeLine(c, line))

MCSpec == MCInit /\ [][MCNext]_MCvars

\* A program that does not run stays in its initial state, where nothing that
\* its fairness is about can happen.
ConnectionsSpec == MCSpec /\ Half!Fairness /\ Framing!Fairness /\ Http!Fairness
TelnetSpec == MCSpec /\ Tel!Fairness

\* A client that shut down its half has all its answers when the stream ends.
ShutdownLosesNothing == Half!ShutdownLosesNothing

\* The server dies of an error only of answers that a closed client never read.
DiesOfLostAnswers == Half!DiesOfLostAnswers

\* shutdown and close end the connection.
EventuallyOver == Half!EventuallyOver

\* Messages arrive as they were sent, whole and in order.
ReceivedIsPrefix == Framing!ReceivedIsPrefix

\* Every message arrives in the end.
EventuallyReceived == Framing!EventuallyReceived

\* A request is answered at its first empty line, however it is cut and ended.
AnsweredAtEmptyLine == Http!AnsweredAtEmptyLine

\* A client that sends its whole request is answered in the end.
EventuallyAnswered == Http!EventuallyAnswered

\* However messages are cut, answers come once and in the order of the questions.
AnswersInOrder == Tel!AnswersInOrder

\* A client that has changed the directory is shown its own choice.
OwnDirectory == Tel!OwnDirectory

\* Every client's turn comes, and it is given all answers before it ends.
EventuallyServed == Tel!EventuallyServed
==============================================================================
