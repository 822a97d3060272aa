------------------------------ MODULE HalfClose ------------------------------
(***************************************************************************)
(* chap-11/close_client.c and close_server.c: a client that asks, and then *)
(* shuts down its half of the connection or closes it; a server that takes *)
(* five seconds for an answer.  What is asked is counted in lines, and a   *)
(* read of the server may join several.                                    *)
(***************************************************************************)
EXTENDS Naturals

CONSTANT MaxAsked  \* bound: lines the client sends

AskedAssumption == MaxAsked \in Nat

VARIABLES client,    \* "up", "shutdown", "closed" by close or a signal, or "exited" by itself
          asked,     \* lines sent
          answered,  \* lines with an answer that the client has read
          conn,      \* as the server has it: "open", "fin" received, "rst" received,
                     \* or "dead" when a RST came after the FIN, of either side
          up,        \* lines the server has not read
          down,      \* lines with an answer that the client has not read
          doomed,    \* an answer has met a closed client, whose kernel sends a RST for it
          server,    \* "read" or "sleep"; exited: "end", "read_error", "write_error",
                     \* "sigpipe" or "sigint"
          held       \* lines in message

clientVars == <<client, asked, answered>>
serverVars == <<server, held>>
vars == <<clientVars, conn, up, down, doomed, serverVars>>

Init ==
    /\ client = "up" /\ asked = 0 /\ answered = 0
    /\ conn = "open" /\ up = 0 /\ down = 0 /\ doomed = FALSE
    /\ server = "read" /\ held = 0

Running == server \in {"read", "sleep"}

-----------------------------------------------------------------------------
(* The client *)

\* A line from stdin.  rt < 0 is false for every size_t: an error of write goes
\* unnoticed, but the second write to a server that has exited raises SIGPIPE.
Ask ==
    /\ client = "up" /\ asked < MaxAsked
    /\ asked' = asked + 1
    /\ up' = up + 1
    /\ \/ Running /\ UNCHANGED <<client, conn>>
       \/ ~Running /\ conn # "dead" /\ conn' = "dead" /\ UNCHANGED client
       \/ ~Running /\ conn = "dead" /\ client' = "exited" /\ UNCHANGED conn
    /\ UNCHANGED <<answered, down, doomed, serverVars>>

ReadAnswers ==
    /\ client \in {"up", "shutdown"} /\ down > 0
    /\ \E n \in 1 .. down : answered' = answered + n /\ down' = down - n
    /\ UNCHANGED <<client, asked, conn, up, doomed, serverVars>>

\* "server terminated", or "read error" when the server left lines unread.
ServerTerminated ==
    /\ client \in {"up", "shutdown"} /\ down = 0 /\ ~Running
    /\ client' = "exited"
    /\ UNCHANGED <<asked, answered, conn, up, down, doomed, serverVars>>

\* It fails when the server has left with a RST.
ShutDown ==
    /\ client = "up"
    /\ \/ conn = "open" /\ client' = "shutdown" /\ conn' = "fin"
       \/ ~Running /\ client' = "exited" /\ UNCHANGED conn
    /\ UNCHANGED <<asked, answered, up, down, doomed, serverVars>>

\* close, or the client is killed.  When an answer lies unread the kernel sends
\* a RST, which may overtake lines; an answer that is still on its way meets a
\* closed client.
Close ==
    /\ client \in {"up", "shutdown"}
    /\ client' = "closed" /\ down' = 0
    /\ \/ ~Running /\ UNCHANGED <<conn, up, doomed>>
       \/ /\ Running /\ doomed' = (down > 0) /\ conn' = "fin" /\ UNCHANGED up
       \/ /\ Running /\ down > 0 /\ UNCHANGED doomed
          /\ conn' = IF conn = "open" THEN "rst" ELSE "dead"
          /\ up' \in 0 .. up
    /\ UNCHANGED <<asked, answered, serverVars>>

\* The RST for an answer that nobody can read.
Refused ==
    /\ doomed /\ conn = "fin"
    /\ conn' = "dead"
    /\ UNCHANGED <<clientVars, up, down, doomed, serverVars>>

-----------------------------------------------------------------------------
(* The server *)

Read ==
    /\ server = "read" /\ up > 0
    /\ \E n \in 1 .. up : held' = n /\ up' = up - n
    /\ server' = "sleep"
    /\ UNCHANGED <<clientVars, conn, down, doomed>>

Stop_Early ==
    /\ server = "read" /\ conn # "open"
    /\ server' = IF conn = "rst" THEN "read_error" ELSE "end"
    /\ UNCHANGED <<clientVars, conn, up, down, doomed, held>>

Stop_Never ==
    /\ server = "read" /\ up = 0 /\ conn = "rst"
    /\ server' = "read_error"
    /\ UNCHANGED <<clientVars, conn, up, down, doomed, held>>

\* read returns 0 once a FIN is there, whatever followed it, else -1.
Stop ==
    /\ server = "read" /\ up = 0 /\ conn # "open"
    /\ server' = IF conn = "rst" THEN "read_error" ELSE "end"
    /\ UNCHANGED <<clientVars, conn, up, down, doomed, held>>

Answer_Signal ==
    /\ server = "sleep"
    /\ IF client = "closed"
       THEN server' = "sigpipe" /\ UNCHANGED <<down, doomed>>
       ELSE server' = "read" /\ down' = down + held /\ UNCHANGED doomed
    /\ UNCHANGED <<clientVars, conn, up, held>>

\* After sleep(5).  send gives an error that read would report, ECONNRESET;
\* a RST that came after the FIN is EPIPE, with the signal.
Answer ==
    /\ server = "sleep"
    /\ \/ /\ conn \in {"open", "fin"} /\ server' = "read"
          /\ IF client = "closed"
             THEN doomed' = TRUE /\ UNCHANGED down
             ELSE down' = down + held /\ UNCHANGED doomed
       \/ conn = "rst" /\ server' = "write_error" /\ UNCHANGED <<down, doomed>>
       \/ conn = "dead" /\ server' = "sigpipe" /\ UNCHANGED <<down, doomed>>
    /\ UNCHANGED <<clientVars, conn, up, held>>

\* sigint_handle exits, in the middle of sleep too.
Interrupt ==
    /\ Running
    /\ server' = "sigint"
    /\ UNCHANGED <<clientVars, conn, up, down, doomed, held>>

-----------------------------------------------------------------------------

Client == ReadAnswers \/ ServerTerminated
Server == Read \/ Stop \/ Answer

Next == Ask \/ Client \/ ShutDown \/ Close \/ Refused \/ Server \/ Interrupt

Spec == Init /\ [][Next]_vars

\* Both processes run; nobody has to type, or to interrupt.
Fairness == WF_vars(Client) /\ WF_vars(Server)

-----------------------------------------------------------------------------
(* Properties *)

\* Every variable stays in its range, and while the connection lives each line
\* is in one place: answered, on its way, or held by the server.
TypeOK ==
    /\ client \in {"up", "shutdown", "closed", "exited"}
    /\ conn \in {"open", "fin", "rst", "dead"} /\ doomed \in BOOLEAN
    /\ server \in {"read", "sleep", "end", "read_error", "write_error", "sigpipe", "sigint"}
    /\ {asked, answered, up, down, held} \subseteq 0 .. MaxAsked
    /\ client \in {"up", "shutdown"} =>
         asked = answered + down + up + (IF server = "sleep" THEN held ELSE 0)
           \/ server = "sigint"

\* A client that shuts down its half and waits for the end of the stream has an
\* answer for all it asked, although the server had the FIN before it answered.
ShutdownLosesNothing ==
    /\ TypeOK
    /\ client = "exited" /\ conn = "fin" /\ server # "sigint" => answered = asked

\* The server dies of an error only when the client closed with answers that it
\* never read, and of SIGPIPE only at its second answer to nobody: the first one
\* is accepted.
DiesOfLostAnswers ==
    /\ server \in {"read_error", "write_error", "sigpipe"} =>
         client = "closed" /\ answered < asked
    /\ server = "sigpipe" => answered + held < asked

\* shutdown makes both processes end, and close ends the server too.
EventuallyOver ==
    client # "up" ~> ~Running /\ client \notin {"up", "shutdown"}
==============================================================================
