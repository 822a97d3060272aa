------------------------------- MODULE Telnet -------------------------------
(***************************************************************************)
(* mid-homework/telnet_client.c and telnet_server.c: clients that send the *)
(* lines of a terminal, and a ping when nothing happens, to a server that  *)
(* executes them for one client at a time.                                 *)
(*                                                                         *)
(* A message (struct msg_obj) is longer than a segment and neither side    *)
(* reads it in a loop: it is two pieces on the wire, the one with its type *)
(* and its text and the rest, and a read may return one of them or two.    *)
(* A piece keeps the number of the client's message that it belongs to or  *)
(* answers; only the properties look at it.                                *)
(***************************************************************************)
EXTENDS Naturals, Sequences, FiniteSets, SequencesExt

CONSTANTS MaxConn,   \* bound: clients that connect
          NoConn,    \* no client is being served
          MaxAsked,  \* bound: messages the clients send, all together
          Probes,    \* KEEP_ALIVE_PROBE_TIMES
          Dir,       \* the directories there are
          Start      \* the one the server is started in

Conn == 1 .. MaxConn

TelnetAssumption ==
    /\ MaxConn \in Nat /\ NoConn \notin Conn
    /\ MaxAsked \in Nat /\ Probes \in Nat
    /\ Start \in Dir
    /\ \A line \in {"ls", "other", "none"} : line \notin Dir

\* The lines users type but for "quit": a directory stands for a cd to it, "ls"
\* for all commands whose output depends on the directory, "other" for unknown
\* commands and a cd that fails.
Lines == {"ls", "other"} \cup Dir

VARIABLES client,      \* "new", "up", "eof" when its stdin has ended, or "gone"
          heartbeats,
          asked,       \* the messages the client sent
          got,         \* the answers it recognised
          stage,       \* "new", "backlog", "open" or "closed" by the server
          up, down,    \* pieces on their way to the server, to the client
          reset,       \* the RST of a client that is gone: "no", "pending" or "reported"
          conn_fd,     \* the client that main is serving
          cwd,         \* the working directory of the server process
          replied,     \* the answers the server sent
          whole        \* the network delivers every message in one piece

clientVars == <<client, heartbeats, asked, got>>
wireVars == <<up, down, reset>>
serverVars == <<stage, conn_fd, cwd, replied>>
vars == <<clientVars, wireVars, serverVars, whole>>

Init ==
    /\ client = [c \in Conn |-> "new"]
    /\ heartbeats = [c \in Conn |-> 0]
    /\ asked = [c \in Conn |-> <<>>] /\ got = [c \in Conn |-> <<>>]
    /\ stage = [c \in Conn |-> "new"]
    /\ up = [c \in Conn |-> <<>>] /\ down = [c \in Conn |-> <<>>]
    /\ reset = [c \in Conn |-> "no"]
    /\ conn_fd = NoConn /\ cwd = Start
    /\ replied = [c \in Conn |-> <<>>]
    /\ whole \in BOOLEAN

-----------------------------------------------------------------------------
(* The wire *)

Rest == [type |-> "rest", no |-> 0, data |-> "none"]
Sent(pieces, m) == pieces \o <<m, Rest>>

Taken_Twice(pieces, n) ==
    /\ n \in 1 .. Len(pieces)
    /\ whole => n % 2 = 0

\* read asks for the size of one message and gets n pieces.
Taken(pieces, n) ==
    /\ n \in 1 .. 2 /\ n <= Len(pieces)
    /\ whole => n = 2

After(pieces, n) == SubSeq(pieces, n + 1, Len(pieces))

-----------------------------------------------------------------------------
(* The client: one turn of its select loop per action *)

Connect(c) ==
    /\ client[c] = "new" /\ \A b \in 1 .. c - 1 : client[b] # "new"
    /\ client' = [client EXCEPT ![c] = "up"]
    /\ stage' = [stage EXCEPT ![c] = "backlog"]
    /\ UNCHANGED <<heartbeats, asked, got, wireVars, conn_fd, cwd, replied, whole>>

Total == Cardinality(UNION {{c} \X DOMAIN asked[c] : c \in Conn})

Alive(c) == client[c] \in {"up", "eof"}

Ask(c, type, data) ==
    /\ Total < MaxAsked
    /\ asked' = [asked EXCEPT ![c] = Append(@, [type |-> type, data |-> data])]
    /\ up' = [up EXCEPT ![c] =
                 Sent(@, [type |-> type, no |-> Len(asked[c]) + 1, data |-> data])]

\* select returns 0 only when there is nothing to read from either side; at
\* its end stdin can always be read.
Elapsed(c) == client[c] = "up" /\ down[c] = <<>>

Ping(c) ==
    /\ Elapsed(c) /\ heartbeats[c] + 1 <= Probes
    /\ heartbeats' = [heartbeats EXCEPT ![c] = @ + 1]
    /\ Ask(c, "ping", "none")
    /\ UNCHANGED <<client, got, down, reset, serverVars, whole>>

\* A line is a sign of life as good as a message.
TypeLine(c, line) ==
    /\ client[c] = "up"
    /\ heartbeats' = [heartbeats EXCEPT ![c] = 0]
    /\ Ask(c, "text", line)
    /\ UNCHANGED <<client, got, down, reset, serverVars, whole>>

\* fgets returns NULL, now and in every turn to come.
EndOfInput(c) ==
    /\ client[c] = "up"
    /\ client' = [client EXCEPT ![c] = "eof"]
    /\ heartbeats' = [heartbeats EXCEPT ![c] = 0]
    /\ UNCHANGED <<asked, got, wireVars, serverVars, whole>>

\* What starts with the rest of a message has an unknown type.
Receive(c) ==
    /\ Alive(c)
    /\ \E n \in 1 .. Len(down[c]) :
         /\ Taken(down[c], n)
         /\ down' = [down EXCEPT ![c] = After(@, n)]
    /\ heartbeats' = [heartbeats EXCEPT ![c] = 0]
    /\ got' = IF Head(down[c]) = Rest THEN got ELSE [got EXCEPT ![c] = Append(@, Head(down[c]))]
    /\ UNCHANGED <<client, asked, up, reset, serverVars, whole>>

\* The process ends and the kernel closes the socket.  A FIN follows the data;
\* a RST, sent when answers are left unread, may overtake some of them.
Gone(c) ==
    /\ client' = [client EXCEPT ![c] = "gone"]
    /\ heartbeats' = [heartbeats EXCEPT ![c] = 0]
    /\ got' = [got EXCEPT ![c] = <<>>]
    /\ down' = [down EXCEPT ![c] = <<>>]
    /\ IF down[c] = <<>>
       THEN UNCHANGED <<up, reset>>
       ELSE /\ reset' = [reset EXCEPT ![c] = "pending"]
            /\ \E n \in 0 .. Len(up[c]) :
                 /\ whole => n % 2 = 0
                 /\ up' = [up EXCEPT ![c] = SubSeq(@, 1, n)]
    /\ UNCHANGED <<asked, serverVars, whole>>

\* error(1, 0, "connection dead \n").
GiveUp(c) == Elapsed(c) /\ heartbeats[c] + 1 > Probes /\ Gone(c)

\* "quit": shutdown for writing, and the send that follows raises SIGPIPE.
Quit(c) == client[c] = "up" /\ Gone(c)

\* The user ends the process.
Kill(c) == Alive(c) /\ Gone(c)

-----------------------------------------------------------------------------
(* The server *)

Backlog == {c \in Conn : stage[c] = "backlog"}

Accept(c) ==
    /\ conn_fd = NoConn
    /\ c \in Backlog /\ \A b \in Backlog : c <= b
    /\ conn_fd' = c
    /\ stage' = [stage EXCEPT ![c] = "open"]
    /\ UNCHANGED <<clientVars, wireVars, cwd, replied, whole>>

\* What send reports is 0 in no case, so that the loop goes on; a client that
\* is gone answers with a RST, which the next call reports.
Reply(c, m) ==
    /\ replied' = [replied EXCEPT ![c] = Append(@, m)]
    /\ IF Alive(c)
       THEN down' = [down EXCEPT ![c] = Sent(@, m)] /\ UNCHANGED reset
       ELSE /\ UNCHANGED down
            /\ \E r \in IF reset[c] = "no" THEN {"no", "pending"} ELSE {"reported"} :
                 reset' = [reset EXCEPT ![c] = r]

Execute_Subshell(c, m) ==
    /\ UNCHANGED cwd
    /\ Reply(c, [m EXCEPT !.data =
           CASE m.data = "ls" -> cwd
             [] m.data \in Dir -> "any"
             [] m.data = "other" -> "refused"])

\* After a successful chdir the answer is whatever msg.data held before.
Execute(c, m) ==
    /\ cwd' = IF m.data \in Dir THEN m.data ELSE cwd
    /\ Reply(c, [m EXCEPT !.data =
           CASE m.data = "ls" -> cwd
             [] m.data \in Dir -> "any"
             [] m.data = "other" -> "refused"])

Handle(c, m) ==
    \/ m = Rest /\ UNCHANGED <<down, reset, cwd, replied>>
    \/ m.type = "ping" /\ Reply(c, [m EXCEPT !.type = "pong"]) /\ UNCHANGED cwd
    \/ m.type = "text" /\ Execute(c, m)

\* A read that returns data, and what the loop does with it.
Serve(c) ==
    /\ conn_fd = c
    /\ \E n \in 1 .. Len(up[c]) :
         /\ Taken(up[c], n)
         /\ up' = [up EXCEPT ![c] = After(@, n)]
    /\ Handle(c, Head(up[c]))
    /\ UNCHANGED <<clientVars, stage, conn_fd, whole>>

\* read returns -1 and the loop goes on.
ReadFails(c) ==
    /\ conn_fd = c /\ up[c] = <<>> /\ reset[c] = "pending"
    /\ reset' = [reset EXCEPT ![c] = "reported"]
    /\ UNCHANGED <<clientVars, up, down, serverVars, whole>>

AtEof(c) == conn_fd = c /\ up[c] = <<>> /\ client[c] = "gone" /\ reset[c] # "pending"


Close(c) ==
    /\ AtEof(c)
    /\ conn_fd' = NoConn
    /\ stage' = [stage EXCEPT ![c] = "closed"]
    /\ UNCHANGED <<clientVars, wireVars, cwd, replied, whole>>

-----------------------------------------------------------------------------

Server == \E c \in Conn : Accept(c) \/ Serve(c) \/ ReadFails(c) \/ Close(c)

Client(c) ==
    \/ Connect(c) \/ Ping(c) \/ Receive(c) \/ EndOfInput(c)
    \/ GiveUp(c) \/ Quit(c) \/ Kill(c)
    \/ \E line \in Lines : TypeLine(c, line)

Next == Server \/ \E c \in Conn : Client(c)

Spec == Init /\ [][Next]_vars

\* The server runs; users end their clients some day.  Without that a client
\* that stays, the end of its stdin included, keeps all the others waiting.
Fairness == WF_vars(Server) /\ \A c \in Conn : WF_vars(Kill(c))

-----------------------------------------------------------------------------
(* Properties *)

Answer == [type : {"pong", "text"}, no : 1 .. MaxAsked,
           data : Dir \cup {"none", "any", "refused"}]

\* Every variable stays in its range; no client goes on with more than Probes
\* timeouts on its count.
TypeOK ==
    /\ client \in [Conn -> {"new", "up", "eof", "gone"}]
    /\ heartbeats \in [Conn -> 0 .. Probes]
    /\ stage \in [Conn -> {"new", "backlog", "open", "closed"}]
    /\ reset \in [Conn -> {"no", "pending", "reported"}]
    /\ conn_fd \in Conn \cup {NoConn} /\ cwd \in Dir /\ whole \in BOOLEAN
    /\ \A c \in Conn :
         /\ ToSet(got[c]) \cup ToSet(replied[c]) \subseteq Answer
         /\ ToSet(asked[c]) \subseteq [type : {"ping", "text"}, data : Lines \cup {"none"}]
         /\ Len(up[c]) <= 2 * MaxAsked /\ Len(down[c]) <= 2 * MaxAsked
         /\ conn_fd = c <=> stage[c] = "open"

Rising(answers) ==
    \A i, j \in DOMAIN answers : i < j => answers[i].no < answers[j].no

\* However the messages are cut, no answer is given twice, out of turn or to a
\* message that was not sent; a network that delivers them whole makes that
\* one answer to every message, and the client sees them all.
AnswersInOrder ==
    /\ TypeOK
    /\ \A c \in Conn :
           /\ Rising(replied[c]) /\ Rising(got[c])
           /\ \A i \in DOMAIN replied[c] :
                LET a == replied[c][i] IN
                /\ a.no \in DOMAIN asked[c]
                /\ a.type = "pong" <=> asked[c][a.no].type = "ping"
           /\ whole => /\ IsPrefix(got[c], replied[c])
                       /\ Len(replied[c]) > 0 => Last(replied[c]).no = Len(replied[c])

\* chdir changes the directory of the process, which all clients share; still
\* a client that has changed it is shown its own choice until it leaves.
OwnDirectory ==
    \A c \in Conn : \A i, j \in DOMAIN replied[c] :
        LET Line(k) == asked[c][replied[c][k].no].data IN
        (i < j /\ Line(i) \in Dir /\ Line(j) = "ls"
           /\ \A k \in i + 1 .. j - 1 : Line(k) \notin Dir)
        => replied[c][j].data = Line(i)

\* Every client's turn comes, and when its connection is closed everything it
\* sent has been answered, unless a message was cut or a RST overtook it.
EventuallyServed ==
    \A c \in Conn : stage[c] = "backlog" ~>
        /\ stage[c] = "closed"
        /\ whole /\ reset[c] = "no" => Len(replied[c]) = Len(asked[c])
=============================================================================
