------------------------------ MODULE HttpServer ------------------------------
(***************************************************************************)
(* chap-16/tcp_http_server.c: one client at a time; read_line takes the    *)
(* request character by character and ends a line at LF, CR LF or a lone   *)
(* CR; an empty line ends the request, and the answer is always the same.  *)
(*                                                                         *)
(* Of the characters only the line ends matter.                            *)
(***************************************************************************)
EXTENDS Naturals, Sequences, SequencesExt

CONSTANTS MaxConn,  \* bound: connections that clients open
          NoConn,   \* main serves nobody
          MaxText,  \* bound: characters the clients send, all together
          MaxLine   \* MAX_LINE, the size of buf

HttpAssumption == MaxConn \in Nat /\ NoConn \notin 1 .. MaxConn /\ MaxLine \in Nat \ {0, 1}

Conn == 1 .. MaxConn
Char == {"other", "cr", "lf"}

VARIABLES stage,    \* "new", "backlog", "open", "closed" or "leaked", per connection
          peer,     \* "up", "fin", "reset", and "reported" when recv has returned -1 for it
          text,     \* what the client sent
          wire,     \* what of it has not been received
          at,       \* "accept", "line" in read_line, "peek" after a CR, "end" when it
                    \* returns, "answer" after parse_header
          conn_fd,
          buf,      \* the line read so far, a CR or CR LF as LF
          request,  \* it is the request line
          exited

clientVars == <<stage, peer, text, wire>>
serverVars == <<at, conn_fd, buf, request, exited>>
vars == <<clientVars, serverVars>>

Init ==
    /\ stage = [c \in Conn |-> "new"] /\ peer = [c \in Conn |-> "up"]
    /\ text = [c \in Conn |-> <<>>] /\ wire = [c \in Conn |-> <<>>]
    /\ at = "accept" /\ conn_fd = NoConn
    /\ buf = <<>> /\ request = TRUE /\ exited = FALSE

-----------------------------------------------------------------------------
(* Clients *)

Connect(c) ==
    /\ stage[c] = "new" /\ \A b \in 1 .. c - 1 : stage[b] # "new"
    /\ stage' = [stage EXCEPT ![c] = "backlog"]
    /\ UNCHANGED <<peer, text, wire, serverVars>>

Alive(c) == stage[c] \in {"backlog", "open"} /\ peer[c] = "up"

Send(c, x) ==
    /\ Alive(c) /\ FoldFunction(LAMBDA t, n : n + Len(t), 0, text) < MaxText
    /\ text' = [text EXCEPT ![c] = Append(@, x)]
    /\ wire' = [wire EXCEPT ![c] = Append(@, x)]
    /\ UNCHANGED <<stage, peer, serverVars>>

Fin(c) ==
    /\ Alive(c)
    /\ peer' = [peer EXCEPT ![c] = "fin"]
    /\ UNCHANGED <<stage, text, wire, serverVars>>

\* The RST may overtake some of what was sent.
Reset(c) ==
    /\ Alive(c)
    /\ peer' = [peer EXCEPT ![c] = "reset"]
    /\ \E n \in 0 .. Len(wire[c]) : wire' = [wire EXCEPT ![c] = SubSeq(@, 1, n)]
    /\ UNCHANGED <<stage, text, serverVars>>

-----------------------------------------------------------------------------
(* main *)

Backlog == {c \in Conn : stage[c] = "backlog"}

Accepted(c) ==
    /\ at = "accept" /\ c \in Backlog /\ \A b \in Backlog : c <= b
    /\ UNCHANGED <<peer, text, wire, exited>>

Accept(c) ==
    /\ Accepted(c)
    /\ stage' = [stage EXCEPT ![c] = "open"]
    /\ conn_fd' = c /\ at' = "line" /\ buf' = <<>> /\ request' = TRUE

\* dictCreate returns NULL: main goes on without closing the connection.
CreateFails(c) ==
    /\ Accepted(c)
    /\ stage' = [stage EXCEPT ![c] = "leaked"]
    /\ UNCHANGED <<at, conn_fd, buf, request>>

-----------------------------------------------------------------------------
(* read_line *)

Put(x) ==
    /\ buf' = Append(buf, x)
    /\ at' = IF x = "lf" \/ Len(buf) + 1 = MaxLine - 1 THEN "end" ELSE "line"
    /\ UNCHANGED <<stage, text, conn_fd, request, exited>>

Coming == wire[conn_fd]
Drop(n) == wire' = [wire EXCEPT ![conn_fd] = SubSeq(@, n + 1, Len(@))]
Report == peer' = [peer EXCEPT ![conn_fd] = IF @ = "reset" THEN "reported" ELSE @]

Recv ==
    /\ at = "line" /\ Coming # <<>>
    /\ Drop(1)
    /\ UNCHANGED peer
    /\ IF Head(Coming) = "cr"
       THEN at' = "peek" /\ UNCHANGED <<stage, text, conn_fd, buf, request, exited>>
       ELSE Put(Head(Coming))

Peek_Keep ==
    /\ at = "peek" /\ (Coming # <<>> \/ peer[conn_fd] # "up")
    /\ IF Coming = <<>> THEN Report ELSE UNCHANGED peer
    /\ UNCHANGED wire
    /\ Put("lf")

\* A CR has been received, and recv waits for the character that follows.  A
\* LF is taken with it; anything else, and the end of the stream, is left.
Peek ==
    /\ at = "peek" /\ (Coming # <<>> \/ peer[conn_fd] # "up")
    /\ IF Coming = <<>> THEN Report ELSE UNCHANGED peer
    /\ IF Coming # <<>> /\ Head(Coming) = "lf" THEN Drop(1) ELSE UNCHANGED wire
    /\ Put("lf")

\* recv returns 0 and leaves c as it was: the last character once more, or the
\* NUL that c starts with.
RecvEnd ==
    /\ at = "line" /\ Coming = <<>> /\ peer[conn_fd] \in {"fin", "reported"}
    /\ Put(IF buf = <<>> THEN "nul" ELSE Last(buf))
    /\ UNCHANGED <<peer, wire>>

\* recv returns -1, which ends the line as it is.
RecvFails ==
    /\ at = "line" /\ Coming = <<>> /\ peer[conn_fd] = "reset"
    /\ Report /\ at' = "end"
    /\ UNCHANGED <<stage, text, wire, conn_fd, buf, request, exited>>

-----------------------------------------------------------------------------
(* parse_header and the answer *)

NextLine == at' = "line" /\ buf' = <<>> /\ request' = FALSE

\* add_request_line_to_dict: strsep returns NULL for a word that is not there,
\* and strcpy crashes.  buf is not terminated: what it holds behind the line
\* may add words, or make one longer than the array it is copied to.
RequestLine ==
    /\ at = "end" /\ request /\ buf # <<>>
    /\ \/ NextLine /\ UNCHANGED exited
       \/ exited' = TRUE /\ UNCHANGED <<at, buf, request>>
    /\ UNCHANGED <<clientVars, conn_fd>>

LastLine == buf = <<>> \/ (buf = <<"lf">> /\ ~request)

HeaderLine ==
    /\ at = "end" /\ ~request /\ ~LastLine
    /\ NextLine
    /\ UNCHANGED <<clientVars, conn_fd, exited>>

EndOfHeaders ==
    /\ at = "end" /\ LastLine
    /\ at' = "answer"
    /\ UNCHANGED <<clientVars, conn_fd, buf, request, exited>>

Answer_KeepOpen ==
    /\ at = "answer"
    /\ at' = "accept"
    /\ UNCHANGED <<clientVars, conn_fd, buf, request, exited>>

\* write and close.  After an error that recv has reported write raises SIGPIPE.
Answer ==
    /\ at = "answer"
    /\ IF peer[conn_fd] = "reported"
       THEN exited' = TRUE /\ UNCHANGED <<stage, at>>
       ELSE /\ stage' = [stage EXCEPT ![conn_fd] = "closed"]
            /\ at' = "accept" /\ UNCHANGED exited
    /\ UNCHANGED <<peer, text, wire, conn_fd, buf, request>>

-----------------------------------------------------------------------------

Server ==
    \/ \E c \in Conn : Accept(c) \/ CreateFails(c)
    \/ Recv \/ Peek \/ RecvEnd \/ RecvFails
    \/ RequestLine \/ HeaderLine \/ EndOfHeaders \/ Answer

Client(c) == Connect(c) \/ Fin(c) \/ Reset(c) \/ \E x \in Char : Send(c, x)

Next == ~exited /\ (Server \/ \E c \in Conn : Client(c))

Spec == Init /\ [][Next]_vars

\* The server runs and clients leave some day.
Fairness ==
    /\ WF_vars(~exited /\ Server)
    /\ \A c \in Conn : WF_vars(~exited /\ Fin(c))

-----------------------------------------------------------------------------
(* Properties *)

\* Every variable stays in its range, and a line fits into buf.
TypeOK ==
    /\ stage \in [Conn -> {"new", "backlog", "open", "closed", "leaked"}]
    /\ peer \in [Conn -> {"up", "fin", "reset", "reported"}]
    /\ \A c \in Conn : /\ text[c] \in Seq(Char)
                       /\ peer[c] \in {"up", "fin"} => IsSuffix(wire[c], text[c])
    /\ at \in {"accept", "line", "peek", "end", "answer"}
    /\ conn_fd \in Conn \cup {NoConn}
    /\ buf \in Seq(Char \cup {"nul"}) /\ Len(buf) < MaxLine
    /\ request \in BOOLEAN /\ exited \in BOOLEAN

\* A line ends at CR LF, at a LF or at a lone CR: the LF of a CR LF ends nothing.
Joins(t, k) == t[k] = "lf" /\ t[k - 1] = "cr"

\* The positions at which the end of an empty line begins.
EmptyLines(t) ==
    {k \in 2 .. Len(t) : t[k] # "other" /\ t[k - 1] # "other" /\ ~Joins(t, k)}

\* No line is so long that read_line cuts it.
Fits(t) == \A k \in 0 .. Len(t) - (MaxLine - 1) :
               \E j \in k + 1 .. k + MaxLine - 1 : t[j] # "other"

Received(c) == SubSeq(text[c], 1, Len(text[c]) - Len(wire[c]))

\* The server answers a request when it has read it up to its first empty line
\* and no further, in whatever pieces it came and whatever ends its lines.
\* (A line of MaxLine - 1 characters is cut before its LF, which is then taken
\* for an empty line; a reset client gets no answer.)
AnsweredAtEmptyLine ==
    /\ TypeOK
    /\ at = "answer" /\ peer[conn_fd] \in {"up", "fin"} =>
         LET t == Received(conn_fd)
         IN  Fits(t) => \E k \in EmptyLines(t) :
                           /\ EmptyLines(t) = {k}
                           /\ k = Len(t) \/ (k + 1 = Len(t) /\ Joins(t, k + 1))

\* A client that left before its empty line: read_line takes no notice of the
\* end of the stream, and parse_header asks it for lines for ever.
Spins == \E b \in Conn :
             /\ stage[b] = "open"
             /\ \/ peer[b] = "fin" /\ EmptyLines(text[b]) = {}
                \/ peer[b] = "reported"

\* Every connection is answered and closed in the end, unless a client left in
\* the middle of its request, the process ended, or there was no memory.
EventuallyAnswered ==
    \A c \in Conn : stage[c] = "backlog" ~>
        stage[c] \in {"closed", "leaked"} \/ exited \/ Spins
=============================================================================
