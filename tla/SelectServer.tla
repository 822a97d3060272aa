----------------------------- MODULE SelectServer -----------------------------
(***************************************************************************)
(* chap-22/nonblocking_io_select_server.c: one thread, select(2), and a    *)
(* buffer per descriptor number.  What a client sends is a sequence of     *)
(* pieces; a piece that contains '\n' is a line.  A piece is sent back     *)
(* when its buffer is readable, that is, when a line has come in.          *)
(*                                                                         *)
(* Descriptors are numbered from the listening one, ListenFd: those below  *)
(* it are open from the start and never change.                            *)
(***************************************************************************)
EXTENDS Naturals, Sequences, FiniteSets, SequencesExt

CONSTANTS MaxConn,    \* bound: connections that clients open
          NoConn,
          FdMaxSize,  \* FD_MAX_SIZE, the number of buffers
          FdLimit,    \* the largest descriptor the process may have
          Capacity,   \* MAX_LINE, in pieces
          MaxSent     \* bound: pieces all clients send

\* Connections are numbered in the order in which they are made.
Conn == 1 .. MaxConn

ASSUME SelectAssumption ==
    /\ MaxConn \in Nat /\ NoConn \notin Conn
    /\ FdMaxSize \in Nat /\ FdLimit \in Nat /\ Capacity \in Nat /\ MaxSent \in Nat

ListenFd == 1
Fds == ListenFd + 1 .. FdLimit
Buffers == ListenFd + 1 .. FdMaxSize - 1

VARIABLES phase,   \* "select", "accept", "handle", or "ended" with the process
          reads,   \* read_fds after select, without those handled since
          writes,  \* write_fds
          buf,     \* the buffers; write_idx is the length of data
          table,   \* the connection each descriptor stands for
          stage,   \* "new", "backlog", "open" or "closed", per connection
          peer,    \* "up", "fin" or "reset": what the client has done
          full,    \* the send buffer of the connection has no room
          sent, taken, echoed, \* pieces sent, number received, pieces sent back
          careful  \* the clients wait for the echo of a line, see MaySend

serverVars == <<phase, reads, writes, buf>>
dataVars == <<sent, taken, echoed, careful>>
vars == <<serverVars, table, stage, peer, full, dataVars>>

Init ==
    /\ phase = "select" /\ reads = {} /\ writes = {}
    /\ buf = [i \in Buffers |-> [fd |-> 0, data |-> <<>>, read_idx |-> 0, readable |-> FALSE]]
    /\ table = [i \in Fds |-> NoConn]
    /\ stage = [c \in Conn |-> "new"]
    /\ peer = [c \in Conn |-> "up"]
    /\ full = [c \in Conn |-> FALSE]
    /\ sent = [c \in Conn |-> <<>>]
    /\ taken = [c \in Conn |-> 0]
    /\ echoed = [c \in Conn |-> <<>>]
    /\ careful \in BOOLEAN

-----------------------------------------------------------------------------
(* Clients *)

Alive(c) == stage[c] \in {"backlog", "open"} /\ peer[c] = "up"

\* A careful client sends no more while a line of its own is not echoed, and
\* never more than a buffer holds; it leaves when everything is echoed.
Unechoed(c) == SubSeq(sent[c], Len(echoed[c]) + 1, Len(sent[c]))
Waiting(c) == \E x \in ToSet(Unechoed(c)) : x.line
MaySend(c) == careful => Len(Unechoed(c)) < Capacity /\ ~Waiting(c)
MayLeave(c) == careful => Unechoed(c) = <<>>

TotalSent == Cardinality(UNION {{c} \X DOMAIN sent[c] : c \in Conn})

Connect(c) ==
    /\ stage[c] = "new" /\ \A b \in 1 .. c - 1 : stage[b] # "new"
    /\ stage' = [stage EXCEPT ![c] = "backlog"]
    /\ UNCHANGED <<serverVars, table, peer, full, dataVars>>

Send(c) ==
    /\ Alive(c) /\ MaySend(c) /\ TotalSent < MaxSent
    /\ \E l \in BOOLEAN :
         sent' = [sent EXCEPT ![c] = Append(@, [from |-> c, no |-> Len(@) + 1, line |-> l])]
    /\ UNCHANGED <<serverVars, table, stage, peer, full, taken, echoed, careful>>

Leave(c) ==
    /\ Alive(c) /\ MayLeave(c)
    /\ \E how \in {"fin", "reset"} : peer' = [peer EXCEPT ![c] = how]
    /\ UNCHANGED <<serverVars, table, stage, full, dataVars>>

\* The client reads, which makes room for more.
Drain(c) ==
    /\ full[c]
    /\ full' = [full EXCEPT ![c] = FALSE]
    /\ UNCHANGED <<serverVars, table, stage, peer, dataVars>>

-----------------------------------------------------------------------------
(* The kernel's part of select *)

Inbox(c) == SubSeq(sent[c], taken[c] + 1, Len(sent[c]))
Watched == {i \in Buffers : buf[i].fd # 0}
Readable == {i \in Watched : Inbox(table[i]) # <<>> \/ peer[table[i]] # "up"}
Writable == {i \in Watched : buf[i].readable /\ (~full[table[i]] \/ peer[table[i]] = "reset")}
Backlog == {c \in Conn : stage[c] = "backlog"}
Oldest(c) == c \in Backlog /\ \A b \in Backlog : c <= b

Select ==
    /\ phase = "select"
    /\ Readable # {} \/ Writable # {} \/ Backlog # {}
    /\ reads' = Readable /\ writes' = Writable
    /\ phase' = IF Backlog # {} THEN "accept" ELSE "handle"
    /\ UNCHANGED <<buf, table, stage, peer, full, dataVars>>

-----------------------------------------------------------------------------
(* accept: the lowest free descriptor *)

After(r, w) == IF r \cup w = {} THEN "select" ELSE "handle"

Free == {i \in Fds : table[i] = NoConn}
NewFd == CHOOSE i \in Free : \A j \in Free : i <= j

Place(i) ==
    /\ i \in Buffers
    /\ IF buf[i].fd = 0 THEN buf' = [buf EXCEPT ![i].fd = i] ELSE UNCHANGED buf

\* conn_fd > FD_MAX_SIZE is refused, but buf[FD_MAX_SIZE] is not a buffer:
\* following that pointer ends the process or loses the connection.
Accept(c) ==
    /\ phase = "accept" /\ Oldest(c) /\ Free # {} /\ NewFd <= FdMaxSize
    /\ \/ Place(NewFd) /\ phase' = After(reads, writes)
       \/ NewFd = FdMaxSize /\ phase' \in {After(reads, writes), "ended"} /\ UNCHANGED buf
    /\ table' = [table EXCEPT ![NewFd] = c]
    /\ stage' = [stage EXCEPT ![c] = "open"]
    /\ UNCHANGED <<reads, writes, peer, full, dataVars>>

Refuse(c) ==
    /\ phase = "accept" /\ Oldest(c) /\ Free # {} /\ NewFd > FdMaxSize
    /\ phase' = After(reads, writes)
    /\ stage' = [stage EXCEPT ![c] = "closed"]
    /\ UNCHANGED <<reads, writes, buf, table, peer, full, dataVars>>

\* No descriptor or no memory is left, or the connection has an error pending:
\* error(1, errno, "accept failed").
AcceptFails ==
    /\ phase = "accept"
    /\ phase' = "ended"
    /\ UNCHANGED <<reads, writes, buf, table, stage, peer, full, dataVars>>

-----------------------------------------------------------------------------
(* The loop over the descriptors, in ascending order *)

Next_i == CHOOSE i \in reads \cup writes : \A j \in reads \cup writes : i <= j

Turn(i) ==
    /\ phase = "handle" /\ i = Next_i
    /\ reads' = reads \ {i} /\ writes' = writes \ {i}
    /\ phase' = After(reads', writes')
    /\ UNCHANGED peer

\* on_socket_readable: recv until EAGAIN; what does not fit is dropped.
Filled(i) ==
    LET new == Inbox(table[i])
        room == Capacity - Len(buf[i].data)
    IN  IF i \notin reads THEN buf[i]
        ELSE [buf[i] EXCEPT !.data = @ \o SubSeq(new, 1, IF Len(new) < room THEN Len(new) ELSE room),
                            !.readable = @ \/ \E x \in ToSet(new) : x.line]

Take(i) == taken' = IF i \in reads THEN [taken EXCEPT ![table[i]] = Len(sent[table[i]])]
                    ELSE taken

Pending(b) == SubSeq(b.data, b.read_idx + 1, Len(b.data))

Sent_Rewound(b, n) ==
    IF n = Len(Pending(b))
    THEN [b EXCEPT !.data = <<>>, !.read_idx = 0, !.readable = FALSE]
    ELSE b

Sent_Cleared(b, n) ==
    IF n = Len(Pending(b))
    THEN [b EXCEPT !.data = <<>>, !.read_idx = 0, !.readable = FALSE]
    ELSE [b EXCEPT !.read_idx = @ + n, !.readable = FALSE]

\* The buffer when send has taken n pieces: all, or it ended with EAGAIN.
Sent(b, n) ==
    IF n = Len(Pending(b))
    THEN [b EXCEPT !.data = <<>>, !.read_idx = 0, !.readable = FALSE]
    ELSE [b EXCEPT !.read_idx = @ + n]

\* The descriptor has an error or is at the end of the stream.
Failed(i) ==
    \/ i \in reads /\ peer[table[i]] # "up"
    \/ i \in writes /\ peer[table[i]] = "reset"

Receive(i) ==
    /\ Turn(i) /\ ~Failed(i) /\ i \notin writes
    /\ buf' = [buf EXCEPT ![i] = Filled(i)]
    /\ Take(i)
    /\ UNCHANGED <<table, stage, full, sent, echoed, careful>>

\* on_socket_writable, after on_socket_readable if that is due as well.
Answer(i) ==
    /\ Turn(i) /\ ~Failed(i) /\ i \in writes
    /\ LET b == Filled(i)
           all == Len(Pending(b))
       IN \E n \in (IF all = 0 THEN 0 ELSE 1) .. all :
            /\ buf' = [buf EXCEPT ![i] = Sent(b, n)]
            /\ echoed' = [echoed EXCEPT ![table[i]] = @ \o SubSeq(Pending(b), 1, n)]
            /\ full' = [full EXCEPT ![table[i]] = n < all]
    /\ Take(i)
    /\ UNCHANGED <<table, stage, sent, careful>>

HangUp_Watched(i) ==
    /\ Turn(i) /\ Failed(i)
    /\ buf' = [buf EXCEPT ![i] = Filled(i)]
    /\ Take(i)
    /\ stage' = [stage EXCEPT ![table[i]] = "closed"]
    /\ table' = [table EXCEPT ![i] = NoConn]
    /\ UNCHANGED <<full, sent, echoed, careful>>

\* What is in the buffer stays there.
HangUp(i) ==
    /\ Turn(i) /\ Failed(i)
    /\ buf' = [buf EXCEPT ![i] = [Filled(i) EXCEPT !.fd = 0]]
    /\ Take(i)
    /\ stage' = [stage EXCEPT ![table[i]] = "closed"]
    /\ table' = [table EXCEPT ![i] = NoConn]
    /\ UNCHANGED <<full, sent, echoed, careful>>

-----------------------------------------------------------------------------

Server ==
    \/ Select \/ AcceptFails
    \/ \E c \in Conn : Accept(c) \/ Refuse(c)
    \/ \E i \in Buffers : Receive(i) \/ Answer(i) \/ HangUp(i)

Next ==
    \/ Server
    \/ \E c \in Conn : Connect(c) \/ Send(c) \/ Leave(c) \/ Drain(c)

Spec == Init /\ [][Next]_vars

\* The process runs, and clients read what is sent to them.
LiveSpec == Spec /\ WF_vars(Server) /\ \A c \in Conn : WF_vars(Drain(c))

-----------------------------------------------------------------------------
(* Properties *)

Piece == [from : Conn, no : 1 .. MaxSent, line : BOOLEAN]

\* Every variable is in its range; the indexes of a buffer (read_idx,
\* write_idx) stay within its MAX_LINE bytes.
TypeOK ==
    /\ phase \in {"select", "accept", "handle", "ended"}
    /\ reads \subseteq Buffers /\ writes \subseteq Buffers
    /\ \A i \in Buffers :
         /\ buf[i].fd \in {0, i} /\ buf[i].readable \in BOOLEAN
         /\ Len(buf[i].data) <= Capacity /\ buf[i].read_idx <= Len(buf[i].data)
         /\ ToSet(buf[i].data) \subseteq Piece
    /\ table \in [Fds -> Conn \cup {NoConn}]
    /\ stage \in [Conn -> {"new", "backlog", "open", "closed"}]
    /\ peer \in [Conn -> {"up", "fin", "reset"}]
    /\ full \in [Conn -> BOOLEAN] /\ careful \in BOOLEAN
    /\ \A c \in Conn : taken[c] <= Len(sent[c]) /\ ToSet(echoed[c]) \subseteq Piece

\* Open connections that select will never report.
Lost == {c \in Conn : stage[c] = "open" /\ \A i \in Watched : table[i] # c}

\* At most one open connection is not watched by select, the one whose
\* descriptor is FD_MAX_SIZE; a buffer is watched only while its descriptor is
\* open, so that select never meets a closed one.
OnlyOneLost ==
    /\ TypeOK
    /\ \A i \in Buffers : buf[i].fd # 0 <=> i \in Fds /\ table[i] # NoConn
    /\ Cardinality(Lost) <= 1

\* What a careful client gets back is what it sent, in that order, each piece
\* once: nothing of another connection, nothing missing in between.
EchoIsPrefix == careful => \A c \in Conn : IsPrefix(echoed[c], sent[c])

\* A line a careful client has sent is echoed, however often send is partial,
\* if its connection is watched and the process does not end.
EventuallyEchoed ==
    \A c \in Conn : (careful /\ Waiting(c)) ~>
        ~Waiting(c) \/ phase = "ended" \/ c \in Lost \/ stage[c] = "closed"
=============================================================================
