---------------------------- MODULE LengthFraming ----------------------------
(***************************************************************************)
(* chap-16/tcp_explicit_length_client.c and _server.c with readn of        *)
(* lib/common.h: messages with their length in front on a TCP connection,  *)
(* which keeps the order of the bytes and nothing else: a read returns any *)
(* part of what it asks for.                                               *)
(***************************************************************************)
EXTENDS Naturals, Sequences, SequencesExt

CONSTANTS Base,        \* a byte is a number below Base
          Width,       \* bytes of an integer
          MaxLine,     \* the longest string fgets leaves in the client's buf
          BufSize,     \* sizeof(buf) of the server
          MaxMessages  \* bound: messages the client sends

\* Base ^ k.
Power[k \in Nat] == IF k = 0 THEN 1 ELSE Base * Power[k - 1]

FramingAssumption ==
    /\ Base \in Nat \ {0, 1} /\ Width \in Nat \ {0} /\ MaxMessages \in Nat
    /\ MaxLine \in Nat /\ BufSize \in Nat
    /\ MaxLine <= BufSize /\ BufSize < Power[Width]

Byte == 0 .. Base - 1

\* A line that starts with a NUL has strlen 0.
Bodies == UNION {[1 .. n -> Byte] : n \in 0 .. MaxLine}

VARIABLES client,      \* "up", "fin" when it has closed, or "reset"
          sent,        \* the messages that left the client whole
          stream,      \* bytes on the connection, not yet read
          server,      \* "reading", or exited: "closed" or "error"
          field,       \* what read_message is reading
          msg_length,
          got,         \* the bytes of that field read so far
          received     \* the messages read_message has returned

clientVars == <<client, sent>>
serverVars == <<server, field, msg_length, got, received>>
vars == <<clientVars, stream, serverVars>>

Init ==
    /\ client = "up" /\ sent = <<>> /\ stream = <<>>
    /\ server = "reading" /\ field = "length" /\ msg_length = 0
    /\ got = <<>> /\ received = <<>>

-----------------------------------------------------------------------------
(* Integers on the wire *)

htonl(n) == [i \in 1 .. Width |-> (n \div Power[Width - i]) % Base]

\* What the first k bytes are worth, and so an integer.
Value(bytes) ==
    LET value[k \in 0 .. Width] == IF k = 0 THEN 0 ELSE value[k - 1] * Base + bytes[k]
    IN  value
ntohl(bytes) == Value(bytes)[Width]

\* message.type = 1 is sent in host order; its value is never looked at.
Type == [i \in 1 .. Width |-> IF i = 1 THEN 1 ELSE 0]

Encoded(b) == htonl(Len(b)) \o Type \o b

-----------------------------------------------------------------------------
(* The client *)

Send(b) ==
    /\ client = "up" /\ server = "reading" /\ Len(sent) < MaxMessages
    /\ sent' = Append(sent, b)
    /\ stream' = stream \o Encoded(b)
    /\ UNCHANGED <<client, serverVars>>

Close ==
    /\ client = "up"
    /\ client' = "fin"
    /\ UNCHANGED <<sent, stream, serverVars>>

\* The client is killed while send is blocked: a part of the message is out.
Kill(b) ==
    /\ client = "up" /\ server = "reading" /\ Len(sent) < MaxMessages
    /\ client' = "fin"
    /\ \E n \in 1 .. Len(Encoded(b)) - 1 : stream' = stream \o SubSeq(Encoded(b), 1, n)
    /\ UNCHANGED <<sent, serverVars>>

Reset ==
    /\ client # "reset"
    /\ client' = "reset"
    /\ UNCHANGED <<sent, stream, serverVars>>

-----------------------------------------------------------------------------
(* read_message and the loop of the server *)

Size == IF field = "body" THEN msg_length ELSE Width

Arrived(n) == got \o SubSeq(stream, 1, n)

\* One read of readn, which asks for what the field still needs and gets n bytes.
Take(n) ==
    /\ server = "reading"
    /\ n \in 1 .. Len(stream) /\ Len(got) + n <= Size
    /\ stream' = SubSeq(stream, n + 1, Len(stream))
    /\ UNCHANGED clientVars

Final(n) == Len(got) + n = Size

ReadSome_Enough(n) ==
    /\ Take(n) /\ ~Final(n) /\ field = "body"
    /\ received' = Append(received, Arrived(n))
    /\ field' = "length" /\ got' = <<>>
    /\ UNCHANGED <<server, msg_length>>

ReadSome(n) ==
    /\ Take(n) /\ ~Final(n)
    /\ got' = Arrived(n)
    /\ UNCHANGED <<server, field, msg_length, received>>

LengthRead(n) ==
    /\ field = "length" /\ Take(n) /\ Final(n)
    /\ msg_length' = ntohl(Arrived(n))
    /\ field' = "type" /\ got' = <<>>
    /\ UNCHANGED <<server, received>>

\* A message that does not fit is an error.  Of an empty one readn returns 0
\* bytes, and the server takes that for the end of the connection.
TypeRead(n) ==
    /\ field = "type" /\ Take(n) /\ Final(n)
    /\ got' = <<>>
    /\ \/ msg_length > BufSize /\ server' = "error" /\ UNCHANGED field
       \/ msg_length = 0 /\ server' = "closed" /\ UNCHANGED field
       \/ msg_length \in 1 .. BufSize /\ field' = "body" /\ UNCHANGED server
    /\ UNCHANGED <<msg_length, received>>

BodyRead(n) ==
    /\ field = "body" /\ Take(n) /\ Final(n)
    /\ received' = Append(received, Arrived(n))
    /\ field' = "length" /\ got' = <<>>
    /\ UNCHANGED <<server, msg_length>>

EndOfStream_Early ==
    /\ server = "reading" /\ client = "fin"
    /\ server' = "closed"
    /\ UNCHANGED <<clientVars, stream, field, msg_length, got, received>>

\* readn returns less than it was asked for, "client closed".
EndOfStream ==
    /\ server = "reading" /\ client = "fin" /\ stream = <<>>
    /\ server' = "closed"
    /\ UNCHANGED <<clientVars, stream, field, msg_length, got, received>>

ReadFails ==
    /\ server = "reading" /\ client = "reset"
    /\ server' = "error"
    /\ UNCHANGED <<clientVars, stream, field, msg_length, got, received>>

-----------------------------------------------------------------------------

Server ==
    \/ \E n \in 1 .. Width + BufSize :
         ReadSome(n) \/ LengthRead(n) \/ TypeRead(n) \/ BodyRead(n)
    \/ EndOfStream \/ ReadFails

Next ==
    \/ Server
    \/ \E b \in Bodies : Send(b) \/ Kill(b)
    \/ Close \/ Reset

Spec == Init /\ [][Next]_vars

\* The server runs.
Fairness == WF_vars(Server)

-----------------------------------------------------------------------------
(* Properties *)

\* Every variable stays in its range: a field is never read beyond its end,
\* nor a body beyond the buffer.
TypeOK ==
    /\ client \in {"up", "fin", "reset"}
    /\ sent \in Seq(Bodies)
    /\ stream \in Seq(Byte)
    /\ server \in {"reading", "closed", "error"}
    /\ field \in {"length", "type", "body"}
    /\ msg_length \in 0 .. Power[Width] - 1
    /\ field = "body" => msg_length <= BufSize
    /\ got \in Seq(Byte) /\ Len(got) < Size
    /\ received \in Seq(Bodies)

\* However TCP cuts and joins the bytes, the server gets the messages as they
\* were sent, whole and in order.
ReceivedIsPrefix == TypeOK /\ IsPrefix(received, sent)

\* A message the client has sent is received in the end, unless the connection
\* is reset or an empty message has made the server stop: it never waits for
\* bytes that do not come, nor takes a message for an error.
EventuallyReceived ==
    \A k \in 1 .. MaxMessages :
        Len(sent) >= k ~>
            \/ Len(received) >= k \/ client = "reset"
            \/ \E i \in DOMAIN sent : i <= k /\ sent[i] = <<>>
=============================================================================
