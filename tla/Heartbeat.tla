------------------------------ MODULE Heartbeat ------------------------------
(***************************************************************************)
(* chap-12/ping_client.c and ping_server.c: an application heartbeat.  The *)
(* client waits for something to read; when its timer runs out it pings,   *)
(* and after too many unanswered pings it gives the connection up.  The    *)
(* server sleeps before each pong and reads nothing meanwhile.             *)
(*                                                                         *)
(* Time passes in ticks of one second.  pings and pongs are the messages   *)
(* on their way or in the receive buffer, oldest first, each with its age; *)
(* ages stop at MaxLag, by which time a message has arrived.               *)
(***************************************************************************)
EXTENDS Naturals, Sequences, SequencesExt

CONSTANTS Time,      \* KEEP_ALIVE_TIME
          Interval,  \* KEEP_ALIVE_INTERVAL
          Probes,    \* KEEP_ALIVE_PROBE_TIMES
          MaxSleep,  \* bound: the sleeping_time the server may be given
          MaxLag     \* seconds a message may need, the receiver's delay included

ASSUME HeartbeatAssumption ==
    /\ Time \in Nat \ {0} /\ Interval \in Nat \ {0} /\ Probes \in Nat
    /\ MaxSleep \in Nat /\ MaxLag \in Nat

VARIABLES client,      \* "select", or how it ended: "dead" or "terminated"
          tv,          \* what is left of the timeout of select
          heartbeats,
          server,      \* "read", "sleep" or "gone"
          sleeping_time, wake,  \* argv[1], and what is left of the sleep
          pings, pongs,
          cut,         \* the network has failed without a word to either side
          silence      \* seconds since the client has heard from the server

clientVars == <<client, tv, heartbeats, silence>>
serverVars == <<server, sleeping_time, wake>>
vars == <<clientVars, serverVars, pings, pongs, cut>>

Init ==
    /\ client = "select" /\ tv = Time /\ heartbeats = 0 /\ silence = 0
    /\ server = "read" /\ sleeping_time \in 0 .. MaxSleep /\ wake = 0
    /\ pings = <<>> /\ pongs = <<>>
    /\ cut = FALSE

Sent(messages) == IF cut THEN messages ELSE Append(messages, 0)

-----------------------------------------------------------------------------
(* The client's loop *)

Elapsed == client = "select" /\ tv = 0

Ping_Slow ==
    /\ Elapsed /\ heartbeats + 1 <= Probes
    /\ heartbeats' = heartbeats + 1
    /\ pings' = Sent(pings)
    /\ tv' = Time
    /\ UNCHANGED <<client, silence, serverVars, pongs, cut>>

Ping ==
    /\ Elapsed /\ heartbeats + 1 <= Probes
    /\ heartbeats' = heartbeats + 1
    /\ pings' = Sent(pings)
    /\ tv' = Interval
    /\ UNCHANGED <<client, silence, serverVars, pongs, cut>>

\* error(1, 0, "connection dead \n").
GiveUp ==
    /\ Elapsed /\ heartbeats + 1 > Probes
    /\ heartbeats' = heartbeats + 1
    /\ client' = "dead"
    /\ UNCHANGED <<tv, silence, serverVars, pings, pongs, cut>>

Receive_KeepCount ==
    /\ client = "select"
    /\ \E n \in 1 .. Len(pongs) : pongs' = SubSeq(pongs, n + 1, Len(pongs))
    /\ tv' = Time /\ silence' = 0
    /\ UNCHANGED <<client, heartbeats, serverVars, pings, cut>>

\* One read may return several pongs; whatever it is counts as a sign of life.
Receive ==
    /\ client = "select"
    /\ \E n \in 1 .. Len(pongs) : pongs' = SubSeq(pongs, n + 1, Len(pongs))
    /\ heartbeats' = 0 /\ tv' = Time /\ silence' = 0
    /\ UNCHANGED <<client, serverVars, pings, cut>>

\* read returns 0 after the last pong, or send and read fail on a reset.
Terminated ==
    /\ client = "select" /\ server = "gone" /\ pongs = <<>> /\ ~cut
    /\ client' = "terminated"
    /\ UNCHANGED <<tv, heartbeats, silence, serverVars, pings, pongs, cut>>

-----------------------------------------------------------------------------
(* The server's loop *)

Read ==
    /\ server = "read" /\ pings # <<>>
    /\ server' = "sleep" /\ wake' = sleeping_time
    /\ pings' = Tail(pings)
    /\ UNCHANGED <<clientVars, sleeping_time, pongs, cut>>

Pong ==
    /\ server = "sleep" /\ wake = 0
    /\ server' = "read"
    /\ pongs' = Sent(pongs)
    /\ UNCHANGED <<clientVars, sleeping_time, wake, pings, cut>>

\* The client has closed the connection, or someone ends the server.
End ==
    /\ server # "gone"
    /\ server' = "gone" /\ wake' = 0
    /\ UNCHANGED <<clientVars, sleeping_time, pings, pongs, cut>>

-----------------------------------------------------------------------------
(* The network and the clock *)

\* What has not arrived by now never will.
Cut ==
    /\ ~cut
    /\ cut' = TRUE
    /\ \E m \in 0 .. Len(pings) : pings' = SubSeq(pings, 1, m)
    /\ \E n \in 0 .. Len(pongs) : pongs' = SubSeq(pongs, 1, n)
    /\ UNCHANGED <<clientVars, serverVars>>

Due(messages) == messages # <<>> /\ Head(messages) = MaxLag
Older(messages) == [i \in DOMAIN messages |-> IF messages[i] < MaxLag THEN messages[i] + 1 ELSE MaxLag]

\* A second passes when nothing has to happen before.
Tick ==
    /\ client = "select" /\ tv > 0 /\ ~Due(pongs)
    /\ server = "sleep" => wake > 0
    /\ server = "read" => ~Due(pings)
    /\ tv' = tv - 1
    /\ silence' = silence + 1
    /\ wake' = IF server = "sleep" THEN wake - 1 ELSE wake
    /\ pings' = Older(pings) /\ pongs' = Older(pongs)
    /\ UNCHANGED <<client, heartbeats, server, sleeping_time, cut>>

-----------------------------------------------------------------------------

Next ==
    \/ Ping \/ GiveUp \/ Receive \/ Terminated
    \/ Read \/ Pong \/ End
    \/ Cut \/ Tick

Spec == Init /\ [][Next]_vars

-----------------------------------------------------------------------------
(* Properties *)

\* Every variable stays in its range; the client never counts further than
\* the probe that makes it give up.
TypeOK ==
    /\ client \in {"select", "dead", "terminated"}
    /\ tv \in Nat
    /\ heartbeats \in 0 .. Probes + 1
    /\ heartbeats = Probes + 1 => client = "dead"
    /\ server \in {"read", "sleep", "gone"}
    /\ sleeping_time \in 0 .. MaxSleep /\ wake \in 0 .. MaxSleep
    /\ pings \in Seq(0 .. MaxLag) /\ pongs \in Seq(0 .. MaxLag)
    /\ cut \in BOOLEAN /\ silence \in Nat

\* With a server that needs less time to answer than the probes take, the
\* client gives up only a connection that is cut or a server that is gone,
\* however many pings wait while the server sleeps.
OnlyDeadGivenUp ==
    sleeping_time + 2 * MaxLag < Probes * Interval =>
        (client = "dead" => cut \/ server = "gone")

\* A client that still waits has heard from the server within the time that
\* all its probes take: a dead connection is given up by then.
SilenceBounded == client = "select" => silence <= Time + Probes * Interval
=============================================================================
