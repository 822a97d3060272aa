--------------------------- MODULE ConnectionsProofs ---------------------------
(***************************************************************************)
(* Theorems about what goes on in one connection, for every value of the   *)
(* constants: Heartbeat's timeout, interval, probes and lag, HalfClose's   *)
(* number of lines, LengthFraming's messages, HttpServer's requests,       *)
(* Telnet's clients, messages and directories.                             *)
(***************************************************************************)
EXTENDS ConnectionsMC, FiniteSetTheorems, SequenceTheorems, NaturalsInduction,
        WellFoundedInduction, TLAPS

-----------------------------------------------------------------------------
(* Heartbeat *)

\* What the client's clock and counter are worth together: the seconds since it
\* has heard from the server and those left on the timer are what the probes
\* sent so far have granted.
ClientClock ==
    /\ tv \in Nat /\ silence \in Nat /\ heartbeats \in Nat
    /\ client = "select" => /\ heartbeats <= Probes
                            /\ silence + tv = Time + heartbeats * Interval

LEMMA InitClock == Init => ClientClock
BY HeartbeatAssumption DEF Init, ClientClock

\* One more probe grants one more interval.
LEMMA OneMore ==
    ASSUME NEW a \in Nat, NEW b \in Nat
    PROVE  /\ (a + 1) * b = a * b + b
           /\ a * b \in Nat
BY SMT

LEMMA StepClock == ClientClock /\ [Next]_vars => ClientClock'
<1> SUFFICES ASSUME ClientClock, [Next]_vars PROVE ClientClock'
  OBVIOUS
<1> USE HeartbeatAssumption
<1>1. CASE Ping
  <2>1. (heartbeats + 1) * Interval = heartbeats * Interval + Interval
    BY OneMore DEF ClientClock
  <2>2. heartbeats' = heartbeats + 1 /\ tv' = Interval /\ UNCHANGED <<client, silence>>
    BY <1>1 DEF Ping
  <2>3. client = "select" /\ tv = 0 /\ heartbeats + 1 <= Probes
    BY <1>1 DEF Ping, Elapsed
  <2>4. silence = Time + heartbeats * Interval /\ heartbeats * Interval \in Nat
    BY <2>3, OneMore DEF ClientClock
  <2>5. silence' + tv' = Time + heartbeats' * Interval
    BY <2>1, <2>2, <2>4
  <2> QED BY <2>2, <2>3, <2>5 DEF ClientClock
<1>2. CASE GiveUp
  BY <1>2 DEF GiveUp, ClientClock
<1>3. CASE Receive
  BY <1>3 DEF Receive, ClientClock
<1>4. CASE Terminated
  BY <1>4 DEF Terminated, ClientClock
<1>5. CASE Read \/ Pong \/ End \/ Cut
  <2>1. UNCHANGED clientVars
    BY <1>5 DEF Read, Pong, End, Cut
  <2> QED BY <2>1 DEF clientVars, ClientClock
<1>6. CASE Tick
  <2>1. heartbeats * Interval \in Nat
    BY OneMore DEF ClientClock
  <2>2. tv > 0 /\ tv' = tv - 1 /\ silence' = silence + 1 /\ UNCHANGED <<client, heartbeats>>
    BY <1>6 DEF Tick
  <2> QED BY <2>1, <2>2 DEF ClientClock
<1>7. CASE UNCHANGED vars
  BY <1>7 DEF vars, clientVars, ClientClock
<1> QED BY <1>1, <1>2, <1>3, <1>4, <1>5, <1>6, <1>7 DEF Next

LEMMA Multiples ==
    ASSUME NEW a \in Nat, NEW b \in Nat, NEW i \in Nat, a <= b
    PROVE  a * i <= b * i
<1> DEFINE k == b - a
<1>1. k \in Nat /\ b = a + k
  OBVIOUS
<1>2. b * i = a * i + k * i /\ k * i >= 0
  BY <1>1
<1> QED BY <1>2

\* However long the program's timers are, a client that still waits has heard
\* from the server within Time + Probes * Interval seconds (ping_client.c:53-90):
\* a connection that has failed silently is never kept longer.
THEOREM DetectionBound == Spec => []SilenceBounded
<1>1. ClientClock => SilenceBounded
  <2> SUFFICES ASSUME ClientClock, client = "select"
               PROVE  silence <= Time + Probes * Interval
    BY DEF SilenceBounded
  <2>1. heartbeats * Interval <= Probes * Interval
    BY Multiples, HeartbeatAssumption DEF ClientClock
  <2>2. heartbeats * Interval \in Nat /\ Probes * Interval \in Nat
    BY OneMore, HeartbeatAssumption DEF ClientClock
  <2> QED BY <2>1, <2>2, HeartbeatAssumption DEF ClientClock
<1> QED BY <1>1, InitClock, StepClock, PTL DEF Spec

-----------------------------------------------------------------------------
(* Types *)

Ages == 0 .. MaxLag

LEMMA SentType ==
    ASSUME NEW m \in Seq(Ages)
    PROVE  Sent(m) \in Seq(Ages)
<1>1. 0 \in Ages
  BY HeartbeatAssumption DEF Ages
<1> QED BY <1>1, AppendProperties DEF Sent

LEMMA OlderType ==
    ASSUME NEW m \in Seq(Ages)
    PROVE  /\ Older(m) \in Seq(Ages)
           /\ Len(Older(m)) = Len(m)
<1>1. \A i \in 1 .. Len(m) : (IF m[i] < MaxLag THEN m[i] + 1 ELSE MaxLag) \in Ages
  BY HeartbeatAssumption DEF Ages
<1>2. DOMAIN m = 1 .. Len(m) /\ Len(m) \in Nat
  OBVIOUS
<1> QED BY <1>1, <1>2 DEF Older

LEMMA CutType ==
    ASSUME NEW m \in Seq(Ages), NEW a \in Int, NEW b \in Int, b <= Len(m), 1 <= a
    PROVE  SubSeq(m, a, b) \in Seq(Ages)
<1>1. \A i \in a .. b : m[i] \in Ages
  <2>1. DOMAIN m = 1 .. Len(m) /\ Len(m) \in Nat
    OBVIOUS
  <2> QED BY <2>1
<1> QED BY <1>1, SubSeqProperties

LEMMA InitType == Init => TypeOK
<1>1. <<>> \in Seq(0 .. MaxLag)
  BY EmptySeq
<1>2. 0 \in 0 .. MaxSleep /\ 0 \in 0 .. Probes + 1 /\ 0 # Probes + 1 /\ Time \in Nat
  BY HeartbeatAssumption
<1> SUFFICES ASSUME Init PROVE TypeOK
  OBVIOUS
<1>3. pings \in Seq(0 .. MaxLag) /\ pongs \in Seq(0 .. MaxLag)
  BY <1>1, Zenon DEF Init
<1>4. cut \in BOOLEAN
  BY Zenon DEF Init
<1> QED BY <1>2, <1>3, <1>4 DEF Init, TypeOK

LEMMA StepType == TypeOK /\ [Next]_vars => TypeOK'
<1> SUFFICES ASSUME TypeOK, [Next]_vars PROVE TypeOK'
  OBVIOUS
<1> USE HeartbeatAssumption
<1>0. pings \in Seq(Ages) /\ pongs \in Seq(Ages) /\ Ages = 0 .. MaxLag
  BY DEF TypeOK, Ages
<1>1. CASE Ping
  <2>1. Sent(pings) \in Seq(0 .. MaxLag)
    BY <1>0, SentType
  <2> QED BY <1>1, <2>1 DEF Ping, Elapsed, TypeOK, serverVars
<1>2. CASE GiveUp
  BY <1>2 DEF GiveUp, Elapsed, TypeOK, serverVars
<1>3. CASE Receive
  <2>1. PICK n \in 1 .. Len(pongs) : pongs' = SubSeq(pongs, n + 1, Len(pongs))
    BY <1>3 DEF Receive
  <2>2. pongs' \in Seq(Ages)
    BY <1>0, <2>1, CutType
  <2> QED BY <1>0, <1>3, <2>2 DEF Receive, TypeOK, serverVars
<1>4. CASE Terminated
  BY <1>4 DEF Terminated, TypeOK, serverVars
<1>5. CASE Read
  <2>1. Tail(pings) \in Seq(0 .. MaxLag)
    BY <1>0, <1>5 DEF Read
  <2> QED BY <1>5, <2>1 DEF Read, TypeOK, clientVars
<1>6. CASE Pong
  <2>1. Sent(pongs) \in Seq(0 .. MaxLag)
    BY <1>0, SentType
  <2> QED BY <1>6, <2>1 DEF Pong, TypeOK, clientVars
<1>7. CASE End
  BY <1>7 DEF End, TypeOK, clientVars
<1>8. CASE Cut
  <2>1. PICK m \in 0 .. Len(pings) : pings' = SubSeq(pings, 1, m)
    BY <1>8 DEF Cut
  <2>2. PICK n \in 0 .. Len(pongs) : pongs' = SubSeq(pongs, 1, n)
    BY <1>8 DEF Cut
  <2>3. pings' \in Seq(Ages) /\ pongs' \in Seq(Ages)
    BY <1>0, <2>1, <2>2, CutType
  <2> QED BY <1>0, <1>8, <2>3 DEF Cut, TypeOK, clientVars, serverVars
<1>9. CASE Tick
  <2>1. pings' \in Seq(Ages) /\ pongs' \in Seq(Ages)
    BY <1>0, <1>9, OlderType DEF Tick
  <2>2. wake' \in 0 .. MaxSleep
    BY <1>9 DEF Tick, TypeOK
  <2> QED BY <1>0, <1>9, <2>1, <2>2 DEF Tick, TypeOK
<1>10. CASE UNCHANGED vars
  BY <1>10 DEF vars, clientVars, serverVars, TypeOK
<1> QED BY <1>1, <1>2, <1>3, <1>4, <1>5, <1>6, <1>7, <1>8, <1>9, <1>10 DEF Next

\* The timer, the counter and the ages of messages never leave their ranges,
\* and only a client that has given up has counted beyond the last probe
\* (ping_client.c:61).
THEOREM TypeCorrect == Spec => []TypeOK
BY InitType, StepType, PTL DEF Spec

-----------------------------------------------------------------------------
(* A live connection is never given up *)

\* Seconds since the first of the probes that are not answered yet.
Probing == heartbeats * Interval - tv

\* While probes are unanswered on a connection that works, a sign of life is
\* under way, no further behind than the step it is in allows: a pong, or the
\* server's sleep before one, or a ping to be read.
PongUnderWay == pongs # <<>> /\ Probing <= MaxLag + sleeping_time + Head(pongs)
SleepUnderWay == server = "sleep" /\ Probing + wake <= MaxLag + sleeping_time
PingUnderWay == server = "read" /\ pings # <<>> /\ Probing <= Head(pings)

AnswerUnderWay ==
    client = "select" /\ heartbeats > 0 /\ ~cut /\ server # "gone" =>
        PongUnderWay \/ SleepUnderWay \/ PingUnderWay

\* A sleep is never longer than it was meant to be.
SleepInRange == wake <= sleeping_time

AnswerInv == TypeOK /\ ClientClock /\ SleepInRange /\ AnswerUnderWay

LEMMA HeadSent ==
    ASSUME NEW m \in Seq(Ages), ~cut
    PROVE  /\ Sent(m) # <<>>
           /\ m # <<>> => Head(Sent(m)) = Head(m)
           /\ m = <<>> => Head(Sent(m)) = 0
<1>1. Sent(m) = Append(m, 0) /\ 0 \in Ages
  BY HeartbeatAssumption DEF Sent, Ages
<1>2. Len(m) \in Nat /\ (m # <<>> => Len(m) >= 1) /\ (m = <<>> => Len(m) = 0)
  BY EmptySeq
<1>3. /\ Append(m, 0) # <<>>
      /\ \A i \in 1 .. Len(m) : Append(m, 0)[i] = m[i]
      /\ Append(m, 0)[Len(m) + 1] = 0
  BY <1>1, AppendProperties
<1>4. Head(m) = m[1] /\ Head(Append(m, 0)) = Append(m, 0)[1]
  OBVIOUS
<1> QED BY <1>1, <1>2, <1>3, <1>4

LEMMA HeadAge ==
    ASSUME NEW m \in Seq(Ages), m # <<>>
    PROVE  Head(m) \in 0 .. MaxLag
BY HeadTailProperties DEF Ages

LEMMA HeadOlder ==
    ASSUME NEW m \in Seq(Ages), m # <<>>, Head(m) < MaxLag
    PROVE  Older(m) # <<>> /\ Head(Older(m)) = Head(m) + 1
<1>1. 1 \in DOMAIN m /\ Head(m) = m[1]
  BY EmptySeq
<1>2. Older(m)[1] = m[1] + 1
  BY <1>1 DEF Older
<1>3. Older(m) # <<>> /\ Head(Older(m)) = Older(m)[1]
  BY <1>1, OlderType, EmptySeq
<1> QED BY <1>1, <1>2, <1>3

LEMMA Due_Age ==
    ASSUME NEW m \in Seq(Ages), m # <<>>, ~Due(m)
    PROVE  Head(m) < MaxLag
BY HeadAge, HeartbeatAssumption DEF Due

LEMMA StepSleep == TypeOK /\ SleepInRange /\ [Next]_vars => SleepInRange'
<1> SUFFICES ASSUME TypeOK, SleepInRange, [Next]_vars PROVE SleepInRange'
  OBVIOUS
<1>1. CASE Read \/ End
  BY <1>1, HeartbeatAssumption DEF Read, End, SleepInRange, TypeOK
<1>2. CASE Tick
  BY <1>2, HeartbeatAssumption DEF Tick, SleepInRange, TypeOK
<1>3. CASE UNCHANGED <<wake, sleeping_time>>
  BY <1>3 DEF SleepInRange
<1>4. Ping \/ GiveUp \/ Receive \/ Terminated \/ Pong \/ Cut \/ UNCHANGED vars
        => UNCHANGED <<wake, sleeping_time>>
  BY DEF Ping, GiveUp, Receive, Terminated, Pong, Cut, vars, serverVars
<1> QED BY <1>1, <1>2, <1>3, <1>4 DEF Next

LEMMA StepAnswer == AnswerInv /\ [Next]_vars => AnswerUnderWay'
<1> SUFFICES ASSUME AnswerInv, [Next]_vars,
                    client' = "select", heartbeats' > 0, ~cut', server' # "gone"
             PROVE  PongUnderWay' \/ SleepUnderWay' \/ PingUnderWay'
  BY DEF AnswerUnderWay
<1> USE HeartbeatAssumption
<1>0. /\ pings \in Seq(Ages) /\ pongs \in Seq(Ages)
      /\ tv \in Nat /\ heartbeats \in Nat /\ sleeping_time \in Nat /\ wake \in Nat
      /\ wake <= sleeping_time /\ heartbeats * Interval \in Nat
      /\ server \in {"read", "sleep", "gone"}
  BY OneMore DEF AnswerInv, TypeOK, ClientClock, SleepInRange, Ages
<1>1. CASE Ping
  <2>1. ~cut /\ server # "gone" /\ client = "select" /\ tv = 0
    BY <1>1 DEF Ping, Elapsed, serverVars
  <2>2. /\ heartbeats' = heartbeats + 1 /\ tv' = Interval /\ pings' = Sent(pings)
        /\ UNCHANGED <<server, sleeping_time, wake, pongs>>
    BY <1>1 DEF Ping, serverVars
  <2>3. Probing' = heartbeats * Interval
    <3>1. (heartbeats + 1) * Interval = heartbeats * Interval + Interval
      BY <1>0, OneMore
    <3> QED BY <1>0, <2>2, <3>1 DEF Probing
  <2>4. /\ pings' # <<>>
        /\ pings # <<>> => Head(pings') = Head(pings)
        /\ pings = <<>> => Head(pings') = 0
    BY <1>0, <2>1, <2>2, HeadSent
  <2>5. pings # <<>> => Head(pings) \in 0 .. MaxLag
    BY <1>0, HeadAge
  <2>6. CASE heartbeats = 0
    <3>1. Probing' = 0
      BY <2>3, <2>6
    <3>2. CASE server = "read"
      BY <2>2, <2>4, <2>5, <3>1, <3>2 DEF PingUnderWay
    <3>3. CASE server = "sleep"
      BY <1>0, <2>2, <3>1, <3>3 DEF SleepUnderWay
    <3> QED BY <1>0, <2>1, <3>2, <3>3
  <2>7. CASE heartbeats > 0
    <3>1. PongUnderWay \/ SleepUnderWay \/ PingUnderWay
      BY <2>1, <2>7 DEF AnswerInv, AnswerUnderWay
    <3>2. Probing = heartbeats * Interval
      BY <1>0, <2>1 DEF Probing
    <3>3. Probing' = Probing
      BY <2>3, <3>2
    <3>4. CASE PongUnderWay
      BY <2>2, <3>3, <3>4 DEF PongUnderWay
    <3>5. CASE SleepUnderWay
      BY <2>2, <3>3, <3>5 DEF SleepUnderWay
    <3>6. CASE PingUnderWay
      BY <2>2, <2>4, <3>3, <3>6 DEF PingUnderWay
    <3> QED BY <3>1, <3>4, <3>5, <3>6
  <2> QED BY <1>0, <2>6, <2>7
<1>2. CASE GiveUp \/ Terminated
  BY <1>2 DEF GiveUp, Terminated
<1>3. CASE Receive
  BY <1>3 DEF Receive
<1>4. CASE ~Ping /\ ~GiveUp /\ ~Terminated /\ ~Receive
  <2>1. UNCHANGED <<client, heartbeats, sleeping_time>>
    BY <1>4 DEF Next, Read, Pong, End, Cut, Tick, vars, clientVars, serverVars
  <2>2. ~cut /\ server # "gone"
    BY <1>4 DEF Next, Read, Pong, End, Cut, Tick, vars, clientVars, serverVars
  <2>3. PongUnderWay \/ SleepUnderWay \/ PingUnderWay
    BY <2>1, <2>2 DEF AnswerInv, AnswerUnderWay
  <2>4. Probing \in Int
    BY <1>0 DEF Probing
  <2>5. CASE Read
    <3>1. /\ server' = "sleep" /\ wake' = sleeping_time /\ pings' = Tail(pings)
          /\ UNCHANGED <<tv, pongs>> /\ server = "read" /\ pings # <<>>
      BY <2>5 DEF Read, clientVars
    <3>2. Probing' = Probing
      BY <2>1, <3>1 DEF Probing
    <3>3. CASE PongUnderWay
      BY <2>1, <3>1, <3>2, <3>3 DEF PongUnderWay
    <3>4. CASE PingUnderWay
      <4>1. Probing <= MaxLag
        BY <1>0, <2>4, <3>4, HeadAge DEF PingUnderWay
      <4> QED BY <1>0, <2>1, <2>4, <3>1, <3>2, <4>1 DEF SleepUnderWay
    <3> QED BY <2>3, <3>1, <3>3, <3>4 DEF SleepUnderWay
  <2>6. CASE Pong
    <3>1. /\ server = "sleep" /\ wake = 0 /\ pongs' = Sent(pongs)
          /\ UNCHANGED <<tv, pings>>
      BY <2>6 DEF Pong, clientVars
    <3>2. Probing' = Probing
      BY <2>1, <3>1 DEF Probing
    <3>3. /\ pongs' # <<>>
          /\ pongs # <<>> => Head(pongs') = Head(pongs)
          /\ pongs = <<>> => Head(pongs') = 0
      BY <1>0, <2>2, <3>1, HeadSent
    <3>4. CASE PongUnderWay
      BY <2>1, <3>2, <3>3, <3>4 DEF PongUnderWay
    <3>5. CASE SleepUnderWay
      <4>1. Probing <= MaxLag + sleeping_time
        BY <1>0, <2>4, <3>1, <3>5 DEF SleepUnderWay
      <4>2. Head(pongs') \in Nat
        BY <1>0, <3>3, HeadAge
      <4> QED BY <1>0, <2>1, <2>4, <3>2, <3>3, <4>1, <4>2 DEF PongUnderWay
    <3> QED BY <2>3, <3>1, <3>4, <3>5 DEF PingUnderWay
  <2>7. CASE End \/ Cut
    BY <2>7 DEF End, Cut
  <2>8. CASE Tick
    <3>1. /\ tv > 0 /\ ~Due(pongs) /\ tv' = tv - 1
          /\ server = "sleep" => wake > 0 /\ wake' = wake - 1
          /\ server = "read" => ~Due(pings)
          /\ pings' = Older(pings) /\ pongs' = Older(pongs) /\ UNCHANGED server
      BY <2>8 DEF Tick
    <3>2. Probing' = Probing + 1
      BY <1>0, <2>1, <3>1 DEF Probing
    <3>3. CASE PongUnderWay
      <4>1. pongs # <<>> /\ Head(pongs) < MaxLag /\ Head(pongs) \in Nat
        BY <1>0, <3>1, <3>3, Due_Age, HeadAge DEF PongUnderWay
      <4>2. pongs' # <<>> /\ Head(pongs') = Head(pongs) + 1
        BY <1>0, <3>1, <4>1, HeadOlder
      <4> QED BY <1>0, <2>1, <2>4, <3>2, <3>3, <4>1, <4>2 DEF PongUnderWay
    <3>4. CASE SleepUnderWay
      BY <1>0, <2>1, <2>4, <3>1, <3>2, <3>4 DEF SleepUnderWay
    <3>5. CASE PingUnderWay
      <4>1. pings # <<>> /\ Head(pings) < MaxLag /\ Head(pings) \in Nat
        BY <1>0, <3>1, <3>5, Due_Age, HeadAge DEF PingUnderWay
      <4>2. pings' # <<>> /\ Head(pings') = Head(pings) + 1
        BY <1>0, <3>1, <4>1, HeadOlder
      <4> QED BY <2>4, <3>1, <3>2, <3>5, <4>1, <4>2 DEF PingUnderWay
    <3> QED BY <2>3, <3>3, <3>4, <3>5
  <2>9. CASE UNCHANGED vars
    BY <2>3, <2>9 DEF vars, clientVars, serverVars, PongUnderWay, SleepUnderWay, PingUnderWay, Probing
  <2> QED BY <1>4, <2>5, <2>6, <2>7, <2>8, <2>9 DEF Next
<1> QED BY <1>1, <1>2, <1>3, <1>4

\* GiveUp needs the last interval to be over: by then the answer that is under
\* way has arrived.
LEMMA StepGivenUp ==
    AnswerInv /\ OnlyDeadGivenUp /\ [Next]_vars => OnlyDeadGivenUp'
<1> SUFFICES ASSUME AnswerInv, OnlyDeadGivenUp, [Next]_vars,
                    sleeping_time' + 2 * MaxLag < Probes * Interval,
                    client' = "dead", ~cut', server' # "gone"
             PROVE  FALSE
  BY DEF OnlyDeadGivenUp
<1> USE HeartbeatAssumption
<1>1. sleeping_time' = sleeping_time /\ ~cut /\ server # "gone"
  BY DEF Next, Ping, GiveUp, Receive, Terminated, Read, Pong, End, Cut, Tick,
         vars, clientVars, serverVars
<1>2. client # "dead"
  BY <1>1 DEF OnlyDeadGivenUp
<1>3. GiveUp
  BY <1>2 DEF Next, Ping, Receive, Terminated, Read, Pong, End, Cut, Tick, vars, clientVars
<1>4. client = "select" /\ tv = 0 /\ heartbeats + 1 > Probes
  BY <1>3 DEF GiveUp, Elapsed
<1>5. /\ pings \in Seq(Ages) /\ pongs \in Seq(Ages) /\ heartbeats \in Nat
      /\ sleeping_time \in Nat /\ wake \in Nat
      /\ heartbeats * Interval \in Nat /\ Probes * Interval \in Nat
  BY OneMore DEF AnswerInv, TypeOK, ClientClock, Ages
<1>6. Probes * Interval <= heartbeats * Interval
  BY <1>4, <1>5, Multiples
<1>7. Probing = heartbeats * Interval
  BY <1>4, <1>5 DEF Probing
<1>8. Probing > sleeping_time + 2 * MaxLag
  BY <1>1, <1>5, <1>6, <1>7
<1>9. heartbeats > 0
  BY <1>5, <1>7, <1>8
<1>10. PongUnderWay \/ SleepUnderWay \/ PingUnderWay
  BY <1>1, <1>4, <1>9 DEF AnswerInv, AnswerUnderWay
<1>11. CASE PongUnderWay
  <2>1. Head(pongs) \in 0 .. MaxLag
    BY <1>5, <1>11, HeadAge DEF PongUnderWay
  <2> QED BY <1>5, <1>7, <1>8, <1>11, <2>1 DEF PongUnderWay
<1>12. CASE SleepUnderWay
  BY <1>5, <1>7, <1>8, <1>12 DEF SleepUnderWay
<1>13. CASE PingUnderWay
  <2>1. Head(pings) \in 0 .. MaxLag
    BY <1>5, <1>13, HeadAge DEF PingUnderWay
  <2> QED BY <1>5, <1>7, <1>8, <1>13, <2>1 DEF PingUnderWay
<1> QED BY <1>10, <1>11, <1>12, <1>13

\* A connection that works, to a server that answers within the time the probes
\* take, is never given up (ping_client.c:61, ping_server.c:67), for all values
\* of the timers, the sleep and the lag.
THEOREM LiveNotGivenUp == Spec => []OnlyDeadGivenUp
<1>1. Init => AnswerInv /\ OnlyDeadGivenUp
  <2>1. Init => SleepInRange /\ AnswerUnderWay /\ OnlyDeadGivenUp
    BY HeartbeatAssumption DEF Init, SleepInRange, AnswerUnderWay, OnlyDeadGivenUp
  <2> QED BY <2>1, InitType, InitClock DEF AnswerInv
<1>2. AnswerInv /\ OnlyDeadGivenUp /\ [Next]_vars => (AnswerInv /\ OnlyDeadGivenUp)'
  BY StepType, StepClock, StepSleep, StepAnswer, StepGivenUp DEF AnswerInv
<1> QED BY <1>1, <1>2, PTL DEF Spec

-----------------------------------------------------------------------------
(* HalfClose *)

HalfSets ==
    /\ closer \in {"up", "shutdown", "closed", "exited"}
    /\ conn \in {"open", "fin", "rst", "dead"}
    /\ answerer \in {"read", "sleep", "end", "read_error", "write_error", "sigpipe", "sigint"}
    /\ asked \in 0 .. MaxAsked /\ answered \in Nat /\ up \in Nat /\ down \in Nat
    /\ held \in 0 .. MaxAsked

\* No line is in two places, and none disappears while the client reads.
HalfLines ==
    /\ answered + down + up <= asked
    /\ answerer = "sleep" => held > 0 /\ answered + down + up + held <= asked
    /\ closer \in {"up", "shutdown"} =>
         /\ answerer = "sleep" => answered + down + up + held = asked
         /\ answerer \notin {"sleep", "sigint"} => answered + down + up = asked

\* What the connection is like tells what the client did, as long as nobody
\* interrupts the server.
HalfEnds ==
    /\ closer = "exited" => ~Half!Running
    /\ doomed = TRUE => closer = "closed"
    /\ answerer # "sigint" =>
         /\ closer = "up" => conn = "open" /\ Half!Running
         /\ closer = "shutdown" => conn = "fin" /\ (Half!Running \/ (answerer = "end" /\ up = 0))
         /\ closer = "exited" => conn = "fin" /\ answerer = "end" /\ answered = asked
         /\ answerer \in {"read_error", "write_error", "sigpipe"} => closer = "closed"

\* Behind an error there is an answer that was lost, besides what the server has
\* still to answer.
HalfCauses ==
    /\ doomed = TRUE \/ conn \in {"rst", "dead"} =>
         /\ answerer = "sleep" => answered + up + held < asked
         /\ answerer \notin {"sleep", "sigint"} => answered + up < asked
    /\ answerer \in {"read_error", "write_error", "sigpipe"} => answered < asked
    /\ answerer = "sigpipe" => answered + held < asked

HalfIInv == HalfSets /\ doomed \in BOOLEAN /\ HalfLines /\ HalfEnds /\ HalfCauses

LEMMA HalfStarts == ASSUME Half!AskedAssumption PROVE Half!Init => HalfIInv
<1> USE DEF Half!Init
<1>1. Half!Init => HalfSets
  BY DEF Half!AskedAssumption, HalfSets
<1>2. Half!Init => HalfLines
  BY DEF HalfLines
<1>3. Half!Init => HalfEnds
  BY DEF HalfEnds, Half!Running
<1>4. Half!Init => HalfCauses
  BY DEF HalfCauses
<1>5. Half!Init => doomed \in BOOLEAN
  BY Zenon
<1> QED
  BY <1>1, <1>2, <1>3, <1>4, <1>5 DEF HalfIInv

\* What the client does.
LEMMA HalfClientKeeps ==
  ASSUME Half!AskedAssumption, HalfIInv, Half!Ask \/ Half!Client \/ Half!ShutDown \/ Half!Close
  PROVE  HalfIInv'
<1> USE DEF HalfIInv, HalfSets, HalfLines, HalfEnds, HalfCauses, Half!Running, Half!AskedAssumption, Half!serverVars
<1>1. CASE Half!Ask
  BY <1>1 DEF Half!Ask
<1>2. CASE Half!ReadAnswers
  BY <1>2 DEF Half!ReadAnswers
<1>3. CASE Half!ServerTerminated
  BY <1>3 DEF Half!ServerTerminated
<1>4. CASE Half!ShutDown
  BY <1>4 DEF Half!ShutDown
<1>5. CASE Half!Close
  <2>1. HalfSets'
    BY <1>5 DEF Half!Close
  <2>2. HalfLines'
    BY <1>5 DEF Half!Close
  <2>3. HalfEnds'
    BY <1>5 DEF Half!Close
  <2>4. HalfCauses'
    BY <1>5 DEF Half!Close
  <2>5. doomed' \in BOOLEAN
    <3>1. (down > 0) \in BOOLEAN
      OBVIOUS
    <3>2. doomed' \in {doomed, down > 0}
      BY <1>5, Zenon DEF Half!Close
    <3> QED
      BY <3>1, <3>2, Zenon
  <2> QED
    BY <2>1, <2>2, <2>3, <2>4, <2>5
<1> QED
  BY <1>1, <1>2, <1>3, <1>4, <1>5 DEF Half!Client

\* What the server and the kernel do.
LEMMA HalfServerKeeps ==
  ASSUME Half!AskedAssumption, HalfIInv, Half!Refused \/ Half!Server \/ Half!Interrupt
  PROVE  HalfIInv'
<1> USE DEF HalfIInv, HalfSets, HalfLines, HalfEnds, HalfCauses, Half!Running, Half!AskedAssumption, Half!clientVars, Half!serverVars
<1>1. CASE Half!Refused
  BY <1>1 DEF Half!Refused
<1>2. CASE Half!Read
  BY <1>2 DEF Half!Read
<1>3. CASE Half!Stop
  BY <1>3 DEF Half!Stop
<1>4. CASE Half!Answer
  <2>1. HalfSets'
    BY <1>4 DEF Half!Answer
  <2>2. HalfLines'
    BY <1>4 DEF Half!Answer
  <2>3. HalfEnds'
    BY <1>4 DEF Half!Answer
  <2>4. HalfCauses'
    BY <1>4 DEF Half!Answer
  <2>5. doomed' \in BOOLEAN
    BY <1>4, Zenon DEF Half!Answer
  <2> QED
    BY <2>1, <2>2, <2>3, <2>4, <2>5
<1>5. CASE Half!Interrupt
  BY <1>5 DEF Half!Interrupt
<1> QED
  BY <1>1, <1>2, <1>3, <1>4, <1>5 DEF Half!Server

LEMMA HalfInvariant == ASSUME Half!AskedAssumption PROVE Half!Spec => []HalfIInv
<1>1. Half!Init => HalfIInv
  BY HalfStarts
<1>2. HalfIInv /\ [Half!Next]_(Half!vars) => HalfIInv'
  <2>1. ASSUME HalfIInv, Half!Next PROVE HalfIInv'
    BY <2>1, HalfClientKeeps, HalfServerKeeps DEF Half!Next
  <2>2. ASSUME HalfIInv, UNCHANGED Half!vars PROVE HalfIInv'
    BY <2>2 DEF Half!vars, Half!clientVars, Half!serverVars, HalfIInv, HalfSets, HalfLines, HalfEnds, HalfCauses, Half!Running
  <2> QED
    BY <2>1, <2>2
<1> QED
  BY <1>1, <1>2, PTL DEF Half!Spec

\* A client that shuts down its half gets an answer for every line, however
\* many it sends and whenever the server has the FIN.
THEOREM ShutdownSafe == ASSUME Half!AskedAssumption PROVE Half!Spec => []ShutdownLosesNothing
<1>1. HalfIInv => ShutdownLosesNothing
  <2> SUFFICES ASSUME HalfIInv PROVE ShutdownLosesNothing
    OBVIOUS
  <2> USE DEF HalfIInv, HalfSets, HalfLines, HalfEnds, Half!Running
  <2>1. {asked, answered, up, down, held} \subseteq 0 .. MaxAsked
    BY DEF Half!AskedAssumption
  <2>2. closer \in {"up", "shutdown"} =>
         asked = answered + down + up + (IF answerer = "sleep" THEN held ELSE 0)
           \/ answerer = "sigint"
    OBVIOUS
  <2>3. closer = "exited" /\ conn = "fin" /\ answerer # "sigint" => answered = asked
    OBVIOUS
  <2>4. Half!TypeOK
    BY <2>1, <2>2 DEF Half!TypeOK
  <2> QED
    BY <2>3, <2>4 DEF ShutdownLosesNothing, Half!ShutdownLosesNothing
<1> QED
  BY <1>1, HalfInvariant, PTL

\* The server dies only of answers that a closed client did not read, and of
\* SIGPIPE at the second one.
THEOREM DeathsExplained == ASSUME Half!AskedAssumption PROVE Half!Spec => []DiesOfLostAnswers
<1>1. HalfIInv => DiesOfLostAnswers
  BY DEF HalfIInv, HalfSets, HalfEnds, HalfCauses, DiesOfLostAnswers, Half!DiesOfLostAnswers
<1> QED
  BY <1>1, HalfInvariant, PTL

-----------------------------------------------------------------------------
(* LengthFraming: induction, and what its integers are *)

\* Every set of naturals that is not empty has a smallest element.
LEMMA Smallest ==
  ASSUME NEW T \in SUBSET Nat, T # {}
  PROVE  \E m \in T : \A n \in T : m <= n
<1> DEFINE R == OpToRel(<, Nat)
<1>1. IsWellFoundedOn(R, Nat)
  BY NatLessThanWellFounded
<1>2. \A m, n \in Nat : <<m, n>> \in R <=> m < n
  BY DEF OpToRel
<1> HIDE DEF R
<1>3. PICK m \in T : \A n \in T : ~ (<<n, m>> \in R)
  BY <1>1, WFMin
<1>4. ASSUME NEW n \in T PROVE m <= n
  <2>1. ~ (n < m)
    BY <1>2, <1>3
  <2> QED
    BY <2>1
<1> QED
  BY <1>4

\* A set that holds 0, and with n its successor, holds every natural.
LEMMA Induction ==
  ASSUME NEW S, 0 \in S, \A n \in Nat : n \in S => n + 1 \in S
  PROVE  Nat \subseteq S
<1> DEFINE T == Nat \ S
<1>1. SUFFICES ASSUME T # {} PROVE FALSE
  OBVIOUS
<1>2. PICK m \in T : \A n \in T : m <= n
  BY <1>1, Smallest
<1>3. m # 0 /\ m - 1 \in Nat /\ m - 1 \in S
  BY <1>2
<1> QED
  BY <1>2, <1>3

Iterates(f, a, step) == f[0] = a /\ \A n \in Nat : f[n + 1] = step[n][f[n]]

\* A function of the number and of the value before defines one on the naturals.
LEMMA Iterated ==
  ASSUME NEW V, NEW a \in V, NEW step \in [Nat -> [V -> V]]
  PROVE  \E f \in [Nat -> V] : Iterates(f, a, step)
<1> DEFINE Upto(n) == {g \in [0 .. n -> V] : g[0] = a /\ \A i \in 0 .. n - 1 : g[i + 1] = step[i][g[i]]}
           Good == {n \in Nat : \E g : Upto(n) = {g}}
<1>0. ASSUME NEW n \in Nat, NEW k \in Upto(n + 1) PROVE [i \in 0 .. n |-> k[i]] \in Upto(n)
  OBVIOUS
<1>1. 0 \in Good
  <2> DEFINE g == [i \in {0} |-> a]
  <2>1. g \in Upto(0)
    OBVIOUS
  <2>2. \A h \in Upto(0) : h = g
    OBVIOUS
  <2> HIDE DEF g, Upto
  <2>3. Upto(0) = {g}
    BY <2>1, <2>2
  <2> QED
    BY <2>3
<1>2. ASSUME NEW n \in Nat, n \in Good PROVE n + 1 \in Good
  <2>1. PICK g : Upto(n) = {g}
    BY <1>2
  <2>2. g \in [0 .. n -> V] /\ g[0] = a /\ \A i \in 0 .. n - 1 : g[i + 1] = step[i][g[i]]
    BY <2>1
  <2> DEFINE v == step[n][g[n]]
  <2>3. v \in V
    BY <2>2
  <2> HIDE DEF v
  <2> DEFINE h == [i \in 0 .. n + 1 |-> IF i = n + 1 THEN v ELSE g[i]]
  <2>4. h \in Upto(n + 1)
    <3>1. h \in [0 .. n + 1 -> V] /\ h[0] = a
      BY <2>2, <2>3
    <3>2. ASSUME NEW i \in 0 .. (n + 1) - 1 PROVE h[i + 1] = step[i][h[i]]
      BY <2>2 DEF v
    <3> HIDE DEF h
    <3> QED
      BY <3>1, <3>2
  <2>5. ASSUME NEW k \in Upto(n + 1) PROVE k = h
    <3> DEFINE r == [i \in 0 .. n |-> k[i]]
    <3>1. r \in Upto(n)
      BY <1>0
    <3>2. r = g
      BY <2>1, <3>1
    <3>3. \A i \in 0 .. n : k[i] = g[i]
      BY <3>2
    <3>4. k[n + 1] = v
      BY <3>3 DEF v
    <3> QED
      BY <3>3, <3>4
  <2> HIDE DEF h, Upto
  <2>6. Upto(n + 1) = {h}
    BY <2>4, <2>5
  <2> QED
    BY <2>6
<1>3. Nat \subseteq Good
  <2> HIDE DEF Good
  <2> QED
    BY <1>1, <1>2, Induction
<1> DEFINE G(n) == CHOOSE g : g \in Upto(n)
           f == [n \in Nat |-> G(n)[n]]
<1>4. ASSUME NEW n \in Nat PROVE Upto(n) = {G(n)} /\ G(n) \in Upto(n)
  <2> HIDE DEF Upto
  <2> QED
    BY <1>3
<1>5. ASSUME NEW n \in Nat PROVE \A i \in 0 .. n : G(n + 1)[i] = G(n)[i]
  <2> DEFINE r == [i \in 0 .. n |-> G(n + 1)[i]]
  <2>1. G(n + 1) \in Upto(n + 1) /\ n + 1 \in Nat
    <3> HIDE DEF G, Upto
    <3> QED
      BY <1>4
  <2>2. r \in Upto(n)
    <3> HIDE DEF G, Upto
    <3> QED
      BY <2>1, <1>0
  <2>3. r = G(n)
    <3> HIDE DEF G, Upto, r
    <3> QED
      BY <1>4, <2>2
  <2> QED
    BY <2>3
<1>6. f \in [Nat -> V] /\ f[0] = a
  <2> HIDE DEF G
  <2> QED
    BY <1>4
<1>7. ASSUME NEW n \in Nat PROVE f[n + 1] = step[n][f[n]]
  <2> HIDE DEF G
  <2>1. G(n + 1)[n + 1] = step[n][G(n + 1)[n]]
    BY <1>4
  <2> QED
    BY <2>1, <1>5
<1> QED
  BY <1>6, <1>7 DEF Iterates

\* Products of naturals.
LEMMA Prod == \A a, b \in Nat : a * b \in Nat /\ (b # 0 => a <= a * b)
BY SMT

\* What division with remainder is.
LEMMA DivMod ==
  ASSUME NEW a \in Nat, NEW d \in Nat \ {0}
  PROVE a \div d \in Nat /\ a % d \in 0 .. d - 1 /\ a = d * (a \div d) + (a % d)
BY SMT

\* One more factor is one more summand.
LEMMA Mono == ASSUME NEW p \in Nat, NEW i \in Nat, NEW j \in Nat, i < j PROVE p * i + p <= p * j
<1>1. PICK k \in Nat : j = i + 1 + k
  <2>1. j - i - 1 \in Nat /\ j = i + 1 + (j - i - 1)
    OBVIOUS
  <2> QED BY <2>1
<1>2. p * (i + 1 + k) = p * i + p + p * k /\ p * k \in Nat /\ p * i \in Nat
  BY SMT
<1> QED BY <1>1, <1>2

\* The quotient is the only number that leaves a remainder below the divisor.
LEMMA DivUnique ==
  ASSUME NEW d \in Nat \ {0}, NEW q \in Nat, NEW r \in 0 .. d - 1, NEW a \in Nat, a = d * q + r
  PROVE a \div d = q
<1>1. a \div d \in Nat /\ a % d \in 0 .. d - 1 /\ a = d * (a \div d) + (a % d)
  BY DivMod
<1>2. d * q \in Nat /\ d * (a \div d) \in Nat
  BY <1>1, SMT
<1>3. ~ (q < a \div d)
  <2>1. ASSUME q < a \div d PROVE d * q + d <= d * (a \div d)
    BY <2>1, <1>1, Mono
  <2> QED BY <2>1, <1>1, <1>2
<1>4. ~ (a \div d < q)
  <2>1. ASSUME a \div d < q PROVE d * (a \div d) + d <= d * q
    BY <2>1, <1>1, Mono
  <2> QED BY <2>1, <1>1, <1>2
<1> QED BY <1>1, <1>3, <1>4

\* Dividing twice is dividing by the product.
LEMMA DivDiv ==
  ASSUME NEW n \in Nat, NEW p \in Nat \ {0}, NEW b \in Nat \ {0}
  PROVE (n \div p) \div b = n \div (b * p)
<1> DEFINE q == n \div p
           s == q \div b
           t == q % b
           r == n % p
<1>1. q \in Nat /\ r \in 0 .. p - 1 /\ n = p * q + r
  BY DivMod
<1> HIDE DEF q, r
<1>2. s \in Nat /\ t \in 0 .. b - 1 /\ q = b * s + t
  BY <1>1, DivMod
<1> HIDE DEF s, t
<1>3. n = (b * p) * s + (p * t + r)
  <2>1. p * q = p * (b * s + t)
    BY <1>2
  <2>2. p * (b * s + t) = (b * p) * s + p * t
    BY <1>2, SMT
  <2>3. (b * p) * s \in Nat /\ p * t \in Nat
    BY <1>2, SMT
  <2> QED BY <1>1, <2>1, <2>2, <2>3
<1>4. b * p \in Nat \ {0}
  BY SMT
<1>5. p * t + r \in 0 .. (b * p) - 1
  <2>1. p * t + p <= p * b
    BY <1>2, Mono
  <2>2. p * t \in Nat /\ p * b \in Nat /\ p * b = b * p
    BY <1>2, SMT
  <2> QED BY <1>1, <2>1, <2>2
<1> HIDE DEF q
<1>6. n \div (b * p) = s
  <2> DEFINE d == b * p
             u == p * t + r
  <2>1. d \in Nat \ {0} /\ u \in 0 .. d - 1 /\ n = d * s + u
    BY <1>3, <1>4, <1>5
  <2> HIDE DEF d, u
  <2>2. n \div d = s
    BY <2>1, <1>2, DivUnique
  <2> QED BY <2>2 DEF d
<1> QED BY <1>6 DEF s, q

\* Power is what its recursive definition says, and grows with its exponent.
LEMMA PowerSteps ==
  ASSUME Framing!FramingAssumption
  PROVE  /\ \A n \in Nat : Framing!Power[n] \in Nat \ {0} /\ Framing!Power[n + 1] = Base * Framing!Power[n]
         /\ Framing!Power[0] = 1
<1>0. Base \in Nat \ {0}
  BY DEF Framing!FramingAssumption
<1> DEFINE D(f) == [k \in Nat |-> IF k = 0 THEN 1 ELSE Base * f[k - 1]]
           step == [i \in Nat |-> [x \in Nat |-> Base * x]]
           one == 1
<1>1. PICK f \in [Nat -> Nat] : Iterates(f, one, step)
  <2>1. one \in Nat /\ step \in [Nat -> [Nat -> Nat]]
    BY <1>0, Prod
  <2> HIDE DEF one, step
  <2> QED
    BY <2>1, Iterated
<1>2. f = D(f)
  <2>1. \A k \in Nat : k # 0 => f[k] = Base * f[k - 1]
    <3> TAKE k \in Nat
    <3> HAVE k # 0
    <3>1. k - 1 \in Nat /\ (k - 1) + 1 = k
      OBVIOUS
    <3> QED
      BY <1>1, <3>1 DEF Iterates
  <2> QED
    BY <1>1, <2>1 DEF Iterates
<1>3. Framing!Power = D(Framing!Power)
  BY <1>2 DEF Framing!Power
<1> HIDE DEF D
<1>4. \A k \in Nat : Framing!Power[k] = IF k = 0 THEN 1 ELSE Base * Framing!Power[k - 1]
  BY <1>3 DEF D
<1> DEFINE S == {n \in Nat : Framing!Power[n] \in Nat \ {0}}
<1>5. Nat \subseteq S
  <2>1. 0 \in S
    BY <1>4
  <2>2. ASSUME NEW n \in Nat, n \in S PROVE n + 1 \in S
    <3>1. Framing!Power[n + 1] = Base * Framing!Power[n]
      BY <1>4
    <3> QED
      BY <1>0, <2>2, <3>1, Prod
  <2> HIDE DEF S
  <2> QED
    BY <2>1, <2>2, Induction
<1> QED
  BY <1>4, <1>5

\* What an integer's first bytes are worth follows from one byte to the next.
LEMMA ValueSteps ==
  ASSUME Framing!FramingAssumption, NEW bytes \in [1 .. Width -> Nat]
  PROVE  /\ Framing!Value(bytes)[0] = 0
         /\ \A k \in 0 .. Width - 1 :
              Framing!Value(bytes)[k + 1] = Framing!Value(bytes)[k] * Base + bytes[k + 1]
<1>0. Base \in Nat \ {0} /\ Width \in Nat \ {0}
  BY DEF Framing!FramingAssumption
<1> DEFINE D(f) == [k \in 0 .. Width |-> IF k = 0 THEN 0 ELSE f[k - 1] * Base + bytes[k]]
           byte(k) == IF k \in 1 .. Width THEN bytes[k] ELSE 0
           step == [i \in Nat |-> [x \in Nat |-> x * Base + byte(i + 1)]]
           zero == 0
<1>1. PICK f \in [Nat -> Nat] : Iterates(f, zero, step)
  <2>1. \A k \in Nat : byte(k) \in Nat
    OBVIOUS
  <2> HIDE DEF byte
  <2>2. \A i, x \in Nat : x * Base + byte(i + 1) \in Nat
    <3> TAKE i, x \in Nat
    <3>1. byte(i + 1) \in Nat
      BY <2>1
    <3>2. x * Base \in Nat
      BY <1>0, Prod
    <3> QED
      BY <3>1, <3>2
  <2>3. zero \in Nat /\ step \in [Nat -> [Nat -> Nat]]
    BY <2>2
  <2> HIDE DEF zero, step
  <2> QED
    BY <2>3, Iterated
<1> DEFINE v == [k \in 0 .. Width |-> f[k]]
<1>2. v = D(v)
  <2>1. \A k \in 1 .. Width : f[k] = f[k - 1] * Base + bytes[k]
    <3> TAKE k \in 1 .. Width
    <3>1. k - 1 \in Nat /\ (k - 1) + 1 = k
      BY <1>0
    <3> QED
      BY <1>1, <3>1 DEF Iterates
  <2>2. f[0] = 0
    BY <1>1 DEF Iterates
  <2>3. \A k \in 1 .. Width : v[k - 1] = f[k - 1]
    BY <1>0
  <2>4. \A k \in 0 .. Width : v[k] = IF k = 0 THEN 0 ELSE v[k - 1] * Base + bytes[k]
    <3> TAKE k \in 0 .. Width
    <3>1. CASE k = 0
      BY <2>2, <3>1
    <3>2. CASE k # 0
      <4>1. k \in 1 .. Width
        BY <1>0, <3>2
      <4> QED
        BY <2>1, <2>3, <3>2, <4>1
    <3> QED
      BY <3>1, <3>2
  <2>5. v = [k \in 0 .. Width |-> v[k]]
    OBVIOUS
  <2> HIDE DEF v
  <2> QED
    BY <2>4, <2>5
<1>3. Framing!Value(bytes) = D(Framing!Value(bytes))
  <2> HIDE DEF v
  <2> QED
    BY <1>2 DEF Framing!Value
<1> HIDE DEF D
<1>4. \A k \in 0 .. Width :
        Framing!Value(bytes)[k] = IF k = 0 THEN 0 ELSE Framing!Value(bytes)[k - 1] * Base + bytes[k]
  BY <1>3 DEF D
<1>5. \A k \in 0 .. Width - 1 : k + 1 \in 0 .. Width /\ k + 1 # 0 /\ (k + 1) - 1 = k
  BY <1>0
<1>6. 0 \in 0 .. Width
  BY <1>0
<1> HIDE DEF D
<1>7. ASSUME NEW k \in 0 .. Width - 1
      PROVE  Framing!Value(bytes)[k + 1] = Framing!Value(bytes)[k] * Base + bytes[k + 1]
  <2> DEFINE m == k + 1
  <2>1. m \in 0 .. Width /\ m # 0 /\ m - 1 = k
    BY <1>5
  <2> HIDE DEF m
  <2>2. Framing!Value(bytes)[m] = Framing!Value(bytes)[k] * Base + bytes[m]
    BY <1>4, <2>1
  <2> QED
    BY <2>2 DEF m
<1> QED
  BY <1>4, <1>6, <1>7

\* A number, as its bytes: htonl.
LEMMA Bytes ==
  ASSUME Framing!FramingAssumption, NEW n \in Nat
  PROVE  Framing!htonl(n) \in [1 .. Width -> Framing!Byte]
<1> SUFFICES ASSUME NEW i \in 1 .. Width
             PROVE  (n \div Framing!Power[Width - i]) % Base \in 0 .. Base - 1
  BY DEF Framing!htonl, Framing!Byte
<1>1. Width - i \in Nat /\ Base \in Nat \ {0}
  BY DEF Framing!FramingAssumption
<1>2. Framing!Power[Width - i] \in Nat \ {0}
  BY <1>1, PowerSteps
<1>3. n \div Framing!Power[Width - i] \in Nat
  BY <1>2, DivMod
<1> QED
  BY <1>1, <1>3, DivMod

\* ntohl undoes htonl, of every number that has room in the bytes.
LEMMA RoundTrip ==
  ASSUME Framing!FramingAssumption, NEW n \in 0 .. Framing!Power[Width] - 1
  PROVE  Framing!ntohl(Framing!htonl(n)) = n
<1> DEFINE b == Framing!htonl(n)
           V == Framing!Value(b)
           P == Framing!Power
<1>0. Base \in Nat \ {0} /\ Width \in Nat \ {0}
  BY DEF Framing!FramingAssumption
<1>1. P[Width] \in Nat \ {0}
  BY <1>0, PowerSteps
<1>2. n \in Nat
  BY <1>1
<1>3. b \in [1 .. Width -> Nat]
  <2>1. b \in [1 .. Width -> Framing!Byte]
    BY <1>2, Bytes
  <2> HIDE DEF b
  <2> QED
    BY <1>0, <2>1 DEF Framing!Byte
<1>4. \A k \in 0 .. Width - 1 : b[k + 1] = (n \div P[Width - (k + 1)]) % Base
  BY <1>0 DEF Framing!htonl
<1> HIDE DEF b
<1>5. V[0] = 0 /\ \A k \in 0 .. Width - 1 : V[k + 1] = V[k] * Base + b[k + 1]
  BY <1>3, ValueSteps
<1> HIDE DEF V
<1> DEFINE S == {k \in Nat : k <= Width => V[k] = n \div P[Width - k]}
<1>6. 0 \in S
  <2>1. n = P[Width] * 0 + n
    BY <1>1, <1>2
  <2>2. n \div P[Width] = 0
    BY <1>1, <1>2, <2>1, DivUnique
  <2> QED
    BY <1>0, <1>5, <2>2
<1>7. ASSUME NEW k \in Nat, k \in S PROVE k + 1 \in S
  <2> SUFFICES ASSUME k + 1 <= Width PROVE V[k + 1] = n \div P[Width - (k + 1)]
    OBVIOUS
  <2> DEFINE j == Width - (k + 1)
             q == n \div P[j]
  <2>1. k \in 0 .. Width - 1 /\ j \in Nat /\ Width - k = j + 1
    BY <1>0
  <2>2. V[k] = n \div P[j + 1]
    <3>1. k <= Width
      BY <1>0, <2>1
    <3>2. V[k] = n \div P[Width - k]
      BY <1>7, <3>1, Zenon
    <3> QED
      BY <2>1, <3>2
  <2>3. P[j] \in Nat \ {0} /\ P[j + 1] = Base * P[j]
    BY <2>1, PowerSteps
  <2>4. q \in Nat
    BY <1>2, <2>3, DivMod
  <2>5. q \div Base = n \div P[j + 1]
    BY <1>0, <1>2, <2>3, DivDiv
  <2>6. b[k + 1] = q % Base
    BY <1>4, <2>1
  <2> HIDE DEF j, q
  <2>7. V[k + 1] = (q \div Base) * Base + (q % Base)
    BY <1>5, <2>1, <2>2, <2>5, <2>6
  <2>8. V[k + 1] = q
    BY <1>0, <2>4, <2>7, DivMod
  <2> QED
    BY <2>8 DEF q, j
<1>8. Width \in S
  <2> HIDE DEF S
  <2> QED
    BY <1>0, <1>6, <1>7, Induction
<1>9. V[Width] = n
  <2>1. Width - Width = 0 /\ P[0] = 1 /\ n = 1 * n + 0
    BY <1>0, <1>2, PowerSteps
  <2>2. n \div 1 = n
    BY <1>2, <2>1, DivUnique
  <2> QED
    BY <1>8, <2>1, <2>2
<1> QED
  BY <1>9 DEF V, b, Framing!ntohl

\* The bytes of a frame: length, type and body.
FrameLen(b) == Width + Width + Len(b)

\* A body is a sequence of bytes that fits into the server's buffer, and its
\* length into the bytes of an integer.
LEMMA BodyType ==
  ASSUME Framing!FramingAssumption, NEW b \in Framing!Bodies
  PROVE  /\ b \in Seq(Framing!Byte) /\ Len(b) \in 0 .. MaxLine
         /\ Len(b) <= BufSize /\ BufSize < Framing!Power[Width]
         /\ FrameLen(b) \in Nat
<1>1. PICK n \in 0 .. MaxLine : b \in [1 .. n -> Framing!Byte]
  BY DEF Framing!Bodies
<1>2. n \in Nat /\ MaxLine <= BufSize /\ BufSize < Framing!Power[Width] /\ MaxLine \in Nat /\ BufSize \in Nat
  BY DEF Framing!FramingAssumption
<1>3. b \in Seq(Framing!Byte) /\ Len(b) = n
  BY <1>1, <1>2
<1> QED
  BY <1>2, <1>3 DEF FrameLen, Framing!FramingAssumption

\* Bytes that are those of a body are that body.
LEMMA SeqIsBody ==
  ASSUME Framing!FramingAssumption, NEW b \in Framing!Bodies, NEW s \in Seq(Framing!Byte),
         Len(s) = Len(b), \A j \in 1 .. Len(b) : s[j] = b[j]
  PROVE  s = b
<1>1. b \in Seq(Framing!Byte)
  BY BodyType
<1> QED
  BY <1>1, SeqEqual

\* Two sequences, one behind the other.
LEMMA Joined ==
  ASSUME NEW S, NEW s \in Seq(S), NEW t \in Seq(S)
  PROVE  /\ s \o t \in Seq(S) /\ Len(s \o t) = Len(s) + Len(t)
         /\ \A j \in 1 .. Len(s) : (s \o t)[j] = s[j]
         /\ \A j \in 1 .. Len(t) : (s \o t)[Len(s) + j] = t[j]
<1>1. Len(s) \in Nat /\ Len(t) \in Nat
  OBVIOUS
<1> QED
  BY <1>1, ConcatProperties

\* What a frame consists of.
LEMMA EncodedIs ==
  ASSUME Framing!FramingAssumption, NEW b \in Framing!Bodies
  PROVE  /\ Framing!Encoded(b) \in Seq(Framing!Byte)
         /\ Len(Framing!Encoded(b)) = FrameLen(b)
         /\ \A j \in 1 .. Width : Framing!Encoded(b)[j] = Framing!htonl(Len(b))[j]
         /\ \A j \in 1 .. Len(b) : Framing!Encoded(b)[Width + Width + j] = b[j]
<1> DEFINE l == Framing!htonl(Len(b))
           t == Framing!Type
<1>0. Base \in Nat \ {0, 1} /\ Width \in Nat \ {0}
  BY DEF Framing!FramingAssumption
<1>1. b \in Seq(Framing!Byte) /\ Len(b) \in Nat
  BY BodyType
<1>2. l \in Seq(Framing!Byte) /\ Len(l) = Width
  <2>1. l \in [1 .. Width -> Framing!Byte]
    BY <1>1, Bytes
  <2> HIDE DEF l
  <2> QED
    BY <1>0, <2>1
<1>3. t \in Seq(Framing!Byte) /\ Len(t) = Width
  BY <1>0 DEF Framing!Type, Framing!Byte
<1> HIDE DEF l, t
<1>4. Framing!Encoded(b) = (l \o t) \o b
  BY DEF Framing!Encoded, l, t
<1>5. /\ l \o t \in Seq(Framing!Byte) /\ Len(l \o t) = Len(l) + Len(t)
      /\ \A j \in 1 .. Len(l) : (l \o t)[j] = l[j]
  <2>1. l \in Seq(Framing!Byte) /\ t \in Seq(Framing!Byte)
    BY <1>2, <1>3
  <2> QED
    BY <2>1, Joined
<1>6. \A j \in 1 .. Width : (l \o t)[j] = l[j]
  BY <1>2, <1>5
<1> DEFINE h == l \o t
<1> HIDE DEF h
<1>7. h \in Seq(Framing!Byte) /\ Len(h) = Width + Width
  BY <1>2, <1>3, <1>5 DEF h
<1>11. /\ h \o b \in Seq(Framing!Byte) /\ Len(h \o b) = Len(h) + Len(b)
       /\ \A j \in 1 .. Len(h) : (h \o b)[j] = h[j]
       /\ \A j \in 1 .. Len(b) : (h \o b)[Len(h) + j] = b[j]
  <2>1. h \in Seq(Framing!Byte) /\ b \in Seq(Framing!Byte)
    BY <1>1, <1>7
  <2> QED
    BY <2>1, Joined
<1>8. h \o b \in Seq(Framing!Byte) /\ Len(h \o b) = Width + Width + Len(b)
  BY <1>7, <1>11
<1>9. \A j \in 1 .. Width : (h \o b)[j] = h[j]
  <2>1. \A j \in 1 .. Width : j \in 1 .. Width + Width
    BY <1>0
  <2> QED
    BY <1>7, <1>11, <2>1
<1>10. \A j \in 1 .. Len(b) : (h \o b)[Width + Width + j] = b[j]
  BY <1>7, <1>11
<1> QED
  BY <1>4, <1>6, <1>8, <1>9, <1>10 DEF h, l, FrameLen

\* Prefixes, by their elements.
LEMMA SameIsPrefix ==
  ASSUME NEW S, NEW s \in Seq(S), NEW t \in Seq(S), Len(s) <= Len(t), \A i \in 1 .. Len(s) : s[i] = t[i]
  PROVE  Framing!IsPrefix(s, t)
BY DEF Framing!IsPrefix

\* What is taken off the front of a sequence, and what stays.
LEMMA FrontAndRest ==
  ASSUME NEW S, NEW s \in Seq(S), NEW n \in 1 .. Len(s)
  PROVE  /\ SubSeq(s, 1, n) \in Seq(S) /\ Len(SubSeq(s, 1, n)) = n
         /\ \A i \in 1 .. n : SubSeq(s, 1, n)[i] = s[i]
         /\ SubSeq(s, n + 1, Len(s)) \in Seq(S) /\ Len(SubSeq(s, n + 1, Len(s))) = Len(s) - n
         /\ \A i \in 1 .. Len(s) - n : SubSeq(s, n + 1, Len(s))[i] = s[i + n]
<1>1. Len(s) \in Nat /\ \A i \in 1 .. Len(s) : s[i] \in S
  OBVIOUS
<1> QED
  BY <1>1, SubSeqProperties

\* The variables' ranges, and that no field is read beyond its end.
FramingTypes ==
    /\ sender \in {"up", "fin", "reset"} /\ receiver \in {"reading", "closed", "error"}
    /\ sent \in Seq(Framing!Bodies) /\ received \in Seq(Framing!Bodies)
    /\ stream \in Seq(Framing!Byte) /\ got \in Seq(Framing!Byte)
    /\ field \in {"length", "type", "body"}
    /\ msg_length \in Nat /\ msg_length < Framing!Power[Width]
    /\ field = "body" => msg_length <= BufSize
    /\ Len(got) < Framing!Size

\* The bytes of the frame that the server has read before this field.
Offset == CASE field = "length" -> 0 [] field = "type" -> Width [] OTHER -> Width + Width

\* The messages the client has begun to send: those sent, and one that is cut
\* off when the client is killed.
Begun(ms) ==
    /\ ms \in Seq(Framing!Bodies)
    /\ Len(sent) <= Len(ms) /\ Len(ms) <= Len(sent) + 1
    /\ \A i \in 1 .. Len(sent) : sent[i] = ms[i]
    /\ sender = "up" => Len(ms) = Len(sent)

\* Where the frames start, counted from the first byte not yet read.
Starts(ms, start) ==
    /\ start \in [1 .. Len(ms) + 1 -> Int]
    /\ \A i \in 1 .. Len(ms) : start[i + 1] = start[i] + FrameLen(ms[i])

\* What is on the connection are those frames' bytes, and only the last frame
\* may be cut off.
OnWire(ms, start) ==
    /\ \A i \in Len(received) + 1 .. Len(ms) : \A j \in 1 .. FrameLen(ms[i]) :
         start[i] + j \in 1 .. Len(stream) => stream[start[i] + j] = Framing!Encoded(ms[i])[j]
    /\ Len(ms) = Len(sent) => Len(stream) = start[Len(ms) + 1]
    /\ Len(ms) # Len(sent) => Len(stream) < start[Len(ms) + 1]

\* The server is in the middle of the first frame it has not received, at the
\* byte its field says, with the length the message has.
Reading(ms, start) ==
    receiver = "reading" =>
      LET r == Len(received) + 1 IN
        /\ r \in 1 .. Len(ms) + 1
        /\ start[r] = 0 - (Offset + Len(got))
        /\ got # <<>> \/ field # "length" => r <= Len(ms)
        /\ field # "length" => msg_length = Len(ms[r])
        /\ \A j \in 1 .. Len(got) : got[j] = Framing!Encoded(ms[r])[Offset + j]

Arrivals(ms) == Len(received) <= Len(sent) /\ \A i \in 1 .. Len(received) : received[i] = ms[i]

Framed(ms, start) ==
    Begun(ms) /\ Starts(ms, start) /\ OnWire(ms, start) /\ Reading(ms, start) /\ Arrivals(ms)

FramingInv == FramingTypes /\ \E ms : \E start : Framed(ms, start)

LEMMA FramingStarts == ASSUME Framing!FramingAssumption PROVE Framing!Init => FramingInv
<1> SUFFICES ASSUME Framing!Init PROVE FramingInv
  OBVIOUS
<1> USE DEF Framing!Init
<1>0. Width \in Nat \ {0} /\ Framing!Power[Width] \in Nat \ {0}
  BY PowerSteps DEF Framing!FramingAssumption
<1>1. FramingTypes
  BY <1>0 DEF FramingTypes, Framing!Size
<1> DEFINE start == [i \in 1 .. 1 |-> 0]
<1>2. Begun(<<>>)
  BY DEF Begun
<1>3. Starts(<<>>, start)
  BY DEF Starts
<1>4. OnWire(<<>>, start)
  BY DEF OnWire
<1>5. Reading(<<>>, start)
  BY DEF Reading, Offset
<1>6. Arrivals(<<>>)
  BY DEF Arrivals
<1> HIDE DEF start
<1> QED
  BY <1>1, <1>2, <1>3, <1>4, <1>5, <1>6 DEF FramingInv, Framed

\* What every read does, whatever comes of it: the bytes that arrive are those of
\* the frame the server is in, and the rest moves up.
LEMMA OneRead ==
  ASSUME Framing!FramingAssumption, FramingTypes, NEW ms, NEW start, Framed(ms, start),
         NEW n, Framing!Take(n)
  PROVE  LET r == Len(received) + 1
             a == Framing!Arrived(n)
             moved == [i \in 1 .. Len(ms) + 1 |-> start[i] - n]
         IN  /\ n \in Nat \ {0} /\ r \in 1 .. Len(ms) /\ Len(got) + n <= Framing!Size
             /\ a \in Seq(Framing!Byte) /\ Len(a) = Len(got) + n
             /\ \A j \in 1 .. Len(a) : a[j] = Framing!Encoded(ms[r])[Offset + j]
             /\ stream' \in Seq(Framing!Byte)
             /\ Starts(ms, moved) /\ moved[r] = 0 - (Offset + Len(a))
             /\ field = "body" /\ Framing!Final(n) => r <= Len(sent)
             /\ (Len(received') \in {Len(received), r} => OnWire(ms, moved)')
             /\ UNCHANGED <<sender, sent>>
<1> DEFINE r == Len(received) + 1
           e == Framing!Encoded(ms[r])
           new == SubSeq(stream, 1, n)
           moved == [i \in 1 .. Len(ms) + 1 |-> start[i] - n]
<1>0. Width \in Nat \ {0}
  BY DEF Framing!FramingAssumption
<1>1. /\ receiver = "reading" /\ n \in 1 .. Len(stream) /\ Len(got) + n <= Framing!Size
      /\ stream' = SubSeq(stream, n + 1, Len(stream)) /\ UNCHANGED <<sender, sent>>
  BY DEF Framing!Take, Framing!clientVars
<1>2. /\ stream \in Seq(Framing!Byte) /\ got \in Seq(Framing!Byte) /\ field \in {"length", "type", "body"}
      /\ Len(stream) \in Nat /\ Len(got) \in Nat /\ Len(received) \in Nat /\ Len(sent) \in Nat
  BY DEF FramingTypes
<1>21. n \in Nat /\ n >= 1 /\ n <= Len(stream)
  BY <1>1, <1>2
<1>3. ms \in Seq(Framing!Bodies) /\ Len(ms) \in Nat /\ Len(sent) <= Len(ms) /\ Len(ms) <= Len(sent) + 1
  BY DEF Framed, Begun
<1>4. /\ new \in Seq(Framing!Byte) /\ Len(new) = n /\ \A i \in 1 .. n : new[i] = stream[i]
      /\ stream' \in Seq(Framing!Byte) /\ Len(stream') = Len(stream) - n
      /\ \A i \in 1 .. Len(stream) - n : stream'[i] = stream[i + n]
  BY <1>1, <1>2, FrontAndRest
<1>5. /\ r \in 1 .. Len(ms) + 1 /\ start[r] = 0 - (Offset + Len(got))
      /\ field # "length" => r <= Len(ms) /\ msg_length = Len(ms[r])
      /\ \A j \in 1 .. Len(got) : got[j] = e[Offset + j]
  BY <1>1 DEF Framed, Reading
<1>6. Offset \in Nat /\ (field = "length" => Offset = 0)
      /\ (field = "type" => Offset = Width) /\ (field = "body" => Offset = Width + Width)
  BY <1>0, <1>2 DEF Offset
<1>7. start \in [1 .. Len(ms) + 1 -> Int] /\ \A i \in 1 .. Len(ms) : start[i + 1] = start[i] + FrameLen(ms[i])
  BY DEF Framed, Starts
<1>8. /\ \A i \in r .. Len(ms) : \A j \in 1 .. FrameLen(ms[i]) :
           start[i] + j \in 1 .. Len(stream) => stream[start[i] + j] = Framing!Encoded(ms[i])[j]
      /\ Len(ms) = Len(sent) => Len(stream) = start[Len(ms) + 1]
      /\ Len(ms) # Len(sent) => Len(stream) < start[Len(ms) + 1]
  BY DEF Framed, OnWire
<1>22. r \in Nat /\ r = Len(received) + 1
  BY <1>2
<1> HIDE DEF r
<1>9. r \in 1 .. Len(ms)
  <2>1. ASSUME r = Len(ms) + 1 PROVE FALSE
    <3>1. Len(stream) <= start[r]
      BY <1>2, <1>3, <1>7, <1>8, <2>1
    <3> QED
      BY <1>1, <1>2, <1>5, <1>6, <3>1
  <2> QED
    BY <1>5, <2>1, <1>3
<1>10. /\ ms[r] \in Framing!Bodies /\ Len(ms[r]) \in Nat
       /\ FrameLen(ms[r]) = Width + Width + Len(ms[r]) /\ FrameLen(ms[r]) \in Nat
  BY <1>3, <1>9, BodyType DEF FrameLen
<1>11. /\ field = "length" => Framing!Size = Width
       /\ field = "type" => Framing!Size = Width
       /\ field = "body" => Framing!Size = Len(ms[r])
  BY <1>5 DEF Framing!Size
<1>23. PICK w \in Nat, o \in Nat, g \in Nat, l \in Nat, f \in Nat, s \in Nat :
        /\ w = Width /\ o = Offset /\ g = Len(got) /\ l = Len(ms[r]) /\ f = FrameLen(ms[r])
        /\ s = Len(stream)
  BY <1>0, <1>2, <1>6, <1>10
<1>24. /\ f = w + w + l /\ n <= s
       /\ field = "length" => g + n <= w /\ o = 0
       /\ field = "type" => g + n <= w /\ o = w
       /\ field = "body" => g + n <= l /\ o = w + w
  BY <1>1, <1>6, <1>10, <1>11, <1>23
<1>12. o + g + n <= f
  BY <1>2, <1>21, <1>24
<1>25. start[r] = 0 - (o + g)
  BY <1>5, <1>23
<1> DEFINE a == got \o new
<1>13. /\ a \in Seq(Framing!Byte) /\ Len(a) = Len(got) + n
       /\ \A j \in 1 .. Len(got) : a[j] = got[j]
       /\ \A j \in 1 .. n : a[Len(got) + j] = new[j]
  <2> HIDE DEF new
  <2>1. /\ a \in Seq(Framing!Byte) /\ Len(a) = Len(got) + Len(new)
        /\ \A j \in 1 .. Len(got) : a[j] = got[j]
        /\ \A j \in 1 .. Len(new) : a[Len(got) + j] = new[j]
    <3>1. got \in Seq(Framing!Byte) /\ new \in Seq(Framing!Byte)
      BY <1>2, <1>4
    <3> QED
      BY <3>1, Joined
  <2>2. Len(new) = n
    BY <1>4
  <2> QED
    BY <2>1, <2>2
<1>14. a = Framing!Arrived(n)
  BY DEF Framing!Arrived
<1> HIDE DEF new, a, e
<1>15. ASSUME NEW j \in 1 .. Len(a) PROVE a[j] = e[Offset + j]
  <2>1. CASE j \in 1 .. Len(got)
    BY <1>5, <1>13, <2>1
  <2>2. CASE j \notin 1 .. Len(got)
    <3> DEFINE i == j - g
    <3>1. i \in 1 .. n /\ j = g + i
      BY <1>13, <1>21, <1>23, <2>2
    <3>2. a[j] = stream[i]
      BY <1>4, <1>13, <1>23, <3>1
    <3>3. i = start[r] + (o + j) /\ o + j \in 1 .. f /\ i \in 1 .. s
      BY <1>12, <1>21, <1>24, <1>25, <3>1
    <3> HIDE DEF i
    <3>4. r \in r .. Len(ms)
      BY <1>9
    <3>5. stream[start[r] + (o + j)] = e[o + j]
      BY <1>8, <1>23, <3>3, <3>4 DEF e
    <3> QED
      BY <1>23, <3>2, <3>3, <3>5
  <2> QED
    BY <2>1, <2>2
<1>16. moved \in [1 .. Len(ms) + 1 -> Int] /\ \A i \in 1 .. Len(ms) + 1 : moved[i] = start[i] - n
  BY <1>1, <1>2, <1>7
<1> HIDE DEF moved
<1>17. Starts(ms, moved)
  <2>1. ASSUME NEW i \in 1 .. Len(ms) PROVE moved[i + 1] = moved[i] + FrameLen(ms[i])
    <3>1. ms[i] \in Framing!Bodies /\ FrameLen(ms[i]) \in Nat
      BY <1>3, BodyType
    <3>2. i \in 1 .. Len(ms) + 1 /\ i + 1 \in 1 .. Len(ms) + 1 /\ start[i] \in Int /\ start[i + 1] \in Int
      BY <1>3, <1>7
    <3>3. start[i + 1] = start[i] + FrameLen(ms[i])
      BY <1>7
    <3> QED
      BY <1>21, <1>16, <3>1, <3>2, <3>3
  <2> QED
    BY <1>16, <2>1 DEF Starts
<1>18. moved[r] = 0 - (Offset + Len(a))
  <2>1. r \in 1 .. Len(ms) + 1 /\ start[r] \in Int
    BY <1>5, <1>7
  <2> QED
    BY <1>21, <1>13, <1>16, <1>23, <1>25, <2>1
<1>19. ASSUME field = "body", Framing!Final(n) PROVE r <= Len(sent)
  <2>1. ASSUME Len(ms) # Len(sent), r = Len(ms) PROVE FALSE
    <3>1. Len(got) + n = Len(ms[r])
      BY <1>11, <1>19 DEF Framing!Final
    <3>2. start[r + 1] = start[r] + FrameLen(ms[r])
      BY <1>7, <1>9
    <3>5. g + n = l /\ o = w + w
      BY <1>19, <1>23, <1>24, <3>1
    <3>6. start[r + 1] = start[r] + f
      BY <1>23, <3>2
    <3>3. start[r + 1] = n
      BY <1>21, <1>24, <1>25, <3>5, <3>6
    <3>4. s < n
      BY <1>8, <1>23, <2>1, <3>3
    <3> QED
      BY <1>21, <1>24, <3>4
  <2> QED
    BY <1>2, <1>3, <1>9, <2>1
<1>20. ASSUME Len(received') \in {Len(received), r} PROVE OnWire(ms, moved)'
  <2>0. Len(received') \in Nat /\ r <= Len(received') + 1
    BY <1>2, <1>20, <1>22
  <2>1. ASSUME NEW i \in Len(received') + 1 .. Len(ms), NEW j \in 1 .. FrameLen(ms[i]),
               moved[i] + j \in 1 .. Len(stream')
        PROVE  stream'[moved[i] + j] = Framing!Encoded(ms[i])[j]
    <3>1. i \in r .. Len(ms) /\ i \in 1 .. Len(ms) + 1
      BY <1>3, <1>22, <2>0
    <3>2. ms[i] \in Framing!Bodies /\ FrameLen(ms[i]) \in Nat /\ j \in Nat
      BY <1>2, <1>3, <3>1, BodyType
    <3>3. start[i] \in Int /\ moved[i] = start[i] - n
      BY <1>7, <1>16, <3>1
    <3> DEFINE k == moved[i] + j
    <3>7. k \in 1 .. s - n
      BY <1>4, <1>23, <2>1
    <3>8. k + n = start[i] + j
      BY <1>21, <3>2, <3>3
    <3>4. k \in 1 .. Len(stream) - n /\ k + n = start[i] + j /\ start[i] + j \in 1 .. Len(stream)
      <4> HIDE DEF k
      <4> QED
        BY <1>21, <1>23, <3>7, <3>8
    <3> HIDE DEF k
    <3>5. stream'[k] = stream[start[i] + j]
      BY <1>4, <3>4
    <3>6. stream[start[i] + j] = Framing!Encoded(ms[i])[j]
      BY <1>8, <3>1, <3>4
    <3> QED
      BY <3>5, <3>6 DEF k
  <2>2. Len(ms) + 1 \in 1 .. Len(ms) + 1 /\ start[Len(ms) + 1] \in Int
    BY <1>3, <1>7
  <2>3. moved[Len(ms) + 1] = start[Len(ms) + 1] - n
    BY <1>16, <2>2
  <2>4. Len(ms) = Len(sent') => Len(stream') = moved[Len(ms) + 1]
    BY <1>1, <1>2, <1>4, <1>8, <2>2, <2>3
  <2>5. Len(ms) # Len(sent') => Len(stream') < moved[Len(ms) + 1]
    BY <1>1, <1>2, <1>4, <1>8, <2>2, <2>3
  <2> QED
    BY <2>1, <2>4, <2>5 DEF OnWire
<1>26. Len(received') \in {Len(received), r} => OnWire(ms, moved)'
  BY <1>20
<1>27. field = "body" /\ Framing!Final(n) => r <= Len(sent)
  BY <1>19
<1>28. n \in Nat \ {0}
  BY <1>21
<1>29. \A j \in 1 .. Len(a) : a[j] = e[Offset + j]
  BY <1>15
<1> QED
  BY <1>1, <1>4, <1>9, <1>13, <1>14, <1>17, <1>18, <1>26, <1>27, <1>28, <1>29, Zenon DEF r, e, moved

\* The server's own part of the invariant, after a read within a field.
LEMMA ReadKeeps ==
  ASSUME Framing!FramingAssumption, FramingInv, NEW n, Framing!ReadSome(n)
  PROVE  FramingInv'
<1>1. PICK ms, start : Framed(ms, start)
  BY DEF FramingInv
<1> DEFINE r == Len(received) + 1
           a == Framing!Arrived(n)
           moved == [i \in 1 .. Len(ms) + 1 |-> start[i] - n]
<1>2. FramingTypes /\ Framing!Take(n)
  BY DEF FramingInv, Framing!ReadSome
<1>3. /\ n \in Nat \ {0} /\ r \in 1 .. Len(ms) /\ Len(got) + n <= Framing!Size
      /\ a \in Seq(Framing!Byte) /\ Len(a) = Len(got) + n
      /\ \A j \in 1 .. Len(a) : a[j] = Framing!Encoded(ms[r])[Offset + j]
      /\ stream' \in Seq(Framing!Byte)
      /\ Starts(ms, moved) /\ moved[r] = 0 - (Offset + Len(a))
      /\ (Len(received') \in {Len(received), r} => OnWire(ms, moved)')
      /\ UNCHANGED <<sender, sent>>
  BY <1>1, <1>2, OneRead
<1> HIDE DEF moved, a
<1>4. got' = a /\ UNCHANGED <<receiver, field, msg_length, received>> /\ Len(a) # Framing!Size
  BY <1>3 DEF Framing!ReadSome, Framing!Final, a
<1>5. FramingTypes'
  <2>1. Framing!Size' = Framing!Size /\ Framing!Size \in Nat /\ Len(a) \in Nat
    BY <1>2, <1>3, <1>4 DEF FramingTypes, Framing!Size, Framing!FramingAssumption
  <2>2. Len(got') < Framing!Size'
    BY <1>3, <1>4, <2>1
  <2> QED
    BY <1>2, <1>3, <1>4, <2>2 DEF FramingTypes
<1>6. Reading(ms, moved)'
  <2>1. Offset' = Offset
    BY <1>4 DEF Offset
  <2>2. receiver = "reading"
    BY <1>2 DEF Framing!Take
  <2>3. field # "length" => msg_length = Len(ms[r])
    BY <1>1, <2>2 DEF Reading, Framed
  <2>4. r \in 1 .. Len(ms) + 1 /\ r <= Len(ms)
    BY <1>1, <1>3 DEF Framed, Begun
  <2>5. r = Len(received') + 1
    BY <1>4
  <2> HIDE DEF r
  <2> QED
    BY <1>3, <1>4, <2>1, <2>2, <2>3, <2>4, <2>5 DEF Reading
<1>7. Begun(ms)' /\ Starts(ms, moved)' /\ Arrivals(ms)'
  BY <1>1, <1>3, <1>4 DEF Begun, Starts, Arrivals, Framed
<1>8. OnWire(ms, moved)'
  BY <1>3, <1>4
<1> QED
  BY <1>5, <1>6, <1>7, <1>8 DEF FramingInv, Framed

\* The bytes of the length are worth the message's length.
LEMMA LengthKeeps ==
  ASSUME Framing!FramingAssumption, FramingInv, NEW n, Framing!LengthRead(n)
  PROVE  FramingInv'
<1>1. PICK ms, start : Framed(ms, start)
  BY DEF FramingInv
<1> DEFINE r == Len(received) + 1
           a == Framing!Arrived(n)
           moved == [i \in 1 .. Len(ms) + 1 |-> start[i] - n]
<1>2. FramingTypes /\ Framing!Take(n)
  BY DEF FramingInv, Framing!LengthRead
<1>3. /\ n \in Nat \ {0} /\ r \in 1 .. Len(ms) /\ Len(got) + n <= Framing!Size
      /\ a \in Seq(Framing!Byte) /\ Len(a) = Len(got) + n
      /\ \A j \in 1 .. Len(a) : a[j] = Framing!Encoded(ms[r])[Offset + j]
      /\ stream' \in Seq(Framing!Byte)
      /\ Starts(ms, moved) /\ moved[r] = 0 - (Offset + Len(a))
      /\ field = "body" /\ Framing!Final(n) => r <= Len(sent)
      /\ (Len(received') \in {Len(received), r} => OnWire(ms, moved)')
      /\ UNCHANGED <<sender, sent>>
  BY <1>1, <1>2, OneRead
<1>4. Len(a) = Framing!Size /\ receiver = "reading"
  BY <1>2, <1>3 DEF Framing!LengthRead, Framing!Final, Framing!Take
<1> HIDE DEF moved
<1>5. /\ ms \in Seq(Framing!Bodies) /\ Len(ms) \in Nat /\ Len(received) \in Nat
      /\ field # "length" => msg_length = Len(ms[r])
  BY <1>1, <1>2, <1>4 DEF Framed, Begun, Reading, FramingTypes
<1>6. r \in Nat /\ r = Len(received) + 1 /\ r \in 1 .. Len(ms) + 1 /\ r <= Len(ms)
  BY <1>3, <1>5
<1> HIDE DEF r
<1>7. ms[r] \in Framing!Bodies /\ Len(ms[r]) \in Nat /\ Len(ms[r]) <= BufSize /\ Len(ms[r]) < Framing!Power[Width]
  <2>1. ms[r] \in Framing!Bodies
    BY <1>5, <1>6
  <2>2. Framing!Power[Width] \in Nat /\ BufSize \in Nat /\ MaxLine \in Nat
    BY PowerSteps DEF Framing!FramingAssumption
  <2>3. Len(ms[r]) \in 0 .. MaxLine /\ Len(ms[r]) <= BufSize /\ BufSize < Framing!Power[Width]
    BY <2>1, BodyType
  <2> QED
    BY <2>1, <2>2, <2>3
<1>8. Width \in Nat \ {0} /\ BufSize \in Nat
  BY DEF Framing!FramingAssumption
<1>9. field = "length" /\ Offset = 0 /\ Framing!Size = Width
  BY DEF Framing!LengthRead, Offset, Framing!Size
<1>10. a = Framing!htonl(Len(ms[r]))
  <2>1. Framing!htonl(Len(ms[r])) \in Seq(Framing!Byte) /\ Len(Framing!htonl(Len(ms[r]))) = Width
    <3> DEFINE l == Framing!htonl(Len(ms[r]))
    <3>1. l \in [1 .. Width -> Framing!Byte]
      BY <1>7, Bytes
    <3> HIDE DEF l
    <3>2. l \in Seq(Framing!Byte) /\ Len(l) = Width
      BY <1>8, <3>1
    <3> QED
      BY <3>2 DEF l
  <2>2. Len(a) = Width
    BY <1>4, <1>9
  <2>3. \A j \in 1 .. Width : Framing!Encoded(ms[r])[j] = Framing!htonl(Len(ms[r]))[j]
    BY <1>7, EncodedIs
  <2>4. \A j \in 1 .. Width : a[j] = Framing!htonl(Len(ms[r]))[j]
    BY <1>3, <1>8, <1>9, <2>2, <2>3
  <2> HIDE DEF a
  <2> QED
    BY <1>3, <2>1, <2>2, <2>4, SeqEqual
<1>11. msg_length' = Len(ms[r])
  <2>1. Len(ms[r]) \in 0 .. Framing!Power[Width] - 1
    <3>1. Framing!Power[Width] \in Nat
      BY <1>8, PowerSteps
    <3> QED
      BY <1>7, <3>1
  <2> QED
    BY <1>10, <2>1, RoundTrip DEF Framing!LengthRead
<1>12. field' = "type" /\ got' = <<>> /\ UNCHANGED <<receiver, received>>
  BY DEF Framing!LengthRead
<1>13. Offset' = Width /\ Framing!Size' = Width
  BY <1>12 DEF Offset, Framing!Size
<1>14. FramingTypes'
  BY <1>2, <1>3, <1>7, <1>8, <1>11, <1>12, <1>13 DEF FramingTypes
<1>15. Reading(ms, moved)'
  <2>1. moved[r] = 0 - (Width + 0)
    BY <1>3, <1>4, <1>8, <1>9
  <2>2. r = Len(received') + 1
    BY <1>6, <1>12
  <2> QED
    BY <1>6, <1>11, <1>12, <1>13, <2>1, <2>2 DEF Reading
<1>16. Begun(ms)' /\ Starts(ms, moved)' /\ Arrivals(ms)'
  BY <1>1, <1>3, <1>12 DEF Begun, Starts, Arrivals, Framed
<1>17. OnWire(ms, moved)'
  BY <1>3, <1>12
<1> QED
  BY <1>14, <1>15, <1>16, <1>17 DEF FramingInv, Framed

\* After the type there is the body, of the length that was read.
LEMMA TypeKeeps ==
  ASSUME Framing!FramingAssumption, FramingInv, NEW n, Framing!TypeRead(n)
  PROVE  FramingInv'
<1>1. PICK ms, start : Framed(ms, start)
  BY DEF FramingInv
<1> DEFINE r == Len(received) + 1
           a == Framing!Arrived(n)
           moved == [i \in 1 .. Len(ms) + 1 |-> start[i] - n]
<1>2. FramingTypes /\ Framing!Take(n)
  BY DEF FramingInv, Framing!TypeRead
<1>3. /\ n \in Nat \ {0} /\ r \in 1 .. Len(ms) /\ Len(got) + n <= Framing!Size
      /\ a \in Seq(Framing!Byte) /\ Len(a) = Len(got) + n
      /\ \A j \in 1 .. Len(a) : a[j] = Framing!Encoded(ms[r])[Offset + j]
      /\ stream' \in Seq(Framing!Byte)
      /\ Starts(ms, moved) /\ moved[r] = 0 - (Offset + Len(a))
      /\ field = "body" /\ Framing!Final(n) => r <= Len(sent)
      /\ (Len(received') \in {Len(received), r} => OnWire(ms, moved)')
      /\ UNCHANGED <<sender, sent>>
  BY <1>1, <1>2, OneRead
<1>4. Len(a) = Framing!Size /\ receiver = "reading"
  BY <1>2, <1>3 DEF Framing!TypeRead, Framing!Final, Framing!Take
<1> HIDE DEF moved
<1>5. /\ ms \in Seq(Framing!Bodies) /\ Len(ms) \in Nat /\ Len(received) \in Nat
      /\ field # "length" => msg_length = Len(ms[r])
  BY <1>1, <1>2, <1>4 DEF Framed, Begun, Reading, FramingTypes
<1>6. r \in Nat /\ r = Len(received) + 1 /\ r \in 1 .. Len(ms) + 1 /\ r <= Len(ms)
  BY <1>3, <1>5
<1> HIDE DEF r
<1>7. ms[r] \in Framing!Bodies /\ Len(ms[r]) \in Nat /\ Len(ms[r]) <= BufSize /\ Len(ms[r]) < Framing!Power[Width]
  <2>1. ms[r] \in Framing!Bodies
    BY <1>5, <1>6
  <2>2. Framing!Power[Width] \in Nat /\ BufSize \in Nat /\ MaxLine \in Nat
    BY PowerSteps DEF Framing!FramingAssumption
  <2>3. Len(ms[r]) \in 0 .. MaxLine /\ Len(ms[r]) <= BufSize /\ BufSize < Framing!Power[Width]
    BY <2>1, BodyType
  <2> QED
    BY <2>1, <2>2, <2>3
<1>8. Width \in Nat \ {0} /\ BufSize \in Nat
  BY DEF Framing!FramingAssumption
<1>9. field = "type" /\ Offset = Width /\ Framing!Size = Width /\ Len(a) = Width
  BY <1>4 DEF Framing!TypeRead, Offset, Framing!Size
<1>10. msg_length = Len(ms[r])
  BY <1>5, <1>9
<1>11. /\ got' = <<>> /\ UNCHANGED <<msg_length, received>>
       /\ \/ receiver' \in {"error", "closed"} /\ field' = "type"
          \/ msg_length \in 1 .. BufSize /\ field' = "body" /\ receiver' = "reading"
  BY <1>4, <1>9 DEF Framing!TypeRead
<1>12. FramingTypes'
  <2>1. CASE field' = "type" /\ receiver' \in {"error", "closed"}
    BY <1>2, <1>3, <1>8, <1>11, <2>1 DEF FramingTypes, Framing!Size
  <2>2. CASE msg_length \in 1 .. BufSize /\ field' = "body" /\ receiver' = "reading"
    BY <1>2, <1>3, <1>8, <1>11, <2>2 DEF FramingTypes, Framing!Size
  <2> QED
    BY <1>11, <2>1, <2>2
<1>13. Reading(ms, moved)'
  <2>1. CASE receiver' # "reading"
    BY <2>1 DEF Reading
  <2>2. CASE receiver' = "reading"
    <3>1. field' = "body" /\ Offset' = Width + Width
      BY <1>11, <2>2 DEF Offset
    <3>2. moved[r] = 0 - ((Width + Width) + 0)
      <4>1. moved[r] = 0 - (Width + Width)
        BY ONLY <1>3, <1>9
      <4>2. Width + Width = (Width + Width) + 0
        BY ONLY <1>8
      <4> QED
        BY ONLY <4>1, <4>2
    <3>3. r = Len(received') + 1
      BY <1>6, <1>11
    <3> QED
      BY <1>6, <1>10, <1>11, <3>1, <3>2, <3>3 DEF Reading
  <2> QED
    BY <2>1, <2>2
<1>14. Begun(ms)' /\ Starts(ms, moved)' /\ Arrivals(ms)'
  BY <1>1, <1>3, <1>11 DEF Begun, Starts, Arrivals, Framed
<1>15. OnWire(ms, moved)'
  BY <1>3, <1>11
<1> QED
  BY <1>12, <1>13, <1>14, <1>15 DEF FramingInv, Framed

\* The bytes of the body are the message, and the next frame follows.
LEMMA BodyKeeps ==
  ASSUME Framing!FramingAssumption, FramingInv, NEW n, Framing!BodyRead(n)
  PROVE  FramingInv'
<1>1. PICK ms, start : Framed(ms, start)
  BY DEF FramingInv
<1> DEFINE r == Len(received) + 1
           a == Framing!Arrived(n)
           moved == [i \in 1 .. Len(ms) + 1 |-> start[i] - n]
<1>2. FramingTypes /\ Framing!Take(n)
  BY DEF FramingInv, Framing!BodyRead
<1>3. /\ n \in Nat \ {0} /\ r \in 1 .. Len(ms) /\ Len(got) + n <= Framing!Size
      /\ a \in Seq(Framing!Byte) /\ Len(a) = Len(got) + n
      /\ \A j \in 1 .. Len(a) : a[j] = Framing!Encoded(ms[r])[Offset + j]
      /\ stream' \in Seq(Framing!Byte)
      /\ Starts(ms, moved) /\ moved[r] = 0 - (Offset + Len(a))
      /\ field = "body" /\ Framing!Final(n) => r <= Len(sent)
      /\ (Len(received') \in {Len(received), r} => OnWire(ms, moved)')
      /\ UNCHANGED <<sender, sent>>
  BY <1>1, <1>2, OneRead
<1>4. Len(a) = Framing!Size /\ receiver = "reading"
  BY <1>2, <1>3 DEF Framing!BodyRead, Framing!Final, Framing!Take
<1> HIDE DEF moved
<1>5. /\ ms \in Seq(Framing!Bodies) /\ Len(ms) \in Nat /\ Len(received) \in Nat
      /\ field # "length" => msg_length = Len(ms[r])
  BY <1>1, <1>2, <1>4 DEF Framed, Begun, Reading, FramingTypes
<1>6. r \in Nat /\ r = Len(received) + 1 /\ r \in 1 .. Len(ms) + 1 /\ r <= Len(ms)
  BY <1>3, <1>5
<1> HIDE DEF r
<1>7. ms[r] \in Framing!Bodies /\ Len(ms[r]) \in Nat /\ Len(ms[r]) <= BufSize /\ Len(ms[r]) < Framing!Power[Width]
  <2>1. ms[r] \in Framing!Bodies
    BY <1>5, <1>6
  <2>2. Framing!Power[Width] \in Nat /\ BufSize \in Nat /\ MaxLine \in Nat
    BY PowerSteps DEF Framing!FramingAssumption
  <2>3. Len(ms[r]) \in 0 .. MaxLine /\ Len(ms[r]) <= BufSize /\ BufSize < Framing!Power[Width]
    BY <2>1, BodyType
  <2> QED
    BY <2>1, <2>2, <2>3
<1>8. Width \in Nat \ {0} /\ BufSize \in Nat
  BY DEF Framing!FramingAssumption
<1>9. field = "body" /\ Offset = Width + Width /\ Framing!Size = Len(ms[r])
  BY <1>5 DEF Framing!BodyRead, Offset, Framing!Size
<1>10. a = ms[r]
  <2>1. Len(a) = Len(ms[r])
    BY <1>4, <1>9
  <2>2. \A j \in 1 .. Len(ms[r]) : Framing!Encoded(ms[r])[Width + Width + j] = ms[r][j]
    BY <1>7, EncodedIs
  <2>3. \A j \in 1 .. Len(ms[r]) : a[j] = ms[r][j]
    BY <1>3, <1>9, <2>1, <2>2
  <2> HIDE DEF a
  <2> QED
    BY <1>3, <1>7, <2>1, <2>3, SeqIsBody
<1>11. r <= Len(sent)
  BY <1>3, <1>4, <1>9 DEF Framing!BodyRead
<1>12. received' = Append(received, ms[r]) /\ field' = "length" /\ got' = <<>> /\ UNCHANGED <<receiver, msg_length>>
  BY <1>10 DEF Framing!BodyRead
<1>13. received' \in Seq(Framing!Bodies) /\ Len(received') = r
       /\ \A i \in 1 .. r : received'[i] = IF i = r THEN ms[r] ELSE received[i]
  BY <1>2, <1>6, <1>7, <1>12, AppendProperties DEF FramingTypes
<1>14. FramingTypes'
  BY <1>2, <1>3, <1>8, <1>12, <1>13 DEF FramingTypes, Framing!Size
<1>15. Starts(ms, moved)' /\ Begun(ms)'
  BY <1>1, <1>3 DEF Begun, Starts, Framed
<1>16. Reading(ms, moved)'
  <2>1. Offset' = 0 /\ Len(got') = 0
    BY <1>12 DEF Offset
  <2>2. moved[r + 1] = moved[r] + FrameLen(ms[r])
    BY <1>3, <1>6 DEF Starts
  <2>3. moved[r + 1] = 0
    <3>1. PICK w \in Nat, l \in Nat : w = Width /\ l = Len(ms[r])
      BY <1>7, <1>8
    <3>2. moved[r] = 0 - ((w + w) + l)
      BY <1>3, <1>4, <1>9, <3>1
    <3>3. FrameLen(ms[r]) = (w + w) + l
      BY <3>1 DEF FrameLen
    <3> QED
      BY <2>2, <3>2, <3>3
  <2>4. r + 1 \in 1 .. Len(ms) + 1
    BY <1>5, <1>6
  <2> DEFINE k == Len(received') + 1
  <2>5. k \in 1 .. Len(ms) + 1 /\ moved[k] = 0 - (0 + 0)
    BY <1>6, <1>13, <2>3, <2>4
  <2> HIDE DEF k
  <2>6. moved[k] = 0 - (Offset' + Len(got'))
    BY <2>1, <2>5
  <2>7. \A j \in 1 .. Len(got') : FALSE
    BY <2>1
  <2> QED
    BY <1>12, <2>5, <2>6, <2>7 DEF Reading, k
<1>17. Arrivals(ms)'
  <2>1. \A i \in 1 .. Len(received) : received[i] = ms[i]
    BY <1>1 DEF Framed, Arrivals
  <2>2. ASSUME NEW i \in 1 .. r PROVE received'[i] = ms[i]
    <3>1. i # r => i \in 1 .. Len(received)
      BY <1>5, <1>6
    <3> QED
      BY <1>13, <2>1, <3>1
  <2> QED
    BY <1>3, <1>11, <1>13, <2>2 DEF Arrivals
<1>18. OnWire(ms, moved)'
  BY <1>3, <1>13
<1> QED
  BY <1>14, <1>15, <1>16, <1>17, <1>18 DEF FramingInv, Framed

\* Another frame, or the first part of one, behind what is on the connection.
LEMMA OneFrame ==
  ASSUME Framing!FramingAssumption, FramingTypes, NEW ms, NEW start, Framed(ms, start),
         sender = "up", NEW b \in Framing!Bodies, NEW part \in Seq(Framing!Byte),
         Len(part) <= FrameLen(b), \A j \in 1 .. Len(part) : part[j] = Framing!Encoded(b)[j],
         stream' = stream \o part,
         UNCHANGED <<receiver, field, msg_length, got, received>>
  PROVE  LET more == Append(ms, b)
             further == [i \in 1 .. Len(more) + 1 |->
                           IF i = Len(more) + 1 THEN start[Len(ms) + 1] + FrameLen(b) ELSE start[i]]
         IN  /\ more \in Seq(Framing!Bodies) /\ Len(more) = Len(ms) + 1
             /\ \A i \in 1 .. Len(ms) : more[i] = ms[i]
             /\ more[Len(ms) + 1] = b
             /\ Starts(more, further) /\ Reading(more, further)'
             /\ \A i \in Len(received) + 1 .. Len(more) : \A j \in 1 .. FrameLen(more[i]) :
                  further[i] + j \in 1 .. Len(stream') =>
                    stream'[further[i] + j] = Framing!Encoded(more[i])[j]
             /\ stream' \in Seq(Framing!Byte)
             /\ Len(part) = FrameLen(b) => Len(stream') = further[Len(more) + 1]
             /\ Len(part) < FrameLen(b) => Len(stream') < further[Len(more) + 1]
<1> DEFINE more == Append(ms, b)
           k == Len(ms) + 1
           further == [i \in 1 .. Len(more) + 1 |->
                         IF i = Len(more) + 1 THEN start[Len(ms) + 1] + FrameLen(b) ELSE start[i]]
<1>1. /\ ms \in Seq(Framing!Bodies) /\ Len(ms) \in Nat /\ Len(ms) = Len(sent)
      /\ start \in [1 .. Len(ms) + 1 -> Int]
      /\ \A i \in 1 .. Len(ms) : start[i + 1] = start[i] + FrameLen(ms[i])
      /\ \A i \in Len(received) + 1 .. Len(ms) : \A j \in 1 .. FrameLen(ms[i]) :
           start[i] + j \in 1 .. Len(stream) => stream[start[i] + j] = Framing!Encoded(ms[i])[j]
      /\ Len(stream) = start[Len(ms) + 1]
  <2>1. ms \in Seq(Framing!Bodies) /\ Len(ms) \in Nat /\ Len(ms) = Len(sent)
    BY DEF Framed, Begun
  <2>2. /\ start \in [1 .. Len(ms) + 1 -> Int]
        /\ \A i \in 1 .. Len(ms) : start[i + 1] = start[i] + FrameLen(ms[i])
    BY DEF Framed, Starts
  <2>3. OnWire(ms, start)
    BY DEF Framed
  <2> QED
    BY <2>1, <2>2, <2>3, Zenon DEF OnWire
<1>2. more \in Seq(Framing!Bodies) /\ Len(more) = k /\ more[k] = b
      /\ \A i \in 1 .. Len(ms) : more[i] = ms[i]
  BY <1>1, AppendProperties
<1> HIDE DEF more
<1>3. k \in Nat /\ k = Len(ms) + 1 /\ FrameLen(b) \in Nat /\ start[k] = Len(stream)
  BY <1>1, BodyType
<1>4. /\ stream \in Seq(Framing!Byte) /\ Len(stream) \in Nat /\ Len(received) \in Nat
      /\ Len(part) \in Nat /\ Len(got) \in Nat
  BY DEF FramingTypes
<1> HIDE DEF k
<1>5. /\ further \in [1 .. k + 1 -> Int]
      /\ further[k + 1] = Len(stream) + FrameLen(b)
      /\ \A i \in 1 .. k : further[i] = start[i]
  <2>1. \A i \in 1 .. k : start[i] \in Int
    BY <1>1, <1>3
  <2> QED
    BY <1>2, <1>3, <1>4, <2>1
<1>16. /\ stream' \in Seq(Framing!Byte) /\ Len(stream') = Len(stream) + Len(part)
       /\ \A j \in 1 .. Len(stream) : stream'[j] = stream[j]
       /\ \A j \in 1 .. Len(part) : stream'[Len(stream) + j] = part[j]
  BY <1>4, Joined
<1> HIDE DEF further
<1>6. Starts(more, further)
  <2>1. ASSUME NEW i \in 1 .. k PROVE further[i + 1] = further[i] + FrameLen(more[i])
    <3>1. CASE i = k
      BY <1>2, <1>3, <1>4, <1>5, <3>1
    <3>2. CASE i # k
      <4>1. i \in 1 .. Len(ms) /\ i + 1 \in 1 .. k
        BY <1>1, <1>3, <3>2
      <4> QED
        BY <1>1, <1>2, <1>5, <4>1
    <3> QED
      BY <3>1, <3>2
  <2> QED
    BY <1>2, <1>5, <2>1 DEF Starts
<1>7. Reading(more, further)'
  <2> SUFFICES ASSUME receiver = "reading" PROVE Reading(more, further)'
    BY DEF Reading
  <2> DEFINE r == Len(received) + 1
  <2>1. /\ r \in 1 .. k /\ start[r] = 0 - (Offset + Len(got))
        /\ got # <<>> \/ field # "length" => r <= Len(ms)
        /\ field # "length" => msg_length = Len(ms[r])
        /\ \A j \in 1 .. Len(got) : got[j] = Framing!Encoded(ms[r])[Offset + j]
    BY <1>3 DEF Framed, Reading
  <2>2. Offset' = Offset
    BY DEF Offset
  <2>3. r = Len(received') + 1 /\ r \in Nat
    BY <1>4
  <2> HIDE DEF r
  <2>4. r <= Len(ms) => more[r] = ms[r]
    BY <1>1, <1>2, <1>3, <2>1, <2>3
  <2>5. further[r] = start[r] /\ r \in 1 .. k + 1
    BY <1>3, <1>5, <2>1
  <2>6. got # <<>> \/ field # "length" => r <= k /\ r <= Len(ms)
    BY <1>1, <1>3, <2>1, <2>3
  <2>7. \A j \in 1 .. Len(got) : got # <<>>
    OBVIOUS
  <2>8. \A j \in 1 .. Len(got) : got[j] = Framing!Encoded(more[r])[Offset + j]
    BY <2>1, <2>4, <2>6, <2>7
  <2>9. field # "length" => msg_length = Len(more[r])
    BY <2>1, <2>4, <2>6
  <2> QED
    BY <1>2, <2>1, <2>2, <2>3, <2>5, <2>6, <2>8, <2>9 DEF Reading
<1>8. ASSUME NEW i \in Len(received) + 1 .. Len(more), NEW j \in 1 .. FrameLen(more[i]),
             further[i] + j \in 1 .. Len(stream')
      PROVE  stream'[further[i] + j] = Framing!Encoded(more[i])[j]
  <2>1. CASE i = k
    <3>3. k \in 1 .. k
      BY <1>1, <1>3
    <3>4. more[i] = b /\ further[i] = Len(stream)
      BY <1>2, <1>3, <1>5, <2>1, <3>3
    <3>1. more[i] = b /\ further[i] = Len(stream) /\ j \in Nat
      BY <1>3, <3>4
    <3>2. j \in 1 .. Len(part)
      BY <1>3, <1>4, <1>16, <1>8, <3>1
    <3> QED
      BY <1>16, <3>1, <3>2
  <2>2. CASE i # k
    <3>1. i \in Len(received) + 1 .. Len(ms) /\ i \in 1 .. Len(ms) /\ i \in 1 .. k /\ i + 1 \in 1 .. k
      BY <1>1, <1>2, <1>3, <1>4, <2>2
    <3>2. more[i] = ms[i] /\ further[i] = start[i] /\ start[i] \in Int
      BY <1>1, <1>2, <1>5, <3>1
    <3>3. start[i] + FrameLen(ms[i]) <= Len(stream)
      <4> DEFINE S == {d \in Nat : d < k => start[k - d] <= Len(stream)}
      <4>1. 0 \in S
        BY <1>3, <1>4
      <4>2. ASSUME NEW d \in Nat, d \in S PROVE d + 1 \in S
        <5> SUFFICES ASSUME d + 1 < k PROVE start[k - (d + 1)] <= Len(stream)
          OBVIOUS
        <5> DEFINE m == k - (d + 1)
        <5>1. m \in 1 .. Len(ms) /\ m + 1 = k - d /\ d < k /\ m \in 1 .. Len(ms) + 1 /\ m + 1 \in 1 .. Len(ms) + 1
          BY <1>1, <1>3
        <5>2. start[k - d] <= Len(stream)
          BY <4>2, <5>1
        <5> HIDE DEF m
        <5>3. start[m + 1] = start[m] + FrameLen(ms[m]) /\ start[m] \in Int /\ start[m + 1] \in Int
          BY <1>1, <5>1
        <5>4. FrameLen(ms[m]) \in Nat
          <6>1. ms[m] \in Framing!Bodies
            BY <1>1, <5>1
          <6> QED
            BY <6>1, BodyType
        <5>5. start[m] <= Len(stream)
          <6>1. PICK f \in Nat : f = FrameLen(ms[m])
            BY <5>4
          <6>2. start[m + 1] = start[m] + f /\ start[m + 1] <= Len(stream)
            BY <5>1, <5>2, <5>3, <6>1
          <6> QED
            BY <1>4, <5>3, <6>2
        <5> QED
          BY <5>5 DEF m
      <4>3. k - (i + 1) \in S
        <5>1. k - (i + 1) \in Nat
          BY <1>3, <3>1
        <5> HIDE DEF S
        <5> QED
          BY <4>1, <4>2, <5>1, Induction
      <4>4. k - (k - (i + 1)) = i + 1 /\ k - (i + 1) < k
        BY <1>3, <3>1
      <4>5. start[i + 1] <= Len(stream)
        BY <4>3, <4>4
      <4> QED
        BY <1>1, <3>1, <4>5
    <3>4. FrameLen(ms[i]) \in Nat /\ j \in 1 .. FrameLen(ms[i])
      BY <1>1, <3>1, <3>2, BodyType
    <3> DEFINE p == start[i] + j
    <3>5. p \in 1 .. Len(stream)
      BY <1>4, <1>8, <3>2, <3>3, <3>4
    <3>6. stream[p] = Framing!Encoded(ms[i])[j]
      BY <1>1, <3>1, <3>4, <3>5
    <3>7. p = further[i] + j
      BY <3>2
    <3> HIDE DEF p
    <3> QED
      BY <1>16, <3>2, <3>5, <3>6, <3>7
  <2> QED
    BY <2>1, <2>2
<1>9. Len(more) + 1 = k + 1
  BY <1>2
<1>10. Len(part) = FrameLen(b) => Len(stream') = further[k + 1]
  BY <1>3, <1>4, <1>5, <1>16
<1>11. Len(part) < FrameLen(b) => Len(stream') < further[k + 1]
  BY <1>3, <1>4, <1>5, <1>16
<1>12. \A i \in Len(received) + 1 .. Len(more) : \A j \in 1 .. FrameLen(more[i]) :
         further[i] + j \in 1 .. Len(stream') => stream'[further[i] + j] = Framing!Encoded(more[i])[j]
  BY <1>8
<1> QED
  BY <1>2, <1>3, <1>6, <1>7, <1>9, <1>10, <1>11, <1>12, <1>16, Zenon DEF more, further

\* A message that leaves the client whole.
LEMMA SendKeeps ==
  ASSUME Framing!FramingAssumption, FramingInv, NEW b \in Framing!Bodies, Framing!Send(b)
  PROVE  FramingInv'
<1>1. PICK ms, start : Framed(ms, start)
  BY DEF FramingInv
<1>2. FramingTypes
  BY DEF FramingInv
<1>3. /\ sender = "up" /\ sent' = Append(sent, b) /\ stream' = stream \o Framing!Encoded(b)
      /\ UNCHANGED <<sender, receiver, field, msg_length, got, received>>
  BY DEF Framing!Send, Framing!serverVars
<1> DEFINE e == Framing!Encoded(b)
           more == Append(ms, b)
           further == [i \in 1 .. Len(more) + 1 |->
                         IF i = Len(more) + 1 THEN start[Len(ms) + 1] + FrameLen(b) ELSE start[i]]
<1>4. e \in Seq(Framing!Byte) /\ Len(e) = FrameLen(b) /\ FrameLen(b) \in Nat
  BY EncodedIs, BodyType
<1>5. /\ more \in Seq(Framing!Bodies) /\ Len(more) = Len(ms) + 1
      /\ \A i \in 1 .. Len(ms) : more[i] = ms[i]
      /\ more[Len(ms) + 1] = b
      /\ Starts(more, further) /\ Reading(more, further)'
      /\ \A i \in Len(received) + 1 .. Len(more) : \A j \in 1 .. FrameLen(more[i]) :
           further[i] + j \in 1 .. Len(stream') =>
             stream'[further[i] + j] = Framing!Encoded(more[i])[j]
      /\ stream' \in Seq(Framing!Byte)
      /\ Len(e) = FrameLen(b) => Len(stream') = further[Len(more) + 1]
      /\ Len(e) < FrameLen(b) => Len(stream') < further[Len(more) + 1]
  <2>1. stream' = stream \o e /\ Len(e) <= FrameLen(b) /\ \A j \in 1 .. Len(e) : e[j] = Framing!Encoded(b)[j]
    BY <1>3, <1>4
  <2> HIDE DEF e
  <2> QED
    BY <1>1, <1>2, <1>3, <1>4, <2>1, OneFrame
<1> HIDE DEF e, further, more
<1>6. /\ ms \in Seq(Framing!Bodies) /\ Len(ms) = Len(sent) /\ Len(ms) \in Nat
      /\ \A i \in 1 .. Len(sent) : sent[i] = ms[i]
      /\ Len(received) <= Len(sent) /\ \A i \in 1 .. Len(received) : received[i] = ms[i]
      /\ sent \in Seq(Framing!Bodies) /\ Len(received) \in Nat
  BY <1>1, <1>2, <1>3 DEF Framed, Begun, Arrivals, FramingTypes
<1>7. /\ sent' \in Seq(Framing!Bodies) /\ Len(sent') = Len(ms) + 1
      /\ \A i \in 1 .. Len(ms) : sent'[i] = sent[i]
      /\ sent'[Len(ms) + 1] = b
  BY <1>3, <1>6, AppendProperties
<1>8. FramingTypes'
  BY <1>2, <1>3, <1>5, <1>7 DEF FramingTypes, Framing!Size
<1>9. Begun(more)'
  <2>0. PICK N \in Nat : N = Len(ms)
    BY <1>6
  <2>1. ASSUME NEW i \in 1 .. N + 1 PROVE sent'[i] = more[i]
    <3>1. CASE i \in 1 .. N
      <4>1. sent'[i] = sent[i] /\ more[i] = ms[i]
        BY <1>5, <1>7, <2>0, <3>1
      <4>2. sent[i] = ms[i]
        BY <1>6, <2>0, <3>1
      <4> QED
        BY <4>1, <4>2
    <3>2. CASE i \notin 1 .. N
      <4>1. i = N + 1
        BY <3>2
      <4> QED
        BY <1>5, <1>7, <2>0, <4>1
    <3> QED
      BY <3>1, <3>2
  <2>2. \A i \in 1 .. Len(sent') : sent'[i] = more[i]
    BY <1>7, <2>0, <2>1
  <2>3. more \in Seq(Framing!Bodies) /\ Len(sent') = Len(more)
    BY <1>5, <1>7
  <2>4. Len(sent') <= Len(more) /\ Len(more) <= Len(sent') + 1
    BY <1>6, <1>7, <2>3
  <2> QED
    BY <2>2, <2>3, <2>4 DEF Begun
<1>10. OnWire(more, further)'
  BY <1>3, <1>4, <1>5, <1>7 DEF OnWire
<1>11. Arrivals(more)'
  <2>1. PICK N \in Nat, R \in Nat : N = Len(ms) /\ R = Len(received) /\ R <= N
    BY <1>6
  <2>2. received' = received /\ \A i \in 1 .. R : i \in 1 .. N
    BY <1>3, <2>1
  <2>3. \A i \in 1 .. R : received[i] = ms[i] /\ more[i] = ms[i]
    BY <1>5, <1>6, <2>1, <2>2
  <2>4. Len(received) <= Len(sent')
    BY <1>7, <2>1
  <2> QED
    BY <2>1, <2>2, <2>3, <2>4 DEF Arrivals
<1>12. Starts(more, further)'
  BY <1>5 DEF Starts
<1> QED
  BY <1>5, <1>8, <1>9, <1>10, <1>11, <1>12 DEF FramingInv, Framed

\* A message that is cut off.
LEMMA KillKeeps ==
  ASSUME Framing!FramingAssumption, FramingInv, NEW b \in Framing!Bodies, Framing!Kill(b)
  PROVE  FramingInv'
<1>1. PICK ms, start : Framed(ms, start)
  BY DEF FramingInv
<1>2. FramingTypes
  BY DEF FramingInv
<1> DEFINE e == Framing!Encoded(b)
<1>3. PICK n \in 1 .. Len(e) - 1 : stream' = stream \o SubSeq(e, 1, n)
  BY DEF Framing!Kill
<1>4. sender = "up" /\ sender' = "fin" /\ UNCHANGED <<sent, receiver, field, msg_length, got, received>>
  BY DEF Framing!Kill, Framing!serverVars
<1> DEFINE part == SubSeq(e, 1, n)
           more == Append(ms, b)
           further == [i \in 1 .. Len(more) + 1 |->
                         IF i = Len(more) + 1 THEN start[Len(ms) + 1] + FrameLen(b) ELSE start[i]]
<1>5. e \in Seq(Framing!Byte) /\ Len(e) = FrameLen(b) /\ FrameLen(b) \in Nat
  BY EncodedIs, BodyType
<1>6. part \in Seq(Framing!Byte) /\ Len(part) < FrameLen(b) /\ \A j \in 1 .. Len(part) : part[j] = e[j]
  <2> HIDE DEF e
  <2>1. n \in 1 .. Len(e) /\ n < Len(e)
    BY <1>5
  <2> QED
    BY <1>5, <2>1, FrontAndRest
<1>7. /\ more \in Seq(Framing!Bodies) /\ Len(more) = Len(ms) + 1
      /\ \A i \in 1 .. Len(ms) : more[i] = ms[i]
      /\ more[Len(ms) + 1] = b
      /\ Starts(more, further) /\ Reading(more, further)'
      /\ \A i \in Len(received) + 1 .. Len(more) : \A j \in 1 .. FrameLen(more[i]) :
           further[i] + j \in 1 .. Len(stream') =>
             stream'[further[i] + j] = Framing!Encoded(more[i])[j]
      /\ stream' \in Seq(Framing!Byte)
      /\ Len(part) = FrameLen(b) => Len(stream') = further[Len(more) + 1]
      /\ Len(part) < FrameLen(b) => Len(stream') < further[Len(more) + 1]
  <2>1. stream' = stream \o part /\ Len(part) <= FrameLen(b)
        /\ \A j \in 1 .. Len(part) : part[j] = Framing!Encoded(b)[j]
    BY <1>3, <1>5, <1>6
  <2> HIDE DEF part
  <2> QED
    BY <1>1, <1>2, <1>4, <1>6, <2>1, OneFrame
<1> HIDE DEF e, part, further, more
<1>8. /\ ms \in Seq(Framing!Bodies) /\ Len(ms) = Len(sent) /\ Len(ms) \in Nat
      /\ \A i \in 1 .. Len(sent) : sent[i] = ms[i]
      /\ Len(received) <= Len(sent) /\ \A i \in 1 .. Len(received) : received[i] = ms[i]
      /\ Len(received) \in Nat
  <2>1. Begun(ms) /\ Arrivals(ms)
    BY <1>1 DEF Framed
  <2>2. received \in Seq(Framing!Bodies)
    BY <1>2 DEF FramingTypes
  <2>3. ms \in Seq(Framing!Bodies) /\ Len(ms) = Len(sent)
        /\ \A i \in 1 .. Len(sent) : sent[i] = ms[i]
    BY <1>4, <2>1 DEF Begun
  <2>4. Len(received) <= Len(sent) /\ \A i \in 1 .. Len(received) : received[i] = ms[i]
    BY <2>1 DEF Arrivals
  <2>5. Len(ms) \in Nat /\ Len(received) \in Nat
    BY <2>2, <2>3
  <2> QED
    BY <2>3, <2>4, <2>5
<1>9. FramingTypes'
  BY <1>2, <1>4, <1>7 DEF FramingTypes, Framing!Size
<1>10. Begun(more)'
  BY <1>4, <1>7, <1>8 DEF Begun
<1>11. OnWire(more, further)'
  BY <1>4, <1>6, <1>7, <1>8 DEF OnWire
<1>12. Arrivals(more)'
  BY <1>4, <1>7, <1>8 DEF Arrivals
<1>13. Starts(more, further)'
  BY <1>7 DEF Starts
<1> QED
  BY <1>7, <1>9, <1>10, <1>11, <1>12, <1>13 DEF FramingInv, Framed

\* Steps that neither send nor read a byte.
LEMMA EndKeeps ==
  ASSUME FramingInv,
         Framing!EndOfStream \/ Framing!ReadFails \/ Framing!Close \/ Framing!Reset \/ UNCHANGED Framing!vars
  PROVE  FramingInv'
<1>1. PICK ms, start : Framed(ms, start)
  BY DEF FramingInv
<1>2. FramingTypes
  BY DEF FramingInv
<1>3. /\ UNCHANGED <<sent, stream, field, msg_length, got, received>>
      /\ sender' \in {sender, "fin", "reset"}
      /\ receiver' \in {receiver, "closed", "error"}
  BY DEF Framing!EndOfStream, Framing!ReadFails, Framing!Close, Framing!Reset, Framing!vars,
         Framing!clientVars, Framing!serverVars
<1>4. FramingTypes'
  BY <1>2, <1>3 DEF FramingTypes, Framing!Size
<1>5. Begun(ms)'
  BY <1>1, <1>3 DEF Framed, Begun
<1>6. Starts(ms, start)' /\ OnWire(ms, start)' /\ Arrivals(ms)'
  BY <1>1, <1>3 DEF Framed, Starts, OnWire, Arrivals
<1>7. Reading(ms, start)'
  <2>1. Offset' = Offset
    BY <1>3 DEF Offset
  <2> QED
    BY <1>1, <1>3, <2>1 DEF Framed, Reading
<1> QED
  BY <1>4, <1>5, <1>6, <1>7 DEF FramingInv, Framed

LEMMA FramingKeeps ==
  ASSUME Framing!FramingAssumption, FramingInv, [Framing!Next]_(Framing!vars)
  PROVE  FramingInv'
<1>1. CASE Framing!Server
  <2>1. CASE Framing!EndOfStream \/ Framing!ReadFails
    BY <2>1, EndKeeps
  <2>2. CASE \E n \in 1 .. Width + BufSize :
               Framing!ReadSome(n) \/ Framing!LengthRead(n) \/ Framing!TypeRead(n) \/ Framing!BodyRead(n)
    BY <2>2, ReadKeeps, LengthKeeps, TypeKeeps, BodyKeeps
  <2> QED
    BY <1>1, <2>1, <2>2 DEF Framing!Server
<1>2. CASE \E b \in Framing!Bodies : Framing!Send(b) \/ Framing!Kill(b)
  BY <1>2, SendKeeps, KillKeeps
<1>3. CASE Framing!Close \/ Framing!Reset \/ UNCHANGED Framing!vars
  BY <1>3, EndKeeps
<1> QED
  BY <1>1, <1>2, <1>3 DEF Framing!Next

LEMMA FramingSafe == ASSUME Framing!FramingAssumption, FramingInv PROVE ReceivedIsPrefix
<1>1. PICK ms, start : Framed(ms, start)
  BY DEF FramingInv
<1>2. FramingTypes
  BY DEF FramingInv
<1>3. Framing!TypeOK
  <2>1. Framing!Power[Width] \in Nat
    BY PowerSteps DEF Framing!FramingAssumption
  <2>2. msg_length \in 0 .. Framing!Power[Width] - 1
    BY <1>2, <2>1 DEF FramingTypes
  <2> QED
    BY <1>2, <2>2 DEF FramingTypes, Framing!TypeOK
<1>4. /\ received \in Seq(Framing!Bodies) /\ sent \in Seq(Framing!Bodies)
      /\ Len(received) <= Len(sent) /\ \A i \in 1 .. Len(received) : received[i] = sent[i]
  BY <1>1, <1>2 DEF Framed, Begun, Arrivals, FramingTypes
<1>5. Framing!IsPrefix(received, sent)
  BY <1>4, SameIsPrefix
<1> QED
  BY <1>3, <1>5 DEF ReceivedIsPrefix, Framing!ReceivedIsPrefix

\* However TCP cuts and joins the bytes, and wherever the client is killed, the
\* server has the messages as they were sent, whole and in order, for every
\* number of messages, length of a message and width of its length.
THEOREM FramesSurviveCuts ==
  ASSUME Framing!FramingAssumption PROVE Framing!Spec => []ReceivedIsPrefix
<1>1. Framing!Init => FramingInv
  BY FramingStarts
<1>2. FramingInv /\ [Framing!Next]_(Framing!vars) => FramingInv'
  BY FramingKeeps
<1>3. FramingInv => ReceivedIsPrefix
  BY FramingSafe
<1> QED
  BY <1>1, <1>2, <1>3, PTL DEF Framing!Spec

-----------------------------------------------------------------------------
(* HttpServer: a text that is read line by line *)

\* The ranges; a line that is not complete has room for another character.
HttpTypes ==
    /\ stage \in [Http!Conn -> {"new", "backlog", "open", "closed", "leaked"}]
    /\ peer \in [Http!Conn -> {"up", "fin", "reset", "reported"}]
    /\ text \in [Http!Conn -> Seq(Http!Char)] /\ wire \in [Http!Conn -> Seq(Http!Char)]
    /\ at \in {"accept", "line", "peek", "end", "answer"}
    /\ conn_fd \in Http!Conn \cup {NoConn}
    /\ at # "accept" => conn_fd \in Http!Conn /\ stage[conn_fd] = "open"
    /\ buf \in Seq(Http!Char \cup {"nul"}) /\ Len(buf) < HttpLine
    /\ at \in {"line", "peek"} => Len(buf) + 1 < HttpLine
    /\ at = "line" => \A i \in 1 .. Len(buf) : buf[i] # "lf"
    /\ request \in BOOLEAN /\ exited \in BOOLEAN

There(c) == peer[c] \in {"up", "fin"}
Seen(c) == Len(text[c]) - Len(wire[c])

\* What is on the wire is the end of the text, all of it before the connection is accepted.
Wires ==
    \A c \in Http!Conn : There(c) =>
        /\ Seen(c) \in Nat
        /\ \A i \in 1 .. Len(wire[c]) : wire[c][i] = text[c][Seen(c) + i]
        /\ stage[c] \in {"new", "backlog"} => Seen(c) = 0

\* An empty line ends at k; none does up to n; the only one up to n is the last.
EmptyAt(t, k) == t[k] # "other" /\ t[k - 1] # "other" /\ ~Http!Joins(t, k)
NoneEmpty(t, n) == \A k \in 2 .. n : ~EmptyAt(t, k)
LastEmpty(t, n) ==
    \E k \in 2 .. n :
        /\ EmptyAt(t, k) /\ \A j \in 2 .. n : EmptyAt(t, j) => j = k
        /\ k = n \/ (k + 1 = n /\ Http!Joins(t, n))

\* No line is cut up to n.
FitsUpTo(t, n) ==
    \A k \in 0 .. n - (HttpLine - 1) : \E j \in k + 1 .. k + (HttpLine - 1) : t[j] # "other"

\* A line may begin behind m: a LF that follows a CR has been taken with it.
Clean(t, m, open) ==
    m > 0 /\ t[m] = "cr" => IF m < Len(t) THEN t[m + 1] # "lf" ELSE ~open

Begins(t, p, open) ==
    /\ IF p = 0 THEN request = TRUE ELSE request = FALSE
    /\ p > 0 => t[p] # "other"
    /\ Clean(t, p, open)

\* What buf holds is the line that began behind p.
InLine(t, n, open) ==
    /\ at = "line" => \E p \in 0 .. n :
         /\ Len(buf) = n - p /\ \A j \in p + 1 .. n : t[j] = "other"
         /\ NoneEmpty(t, n) /\ Begins(t, p, open)
    /\ at = "peek" => \E p \in 0 .. n - 1 :
         /\ Len(buf) = (n - 1) - p /\ (\A j \in p + 1 .. n - 1 : t[j] = "other") /\ t[n] = "cr"
         /\ NoneEmpty(t, n - 1) /\ Begins(t, p, open)
    /\ at = "end" =>
         /\ buf # <<>> /\ n > 0 /\ t[n] # "other"
         /\ IF buf = <<"lf">> /\ request = FALSE
            THEN LastEmpty(t, n) ELSE NoneEmpty(t, n) /\ Clean(t, n, open)
    /\ at = "answer" => LastEmpty(t, n)

\* The client has left before its empty line: no line that is read ever is empty.
Spinning(c) ==
    /\ peer[c] = "fin" /\ wire[c] = <<>> /\ at \in {"line", "end"}
    /\ \A i \in 1 .. Len(buf) : buf[i] # "lf"
    /\ at = "end" => buf # <<>>

LinesTrue ==
    at # "accept" /\ There(conn_fd) /\ FitsUpTo(text[conn_fd], Seen(conn_fd)) =>
        Spinning(conn_fd) \/ InLine(text[conn_fd], Seen(conn_fd), peer[conn_fd] = "up")

HttpInv == HttpTypes /\ Wires /\ LinesTrue

\* What fits with a character more fits without it.
LEMMA FitsBefore ==
  ASSUME Http!HttpAssumption, NEW t, NEW n \in Nat, FitsUpTo(t, n + 1)
  PROVE  FitsUpTo(t, n)
<1>1. HttpLine \in Nat
  BY DEF Http!HttpAssumption
<1>2. \A k \in 0 .. n - (HttpLine - 1) : k \in 0 .. (n + 1) - (HttpLine - 1)
  BY <1>1
<1> QED
  BY <1>2 DEF FitsUpTo

\* What is said of the first n characters depends on them only.
LEMMA SameBefore ==
  ASSUME Http!HttpAssumption, NEW t, NEW u, NEW n \in Nat, \A i \in 1 .. n : u[i] = t[i]
  PROVE  /\ FitsUpTo(u, n) => FitsUpTo(t, n)
         /\ \A m \in 0 .. n : NoneEmpty(t, m) => NoneEmpty(u, m)
         /\ LastEmpty(t, n) => LastEmpty(u, n)
<1>1. HttpLine \in Nat \ {0, 1}
  BY DEF Http!HttpAssumption
<1>2. ASSUME FitsUpTo(u, n) PROVE FitsUpTo(t, n)
  <2> SUFFICES ASSUME NEW k \in 0 .. n - (HttpLine - 1)
               PROVE  \E j \in k + 1 .. k + (HttpLine - 1) : t[j] # "other"
    BY DEF FitsUpTo
  <2>1. PICK j \in k + 1 .. k + (HttpLine - 1) : u[j] # "other"
    BY <1>2 DEF FitsUpTo
  <2>2. j \in 1 .. n
    BY <1>1
  <2> QED
    BY <2>1, <2>2
<1>3. \A k \in 2 .. n : EmptyAt(u, k) <=> EmptyAt(t, k)
  <2> TAKE k \in 2 .. n
  <2>1. u[k] = t[k] /\ u[k - 1] = t[k - 1]
    OBVIOUS
  <2> QED
    BY <2>1 DEF EmptyAt, Http!Joins
<1>4. \A k \in 2 .. n : Http!Joins(u, k) <=> Http!Joins(t, k)
  <2> TAKE k \in 2 .. n
  <2>1. u[k] = t[k] /\ u[k - 1] = t[k - 1]
    OBVIOUS
  <2> QED
    BY <2>1 DEF Http!Joins
<1>5. ASSUME NEW m \in 0 .. n, NoneEmpty(t, m) PROVE NoneEmpty(u, m)
  BY <1>3, <1>5 DEF NoneEmpty
<1>6. ASSUME LastEmpty(t, n) PROVE LastEmpty(u, n)
  <2>1. PICK k \in 2 .. n : /\ EmptyAt(t, k) /\ \A j \in 2 .. n : EmptyAt(t, j) => j = k
                            /\ k = n \/ (k + 1 = n /\ Http!Joins(t, n))
    BY <1>6 DEF LastEmpty
  <2>2. n \in 2 .. n
    OBVIOUS
  <2> QED
    BY <1>3, <1>4, <2>1, <2>2 DEF LastEmpty
<1> QED
  BY <1>2, <1>5, <1>6

\* A character more or less behind those received.
LEMMA MoreText ==
  ASSUME Http!HttpAssumption, NEW t \in Seq(Http!Char), NEW x \in Http!Char, NEW n \in 0 .. Len(t),
         InLine(t, n, TRUE)
  PROVE  InLine(Append(t, x), n, TRUE)
<1> DEFINE u == Append(t, x)
<1>1. Len(t) \in Nat /\ Len(u) = Len(t) + 1 /\ \A i \in 1 .. Len(t) : u[i] = t[i]
  BY AppendProperties
<1> HIDE DEF u
<1>2. n \in Nat /\ \A i \in 1 .. n : u[i] = t[i]
  BY <1>1
<1>3. ASSUME NEW m \in 0 .. n, Clean(t, m, TRUE) PROVE Clean(u, m, TRUE)
  <2> SUFFICES ASSUME m > 0, u[m] = "cr" PROVE m < Len(u) /\ u[m + 1] # "lf"
    BY DEF Clean
  <2>1. m \in 1 .. n /\ t[m] = "cr"
    BY <1>2
  <2>2. m < Len(t) /\ t[m + 1] # "lf"
    BY <1>3, <2>1 DEF Clean
  <2>3. m + 1 \in 1 .. Len(t)
    BY <1>1, <2>1, <2>2
  <2> QED
    BY <1>1, <2>1, <2>2, <2>3
<1>4. ASSUME NEW p \in 0 .. n, Begins(t, p, TRUE) PROVE Begins(u, p, TRUE)
  <2>1. p > 0 => p \in 1 .. n
    OBVIOUS
  <2> QED
    BY <1>2, <1>3, <1>4, <2>1 DEF Begins
<1>5. \A m \in 0 .. n : NoneEmpty(t, m) => NoneEmpty(u, m)
  BY <1>2, SameBefore
<1>6. LastEmpty(t, n) => LastEmpty(u, n)
  BY <1>2, SameBefore
<1>7. CASE at = "line"
  <2>1. PICK p \in 0 .. n :
         /\ Len(buf) = n - p /\ \A j \in p + 1 .. n : t[j] = "other"
         /\ NoneEmpty(t, n) /\ Begins(t, p, TRUE)
    BY <1>7 DEF InLine
  <2>2. \A j \in p + 1 .. n : u[j] = "other"
    BY <1>2, <2>1
  <2>4. n \in 0 .. n
    BY <1>2
  <2>3. NoneEmpty(u, n) /\ Begins(u, p, TRUE)
    BY <1>4, <1>5, <2>1, <2>4
  <2> QED
    BY <1>7, <2>1, <2>2, <2>3 DEF InLine, u
<1>8. CASE at = "peek"
  <2>1. PICK p \in 0 .. n - 1 :
         /\ Len(buf) = (n - 1) - p /\ (\A j \in p + 1 .. n - 1 : t[j] = "other") /\ t[n] = "cr"
         /\ NoneEmpty(t, n - 1) /\ Begins(t, p, TRUE)
    BY <1>8 DEF InLine
  <2>2. n - 1 \in 0 .. n /\ p \in 0 .. n /\ n \in 1 .. n /\ \A j \in p + 1 .. n - 1 : j \in 1 .. n
    BY <1>2
  <2>3. (\A j \in p + 1 .. n - 1 : u[j] = "other") /\ u[n] = "cr"
    BY <1>2, <2>1, <2>2
  <2>4. NoneEmpty(u, n - 1) /\ Begins(u, p, TRUE)
    BY <1>4, <1>5, <2>1, <2>2
  <2> QED
    BY <1>8, <2>1, <2>3, <2>4 DEF InLine, u
<1>9. CASE at = "end"
  <2>1. n \in 1 .. n /\ n \in 0 .. n
    BY <1>2, <1>9 DEF InLine
  <2> QED
    BY <1>2, <1>3, <1>5, <1>6, <1>9, <2>1 DEF InLine, u
<1>10. CASE at \notin {"line", "peek", "end"}
  BY <1>6, <1>10 DEF InLine, u
<1> QED
  BY <1>7, <1>8, <1>9, <1>10

\* Nobody sends any more.
LEMMA LessOpen ==
  ASSUME NEW t, NEW n, NEW open, InLine(t, n, open)
  PROVE  InLine(t, n, FALSE)
<1>1. \A m : Clean(t, m, open) => Clean(t, m, FALSE)
  BY DEF Clean
<1>2. \A p : Begins(t, p, open) => Begins(t, p, FALSE)
  BY <1>1 DEF Begins
<1> QED
  BY <1>1, <1>2 DEF InLine

\* A character that belongs to no line end, or ends nothing, ends no empty line.
\* No empty line, and none that ends with the next character.
LEMMA OneMoreCharacter ==
  ASSUME NEW t, NEW n \in Nat, NoneEmpty(t, n), ~EmptyAt(t, n + 1)
  PROVE  NoneEmpty(t, n + 1)
BY DEF NoneEmpty

\* read_line takes a CR, and looks what follows.
LEMMA CrInLine ==
  ASSUME NEW t, NEW n \in Nat, NEW open, at = "line", InLine(t, n, open),
         t[n + 1] = "cr", at' = "peek", UNCHANGED <<buf, request>>
  PROVE  InLine(t, n + 1, open)'
<1>1. PICK p \in 0 .. n :
         /\ Len(buf) = n - p /\ \A j \in p + 1 .. n : t[j] = "other"
         /\ NoneEmpty(t, n) /\ Begins(t, p, open)
  BY DEF InLine
<1> DEFINE m == n + 1
<1>2. m - 1 = n /\ m \in Nat
  OBVIOUS
<1>3. Begins(t, p, open)'
  BY <1>1 DEF Begins, Clean
<1> HIDE DEF m
<1>4. p \in 0 .. m - 1 /\ Len(buf') = (m - 1) - p /\ (\A j \in p + 1 .. m - 1 : t[j] = "other")
      /\ t[m] = "cr" /\ NoneEmpty(t, m - 1)
  BY <1>1, <1>2 DEF m
<1> QED
  BY <1>3, <1>4 DEF InLine, m, NoneEmpty, EmptyAt, Http!Joins

\* read_line takes any other character; a LF ends the line.
LEMMA CharInLine ==
  ASSUME Http!HttpAssumption, HttpTypes, NEW t \in Seq(Http!Char), NEW n \in Nat, n < Len(t), NEW open,
         at = "line", InLine(t, n, open), FitsUpTo(t, n + 1),
         t[n + 1] # "cr", Http!Put(t[n + 1])
  PROVE  InLine(t, n + 1, open)'
<1>1. PICK p \in 0 .. n :
         /\ Len(buf) = n - p /\ \A j \in p + 1 .. n : t[j] = "other"
         /\ NoneEmpty(t, n) /\ Begins(t, p, open)
  BY DEF InLine
<1> DEFINE m == n + 1
           x == t[m]
<1>2. m \in 1 .. Len(t) /\ m \in Nat /\ m - 1 = n /\ p \in Nat
  <2>1. Len(t) \in Nat
    OBVIOUS
  <2> QED
    BY <2>1
<1>3. x \in {"other", "lf"}
  BY <1>2 DEF Http!Char
<1>4. /\ buf' = Append(buf, x) /\ UNCHANGED request
      /\ at' = IF x = "lf" \/ Len(buf) + 1 = HttpLine - 1 THEN "end" ELSE "line"
  BY DEF Http!Put
<1>5. HttpLine \in Nat \ {0, 1} /\ buf \in Seq(Http!Char \cup {"nul"}) /\ Len(buf) \in Nat
  BY DEF HttpTypes, Http!HttpAssumption
<1>6. /\ Len(buf') = Len(buf) + 1 /\ buf'[Len(buf) + 1] = x /\ buf' # <<>>
      /\ \A i \in 1 .. Len(buf) : buf'[i] = buf[i]
  <2>1. x \in Http!Char \cup {"nul"}
    BY <1>3 DEF Http!Char
  <2> HIDE DEF x
  <2> QED
    BY <1>4, <1>5, <2>1, AppendProperties
<1> HIDE DEF x
<1>7. CASE x = "other"
  <2>1. ASSUME Len(buf) + 1 = HttpLine - 1 PROVE FALSE
    <3>1. p \in 0 .. m - (HttpLine - 1) /\ p + (HttpLine - 1) = m
      BY <1>1, <1>2, <1>5, <2>1
    <3>2. PICK j \in p + 1 .. p + (HttpLine - 1) : t[j] # "other"
      BY <3>1 DEF FitsUpTo, m
    <3>3. j \in p + 1 .. n \/ j = m
      BY <1>2, <3>1
    <3> QED
      BY <1>1, <1>7, <3>2, <3>3 DEF x
  <2>2. at' = "line"
    BY <1>4, <1>7, <2>1
  <2>3. ~EmptyAt(t, n + 1)
    BY <1>7 DEF EmptyAt, x, m
  <2>4. NoneEmpty(t, m)
    BY <1>1, <2>3, OneMoreCharacter DEF m
  <2>5. \A j \in p + 1 .. m : t[j] = "other"
    <3> TAKE j \in p + 1 .. m
    <3>1. j \in p + 1 .. n \/ j = m
      BY <1>2
    <3> QED
      BY <1>1, <1>7, <3>1 DEF x
  <2>6. Begins(t, p, open)'
    BY <1>1, <1>4 DEF Begins, Clean
  <2>7. p \in 0 .. m /\ Len(buf') = m - p
    BY <1>1, <1>2, <1>5, <1>6
  <2> HIDE DEF m
  <2>8. InLine(t, m, open)'
    BY <2>2, <2>4, <2>5, <2>6, <2>7 DEF InLine, NoneEmpty, EmptyAt, Http!Joins
  <2> QED
    BY <2>8 DEF m
<1>8. CASE x = "lf"
  <2>1. at' = "end"
    BY <1>4, <1>8
  <2>2. CASE p = n /\ p > 0
    <3>1. t[n] # "other" /\ request = FALSE /\ Clean(t, n, open)
      BY <1>1, <2>2 DEF Begins
    <3>2. ~Http!Joins(t, m)
      <4>1. ASSUME t[n] = "cr" PROVE t[m] # "lf"
        BY <2>2, <3>1, <4>1 DEF Clean, m
      <4> QED
        BY <1>2, <1>8, <4>1 DEF Http!Joins, x
    <3>3. EmptyAt(t, m)
      BY <1>2, <1>8, <3>1, <3>2 DEF EmptyAt, x
    <3>4. \A j \in 2 .. m : EmptyAt(t, j) => j = m
      <4> TAKE j \in 2 .. m
      <4>1. j \in 2 .. n \/ j = m
        BY <1>2
      <4> QED
        BY <1>1, <4>1 DEF NoneEmpty
    <3>5. m \in 2 .. m
      BY <1>2, <2>2
    <3>6. LastEmpty(t, m)
      BY <3>3, <3>4, <3>5 DEF LastEmpty
    <3>7. buf' = <<"lf">> /\ request' = FALSE
      <4>1. Len(buf) = 0
        BY <1>1, <2>2
      <4> QED
        BY <1>4, <1>5, <1>8, <3>1, <4>1
    <3>8. m > 0 /\ t[m] # "other"
      BY <1>2, <1>8 DEF x
    <3> HIDE DEF m
    <3>9. InLine(t, m, open)'
      BY <1>6, <2>1, <3>6, <3>7, <3>8 DEF InLine, LastEmpty, EmptyAt, Http!Joins
    <3> QED
      BY <3>9 DEF m
  <2>3. CASE ~(p = n /\ p > 0)
    <3>1. ~(buf' = <<"lf">> /\ request' = FALSE)
      <4>1. CASE p = n
        <5>1. request = TRUE
          BY <1>1, <1>2, <2>3, <4>1 DEF Begins
        <5> QED
          BY <1>4, <5>1
      <4>2. CASE p # n
        <5>1. Len(buf') # 1
          BY <1>1, <1>2, <1>5, <1>6, <4>2
        <5> QED
          BY <5>1
      <4> QED
        BY <4>1, <4>2
    <3>2. NoneEmpty(t, m)
      <4>1. CASE p = n
        <5>1. m = 1
          BY <1>2, <2>3, <4>1
        <5> QED
          BY <5>1 DEF NoneEmpty
      <4>2. CASE p # n
        <5>1. t[n] = "other"
          BY <1>1, <4>2
        <5>2. ~EmptyAt(t, n + 1)
          BY <5>1 DEF EmptyAt
        <5> QED
          BY <1>1, <5>2, OneMoreCharacter DEF m
      <4> QED
        BY <4>1, <4>2
    <3>3. Clean(t, m, open)
      BY <1>8 DEF Clean, x
    <3>4. m > 0 /\ t[m] # "other"
      BY <1>2, <1>8 DEF x
    <3> HIDE DEF m
    <3>5. InLine(t, m, open)'
      BY <1>6, <2>1, <3>1, <3>2, <3>3, <3>4 DEF InLine, NoneEmpty, EmptyAt, Http!Joins, Clean
    <3> QED
      BY <3>5 DEF m
  <2> QED
    BY <2>2, <2>3
<1> QED
  BY <1>3, <1>7, <1>8 DEF x

\* A CR ends the line, with the LF behind it or alone.
LEMMA CrEndsLine ==
  ASSUME HttpTypes, NEW t \in Seq(Http!Char), NEW n \in 0 .. Len(t), NEW open,
         at = "peek", InLine(t, n, open), Http!Put("lf"),
         NEW m \in Nat,
         \/ m = n + 1 /\ n < Len(t) /\ t[n + 1] = "lf"
         \/ m = n /\ Clean(t, n, open)
  PROVE  InLine(t, m, open)'
<1>1. PICK p \in 0 .. n - 1 :
         /\ Len(buf) = (n - 1) - p /\ (\A j \in p + 1 .. n - 1 : t[j] = "other") /\ t[n] = "cr"
         /\ NoneEmpty(t, n - 1) /\ Begins(t, p, open)
  BY DEF InLine
<1>2. n \in Nat /\ n >= 1 /\ p \in Nat
  <2>1. Len(t) \in Nat
    OBVIOUS
  <2> QED
    BY <1>1, <2>1
<1>3. buf' = Append(buf, "lf") /\ at' = "end" /\ UNCHANGED request
  BY DEF Http!Put
<1>4. buf \in Seq(Http!Char \cup {"nul"}) /\ Len(buf) \in Nat
  BY DEF HttpTypes
<1>5. Len(buf') = Len(buf) + 1 /\ buf' # <<>>
  BY <1>3, <1>4, AppendProperties DEF Http!Char
<1>6. t[m] # "other" /\ m > 0 /\ Clean(t, m, open)
  BY <1>1, <1>2 DEF Clean
<1>7. m = n \/ (m = n + 1 /\ Http!Joins(t, m) /\ ~EmptyAt(t, m))
  <2>1. m = n + 1 /\ t[n + 1] = "lf" => Http!Joins(t, m)
    BY <1>1, <1>2 DEF Http!Joins
  <2> QED
    BY <2>1 DEF EmptyAt
<1>8. CASE p = n - 1 /\ p > 0
  <2>1. t[n - 1] # "other" /\ request = FALSE
    BY <1>1, <1>8 DEF Begins
  <2>2. EmptyAt(t, n)
    BY <1>1, <2>1 DEF EmptyAt, Http!Joins
  <2>3. \A j \in 2 .. m : EmptyAt(t, j) => j = n
    <3> TAKE j \in 2 .. m
    <3>1. j \in 2 .. n - 1 \/ j = n \/ (j = m /\ m = n + 1)
      BY <1>2, <1>7
    <3> QED
      BY <1>1, <1>7, <3>1 DEF NoneEmpty
  <2>4. n \in 2 .. m
    BY <1>2, <1>7, <1>8
  <2>5. LastEmpty(t, m)
    BY <1>7, <2>2, <2>3, <2>4 DEF LastEmpty
  <2>6. buf' = <<"lf">> /\ request' = FALSE
    <3>1. Len(buf) = 0
      BY <1>1, <1>2, <1>8
    <3> QED
      BY <1>3, <1>4, <2>1, <3>1
  <2> QED
    BY <1>3, <1>5, <1>6, <2>5, <2>6 DEF InLine, LastEmpty, EmptyAt, Http!Joins
<1>9. CASE ~(p = n - 1 /\ p > 0)
  <2>1. ~(buf' = <<"lf">> /\ request' = FALSE)
    <3>1. CASE p = n - 1
      <4>1. request = TRUE
        BY <1>1, <1>2, <1>9, <3>1 DEF Begins
      <4> QED
        BY <1>3, <4>1
    <3>2. CASE p # n - 1
      <4>1. Len(buf') # 1
        BY <1>1, <1>2, <1>4, <1>5, <3>2
      <4> QED
        BY <4>1
    <3> QED
      BY <3>1, <3>2
  <2>2. n \in 2 .. n => ~EmptyAt(t, n)
    <3> SUFFICES ASSUME n >= 2 PROVE ~EmptyAt(t, n)
      BY <1>2
    <3>1. p # n - 1
      BY <1>2, <1>9
    <3>2. n - 1 \in p + 1 .. n - 1
      BY <1>1, <1>2, <3>1
    <3>3. t[n - 1] = "other"
      BY <1>1, <3>2
    <3> QED
      BY <3>3 DEF EmptyAt
  <2>3. NoneEmpty(t, m)
    <3> SUFFICES ASSUME NEW j \in 2 .. m PROVE ~EmptyAt(t, j)
      BY DEF NoneEmpty
    <3>1. j \in 2 .. n - 1 \/ (j = n /\ n \in 2 .. n) \/ (j = m /\ m = n + 1)
      BY <1>2, <1>7
    <3> QED
      BY <1>1, <1>2, <1>7, <2>2, <3>1 DEF NoneEmpty
  <2> QED
    BY <1>3, <1>5, <1>6, <2>1, <2>3 DEF InLine, NoneEmpty, EmptyAt, Http!Joins, Clean
<1> QED
  BY <1>8, <1>9

\* The line that ended was not the empty one: another begins.
LEMMA LineBegins ==
  ASSUME NEW t, NEW n \in Nat, NEW open, at = "end", InLine(t, n, open),
         ~(buf = <<"lf">> /\ request = FALSE), Http!NextLine
  PROVE  InLine(t, n, open)'
<1>1. n > 0 /\ t[n] # "other" /\ NoneEmpty(t, n) /\ Clean(t, n, open)
  BY DEF InLine
<1>2. at' = "line" /\ buf' = <<>> /\ request' = FALSE
  BY DEF Http!NextLine
<1>3. Begins(t, n, open)'
  BY <1>1, <1>2 DEF Begins, Clean
<1>4. n \in 0 .. n /\ Len(buf') = n - n /\ \A j \in n + 1 .. n : t[j] = "other"
  BY <1>2
<1> QED
  BY <1>1, <1>2, <1>3, <1>4 DEF InLine, NoneEmpty, EmptyAt, Http!Joins

\* Before the first connection.
LEMMA HttpStarts == ASSUME Http!HttpAssumption PROVE Http!Init => HttpInv
<1> SUFFICES ASSUME Http!Init PROVE HttpInv
  OBVIOUS
<1> USE DEF Http!Init
<1>1. HttpTypes
  <2>1. HttpLine \in Nat \ {0, 1} /\ Len(buf) = 0 /\ buf \in Seq(Http!Char \cup {"nul"})
    BY DEF Http!HttpAssumption
  <2>2. /\ stage \in [Http!Conn -> {"new", "backlog", "open", "closed", "leaked"}]
        /\ peer \in [Http!Conn -> {"up", "fin", "reset", "reported"}]
        /\ text \in [Http!Conn -> Seq(Http!Char)] /\ wire \in [Http!Conn -> Seq(Http!Char)]
    OBVIOUS
  <2>3. at = "accept" /\ conn_fd \in Http!Conn \cup {NoConn}
    OBVIOUS
  <2>4. request \in BOOLEAN /\ exited \in BOOLEAN
    OBVIOUS
  <2>5. Len(buf) < HttpLine
    BY <2>1
  <2>6. HttpTypes
    BY ONLY <2>1, <2>2, <2>3, <2>4, <2>5 DEF HttpTypes
  <2> QED
    BY <2>6
<1>2. Wires
  BY DEF Wires, Seen
<1>3. LinesTrue
  BY DEF LinesTrue
<1> QED
  BY <1>1, <1>2, <1>3 DEF HttpInv

\* Where the texts and the buffer are the same, and the client of the connection
\* that is served still may send, or could not before, nothing changes.
LEMMA SameLines ==
  ASSUME HttpInv, UNCHANGED <<at, conn_fd, buf, request>>,
         at # "accept" => /\ text'[conn_fd] = text[conn_fd] /\ wire'[conn_fd] = wire[conn_fd]
                          /\ peer'[conn_fd] # peer[conn_fd] => peer'[conn_fd] \in {"reset", "reported"}
                                                               \/ (peer[conn_fd] = "up" /\ peer'[conn_fd] = "fin")
  PROVE  LinesTrue'
<1> DEFINE t == text[conn_fd]
           n == Seen(conn_fd)
           open == peer[conn_fd] = "up"
<1> SUFFICES ASSUME at # "accept", There(conn_fd)', FitsUpTo(t, n)
             PROVE  (Spinning(conn_fd) \/ InLine(t, n, peer[conn_fd] = "up"))'
  BY DEF LinesTrue, Seen, FitsUpTo
<1>1. There(conn_fd)
  BY DEF There
<1>2. Spinning(conn_fd) \/ InLine(t, n, open)
  BY <1>1 DEF HttpInv, LinesTrue
<1>3. t' = t /\ n' = n
  BY DEF Seen
<1>4. CASE Spinning(conn_fd)
  <2>1. peer'[conn_fd] = "fin"
    BY <1>4 DEF Spinning, There
  <2> QED
    BY <1>4, <2>1 DEF Spinning
<1>5. CASE InLine(t, n, open)
  <2>1. CASE peer'[conn_fd] = peer[conn_fd]
    <3>1. InLine(t, n, open)'
      BY <1>3, <1>5, <2>1 DEF InLine, Begins, Clean, NoneEmpty, LastEmpty, EmptyAt, Http!Joins
    <3> QED
      BY <3>1
  <2>2. CASE peer'[conn_fd] = "fin"
    <3>1. InLine(t, n, FALSE)
      BY <1>5, LessOpen
    <3>2. (peer'[conn_fd] = "up") = FALSE
      BY <2>2
    <3>3. InLine(t, n, FALSE)'
      BY <1>3, <3>1 DEF InLine, Begins, Clean, NoneEmpty, LastEmpty, EmptyAt, Http!Joins
    <3> QED
      BY <1>3, <3>2, <3>3
  <2> QED
    BY <2>1, <2>2 DEF There
<1> QED
  BY <1>2, <1>4, <1>5

\* What clients do, apart from sending.
LEMMA ClientsKeep ==
  ASSUME Http!HttpAssumption, HttpInv, NEW c \in Http!Conn, Http!Connect(c) \/ Http!Fin(c) \/ Http!Reset(c)
  PROVE  HttpInv'
<1>1. HttpTypes /\ Wires
  BY DEF HttpInv
<1>2. CASE Http!Connect(c)
  <2>1. /\ stage[c] = "new" /\ stage' = [stage EXCEPT ![c] = "backlog"]
        /\ UNCHANGED <<peer, text, wire, at, conn_fd, buf, request, exited>>
    BY <1>2 DEF Http!Connect, Http!serverVars
  <2>2. HttpTypes'
    BY <1>1, <2>1 DEF HttpTypes
  <2>3. Wires'
    BY <1>1, <2>1 DEF Wires, HttpTypes, There, Seen
  <2>4. LinesTrue'
    BY <2>1, SameLines
  <2> QED
    BY <2>2, <2>3, <2>4 DEF HttpInv
<1>3. CASE Http!Fin(c)
  <2>1. /\ peer[c] = "up" /\ peer' = [peer EXCEPT ![c] = "fin"]
        /\ UNCHANGED <<stage, text, wire, at, conn_fd, buf, request, exited>>
    BY <1>3 DEF Http!Fin, Http!Alive, Http!serverVars
  <2>2. HttpTypes'
    BY <1>1, <2>1 DEF HttpTypes
  <2>3. Wires'
    BY <1>1, <2>1 DEF Wires, HttpTypes, There, Seen
  <2>4. LinesTrue'
    BY <1>1, <2>1, SameLines DEF HttpTypes
  <2> QED
    BY <2>2, <2>3, <2>4 DEF HttpInv
<1>4. CASE Http!Reset(c)
  <2>1. PICK n \in 0 .. Len(wire[c]) : wire' = [wire EXCEPT ![c] = SubSeq(@, 1, n)]
    BY <1>4 DEF Http!Reset
  <2>2. /\ peer' = [peer EXCEPT ![c] = "reset"]
        /\ UNCHANGED <<stage, text, at, conn_fd, buf, request, exited>>
    BY <1>4 DEF Http!Reset, Http!serverVars
  <2>3. SubSeq(wire[c], 1, n) \in Seq(Http!Char)
    <3>1. wire[c] \in Seq(Http!Char) /\ n \in Int /\ \A i \in 1 .. n : i \in 1 .. Len(wire[c])
      BY <1>1 DEF HttpTypes
    <3> QED
      BY <3>1, SubSeqProperties
  <2>4. HttpTypes'
    BY <1>1, <2>1, <2>2, <2>3 DEF HttpTypes
  <2>5. \A b \in Http!Conn : There(b)' => b # c /\ There(b) /\ wire'[b] = wire[b]
    BY <1>1, <2>1, <2>2 DEF HttpTypes, There
  <2>6. Wires'
    <3> SUFFICES ASSUME NEW b \in Http!Conn, There(b)'
                 PROVE  /\ Seen(b)' \in Nat
                        /\ \A i \in 1 .. Len(wire'[b]) : wire'[b][i] = text'[b][Seen(b)' + i]
                        /\ stage'[b] \in {"new", "backlog"} => Seen(b)' = 0
      BY DEF Wires
    <3>1. There(b) /\ wire'[b] = wire[b] /\ text'[b] = text[b] /\ stage'[b] = stage[b]
      BY <2>2, <2>5
    <3>2. Seen(b)' = Seen(b)
      BY ONLY <3>1 DEF Seen
    <3>3. /\ Seen(b) \in Nat
          /\ \A i \in 1 .. Len(wire[b]) : wire[b][i] = text[b][Seen(b) + i]
          /\ stage[b] \in {"new", "backlog"} => Seen(b) = 0
      BY <1>1, <3>1 DEF Wires
    <3> QED
      BY ONLY <3>1, <3>2, <3>3
  <2>7. LinesTrue'
    <3>1. CASE at = "accept" \/ conn_fd = c
      BY <1>1, <2>2, <2>5, <3>1 DEF LinesTrue, HttpTypes
    <3>2. CASE at # "accept" /\ conn_fd # c
      <4>1. text'[conn_fd] = text[conn_fd] /\ wire'[conn_fd] = wire[conn_fd] /\ peer'[conn_fd] = peer[conn_fd]
        BY <1>1, <2>1, <2>2, <3>2 DEF HttpTypes
      <4> QED
        BY <2>2, <4>1, SameLines
    <3> QED
      BY <3>1, <3>2
  <2> QED
    BY <2>4, <2>6, <2>7 DEF HttpInv
<1> QED
  BY <1>2, <1>3, <1>4

\* A character more.
LEMMA HttpSendKeeps ==
  ASSUME Http!HttpAssumption, HttpInv, NEW c \in Http!Conn, NEW x \in Http!Char, Http!Send(c, x)
  PROVE  HttpInv'
<1>1. HttpTypes /\ Wires
  BY DEF HttpInv
<1>2. /\ peer[c] = "up"
      /\ text' = [text EXCEPT ![c] = Append(@, x)]
      /\ wire' = [wire EXCEPT ![c] = Append(@, x)]
      /\ UNCHANGED <<stage, peer, at, conn_fd, buf, request, exited>>
  BY DEF Http!Send, Http!Alive, Http!serverVars
<1> DEFINE t == text[c]
           w == wire[c]
           u == Append(t, x)
           v == Append(w, x)
<1>3. t \in Seq(Http!Char) /\ w \in Seq(Http!Char) /\ Len(t) \in Nat /\ Len(w) \in Nat
  BY <1>1 DEF HttpTypes
<1>4. /\ u \in Seq(Http!Char) /\ Len(u) = Len(t) + 1 /\ u[Len(t) + 1] = x
      /\ \A i \in 1 .. Len(t) : u[i] = t[i]
  <2> HIDE DEF t
  <2> QED
    BY <1>3, AppendProperties
<1>5. /\ v \in Seq(Http!Char) /\ Len(v) = Len(w) + 1 /\ v[Len(w) + 1] = x
      /\ \A i \in 1 .. Len(w) : v[i] = w[i]
  <2> HIDE DEF w
  <2> QED
    BY <1>3, AppendProperties
<1>6. /\ text'[c] = u /\ wire'[c] = v
      /\ \A b \in Http!Conn : b # c => text'[b] = text[b] /\ wire'[b] = wire[b]
  BY <1>1, <1>2 DEF HttpTypes
<1> HIDE DEF u, v
<1>7. HttpTypes'
  BY <1>1, <1>2, <1>4, <1>5 DEF HttpTypes, u, v
<1> DEFINE n == Seen(c)
<1>8. n \in Nat /\ n = Len(t) - Len(w) /\ \A i \in 1 .. Len(w) : w[i] = t[n + i]
  BY <1>1, <1>2 DEF Wires, There, Seen
<1>13. PICK L \in Nat, K \in Nat : L = Len(t) /\ K = Len(w)
  BY <1>3
<1>9. Seen(c)' = n
  <2>1. Seen(c)' = Len(u) - Len(v)
    BY <1>6 DEF Seen
  <2>2. Len(u) = L + 1 /\ Len(v) = K + 1 /\ n = L - K
    BY <1>4, <1>5, <1>8, <1>13
  <2> HIDE DEF n
  <2>3. Seen(c)' = (L + 1) - (K + 1)
    BY <2>1, <2>2
  <2>4. (L + 1) - (K + 1) = L - K
    OBVIOUS
  <2> QED
    BY <2>2, <2>3, <2>4
<1> HIDE DEF n
<1>14. n \in Nat /\ n = L - K
  BY <1>8, <1>13
<1>10. \A i \in 1 .. Len(v) : v[i] = u[n + i]
  <2> TAKE i \in 1 .. Len(v)
  <2>1. CASE i = Len(w) + 1
    <3>1. i = K + 1
      BY <1>13, <2>1
    <3>2. n + (K + 1) = L + 1
      BY <1>14
    <3>3. u[n + i] = x /\ v[i] = x
      BY <1>4, <1>5, <1>13, <3>1, <3>2
    <3> QED
      BY <3>3
  <2>2. CASE i # Len(w) + 1
    <3>1. i \in 1 .. K
      BY <1>5, <1>13, <2>2
    <3>2. n + i \in 1 .. L
      BY <1>14, <3>1
    <3>3. v[i] = w[i] /\ u[n + i] = t[n + i] /\ w[i] = t[n + i]
      BY <1>4, <1>5, <1>8, <1>13, <3>1, <3>2
    <3> QED
      BY <3>3
  <2> QED
    BY <2>1, <2>2
<1>11. Wires'
  <2>1. ASSUME NEW b \in Http!Conn, There(b)'
        PROVE  /\ Seen(b)' \in Nat
               /\ \A i \in 1 .. Len(wire'[b]) : wire'[b][i] = text'[b][Seen(b)' + i]
               /\ stage'[b] \in {"new", "backlog"} => Seen(b)' = 0
    <3>1. CASE b = c
      BY <1>1, <1>2, <1>6, <1>8, <1>9, <1>10, <3>1 DEF Wires, There, n
    <3>2. CASE b # c
      <4>1. There(b) /\ stage'[b] = stage[b] /\ wire'[b] = wire[b] /\ text'[b] = text[b]
        BY <1>2, <1>6, <2>1, <3>2 DEF There
      <4>2. Seen(b)' = Seen(b)
        BY ONLY <4>1 DEF Seen
      <4>3. /\ Seen(b) \in Nat
            /\ \A i \in 1 .. Len(wire[b]) : wire[b][i] = text[b][Seen(b) + i]
            /\ stage[b] \in {"new", "backlog"} => Seen(b) = 0
        BY <1>1, <4>1 DEF Wires
      <4> QED
        BY ONLY <4>1, <4>2, <4>3
    <3> QED
      BY <3>1, <3>2
  <2> QED
    BY <2>1 DEF Wires
<1>12. LinesTrue'
  <2>1. CASE at = "accept" \/ conn_fd # c
    <3>1. at # "accept" => text'[conn_fd] = text[conn_fd] /\ wire'[conn_fd] = wire[conn_fd]
      BY <1>1, <1>6, <2>1 DEF HttpTypes
    <3> QED
      BY <1>2, <3>1, SameLines
  <2>2. CASE at # "accept" /\ conn_fd = c
    <3> SUFFICES ASSUME FitsUpTo(u, n) PROVE (Spinning(c) \/ InLine(text[c], Seen(c), peer[c] = "up"))'
      BY <1>2, <1>6, <1>9, <2>2 DEF LinesTrue, FitsUpTo
    <3>1. n \in 0 .. Len(t) /\ \A i \in 1 .. n : u[i] = t[i]
      <4>1. n \in 0 .. L
        BY <1>14
      <4> QED
        BY <1>4, <1>13, <4>1
    <3>2. FitsUpTo(t, n)
      <4> HIDE DEF t
      <4> QED
        BY <1>8, <3>1, SameBefore
    <3>3. InLine(t, n, TRUE)
      <4>1. There(conn_fd) /\ ~Spinning(c) /\ (peer[c] = "up") = TRUE
        BY <1>2, <2>2 DEF There, Spinning
      <4> QED
        BY <2>2, <3>2, <4>1 DEF HttpInv, LinesTrue, n
    <3>4. InLine(u, n, TRUE)
      <4> HIDE DEF t
      <4> QED
        BY <1>3, <3>1, <3>3, MoreText DEF u
    <3> QED
      BY <1>2, <1>6, <1>9, <3>4 DEF InLine, Begins
  <2> QED
    BY <2>1, <2>2
<1> QED
  BY <1>7, <1>11, <1>12 DEF HttpInv

\* The text, the number and the truth value that LinesTrue speaks of, as constants.
LEMMA LineOf ==
  ASSUME NEW t, NEW n, NEW open,
         (text[conn_fd])' = t, Seen(conn_fd)' = n, (peer[conn_fd] = "up")' = open,
         at' # "accept" /\ There(conn_fd)' /\ FitsUpTo(t, n) => Spinning(conn_fd)' \/ InLine(t, n, open)'
  PROVE  LinesTrue'
<1> SUFFICES ASSUME at' # "accept", There(conn_fd)', FitsUpTo(text[conn_fd], Seen(conn_fd))'
             PROVE  (Spinning(conn_fd) \/ InLine(text[conn_fd], Seen(conn_fd), peer[conn_fd] = "up"))'
  BY DEF LinesTrue
<1>1. FitsUpTo(t, n)
  BY DEF FitsUpTo
<1>2. CASE Spinning(conn_fd)'
  BY <1>2
<1>3. CASE InLine(t, n, open)'
  <2>1. LastEmpty(text[conn_fd], Seen(conn_fd))' <=> LastEmpty(t, n)
    BY DEF LastEmpty, EmptyAt, Http!Joins
  <2>2. \A m : NoneEmpty(text[conn_fd], m)' <=> NoneEmpty(t, m)
    BY DEF NoneEmpty, EmptyAt, Http!Joins
  <2>3. \A m : Clean(text[conn_fd], m, peer[conn_fd] = "up")' <=> Clean(t, m, open)
    BY DEF Clean
  <2>4. \A p : Begins(text[conn_fd], p, peer[conn_fd] = "up")' <=> Begins(t, p, open)'
    BY <2>3 DEF Begins, Clean
  <2>5. NoneEmpty(t, n)' = NoneEmpty(t, n) /\ NoneEmpty(t, n - 1)' = NoneEmpty(t, n - 1)
        /\ LastEmpty(t, n)' = LastEmpty(t, n)
    BY DEF NoneEmpty, LastEmpty, EmptyAt, Http!Joins
  <2>6. InLine(text[conn_fd], Seen(conn_fd), peer[conn_fd] = "up")'
    BY <1>3, <2>1, <2>2, <2>3, <2>4, <2>5 DEF InLine, Clean, Begins, NoneEmpty, LastEmpty, EmptyAt, Http!Joins
  <2> QED
    BY <2>6
<1> QED
  BY <1>1, <1>2, <1>3

\* A connection that is accepted: nothing of its text has been received, and its
\* request line begins.
LEMMA AcceptKeeps ==
  ASSUME Http!HttpAssumption, HttpInv, NEW c \in Http!Conn, Http!Accept(c) \/ Http!CreateFails(c)
  PROVE  HttpInv'
<1>1. HttpTypes /\ Wires /\ HttpLine \in Nat \ {0, 1}
  BY DEF HttpInv, Http!HttpAssumption
<1>2. /\ at = "accept" /\ stage[c] = "backlog"
      /\ UNCHANGED <<peer, text, wire, exited>>
  BY DEF Http!Accept, Http!CreateFails, Http!Accepted, Http!Backlog
<1>3. CASE Http!CreateFails(c)
  <2>1. stage' = [stage EXCEPT ![c] = "leaked"] /\ UNCHANGED <<at, conn_fd, buf, request>>
    BY <1>3 DEF Http!CreateFails
  <2>2. HttpTypes'
    BY <1>1, <1>2, <2>1 DEF HttpTypes
  <2>3. Wires'
    BY <1>1, <1>2, <2>1 DEF Wires, HttpTypes, There, Seen
  <2>4. LinesTrue'
    BY <1>2, <2>1 DEF LinesTrue
  <2> QED
    BY <2>2, <2>3, <2>4 DEF HttpInv
<1>4. CASE Http!Accept(c)
  <2>1. /\ stage' = [stage EXCEPT ![c] = "open"]
        /\ conn_fd' = c /\ at' = "line" /\ buf' = <<>> /\ request' = TRUE
    BY <1>4 DEF Http!Accept
  <2>2. HttpTypes'
    <3>1. stage' \in [Http!Conn -> {"new", "backlog", "open", "closed", "leaked"}] /\ stage'[c] = "open"
      BY <1>1, <2>1 DEF HttpTypes
    <3>2. buf' \in Seq(Http!Char \cup {"nul"}) /\ Len(buf') + 1 < HttpLine /\ Len(buf') < HttpLine
          /\ \A i \in 1 .. Len(buf') : buf'[i] # "lf"
      BY <1>1, <2>1
    <3>3. request' \in BOOLEAN
      BY <2>1
    <3>4. /\ peer' \in [Http!Conn -> {"up", "fin", "reset", "reported"}]
          /\ text' \in [Http!Conn -> Seq(Http!Char)] /\ wire' \in [Http!Conn -> Seq(Http!Char)]
          /\ exited' \in BOOLEAN
      BY <1>1, <1>2 DEF HttpTypes
    <3> QED
      BY <2>1, <3>1, <3>2, <3>3, <3>4 DEF HttpTypes
  <2>3. Wires'
    BY <1>1, <1>2, <2>1 DEF Wires, HttpTypes, There, Seen
  <2>4. LinesTrue'
    <3> DEFINE T == text'[c]
               Open == peer'[c] = "up"
    <3>1. PICK t, open : t = T /\ open = Open
      OBVIOUS
    <3>2. There(c)' => Seen(c)' = 0
      BY <1>1, <1>2 DEF Wires, There, Seen
    <3>3. NoneEmpty(t, 0) /\ Begins(t, 0, open)'
      BY <2>1 DEF NoneEmpty, Begins, Clean
    <3>4. Len(buf') = 0 - 0 /\ 0 \in 0 .. 0 /\ \A j \in 0 + 1 .. 0 : t[j] = "other"
      BY <2>1
    <3>5. InLine(t, 0, open)'
      BY <2>1, <3>3, <3>4 DEF InLine, NoneEmpty, EmptyAt, Http!Joins
    <3>6. PICK n : Seen(c)' = n
      OBVIOUS
    <3>7. There(conn_fd)' => n = 0
      BY <2>1, <3>2, <3>6
    <3>8. (text[conn_fd])' = t /\ (peer[conn_fd] = "up")' = open /\ Seen(conn_fd)' = n
      BY <2>1, <3>1, <3>6
    <3> HIDE DEF T, Open
    <3> QED
      BY <3>5, <3>7, <3>8, LineOf
  <2> QED
    BY <2>2, <2>3, <2>4 DEF HttpInv
<1> QED
  BY <1>3, <1>4

\* What parse_header does with a line, and the end of it.
LEMMA ParseKeeps ==
  ASSUME Http!HttpAssumption, HttpInv,
         Http!RequestLine \/ Http!HeaderLine \/ Http!EndOfHeaders \/ Http!Answer
  PROVE  HttpInv'
<1>1. HttpTypes /\ Wires /\ LinesTrue /\ HttpLine \in Nat \ {0, 1}
  BY DEF HttpInv, Http!HttpAssumption
<1>2. UNCHANGED <<peer, text, wire, conn_fd>>
  BY DEF Http!RequestLine, Http!HeaderLine, Http!EndOfHeaders, Http!Answer, Http!clientVars
<1>3. CASE at = "end" /\ UNCHANGED <<stage, exited>> /\ Http!NextLine /\ (~request => ~Http!LastLine)
  <2>1. at' = "line" /\ buf' = <<>> /\ request' = FALSE /\ conn_fd \in Http!Conn
    BY <1>1, <1>3 DEF Http!NextLine, HttpTypes
  <2>2. HttpTypes'
    <3>1. buf' \in Seq(Http!Char \cup {"nul"}) /\ Len(buf') + 1 < HttpLine /\ Len(buf') < HttpLine
          /\ \A i \in 1 .. Len(buf') : buf'[i] # "lf"
      BY <1>1, <2>1
    <3>2. request' \in BOOLEAN
      BY <2>1
    <3> QED
      BY <1>1, <1>2, <1>3, <2>1, <3>1, <3>2 DEF HttpTypes
  <2>3. Wires'
    BY <1>1, <1>2, <1>3 DEF Wires, There, Seen
  <2>4. LinesTrue'
    <3>0. PICK t, n, open : t = text[conn_fd] /\ n = Seen(conn_fd) /\ open = (peer[conn_fd] = "up")
      OBVIOUS
    <3> SUFFICES ASSUME There(conn_fd), FitsUpTo(t, n)
                 PROVE  Spinning(conn_fd)' \/ InLine(t, n, open)'
      BY <1>2, <3>0, LineOf DEF There, Seen
    <3>1. n \in Nat
      BY <1>1, <2>1, <3>0 DEF Wires
    <3>2. Spinning(conn_fd) \/ InLine(t, n, open)
      BY <1>1, <1>3, <3>0 DEF LinesTrue
    <3>3. CASE Spinning(conn_fd)
      BY <1>2, <2>1, <3>3 DEF Spinning
    <3>4. CASE InLine(t, n, open)
      <4>1. ~(buf = <<"lf">> /\ request = FALSE)
        BY <1>3 DEF Http!LastLine
      <4> QED
        BY <1>3, <3>1, <3>4, <4>1, LineBegins
    <3> QED
      BY <3>2, <3>3, <3>4
  <2> QED
    BY <2>2, <2>3, <2>4 DEF HttpInv
<1>4. CASE at \in {"end", "answer"} /\ exited' = TRUE /\ UNCHANGED <<stage, at, buf, request>>
  <2>1. HttpTypes'
    <3>1. exited' \in BOOLEAN
      BY <1>4
    <3> QED
      BY <1>1, <1>2, <1>4, <3>1 DEF HttpTypes
  <2>2. Wires'
    BY <1>1, <1>2, <1>4 DEF Wires, There, Seen
  <2>3. LinesTrue'
    BY <1>2, <1>4, SameLines
  <2> QED
    BY <2>1, <2>2, <2>3 DEF HttpInv
<1>5. CASE Http!EndOfHeaders
  <2>1. at = "end" /\ at' = "answer" /\ UNCHANGED <<stage, buf, request, exited>>
        /\ (buf = <<>> \/ (buf = <<"lf">> /\ ~request))
    BY <1>5 DEF Http!EndOfHeaders, Http!LastLine, Http!clientVars
  <2>2. HttpTypes'
    BY <1>1, <1>2, <2>1 DEF HttpTypes
  <2>3. Wires'
    BY <1>1, <1>2, <2>1 DEF Wires, There, Seen
  <2>4. LinesTrue'
    <3>0. PICK t, n, open : t = text[conn_fd] /\ n = Seen(conn_fd) /\ open = (peer[conn_fd] = "up")
      OBVIOUS
    <3> SUFFICES ASSUME There(conn_fd), FitsUpTo(t, n)
                 PROVE  InLine(t, n, open)'
      BY <1>2, <3>0, LineOf DEF There, Seen
    <3>1. Spinning(conn_fd) \/ InLine(t, n, open)
      BY <1>1, <2>1, <3>0 DEF LinesTrue
    <3>2. ~Spinning(conn_fd)
      <4> SUFFICES ASSUME Spinning(conn_fd) PROVE FALSE
        OBVIOUS
      <4>1. buf = <<"lf">>
        BY <2>1 DEF Spinning
      <4>2. Len(buf) = 1 /\ buf[1] = "lf"
        BY <4>1
      <4> QED
        BY <4>2 DEF Spinning
    <3>3. buf = <<"lf">> /\ request = FALSE
      BY <1>1, <2>1, <3>1, <3>2 DEF InLine, HttpTypes
    <3>4. LastEmpty(t, n)
      BY <2>1, <3>1, <3>2, <3>3 DEF InLine
    <3> QED
      BY <2>1, <3>4 DEF InLine, LastEmpty, EmptyAt, Http!Joins
  <2> QED
    BY <2>2, <2>3, <2>4 DEF HttpInv
<1>6. CASE Http!Answer /\ at' = "accept"
  <2>1. at = "answer" /\ stage' = [stage EXCEPT ![conn_fd] = "closed"] /\ UNCHANGED <<buf, request, exited>>
    BY <1>6 DEF Http!Answer
  <2>2. HttpTypes'
    BY <1>1, <1>2, <1>6, <2>1 DEF HttpTypes
  <2>3. Wires'
    BY <1>1, <1>2, <2>1 DEF Wires, HttpTypes, There, Seen
  <2>4. LinesTrue'
    BY <1>6 DEF LinesTrue
  <2> QED
    BY <2>2, <2>3, <2>4 DEF HttpInv
<1>7. CASE Http!RequestLine
  <2>1. at = "end" /\ request /\ UNCHANGED stage
        /\ ((Http!NextLine /\ UNCHANGED exited) \/ (exited' = TRUE /\ UNCHANGED <<at, buf, request>>))
    BY <1>7 DEF Http!RequestLine, Http!clientVars
  <2> QED
    BY <1>3, <1>4, <2>1
<1>8. CASE Http!HeaderLine
  BY <1>3, <1>8 DEF Http!HeaderLine, Http!clientVars
<1>9. CASE Http!Answer
  <2>1. at = "answer" /\ UNCHANGED <<buf, request>>
        /\ ((exited' = TRUE /\ UNCHANGED <<stage, at>>) \/ at' = "accept")
    BY <1>9 DEF Http!Answer
  <2> QED
    BY <1>4, <1>6, <1>9, <2>1
<1> QED
  BY <1>5, <1>7, <1>8, <1>9

\* A character is put into the line.
LEMMA PutTypes ==
  ASSUME Http!HttpAssumption, HttpTypes, NEW x \in Http!Char \cup {"nul"}, Http!Put(x),
         at = "line" \/ (at = "peek" /\ x = "lf"),
         peer' \in [Http!Conn -> {"up", "fin", "reset", "reported"}], wire' \in [Http!Conn -> Seq(Http!Char)]
  PROVE  HttpTypes'
<1>1. /\ buf \in Seq(Http!Char \cup {"nul"}) /\ Len(buf) \in Nat /\ Len(buf) + 1 < HttpLine
      /\ HttpLine \in Nat /\ conn_fd \in Http!Conn /\ stage[conn_fd] = "open"
  BY DEF HttpTypes, Http!HttpAssumption
<1>2. /\ buf' = Append(buf, x) /\ UNCHANGED <<stage, text, conn_fd, request, exited>>
      /\ at' = IF x = "lf" \/ Len(buf) + 1 = HttpLine - 1 THEN "end" ELSE "line"
  BY DEF Http!Put
<1>3. /\ buf' \in Seq(Http!Char \cup {"nul"}) /\ Len(buf') = Len(buf) + 1 /\ buf'[Len(buf) + 1] = x
      /\ \A i \in 1 .. Len(buf) : buf'[i] = buf[i]
  BY <1>1, <1>2, AppendProperties
<1>4. Len(buf') < HttpLine /\ (at' = "line" => Len(buf') + 1 < HttpLine)
  BY <1>1, <1>2, <1>3
<1>5. at' = "line" => \A i \in 1 .. Len(buf') : buf'[i] # "lf"
  <2> SUFFICES ASSUME at' = "line", NEW i \in 1 .. Len(buf') PROVE buf'[i] # "lf"
    OBVIOUS
  <2>1. x # "lf" /\ at = "line"
    BY <1>2
  <2>2. i \in 1 .. Len(buf) \/ i = Len(buf) + 1
    BY <1>1, <1>3
  <2> QED
    BY <1>3, <2>1, <2>2 DEF HttpTypes
<1>6. at' \in {"end", "line"}
  BY <1>2
<1>7. /\ stage' \in [Http!Conn -> {"new", "backlog", "open", "closed", "leaked"}]
      /\ text' \in [Http!Conn -> Seq(Http!Char)]
      /\ conn_fd' \in Http!Conn /\ stage'[conn_fd'] = "open"
      /\ request' \in BOOLEAN /\ exited' \in BOOLEAN
  BY <1>1, <1>2 DEF HttpTypes
<1> QED
  BY <1>3, <1>4, <1>5, <1>6, <1>7 DEF HttpTypes

\* A character is taken from the wire.
LEMMA DropTakes ==
  ASSUME HttpTypes, Wires, at # "accept", Http!Coming # <<>>, Http!Drop(1), UNCHANGED <<text, stage, peer, conn_fd>>
  PROVE  /\ wire' \in [Http!Conn -> Seq(Http!Char)] /\ Wires'
         /\ Head(Http!Coming) \in Http!Char
         /\ There(conn_fd) => /\ Seen(conn_fd) \in Nat /\ Seen(conn_fd) < Len(text[conn_fd])
                              /\ Seen(conn_fd)' = Seen(conn_fd) + 1
                              /\ Head(Http!Coming) = text[conn_fd][Seen(conn_fd) + 1]
<1> DEFINE w == wire[conn_fd]
           v == SubSeq(w, 1 + 1, Len(w))
<1>1. conn_fd \in Http!Conn /\ stage[conn_fd] = "open" /\ w \in Seq(Http!Char)
      /\ text[conn_fd] \in Seq(Http!Char) /\ w # <<>>
  BY DEF HttpTypes, Http!Coming
<1>2. wire' = [wire EXCEPT ![conn_fd] = v]
  BY DEF Http!Drop
<1> HIDE DEF w
<1>3. 1 \in 1 .. Len(w) /\ Len(w) \in Nat /\ Head(w) = w[1] /\ Head(w) \in Http!Char
  BY <1>1
<1>4. v \in Seq(Http!Char) /\ Len(v) = Len(w) - 1 /\ \A i \in 1 .. Len(w) - 1 : v[i] = w[i + 1]
  BY <1>1, <1>3, FrontAndRest
<1> HIDE DEF v
<1>5. /\ wire' \in [Http!Conn -> Seq(Http!Char)] /\ wire'[conn_fd] = v
      /\ \A b \in Http!Conn : b # conn_fd => wire'[b] = wire[b]
  BY <1>1, <1>2, <1>4 DEF HttpTypes
<1>6. ASSUME There(conn_fd)
      PROVE  /\ Seen(conn_fd) \in Nat /\ Seen(conn_fd) < Len(text[conn_fd])
             /\ Seen(conn_fd)' = Seen(conn_fd) + 1 /\ Head(w) = text[conn_fd][Seen(conn_fd) + 1]
             /\ \A i \in 1 .. Len(v) : v[i] = text[conn_fd][(Seen(conn_fd) + 1) + i]
  <2>1. PICK L \in Nat, K \in Nat : L = Len(text[conn_fd]) /\ K = Len(w)
    BY <1>1, <1>3
  <2>2. PICK n \in Nat : n = Seen(conn_fd) /\ \A i \in 1 .. K : w[i] = text[conn_fd][n + i]
    BY <1>1, <1>6, <2>1 DEF Wires, w
  <2>3. n = L - K
    BY <2>1, <2>2 DEF Seen, w
  <2>4. K > 0
    BY <1>3, <2>1
  <2>5. Seen(conn_fd)' = L - (K - 1)
    BY <1>4, <1>5, <2>1 DEF Seen
  <2>6. L - (K - 1) = n + 1 /\ n < L
    BY <2>3, <2>4
  <2>7. w[1] = text[conn_fd][n + 1]
    BY <2>2, <2>4
  <2>8. ASSUME NEW i \in 1 .. K - 1 PROVE v[i] = text[conn_fd][(n + 1) + i]
    <3>1. i + 1 \in 1 .. K /\ n + (i + 1) = (n + 1) + i
      OBVIOUS
    <3>2. v[i] = w[i + 1]
      BY <1>4, <2>1
    <3> QED
      BY <2>2, <3>1, <3>2
  <2>9. Len(v) = K - 1
    BY <1>4, <2>1
  <2> QED
    BY <1>3, <2>1, <2>2, <2>5, <2>6, <2>7, <2>8, <2>9
<1>7. Wires'
  <2> SUFFICES ASSUME NEW b \in Http!Conn, There(b)
               PROVE  /\ Seen(b)' \in Nat
                      /\ \A i \in 1 .. Len(wire'[b]) : wire'[b][i] = text[b][Seen(b)' + i]
                      /\ stage[b] \in {"new", "backlog"} => Seen(b)' = 0
    BY DEF Wires, There
  <2>1. CASE b # conn_fd
    BY <1>5, <2>1 DEF Wires, Seen
  <2>2. CASE b = conn_fd
    <3>1. PICK n : n = Seen(b)
      OBVIOUS
    <3>2. n \in Nat /\ Seen(b)' = n + 1 /\ \A i \in 1 .. Len(v) : v[i] = text[b][(n + 1) + i]
      BY <1>6, <2>2, <3>1
    <3> QED
      BY <1>1, <1>5, <2>2, <3>2
  <2> QED
    BY <2>1, <2>2
<1> QED
  BY <1>3, <1>5, <1>6, <1>7 DEF w, Http!Coming

\* Without one: what recv reports of an error changes nothing of those that are there.
LEMMA ReportKeeps ==
  ASSUME HttpTypes, Wires, at # "accept", Http!Report \/ UNCHANGED peer, UNCHANGED <<text, wire, stage, conn_fd>>
  PROVE  /\ peer' \in [Http!Conn -> {"up", "fin", "reset", "reported"}] /\ Wires'
         /\ There(conn_fd)' => There(conn_fd) /\ peer'[conn_fd] = peer[conn_fd]
         /\ Seen(conn_fd)' = Seen(conn_fd)
<1>1. conn_fd \in Http!Conn
  BY DEF HttpTypes
<1>2. /\ peer' \in [Http!Conn -> {"up", "fin", "reset", "reported"}]
      /\ \A b \in Http!Conn : peer'[b] = peer[b] \/ (peer[b] = "reset" /\ peer'[b] = "reported")
  <2>1. CASE UNCHANGED peer
    BY <2>1 DEF HttpTypes
  <2>2. CASE Http!Report
    BY <1>1, <2>2 DEF HttpTypes, Http!Report
  <2> QED
    BY <2>1, <2>2
<1>3. \A b \in Http!Conn : There(b)' => There(b) /\ peer'[b] = peer[b]
  BY <1>2 DEF There
<1>4. \A b : Seen(b)' = Seen(b)
  BY DEF Seen
<1>5. Wires'
  BY <1>3, <1>4 DEF Wires
<1> QED
  BY <1>1, <1>2, <1>3, <1>4, <1>5

\* A character is read.
LEMMA RecvKeeps ==
  ASSUME Http!HttpAssumption, HttpInv, Http!Recv
  PROVE  HttpInv'
<1>1. HttpTypes /\ Wires /\ LinesTrue
  BY DEF HttpInv
<1>2. at = "line" /\ Http!Coming # <<>> /\ Http!Drop(1) /\ UNCHANGED <<peer, stage, text, conn_fd>>
  BY DEF Http!Recv, Http!Put
<1>3. PICK x : x = Head(Http!Coming)
  OBVIOUS
<1>4. /\ wire' \in [Http!Conn -> Seq(Http!Char)] /\ Wires' /\ x \in Http!Char
      /\ There(conn_fd) => /\ Seen(conn_fd) \in Nat /\ Seen(conn_fd) < Len(text[conn_fd])
                           /\ Seen(conn_fd)' = Seen(conn_fd) + 1
                           /\ x = text[conn_fd][Seen(conn_fd) + 1]
  BY <1>1, <1>2, <1>3, DropTakes
<1>5. IF x = "cr" THEN at' = "peek" /\ UNCHANGED <<buf, request, exited>> ELSE Http!Put(x)
  BY <1>3 DEF Http!Recv
<1>6. HttpTypes'
  <2>1. peer' \in [Http!Conn -> {"up", "fin", "reset", "reported"}]
    BY <1>1, <1>2 DEF HttpTypes
  <2>2. CASE x = "cr"
    BY <1>1, <1>2, <1>4, <1>5, <2>2 DEF HttpTypes
  <2>3. CASE x # "cr"
    BY <1>1, <1>2, <1>4, <1>5, <2>1, <2>3, PutTypes
  <2> QED
    BY <2>2, <2>3
<1>7. LinesTrue'
  <2>1. PICK t, n, open : t = text[conn_fd] /\ n = Seen(conn_fd) /\ open = (peer[conn_fd] = "up")
    OBVIOUS
  <2>2. PICK m : m = Seen(conn_fd)'
    OBVIOUS
  <2> SUFFICES ASSUME There(conn_fd), FitsUpTo(t, m)
               PROVE  InLine(t, m, open)'
    BY <1>2, <2>1, <2>2, LineOf DEF There
  <2>3. t \in Seq(Http!Char) /\ n \in Nat /\ n < Len(t) /\ m = n + 1 /\ x = t[n + 1]
    BY <1>1, <1>2, <1>4, <2>1, <2>2 DEF HttpTypes
  <2>4. FitsUpTo(t, n)
    BY <2>3, FitsBefore
  <2>5. InLine(t, n, open)
    <3>1. ~Spinning(conn_fd)
      BY <1>2 DEF Spinning, Http!Coming
    <3> QED
      BY <1>1, <1>2, <2>1, <2>4, <3>1 DEF LinesTrue
  <2>6. CASE x = "cr"
    <3>1. at' = "peek" /\ UNCHANGED <<buf, request>>
      BY <1>5, <2>6
    <3>2. InLine(t, n + 1, open)'
      BY <1>2, <2>3, <2>5, <2>6, <3>1, CrInLine
    <3> QED
      BY <2>3, <3>2
  <2>7. CASE x # "cr"
    <3>1. Http!Put(t[n + 1]) /\ t[n + 1] # "cr" /\ FitsUpTo(t, n + 1)
      BY <1>5, <2>3, <2>7
    <3>2. InLine(t, n + 1, open)'
      BY <1>1, <1>2, <2>3, <2>5, <3>1, CharInLine
    <3> QED
      BY <2>3, <3>2
  <2> QED
    BY <2>6, <2>7
<1> QED
  BY <1>4, <1>6, <1>7 DEF HttpInv

\* The character behind a CR is looked at.
LEMMA PeekKeeps ==
  ASSUME Http!HttpAssumption, HttpInv, Http!Peek
  PROVE  HttpInv'
<1>1. HttpTypes /\ Wires /\ LinesTrue
  BY DEF HttpInv
<1>2. at = "peek" /\ Http!Put("lf") /\ UNCHANGED <<text, conn_fd, stage>>
      /\ (Http!Coming # <<>> \/ peer[conn_fd] # "up")
  BY DEF Http!Peek, Http!Put
<1>3. PICK t, n, open : t = text[conn_fd] /\ n = Seen(conn_fd) /\ open = (peer[conn_fd] = "up")
  OBVIOUS
<1>4. conn_fd \in Http!Conn /\ t \in Seq(Http!Char)
  BY <1>1, <1>2, <1>3 DEF HttpTypes
<1>5. There(conn_fd) => n \in 0 .. Len(t)
  <2>1. PICK L \in Nat, K \in Nat : L = Len(t) /\ K = Len(wire[conn_fd])
    BY <1>1, <1>3, <1>4 DEF HttpTypes
  <2>2. n = L - K /\ (There(conn_fd) => n \in Nat)
    BY <1>1, <1>3, <1>4, <2>1 DEF Wires, Seen
  <2> QED
    BY <2>1, <2>2
<1>6. "lf" \in Http!Char \cup {"nul"}
  BY DEF Http!Char
<1>7. ASSUME There(conn_fd), FitsUpTo(t, n) PROVE InLine(t, n, open)
  <2>1. ~Spinning(conn_fd)
    BY <1>2 DEF Spinning
  <2> QED
    BY <1>1, <1>2, <1>3, <1>7, <2>1 DEF LinesTrue
<1>8. CASE Http!Coming # <<>> /\ Head(Http!Coming) = "lf"
  <2>1. Http!Drop(1) /\ UNCHANGED peer
    BY <1>8 DEF Http!Peek
  <2>2. /\ wire' \in [Http!Conn -> Seq(Http!Char)] /\ Wires'
        /\ There(conn_fd) => n \in Nat /\ n < Len(t) /\ Seen(conn_fd)' = n + 1 /\ t[n + 1] = "lf"
    BY <1>1, <1>2, <1>3, <1>8, <2>1, DropTakes
  <2>3. HttpTypes'
    <3>1. peer' \in [Http!Conn -> {"up", "fin", "reset", "reported"}]
      BY <1>1, <2>1 DEF HttpTypes
    <3> QED
      BY <1>1, <1>2, <1>6, <2>2, <3>1, PutTypes
  <2>4. LinesTrue'
    <3>1. PICK m : m = Seen(conn_fd)'
      OBVIOUS
    <3> SUFFICES ASSUME There(conn_fd), FitsUpTo(t, m) PROVE InLine(t, m, open)'
      BY <1>2, <1>3, <2>1, <3>1, LineOf DEF There
    <3>2. n \in Nat /\ m = n + 1 /\ n < Len(t) /\ t[n + 1] = "lf"
      BY <2>2, <3>1
    <3>3. FitsUpTo(t, n)
      BY <3>2, FitsBefore
    <3>4. InLine(t, n, open) /\ n \in 0 .. Len(t) /\ m \in Nat
      BY <1>5, <1>7, <3>2, <3>3
    <3> QED
      BY <1>1, <1>2, <1>4, <3>2, <3>4, CrEndsLine
  <2> QED
    BY <2>2, <2>3, <2>4 DEF HttpInv
<1>9. CASE ~(Http!Coming # <<>> /\ Head(Http!Coming) = "lf")
  <2>1. UNCHANGED wire /\ (IF Http!Coming = <<>> THEN Http!Report ELSE UNCHANGED peer)
    BY <1>9 DEF Http!Peek
  <2>2. /\ peer' \in [Http!Conn -> {"up", "fin", "reset", "reported"}] /\ Wires'
        /\ There(conn_fd)' => There(conn_fd) /\ peer'[conn_fd] = peer[conn_fd]
        /\ Seen(conn_fd)' = n
    BY <1>1, <1>2, <1>3, <2>1, ReportKeeps
  <2>3. HttpTypes'
    <3>1. wire' \in [Http!Conn -> Seq(Http!Char)]
      BY <1>1, <2>1 DEF HttpTypes
    <3> QED
      BY <1>1, <1>2, <1>6, <2>2, <3>1, PutTypes
  <2>4. LinesTrue'
    <3>1. PICK still : still = (peer[conn_fd] = "up")'
      OBVIOUS
    <3> SUFFICES ASSUME There(conn_fd)', FitsUpTo(t, n) PROVE InLine(t, n, still)'
      BY <1>2, <1>3, <2>2, <3>1, LineOf
    <3>2. There(conn_fd) /\ still = open
      BY <1>2, <1>3, <2>2, <3>1
    <3>3. InLine(t, n, open) /\ n \in 0 .. Len(t) /\ n \in Nat
      BY <1>5, <1>7, <3>2
    <3>4. Clean(t, n, open)
      <4> SUFFICES ASSUME n > 0, t[n] = "cr" PROVE IF n < Len(t) THEN t[n + 1] # "lf" ELSE ~open
        BY DEF Clean
      <4>1. PICK L \in Nat, K \in Nat : L = Len(t) /\ K = Len(wire[conn_fd]) /\ n = L - K
        <5>1. wire[conn_fd] \in Seq(Http!Char) /\ Len(t) \in Nat /\ Len(wire[conn_fd]) \in Nat
          BY <1>1, <1>4 DEF HttpTypes
        <5>2. n = Len(t) - Len(wire[conn_fd])
          BY <1>3 DEF Seen
        <5> QED
          BY <5>1, <5>2
      <4>2. CASE K = 0
        <5>1. wire[conn_fd] = <<>>
          <6>1. wire[conn_fd] \in Seq(Http!Char) /\ Len(wire[conn_fd]) = 0
            BY <1>1, <1>4, <4>1, <4>2 DEF HttpTypes
          <6> QED
            BY <6>1
        <5>2. ~open
          BY <1>2, <1>3, <5>1 DEF Http!Coming
        <5>3. ~(n < L)
          BY <4>1, <4>2
        <5> QED
          BY <4>1, <5>2, <5>3
      <4>3. CASE K # 0
        <5>1. 1 \in 1 .. Len(wire[conn_fd]) /\ n < L
          BY <4>1, <4>3
        <5>2. wire[conn_fd] # <<>> /\ Head(wire[conn_fd]) = wire[conn_fd][1]
          BY <1>1, <1>4, <4>1, <4>3 DEF HttpTypes
        <5>3. wire[conn_fd][1] # "lf"
          BY <1>9, <5>2 DEF Http!Coming
        <5>4. wire[conn_fd][1] = t[n + 1]
          BY <1>1, <1>3, <1>4, <3>2, <5>1 DEF Wires
        <5> QED
          BY <4>1, <5>1, <5>3, <5>4
      <4> QED
        BY <4>2, <4>3
    <3>5. InLine(t, n, open)'
      BY <1>1, <1>2, <1>4, <3>3, <3>4, CrEndsLine
    <3> QED
      BY <3>2, <3>5
  <2> QED
    BY <2>2, <2>3, <2>4 DEF HttpInv
<1> QED
  BY <1>8, <1>9

\* The client of the connection has left, and read_line takes no notice of it.
LEMMA RecvEndKeeps ==
  ASSUME Http!HttpAssumption, HttpInv, Http!RecvEnd
  PROVE  HttpInv'
<1>1. HttpTypes /\ Wires
  BY DEF HttpInv
<1>2. PICK x : x = IF buf = <<>> THEN "nul" ELSE Http!Last(buf)
  OBVIOUS
<1>3. /\ at = "line" /\ wire[conn_fd] = <<>> /\ peer[conn_fd] \in {"fin", "reported"}
      /\ Http!Put(x) /\ UNCHANGED <<peer, wire, stage, text, conn_fd>>
  <2>1. at = "line" /\ wire[conn_fd] = <<>> /\ peer[conn_fd] \in {"fin", "reported"} /\ UNCHANGED <<peer, wire>>
    BY DEF Http!RecvEnd, Http!Coming
  <2>2. Http!Put(x)
    BY <1>2 DEF Http!RecvEnd
  <2>3. UNCHANGED <<stage, text, conn_fd>>
    BY <2>2 DEF Http!Put
  <2> QED
    BY <2>1, <2>2, <2>3
<1>4. buf \in Seq(Http!Char \cup {"nul"}) /\ (\A i \in 1 .. Len(buf) : buf[i] # "lf") /\ Len(buf) \in Nat
  BY <1>1, <1>3 DEF HttpTypes
<1>5. x \in Http!Char \cup {"nul"} /\ x # "lf"
  <2>1. CASE buf = <<>>
    BY <1>2, <2>1
  <2>2. CASE buf # <<>>
    <3>1. Len(buf) \in 1 .. Len(buf) /\ Http!Last(buf) = buf[Len(buf)]
      BY <1>4, <2>2 DEF Http!Last
    <3> QED
      BY <1>2, <1>4, <2>2, <3>1
  <2> QED
    BY <2>1, <2>2
<1>6. HttpTypes'
  <2>1. /\ peer' \in [Http!Conn -> {"up", "fin", "reset", "reported"}]
        /\ wire' \in [Http!Conn -> Seq(Http!Char)]
    BY <1>1, <1>3 DEF HttpTypes
  <2> QED
    BY <1>1, <1>3, <1>5, <2>1, PutTypes
<1>7. Wires'
  BY <1>1, <1>3 DEF Wires, There, Seen
<1>8. LinesTrue'
  <2>1. buf' = Append(buf, x) /\ at' \in {"line", "end"}
    BY <1>3 DEF Http!Put
  <2>2. buf' # <<>> /\ \A i \in 1 .. Len(buf') : buf'[i] # "lf"
    <3>1. Len(buf') = Len(buf) + 1 /\ buf'[Len(buf) + 1] = x /\ \A i \in 1 .. Len(buf) : buf'[i] = buf[i]
      BY <1>4, <1>5, <2>1, AppendProperties
    <3>2. \A i \in 1 .. Len(buf') : i \in 1 .. Len(buf) \/ i = Len(buf) + 1
      BY <1>4, <3>1
    <3>3. buf' # <<>>
      BY <1>4, <3>1
    <3> QED
      BY <1>4, <1>5, <3>1, <3>2, <3>3
  <2>3. There(conn_fd)' => Spinning(conn_fd)'
    BY <1>3, <2>1, <2>2 DEF Spinning, There
  <2> QED
    BY <2>3 DEF LinesTrue
<1> QED
  BY <1>6, <1>7, <1>8 DEF HttpInv

\* The error of a reset ends the line; nothing is claimed of its connection.
LEMMA RecvFailsKeeps ==
  ASSUME Http!HttpAssumption, HttpInv, Http!RecvFails
  PROVE  HttpInv'
<1>1. HttpTypes /\ Wires
  BY DEF HttpInv
<1>2. /\ at = "line" /\ peer[conn_fd] = "reset" /\ Http!Report /\ at' = "end"
      /\ UNCHANGED <<stage, text, wire, conn_fd, buf, request, exited>>
  BY DEF Http!RecvFails
<1>3. /\ peer' \in [Http!Conn -> {"up", "fin", "reset", "reported"}] /\ Wires'
      /\ There(conn_fd)' => There(conn_fd)
  BY <1>1, <1>2, ReportKeeps
<1>4. HttpTypes'
  BY <1>1, <1>2, <1>3 DEF HttpTypes
<1>5. LinesTrue'
  BY <1>2, <1>3 DEF LinesTrue, There
<1> QED
  BY <1>3, <1>4, <1>5 DEF HttpInv

\* Every step.
LEMMA HttpKeeps ==
  ASSUME Http!HttpAssumption, HttpInv, [Http!Next]_(Http!vars)
  PROVE  HttpInv'
<1>1. CASE Http!Next
  <2>1. CASE \E c \in Http!Conn : Http!Accept(c) \/ Http!CreateFails(c)
    BY <2>1, AcceptKeeps
  <2>2. CASE Http!Recv \/ Http!Peek \/ Http!RecvEnd \/ Http!RecvFails
    BY <2>2, RecvKeeps, PeekKeeps, RecvEndKeeps, RecvFailsKeeps
  <2>3. CASE Http!RequestLine \/ Http!HeaderLine \/ Http!EndOfHeaders \/ Http!Answer
    BY <2>3, ParseKeeps
  <2>4. CASE \E c \in Http!Conn : Http!Client(c)
    <3>1. PICK c \in Http!Conn : Http!Client(c)
      BY <2>4
    <3>2. CASE Http!Connect(c) \/ Http!Fin(c) \/ Http!Reset(c)
      BY <3>2, ClientsKeep
    <3>3. CASE \E x \in Http!Char : Http!Send(c, x)
      BY <3>3, HttpSendKeeps
    <3> QED
      BY <3>1, <3>2, <3>3 DEF Http!Client
  <2> QED
    BY <1>1, <2>1, <2>2, <2>3, <2>4 DEF Http!Next, Http!Server
<1>2. CASE UNCHANGED Http!vars
  <2>1. UNCHANGED <<stage, peer, text, wire, at, conn_fd, buf, request, exited>>
    BY <1>2 DEF Http!vars, Http!clientVars, Http!serverVars
  <2>2. HttpTypes' /\ Wires'
    BY <2>1 DEF HttpInv, HttpTypes, Wires, There, Seen
  <2>3. LinesTrue'
    BY <2>1, SameLines
  <2> QED
    BY <2>2, <2>3 DEF HttpInv
<1> QED
  BY <1>1, <1>2

\* What is left of the text is its end.
LEMMA EndIsSuffix ==
  ASSUME NEW S, NEW s \in Seq(S), NEW w \in Seq(S), NEW n \in Nat, n = Len(s) - Len(w),
         \A i \in 1 .. Len(w) : w[i] = s[n + i]
  PROVE  Http!IsSuffix(w, s)
<1>1. PICK L \in Nat, K \in Nat : L = Len(s) /\ K = Len(w) /\ L = K + n
  <2>1. Len(s) \in Nat /\ Len(w) \in Nat
    OBVIOUS
  <2> QED
    BY <2>1
<1>2. Http!Reverse(w) = [i \in 1 .. K |-> w[(K - i) + 1]] /\ Http!Reverse(s) = [i \in 1 .. L |-> s[(L - i) + 1]]
  BY <1>1 DEF Http!Reverse
<1>3. Http!Reverse(w) \in Seq(S) /\ Http!Reverse(s) \in Seq(S)
      /\ Len(Http!Reverse(w)) = K /\ Len(Http!Reverse(s)) = L
  <2>1. \A i \in 1 .. K : (K - i) + 1 \in 1 .. Len(w)
    BY <1>1
  <2>2. \A i \in 1 .. L : (L - i) + 1 \in 1 .. Len(s)
    BY <1>1
  <2>3. Http!Reverse(w) \in [1 .. K -> S]
    BY <1>1, <1>2, <2>1
  <2>4. Http!Reverse(s) \in [1 .. L -> S]
    BY <1>1, <1>2, <2>2
  <2> QED
    BY <2>3, <2>4
<1>4. ASSUME NEW i \in 1 .. K PROVE Http!Reverse(w)[i] = Http!Reverse(s)[i]
  <2>1. i \in 1 .. L /\ (K - i) + 1 \in 1 .. K /\ n + ((K - i) + 1) = (L - i) + 1
    BY <1>1
  <2>2. w[(K - i) + 1] = s[n + ((K - i) + 1)]
    BY <1>1, <2>1
  <2> QED
    BY <1>2, <2>1, <2>2
<1>5. K <= L
  BY <1>1
<1>6. SubSeq(Http!Reverse(s), 1, K) = Http!Reverse(w)
  <2>1. \A i \in 1 .. K : i \in 1 .. Len(Http!Reverse(s))
    BY <1>1, <1>3
  <2>2. SubSeq(Http!Reverse(s), 1, K) \in Seq(S) /\ Len(SubSeq(Http!Reverse(s), 1, K)) = K
        /\ \A i \in 1 .. K : SubSeq(Http!Reverse(s), 1, K)[i] = Http!Reverse(s)[i]
    BY <1>3, <2>1, SubSeqProperties
  <2> QED
    BY <1>3, <1>4, <2>2, SeqEqual
<1> QED
  BY <1>3, <1>5, <1>6 DEF Http!IsSuffix, Http!IsPrefix

\* Of what has been received the definitions say what the invariant says of the text.
LEMMA HttpImplies ==
  ASSUME Http!HttpAssumption, HttpInv
  PROVE  AnsweredAtEmptyLine
<1>1. HttpTypes /\ Wires /\ LinesTrue /\ HttpLine \in Nat \ {0, 1}
  BY DEF HttpInv, Http!HttpAssumption
<1>2. Http!TypeOK
  <2>1. ASSUME NEW c \in Http!Conn PROVE text[c] \in Seq(Http!Char) /\ wire[c] \in Seq(Http!Char)
    BY <1>1 DEF HttpTypes
  <2>2. ASSUME NEW c \in Http!Conn, peer[c] \in {"up", "fin"} PROVE Http!IsSuffix(wire[c], text[c])
    <3>1. PICK n \in Nat : n = Len(text[c]) - Len(wire[c]) /\ \A i \in 1 .. Len(wire[c]) : wire[c][i] = text[c][n + i]
      BY <1>1, <2>2 DEF Wires, There, Seen
    <3> QED
      BY <2>1, <3>1, EndIsSuffix
  <2> QED
    BY <1>1, <2>1, <2>2 DEF HttpTypes, Http!TypeOK
<1>3. ASSUME at = "answer", peer[conn_fd] \in {"up", "fin"}, Http!Fits(Http!Received(conn_fd))
      PROVE  \E k \in Http!EmptyLines(Http!Received(conn_fd)) :
               /\ Http!EmptyLines(Http!Received(conn_fd)) = {k}
               /\ k = Len(Http!Received(conn_fd))
                  \/ (k + 1 = Len(Http!Received(conn_fd)) /\ Http!Joins(Http!Received(conn_fd), k + 1))
  <2>1. PICK t \in Seq(Http!Char), n \in Nat : t = text[conn_fd] /\ n = Seen(conn_fd) /\ n <= Len(t)
    <3>1. conn_fd \in Http!Conn /\ text[conn_fd] \in Seq(Http!Char) /\ wire[conn_fd] \in Seq(Http!Char)
      BY <1>1, <1>3 DEF HttpTypes
    <3>2. PICK L \in Nat, K \in Nat : L = Len(text[conn_fd]) /\ K = Len(wire[conn_fd])
      BY <3>1
    <3>3. PICK n \in Nat : n = Seen(conn_fd)
      BY <1>1, <1>3, <3>1 DEF Wires, There
    <3>4. n <= L
      <4>1. n = L - K
        BY <3>2, <3>3 DEF Seen
      <4> QED
        BY <4>1
    <3> QED
      BY <3>1, <3>2, <3>3, <3>4
  <2>2. PICK r : r = Http!Received(conn_fd)
    OBVIOUS
  <2>3. r = SubSeq(t, 1, n)
    BY <2>1, <2>2 DEF Http!Received, Seen
  <2>4. Len(r) = n /\ \A i \in 1 .. n : r[i] = t[i]
    <3>1. \A i \in 1 .. n : i \in 1 .. Len(t)
      BY <2>1
    <3> QED
      BY <2>3, <3>1, SubSeqProperties
  <2>5. FitsUpTo(r, n)
    BY <1>3, <2>2, <2>4 DEF Http!Fits, FitsUpTo
  <2>6. FitsUpTo(t, n)
    BY <2>4, <2>5, SameBefore
  <2>7. ~Spinning(conn_fd) /\ InLine(t, n, peer[conn_fd] = "up")
    BY <1>1, <1>3, <2>1, <2>6 DEF LinesTrue, There, Spinning
  <2>8. LastEmpty(t, n)
    BY <1>3, <2>7 DEF InLine
  <2>9. LastEmpty(r, n)
    BY <2>4, <2>8, SameBefore
  <2>10. PICK k \in 2 .. n : /\ EmptyAt(r, k) /\ \A j \in 2 .. n : EmptyAt(r, j) => j = k
                             /\ k = n \/ (k + 1 = n /\ Http!Joins(r, n))
    BY <2>9 DEF LastEmpty
  <2>11. Http!EmptyLines(r) = {j \in 2 .. n : EmptyAt(r, j)}
    BY <2>4 DEF Http!EmptyLines, EmptyAt
  <2>12. k \in Http!EmptyLines(r) /\ Http!EmptyLines(r) = {k}
    BY <2>10, <2>11
  <2> QED
    BY <2>2, <2>4, <2>10, <2>12
<1> QED
  BY <1>2, <1>3 DEF AnsweredAtEmptyLine, Http!AnsweredAtEmptyLine

\* An HTTP request is answered when it has been read up to its first empty line
\* and no further, in whatever pieces it comes and whatever ends its lines.
THEOREM AnsweredAtEnd == ASSUME Http!HttpAssumption PROVE Http!Spec => []AnsweredAtEmptyLine
<1>1. Http!Init => HttpInv
  BY HttpStarts
<1>2. HttpInv /\ [Http!Next]_(Http!vars) => HttpInv'
  BY HttpKeeps
<1>3. HttpInv => AnsweredAtEmptyLine
  BY HttpImplies
<1> QED
  BY <1>1, <1>2, <1>3, PTL DEF Http!Spec

-----------------------------------------------------------------------------
(* Telnet: what is known of a connection *)

\* The ranges.  Only a client that is being served has an open connection, and
\* one that has not been has no answers.
TelnetTypes ==
    /\ user \in [Tel!Conn -> {"new", "up", "eof", "gone"}]
    /\ timeouts \in [Tel!Conn -> 0 .. TelnetProbes]
    /\ turn \in [Tel!Conn -> {"new", "backlog", "open", "closed"}]
    /\ rst \in [Tel!Conn -> {"no", "pending", "reported"}]
    /\ serving \in Tel!Conn \cup {NoConn} /\ cwd \in Dir /\ whole \in BOOLEAN
    /\ DOMAIN typed = Tel!Conn /\ DOMAIN shown = Tel!Conn /\ DOMAIN replied = Tel!Conn
    /\ DOMAIN upward = Tel!Conn /\ DOMAIN downward = Tel!Conn
    /\ \A c \in Tel!Conn : /\ serving = c <=> turn[c] = "open"
                           /\ user[c] = "new" <=> turn[c] = "new"
                           /\ turn[c] \in {"new", "backlog"} => replied[c] = <<>>

Question == {q \in [type : {"ping", "text"}, data : Tel!Lines \cup {"none"}] :
                q.type = "ping" <=> q.data = "none"}
Message == [type : {"ping", "text"}, no : Nat, data : Tel!Lines \cup {"none"}]

\* The numbers of the messages, or answers, among the pieces grow.
Ascending(p) ==
    \A i, j \in 1 .. Len(p) :
        i < j /\ p[i] # Tel!Rest /\ p[j] # Tel!Rest => p[i].no < p[j].no
Above(n, p) == \A j \in 1 .. Len(p) : p[j] # Tel!Rest => n < p[j].no

\* What is known of the messages a client sent: the pieces u on their way are
\* pieces of a, in this order; the answers r are to earlier ones.
Asked(a, u, r) ==
    /\ a \in Seq(Question) /\ Len(a) <= MaxTyped
    /\ u \in Seq(Message \cup {Tel!Rest}) /\ Len(u) <= 2 * Len(a)
    /\ \A i \in 1 .. Len(u) : u[i] # Tel!Rest =>
         /\ u[i].no \in 1 .. Len(a)
         /\ u[i].type = a[u[i].no].type /\ u[i].data = a[u[i].no].data
    /\ Ascending(u)
    /\ r \in Seq(Tel!Answer)
    /\ \A i \in 1 .. Len(r) :
         /\ r[i].no \in i .. Len(a)
         /\ r[i].type = "pong" <=> a[r[i].no].type = "ping"
         /\ \A j \in 1 .. i - 1 : r[j].no < r[i].no
         /\ Above(r[i].no, u)

\* The pieces d on their way back are pieces of the answers r, and later than
\* those the client has recognised, g.
Answered(r, d, g) ==
    /\ d \in Seq(Tel!Answer \cup {Tel!Rest}) /\ Len(d) <= 2 * Len(r)
    /\ \A i \in 1 .. Len(d) : d[i] # Tel!Rest => \E k \in 1 .. Len(r) : d[i] = r[k]
    /\ Ascending(d)
    /\ g \in Seq(Tel!Answer)
    /\ \A i \in 1 .. Len(g) :
         /\ \E k \in 1 .. Len(r) : g[i] = r[k]
         /\ \A j \in 1 .. i - 1 : g[j].no < g[i].no
         /\ Above(g[i].no, d)

\* Messages that arrive whole, two pieces each.
AskedWhole(a, u, r, who) ==
    /\ \E h \in Nat :
         /\ Len(u) = 2 * h
         /\ who # "gone" => Len(r) + h = Len(a)
         /\ \A k \in 1 .. h : /\ u[2 * k - 1] # Tel!Rest /\ u[2 * k - 1].no = Len(r) + k
                              /\ u[2 * k] = Tel!Rest
    /\ \A i \in 1 .. Len(r) : r[i].no = i

AnsweredWhole(r, d, g, who) ==
    IF who = "gone" THEN d = <<>> /\ g = <<>>
    ELSE /\ \E h \in Nat :
              /\ Len(d) = 2 * h
              /\ Len(g) + h = Len(r)
              /\ \A k \in 1 .. h : d[2 * k - 1] = r[Len(g) + k] /\ d[2 * k] = Tel!Rest
         /\ \A k \in 1 .. Len(g) : g[k] = r[k]

\* The directory is that of the last cd that was answered.
Directory(a, r, dir) ==
    \A i \in 1 .. Len(r) :
        /\ a[r[i].no].data \in Dir
        /\ \A k \in i + 1 .. Len(r) : a[r[k].no].data \notin Dir
        => dir = a[r[i].no].data

Own(a, r) ==
    \A i, j \in 1 .. Len(r) :
        /\ i < j /\ a[r[i].no].data \in Dir /\ a[r[j].no].data = "ls"
        /\ \A k \in i + 1 .. j - 1 : a[r[k].no].data \notin Dir
        => r[j].data = a[r[i].no].data

\* All that is known of one connection; w says that messages arrive whole.
Talk(a, u, r, d, g, who, w) ==
    /\ Asked(a, u, r) /\ Answered(r, d, g)
    /\ w = TRUE => AskedWhole(a, u, r, who) /\ AnsweredWhole(r, d, g, who)
    /\ Own(a, r)

Dialogue(c) ==
    /\ Talk(typed[c], upward[c], replied[c], downward[c], shown[c], user[c], whole)
    /\ turn[c] = "open" => Directory(typed[c], replied[c], cwd)

TelnetInv == TelnetTypes /\ \A c \in Tel!Conn : Dialogue(c)

-----------------------------------------------------------------------------
(* Telnet: sequences *)

\* A message and its rest at the end of what is under way.
LEMMA SentIs ==
  ASSUME NEW S, NEW p \in Seq(S), NEW m \in S, Tel!Rest \in S
  PROVE  /\ Tel!Sent(p, m) \in Seq(S) /\ Len(Tel!Sent(p, m)) = Len(p) + 2
         /\ \A i \in 1 .. Len(p) : Tel!Sent(p, m)[i] = p[i]
         /\ Tel!Sent(p, m)[Len(p) + 1] = m /\ Tel!Sent(p, m)[Len(p) + 2] = Tel!Rest
<1>1. PICK q : q = <<m, Tel!Rest>>
  OBVIOUS
<1>2. q \in Seq(S) /\ Len(q) = 2 /\ q[1] = m /\ q[2] = Tel!Rest
  BY <1>1
<1>3. /\ p \o q \in Seq(S) /\ Len(p \o q) = Len(p) + Len(q)
      /\ \A i \in 1 .. Len(p) + Len(q) : (p \o q)[i] = IF i <= Len(p) THEN p[i] ELSE q[i - Len(p)]
  BY <1>2, ConcatProperties
<1>0. PICK L \in Nat : L = Len(p)
  OBVIOUS
<1>4. PICK z : z = p \o q /\ L = Len(p)
  BY <1>0
<1>5. Tel!Sent(p, m) = z
  BY <1>1, <1>4 DEF Tel!Sent
<1>6. z \in Seq(S) /\ Len(z) = L + 2 /\ \A i \in 1 .. L + 2 : z[i] = IF i <= L THEN p[i] ELSE q[i - L]
  BY <1>2, <1>3, <1>4
<1>7. \A i \in 1 .. L : z[i] = p[i]
  BY <1>6
<1>8. z[L + 1] = q[1] /\ z[L + 2] = q[2]
  <2>1. L + 1 \in 1 .. L + 2 /\ L + 2 \in 1 .. L + 2 /\ ~(L + 1 <= L) /\ ~(L + 2 <= L)
        /\ (L + 1) - L = 1 /\ (L + 2) - L = 2
    OBVIOUS
  <2> QED
    BY <1>6, <2>1
<1> QED
  BY <1>2, <1>4, <1>5, <1>6, <1>7, <1>8

\* v is what is left of u when pieces are taken at its front or cut at its end.
PartOf(v, u, n) ==
    Len(v) + n <= Len(u) /\ \A i \in 1 .. Len(v) : v[i] = u[n + i]

\* What is left when n pieces have been taken.
LEMMA AfterIs ==
  ASSUME NEW S, NEW p \in Seq(S), NEW n \in Nat, n <= Len(p)
  PROVE  /\ Tel!After(p, n) \in Seq(S) /\ Len(Tel!After(p, n)) = Len(p) - n
         /\ PartOf(Tel!After(p, n), p, n)
<1>0. PICK L \in Nat : L = Len(p)
  OBVIOUS
<1>1. PICK z : z = SubSeq(p, n + 1, L) /\ L = Len(p)
  BY <1>0
<1>2. n + 1 \in Int /\ L \in Int /\ \A i \in n + 1 .. L : p[i] \in S
  BY <1>1
<1>3. /\ z \in Seq(S) /\ Len(z) = IF n + 1 <= L THEN L - (n + 1) + 1 ELSE 0
      /\ \A i \in 1 .. L - (n + 1) + 1 : z[i] = p[(n + 1) + i - 1]
  BY <1>1, <1>2, SubSeqProperties
<1>4. Len(z) = L - n
  BY <1>1, <1>3
<1>5. \A i \in 1 .. L - n : z[i] = p[n + i]
  <2>1. \A i \in 1 .. L - n : i \in 1 .. L - (n + 1) + 1 /\ (n + 1) + i - 1 = n + i
    OBVIOUS
  <2> QED
    BY <1>3, <2>1
<1>6. Tel!After(p, n) = z
  BY <1>1 DEF Tel!After
<1>7. (L - n) + n <= L
  BY <1>1
<1> QED
  BY <1>1, <1>3, <1>4, <1>5, <1>6, <1>7 DEF PartOf

\* What is left when all but the first n are cut off.
LEMMA FirstIs ==
  ASSUME NEW S, NEW p \in Seq(S), NEW n \in 0 .. Len(p)
  PROVE  /\ SubSeq(p, 1, n) \in Seq(S) /\ Len(SubSeq(p, 1, n)) = n
         /\ PartOf(SubSeq(p, 1, n), p, 0)
<1>0. PICK L \in Nat : L = Len(p)
  OBVIOUS
<1>1. PICK z : z = SubSeq(p, 1, n) /\ L = Len(p)
  BY <1>0
<1>2. n \in Nat /\ n <= L
  BY <1>1
<1>3. n \in Int /\ \A i \in 1 .. n : p[i] \in S
  BY <1>1, <1>2
<1>4. /\ z \in Seq(S) /\ Len(z) = IF 1 <= n THEN n - 1 + 1 ELSE 0
      /\ \A i \in 1 .. n - 1 + 1 : z[i] = p[1 + i - 1]
  BY <1>1, <1>3, SubSeqProperties
<1>5. Len(z) = n
  BY <1>2, <1>4
<1>6. \A i \in 1 .. n : z[i] = p[0 + i]
  <2>1. \A i \in 1 .. n : i \in 1 .. n - 1 + 1 /\ 1 + i - 1 = 0 + i
    BY <1>2
  <2> QED
    BY <1>4, <2>1
<1> QED
  BY <1>1, <1>2, <1>4, <1>5, <1>6 DEF PartOf

\* One more element.
LEMMA OneMoreIs ==
  ASSUME NEW S, NEW p \in Seq(S), NEW x \in S
  PROVE  /\ Append(p, x) \in Seq(S) /\ Len(Append(p, x)) = Len(p) + 1 /\ Len(p) \in Nat
         /\ \A i \in 1 .. Len(p) : Append(p, x)[i] = p[i]
         /\ Append(p, x)[Len(p) + 1] = x
  BY AppendProperties

\* What is under way ascends when some of it has been taken or lost.
LEMMA PartAscends ==
  ASSUME NEW S, NEW u \in Seq(S), NEW v \in Seq(S), NEW n \in Nat, PartOf(v, u, n)
  PROVE  /\ Ascending(u) => Ascending(v)
         /\ \A l : Above(l, u) => Above(l, v)
         /\ Len(v) \in Nat /\ Len(u) \in Nat /\ Len(v) <= Len(u)
         /\ \A i \in 1 .. Len(v) : n + i \in 1 .. Len(u) /\ v[i] = u[n + i]
<1>1. PICK L \in Nat, M \in Nat : L = Len(u) /\ M = Len(v) /\ M + n <= L
  BY DEF PartOf
<1>2. \A i \in 1 .. M : n + i \in 1 .. L /\ v[i] = u[n + i]
  <2>1. \A i \in 1 .. M : v[i] = u[n + i]
    BY <1>1 DEF PartOf
  <2>2. \A i \in 1 .. M : n + i \in 1 .. L
    BY <1>1
  <2> QED
    BY <2>1, <2>2
<1>3. ASSUME Ascending(u) PROVE Ascending(v)
  <2> SUFFICES ASSUME NEW i \in 1 .. M, NEW j \in 1 .. M, i < j, v[i] # Tel!Rest, v[j] # Tel!Rest
               PROVE  v[i].no < v[j].no
    BY <1>1 DEF Ascending
  <2>1. n + i \in 1 .. L /\ n + j \in 1 .. L /\ v[i] = u[n + i] /\ v[j] = u[n + j]
    BY <1>2
  <2>2. n + i < n + j
    OBVIOUS
  <2> QED
    BY <1>1, <1>3, <2>1, <2>2 DEF Ascending
<1>4. ASSUME NEW l, Above(l, u) PROVE Above(l, v)
  BY <1>1, <1>2, <1>4 DEF Above
<1>5. M <= L
  BY <1>1
<1> QED
  BY <1>1, <1>2, <1>3, <1>4, <1>5

\* A message is not the rest of one.
LEMMA RestIsNone ==
  /\ \A m \in Message : m # Tel!Rest
  /\ \A x \in Tel!Answer : x # Tel!Rest
<1>1. ASSUME NEW m \in Message PROVE m.type # Tel!Rest.type
  BY DEF Message, Tel!Rest
<1>2. ASSUME NEW x \in Tel!Answer PROVE x.type # Tel!Rest.type
  BY DEF Tel!Answer, Tel!Rest
<1> QED
  BY <1>1, <1>2

-----------------------------------------------------------------------------
(* Telnet: one connection *)

\* What the parts of Asked say of single elements, with numbers for lengths.
LEMMA AskedSays ==
  ASSUME NEW a, NEW u, NEW r, Asked(a, u, r), Tel!TelnetAssumption
  PROVE  \E A \in Nat, U \in Nat, R \in Nat :
           /\ A = Len(a) /\ U = Len(u) /\ R = Len(r) /\ A <= MaxTyped /\ U <= 2 * A /\ R <= A
           /\ MaxTyped \in Nat
           /\ \A i \in 1 .. A : a[i] \in Question
           /\ \A i \in 1 .. U : u[i] # Tel!Rest =>
                /\ u[i] \in Message /\ u[i].no \in 1 .. A
                /\ u[i].type = a[u[i].no].type /\ u[i].data = a[u[i].no].data
           /\ \A i \in 1 .. R : /\ r[i] \in Tel!Answer /\ r[i].no \in Nat
                                /\ i <= r[i].no /\ r[i].no <= A
<1>1. /\ a \in Seq(Question) /\ u \in Seq(Message \cup {Tel!Rest}) /\ r \in Seq(Tel!Answer)
      /\ Len(a) <= MaxTyped /\ Len(u) <= 2 * Len(a) /\ MaxTyped \in Nat
  BY DEF Asked, Tel!TelnetAssumption
<1>2. PICK A \in Nat, U \in Nat, R \in Nat : A = Len(a) /\ U = Len(u) /\ R = Len(r)
  BY <1>1
<1>3. \A i \in 1 .. A : a[i] \in Question
  BY <1>1, <1>2
<1>4. \A i \in 1 .. U : u[i] \in Message \cup {Tel!Rest}
  BY <1>1, <1>2
<1>5. \A i \in 1 .. R : r[i] \in Tel!Answer
  BY <1>1, <1>2
<1>6. \A i \in 1 .. R : r[i].no \in i .. A
  BY <1>2 DEF Asked
<1>7. \A i \in 1 .. R : r[i].no \in Nat /\ i <= r[i].no /\ r[i].no <= A
  BY <1>6
<1>8. R <= A
  <2>1. CASE R = 0
    BY <2>1
  <2>2. CASE R # 0
    <3>1. R \in 1 .. R
      BY <2>2
    <3>2. R <= r[R].no /\ r[R].no <= A /\ r[R].no \in Nat
      BY <1>7, <3>1
    <3> QED
      BY <3>2
  <2> QED
    BY <2>1, <2>2
<1>9. \A i \in 1 .. U : u[i] # Tel!Rest =>
         /\ u[i].no \in 1 .. A
         /\ u[i].type = a[u[i].no].type /\ u[i].data = a[u[i].no].data
  BY <1>2 DEF Asked
<1> QED
  BY <1>1, <1>2, <1>3, <1>4, <1>5, <1>7, <1>8, <1>9

\* A client asks one more.
LEMMA AskKept ==
  ASSUME NEW a, NEW u, NEW r, Asked(a, u, r), Tel!TelnetAssumption, Len(a) < MaxTyped,
         NEW q \in Question, NEW m, m = [type |-> q.type, no |-> Len(a) + 1, data |-> q.data]
  PROVE  Asked(Append(a, q), Tel!Sent(u, m), r)
<1>1. PICK A \in Nat, U \in Nat, R \in Nat :
           /\ A = Len(a) /\ U = Len(u) /\ R = Len(r) /\ A <= MaxTyped /\ U <= 2 * A /\ R <= A
           /\ MaxTyped \in Nat
           /\ \A i \in 1 .. A : a[i] \in Question
           /\ \A i \in 1 .. U : u[i] # Tel!Rest =>
                /\ u[i] \in Message /\ u[i].no \in 1 .. A
                /\ u[i].type = a[u[i].no].type /\ u[i].data = a[u[i].no].data
           /\ \A i \in 1 .. R : /\ r[i] \in Tel!Answer /\ r[i].no \in Nat
                                /\ i <= r[i].no /\ r[i].no <= A
  BY AskedSays
<1>2. a \in Seq(Question) /\ u \in Seq(Message \cup {Tel!Rest}) /\ r \in Seq(Tel!Answer)
  BY DEF Asked
<1>3. PICK b : b = Append(a, q)
  OBVIOUS
<1>4. PICK v : v = Tel!Sent(u, m)
  OBVIOUS
<1>5. /\ b \in Seq(Question) /\ Len(b) = A + 1 /\ \A i \in 1 .. A : b[i] = a[i]
      /\ b[A + 1] = q
  BY <1>1, <1>2, <1>3, OneMoreIs
<1>6. m \in Message /\ m.no = A + 1 /\ m.type = q.type /\ m.data = q.data /\ m # Tel!Rest
  <2>1. q.type \in {"ping", "text"} /\ q.data \in Tel!Lines \cup {"none"}
    BY DEF Question
  <2>2. m \in Message
    BY <1>1, <2>1 DEF Message
  <2> QED
    BY <1>1, <2>2, RestIsNone
<1>7. /\ v \in Seq(Message \cup {Tel!Rest}) /\ Len(v) = U + 2
      /\ \A i \in 1 .. U : v[i] = u[i]
      /\ v[U + 1] = m /\ v[U + 2] = Tel!Rest
  <2>1. PICK S : S = Message \cup {Tel!Rest}
    OBVIOUS
  <2>2. m \in S /\ Tel!Rest \in S /\ u \in Seq(S)
    BY <1>2, <1>6, <2>1
  <2>3. /\ Tel!Sent(u, m) \in Seq(S) /\ Len(Tel!Sent(u, m)) = Len(u) + 2
        /\ \A i \in 1 .. Len(u) : Tel!Sent(u, m)[i] = u[i]
        /\ Tel!Sent(u, m)[Len(u) + 1] = m /\ Tel!Sent(u, m)[Len(u) + 2] = Tel!Rest
    BY ONLY <2>2, SentIs
  <2>4. /\ v \in Seq(S) /\ Len(v) = Len(u) + 2
        /\ \A i \in 1 .. Len(u) : v[i] = u[i]
        /\ v[Len(u) + 1] = m /\ v[Len(u) + 2] = Tel!Rest
    BY <1>4, <2>3
  <2> QED
    BY <1>1, <2>1, <2>4
<1>8. \A i \in 1 .. U + 2 : v[i] # Tel!Rest =>
         /\ v[i].no \in Nat /\ v[i].no \in 1 .. A + 1
         /\ i <= U => v[i] = u[i] /\ v[i].no <= A
         /\ i > U => v[i] = m /\ v[i].no = A + 1
         /\ v[i].type = b[v[i].no].type /\ v[i].data = b[v[i].no].data
  <2> SUFFICES ASSUME NEW i \in 1 .. U + 2, v[i] # Tel!Rest
               PROVE  /\ v[i].no \in Nat /\ v[i].no \in 1 .. A + 1
                      /\ i <= U => v[i] = u[i] /\ v[i].no <= A
                      /\ i > U => v[i] = m /\ v[i].no = A + 1
                      /\ v[i].type = b[v[i].no].type /\ v[i].data = b[v[i].no].data
    OBVIOUS
  <2>1. CASE i <= U
    <3>1. i \in 1 .. U /\ v[i] = u[i]
      BY <1>7, <2>1
    <3>2. u[i].no \in 1 .. A /\ u[i].type = a[u[i].no].type /\ u[i].data = a[u[i].no].data
      BY <1>1, <3>1
    <3>3. b[u[i].no] = a[u[i].no]
      BY <1>5, <3>2
    <3>4. u[i].no \in Nat /\ u[i].no \in 1 .. A + 1 /\ u[i].no <= A /\ ~(i > U)
      BY <2>1, <3>2
    <3> QED
      BY <3>1, <3>2, <3>3, <3>4
  <2>2. CASE ~(i <= U)
    <3>1. i = U + 1 \/ i = U + 2
      BY <2>2
    <3>2. v[i] = m
      BY <1>7, <3>1
    <3>3. A + 1 \in Nat /\ A + 1 \in 1 .. A + 1
      OBVIOUS
    <3> QED
      BY <1>5, <1>6, <2>2, <3>2, <3>3
  <2> QED
    BY <2>1, <2>2
<1>9. Ascending(v)
  <2> SUFFICES ASSUME NEW i \in 1 .. U + 2, NEW j \in 1 .. U + 2, i < j,
                      v[i] # Tel!Rest, v[j] # Tel!Rest
               PROVE  v[i].no < v[j].no
    BY <1>7 DEF Ascending
  <2>1. CASE j <= U
    <3>1. i \in 1 .. U /\ j \in 1 .. U
      BY <2>1
    <3>2. v[i] = u[i] /\ v[j] = u[j]
      BY <1>7, <3>1
    <3> QED
      BY <1>1, <3>1, <3>2 DEF Asked, Ascending
  <2>2. CASE ~(j <= U)
    <3>1. j = U + 1
      BY <1>7, <2>2
    <3>2. i <= U /\ j > U
      BY <3>1
    <3>3. v[i].no \in Nat /\ v[i].no <= A /\ v[j].no = A + 1
      BY <1>8, <3>2
    <3> QED
      BY <3>3
  <2> QED
    BY <2>1, <2>2
<1>10. ASSUME NEW i \in 1 .. R
       PROVE  /\ r[i].no \in i .. A + 1
              /\ r[i].type = "pong" <=> b[r[i].no].type = "ping"
              /\ \A j \in 1 .. i - 1 : r[j].no < r[i].no
              /\ Above(r[i].no, v)
  <2>1. r[i].no \in Nat /\ i <= r[i].no /\ r[i].no <= A
    BY <1>1
  <2>2. r[i].no \in i .. A + 1 /\ r[i].no \in 1 .. A
    BY <2>1
  <2>3. b[r[i].no] = a[r[i].no]
    BY <1>5, <2>2
  <2>4. /\ r[i].type = "pong" <=> a[r[i].no].type = "ping"
        /\ \A j \in 1 .. i - 1 : r[j].no < r[i].no
        /\ Above(r[i].no, u)
    BY <1>1 DEF Asked
  <2>5. ASSUME NEW j \in 1 .. U + 2, v[j] # Tel!Rest PROVE r[i].no < v[j].no
    <3>1. CASE j <= U
      <4>1. j \in 1 .. U /\ v[j] = u[j]
        BY <1>7, <3>1
      <4> QED
        BY <1>1, <2>4, <2>5, <4>1 DEF Above
    <3>2. CASE ~(j <= U)
      <4>1. v[j].no = A + 1
        BY <1>8, <2>5, <3>2
      <4> QED
        BY <2>1, <4>1
    <3> QED
      BY <3>1, <3>2
  <2>6. Above(r[i].no, v)
    BY <1>7, <2>5 DEF Above
  <2> QED
    BY <2>2, <2>3, <2>4, <2>6
<1>11. Len(b) <= MaxTyped /\ Len(v) <= 2 * Len(b)
  <2>1. A < MaxTyped
    BY <1>1
  <2> QED
    BY <1>1, <1>5, <1>7, <2>1
<1>12. Asked(b, v, r)
  <2>1. \A i \in 1 .. Len(v) : v[i] # Tel!Rest =>
          /\ v[i].no \in 1 .. Len(b)
          /\ v[i].type = b[v[i].no].type /\ v[i].data = b[v[i].no].data
    BY <1>5, <1>7, <1>8
  <2>2. \A i \in 1 .. Len(r) :
         /\ r[i].no \in i .. Len(b)
         /\ r[i].type = "pong" <=> b[r[i].no].type = "ping"
         /\ \A j \in 1 .. i - 1 : r[j].no < r[i].no
         /\ Above(r[i].no, v)
    BY <1>1, <1>5, <1>10
  <2> QED
    BY <1>2, <1>5, <1>7, <1>9, <1>11, <2>1, <2>2 DEF Asked
<1> QED
  BY <1>3, <1>4, <1>12

\* What has been answered does not depend on what is asked afterwards.
LEMMA AskKeepsOwn ==
  ASSUME NEW a, NEW u, NEW r, Asked(a, u, r), Tel!TelnetAssumption, NEW q \in Question, NEW dir
  PROVE  /\ Own(a, r) => Own(Append(a, q), r)
         /\ Directory(a, r, dir) => Directory(Append(a, q), r, dir)
<1>1. \A i \in 1 .. Len(r) : Append(a, q)[r[i].no] = a[r[i].no]
  <2>1. PICK A \in Nat, R \in Nat :
           /\ A = Len(a) /\ R = Len(r)
           /\ \A i \in 1 .. R : r[i].no \in Nat /\ i <= r[i].no /\ r[i].no <= A
    BY AskedSays
  <2>2. \A i \in 1 .. A : Append(a, q)[i] = a[i]
    BY <2>1, OneMoreIs DEF Asked
  <2>3. \A i \in 1 .. R : r[i].no \in 1 .. A
    BY <2>1
  <2> QED
    BY <2>1, <2>2, <2>3
<1>2. PICK b : b = Append(a, q)
  OBVIOUS
<1>3. PICK R \in Nat : R = Len(r)
  BY DEF Asked
<1>4. \A i \in 1 .. R : b[r[i].no] = a[r[i].no]
  BY <1>1, <1>2, <1>3
<1>5. ASSUME Own(a, r) PROVE Own(b, r)
  <2> SUFFICES ASSUME NEW i \in 1 .. R, NEW j \in 1 .. R, i < j, b[r[i].no].data \in Dir,
                      b[r[j].no].data = "ls",
                      \A k \in i + 1 .. j - 1 : b[r[k].no].data \notin Dir
               PROVE  r[j].data = b[r[i].no].data
    BY <1>3 DEF Own
  <2>1. \A k \in i + 1 .. j - 1 : k \in 1 .. R
    OBVIOUS
  <2>2. \A k \in i + 1 .. j - 1 : a[r[k].no].data \notin Dir
    BY <1>4, <2>1
  <2>3. a[r[i].no].data \in Dir /\ a[r[j].no].data = "ls"
    BY <1>4
  <2>4. r[j].data = a[r[i].no].data
    BY <1>3, <1>5, <2>2, <2>3 DEF Own
  <2> QED
    BY <1>4, <2>4
<1>6. ASSUME Directory(a, r, dir) PROVE Directory(b, r, dir)
  <2> SUFFICES ASSUME NEW i \in 1 .. R, b[r[i].no].data \in Dir,
                      \A k \in i + 1 .. R : b[r[k].no].data \notin Dir
               PROVE  dir = b[r[i].no].data
    BY <1>3 DEF Directory
  <2>1. \A k \in i + 1 .. R : k \in 1 .. R
    OBVIOUS
  <2>2. \A k \in i + 1 .. R : a[r[k].no].data \notin Dir
    BY <1>4, <2>1
  <2> QED
    BY <1>3, <1>4, <1>6, <2>2 DEF Directory
<1> QED
  BY <1>2, <1>5, <1>6

\* Pieces are read or lost.
LEMMA PartAsked ==
  ASSUME NEW a, NEW u, NEW r, NEW v, NEW n \in Nat, Asked(a, u, r),
         v \in Seq(Message \cup {Tel!Rest}), PartOf(v, u, n)
  PROVE  Asked(a, v, r)
<1>1. u \in Seq(Message \cup {Tel!Rest}) /\ Ascending(u) /\ Len(a) \in Nat
  BY DEF Asked
<1>2. /\ Ascending(v) /\ \A l : Above(l, u) => Above(l, v)
      /\ Len(v) \in Nat /\ Len(u) \in Nat /\ Len(v) <= Len(u)
      /\ \A i \in 1 .. Len(v) : n + i \in 1 .. Len(u) /\ v[i] = u[n + i]
  BY <1>1, PartAscends
<1>3. Len(v) <= 2 * Len(a)
  BY <1>1, <1>2 DEF Asked
<1>4. \A i \in 1 .. Len(v) : v[i] # Tel!Rest =>
         /\ v[i].no \in 1 .. Len(a)
         /\ v[i].type = a[v[i].no].type /\ v[i].data = a[v[i].no].data
  <2>1. \A i \in 1 .. Len(u) : u[i] # Tel!Rest =>
           /\ u[i].no \in 1 .. Len(a)
           /\ u[i].type = a[u[i].no].type /\ u[i].data = a[u[i].no].data
    BY DEF Asked
  <2> TAKE i \in 1 .. Len(v)
  <2>2. PICK k \in 1 .. Len(u) : k = n + i /\ v[i] = u[k]
    BY ONLY <1>2, i \in 1 .. Len(v)
  <2> QED
    BY ONLY <2>1, <2>2
<1>5. \A i \in 1 .. Len(r) :
         /\ r[i].no \in i .. Len(a)
         /\ r[i].type = "pong" <=> a[r[i].no].type = "ping"
         /\ \A j \in 1 .. i - 1 : r[j].no < r[i].no
         /\ Above(r[i].no, v)
  <2>1. \A i \in 1 .. Len(r) :
           /\ r[i].no \in i .. Len(a)
           /\ r[i].type = "pong" <=> a[r[i].no].type = "ping"
           /\ \A j \in 1 .. i - 1 : r[j].no < r[i].no
           /\ Above(r[i].no, u)
    BY DEF Asked
  <2> QED
    BY ONLY <1>2, <2>1
<1>6. a \in Seq(Question) /\ Len(a) <= MaxTyped /\ r \in Seq(Tel!Answer)
  BY DEF Asked
<1> QED
  BY ONLY <1>2, <1>3, <1>4, <1>5, <1>6, v \in Seq(Message \cup {Tel!Rest}) DEF Asked

\* An answer to the first piece that is under way.
LEMMA ReplyKept ==
  ASSUME NEW a, NEW u, NEW r, Asked(a, u, r), Tel!TelnetAssumption,
         NEW v, NEW n \in Nat \ {0}, v \in Seq(Message \cup {Tel!Rest}), PartOf(v, u, n),
         u[1] # Tel!Rest,
         NEW x \in Tel!Answer, x.no = u[1].no, x.type = "pong" <=> u[1].type = "ping"
  PROVE  /\ Asked(a, v, Append(r, x))
         /\ \A i \in 1 .. Len(r) : r[i].no < x.no
<1>1. PICK A \in Nat, U \in Nat, R \in Nat :
           /\ A = Len(a) /\ U = Len(u) /\ R = Len(r) /\ A <= MaxTyped /\ U <= 2 * A /\ R <= A
           /\ MaxTyped \in Nat
           /\ \A i \in 1 .. A : a[i] \in Question
           /\ \A i \in 1 .. U : u[i] # Tel!Rest =>
                /\ u[i] \in Message /\ u[i].no \in 1 .. A
                /\ u[i].type = a[u[i].no].type /\ u[i].data = a[u[i].no].data
           /\ \A i \in 1 .. R : /\ r[i] \in Tel!Answer /\ r[i].no \in Nat
                                /\ i <= r[i].no /\ r[i].no <= A
  BY AskedSays
<1>2. u \in Seq(Message \cup {Tel!Rest}) /\ r \in Seq(Tel!Answer)
  BY DEF Asked
<1>3. Asked(a, v, r)
  BY PartAsked
<1>4. 1 \in 1 .. U /\ U # 0 /\ Len(v) + n <= U
  <2>1. Len(v) + n <= U
    BY <1>1 DEF PartOf
  <2>2. Len(v) \in Nat
    OBVIOUS
  <2> QED
    BY <2>1, <2>2
<1>5. u[1].no \in 1 .. A /\ u[1].type = a[u[1].no].type
  BY <1>1, <1>4
<1>6. PICK N \in Nat : N = x.no /\ N \in 1 .. A
  BY <1>5
<1>7. \A i \in 1 .. R : r[i].no < N
  <2> SUFFICES ASSUME NEW i \in 1 .. R PROVE r[i].no < N
    OBVIOUS
  <2>1. Above(r[i].no, u)
    BY <1>1 DEF Asked
  <2> QED
    BY <1>1, <1>4, <1>6, <2>1 DEF Above
<1>8. R < N
  <2>1. CASE R = 0
    BY <1>6, <2>1
  <2>2. CASE R # 0
    <3>1. R \in 1 .. R
      BY <2>2
    <3>2. R <= r[R].no /\ r[R].no < N /\ r[R].no \in Nat
      BY <1>1, <1>7, <3>1
    <3> QED
      BY <3>2
  <2> QED
    BY <2>1, <2>2
<1>9. PICK s : s = Append(r, x)
  OBVIOUS
<1>10. s \in Seq(Tel!Answer) /\ Len(s) = R + 1 /\ s[R + 1] = x /\ \A i \in 1 .. R : s[i] = r[i]
  BY <1>1, <1>2, <1>9, OneMoreIs
<1>11. Above(N, v)
  <2>1. Len(v) \in Nat
    OBVIOUS
  <2> SUFFICES ASSUME NEW j \in 1 .. Len(v), v[j] # Tel!Rest PROVE N < v[j].no
    BY DEF Above
  <2>2. v[j] = u[n + j] /\ n + j \in 1 .. U /\ 1 < n + j
    <3>1. v[j] = u[n + j]
      BY DEF PartOf
    <3>2. n + j \in 1 .. U /\ 1 < n + j
      BY <1>4, <2>1
    <3> QED
      BY <3>1, <3>2
  <2> QED
    BY <1>1, <1>4, <1>6, <2>2 DEF Asked, Ascending
<1>12. ASSUME NEW i \in 1 .. R + 1
       PROVE  /\ s[i].no \in i .. A
              /\ s[i].type = "pong" <=> a[s[i].no].type = "ping"
              /\ \A j \in 1 .. i - 1 : s[j].no < s[i].no
              /\ Above(s[i].no, v)
  <2>1. CASE i \in 1 .. R
    <3>1. \A j \in 1 .. i - 1 : j \in 1 .. R
      BY <2>1
    <3>2. s[i] = r[i] /\ \A j \in 1 .. i - 1 : s[j] = r[j]
      BY <1>10, <2>1, <3>1
    <3> QED
      BY <1>1, <1>3, <2>1, <3>2 DEF Asked
  <2>2. CASE i \notin 1 .. R
    <3>1. i = R + 1 /\ \A j \in 1 .. i - 1 : j \in 1 .. R
      BY <2>2
    <3>2. s[i] = x /\ \A j \in 1 .. i - 1 : s[j] = r[j]
      BY <1>10, <3>1
    <3>3. s[i].no \in i .. A
      BY <1>6, <1>8, <3>1, <3>2
    <3>4. s[i].type = "pong" <=> a[s[i].no].type = "ping"
      BY <1>5, <3>2
    <3>5. \A j \in 1 .. i - 1 : s[j].no < s[i].no
      BY <1>6, <1>7, <3>1, <3>2
    <3> QED
      BY <1>6, <1>11, <3>2, <3>3, <3>4, <3>5
  <2> QED
    BY <2>1, <2>2
<1>13. Asked(a, v, s)
  BY <1>1, <1>3, <1>10, <1>12 DEF Asked
<1> QED
  BY <1>1, <1>6, <1>7, <1>9, <1>13

\* What the parts of Answered say of single elements, with numbers for lengths.
Answers(r, d, g, n, m, k) ==
    /\ n = Len(r) /\ m = Len(d) /\ k = Len(g) /\ m <= 2 * n
    /\ \A i \in 1 .. n : r[i] \in Tel!Answer /\ r[i].no \in Nat
    /\ \A i \in 1 .. m : d[i] # Tel!Rest =>
         d[i] \in Tel!Answer /\ d[i].no \in Nat /\ \E l \in 1 .. n : d[i] = r[l]
    /\ \A i \in 1 .. k :
         g[i] \in Tel!Answer /\ g[i].no \in Nat /\ \E l \in 1 .. n : g[i] = r[l]

LEMMA AnsweredSays ==
  ASSUME NEW r, NEW d, NEW g, r \in Seq(Tel!Answer), Answered(r, d, g), Tel!TelnetAssumption
  PROVE  \E R \in Nat, D \in Nat, G \in Nat : Answers(r, d, g, R, D, G)
<1>1. /\ d \in Seq(Tel!Answer \cup {Tel!Rest}) /\ g \in Seq(Tel!Answer)
      /\ Len(d) <= 2 * Len(r)
  BY DEF Answered
<1>2. PICK R \in Nat, D \in Nat, G \in Nat : R = Len(r) /\ D = Len(d) /\ G = Len(g)
  BY <1>1
<1>3. \A x \in Tel!Answer : x.no \in Nat
  BY DEF Tel!Answer, Tel!TelnetAssumption
<1>4. \A i \in 1 .. R : r[i] \in Tel!Answer /\ r[i].no \in Nat
  BY <1>2, <1>3
<1>5. \A i \in 1 .. D : d[i] \in Tel!Answer \cup {Tel!Rest}
  BY <1>1, <1>2
<1>6. \A i \in 1 .. G : g[i] \in Tel!Answer /\ g[i].no \in Nat
  BY <1>1, <1>2, <1>3
<1>7. /\ \A i \in 1 .. D : d[i] # Tel!Rest => \E k \in 1 .. R : d[i] = r[k]
      /\ \A i \in 1 .. G : \E k \in 1 .. R : g[i] = r[k]
  BY <1>2 DEF Answered
<1>8. \A i \in 1 .. D : d[i] # Tel!Rest => d[i] \in Tel!Answer /\ d[i].no \in Nat
  BY <1>3, <1>5
<1>9. D <= 2 * R
  BY <1>1, <1>2
<1>10. R \in Nat /\ D \in Nat /\ G \in Nat
  OBVIOUS
<1>11. Answers(r, d, g, R, D, G)
  BY ONLY <1>2, <1>4, <1>6, <1>7, <1>8, <1>9, Zenon DEF Answers
<1> QED
  BY <1>10, <1>11

\* The answer goes on its way, or the client is gone and it is not seen.
LEMMA ReplySent ==
  ASSUME NEW r, NEW d, NEW g, r \in Seq(Tel!Answer), Answered(r, d, g), Tel!TelnetAssumption,
         NEW x \in Tel!Answer, \A i \in 1 .. Len(r) : r[i].no < x.no
  PROVE  Answered(Append(r, x), Tel!Sent(d, x), g) /\ Answered(Append(r, x), d, g)
<1>0. PICK R \in Nat, D \in Nat, G \in Nat : Answers(r, d, g, R, D, G)
  BY AnsweredSays
<1>1. /\ R = Len(r) /\ D = Len(d) /\ G = Len(g) /\ D <= 2 * R
      /\ \A i \in 1 .. R : r[i] \in Tel!Answer /\ r[i].no \in Nat
      /\ \A i \in 1 .. D : d[i] # Tel!Rest =>
           d[i] \in Tel!Answer /\ d[i].no \in Nat /\ \E k \in 1 .. R : d[i] = r[k]
      /\ \A i \in 1 .. G :
           g[i] \in Tel!Answer /\ g[i].no \in Nat /\ \E k \in 1 .. R : g[i] = r[k]
  BY <1>0, Zenon DEF Answers
<1>2. d \in Seq(Tel!Answer \cup {Tel!Rest}) /\ g \in Seq(Tel!Answer) /\ Ascending(d)
  BY DEF Answered
<1>3. PICK s : s = Append(r, x)
  OBVIOUS
<1>4. PICK e : e = Tel!Sent(d, x)
  OBVIOUS
<1>5. s \in Seq(Tel!Answer) /\ Len(s) = R + 1 /\ s[R + 1] = x /\ \A i \in 1 .. R : s[i] = r[i]
  BY <1>1, <1>3, OneMoreIs
<1>6. x # Tel!Rest /\ x.no \in Nat
  BY RestIsNone DEF Tel!Answer, Tel!TelnetAssumption
<1>7. /\ e \in Seq(Tel!Answer \cup {Tel!Rest}) /\ Len(e) = D + 2
      /\ \A i \in 1 .. D : e[i] = d[i]
      /\ e[D + 1] = x /\ e[D + 2] = Tel!Rest
  <2>1. PICK S : S = Tel!Answer \cup {Tel!Rest}
    OBVIOUS
  <2>2. x \in S /\ Tel!Rest \in S /\ d \in Seq(S)
    BY <1>2, <2>1
  <2>3. /\ Tel!Sent(d, x) \in Seq(S) /\ Len(Tel!Sent(d, x)) = Len(d) + 2
        /\ \A i \in 1 .. Len(d) : Tel!Sent(d, x)[i] = d[i]
        /\ Tel!Sent(d, x)[Len(d) + 1] = x /\ Tel!Sent(d, x)[Len(d) + 2] = Tel!Rest
    BY ONLY <2>2, SentIs
  <2>4. /\ e \in Seq(S) /\ Len(e) = Len(d) + 2
        /\ \A i \in 1 .. Len(d) : e[i] = d[i]
        /\ e[Len(d) + 1] = x /\ e[Len(d) + 2] = Tel!Rest
    BY <1>4, <2>3
  <2> QED
    BY <1>1, <2>1, <2>4
<1>8. \A k \in 1 .. R : k \in 1 .. R + 1 /\ s[k] = r[k] /\ r[k].no < x.no
  BY <1>1, <1>5
<1>9. /\ \A i \in 1 .. D : d[i] # Tel!Rest => /\ \E k \in 1 .. R + 1 : d[i] = s[k]
                                              /\ d[i].no < x.no
      /\ \A i \in 1 .. G : /\ \E k \in 1 .. R + 1 : g[i] = s[k]
                           /\ g[i].no < x.no
  BY <1>1, <1>8
<1>10. ASSUME NEW i \in 1 .. D + 2, e[i] # Tel!Rest
       PROVE  \/ i \in 1 .. D /\ e[i] = d[i]
              \/ i = D + 1 /\ e[i] = x
  <2>1. CASE i \in 1 .. D
    BY <1>7, <2>1
  <2>2. CASE i \notin 1 .. D
    <3>1. i = D + 1 \/ i = D + 2
      BY <2>2
    <3> QED
      BY <1>7, <1>10, <3>1
  <2> QED
    BY <2>1, <2>2
<1>11. \A i \in 1 .. D + 2 : e[i] # Tel!Rest => \E k \in 1 .. R + 1 : e[i] = s[k]
  <2>1. R + 1 \in 1 .. R + 1
    OBVIOUS
  <2> QED
    BY <1>5, <1>9, <1>10, <2>1
<1>12. Ascending(e)
  <2> SUFFICES ASSUME NEW i \in 1 .. D + 2, NEW j \in 1 .. D + 2, i < j,
                      e[i] # Tel!Rest, e[j] # Tel!Rest
               PROVE  e[i].no < e[j].no
    BY <1>7 DEF Ascending
  <2>1. CASE j \in 1 .. D /\ e[j] = d[j]
    <3>1. i \in 1 .. D /\ e[i] = d[i]
      BY <1>10, <2>1
    <3> QED
      BY <1>1, <1>2, <2>1, <3>1 DEF Ascending
  <2>2. CASE j = D + 1 /\ e[j] = x
    <3>1. i \in 1 .. D /\ e[i] = d[i]
      BY <1>10, <2>2
    <3> QED
      BY <1>9, <2>2, <3>1
  <2> QED
    BY <1>10, <2>1, <2>2
<1>13. ASSUME NEW i \in 1 .. G
       PROVE  /\ \A j \in 1 .. i - 1 : g[j].no < g[i].no
              /\ Above(g[i].no, d) /\ Above(g[i].no, e)
  <2>1. (\A j \in 1 .. i - 1 : g[j].no < g[i].no) /\ Above(g[i].no, d)
    BY <1>1 DEF Answered
  <2>2. ASSUME NEW j \in 1 .. D + 2, e[j] # Tel!Rest PROVE g[i].no < e[j].no
    BY <1>1, <1>9, <1>10, <2>1, <2>2 DEF Above
  <2>3. Above(g[i].no, e)
    BY <1>7, <2>2 DEF Above
  <2> QED
    BY <2>1, <2>3
<1>14. D + 2 <= 2 * (R + 1) /\ D <= 2 * (R + 1)
  BY <1>1
<1>15. Answered(s, e, g)
  <2>1. /\ e \in Seq(Tel!Answer \cup {Tel!Rest}) /\ g \in Seq(Tel!Answer)
        /\ Len(e) <= 2 * Len(s)
    BY <1>2, <1>5, <1>7, <1>14
  <2>2. \A i \in 1 .. Len(e) : e[i] # Tel!Rest => \E k \in 1 .. Len(s) : e[i] = s[k]
    BY <1>5, <1>7, <1>11
  <2>3. \A i \in 1 .. Len(g) : /\ \E k \in 1 .. Len(s) : g[i] = s[k]
                               /\ \A j \in 1 .. i - 1 : g[j].no < g[i].no
                               /\ Above(g[i].no, e)
    BY <1>1, <1>5, <1>9, <1>13
  <2> QED
    BY <1>12, <2>1, <2>2, <2>3 DEF Answered
<1>16. Answered(s, d, g)
  BY <1>1, <1>2, <1>5, <1>9, <1>13, <1>14 DEF Answered
<1> QED
  BY <1>3, <1>4, <1>15, <1>16

\* The client reads pieces, and recognises the first if it begins an answer.
LEMMA ReceiveKept ==
  ASSUME NEW r, NEW d, NEW g, r \in Seq(Tel!Answer), Answered(r, d, g), Tel!TelnetAssumption,
         NEW e, NEW n \in Nat \ {0}, e \in Seq(Tel!Answer \cup {Tel!Rest}), PartOf(e, d, n)
  PROVE  /\ Answered(r, e, g)
         /\ d[1] # Tel!Rest => Answered(r, e, Append(g, d[1]))
<1>0. PICK R \in Nat, D \in Nat, G \in Nat : Answers(r, d, g, R, D, G)
  BY AnsweredSays
<1>1. /\ R = Len(r) /\ D = Len(d) /\ G = Len(g) /\ D <= 2 * R
      /\ \A i \in 1 .. R : r[i] \in Tel!Answer /\ r[i].no \in Nat
      /\ \A i \in 1 .. D : d[i] # Tel!Rest =>
           d[i] \in Tel!Answer /\ d[i].no \in Nat /\ \E k \in 1 .. R : d[i] = r[k]
      /\ \A i \in 1 .. G :
           g[i] \in Tel!Answer /\ g[i].no \in Nat /\ \E k \in 1 .. R : g[i] = r[k]
  BY <1>0, Zenon DEF Answers
<1>2. d \in Seq(Tel!Answer \cup {Tel!Rest}) /\ g \in Seq(Tel!Answer) /\ Ascending(d)
  BY DEF Answered
<1>3. /\ Ascending(e) /\ \A l : Above(l, d) => Above(l, e)
      /\ Len(e) \in Nat /\ Len(e) <= D
      /\ \A i \in 1 .. Len(e) : n + i \in 1 .. D /\ e[i] = d[n + i]
  <2>1. PICK S : S = Tel!Answer \cup {Tel!Rest}
    OBVIOUS
  <2>2. d \in Seq(S) /\ e \in Seq(S) /\ n \in Nat /\ PartOf(e, d, n)
    BY <1>2, <2>1
  <2>3. /\ Ascending(d) => Ascending(e)
        /\ \A l : Above(l, d) => Above(l, e)
        /\ Len(e) \in Nat /\ Len(d) \in Nat /\ Len(e) <= Len(d)
        /\ \A i \in 1 .. Len(e) : n + i \in 1 .. Len(d) /\ e[i] = d[n + i]
    BY ONLY <2>2, PartAscends
  <2> QED
    BY <1>1, <1>2, <2>3
<1>4. Len(e) + n <= D /\ 1 \in 1 .. D
  <2>1. Len(e) + n <= D
    BY <1>1 DEF PartOf
  <2> QED
    BY <1>3, <2>1
<1>5. Len(e) <= 2 * R
  BY <1>1, <1>3
<1>6. \A i \in 1 .. Len(e) : e[i] # Tel!Rest => \E k \in 1 .. R : e[i] = r[k]
  BY <1>1, <1>3
<1>7. \A i \in 1 .. G : /\ \A j \in 1 .. i - 1 : g[j].no < g[i].no
                        /\ Above(g[i].no, d) /\ Above(g[i].no, e)
  BY <1>1, <1>3 DEF Answered
<1>8. Answered(r, e, g)
  BY <1>1, <1>2, <1>3, <1>5, <1>6, <1>7 DEF Answered
<1>9. ASSUME d[1] # Tel!Rest PROVE Answered(r, e, Append(g, d[1]))
  <2>1. PICK x : x = d[1]
    OBVIOUS
  <2>2. x \in Tel!Answer /\ x.no \in Nat /\ \E k \in 1 .. R : x = r[k]
    BY <1>1, <1>4, <1>9, <2>1
  <2>3. PICK h : h = Append(g, x)
    OBVIOUS
  <2>4. h \in Seq(Tel!Answer) /\ Len(h) = G + 1 /\ h[G + 1] = x /\ \A i \in 1 .. G : h[i] = g[i]
    BY <1>1, <1>2, <2>2, <2>3, OneMoreIs
  <2>5. \A i \in 1 .. G : g[i].no < x.no
    BY <1>1, <1>4, <1>7, <1>9, <2>1 DEF Above
  <2>6. Above(x.no, e)
    <3> SUFFICES ASSUME NEW j \in 1 .. Len(e), e[j] # Tel!Rest PROVE x.no < e[j].no
      BY DEF Above
    <3>1. e[j] = d[n + j] /\ n + j \in 1 .. D
      BY <1>3
    <3>2. 1 < n + j
      BY <1>3
    <3> QED
      BY <1>1, <1>2, <1>4, <1>9, <2>1, <3>1, <3>2 DEF Ascending
  <2>7. ASSUME NEW i \in 1 .. G + 1
        PROVE  /\ \E k \in 1 .. R : h[i] = r[k]
               /\ \A j \in 1 .. i - 1 : h[j].no < h[i].no
               /\ Above(h[i].no, e)
    <3>1. CASE i \in 1 .. G
      <4>1. \A j \in 1 .. i - 1 : j \in 1 .. G
        BY <3>1
      <4>2. h[i] = g[i] /\ \A j \in 1 .. i - 1 : h[j] = g[j]
        BY <2>4, <3>1, <4>1
      <4> QED
        BY <1>1, <1>7, <3>1, <4>2
    <3>2. CASE i \notin 1 .. G
      <4>1. i = G + 1 /\ \A j \in 1 .. i - 1 : j \in 1 .. G
        BY <3>2
      <4>2. h[i] = x /\ \A j \in 1 .. i - 1 : h[j] = g[j]
        BY <2>4, <4>1
      <4> QED
        BY <2>2, <2>5, <2>6, <4>1, <4>2
    <3> QED
      BY <3>1, <3>2
  <2>8. Answered(r, e, h)
    BY <1>1, <1>3, <1>5, <1>6, <2>4, <2>7 DEF Answered
  <2> QED
    BY <2>1, <2>3, <2>8
<1> QED
  BY <1>8, <1>9

\* A cd changes the directory and an ls shows it.
LEMMA ReplyShows ==
  ASSUME NEW a, NEW r, NEW dir, r \in Seq(Tel!Answer), Directory(a, r, dir), Own(a, r),
         Tel!TelnetAssumption,
         NEW x, NEW data, data = a[x.no].data, data = "ls" => x.data = dir,
         NEW new, new = IF data \in Dir THEN data ELSE dir
  PROVE  Directory(a, Append(r, x), new) /\ Own(a, Append(r, x))
<1>1. PICK R \in Nat : R = Len(r)
  OBVIOUS
<1>2. PICK s : s = Append(r, x)
  OBVIOUS
<1>3. Len(s) = R + 1 /\ s[R + 1] = x /\ \A i \in 1 .. R : s[i] = r[i]
  BY <1>1, <1>2
<1>4. Directory(a, s, new)
  <2> SUFFICES ASSUME NEW i \in 1 .. R + 1, a[s[i].no].data \in Dir,
                      \A k \in i + 1 .. R + 1 : a[s[k].no].data \notin Dir
               PROVE  new = a[s[i].no].data
    BY <1>3 DEF Directory
  <2>1. CASE i = R + 1
    BY <1>3, <2>1
  <2>2. CASE i # R + 1
    <3>1. i \in 1 .. R /\ R + 1 \in i + 1 .. R + 1
      BY <2>2
    <3>2. \A k \in i + 1 .. R : k \in i + 1 .. R + 1 /\ k \in 1 .. R
      BY <3>1
    <3>3. \A k \in i + 1 .. R : a[r[k].no].data \notin Dir
      BY <1>3, <3>2
    <3>4. a[r[i].no].data \in Dir /\ s[i] = r[i]
      BY <1>3, <3>1
    <3>5. dir = a[r[i].no].data
      BY <1>1, <3>1, <3>3, <3>4 DEF Directory
    <3>6. data \notin Dir
      BY <1>3, <3>1
    <3> QED
      BY <3>4, <3>5, <3>6
  <2> QED
    BY <2>1, <2>2
<1>5. Own(a, s)
  <2> SUFFICES ASSUME NEW i \in 1 .. R + 1, NEW j \in 1 .. R + 1, i < j,
                      a[s[i].no].data \in Dir, a[s[j].no].data = "ls",
                      \A k \in i + 1 .. j - 1 : a[s[k].no].data \notin Dir
               PROVE  s[j].data = a[s[i].no].data
    BY <1>3 DEF Own
  <2>1. i \in 1 .. R /\ s[i] = r[i]
    BY <1>3
  <2>2. \A k \in i + 1 .. j - 1 : k \in 1 .. R
    OBVIOUS
  <2>3. \A k \in i + 1 .. j - 1 : a[r[k].no].data \notin Dir
    BY <1>3, <2>2
  <2>4. CASE j = R + 1
    <3>1. \A k \in i + 1 .. R : a[r[k].no].data \notin Dir
      BY <2>3, <2>4
    <3>2. dir = a[r[i].no].data
      BY <1>1, <2>1, <3>1 DEF Directory
    <3>3. s[j].data = dir
      BY <1>3, <2>4
    <3> QED
      BY <2>1, <3>2, <3>3
  <2>5. CASE j # R + 1
    <3>1. j \in 1 .. R /\ s[j] = r[j]
      BY <1>3, <2>5
    <3> QED
      BY <1>1, <2>1, <2>3, <3>1 DEF Own
  <2> QED
    BY <2>4, <2>5
<1> QED
  BY <1>2, <1>4, <1>5

-----------------------------------------------------------------------------
(* Telnet: one connection whose messages arrive whole *)

\* A message is asked and two pieces follow those under way.
LEMMA AskWhole ==
  ASSUME NEW a \in Seq(Question), NEW u \in Seq(Message \cup {Tel!Rest}),
         NEW r \in Seq(Tel!Answer), NEW who, who # "gone", AskedWhole(a, u, r, who),
         NEW q \in Question, NEW m \in Message, m.no = Len(a) + 1
  PROVE  AskedWhole(Append(a, q), Tel!Sent(u, m), r, who)
<1>1. PICK A \in Nat, U \in Nat, R \in Nat : A = Len(a) /\ U = Len(u) /\ R = Len(r)
  OBVIOUS
<1>2. PICK h \in Nat :
         /\ U = 2 * h /\ R + h = A
         /\ \A k \in 1 .. h : /\ u[2 * k - 1] # Tel!Rest /\ u[2 * k - 1].no = R + k
                              /\ u[2 * k] = Tel!Rest
  BY <1>1 DEF AskedWhole
<1>3. PICK b : b = Append(a, q)
  OBVIOUS
<1>4. PICK v : v = Tel!Sent(u, m)
  OBVIOUS
<1>5. Len(b) = A + 1
  BY <1>1, <1>3
<1>6. /\ Len(v) = U + 2 /\ \A i \in 1 .. U : v[i] = u[i]
      /\ v[U + 1] = m /\ v[U + 2] = Tel!Rest
  <2>1. PICK S : S = Message \cup {Tel!Rest}
    OBVIOUS
  <2>2. m \in S /\ Tel!Rest \in S /\ u \in Seq(S)
    BY <2>1
  <2>3. /\ Len(Tel!Sent(u, m)) = Len(u) + 2
        /\ \A i \in 1 .. Len(u) : Tel!Sent(u, m)[i] = u[i]
        /\ Tel!Sent(u, m)[Len(u) + 1] = m /\ Tel!Sent(u, m)[Len(u) + 2] = Tel!Rest
    BY ONLY <2>2, SentIs
  <2> QED
    BY <1>1, <1>4, <2>3
<1>7. m # Tel!Rest /\ m.no = R + (h + 1)
  <2>1. m.no = A + 1
    BY <1>1
  <2> QED
    BY <1>2, <2>1, RestIsNone
<1>8. ASSUME NEW k \in 1 .. h + 1
      PROVE  /\ v[2 * k - 1] # Tel!Rest /\ v[2 * k - 1].no = R + k
             /\ v[2 * k] = Tel!Rest
  <2>1. CASE k \in 1 .. h
    <3>1. 2 * k - 1 \in 1 .. U /\ 2 * k \in 1 .. U
      BY <1>2, <2>1
    <3> QED
      BY <1>2, <1>6, <2>1, <3>1
  <2>2. CASE k \notin 1 .. h
    <3>1. k = h + 1 /\ 2 * k - 1 = U + 1 /\ 2 * k = U + 2
      BY <1>2, <2>2
    <3> QED
      BY <1>6, <1>7, <3>1
  <2> QED
    BY <2>1, <2>2
<1>9. h + 1 \in Nat /\ Len(v) = 2 * (h + 1) /\ Len(r) + (h + 1) = Len(b)
  BY <1>1, <1>2, <1>5, <1>6
<1>10. \A i \in 1 .. Len(r) : r[i].no = i
  BY DEF AskedWhole
<1>11. AskedWhole(b, v, r, who)
  BY <1>1, <1>8, <1>9, <1>10 DEF AskedWhole
<1> QED
  BY <1>3, <1>4, <1>11

\* The first piece begins the next message, and the second is its rest.
LEMMA FirstWhole ==
  ASSUME NEW a, NEW u, NEW r, NEW who, AskedWhole(a, u, r, who),
         Len(u) \in Nat, Len(u) # 0, Len(r) \in Nat
  PROVE  u[1] # Tel!Rest /\ u[1].no = Len(r) + 1
<1>1. PICK U \in Nat, R \in Nat : U = Len(u) /\ R = Len(r)
  OBVIOUS
<1>2. PICK h \in Nat :
         /\ U = 2 * h
         /\ \A k \in 1 .. h : u[2 * k - 1] # Tel!Rest /\ u[2 * k - 1].no = R + k
  BY <1>1 DEF AskedWhole
<1>3. 1 \in 1 .. h /\ 2 * 1 - 1 = 1
  BY <1>1, <1>2
<1> QED
  BY <1>1, <1>2, <1>3

\* It is taken and answered.
LEMMA ReplyWhole ==
  ASSUME NEW a, NEW u \in Seq(Message \cup {Tel!Rest}), NEW r \in Seq(Tel!Answer),
         NEW who, AskedWhole(a, u, r, who), Len(a) \in Nat, Len(u) # 0,
         NEW v \in Seq(Message \cup {Tel!Rest}), Len(v) = Len(u) - 2, PartOf(v, u, 2),
         NEW x \in Tel!Answer, x.no = Len(r) + 1
  PROVE  AskedWhole(a, v, Append(r, x), who)
<1>1. PICK A \in Nat, U \in Nat, R \in Nat, V \in Nat :
         A = Len(a) /\ U = Len(u) /\ R = Len(r) /\ V = Len(v) /\ V = U - 2
  OBVIOUS
<1>2. PICK h \in Nat :
         /\ U = 2 * h /\ (who # "gone" => R + h = A)
         /\ \A k \in 1 .. h : /\ u[2 * k - 1] # Tel!Rest /\ u[2 * k - 1].no = R + k
                              /\ u[2 * k] = Tel!Rest
  BY <1>1 DEF AskedWhole
<1>3. PICK s : s = Append(r, x)
  OBVIOUS
<1>4. Len(s) = R + 1 /\ s[R + 1] = x /\ (\A i \in 1 .. R : s[i] = r[i]) /\ x.no = R + 1
  BY <1>1, <1>3, OneMoreIs
<1>5. \A i \in 1 .. V : v[i] = u[2 + i]
  BY <1>1 DEF PartOf
<1>6. PICK l \in Nat : l = h - 1
  BY <1>1, <1>2
<1>7. V = 2 * l /\ (who # "gone" => (R + 1) + l = A)
  <2>1. /\ h \in Nat /\ l \in Nat /\ R \in Nat /\ A \in Nat /\ l = h - 1
        /\ U = 2 * h /\ V = U - 2 /\ (who # "gone" => R + h = A)
    BY <1>1, <1>2, <1>6
  <2>2. V = 2 * l /\ (R + 1) + l = R + h
    BY ONLY <2>1
  <2> QED
    BY <2>1, <2>2
<1>8. ASSUME NEW k \in 1 .. l
      PROVE  /\ v[2 * k - 1] # Tel!Rest /\ v[2 * k - 1].no = (R + 1) + k
             /\ v[2 * k] = Tel!Rest
  <2>1. 2 * k - 1 \in 1 .. V /\ 2 * k \in 1 .. V /\ k + 1 \in 1 .. h
    BY <1>6, <1>7
  <2>2. 2 + (2 * k - 1) = 2 * (k + 1) - 1 /\ 2 + 2 * k = 2 * (k + 1) /\ R + (k + 1) = (R + 1) + k
    OBVIOUS
  <2>3. v[2 * k - 1] = u[2 * (k + 1) - 1] /\ v[2 * k] = u[2 * (k + 1)]
    BY <1>5, <2>1, <2>2
  <2>4. u[2 * (k + 1) - 1] # Tel!Rest /\ u[2 * (k + 1) - 1].no = R + (k + 1)
        /\ u[2 * (k + 1)] = Tel!Rest
    BY <1>2, <2>1
  <2> QED
    BY <2>2, <2>3, <2>4
<1>9. ASSUME NEW i \in 1 .. R + 1 PROVE s[i].no = i
  <2>1. CASE i \in 1 .. R
    BY <1>1, <1>4, <2>1 DEF AskedWhole
  <2>2. CASE i \notin 1 .. R
    <3>1. i = R + 1
      BY <2>2
    <3> QED
      BY <1>4, <3>1
  <2> QED
    BY <2>1, <2>2
<1>10. AskedWhole(a, v, s, who)
  <2>1. /\ Len(v) = 2 * l /\ (who # "gone" => Len(s) + l = Len(a))
        /\ \A k \in 1 .. l : /\ v[2 * k - 1] # Tel!Rest /\ v[2 * k - 1].no = Len(s) + k
                             /\ v[2 * k] = Tel!Rest
    BY <1>1, <1>4, <1>7, <1>8
  <2>2. \A i \in 1 .. Len(s) : s[i].no = i
    BY <1>4, <1>9
  <2> QED
    BY <2>1, <2>2 DEF AskedWhole
<1> QED
  BY <1>3, <1>10

\* A client goes and a RST may overtake messages, whole ones.
LEMMA GoneWhole ==
  ASSUME NEW a, NEW u \in Seq(Message \cup {Tel!Rest}), NEW r \in Seq(Tel!Answer),
         NEW who, AskedWhole(a, u, r, who),
         NEW v, NEW n \in 0 .. Len(u), Len(v) = n, n % 2 = 0, PartOf(v, u, 0)
  PROVE  AskedWhole(a, v, r, "gone")
<1>1. PICK U \in Nat, R \in Nat : U = Len(u) /\ R = Len(r) /\ n \in 0 .. U
  OBVIOUS
<1>2. PICK h \in Nat :
         /\ U = 2 * h
         /\ \A k \in 1 .. h : /\ u[2 * k - 1] # Tel!Rest /\ u[2 * k - 1].no = R + k
                              /\ u[2 * k] = Tel!Rest
  BY <1>1 DEF AskedWhole
<1>3. PICK l \in Nat : n = 2 * l
  <2>1. n \in Nat
    BY <1>1
  <2>2. n % 2 = 0
    OBVIOUS
  <2>3. n = 2 * (n \div 2) /\ n \div 2 \in Nat
    BY ONLY <2>1, <2>2
  <2> QED
    BY <2>3
<1>4. \A i \in 1 .. n : v[i] = u[i]
  <2>1. \A i \in 1 .. n : v[i] = u[0 + i]
    BY DEF PartOf
  <2> QED
    BY <1>1, <2>1
<1>5. ASSUME NEW k \in 1 .. l
      PROVE  /\ v[2 * k - 1] # Tel!Rest /\ v[2 * k - 1].no = R + k
             /\ v[2 * k] = Tel!Rest
  <2>1. 2 * k - 1 \in 1 .. n /\ 2 * k \in 1 .. n /\ k \in 1 .. h
    BY <1>1, <1>2, <1>3
  <2>2. v[2 * k - 1] = u[2 * k - 1] /\ v[2 * k] = u[2 * k]
    BY <1>4, <2>1
  <2> QED
    BY <1>2, <2>1, <2>2
<1>6. \A i \in 1 .. Len(r) : r[i].no = i
  BY DEF AskedWhole
<1> QED
  BY <1>1, <1>3, <1>5, <1>6 DEF AskedWhole

\* An answer goes on its way to a client that is there.
LEMMA ReplySentWhole ==
  ASSUME NEW r \in Seq(Tel!Answer), NEW d \in Seq(Tel!Answer \cup {Tel!Rest}),
         NEW g \in Seq(Tel!Answer), NEW who, who # "gone", AnsweredWhole(r, d, g, who), NEW x \in Tel!Answer
  PROVE  AnsweredWhole(Append(r, x), Tel!Sent(d, x), g, who)
<1>1. PICK R \in Nat, D \in Nat, G \in Nat : R = Len(r) /\ D = Len(d) /\ G = Len(g)
  OBVIOUS
<1>2. PICK h \in Nat :
         /\ D = 2 * h /\ G + h = R
         /\ \A k \in 1 .. h : d[2 * k - 1] = r[G + k] /\ d[2 * k] = Tel!Rest
  BY <1>1 DEF AnsweredWhole
<1>3. PICK s : s = Append(r, x)
  OBVIOUS
<1>4. PICK e : e = Tel!Sent(d, x)
  OBVIOUS
<1>5. Len(s) = R + 1 /\ s[R + 1] = x /\ \A i \in 1 .. R : s[i] = r[i]
  BY <1>1, <1>3, OneMoreIs
<1>6. /\ Len(e) = D + 2 /\ \A i \in 1 .. D : e[i] = d[i]
      /\ e[D + 1] = x /\ e[D + 2] = Tel!Rest
  <2>1. PICK S : S = Tel!Answer \cup {Tel!Rest}
    OBVIOUS
  <2>2. x \in S /\ Tel!Rest \in S /\ d \in Seq(S)
    BY <2>1
  <2>3. /\ Len(Tel!Sent(d, x)) = Len(d) + 2
        /\ \A i \in 1 .. Len(d) : Tel!Sent(d, x)[i] = d[i]
        /\ Tel!Sent(d, x)[Len(d) + 1] = x /\ Tel!Sent(d, x)[Len(d) + 2] = Tel!Rest
    BY ONLY <2>2, SentIs
  <2> QED
    BY <1>1, <1>4, <2>3
<1>7. ASSUME NEW k \in 1 .. h + 1
      PROVE  e[2 * k - 1] = s[G + k] /\ e[2 * k] = Tel!Rest
  <2>1. CASE k \in 1 .. h
    <3>1. 2 * k - 1 \in 1 .. D /\ 2 * k \in 1 .. D /\ G + k \in 1 .. R
      BY <1>2, <2>1
    <3> QED
      BY <1>2, <1>5, <1>6, <2>1, <3>1
  <2>2. CASE k \notin 1 .. h
    <3>0. h \in Nat /\ D = 2 * h /\ G + h = R /\ G \in Nat /\ k \in 1 .. h + 1 /\ k \notin 1 .. h
      BY <1>2, <2>2
    <3>1. k = h + 1 /\ 2 * k - 1 = D + 1 /\ 2 * k = D + 2 /\ G + k = R + 1
      BY ONLY <3>0
    <3> QED
      BY <1>5, <1>6, <3>1
  <2> QED
    BY <2>1, <2>2
<1>8. \A k \in 1 .. G : g[k] = s[k]
  <2>1. \A k \in 1 .. G : k \in 1 .. R
    BY <1>2
  <2>2. \A k \in 1 .. G : g[k] = r[k]
    BY <1>1 DEF AnsweredWhole
  <2> QED
    BY <1>5, <2>1, <2>2
<1>9. AnsweredWhole(s, e, g, who)
  <2>1. h + 1 \in Nat /\ Len(e) = 2 * (h + 1) /\ Len(g) + (h + 1) = Len(s)
    BY <1>1, <1>2, <1>5, <1>6
  <2> QED
    BY <1>1, <1>7, <1>8, <2>1 DEF AnsweredWhole
<1> QED
  BY <1>3, <1>4, <1>9

\* The client reads a whole answer.
LEMMA ReceiveWhole ==
  ASSUME NEW r \in Seq(Tel!Answer), NEW d \in Seq(Tel!Answer \cup {Tel!Rest}),
         NEW g \in Seq(Tel!Answer), NEW who, who # "gone", AnsweredWhole(r, d, g, who), Len(d) # 0,
         NEW e \in Seq(Tel!Answer \cup {Tel!Rest}), Len(e) = Len(d) - 2, PartOf(e, d, 2)
  PROVE  d[1] # Tel!Rest /\ AnsweredWhole(r, e, Append(g, d[1]), who)
<1>1. PICK R \in Nat, D \in Nat, G \in Nat, E \in Nat :
         R = Len(r) /\ D = Len(d) /\ G = Len(g) /\ E = Len(e) /\ E = D - 2
  OBVIOUS
<1>2. PICK h \in Nat :
         /\ D = 2 * h /\ G + h = R
         /\ \A k \in 1 .. h : d[2 * k - 1] = r[G + k] /\ d[2 * k] = Tel!Rest
  BY <1>1 DEF AnsweredWhole
<1>3. PICK x : x = d[1]
  OBVIOUS
<1>4. 1 \in 1 .. h /\ 2 * 1 - 1 = 1 /\ G + 1 \in 1 .. R
  BY <1>1, <1>2
<1>5. x = r[G + 1] /\ x \in Tel!Answer
  BY <1>1, <1>2, <1>3, <1>4
<1>6. PICK f : f = Append(g, x)
  OBVIOUS
<1>7. Len(f) = G + 1 /\ f[G + 1] = x /\ \A i \in 1 .. G : f[i] = g[i]
  BY <1>1, <1>5, <1>6, OneMoreIs
<1>8. PICK l \in Nat : l = h - 1
  BY <1>1, <1>2
<1>9. \A i \in 1 .. E : e[i] = d[2 + i]
  BY <1>1 DEF PartOf
<1>10. ASSUME NEW k \in 1 .. l
       PROVE  e[2 * k - 1] = r[(G + 1) + k] /\ e[2 * k] = Tel!Rest
  <2>1. 2 * k - 1 \in 1 .. E /\ 2 * k \in 1 .. E /\ k + 1 \in 1 .. h
    BY <1>1, <1>2, <1>8
  <2>2. 2 + (2 * k - 1) = 2 * (k + 1) - 1 /\ 2 + 2 * k = 2 * (k + 1) /\ G + (k + 1) = (G + 1) + k
    OBVIOUS
  <2>3. e[2 * k - 1] = d[2 * (k + 1) - 1] /\ e[2 * k] = d[2 * (k + 1)]
    BY <1>9, <2>1, <2>2
  <2>4. d[2 * (k + 1) - 1] = r[G + (k + 1)] /\ d[2 * (k + 1)] = Tel!Rest
    BY <1>2, <2>1
  <2> QED
    BY <2>2, <2>3, <2>4
<1>11. ASSUME NEW k \in 1 .. G + 1 PROVE f[k] = r[k]
  <2>1. CASE k \in 1 .. G
    BY <1>1, <1>7, <2>1 DEF AnsweredWhole
  <2>2. CASE k \notin 1 .. G
    <3>1. k = G + 1
      BY <2>2
    <3> QED
      BY <1>5, <1>7, <3>1
  <2> QED
    BY <2>1, <2>2
<1>12. AnsweredWhole(r, e, f, who)
  <2>1. Len(e) = 2 * l /\ Len(f) + l = Len(r)
    <3>0. h \in Nat /\ D = 2 * h /\ G + h = R /\ E = D - 2 /\ l = h - 1 /\ G \in Nat
      BY <1>1, <1>2, <1>8
    <3>1. E = 2 * l /\ (G + 1) + l = R
      BY ONLY <3>0
    <3> QED
      BY <1>1, <1>7, <3>1
  <2>2. \A k \in 1 .. l : e[2 * k - 1] = r[Len(f) + k] /\ e[2 * k] = Tel!Rest
    BY <1>7, <1>10
  <2>3. \A k \in 1 .. Len(f) : f[k] = r[k]
    BY <1>7, <1>11
  <2> QED
    BY <2>1, <2>2, <2>3 DEF AnsweredWhole
<1> QED
  BY <1>3, <1>5, <1>6, <1>12, RestIsNone

-----------------------------------------------------------------------------
(* Telnet: what a step does to the connection it is about *)

LEMMA TalkTypes ==
  ASSUME NEW a, NEW u, NEW r, NEW d, NEW g, NEW who, NEW w, Talk(a, u, r, d, g, who, w)
  PROVE  /\ a \in Seq(Question) /\ u \in Seq(Message \cup {Tel!Rest}) /\ r \in Seq(Tel!Answer)
         /\ d \in Seq(Tel!Answer \cup {Tel!Rest}) /\ g \in Seq(Tel!Answer)
         /\ Len(a) \in Nat /\ Len(u) \in Nat /\ Len(r) \in Nat /\ Len(d) \in Nat /\ Len(g) \in Nat
<1>1. /\ a \in Seq(Question) /\ u \in Seq(Message \cup {Tel!Rest}) /\ r \in Seq(Tel!Answer)
      /\ d \in Seq(Tel!Answer \cup {Tel!Rest}) /\ g \in Seq(Tel!Answer)
  BY DEF Talk, Asked, Answered
<1> QED
  BY <1>1

\* The client asks.
LEMMA TalkAsks ==
  ASSUME NEW a, NEW u, NEW r, NEW d, NEW g, NEW who, NEW w, Talk(a, u, r, d, g, who, w),
         Tel!TelnetAssumption, who # "gone", Len(a) < MaxTyped,
         NEW q \in Question, NEW m, m = [type |-> q.type, no |-> Len(a) + 1, data |-> q.data]
  PROVE  Talk(Append(a, q), Tel!Sent(u, m), r, d, g, who, w)
<1>1. /\ a \in Seq(Question) /\ u \in Seq(Message \cup {Tel!Rest}) /\ r \in Seq(Tel!Answer)
      /\ Len(a) \in Nat
  BY TalkTypes
<1>2. Asked(Append(a, q), Tel!Sent(u, m), r)
  <2>1. Asked(a, u, r)
    BY DEF Talk
  <2> QED
    BY <2>1, AskKept
<1>3. m \in Message /\ m.no = Len(a) + 1
  <2>1. q.type \in {"ping", "text"} /\ q.data \in Tel!Lines \cup {"none"}
    BY DEF Question
  <2> QED
    BY <1>1, <2>1 DEF Message
<1>4. ASSUME w = TRUE PROVE AskedWhole(Append(a, q), Tel!Sent(u, m), r, who)
  <2>1. AskedWhole(a, u, r, who)
    BY <1>4 DEF Talk
  <2> QED
    BY <1>1, <1>3, <2>1, AskWhole
<1>5. Own(Append(a, q), r)
  BY AskKeepsOwn DEF Talk
<1>6. Answered(r, d, g) /\ (w = TRUE => AnsweredWhole(r, d, g, who))
  BY DEF Talk
<1> QED
  BY <1>2, <1>4, <1>5, <1>6 DEF Talk

\* The client reads n pieces.
LEMMA TalkReads ==
  ASSUME NEW a, NEW u, NEW r, NEW d, NEW g, NEW who, NEW w, Talk(a, u, r, d, g, who, w),
         Tel!TelnetAssumption, who # "gone",
         NEW n \in {1, 2}, n <= Len(d), w = TRUE => n = 2,
         NEW h, h = IF d[1] = Tel!Rest THEN g ELSE Append(g, d[1])
  PROVE  Talk(a, u, r, Tel!After(d, n), h, who, w)
<1>1. /\ r \in Seq(Tel!Answer) /\ d \in Seq(Tel!Answer \cup {Tel!Rest}) /\ g \in Seq(Tel!Answer)
      /\ Len(d) \in Nat
  BY TalkTypes
<1>2. PICK e : e = Tel!After(d, n)
  OBVIOUS
<1>3. e \in Seq(Tel!Answer \cup {Tel!Rest}) /\ Len(e) = Len(d) - n /\ PartOf(e, d, n)
  <2>1. PICK S : S = Tel!Answer \cup {Tel!Rest}
    OBVIOUS
  <2>2. d \in Seq(S) /\ n \in Nat /\ n <= Len(d)
    BY <1>1, <2>1
  <2>3. /\ Tel!After(d, n) \in Seq(S) /\ Len(Tel!After(d, n)) = Len(d) - n
        /\ PartOf(Tel!After(d, n), d, n)
    BY ONLY <2>2, AfterIs
  <2> QED
    BY <1>2, <2>1, <2>3
<1>4. Answered(r, d, g) /\ n \in Nat \ {0}
  BY DEF Talk
<1>5. Answered(r, e, g) /\ (d[1] # Tel!Rest => Answered(r, e, Append(g, d[1])))
  BY <1>1, <1>3, <1>4, ReceiveKept
<1>6. Answered(r, e, h)
  BY <1>5
<1>7. ASSUME w = TRUE PROVE AnsweredWhole(r, e, h, who)
  <2>1. AnsweredWhole(r, d, g, who)
    BY <1>7 DEF Talk
  <2>2. n = 2 /\ Len(d) # 0
    BY <1>1, <1>7
  <2>3. Len(e) = Len(d) - 2 /\ PartOf(e, d, 2)
    BY <1>3, <2>2
  <2>4. d[1] # Tel!Rest /\ AnsweredWhole(r, e, Append(g, d[1]), who)
    BY <1>1, <1>3, <2>1, <2>2, <2>3, ReceiveWhole
  <2> QED
    BY <2>4
<1> QED
  BY <1>2, <1>6, <1>7 DEF Talk

\* The client goes; v is what a RST leaves of the pieces on their way.
LEMMA TalkGoes ==
  ASSUME NEW a, NEW u, NEW r, NEW d, NEW g, NEW who, NEW w, Talk(a, u, r, d, g, who, w),
         NEW v, \/ v = u
                \/ \E n \in 0 .. Len(u) : v = SubSeq(u, 1, n) /\ (w = TRUE => n % 2 = 0)
  PROVE  Talk(a, v, r, <<>>, <<>>, "gone", w)
<1>1. /\ u \in Seq(Message \cup {Tel!Rest}) /\ r \in Seq(Tel!Answer)
      /\ Len(u) \in Nat /\ Len(r) \in Nat
  BY TalkTypes
<1>2. Asked(a, u, r) /\ Own(a, r)
  BY DEF Talk
<1>3. Answered(r, <<>>, <<>>)
  <2>1. <<>> \in Seq(Tel!Answer \cup {Tel!Rest}) /\ <<>> \in Seq(Tel!Answer) /\ Len(<<>>) = 0
    BY EmptySeq
  <2> QED
    BY <1>1, <2>1 DEF Answered, Ascending
<1>4. AnsweredWhole(r, <<>>, <<>>, "gone")
  BY DEF AnsweredWhole
<1>5. Asked(a, v, r) /\ (w = TRUE => AskedWhole(a, v, r, "gone"))
  <2>1. CASE v = u
    BY <1>2, <2>1 DEF Talk, AskedWhole
  <2>2. CASE v # u
    <3>1. PICK n \in 0 .. Len(u) : v = SubSeq(u, 1, n) /\ (w = TRUE => n % 2 = 0)
      BY <2>2
    <3>2. v \in Seq(Message \cup {Tel!Rest}) /\ Len(v) = n /\ PartOf(v, u, 0)
      <4>1. PICK S : S = Message \cup {Tel!Rest}
        OBVIOUS
      <4>2. u \in Seq(S) /\ n \in 0 .. Len(u)
        BY <1>1, <4>1
      <4>3. /\ SubSeq(u, 1, n) \in Seq(S) /\ Len(SubSeq(u, 1, n)) = n
            /\ PartOf(SubSeq(u, 1, n), u, 0)
        BY ONLY <4>2, FirstIs
      <4> QED
        BY <3>1, <4>1, <4>3
    <3>3. Asked(a, v, r)
      BY <1>2, <3>2, PartAsked
    <3>4. ASSUME w = TRUE PROVE AskedWhole(a, v, r, "gone")
      <4>1. AskedWhole(a, u, r, who) /\ n % 2 = 0
        BY <3>1, <3>4 DEF Talk
      <4> QED
        BY <1>1, <3>2, <4>1, GoneWhole
    <3> QED
      BY <3>3, <3>4
  <2> QED
    BY <2>1, <2>2
<1> QED
  BY <1>2, <1>3, <1>4, <1>5 DEF Talk

\* The server reads the rest of a message, which is nothing to it.
LEMMA TalkSkips ==
  ASSUME NEW a, NEW u, NEW r, NEW d, NEW g, NEW who, NEW w, Talk(a, u, r, d, g, who, w),
         NEW n \in {1, 2}, n <= Len(u), u[1] = Tel!Rest
  PROVE  Talk(a, Tel!After(u, n), r, d, g, who, w)
<1>1. /\ u \in Seq(Message \cup {Tel!Rest}) /\ r \in Seq(Tel!Answer)
      /\ Len(u) \in Nat /\ Len(r) \in Nat
  BY TalkTypes
<1>2. ~(w = TRUE)
  <2> SUFFICES ASSUME w = TRUE PROVE FALSE
    OBVIOUS
  <2>1. AskedWhole(a, u, r, who) /\ Len(u) # 0
    BY <1>1 DEF Talk
  <2> QED
    BY <1>1, <2>1, FirstWhole
<1>3. Tel!After(u, n) \in Seq(Message \cup {Tel!Rest}) /\ PartOf(Tel!After(u, n), u, n)
  <2>1. PICK S : S = Message \cup {Tel!Rest}
    OBVIOUS
  <2>2. u \in Seq(S) /\ n \in Nat /\ n <= Len(u)
    BY <1>1, <2>1
  <2>3. Tel!After(u, n) \in Seq(S) /\ PartOf(Tel!After(u, n), u, n)
    BY ONLY <2>2, AfterIs
  <2> QED
    BY <2>1, <2>3
<1>4. Asked(a, Tel!After(u, n), r)
  <2>1. Asked(a, u, r) /\ n \in Nat
    BY DEF Talk
  <2> QED
    BY <1>3, <2>1, PartAsked
<1> QED
  BY <1>2, <1>4 DEF Talk

\* After the answer the directory is that of the last cd, and an answer to ls
\* shows it.
LEMMA MovedTo ==
  ASSUME NEW a, NEW u, NEW r, Asked(a, u, r), Own(a, r), Tel!TelnetAssumption,
         Len(u) # 0, u[1] # Tel!Rest, NEW x, x.no = u[1].no,
         NEW dir, Directory(a, r, dir), u[1].data = "ls" => x.data = dir,
         NEW new, new = IF u[1].data \in Dir THEN u[1].data ELSE dir
  PROVE  Directory(a, Append(r, x), new) /\ Own(a, Append(r, x))
<1>1. PICK A \in Nat, U \in Nat :
         /\ A = Len(a) /\ U = Len(u)
         /\ \A i \in 1 .. U : u[i] # Tel!Rest =>
              u[i].no \in 1 .. A /\ u[i].data = a[u[i].no].data
  BY AskedSays
<1>2. 1 \in 1 .. U /\ r \in Seq(Tel!Answer)
  BY <1>1 DEF Asked
<1>3. PICK data : data = u[1].data
  OBVIOUS
<1>4. data = a[x.no].data /\ (data = "ls" => x.data = dir)
      /\ new = IF data \in Dir THEN data ELSE dir
  BY <1>1, <1>2, <1>3
<1> QED
  BY <1>2, <1>4, ReplyShows

\* The server reads a message and answers x to it; the client gets the answer
\* if it is still there.
LEMMA TalkAnswers ==
  ASSUME NEW a, NEW u, NEW r, NEW d, NEW g, NEW who, NEW w, Talk(a, u, r, d, g, who, w),
         Tel!TelnetAssumption, NEW n \in {1, 2}, n <= Len(u), w = TRUE => n = 2,
         u[1] # Tel!Rest,
         NEW x \in Tel!Answer, x.no = u[1].no, x.type = "pong" <=> u[1].type = "ping",
         NEW dir, Directory(a, r, dir), u[1].data = "ls" => x.data = dir
  PROVE  /\ who # "gone" => Talk(a, Tel!After(u, n), Append(r, x), Tel!Sent(d, x), g, who, w)
         /\ who = "gone" => Talk(a, Tel!After(u, n), Append(r, x), d, g, who, w)
<1>0. PICK e : e = IF who = "gone" THEN d ELSE Tel!Sent(d, x)
  OBVIOUS
<1>1. /\ u \in Seq(Message \cup {Tel!Rest}) /\ r \in Seq(Tel!Answer)
      /\ d \in Seq(Tel!Answer \cup {Tel!Rest}) /\ g \in Seq(Tel!Answer)
      /\ Len(a) \in Nat /\ Len(u) \in Nat /\ Len(r) \in Nat /\ Len(d) \in Nat
  BY TalkTypes
<1>2. Asked(a, u, r) /\ Answered(r, d, g) /\ Own(a, r)
  BY DEF Talk
<1>3. PICK v : v = Tel!After(u, n)
  OBVIOUS
<1>4. v \in Seq(Message \cup {Tel!Rest}) /\ Len(v) = Len(u) - n /\ PartOf(v, u, n)
  <2>1. PICK S : S = Message \cup {Tel!Rest}
    OBVIOUS
  <2>2. u \in Seq(S) /\ n \in Nat /\ n <= Len(u)
    BY <1>1, <2>1
  <2>3. /\ Tel!After(u, n) \in Seq(S) /\ Len(Tel!After(u, n)) = Len(u) - n
        /\ PartOf(Tel!After(u, n), u, n)
    BY ONLY <2>2, AfterIs
  <2> QED
    BY <1>3, <2>1, <2>3
<1>5. n \in Nat \ {0}
  OBVIOUS
<1>6. PICK s : s = Append(r, x)
  OBVIOUS
<1>7. Asked(a, v, s) /\ \A i \in 1 .. Len(r) : r[i].no < x.no
  BY <1>2, <1>4, <1>5, <1>6, ReplyKept
<1>8. Answered(s, e, g)
  <2>1. Answered(s, Tel!Sent(d, x), g) /\ Answered(s, d, g)
    BY <1>1, <1>2, <1>6, <1>7, ReplySent
  <2> QED
    BY <1>0, <2>1
<1>9. ASSUME w = TRUE PROVE AskedWhole(a, v, s, who) /\ AnsweredWhole(s, e, g, who)
  <2>1. AskedWhole(a, u, r, who) /\ AnsweredWhole(r, d, g, who)
    BY <1>9 DEF Talk
  <2>2. n = 2 /\ Len(u) # 0
    BY <1>1, <1>9
  <2>3. x.no = Len(r) + 1
    BY <1>1, <2>1, <2>2, FirstWhole
  <2>4. Len(v) = Len(u) - 2 /\ PartOf(v, u, 2)
    BY <1>4, <2>2
  <2>5. AskedWhole(a, v, s, who)
    BY <1>1, <1>4, <1>6, <2>1, <2>2, <2>3, <2>4, ReplyWhole
  <2>6. CASE who = "gone"
    BY <1>0, <2>1, <2>5, <2>6 DEF AnsweredWhole
  <2>7. CASE who # "gone"
    BY <1>0, <1>1, <1>6, <2>1, <2>5, <2>7, ReplySentWhole
  <2> QED
    BY <2>6, <2>7
<1>10. Own(a, s)
  <2>1. PICK new : new = IF u[1].data \in Dir THEN u[1].data ELSE dir
    OBVIOUS
  <2>2. Len(u) # 0
    BY <1>1
  <2> QED
    BY <1>2, <1>6, <2>1, <2>2, MovedTo
<1>11. Talk(a, v, s, e, g, who, w)
  BY <1>7, <1>8, <1>9, <1>10 DEF Talk
<1> QED
  BY <1>0, <1>3, <1>6, <1>11

-----------------------------------------------------------------------------
(* Telnet: the actions *)

\* A client that may ask has not asked all.
LEMMA RoomToAsk ==
  ASSUME TelnetInv, Tel!TelnetAssumption, NEW c \in Tel!Conn, Tel!Total < MaxTyped
  PROVE  Len(typed[c]) < MaxTyped
<1> DEFINE U == UNION {{b} \X DOMAIN typed[b] : b \in Tel!Conn}
<1>1. MaxTyped \in Nat /\ MaxConn \in Nat
  BY DEF Tel!TelnetAssumption
<1>2. \A b \in Tel!Conn : /\ DOMAIN typed[b] = 1 .. Len(typed[b]) /\ Len(typed[b]) \in Nat
                          /\ Len(typed[b]) <= MaxTyped
  <2> TAKE b \in Tel!Conn
  <2>1. typed[b] \in Seq(Question) /\ Len(typed[b]) <= MaxTyped
    BY DEF TelnetInv, Dialogue, Talk, Asked
  <2> QED
    BY <2>1
<1> SUFFICES ASSUME Len(typed[c]) = MaxTyped PROVE FALSE
  BY <1>1, <1>2
<1>3. IsFiniteSet(Tel!Conn) /\ IsFiniteSet(1 .. MaxTyped) /\ Cardinality(1 .. MaxTyped) = MaxTyped
  BY <1>1, FS_Interval DEF Tel!Conn
<1>4. IsFiniteSet(Tel!Conn \X (1 .. MaxTyped))
  BY <1>3, FS_Product
<1>5. IsFiniteSet({c}) /\ Cardinality({c}) = 1
  BY FS_Singleton
<1>6. Cardinality({c} \X (1 .. MaxTyped)) = 1 * MaxTyped
  <2>1. Cardinality({c} \X (1 .. MaxTyped)) = Cardinality({c}) * Cardinality(1 .. MaxTyped)
    BY <1>3, <1>5, FS_Product
  <2> QED
    BY <1>3, <1>5, <2>1
<1>7. U \subseteq Tel!Conn \X (1 .. MaxTyped)
  BY <1>1, <1>2
<1>8. IsFiniteSet(U)
  BY <1>4, <1>7, FS_Subset
<1>9. {c} \X (1 .. MaxTyped) \subseteq U
  <2>1. {c} \X (1 .. MaxTyped) = {c} \X DOMAIN typed[c]
    BY <1>2
  <2> QED
    BY <2>1
<1>10. Cardinality({c} \X (1 .. MaxTyped)) <= Cardinality(U) /\ Cardinality(U) \in Nat
  BY <1>8, <1>9, FS_Subset, FS_CardinalityType
<1>11. Tel!Total = Cardinality(U)
  BY DEF Tel!Total, Tel!Cardinality, Cardinality, Tel!IsFiniteSet, IsFiniteSet
<1> QED
  BY <1>1, <1>6, <1>10, <1>11

\* A step about the connection of c leaves the others as they are.
LEMMA OneConnection ==
  ASSUME TelnetInv, TelnetTypes', NEW c \in Tel!Conn, whole' = whole,
         \A b \in Tel!Conn : b # c =>
            /\ typed'[b] = typed[b] /\ upward'[b] = upward[b] /\ replied'[b] = replied[b]
            /\ downward'[b] = downward[b] /\ shown'[b] = shown[b] /\ user'[b] = user[b]
            /\ turn'[b] = "open" => turn[b] = "open" /\ cwd' = cwd,
         Talk(typed'[c], upward'[c], replied'[c], downward'[c], shown'[c], user'[c], whole),
         turn'[c] = "open" => Directory(typed'[c], replied'[c], cwd')
  PROVE  TelnetInv'
<1>1. ASSUME NEW b \in Tel!Conn, b # c PROVE Dialogue(b)'
  <2>1. /\ typed'[b] = typed[b] /\ upward'[b] = upward[b] /\ replied'[b] = replied[b]
        /\ downward'[b] = downward[b] /\ shown'[b] = shown[b] /\ user'[b] = user[b]
        /\ turn'[b] = "open" => turn[b] = "open" /\ cwd' = cwd
    BY <1>1
  <2>2. Dialogue(b)
    BY DEF TelnetInv
  <2>3. Talk(typed'[b], upward'[b], replied'[b], downward'[b], shown'[b], user'[b], whole')
    BY <2>1, <2>2 DEF Dialogue
  <2>4. turn'[b] = "open" => Directory(typed'[b], replied'[b], cwd')
    BY <2>1, <2>2 DEF Dialogue
  <2> QED
    BY <2>3, <2>4 DEF Dialogue
<1>2. Dialogue(c)'
  <2>1. Talk(typed'[c], upward'[c], replied'[c], downward'[c], shown'[c], user'[c], whole')
    OBVIOUS
  <2> QED
    BY <2>1 DEF Dialogue
<1>3. \A b \in Tel!Conn : Dialogue(b)'
  BY <1>1, <1>2
<1> QED
  BY <1>3 DEF TelnetInv

LEMMA TelnetStarts == ASSUME Tel!TelnetAssumption PROVE Tel!Init => TelnetInv
<1> SUFFICES ASSUME Tel!Init PROVE TelnetInv
  OBVIOUS
<1>1. TelnetTypes
  BY DEF Tel!Init, TelnetTypes, Tel!TelnetAssumption
<1>2. /\ Asked(<<>>, <<>>, <<>>) /\ Answered(<<>>, <<>>, <<>>)
      /\ Own(<<>>, <<>>) /\ Directory(<<>>, <<>>, cwd)
  <2>1. <<>> \in Seq(Question) /\ <<>> \in Seq(Message \cup {Tel!Rest}) /\ <<>> \in Seq(Tel!Answer)
        /\ <<>> \in Seq(Tel!Answer \cup {Tel!Rest}) /\ Len(<<>>) = 0
    BY EmptySeq
  <2>2. MaxTyped \in Nat
    BY DEF Tel!TelnetAssumption
  <2> QED
    BY <2>1, <2>2 DEF Asked, Answered, Own, Directory, Ascending
<1>3. AskedWhole(<<>>, <<>>, <<>>, "new") /\ AnsweredWhole(<<>>, <<>>, <<>>, "new")
  <2>1. Len(<<>>) = 0 /\ 0 \in Nat /\ 2 * 0 = 0 /\ 0 + 0 = 0
    OBVIOUS
  <2> QED
    BY <2>1 DEF AskedWhole, AnsweredWhole
<1>4. ASSUME NEW c \in Tel!Conn PROVE Dialogue(c)
  <2>1. /\ typed[c] = <<>> /\ upward[c] = <<>> /\ replied[c] = <<>>
        /\ downward[c] = <<>> /\ shown[c] = <<>> /\ user[c] = "new"
    BY DEF Tel!Init
  <2> QED
    BY <1>2, <1>3, <2>1 DEF Dialogue, Talk
<1> QED
  BY <1>1, <1>4 DEF TelnetInv

\* Ping and TypeLine.
LEMMA AskKeeps ==
  ASSUME Tel!TelnetAssumption, TelnetInv, NEW c \in Tel!Conn,
         Tel!Ping(c) \/ \E line \in Tel!Lines : Tel!TypeLine(c, line)
  PROVE  TelnetInv'
<1>1. PICK type, data : /\ Tel!Ask(c, type, data) /\ type \in {"ping", "text"}
                        /\ data \in Tel!Lines \cup {"none"} /\ (type = "ping" <=> data = "none")
  <2>1. ASSUME Tel!Ping(c)
        PROVE  Tel!Ask(c, "ping", "none")
    BY <2>1 DEF Tel!Ping
  <2>2. ASSUME NEW line \in Tel!Lines, Tel!TypeLine(c, line)
        PROVE  Tel!Ask(c, "text", line) /\ line # "none"
    BY <2>2 DEF Tel!TypeLine, Tel!Lines, Tel!TelnetAssumption
  <2> QED
    BY <2>1, <2>2
<1>2. /\ user[c] = "up" /\ UNCHANGED <<user, shown, downward, rst, turn, serving, cwd, replied, whole>>
      /\ timeouts' \in [Tel!Conn -> 0 .. TelnetProbes]
  <2>1. timeouts \in [Tel!Conn -> 0 .. TelnetProbes] /\ TelnetProbes \in Nat
    BY DEF TelnetInv, TelnetTypes, Tel!TelnetAssumption
  <2>2. ASSUME Tel!Ping(c)
        PROVE  /\ user[c] = "up"
               /\ UNCHANGED <<user, shown, downward, rst, turn, serving, cwd, replied, whole>>
               /\ timeouts' \in [Tel!Conn -> 0 .. TelnetProbes]
    <3>1. /\ user[c] = "up" /\ timeouts[c] + 1 <= TelnetProbes
          /\ timeouts' = [timeouts EXCEPT ![c] = @ + 1]
          /\ UNCHANGED <<user, shown, downward, rst, turn, serving, cwd, replied, whole>>
      BY <2>2 DEF Tel!Ping, Tel!Elapsed, Tel!serverVars
    <3>2. timeouts[c] + 1 \in 0 .. TelnetProbes
      BY <2>1, <3>1
    <3> QED
      BY <2>1, <3>1, <3>2
  <2>3. ASSUME NEW line \in Tel!Lines, Tel!TypeLine(c, line)
        PROVE  /\ user[c] = "up"
               /\ UNCHANGED <<user, shown, downward, rst, turn, serving, cwd, replied, whole>>
               /\ timeouts' \in [Tel!Conn -> 0 .. TelnetProbes]
    <3>1. /\ user[c] = "up"
          /\ timeouts' = [timeouts EXCEPT ![c] = 0]
          /\ UNCHANGED <<user, shown, downward, rst, turn, serving, cwd, replied, whole>>
      BY <2>3 DEF Tel!TypeLine, Tel!serverVars
    <3>2. 0 \in 0 .. TelnetProbes
      BY <2>1
    <3> QED
      BY <2>1, <3>1, <3>2
  <2> QED
    BY <2>2, <2>3
<1>3. PICK q \in Question : q = [type |-> type, data |-> data]
  BY <1>1 DEF Question
<1>4. PICK m : m = [type |-> q.type, no |-> Len(typed[c]) + 1, data |-> q.data]
  OBVIOUS
<1>5. /\ Tel!Total < MaxTyped /\ typed' = [typed EXCEPT ![c] = Append(@, q)]
      /\ upward' = [upward EXCEPT ![c] = Tel!Sent(@, m)]
  <2>1. q.type = type /\ q.data = data
    BY <1>3
  <2> QED
    BY <1>1, <1>3, <1>4, <2>1 DEF Tel!Ask
<1>6. DOMAIN typed = Tel!Conn /\ DOMAIN upward = Tel!Conn
  BY DEF TelnetInv, TelnetTypes
<1>7. TelnetTypes'
  <2>1. DOMAIN typed' = Tel!Conn /\ DOMAIN upward' = Tel!Conn
    BY <1>5, <1>6
  <2> QED
    BY <1>2, <2>1 DEF TelnetInv, TelnetTypes
<1>8. /\ typed'[c] = Append(typed[c], q) /\ upward'[c] = Tel!Sent(upward[c], m)
      /\ \A b \in Tel!Conn : b # c => typed'[b] = typed[b] /\ upward'[b] = upward[b]
  BY <1>5, <1>6
<1>9. Dialogue(c)
  BY DEF TelnetInv
<1>10. Talk(typed'[c], upward'[c], replied[c], downward[c], shown[c], user[c], whole)
  <2>1. Talk(typed[c], upward[c], replied[c], downward[c], shown[c], user[c], whole)
    BY <1>9 DEF Dialogue
  <2>2. user[c] # "gone" /\ Len(typed[c]) < MaxTyped
    BY <1>2, <1>5, RoomToAsk
  <2>3. Talk(Append(typed[c], q), Tel!Sent(upward[c], m), replied[c], downward[c], shown[c],
             user[c], whole)
    BY <1>4, <2>1, <2>2, TalkAsks
  <2> QED
    BY <1>8, <2>3
<1>11. turn[c] = "open" => Directory(typed'[c], replied[c], cwd)
  <2> SUFFICES ASSUME turn[c] = "open" PROVE Directory(typed'[c], replied[c], cwd)
    OBVIOUS
  <2>1. Directory(typed[c], replied[c], cwd) /\ Asked(typed[c], upward[c], replied[c])
    BY <1>9 DEF Dialogue, Talk
  <2>2. Directory(Append(typed[c], q), replied[c], cwd)
    BY <2>1, AskKeepsOwn
  <2> QED
    BY <1>8, <2>2
<1> QED
  BY <1>2, <1>7, <1>8, <1>10, <1>11, OneConnection

\* A client that connects.
LEMMA ConnectKeeps ==
  ASSUME Tel!TelnetAssumption, TelnetInv, NEW c \in Tel!Conn, Tel!Connect(c)
  PROVE  TelnetInv'
<1>1. /\ user[c] = "new" /\ user' = [user EXCEPT ![c] = "up"]
      /\ turn' = [turn EXCEPT ![c] = "backlog"]
      /\ UNCHANGED <<timeouts, typed, shown, upward, downward, rst, serving, cwd, replied, whole>>
  BY DEF Tel!Connect, Tel!wireVars
<1>2. /\ turn[c] = "new" /\ replied[c] = <<>> /\ serving # c
      /\ user \in [Tel!Conn -> {"new", "up", "eof", "gone"}]
      /\ turn \in [Tel!Conn -> {"new", "backlog", "open", "closed"}]
  BY <1>1 DEF TelnetInv, TelnetTypes
<1>3. /\ user'[c] = "up" /\ turn'[c] = "backlog"
      /\ user' \in [Tel!Conn -> {"new", "up", "eof", "gone"}]
      /\ turn' \in [Tel!Conn -> {"new", "backlog", "open", "closed"}]
      /\ \A b \in Tel!Conn : b # c => user'[b] = user[b] /\ turn'[b] = turn[b]
  BY <1>1, <1>2
<1>4. TelnetTypes'
  <2>1. \A b \in Tel!Conn : /\ serving' = b <=> turn'[b] = "open"
                            /\ user'[b] = "new" <=> turn'[b] = "new"
                            /\ turn'[b] \in {"new", "backlog"} => replied'[b] = <<>>
    BY <1>1, <1>2, <1>3 DEF TelnetInv, TelnetTypes
  <2> QED
    BY <1>1, <1>3, <2>1 DEF TelnetInv, TelnetTypes
<1>5. Talk(typed'[c], upward'[c], replied'[c], downward'[c], shown'[c], user'[c], whole)
  <2>1. Talk(typed[c], upward[c], replied[c], downward[c], shown[c], user[c], whole)
    BY DEF TelnetInv, Dialogue
  <2>2. user[c] # "gone" /\ user'[c] # "gone"
    BY <1>1, <1>3
  <2> QED
    BY <1>1, <2>1, <2>2 DEF Talk, AskedWhole, AnsweredWhole
<1> QED
  BY <1>1, <1>3, <1>4, <1>5, OneConnection

\* The end of a client's stdin.
LEMMA EndKeepsDialogue ==
  ASSUME Tel!TelnetAssumption, TelnetInv, NEW c \in Tel!Conn, Tel!EndOfInput(c)
  PROVE  TelnetInv'
<1>1. /\ user[c] = "up" /\ user' = [user EXCEPT ![c] = "eof"]
      /\ timeouts' = [timeouts EXCEPT ![c] = 0]
      /\ UNCHANGED <<typed, shown, upward, downward, rst, turn, serving, cwd, replied, whole>>
  BY DEF Tel!EndOfInput, Tel!wireVars, Tel!serverVars
<1>2. /\ user \in [Tel!Conn -> {"new", "up", "eof", "gone"}]
      /\ timeouts \in [Tel!Conn -> 0 .. TelnetProbes] /\ 0 \in 0 .. TelnetProbes
  BY DEF TelnetInv, TelnetTypes, Tel!TelnetAssumption
<1>3. /\ user'[c] = "eof"
      /\ user' \in [Tel!Conn -> {"new", "up", "eof", "gone"}]
      /\ timeouts' \in [Tel!Conn -> 0 .. TelnetProbes]
      /\ \A b \in Tel!Conn : b # c => user'[b] = user[b]
  BY <1>1, <1>2
<1>4. TelnetTypes'
  <2>1. \A b \in Tel!Conn : /\ serving' = b <=> turn'[b] = "open"
                            /\ user'[b] = "new" <=> turn'[b] = "new"
                            /\ turn'[b] \in {"new", "backlog"} => replied'[b] = <<>>
    BY <1>1, <1>3 DEF TelnetInv, TelnetTypes
  <2> QED
    BY <1>1, <1>3, <2>1 DEF TelnetInv, TelnetTypes
<1>5. Dialogue(c)
  BY DEF TelnetInv
<1>6. Talk(typed'[c], upward'[c], replied'[c], downward'[c], shown'[c], user'[c], whole)
  <2>1. Talk(typed[c], upward[c], replied[c], downward[c], shown[c], user[c], whole)
    BY <1>5 DEF Dialogue
  <2>2. user[c] # "gone" /\ user'[c] # "gone"
    BY <1>1, <1>3
  <2> QED
    BY <1>1, <2>1, <2>2 DEF Talk, AskedWhole, AnsweredWhole
<1>7. turn'[c] = "open" => Directory(typed'[c], replied'[c], cwd')
  BY <1>1, <1>5 DEF Dialogue
<1> QED
  BY <1>1, <1>3, <1>4, <1>6, <1>7, OneConnection

\* A client reads an answer, or a part of one.
LEMMA ReceiveKeeps ==
  ASSUME Tel!TelnetAssumption, TelnetInv, NEW c \in Tel!Conn, Tel!Receive(c)
  PROVE  TelnetInv'
<1>1. /\ user[c] \in {"up", "eof"} /\ timeouts' = [timeouts EXCEPT ![c] = 0]
      /\ UNCHANGED <<user, typed, upward, rst, turn, serving, cwd, replied, whole>>
      /\ shown' = IF Head(downward[c]) = Tel!Rest THEN shown
                  ELSE [shown EXCEPT ![c] = Append(@, Head(downward[c]))]
  BY DEF Tel!Receive, Tel!Alive, Tel!serverVars
<1>2. PICK n \in 1 .. Len(downward[c]) :
        Tel!Taken(downward[c], n) /\ downward' = [downward EXCEPT ![c] = Tel!After(@, n)]
  BY DEF Tel!Receive
<1>3. /\ DOMAIN downward = Tel!Conn /\ DOMAIN shown = Tel!Conn /\ whole \in BOOLEAN
      /\ timeouts \in [Tel!Conn -> 0 .. TelnetProbes] /\ 0 \in 0 .. TelnetProbes
  BY DEF TelnetInv, TelnetTypes, Tel!TelnetAssumption
<1>4. Dialogue(c)
  BY DEF TelnetInv
<1>5. n \in {1, 2} /\ n <= Len(downward[c]) /\ (whole = TRUE => n = 2)
  <2>1. n \in 1 .. 2 /\ n <= Len(downward[c]) /\ (whole => n = 2)
    BY <1>2 DEF Tel!Taken
  <2> QED
    BY <2>1
<1>6. Head(downward[c]) = downward[c][1]
  <2>1. downward[c] \in Seq(Tel!Answer \cup {Tel!Rest}) /\ Len(downward[c]) \in Nat
    BY <1>4, TalkTypes DEF Dialogue
  <2>2. downward[c] # <<>>
    BY <1>5, <2>1
  <2> QED
    BY <2>1, <2>2
<1>7. /\ downward'[c] = Tel!After(downward[c], n)
      /\ shown'[c] = IF downward[c][1] = Tel!Rest THEN shown[c]
                     ELSE Append(shown[c], downward[c][1])
      /\ DOMAIN downward' = Tel!Conn /\ DOMAIN shown' = Tel!Conn
      /\ \A b \in Tel!Conn : b # c => downward'[b] = downward[b] /\ shown'[b] = shown[b]
  BY <1>1, <1>2, <1>3, <1>6
<1>8. TelnetTypes'
  <2>1. timeouts' \in [Tel!Conn -> 0 .. TelnetProbes]
    BY <1>1, <1>3
  <2> QED
    BY <1>1, <1>7, <2>1 DEF TelnetInv, TelnetTypes
<1>9. Talk(typed[c], upward[c], replied[c], downward'[c], shown'[c], user[c], whole)
  <2>1. Talk(typed[c], upward[c], replied[c], downward[c], shown[c], user[c], whole)
    BY <1>4 DEF Dialogue
  <2>2. user[c] # "gone"
    BY <1>1
  <2>3. PICK h : h = IF downward[c][1] = Tel!Rest THEN shown[c]
                     ELSE Append(shown[c], downward[c][1])
    OBVIOUS
  <2>4. Talk(typed[c], upward[c], replied[c], Tel!After(downward[c], n), h, user[c], whole)
    BY ONLY Tel!TelnetAssumption, <1>5, <2>1, <2>2, <2>3, TalkReads
  <2> QED
    BY <1>7, <2>3, <2>4
<1>10. turn'[c] = "open" => Directory(typed'[c], replied'[c], cwd')
  BY <1>1, <1>4 DEF Dialogue
<1> QED
  BY <1>1, <1>7, <1>8, <1>9, <1>10, OneConnection

\* A client goes, however that comes about.
LEMMA GoneKeeps ==
  ASSUME Tel!TelnetAssumption, TelnetInv, NEW c \in Tel!Conn,
         Tel!GiveUp(c) \/ Tel!Quit(c) \/ Tel!Kill(c)
  PROVE  TelnetInv'
<1>1. user[c] # "new" /\ Tel!Gone(c)
  BY DEF Tel!GiveUp, Tel!Quit, Tel!Kill, Tel!Alive, Tel!Elapsed
<1>2. /\ user' = [user EXCEPT ![c] = "gone"] /\ timeouts' = [timeouts EXCEPT ![c] = 0]
      /\ shown' = [shown EXCEPT ![c] = <<>>] /\ downward' = [downward EXCEPT ![c] = <<>>]
      /\ UNCHANGED <<typed, turn, serving, cwd, replied, whole>>
  BY <1>1 DEF Tel!Gone, Tel!serverVars
<1>3. \/ UNCHANGED <<upward, rst>>
      \/ /\ rst' = [rst EXCEPT ![c] = "pending"]
         /\ \E n \in 0 .. Len(upward[c]) :
              /\ whole => n % 2 = 0
              /\ upward' = [upward EXCEPT ![c] = SubSeq(@, 1, n)]
  BY <1>1 DEF Tel!Gone
<1>4. /\ user \in [Tel!Conn -> {"new", "up", "eof", "gone"}] /\ turn[c] # "new"
      /\ timeouts \in [Tel!Conn -> 0 .. TelnetProbes] /\ 0 \in 0 .. TelnetProbes
      /\ rst \in [Tel!Conn -> {"no", "pending", "reported"}]
      /\ DOMAIN shown = Tel!Conn /\ DOMAIN downward = Tel!Conn /\ DOMAIN upward = Tel!Conn
      /\ whole \in BOOLEAN
  BY <1>1 DEF TelnetInv, TelnetTypes, Tel!TelnetAssumption
<1>5. /\ user'[c] = "gone" /\ shown'[c] = <<>> /\ downward'[c] = <<>>
      /\ \A b \in Tel!Conn : b # c => /\ user'[b] = user[b] /\ shown'[b] = shown[b]
                                      /\ downward'[b] = downward[b]
      /\ DOMAIN shown' = Tel!Conn /\ DOMAIN downward' = Tel!Conn
      /\ user' \in [Tel!Conn -> {"new", "up", "eof", "gone"}]
      /\ timeouts' \in [Tel!Conn -> 0 .. TelnetProbes]
  BY <1>2, <1>4
<1>6. /\ DOMAIN upward' = Tel!Conn /\ rst' \in [Tel!Conn -> {"no", "pending", "reported"}]
      /\ \A b \in Tel!Conn : b # c => upward'[b] = upward[b]
      /\ \/ upward'[c] = upward[c]
         \/ \E n \in 0 .. Len(upward[c]) : /\ upward'[c] = SubSeq(upward[c], 1, n)
                                           /\ whole = TRUE => n % 2 = 0
  <2>1. CASE UNCHANGED <<upward, rst>>
    BY <1>4, <2>1
  <2>2. CASE ~UNCHANGED <<upward, rst>>
    <3>1. rst' = [rst EXCEPT ![c] = "pending"]
      BY <1>3, <2>2
    <3>2. PICK n \in 0 .. Len(upward[c]) : /\ whole => n % 2 = 0
                                           /\ upward' = [upward EXCEPT ![c] = SubSeq(@, 1, n)]
      BY <1>3, <2>2
    <3>3. /\ DOMAIN upward' = Tel!Conn /\ upward'[c] = SubSeq(upward[c], 1, n)
          /\ \A b \in Tel!Conn : b # c => upward'[b] = upward[b]
      BY <1>4, <3>2
    <3>4. whole = TRUE => n % 2 = 0
      BY <3>2
    <3>5. rst' \in [Tel!Conn -> {"no", "pending", "reported"}]
      BY <1>4, <3>1
    <3> QED
      BY <3>3, <3>4, <3>5
  <2> QED
    BY <2>1, <2>2
<1>7. TelnetTypes'
  <2>1. \A b \in Tel!Conn : /\ serving' = b <=> turn'[b] = "open"
                            /\ user'[b] = "new" <=> turn'[b] = "new"
                            /\ turn'[b] \in {"new", "backlog"} => replied'[b] = <<>>
    BY <1>2, <1>4, <1>5 DEF TelnetInv, TelnetTypes
  <2> QED
    BY <1>2, <1>5, <1>6, <2>1 DEF TelnetInv, TelnetTypes
<1>8. Dialogue(c)
  BY DEF TelnetInv
<1>9. Talk(typed[c], upward'[c], replied[c], <<>>, <<>>, "gone", whole)
  <2>1. Talk(typed[c], upward[c], replied[c], downward[c], shown[c], user[c], whole)
    BY <1>8 DEF Dialogue
  <2> QED
    BY <1>6, <2>1, TalkGoes
<1>10. turn'[c] = "open" => Directory(typed'[c], replied'[c], cwd')
  BY <1>2, <1>8 DEF Dialogue
<1> QED
  BY <1>2, <1>5, <1>6, <1>7, <1>9, <1>10, OneConnection

\* A client's turn comes.
LEMMA TurnKeeps ==
  ASSUME Tel!TelnetAssumption, TelnetInv, NEW c \in Tel!Conn, Tel!Accept(c)
  PROVE  TelnetInv'
<1>1. /\ serving = NoConn /\ turn[c] = "backlog" /\ serving' = c
      /\ turn' = [turn EXCEPT ![c] = "open"]
      /\ UNCHANGED <<user, timeouts, typed, shown, upward, downward, rst, cwd, replied, whole>>
  BY DEF Tel!Accept, Tel!Backlog, Tel!clientVars, Tel!wireVars
<1>2. /\ turn \in [Tel!Conn -> {"new", "backlog", "open", "closed"}] /\ replied[c] = <<>>
      /\ \A b \in Tel!Conn : turn[b] # "open"
  BY <1>1 DEF TelnetInv, TelnetTypes, Tel!TelnetAssumption
<1>3. /\ turn'[c] = "open" /\ turn' \in [Tel!Conn -> {"new", "backlog", "open", "closed"}]
      /\ \A b \in Tel!Conn : b # c => turn'[b] = turn[b]
  BY <1>1, <1>2
<1>4. TelnetTypes'
  <2>1. \A b \in Tel!Conn : /\ serving' = b <=> turn'[b] = "open"
                            /\ user'[b] = "new" <=> turn'[b] = "new"
                            /\ turn'[b] \in {"new", "backlog"} => replied'[b] = <<>>
    BY <1>1, <1>2, <1>3 DEF TelnetInv, TelnetTypes
  <2> QED
    BY <1>1, <1>3, <2>1 DEF TelnetInv, TelnetTypes
<1>5. Talk(typed[c], upward[c], replied[c], downward[c], shown[c], user[c], whole)
  BY DEF TelnetInv, Dialogue
<1>6. Directory(typed[c], replied[c], cwd)
  <2>1. Len(replied[c]) = 0
    BY <1>2
  <2> QED
    BY <2>1 DEF Directory
<1> QED
  BY <1>1, <1>2, <1>3, <1>4, <1>5, <1>6, OneConnection

\* It ends.
LEMMA CloseKeeps ==
  ASSUME Tel!TelnetAssumption, TelnetInv, NEW c \in Tel!Conn, Tel!Close(c)
  PROVE  TelnetInv'
<1>1. /\ serving = c /\ serving' = NoConn /\ turn' = [turn EXCEPT ![c] = "closed"]
      /\ UNCHANGED <<user, timeouts, typed, shown, upward, downward, rst, cwd, replied, whole>>
  BY DEF Tel!Close, Tel!AtEof, Tel!clientVars, Tel!wireVars
<1>2. /\ turn \in [Tel!Conn -> {"new", "backlog", "open", "closed"}]
      /\ turn[c] = "open" /\ \A b \in Tel!Conn : b # c => turn[b] # "open"
  BY <1>1 DEF TelnetInv, TelnetTypes
<1>3. /\ turn'[c] = "closed" /\ turn' \in [Tel!Conn -> {"new", "backlog", "open", "closed"}]
      /\ \A b \in Tel!Conn : b # c => turn'[b] = turn[b]
  BY <1>1, <1>2
<1>4. TelnetTypes'
  <2>1. \A b \in Tel!Conn : /\ serving' = b <=> turn'[b] = "open"
                            /\ user'[b] = "new" <=> turn'[b] = "new"
                            /\ turn'[b] \in {"new", "backlog"} => replied'[b] = <<>>
    BY <1>1, <1>2, <1>3 DEF TelnetInv, TelnetTypes, Tel!TelnetAssumption
  <2> QED
    BY <1>1, <1>3, <2>1 DEF TelnetInv, TelnetTypes
<1>5. Talk(typed[c], upward[c], replied[c], downward[c], shown[c], user[c], whole)
  BY DEF TelnetInv, Dialogue
<1> QED
  BY <1>1, <1>2, <1>3, <1>4, <1>5, OneConnection

\* A read that reports a RST.
LEMMA ReadFailsKeeps ==
  ASSUME Tel!TelnetAssumption, TelnetInv, NEW c \in Tel!Conn, Tel!ReadFails(c)
  PROVE  TelnetInv'
<1>1. /\ rst' = [rst EXCEPT ![c] = "reported"]
      /\ UNCHANGED <<user, timeouts, typed, shown, upward, downward, turn, serving, cwd, replied, whole>>
  BY DEF Tel!ReadFails, Tel!clientVars, Tel!serverVars
<1>2. TelnetTypes'
  <2>1. rst' \in [Tel!Conn -> {"no", "pending", "reported"}]
    BY <1>1 DEF TelnetInv, TelnetTypes
  <2> QED
    BY <1>1, <2>1 DEF TelnetInv, TelnetTypes
<1>3. \A b \in Tel!Conn : Dialogue(b)'
  <2> TAKE b \in Tel!Conn
  <2>1. Dialogue(b)
    BY DEF TelnetInv
  <2> QED
    BY <1>1, <2>1 DEF Dialogue
<1> QED
  BY <1>2, <1>3 DEF TelnetInv

\* A read that brings a message or a part of one, and what comes of it.
LEMMA ServeKeeps ==
  ASSUME Tel!TelnetAssumption, TelnetInv, NEW c \in Tel!Conn, Tel!Serve(c)
  PROVE  TelnetInv'
<1>1. /\ serving = c /\ Tel!Handle(c, Head(upward[c]))
      /\ UNCHANGED <<user, timeouts, typed, shown, turn, serving, whole>>
  BY DEF Tel!Serve, Tel!clientVars
<1>2. PICK n \in 1 .. Len(upward[c]) :
        Tel!Taken(upward[c], n) /\ upward' = [upward EXCEPT ![c] = Tel!After(@, n)]
  BY DEF Tel!Serve
<1>3. /\ DOMAIN upward = Tel!Conn /\ DOMAIN downward = Tel!Conn /\ DOMAIN replied = Tel!Conn
      /\ rst \in [Tel!Conn -> {"no", "pending", "reported"}]
      /\ whole \in BOOLEAN /\ cwd \in Dir
      /\ turn[c] = "open" /\ user[c] # "new" /\ user[c] \in {"new", "up", "eof", "gone"}
      /\ \A b \in Tel!Conn : b # c => turn[b] # "open"
  BY <1>1 DEF TelnetInv, TelnetTypes
<1>4. Talk(typed[c], upward[c], replied[c], downward[c], shown[c], user[c], whole)
      /\ Directory(typed[c], replied[c], cwd)
  BY <1>3 DEF TelnetInv, Dialogue
<1>5. n \in {1, 2} /\ n <= Len(upward[c]) /\ (whole = TRUE => n = 2)
  <2>1. n \in 1 .. 2 /\ n <= Len(upward[c]) /\ (whole => n = 2)
    BY <1>2 DEF Tel!Taken
  <2> QED
    BY <2>1
<1>6. PICK m : m = upward[c][1] /\ m = Head(upward[c]) /\ m \in Message \cup {Tel!Rest}
  <2>1. upward[c] \in Seq(Message \cup {Tel!Rest}) /\ Len(upward[c]) \in Nat
    BY <1>4, TalkTypes
  <2>2. upward[c] # <<>> /\ 1 \in 1 .. Len(upward[c])
    BY <1>5, <2>1
  <2> QED
    BY <2>1, <2>2
<1>7. /\ upward'[c] = Tel!After(upward[c], n) /\ DOMAIN upward' = Tel!Conn
      /\ \A b \in Tel!Conn : b # c => upward'[b] = upward[b]
  BY <1>2, <1>3
<1> DEFINE Served ==
      /\ DOMAIN downward' = Tel!Conn /\ DOMAIN replied' = Tel!Conn /\ cwd' \in Dir
      /\ rst' \in [Tel!Conn -> {"no", "pending", "reported"}]
      /\ \A b \in Tel!Conn : b # c => replied'[b] = replied[b] /\ downward'[b] = downward[b]
      /\ Talk(typed[c], Tel!After(upward[c], n), replied'[c], downward'[c], shown[c],
              user[c], whole)
      /\ Directory(typed[c], replied'[c], cwd')
<1>8. ASSUME Served PROVE TelnetInv'
  <2>1. \A b \in Tel!Conn : turn'[b] \in {"new", "backlog"} => replied'[b] = <<>>
    BY <1>1, <1>3, <1>8 DEF TelnetInv, TelnetTypes
  <2>2. TelnetTypes'
    BY <1>1, <1>7, <1>8, <2>1 DEF TelnetInv, TelnetTypes
  <2>3. \A b \in Tel!Conn : b # c =>
            /\ typed'[b] = typed[b] /\ upward'[b] = upward[b] /\ replied'[b] = replied[b]
            /\ downward'[b] = downward[b] /\ shown'[b] = shown[b] /\ user'[b] = user[b]
            /\ turn'[b] = "open" => turn[b] = "open" /\ cwd' = cwd
    BY <1>1, <1>3, <1>7, <1>8
  <2>4. Talk(typed'[c], upward'[c], replied'[c], downward'[c], shown'[c], user'[c], whole)
    BY <1>1, <1>7, <1>8
  <2>5. turn'[c] = "open" => Directory(typed'[c], replied'[c], cwd')
    BY <1>1, <1>8
  <2>6. whole' = whole
    BY <1>1
  <2> QED
    BY ONLY TelnetInv, c \in Tel!Conn, <2>2, <2>3, <2>4, <2>5, <2>6, OneConnection
<1>9. ASSUME m = Tel!Rest PROVE Served
  <2>1. UNCHANGED <<downward, rst, cwd, replied>>
    <3>1. Tel!Handle(c, Tel!Rest)
      BY <1>1, <1>6, <1>9
    <3>2. Tel!Rest.type # "ping" /\ Tel!Rest.type # "text"
      BY DEF Tel!Rest
    <3> QED
      BY <3>1, <3>2 DEF Tel!Handle
  <2>2. Talk(typed[c], Tel!After(upward[c], n), replied[c], downward[c], shown[c], user[c], whole)
    BY <1>4, <1>5, <1>6, <1>9, TalkSkips
  <2> QED
    BY <1>3, <1>4, <2>1, <2>2
<1>10. ASSUME m # Tel!Rest PROVE Served
  <2>1. m \in Message
    BY <1>6, <1>10
  <2>2. /\ m.type \in {"ping", "text"} /\ m.no \in Nat /\ m.data \in Tel!Lines \cup {"none"}
        /\ m = [type |-> m.type, no |-> m.no, data |-> m.data]
    BY <2>1 DEF Message
  <2>3. /\ m.no \in 1 .. MaxTyped
        /\ m.type = "ping" <=> m.data = "none"
    <3>1. PICK A \in Nat, U \in Nat :
             /\ A = Len(typed[c]) /\ U = Len(upward[c]) /\ A <= MaxTyped /\ MaxTyped \in Nat
             /\ \A i \in 1 .. A : typed[c][i] \in Question
             /\ \A i \in 1 .. U : upward[c][i] # Tel!Rest =>
                  /\ upward[c][i].no \in 1 .. A
                  /\ upward[c][i].type = typed[c][upward[c][i].no].type
                  /\ upward[c][i].data = typed[c][upward[c][i].no].data
      <4>1. PICK a, u, r : a = typed[c] /\ u = upward[c] /\ r = replied[c]
        OBVIOUS
      <4>2. Asked(a, u, r) /\ Tel!TelnetAssumption
        BY <1>4, <4>1 DEF Talk
      <4>3. \E A \in Nat, U \in Nat, R \in Nat :
              /\ A = Len(a) /\ U = Len(u) /\ A <= MaxTyped /\ MaxTyped \in Nat
              /\ \A i \in 1 .. A : a[i] \in Question
              /\ \A i \in 1 .. U : u[i] # Tel!Rest =>
                   u[i].no \in 1 .. A /\ u[i].type = a[u[i].no].type /\ u[i].data = a[u[i].no].data
        BY ONLY <4>2, AskedSays
      <4> QED
        BY <4>1, <4>3
    <3>2. 1 \in 1 .. U
      BY <1>5, <3>1
    <3>3. m.no \in 1 .. A /\ m.type = typed[c][m.no].type /\ m.data = typed[c][m.no].data
      BY <1>6, <1>10, <3>1, <3>2
    <3>4. typed[c][m.no] \in Question
      BY <3>1, <3>3
    <3>5. m.type = "ping" <=> m.data = "none"
      BY <3>3, <3>4 DEF Question
    <3> QED
      BY <3>1, <3>3, <3>5
  <2>4. PICK x : /\ Tel!Reply(c, x) /\ x.no = m.no /\ (x.type = "pong" <=> m.type = "ping")
                 /\ x \in Tel!Answer
                 /\ m.data = "ls" => x.data = cwd
                 /\ cwd' = IF m.data \in Dir THEN m.data ELSE cwd
    <3>0. "none" \notin Dir /\ "ls" \notin Dir /\ "other" \notin Dir
      BY DEF Tel!TelnetAssumption
    <3>1. CASE m.type = "ping"
      <4>1. PICK x : x = [m EXCEPT !.type = "pong"]
        OBVIOUS
      <4>2. Tel!Reply(c, x) /\ UNCHANGED cwd
        BY <1>1, <1>6, <1>10, <3>1, <4>1 DEF Tel!Handle
      <4>3. x = [type |-> "pong", no |-> m.no, data |-> "none"]
        BY <2>1, <2>3, <3>1, <4>1 DEF Message
      <4>4. x \in Tel!Answer
        BY <2>3, <4>3 DEF Tel!Answer
      <4> QED
        BY <2>3, <3>0, <3>1, <4>2, <4>3, <4>4
    <3>2. CASE m.type = "text"
      <4>1. PICK data : data = CASE m.data = "ls" -> cwd
                                 [] m.data \in Dir -> "any"
                                 [] m.data = "other" -> "refused"
        OBVIOUS
      <4>2. PICK x : x = [m EXCEPT !.data = data]
        OBVIOUS
      <4>3. Tel!Reply(c, x) /\ cwd' = IF m.data \in Dir THEN m.data ELSE cwd
        <5>1. Tel!Execute(c, m)
          BY <1>1, <1>6, <1>10, <3>2 DEF Tel!Handle
        <5> QED
          BY <4>1, <4>2, <5>1 DEF Tel!Execute
      <4>4. m.data = "ls" \/ m.data = "other" \/ m.data \in Dir
        BY <2>2, <2>3, <3>2 DEF Tel!Lines
      <4>5. data \in Dir \cup {"none", "any", "refused"} /\ (m.data = "ls" => data = cwd)
        BY <1>3, <3>0, <4>1, <4>4
      <4>6. x = [type |-> "text", no |-> m.no, data |-> data]
        BY <2>1, <3>2, <4>2 DEF Message
      <4>7. x \in Tel!Answer
        BY <2>3, <4>5, <4>6 DEF Tel!Answer
      <4> QED
        BY <3>2, <4>3, <4>5, <4>6, <4>7
    <3> QED
      BY <2>2, <3>1, <3>2
  <2>5. /\ replied' = [replied EXCEPT ![c] = Append(@, x)]
        /\ user[c] # "gone" => /\ downward' = [downward EXCEPT ![c] = Tel!Sent(@, x)]
                               /\ UNCHANGED rst
        /\ user[c] = "gone" => /\ UNCHANGED downward
                               /\ \E r \in {"no", "pending", "reported"} :
                                    rst' = [rst EXCEPT ![c] = r]
    BY <1>3, <2>4 DEF Tel!Reply, Tel!Alive
  <2>6. /\ DOMAIN downward' = Tel!Conn /\ DOMAIN replied' = Tel!Conn /\ cwd' \in Dir
        /\ rst' \in [Tel!Conn -> {"no", "pending", "reported"}]
        /\ \A b \in Tel!Conn : b # c => replied'[b] = replied[b] /\ downward'[b] = downward[b]
        /\ replied'[c] = Append(replied[c], x)
        /\ downward'[c] = IF user[c] = "gone" THEN downward[c] ELSE Tel!Sent(downward[c], x)
    <3>1. cwd' \in Dir
      BY <1>3, <2>4
    <3>2. CASE user[c] = "gone"
      BY <1>3, <2>5, <3>1, <3>2
    <3>3. CASE user[c] # "gone"
      BY <1>3, <2>5, <3>1, <3>3
    <3> QED
      BY <3>2, <3>3
  <2>7. /\ Talk(typed[c], Tel!After(upward[c], n), Append(replied[c], x), downward'[c], shown[c],
                user[c], whole)
        /\ Directory(typed[c], Append(replied[c], x), cwd')
    <3>1. /\ upward[c][1] # Tel!Rest /\ x.no = upward[c][1].no
          /\ x.type = "pong" <=> upward[c][1].type = "ping"
          /\ upward[c][1].data = "ls" => x.data = cwd
          /\ cwd' = IF upward[c][1].data \in Dir THEN upward[c][1].data ELSE cwd
          /\ x \in Tel!Answer
      BY <1>6, <1>10, <2>4
    <3>2. PICK a, u, r, d, g, who :
            /\ a = typed[c] /\ u = upward[c] /\ r = replied[c] /\ d = downward[c]
            /\ g = shown[c] /\ who = user[c]
      OBVIOUS
    <3>3. /\ Talk(a, u, r, d, g, who, whole) /\ Directory(a, r, cwd) /\ Tel!TelnetAssumption
          /\ n \in {1, 2} /\ n <= Len(u) /\ (whole = TRUE => n = 2)
          /\ u[1] # Tel!Rest /\ x.no = u[1].no /\ (x.type = "pong" <=> u[1].type = "ping")
          /\ x \in Tel!Answer
      BY <1>4, <1>5, <3>1, <3>2
    <3>4. u[1].data = "ls" => x.data = cwd
      BY <3>1, <3>2
    <3>5. who # "gone" => Talk(a, Tel!After(u, n), Append(r, x), Tel!Sent(d, x), g, who, whole)
      BY ONLY <3>3, <3>4, TalkAnswers
    <3>6. who = "gone" => Talk(a, Tel!After(u, n), Append(r, x), d, g, who, whole)
      BY ONLY <3>3, <3>4, TalkAnswers
    <3>7. PICK new : new = IF u[1].data \in Dir THEN u[1].data ELSE cwd
      OBVIOUS
    <3>8. Asked(a, u, r) /\ Own(a, r) /\ Len(u) # 0
      BY <3>3 DEF Talk, Asked
    <3>9. Directory(a, Append(r, x), new)
      BY ONLY <3>3, <3>4, <3>7, <3>8, MovedTo
    <3>10. cwd' = new
      BY <3>1, <3>2, <3>7
    <3> QED
      BY <2>6, <3>2, <3>5, <3>6, <3>9, <3>10
  <2> QED
    BY <2>6, <2>7
<1> QED
  BY <1>8, <1>9, <1>10

LEMMA TelnetKeeps ==
  ASSUME Tel!TelnetAssumption, TelnetInv, [Tel!Next]_(Tel!vars) PROVE TelnetInv'
<1>1. CASE UNCHANGED Tel!vars
  <2>1. UNCHANGED <<user, timeouts, typed, shown, upward, downward, rst, turn, serving, cwd,
                    replied, whole>>
    BY <1>1 DEF Tel!vars, Tel!clientVars, Tel!wireVars, Tel!serverVars
  <2>2. TelnetTypes'
    BY <2>1 DEF TelnetInv, TelnetTypes
  <2>3. \A b \in Tel!Conn : Dialogue(b)'
    <3> TAKE b \in Tel!Conn
    <3>1. Dialogue(b)
      BY DEF TelnetInv
    <3> QED
      BY <2>1, <3>1 DEF Dialogue
  <2> QED
    BY <2>2, <2>3 DEF TelnetInv
<1>2. CASE Tel!Server
  <2>1. PICK c \in Tel!Conn : Tel!Accept(c) \/ Tel!Serve(c) \/ Tel!ReadFails(c) \/ Tel!Close(c)
    BY <1>2 DEF Tel!Server
  <2> QED
    BY <2>1, TurnKeeps, ServeKeeps, ReadFailsKeeps, CloseKeeps
<1>3. ASSUME NEW c \in Tel!Conn, Tel!Client(c) PROVE TelnetInv'
  BY <1>3, ConnectKeeps, AskKeeps, ReceiveKeeps, EndKeepsDialogue, GoneKeeps DEF Tel!Client
<1> QED
  BY <1>1, <1>2, <1>3 DEF Tel!Next

\* The elements of a sequence are those at its places.
LEMMA ElementsIn ==
  ASSUME NEW S, NEW s \in Seq(S) PROVE Tel!ToSet(s) \subseteq S /\ DOMAIN s = 1 .. Len(s)
<1>1. DOMAIN s = 1 .. Len(s) /\ \A i \in 1 .. Len(s) : s[i] \in S
  OBVIOUS
<1> QED
  BY <1>1 DEF Tel!ToSet

\* Messages that arrive whole are all answered, and the answers seen.
LEMMA WholeInOrder ==
  ASSUME NEW a, NEW u, NEW r, NEW d, NEW g, NEW who, NEW w, Talk(a, u, r, d, g, who, w), w = TRUE
  PROVE  Tel!IsPrefix(g, r) /\ (Len(r) > 0 => Tel!Last(r).no = Len(r))
<1>1. AskedWhole(a, u, r, who) /\ AnsweredWhole(r, d, g, who)
  BY DEF Talk
<1>2. r \in Seq(Tel!Answer) /\ g \in Seq(Tel!Answer)
  BY TalkTypes
<1>3. PICK R \in Nat, G \in Nat : R = Len(r) /\ G = Len(g)
  BY <1>2
<1>4. G <= R /\ \A k \in 1 .. G : g[k] = r[k]
  <2>1. CASE who = "gone"
    <3>1. G = 0
      BY <1>1, <1>3, <2>1 DEF AnsweredWhole
    <3> QED
      BY <3>1
  <2>2. CASE who # "gone"
    <3>1. PICK h \in Nat : G + h = R
      BY <1>1, <1>3, <2>2 DEF AnsweredWhole
    <3>2. \A k \in 1 .. G : g[k] = r[k]
      BY <1>1, <1>3, <2>2 DEF AnsweredWhole
    <3> QED
      BY <3>1, <3>2
  <2> QED
    BY <2>1, <2>2
<1>5. Tel!IsPrefix(g, r)
  BY <1>2, <1>3, <1>4 DEF Tel!IsPrefix
<1>6. ASSUME R > 0 PROVE Tel!Last(r).no = R
  <2>1. R \in 1 .. R
    BY <1>6
  <2> QED
    BY <1>1, <1>3, <2>1 DEF AskedWhole, Tel!Last
<1> QED
  BY <1>3, <1>5, <1>6

LEMMA TelnetImplies ==
  ASSUME Tel!TelnetAssumption, TelnetInv PROVE AnswersInOrder /\ OwnDirectory
<1>1. TelnetTypes
  BY DEF TelnetInv
<1>2. ASSUME NEW c \in Tel!Conn
      PROVE  Talk(typed[c], upward[c], replied[c], downward[c], shown[c], user[c], whole)
  BY DEF TelnetInv, Dialogue
<1>3. ASSUME NEW a, NEW u, NEW r, NEW d, NEW g, NEW who, Talk(a, u, r, d, g, who, whole)
      PROVE  /\ Tel!ToSet(g) \cup Tel!ToSet(r) \subseteq Tel!Answer
             /\ Tel!ToSet(a) \subseteq [type : {"ping", "text"}, data : Tel!Lines \cup {"none"}]
             /\ Len(u) <= 2 * MaxTyped /\ Len(d) <= 2 * MaxTyped
             /\ Tel!Rising(r) /\ Tel!Rising(g)
             /\ \A i \in DOMAIN r : /\ r[i].no \in DOMAIN a
                                    /\ r[i].type = "pong" <=> a[r[i].no].type = "ping"
  <2>1. Asked(a, u, r) /\ Answered(r, d, g)
    BY <1>3 DEF Talk
  <2>2. /\ a \in Seq(Question) /\ r \in Seq(Tel!Answer) /\ g \in Seq(Tel!Answer)
    BY <1>3, TalkTypes
  <2>3. PICK A \in Nat, U \in Nat, R \in Nat :
           /\ A = Len(a) /\ U = Len(u) /\ R = Len(r) /\ A <= MaxTyped /\ U <= 2 * A /\ R <= A
           /\ MaxTyped \in Nat
           /\ \A i \in 1 .. R : r[i].no \in Nat /\ i <= r[i].no /\ r[i].no <= A
    BY <2>1, AskedSays
  <2>4. PICK D \in Nat, G \in Nat : D = Len(d) /\ G = Len(g) /\ D <= 2 * R
    <3>1. d \in Seq(Tel!Answer \cup {Tel!Rest})
      BY <1>3, TalkTypes
    <3> QED
      BY <2>1, <2>2, <2>3, <3>1 DEF Answered
  <2>5. /\ DOMAIN a = 1 .. A /\ DOMAIN r = 1 .. R /\ DOMAIN g = 1 .. G
        /\ Tel!ToSet(a) \subseteq Question /\ Tel!ToSet(r) \subseteq Tel!Answer
        /\ Tel!ToSet(g) \subseteq Tel!Answer
    BY <2>2, <2>3, <2>4, ElementsIn
  <2>6. Question \subseteq [type : {"ping", "text"}, data : Tel!Lines \cup {"none"}]
    BY DEF Question
  <2>7. U <= 2 * MaxTyped /\ D <= 2 * MaxTyped
    BY <2>3, <2>4
  <2>8. Tel!Rising(r)
    <3>1. \A i, j \in 1 .. R : i < j => i \in 1 .. j - 1
      OBVIOUS
    <3>2. \A j \in 1 .. R : \A i \in 1 .. j - 1 : r[i].no < r[j].no
      BY <2>1, <2>3 DEF Asked
    <3> QED
      BY <2>5, <3>1, <3>2 DEF Tel!Rising
  <2>9. Tel!Rising(g)
    <3>1. \A i, j \in 1 .. G : i < j => i \in 1 .. j - 1
      OBVIOUS
    <3>2. \A j \in 1 .. G : \A i \in 1 .. j - 1 : g[i].no < g[j].no
      BY <2>1, <2>4 DEF Answered
    <3> QED
      BY <2>5, <3>1, <3>2 DEF Tel!Rising
  <2>10. ASSUME NEW i \in DOMAIN r
         PROVE  r[i].no \in DOMAIN a /\ (r[i].type = "pong" <=> a[r[i].no].type = "ping")
    <3>1. i \in 1 .. R /\ i \in Nat
      BY <2>5
    <3>2. r[i].no \in 1 .. A
      BY <2>3, <3>1
    <3>3. r[i].type = "pong" <=> a[r[i].no].type = "ping"
      BY <2>1, <2>3, <3>1 DEF Asked
    <3> QED
      BY <2>5, <3>2, <3>3
  <2> QED
    BY <2>3, <2>4, <2>5, <2>6, <2>7, <2>8, <2>9, <2>10
<1>4. Tel!TypeOK
  <2>1. ASSUME NEW c \in Tel!Conn
        PROVE  /\ Tel!ToSet(shown[c]) \cup Tel!ToSet(replied[c]) \subseteq Tel!Answer
               /\ Tel!ToSet(typed[c]) \subseteq [type : {"ping", "text"}, data : Tel!Lines \cup {"none"}]
               /\ Len(upward[c]) <= 2 * MaxTyped /\ Len(downward[c]) <= 2 * MaxTyped
               /\ serving = c <=> turn[c] = "open"
    <3>1. Talk(typed[c], upward[c], replied[c], downward[c], shown[c], user[c], whole)
      BY <1>2
    <3>2. /\ Tel!ToSet(shown[c]) \cup Tel!ToSet(replied[c]) \subseteq Tel!Answer
          /\ Tel!ToSet(typed[c]) \subseteq [type : {"ping", "text"}, data : Tel!Lines \cup {"none"}]
          /\ Len(upward[c]) <= 2 * MaxTyped /\ Len(downward[c]) <= 2 * MaxTyped
      BY <1>3, <3>1
    <3> QED
      BY <1>1, <3>2 DEF TelnetTypes
  <2> QED
    BY <1>1, <2>1 DEF Tel!TypeOK, TelnetTypes
<1>5. AnswersInOrder
  <2>1. ASSUME NEW c \in Tel!Conn
        PROVE  /\ Tel!Rising(replied[c]) /\ Tel!Rising(shown[c])
               /\ \A i \in DOMAIN replied[c] :
                    /\ replied[c][i].no \in DOMAIN typed[c]
                    /\ replied[c][i].type = "pong" <=> typed[c][replied[c][i].no].type = "ping"
               /\ whole => /\ Tel!IsPrefix(shown[c], replied[c])
                           /\ Len(replied[c]) > 0 => Tel!Last(replied[c]).no = Len(replied[c])
    <3>1. Talk(typed[c], upward[c], replied[c], downward[c], shown[c], user[c], whole)
      BY <1>2
    <3>2. /\ Tel!Rising(replied[c]) /\ Tel!Rising(shown[c])
          /\ \A i \in DOMAIN replied[c] :
               /\ replied[c][i].no \in DOMAIN typed[c]
               /\ replied[c][i].type = "pong" <=> typed[c][replied[c][i].no].type = "ping"
          /\ whole = TRUE => /\ Tel!IsPrefix(shown[c], replied[c])
                             /\ Len(replied[c]) > 0 => Tel!Last(replied[c]).no = Len(replied[c])
      <4>1. PICK a, u, r, d, g, who :
              /\ a = typed[c] /\ u = upward[c] /\ r = replied[c] /\ d = downward[c]
              /\ g = shown[c] /\ who = user[c]
        OBVIOUS
      <4>2. Talk(a, u, r, d, g, who, whole)
        BY <3>1, <4>1
      <4>3. Tel!Rising(r) /\ Tel!Rising(g)
        BY ONLY <1>3, <4>2
      <4>4. \A i \in DOMAIN r : r[i].no \in DOMAIN a /\ (r[i].type = "pong" <=> a[r[i].no].type = "ping")
        BY ONLY <1>3, <4>2
      <4>5. whole = TRUE => Tel!IsPrefix(g, r) /\ (Len(r) > 0 => Tel!Last(r).no = Len(r))
        BY ONLY <4>2, WholeInOrder
      <4> QED
        BY <4>1, <4>3, <4>4, <4>5
    <3>3. whole => whole = TRUE
      BY <1>1 DEF TelnetTypes
    <3> QED
      BY <3>2, <3>3
  <2> QED
    BY <1>4, <2>1 DEF AnswersInOrder, Tel!AnswersInOrder
<1>6. OwnDirectory
  <2> SUFFICES ASSUME NEW c \in Tel!Conn, NEW i \in DOMAIN replied[c], NEW j \in DOMAIN replied[c],
                      i < j, typed[c][replied[c][i].no].data \in Dir,
                      typed[c][replied[c][j].no].data = "ls",
                      \A k \in i + 1 .. j - 1 : typed[c][replied[c][k].no].data \notin Dir
               PROVE  replied[c][j].data = typed[c][replied[c][i].no].data
    BY DEF OwnDirectory, Tel!OwnDirectory
  <2>1. Own(typed[c], replied[c]) /\ replied[c] \in Seq(Tel!Answer)
    BY <1>2 DEF Talk, Asked
  <2>2. DOMAIN replied[c] = 1 .. Len(replied[c])
    BY <2>1
  <2> QED
    BY <2>1, <2>2 DEF Own
<1> QED
  BY <1>5, <1>6

\* However the network cuts messages, the answers of the telnet server come once
\* and in the order of what was asked, and those that are not cut all come; for
\* every number of clients, messages, probes and directories.
THEOREM AnswersGoInOrder ==
  ASSUME Tel!TelnetAssumption PROVE Tel!Spec => []AnswersInOrder
<1>1. Tel!Init => TelnetInv
  BY TelnetStarts
<1>2. TelnetInv /\ [Tel!Next]_(Tel!vars) => TelnetInv'
  BY TelnetKeeps
<1>3. TelnetInv => AnswersInOrder
  BY TelnetImplies
<1> QED
  BY <1>1, <1>2, <1>3, PTL DEF Tel!Spec

\* The directory is one for all clients, and still a client that has changed it
\* is shown its own choice for as long as it stays.
THEOREM DirectoryIsOwn ==
  ASSUME Tel!TelnetAssumption PROVE Tel!Spec => []OwnDirectory
<1>1. Tel!Init => TelnetInv
  BY TelnetStarts
<1>2. TelnetInv /\ [Tel!Next]_(Tel!vars) => TelnetInv'
  BY TelnetKeeps
<1>3. TelnetInv => OwnDirectory
  BY TelnetImplies
<1> QED
  BY <1>1, <1>2, <1>3, PTL DEF Tel!Spec

-----------------------------------------------------------------------------
(* The five programs beside each other *)

Steps ==
    /\ [Next]_vars /\ [Half!Next]_(Half!vars) /\ [Framing!Next]_(Framing!vars)
    /\ [Http!Next]_(Http!vars) /\ [Tel!Next]_(Tel!vars)

\* What one program does leaves the four others where they are.
LEMMA StepIsOneProgram == [MCNext]_MCvars => Steps
<1> SUFFICES ASSUME [MCNext]_MCvars PROVE Steps
  OBVIOUS
<1>1. /\ UNCHANGED halfVars => UNCHANGED Half!vars
      /\ UNCHANGED framingVars => UNCHANGED Framing!vars
      /\ UNCHANGED httpVars => UNCHANGED Http!vars
      /\ UNCHANGED telnetVars => UNCHANGED Tel!vars
  BY DEF halfVars, Half!vars, Half!clientVars, Half!serverVars,
         framingVars, Framing!vars, Framing!clientVars, Framing!serverVars,
         httpVars, Http!vars, Http!clientVars, Http!serverVars,
         telnetVars, Tel!vars, Tel!clientVars, Tel!wireVars, Tel!serverVars
<1>2. ASSUME UNCHANGED halfVars, UNCHANGED framingVars, UNCHANGED httpVars, UNCHANGED telnetVars,
             Ping \/ GiveUp \/ Receive \/ Terminated \/ Read \/ Pong \/ End \/ Cut \/ Tick
      PROVE  Steps
  BY <1>1, <1>2, Zenon DEF Next, Steps
<1>3. ASSUME UNCHANGED vars, UNCHANGED framingVars, UNCHANGED httpVars, UNCHANGED telnetVars,
             \/ Half!Ask \/ Half!ReadAnswers \/ Half!ServerTerminated \/ Half!ShutDown \/ Half!Close
             \/ Half!Refused \/ Half!Read \/ Half!Stop \/ Half!Answer \/ Half!Interrupt
      PROVE  Steps
  BY <1>1, <1>3, Zenon DEF Half!Next, Half!Client, Half!Server, Steps
<1>4. ASSUME UNCHANGED vars, UNCHANGED halfVars, UNCHANGED httpVars, UNCHANGED telnetVars,
             \/ \E n \in 1 .. Width + BufSize :
                  Framing!ReadSome(n) \/ Framing!LengthRead(n) \/ Framing!TypeRead(n) \/ Framing!BodyRead(n)
             \/ Framing!EndOfStream \/ Framing!ReadFails
             \/ \E b \in Framing!Bodies : Framing!Send(b) \/ Framing!Kill(b)
             \/ Framing!Close \/ Framing!Reset
      PROVE  Steps
  BY <1>1, <1>4, Zenon DEF Framing!Next, Framing!Server, Steps
<1>5. ASSUME UNCHANGED vars, UNCHANGED halfVars, UNCHANGED framingVars, UNCHANGED telnetVars, ~exited,
             \/ \E c \in Http!Conn :
                  \/ Http!Accept(c) \/ Http!CreateFails(c)
                  \/ Http!Connect(c) \/ Http!Fin(c) \/ Http!Reset(c)
                  \/ \E x \in Http!Char : Http!Send(c, x)
             \/ Http!Recv \/ Http!Peek \/ Http!RecvEnd \/ Http!RecvFails
             \/ Http!RequestLine \/ Http!HeaderLine \/ Http!EndOfHeaders \/ Http!Answer
      PROVE  Steps
  BY <1>1, <1>5, Zenon DEF Http!Next, Http!Server, Http!Client, Steps
<1>6. ASSUME UNCHANGED vars, UNCHANGED halfVars, UNCHANGED framingVars, UNCHANGED httpVars,
             \E c \in Tel!Conn :
                \/ Tel!Connect(c) \/ Tel!Ping(c) \/ Tel!Receive(c) \/ Tel!EndOfInput(c)
                \/ Tel!GiveUp(c) \/ Tel!Quit(c) \/ Tel!Kill(c)
                \/ Tel!Accept(c) \/ Tel!Serve(c) \/ Tel!ReadFails(c) \/ Tel!Close(c)
                \/ \E line \in Tel!Lines : Tel!TypeLine(c, line)
      PROVE  Steps
  <2>1. Tel!Next
    BY <1>6, Zenon DEF Tel!Next, Tel!Server, Tel!Client
  <2> QED
    BY <1>1, <1>6, <2>1, Zenon DEF Steps
<1>7. CASE UNCHANGED MCvars
  BY <1>1, <1>7 DEF MCvars, Steps
<1>8. CASE MCNext
  BY <1>2, <1>3, <1>4, <1>5, <1>6, <1>8, Zenon
     DEF MCNext, HeartbeatStep, HalfStep, FramingStep, HttpStep, TelnetStep
<1> QED
  BY <1>7, <1>8

\* Of the five programs that a run chooses from each keeps what was proved of it
\* alone.
THEOREM ConnectionsCorrect ==
  MCSpec => []( /\ OnlyDeadGivenUp /\ SilenceBounded
                /\ ShutdownLosesNothing /\ DiesOfLostAnswers
                /\ ReceivedIsPrefix /\ AnsweredAtEmptyLine
                /\ AnswersInOrder /\ OwnDirectory)
<1>1. MCInit => Init /\ Half!Init /\ Framing!Init /\ Http!Init /\ Tel!Init
  BY DEF MCInit
<1>2. [MCNext]_MCvars => /\ [Next]_vars /\ [Half!Next]_(Half!vars) /\ [Framing!Next]_(Framing!vars)
                         /\ [Http!Next]_(Http!vars) /\ [Tel!Next]_(Tel!vars)
  BY StepIsOneProgram DEF Steps
<1>3. MCSpec => Spec /\ Half!Spec /\ Framing!Spec /\ Http!Spec /\ Tel!Spec
  BY <1>1, <1>2, PTL DEF MCSpec, Spec, Half!Spec, Framing!Spec, Http!Spec, Tel!Spec
<1>4. Half!AskedAssumption /\ Framing!FramingAssumption /\ Http!HttpAssumption /\ Tel!TelnetAssumption
  BY ConnectionsAssumption
<1>5. /\ Half!Spec => []ShutdownLosesNothing
      /\ Half!Spec => []DiesOfLostAnswers
      /\ Framing!Spec => []ReceivedIsPrefix
      /\ Http!Spec => []AnsweredAtEmptyLine
      /\ Tel!Spec => []AnswersInOrder
      /\ Tel!Spec => []OwnDirectory
  BY <1>4, ShutdownSafe, DeathsExplained, FramesSurviveCuts, AnsweredAtEnd,
     AnswersGoInOrder, DirectoryIsOwn
<1> QED
  BY <1>3, <1>5, LiveNotGivenUp, DetectionBound, PTL
================================================================================
