-------------------------- MODULE ProcessServerProofs --------------------------
(***************************************************************************)
(* What ProcessServer promises, for any number of process slots,           *)
(* connections and chunks.                                                 *)
(***************************************************************************)
EXTENDS ProcessServer, TLAPS

Living == {p \in Child : child[p] \in {"start", "loop"}}

\* The parent refers to the connection it has just accepted and to no other;
\* until it forks, nobody else refers to that one.
ParentRefs ==
    /\ at # "accept" => conn_fd \in Conn
    /\ \A c \in Conn : Parent \in holds[c] <=> at # "accept" /\ conn_fd = c
    /\ at = "fork" => holds[conn_fd] = {Parent}

\* A living child refers to the connection it serves, which no other serves.
ChildRefs ==
    /\ \A p \in Living : serves[p] \in Conn /\ p \in holds[serves[p]]
    /\ \A p, q \in Living : serves[p] = serves[q] => p = q

\* No chunk is echoed that was not sent: it is unread, in the buffer of the
\* child that serves the connection, or echoed, and never two of these.
Counts ==
    /\ \A c \in Conn : echoed[c] + unread[c] <= sent[c]
    /\ \A p \in Child : child[p] # "loop" => held[p] = 0
    /\ \A p \in Child : child[p] = "loop" =>
         echoed[serves[p]] + unread[serves[p]] + held[p] <= sent[serves[p]]

IInv == TypeOK /\ ParentRefs /\ OpenIsHeld /\ ChildRefs /\ Counts

-----------------------------------------------------------------------------

\* The invariant holds before main has accepted anything.
LEMMA InitInv == Init => IInv
  <1> SUFFICES ASSUME Init PROVE IInv
    OBVIOUS
  <1> USE ProcessAssumption, ClientAssumption DEF Init, ClientInit, Child, Parent
  <1>1. TypeOK
    <2>1. ClientTypeOK
      BY DEF ClientTypeOK
    <2>2. held \in [Child -> 0 .. MaxSent] /\ holds \in [Conn -> SUBSET (Child \cup {Parent})]
      OBVIOUS
    <2> QED
      BY <2>1, <2>2 DEF TypeOK
  <1>2. ParentRefs
    BY DEF ParentRefs
  <1>3. OpenIsHeld
    BY DEF OpenIsHeld
  <1>4. ChildRefs
    BY DEF ChildRefs, Living
  <1>5. Counts
    BY DEF Counts
  <1> QED
    BY <1>1, <1>2, <1>3, <1>4, <1>5 DEF IInv

\* The steps of the system, one by one.
LEMMA StepCases ==
  ASSUME [Next]_vars
  PROVE  \/ \E c \in Conn : Accept(c)
         \/ \E p \in Child : Fork(p)
         \/ ForkFails
         \/ CloseConn
         \/ Deliver
         \/ \E p \in Child : Reap(p)
         \/ Return
         \/ \E p \in Child : Start(p)
         \/ \E p \in Child : Read(p)
         \/ \E p \in Child : Write(p)
         \/ \E p \in Child : Exit(p)
         \/ \E c \in Conn : ClientStep(c) /\ Others
         \/ UNCHANGED vars
  BY DEF Next, Main, Handler, ChildStep, Client

\* A step keeps every variable in its range: what a child writes it has read.
LEMMA TypeStep ==
  ASSUME IInv, [Next]_vars
  PROVE  TypeOK'
  <1> USE ProcessAssumption, ClientAssumption DEF IInv, TypeOK, ClientTypeOK, Child, Parent, vars, parentVars, childVars, signalVars, refVars, clientVars
  <1>1. ASSUME NEW c \in Conn, Accept(c) PROVE TypeOK'
    BY <1>1 DEF Accept, Accepted, Backlog
  <1>2. ASSUME NEW p \in Child, Fork(p) PROVE TypeOK'
    BY <1>2 DEF Fork
  <1>3. CASE ForkFails
    BY <1>3 DEF ForkFails, ParentRefs
  <1>4. CASE CloseConn
    BY <1>4 DEF CloseConn, Release
  <1>5. CASE Deliver
    BY <1>5 DEF Deliver
  <1>6. ASSUME NEW p \in Child, Reap(p) PROVE TypeOK'
    BY <1>6 DEF Reap, Zombies
  <1>7. CASE Return
    BY <1>7 DEF Return
  <1>8. ASSUME NEW p \in Child, Start(p) PROVE TypeOK'
    BY <1>8 DEF Start
  <1>9. ASSUME NEW p \in Child, Read(p) PROVE TypeOK'
    <2>1. PICK n \in 1 .. MaxSent : Received(serves[p], n) /\ held' = [held EXCEPT ![p] = n]
      BY <1>9 DEF Read
    <2>2. serves[p] \in Conn
      BY <1>9 DEF Read, ChildRefs, Living
    <2>3. unread[serves[p]] - n \in 0 .. MaxSent
      BY <2>1, <2>2 DEF Received
    <2>4. unread' \in [Conn -> 0 .. MaxSent]
      <3>1. unread' = [unread EXCEPT ![serves[p]] = unread[serves[p]] - n]
        BY <2>1 DEF Received
      <3> QED
        BY <2>3, <3>1
    <2>5. held' \in [Child -> 0 .. MaxSent]
      BY <2>1
    <2> QED
      BY <1>9, <2>1, <2>4, <2>5 DEF Read, Received
  <1>10. ASSUME NEW p \in Child, Write(p) PROVE TypeOK'
    <2>1. serves[p] \in Conn
      BY <1>10 DEF Write, ChildRefs, Living
    <2>2. echoed[serves[p]] + held[p] \in 0 .. MaxSent
      BY <1>10, <2>1 DEF Write, Counts
    <2>3. echoed' \in [Conn -> 0 .. MaxSent]
      <3>1. echoed' = [echoed EXCEPT ![serves[p]] = echoed[serves[p]] + held[p]]
        BY <1>10 DEF Write, Replied
      <3> QED
        BY <2>2, <3>1
    <2>4. held' \in [Child -> 0 .. MaxSent]
      BY <1>10 DEF Write
    <2> QED
      BY <1>10, <2>3, <2>4 DEF Write, Replied
  <1>11. ASSUME NEW p \in Child, Exit(p) PROVE TypeOK'
    <2>1. /\ holds' \in [Conn -> SUBSET (Child \cup {Parent})]
          /\ stage' \in [Conn -> {"new", "backlog", "open", "closed"}]
      BY <1>11 DEF Exit, Release
    <2>2. held' \in [Child -> 0 .. MaxSent]
      BY <1>11 DEF Exit
    <2> QED
      BY <1>11, <2>1, <2>2 DEF Exit, Release
  <1>12. ASSUME NEW c \in Conn, ClientStep(c), Others PROVE TypeOK'
    <2>1. CASE Connect(c) \/ Fin(c) \/ Reset(c)
      BY <1>12, <2>1 DEF Others, Connect, Fin, Reset
    <2>2. CASE Send(c)
      <3>1. sent[c] + 1 \in 0 .. MaxSent /\ unread[c] + 1 \in 0 .. MaxSent
        BY <2>2 DEF Send, Counts
      <3> QED
        BY <1>12, <2>2, <3>1 DEF Others, Send
    <2> QED
      BY <1>12, <2>1, <2>2 DEF ClientStep
  <1>13. CASE UNCHANGED vars
    BY <1>13
  <1> QED
    BY StepCases, <1>1, <1>2, <1>3, <1>4, <1>5, <1>6, <1>7, <1>8, <1>9, <1>10, <1>11, <1>12, <1>13

\* A step keeps the parent's references right.
LEMMA ParentStep ==
  ASSUME IInv, [Next]_vars
  PROVE  ParentRefs'
  <1> USE ProcessAssumption DEF IInv, ParentRefs, TypeOK, Child, Parent, vars, parentVars, childVars, signalVars, refVars, clientVars
  <1>1. ASSUME NEW c \in Conn, Accept(c) PROVE ParentRefs'
    BY <1>1 DEF Accept, Accepted
  <1>2. ASSUME NEW p \in Child, Fork(p) PROVE ParentRefs'
    BY <1>2 DEF Fork
  <1>3. CASE ForkFails
    BY <1>3 DEF ForkFails
  <1>4. CASE CloseConn
    BY <1>4 DEF CloseConn, Release
  <1>5. CASE Deliver
    BY <1>5 DEF Deliver
  <1>6. ASSUME NEW p \in Child, Reap(p) PROVE ParentRefs'
    BY <1>6 DEF Reap
  <1>7. CASE Return
    BY <1>7 DEF Return
  <1>8. ASSUME NEW p \in Child, Start(p) PROVE ParentRefs'
    BY <1>8 DEF Start
  <1>9. ASSUME NEW p \in Child, Read(p) PROVE ParentRefs'
    BY <1>9 DEF Read, Received
  <1>10. ASSUME NEW p \in Child, Write(p) PROVE ParentRefs'
    BY <1>10 DEF Write, Replied
  <1>11. ASSUME NEW p \in Child, Exit(p) PROVE ParentRefs'
    BY <1>11 DEF Exit, Release
  <1>12. ASSUME NEW c \in Conn, ClientStep(c), Others PROVE ParentRefs'
    BY <1>12 DEF ClientStep, Others, Connect, Send, Fin, Reset, Exists
  <1>13. CASE UNCHANGED vars
    BY <1>13
  <1> QED
    BY StepCases, <1>1, <1>2, <1>3, <1>4, <1>5, <1>6, <1>7, <1>8, <1>9, <1>10, <1>11, <1>12, <1>13

\* A step keeps a connection open exactly as long as somebody refers to it.
LEMMA OpenStep ==
  ASSUME IInv, [Next]_vars
  PROVE  OpenIsHeld'
  <1> USE ProcessAssumption DEF IInv, OpenIsHeld, ParentRefs, ChildRefs, Living, TypeOK, ClientTypeOK, Child, Parent, vars, parentVars, childVars, signalVars, refVars, clientVars
  <1>1. ASSUME NEW c \in Conn, Accept(c) PROVE OpenIsHeld'
    BY <1>1 DEF Accept, Accepted, Backlog
  <1>2. ASSUME NEW p \in Child, Fork(p) PROVE OpenIsHeld'
    BY <1>2 DEF Fork
  <1>3. CASE ForkFails
    BY <1>3 DEF ForkFails
  <1>4. CASE CloseConn
    BY <1>4 DEF CloseConn, Release
  <1>5. CASE Deliver
    BY <1>5 DEF Deliver
  <1>6. ASSUME NEW p \in Child, Reap(p) PROVE OpenIsHeld'
    BY <1>6 DEF Reap, Zombies
  <1>7. CASE Return
    BY <1>7 DEF Return
  <1>8. ASSUME NEW p \in Child, Start(p) PROVE OpenIsHeld'
    BY <1>8 DEF Start
  <1>9. ASSUME NEW p \in Child, Read(p) PROVE OpenIsHeld'
    BY <1>9 DEF Read, Received
  <1>10. ASSUME NEW p \in Child, Write(p) PROVE OpenIsHeld'
    BY <1>10 DEF Write, Replied
  <1>11. ASSUME NEW p \in Child, Exit(p) PROVE OpenIsHeld'
    BY <1>11 DEF Exit, Release
  <1>12. ASSUME NEW c \in Conn, ClientStep(c), Others PROVE OpenIsHeld'
    BY <1>12 DEF ClientStep, Others, Connect, Send, Fin, Reset, Exists
  <1>13. CASE UNCHANGED vars
    BY <1>13
  <1> QED
    BY StepCases, <1>1, <1>2, <1>3, <1>4, <1>5, <1>6, <1>7, <1>8, <1>9, <1>10, <1>11, <1>12, <1>13

\* A step keeps each living child the only one to serve its connection.
LEMMA ChildStepRefs ==
  ASSUME IInv, [Next]_vars
  PROVE  ChildRefs'
  <1> USE ProcessAssumption DEF IInv, OpenIsHeld, ParentRefs, ChildRefs, Living, TypeOK, ClientTypeOK, Child, Parent, vars, parentVars, childVars, signalVars, refVars, clientVars
  <1>1. ASSUME NEW c \in Conn, Accept(c) PROVE ChildRefs'
    <2>1. holds[c] = {}
      BY <1>1 DEF Accept, Accepted, Backlog
    <2>2. \A q \in Living : serves[q] # c
      BY <2>1
    <2> QED
      BY <1>1, <2>2 DEF Accept, Accepted
  <1>2. ASSUME NEW p \in Child, Fork(p) PROVE ChildRefs'
    BY <1>2 DEF Fork
  <1>3. CASE ForkFails
    BY <1>3 DEF ForkFails
  <1>4. CASE CloseConn
    BY <1>4 DEF CloseConn, Release
  <1>5. CASE Deliver
    BY <1>5 DEF Deliver
  <1>6. ASSUME NEW p \in Child, Reap(p) PROVE ChildRefs'
    BY <1>6 DEF Reap, Zombies
  <1>7. CASE Return
    BY <1>7 DEF Return
  <1>8. ASSUME NEW p \in Child, Start(p) PROVE ChildRefs'
    BY <1>8 DEF Start
  <1>9. ASSUME NEW p \in Child, Read(p) PROVE ChildRefs'
    BY <1>9 DEF Read, Received
  <1>10. ASSUME NEW p \in Child, Write(p) PROVE ChildRefs'
    BY <1>10 DEF Write, Replied
  <1>11. ASSUME NEW p \in Child, Exit(p) PROVE ChildRefs'
    BY <1>11 DEF Exit, Release
  <1>12. ASSUME NEW c \in Conn, ClientStep(c), Others PROVE ChildRefs'
    BY <1>12 DEF ClientStep, Others, Connect, Send, Fin, Reset, Exists
  <1>13. CASE UNCHANGED vars
    BY <1>13
  <1> QED
    BY StepCases, <1>1, <1>2, <1>3, <1>4, <1>5, <1>6, <1>7, <1>8, <1>9, <1>10, <1>11, <1>12, <1>13

\* A step keeps the count of the chunks.
LEMMA CountStep ==
  ASSUME IInv, [Next]_vars
  PROVE  Counts'
  <1> USE ProcessAssumption, ClientAssumption DEF IInv, Counts, ChildRefs, Living, TypeOK, ClientTypeOK, Child, Parent, vars, parentVars, childVars, signalVars, refVars, clientVars
  <1>1. ASSUME NEW c \in Conn, Accept(c) PROVE Counts'
    BY <1>1 DEF Accept, Accepted
  <1>2. ASSUME NEW p \in Child, Fork(p) PROVE Counts'
    BY <1>2 DEF Fork
  <1>3. CASE ForkFails
    BY <1>3 DEF ForkFails
  <1>4. CASE CloseConn
    BY <1>4 DEF CloseConn, Release
  <1>5. CASE Deliver
    BY <1>5 DEF Deliver
  <1>6. ASSUME NEW p \in Child, Reap(p) PROVE Counts'
    BY <1>6 DEF Reap, Zombies
  <1>7. CASE Return
    BY <1>7 DEF Return
  <1>8. ASSUME NEW p \in Child, Start(p) PROVE Counts'
    <2>1. serves[p] \in Conn /\ held[p] = 0
      BY <1>8 DEF Start
    <2> QED
      BY <1>8, <2>1 DEF Start
  <1>9. ASSUME NEW p \in Child, Read(p) PROVE Counts'
    <2>1. PICK n \in 1 .. MaxSent : Received(serves[p], n) /\ held' = [held EXCEPT ![p] = n]
      BY <1>9 DEF Read
    <2>2. serves[p] \in Conn /\ held[p] = 0
      BY <1>9 DEF Read
    <2>3. \A q \in Child : child[q] = "loop" /\ q # p => serves[q] # serves[p]
      BY <1>9 DEF Read
    <2>4. \A c \in Conn : unread'[c] = IF c = serves[p] THEN unread[c] - n ELSE unread[c]
      BY <2>1 DEF Received
    <2>5. \A c \in Conn : (echoed[c] + unread[c] <= sent[c])'
      BY <1>9, <2>1, <2>4 DEF Read, Received
    <2>6. \A q \in Child : (child[q] = "loop" => echoed[serves[q]] + unread[serves[q]] + held[q] <= sent[serves[q]])'
      <3> SUFFICES ASSUME NEW q \in Child, child[q] = "loop"
                   PROVE  (echoed[serves[q]] + unread[serves[q]] + held[q] <= sent[serves[q]])'
        BY <1>9 DEF Read
      <3>1. CASE q = p
        BY <1>9, <2>1, <2>2, <2>4, <3>1 DEF Read, Received
      <3>2. CASE q # p
        BY <1>9, <2>1, <2>3, <2>4, <3>2 DEF Read, Received
      <3> QED
        BY <3>1, <3>2
    <2> QED
      BY <1>9, <2>1, <2>5, <2>6 DEF Read
  <1>10. ASSUME NEW p \in Child, Write(p) PROVE Counts'
    <2>1. serves[p] \in Conn
      BY <1>10 DEF Write
    <2>2. \A q \in Child : child[q] = "loop" /\ q # p => serves[q] # serves[p]
      BY <1>10 DEF Write
    <2>3. \A c \in Conn : echoed'[c] = IF c = serves[p] THEN echoed[c] + held[p] ELSE echoed[c]
      BY <1>10 DEF Write, Replied
    <2>4. \A c \in Conn : (echoed[c] + unread[c] <= sent[c])'
      BY <1>10, <2>1, <2>3 DEF Write, Replied
    <2>5. \A q \in Child : (child[q] = "loop" => echoed[serves[q]] + unread[serves[q]] + held[q] <= sent[serves[q]])'
      <3> SUFFICES ASSUME NEW q \in Child, child[q] = "loop"
                   PROVE  (echoed[serves[q]] + unread[serves[q]] + held[q] <= sent[serves[q]])'
        BY <1>10 DEF Write
      <3>1. CASE q = p
        BY <1>10, <2>1, <2>3, <3>1 DEF Write, Replied
      <3>2. CASE q # p
        BY <1>10, <2>2, <2>3, <3>2 DEF Write, Replied
      <3> QED
        BY <3>1, <3>2
    <2> QED
      BY <1>10, <2>4, <2>5 DEF Write
  <1>11. ASSUME NEW p \in Child, Exit(p) PROVE Counts'
    BY <1>11 DEF Exit, Release
  <1>12. ASSUME NEW c \in Conn, ClientStep(c), Others PROVE Counts'
    <2>1. CASE Connect(c) \/ Fin(c) \/ Reset(c)
      BY <1>12, <2>1 DEF Others, Connect, Fin, Reset
    <2>2. CASE Send(c)
      <3>1. \A b \in Conn : /\ sent'[b] = (IF b = c THEN sent[b] + 1 ELSE sent[b])
                             /\ unread'[b] = (IF b = c THEN unread[b] + 1 ELSE unread[b])
        <4>1. /\ sent' = [sent EXCEPT ![c] = sent[c] + 1]
              /\ unread' = [unread EXCEPT ![c] = unread[c] + 1]
          BY <2>2 DEF Send
        <4> QED
          BY <4>1
      <3>2. UNCHANGED <<echoed, child, serves, held>>
        BY <1>12, <2>2 DEF Others, Send
      <3>3. \A b \in Conn : /\ echoed[b] \in Nat /\ unread[b] \in Nat /\ sent[b] \in Nat
                             /\ echoed'[b] = echoed[b]
        BY <3>2
      <3>4. \A b \in Conn : echoed'[b] + unread'[b] <= sent'[b]
        <4>1. \A b \in Conn : echoed[b] + unread[b] <= sent[b]
          BY DEF IInv, Counts
        <4> QED
          BY ONLY <3>1, <3>3, <4>1
      <3>5. ASSUME NEW p \in Child, child'[p] = "loop"
            PROVE  echoed'[serves'[p]] + unread'[serves'[p]] + held'[p] <= sent'[serves'[p]]
        <4>1. /\ child[p] = "loop" /\ serves'[p] = serves[p] /\ held'[p] = held[p]
              /\ serves[p] \in Conn /\ held[p] \in Nat
          BY <3>2, <3>5
        <4>2. echoed[serves[p]] + unread[serves[p]] + held[p] <= sent[serves[p]]
          BY <4>1
        <4> QED
          BY ONLY <3>1, <3>3, <4>1, <4>2
      <3>6. \A p \in Child : child'[p] # "loop" => held'[p] = 0
        BY <3>2
      <3> QED
        BY ONLY <3>4, <3>5, <3>6 DEF Counts
    <2> QED
      BY <1>12, <2>1, <2>2 DEF ClientStep
  <1>13. CASE UNCHANGED vars
    BY <1>13
  <1> QED
    BY StepCases, <1>1, <1>2, <1>3, <1>4, <1>5, <1>6, <1>7, <1>8, <1>9, <1>10, <1>11, <1>12, <1>13

-----------------------------------------------------------------------------

LEMMA InvStep == IInv /\ [Next]_vars => IInv'
  BY TypeStep, ParentStep, OpenStep, ChildStepRefs, CountStep DEF IInv

LEMMA Invariance == Spec => []IInv
  BY InitInv, InvStep, PTL DEF Spec

\* Every variable stays in its range: what main, child_run and the handler
\* do never writes more chunks than the client sent, however the steps of the
\* children interleave.
THEOREM TypeCorrect == Spec => []TypeOK
  <1>1. IInv => TypeOK
    BY DEF IInv
  <1> QED
    BY <1>1, Invariance, PTL

\* A socket is open exactly while a process refers to it, and a living child
\* refers to its own connection only: what main's close, fork and the child's
\* exit do to the references fork has copied.
THEOREM SocketsHeld == Spec => []OpenIsHeld
  <1>1. IInv => OpenIsHeld
    BY DEF IInv
  <1> QED
    BY <1>1, Invariance, PTL

\* A connection has one child at most to serve it, and that child refers to
\* it until it exits: main's fork and close.
THEOREM OneServer == Spec => []ChildRefs
  <1>1. IInv => ChildRefs
    BY DEF IInv
  <1> QED
    BY <1>1, Invariance, PTL

\* While there is a zombie, SIGCHLD is pending or sigchld_handler is at work,
\* however many children end at a time: the loop over waitpid.
THEOREM ZombiesReaped == Spec => []ZombieIsSignalled
  <1>1. Init => ZombieIsSignalled
    BY DEF Init, ZombieIsSignalled, Zombies
  <1>2. ASSUME TypeOK, ZombieIsSignalled, [Next]_vars PROVE ZombieIsSignalled'
    <2> USE <1>2 DEF TypeOK, ZombieIsSignalled, Zombies, vars, parentVars, childVars, signalVars
    <2>1. ASSUME NEW p \in Child, Fork(p) PROVE ZombieIsSignalled'
      BY <2>1 DEF Fork
    <2>2. ASSUME NEW p \in Child, Start(p) PROVE ZombieIsSignalled'
      BY <2>2 DEF Start
    <2>3. ASSUME NEW p \in Child, Exit(p) PROVE ZombieIsSignalled'
      BY <2>3 DEF Exit
    <2>4. CASE Deliver
      BY <2>4 DEF Deliver
    <2>5. ASSUME NEW p \in Child, Reap(p) PROVE ZombieIsSignalled'
      BY <2>5 DEF Reap
    <2>6. CASE Return
      BY <2>6 DEF Return
    <2>7. CASE UNCHANGED <<child, pending, handling>>
      BY <2>7
    <2>8. \/ \E p \in Child : Fork(p) \/ Start(p) \/ Exit(p) \/ Reap(p)
          \/ Deliver \/ Return \/ UNCHANGED <<child, pending, handling>>
      BY StepCases DEF Accept, ForkFails, CloseConn, Read, Write, Others
    <2> QED
      BY <2>1, <2>2, <2>3, <2>4, <2>5, <2>6, <2>7, <2>8
  <1> QED
    BY <1>1, <1>2, TypeCorrect, PTL DEF Spec

-----------------------------------------------------------------------------
(* The echo service *)

Untouched(c) == echoed[c] = 0 /\ unread[c] = sent[c]

\* Whoever closes c last may do it now.
Settled(c) ==
    \/ echoed[c] = 0
    \/ peer[c] = "reset"
    \/ peer[c] = "fin" /\ echoed[c] = sent[c]

\* Nothing is lost between the processes: a connection is untouched until its
\* child runs, the child has what is missing, and the parent alone keeps no
\* connection open that is not settled.
Whole ==
    /\ \A c \in Conn : stage[c] \in {"new", "backlog"} => Untouched(c)
    /\ at = "fork" => Untouched(conn_fd)
    /\ \A p \in Child : child[p] = "start" => Untouched(serves[p])
    /\ \A p \in Child : child[p] = "loop" =>
         echoed[serves[p]] + unread[serves[p]] + held[p] = sent[serves[p]]
    /\ \A c \in Conn : stage[c] = "open" /\ holds[c] = {Parent} => Settled(c)

LEMMA InitWhole == Init => Whole
  BY DEF Init, ClientInit, Whole, Untouched

\* Steps that touch no chunk.
LEMMA MoveKeepsWhole ==
  ASSUME IInv, Whole,
         \/ \E c \in Conn : Accept(c)
         \/ \E p \in Child : Fork(p) \/ Reap(p) \/ Start(p)
         \/ ForkFails \/ CloseConn \/ Deliver \/ Return \/ UNCHANGED vars
  PROVE  Whole'
  <1> USE ProcessAssumption, ClientAssumption DEF IInv, TypeOK, ClientTypeOK, Child, Parent, vars, parentVars, childVars, signalVars, refVars, clientVars, Untouched, Settled
  <1>1. ASSUME NEW c \in Conn, Accept(c) PROVE Whole'
    BY <1>1 DEF Accept, Accepted, Backlog, Whole
  <1>2. ASSUME NEW p \in Child, Fork(p) PROVE Whole'
    BY <1>2 DEF Fork, Whole, ParentRefs
  <1>3. CASE ForkFails
    BY <1>3 DEF ForkFails, Whole
  <1>4. CASE CloseConn
    BY <1>4 DEF CloseConn, Release, Whole
  <1>5. ASSUME NEW p \in Child, Start(p) PROVE Whole'
    <2>1. serves[p] \in Conn /\ held[p] = 0
      BY <1>5 DEF Start, ChildRefs, Living, Counts
    <2> QED
      BY <1>5, <2>1 DEF Start, Whole
  <1>6. ASSUME NEW p \in Child, Reap(p) PROVE Whole'
    BY <1>6 DEF Reap, Zombies, Whole
  <1>7. CASE Deliver \/ Return \/ UNCHANGED vars
    <2>1. UNCHANGED <<at, conn_fd, child, serves, held, holds, stage, peer, sent, unread, echoed>>
      BY <1>7 DEF Deliver, Return
    <2> QED
      BY <2>1 DEF Whole
  <1> QED
    BY <1>1, <1>2, <1>3, <1>4, <1>5, <1>6, <1>7

\* A living child refers to its connection, which is open, not about to be forked
\* for, and served by nobody else.
LEMMA ServesAlone ==
  ASSUME IInv, NEW p \in Child, child[p] = "loop"
  PROVE  /\ serves[p] \in Conn /\ stage[serves[p]] = "open" /\ p \in holds[serves[p]]
         /\ at = "fork" => conn_fd # serves[p]
         /\ \A q \in Child : child[q] \in {"start", "loop"} /\ q # p => serves[q] # serves[p]
         /\ holds[serves[p]] # {Parent}
  BY DEF IInv, ParentRefs, OpenIsHeld, ChildRefs, Living, Child, Parent

LEMMA ReadKeepsWhole ==
  ASSUME IInv, Whole, NEW p \in Child, Read(p)
  PROVE  Whole'
  <1> DEFINE c == serves[p]
  <1>1. PICK n \in 1 .. MaxSent : Received(c, n) /\ held' = [held EXCEPT ![p] = n]
    BY DEF Read
  <1>2. child[p] = "loop" /\ held[p] = 0
    BY DEF Read
  <1>3. \A b \in Conn : unread'[b] = IF b = c THEN unread[b] - n ELSE unread[b]
    BY <1>1 DEF Received, IInv, TypeOK, ClientTypeOK
  <1>4. \A q \in Child : held'[q] = IF q = p THEN n ELSE held[q]
    BY <1>1 DEF IInv, TypeOK
  <1>5. UNCHANGED <<at, conn_fd, child, serves, holds, stage, peer, sent, echoed>>
    BY <1>1 DEF Read, Received, parentVars, refVars
  <1>6. \A b \in Conn : b # c /\ Untouched(b) => Untouched(b)'
    BY <1>3, <1>5 DEF Untouched
  <1>7. \A q \in Child : child[q] = "loop" =>
          (echoed[serves[q]] + unread[serves[q]] + held[q] = sent[serves[q]])'
    <2> SUFFICES ASSUME NEW q \in Child, child[q] = "loop"
                 PROVE  (echoed[serves[q]] + unread[serves[q]] + held[q] = sent[serves[q]])'
      OBVIOUS
    <2>1. serves[q] \in Conn /\ (q # p => serves[q] # c)
      BY <1>2, ServesAlone
    <2>2. echoed[serves[q]] + unread[serves[q]] + held[q] = sent[serves[q]]
      BY DEF Whole
    <2> QED
      BY <1>2, <1>3, <1>4, <1>5, <2>1, <2>2, ClientAssumption DEF IInv, TypeOK, ClientTypeOK
  <1> QED
    BY <1>2, <1>5, <1>6, <1>7, ServesAlone DEF Whole, Settled, IInv, ParentRefs, ChildRefs, Living

LEMMA WriteKeepsWhole ==
  ASSUME IInv, Whole, NEW p \in Child, Write(p)
  PROVE  Whole'
  <1> DEFINE c == serves[p]
  <1>1. child[p] = "loop" /\ Replied(c, held[p]) /\ held' = [held EXCEPT ![p] = 0]
    BY DEF Write
  <1>2. \A b \in Conn : echoed'[b] = IF b = c THEN echoed[b] + held[p] ELSE echoed[b]
    BY <1>1 DEF Replied, IInv, TypeOK, ClientTypeOK
  <1>3. \A q \in Child : held'[q] = IF q = p THEN 0 ELSE held[q]
    BY <1>1 DEF IInv, TypeOK
  <1>4. UNCHANGED <<at, conn_fd, child, serves, holds, stage, peer, sent, unread>>
    BY <1>1 DEF Write, Replied, parentVars, refVars
  <1>5. \A b \in Conn : b # c => (Untouched(b) => Untouched(b)') /\ (Settled(b) => Settled(b)')
    BY <1>2, <1>4 DEF Untouched, Settled
  <1>6. \A q \in Child : child[q] = "loop" =>
          (echoed[serves[q]] + unread[serves[q]] + held[q] = sent[serves[q]])'
    <2> SUFFICES ASSUME NEW q \in Child, child[q] = "loop"
                 PROVE  (echoed[serves[q]] + unread[serves[q]] + held[q] = sent[serves[q]])'
      OBVIOUS
    <2>1. serves[q] \in Conn /\ (q # p => serves[q] # c)
      BY <1>1, ServesAlone
    <2>2. echoed[serves[q]] + unread[serves[q]] + held[q] = sent[serves[q]]
      BY DEF Whole
    <2> QED
      BY <1>2, <1>3, <1>4, <2>1, <2>2, ClientAssumption DEF IInv, TypeOK, ClientTypeOK
  <1> QED
    BY <1>1, <1>4, <1>5, <1>6, ServesAlone DEF Whole, IInv, ParentRefs, ChildRefs, Living

\* An exit leaves to the parent only what is settled.
LEMMA ExitKeepsWhole ==
  ASSUME IInv, Whole, NEW p \in Child, Exit(p)
  PROVE  Whole'
  <1> USE DEF IInv, TypeOK, ClientTypeOK, parentVars
  <1>1. child[p] = "loop" /\ Settled(serves[p])
    <2>1. child[p] = "loop" /\ serves[p] \in Conn
      BY ServesAlone DEF Exit
    <2>2. CASE Done(p)
      BY <2>1, <2>2, ClientAssumption DEF Done, AtEof, Whole, Settled
    <2>3. CASE peer[serves[p]] = "reset"
      BY <2>1, <2>3 DEF Settled
    <2> QED
      BY <2>1, <2>2, <2>3 DEF Exit
  <1>2. \A c \in Conn \ {serves[p]} : p \notin holds[c]
    BY DEF OpenIsHeld, Child, Parent
  <1>3. \A c \in Conn : holds'[c] = holds[c] \ {p}
    BY DEF Exit, Release
  <1>4. \A c \in Conn : stage'[c] = stage[c] \/ stage'[c] = "closed"
    BY DEF Exit, Release
  <1>5. \A q \in Child : child'[q] = (IF q = p THEN "zombie" ELSE child[q])
                         /\ held'[q] = (IF q = p THEN 0 ELSE held[q])
    BY DEF Exit
  <1>6. UNCHANGED <<at, conn_fd, serves, peer, sent, unread, echoed>>
    BY DEF Exit, Release
  <1>7. \A c \in Conn : stage'[c] = "open" /\ holds'[c] = {Parent} => Settled(c)
    BY <1>1, <1>2, <1>3, <1>4 DEF Whole
  <1> QED
    BY <1>4, <1>5, <1>6, <1>7 DEF Whole, Untouched, Settled

LEMMA ClientKeepsWhole ==
  ASSUME IInv, Whole, NEW c \in Conn, ClientStep(c), Others
  PROVE  Whole'
  <1> USE DEF Others, parentVars, childVars, refVars
  <1>1. CASE Connect(c) \/ Fin(c) \/ Reset(c)
    BY <1>1 DEF Connect, Fin, Reset, Whole, Untouched, Settled, IInv, TypeOK, ClientTypeOK
  <1>2. CASE Send(c)
    <2>1. \A b \in Conn : /\ sent'[b] = (IF b = c THEN sent[b] + 1 ELSE sent[b])
                          /\ unread'[b] = (IF b = c THEN unread[b] + 1 ELSE unread[b])
      BY <1>2 DEF Send, IInv, TypeOK, ClientTypeOK
    <2>2. peer[c] = "up" /\ UNCHANGED <<stage, peer, echoed>>
      BY <1>2 DEF Send
    <2>3. \A b \in Conn : (Untouched(b) => Untouched(b)') /\ (Settled(b) => Settled(b)')
      BY <2>1, <2>2 DEF Untouched, Settled
    <2>4. \A p \in Child : child[p] = "loop" =>
            (echoed[serves[p]] + unread[serves[p]] + held[p] = sent[serves[p]])'
      <3> SUFFICES ASSUME NEW p \in Child, child[p] = "loop"
                   PROVE  (echoed[serves[p]] + unread[serves[p]] + held[p] = sent[serves[p]])'
        OBVIOUS
      <3>1. serves[p] \in Conn /\ echoed[serves[p]] + unread[serves[p]] + held[p] = sent[serves[p]]
        BY ServesAlone DEF Whole
      <3> QED
        BY <2>1, <2>2, <3>1, ClientAssumption DEF IInv, TypeOK, ClientTypeOK
    <2> QED
      BY <2>2, <2>3, <2>4 DEF Whole, IInv, ParentRefs, ChildRefs, Living
  <1> QED
    BY <1>1, <1>2 DEF ClientStep

LEMMA WholeStep == IInv /\ Whole /\ [Next]_vars => Whole'
  BY StepCases, MoveKeepsWhole, ReadKeepsWhole, WriteKeepsWhole, ExitKeepsWhole, ClientKeepsWhole

-----------------------------------------------------------------------------

\* The steps that clients see.
LEMMA EchoIsEcho ==
  ASSUME IInv, Whole, NEW p \in Child, Write(p)
  PROVE  Service!Echo(serves[p]) /\ serves[p] \in Conn
  <1> DEFINE c == serves[p]
             n == held[p]
  <1>1. c \in Conn /\ stage[c] = "open" /\ n > 0 /\ Replied(c, n) /\ echoed[c] + unread[c] + n = sent[c]
    BY ServesAlone DEF Write, Whole
  <1> HIDE DEF c
  <1>2. n \in 1 .. sent[c] - echoed[c]
    BY <1>1, ClientAssumption DEF IInv, TypeOK, ClientTypeOK
  <1> HIDE DEF n
  <1>3. Service!Echo(c)
    BY <1>1, <1>2 DEF Replied, Service!Echo
  <1> QED
    BY <1>1, <1>3 DEF c

\* A process that gives up its references closes one connection at most, and that
\* one is settled.
LEMMA LastCloses ==
  ASSUME IInv, NEW p \in Child \cup {Parent}, NEW c \in Conn, Settled(c),
         NEW S \in SUBSET Conn, c \in S, Release(p, S), \A b \in S \ {c} : p \notin holds[b]
  PROVE  Service!Close(c) \/ UNCHANGED Service!serviceVars
  <1> USE DEF IInv, TypeOK, ClientTypeOK
  <1>1. stage' = IF holds[c] = {p} THEN [stage EXCEPT ![c] = "closed"] ELSE stage
    BY DEF Release
  <1>2. UNCHANGED <<peer, sent, unread, echoed>>
    BY DEF Release
  <1>3. CASE holds[c] = {p}
    BY <1>1, <1>2, <1>3 DEF OpenIsHeld, Settled, Service!Close, Service!Moves
  <1> QED
    BY <1>1, <1>2, <1>3 DEF Service!serviceVars

LEMMA ServiceStep ==
  ASSUME IInv, Whole, [Next]_vars
  PROVE  [Service!Next]_(Service!serviceVars)
  <1>1. ASSUME UNCHANGED clientVars PROVE UNCHANGED Service!serviceVars
    BY <1>1 DEF clientVars, Service!serviceVars
  <1>2. ASSUME NEW c \in Conn, Accept(c) PROVE Service!Next
    <2>1. Service!Accept(c)
      BY <1>2 DEF Accept, Accepted, Backlog, Service!Accept, Service!Moves
    <2> QED
      BY <2>1 DEF Service!Next
  <1>3. ASSUME NEW p \in Child, Write(p) PROVE Service!Next
    BY <1>3, EchoIsEcho DEF Service!Next
  <1>4. ASSUME NEW p \in Child, Read(p) PROVE UNCHANGED Service!serviceVars
    BY <1>4 DEF Read, Received, Service!serviceVars
  <1>5. CASE CloseConn
    <2>1. conn_fd \in Conn /\ Release(Parent, {conn_fd})
      BY <1>5 DEF CloseConn, IInv, ParentRefs
    <2>2. CASE holds[conn_fd] = {Parent}
      <3>1. Settled(conn_fd)
        BY <2>1, <2>2 DEF Whole, IInv, OpenIsHeld
      <3> QED
        BY <2>1, <3>1, LastCloses DEF Service!Next
    <2>3. CASE holds[conn_fd] # {Parent}
      BY <2>1, <2>3 DEF Release, Service!serviceVars, IInv, TypeOK, ClientTypeOK
    <2> QED
      BY <2>2, <2>3
  <1>6. ASSUME NEW p \in Child, Exit(p) PROVE [Service!Next]_(Service!serviceVars)
    <2>1. serves[p] \in Conn /\ Release(p, Conn) /\ child[p] = "loop"
      BY <1>6, ServesAlone DEF Exit
    <2>2. Settled(serves[p])
      BY <1>6, <2>1, ClientAssumption
      DEF Exit, Done, AtEof, Whole, Settled, IInv, TypeOK, ClientTypeOK
    <2>3. \A b \in Conn \ {serves[p]} : p \notin holds[b]
      BY DEF IInv, OpenIsHeld, Child, Parent
    <2> QED
      BY <2>1, <2>2, <2>3, LastCloses DEF Service!Next
  <1>7. ASSUME NEW c \in Conn, ClientStep(c) PROVE Service!Next
    <2>1. Service!Connect(c) \/ Service!Send(c) \/ Service!End(c)
      BY <1>7 DEF ClientStep, Connect, Send, Fin, Reset, Exists,
         Service!Connect, Service!Moves, Service!Send, Service!End
    <2> QED
      BY <2>1 DEF Service!Next
  <1>8. CASE \/ \E p \in Child : Fork(p) \/ Reap(p) \/ Start(p)
             \/ ForkFails \/ Deliver \/ Return \/ UNCHANGED vars
    BY <1>1, <1>8 DEF Fork, Reap, Start, ForkFails, Deliver, Return, vars
  <1> QED
    BY StepCases, <1>2, <1>3, <1>4, <1>5, <1>6, <1>7, <1>8

\* The processes together are an echo service: whichever of parent and child
\* closes last, the client has everything back, has reset the connection, or was
\* refused before anything was echoed.
THEOREM ProcessesImplementService == Spec => ImplementsService
  <1>1. Init => Service!Init
    BY DEF Init, ClientInit, Service!Init
  <1>2. IInv /\ Whole /\ [Next]_vars => [Service!Next]_(Service!serviceVars)
    BY ServiceStep
  <1> QED
    BY <1>1, <1>2, Invariance, InitWhole, WholeStep, PTL
    DEF Spec, ImplementsService, Service!Spec
================================================================================
