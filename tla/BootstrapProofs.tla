-------------------------- MODULE BootstrapProofs --------------------------
(* Proofs about BootstrapThread, for any clients, channels, capture and      *)
(* bounds.                                                                   *)
EXTENDS BootstrapThread, TLAPS

-----------------------------------------------------------------------------
(* Constants, sending, and the shape of a step.                            *)

\* The constants as single facts.
LEMMA ConstantsNat ==
    /\ SeqSize \in Nat \ {0} /\ FieldSize \in Nat /\ MaxJump \in Nat /\ NumPackets \in Nat
    /\ StopAhead \in Nat /\ MaxSeq \in Nat /\ MaxConnections \in Nat
    /\ MaxJump < FieldSize - 1
  BY BootstrapAssumption

\* A packet sent at once is counted and on the wire.
LEMMA SendEffect ==
    ASSUME TypeOK, NEW k \in Clients, SendNow(k)
    PROVE  /\ outSeq' \in [Clients -> Nat] /\ wire' \in [Clients -> Nat]
           /\ outSeq'[k] = outSeq[k] + 1 /\ wire'[k] = outSeq[k]
           /\ \A j \in Clients \ {k} : outSeq'[j] = outSeq[j] /\ wire'[j] = wire[j]
<1>1. outSeq \in [Clients -> Nat] /\ wire \in [Clients -> Nat] /\ outSeq[k] \in Nat
  BY DEF TypeOK
<1>2. outSeq[k] + 1 \in Nat
  BY <1>1
<1> QED
  BY <1>1, <1>2 DEF SendNow

\* A keepalive is such a packet, or none.
LEMMA KeepaliveEffect ==
    ASSUME NEW k \in Clients, SendKeepalive(k)
    PROVE  SendNow(k) \/ UNCHANGED <<outSeq, wire>>
  BY DEF SendKeepalive

\* The number a bunch is given is a number.
LEMMA NumberForNat ==
    ASSUME TypeOK, NEW c \in Channels, NEW v \in Fields
    PROVE  NumberFor(c, v) \in Nat
<1>1. chNext[c] \in Nat \ {0}
  BY DEF TypeOK
<1> QED
  BY <1>1 DEF NumberFor

\* The thread's client is a client; NoPacket is a packet.
LEMMA TargetIsClient == TypeOK => target \in Clients
  BY DEF TypeOK

LEMMA NoPacketIsPacket ==
    NoPacket \in [conn : 0..MaxConnections, seq : Nat, bunch : Bunches]
  BY ConstantsNat DEF NoPacket, Bunches

\* The empty maps of a new bootstrap.
LEMMA EmptyTypes ==
    ASSUME EmptyPlan
    PROVE  /\ lastRaw' \in [Channels -> Fields \cup {None}]
           /\ chNext' \in [Channels -> Nat \ {0}]
           /\ sent' \in [Channels -> Nat]
           /\ sentRaw' \in [Channels -> Fields \cup {None}]
  BY DEF EmptyPlan

-----------------------------------------------------------------------------
(* Types.                                                                  *)

LEMMA TypeInit == Init => TypeOK
<1> SUFFICES ASSUME Init PROVE TypeOK
  OBVIOUS
<1>1. built \in [conn : 0..MaxConnections, seq : Nat, bunch : Bunches]
  BY NoPacketIsPacket DEF Init
<1>2. 0 \in 0..MaxConnections /\ 0 \in 0..NumPackets
  BY ConstantsNat
<1> QED
  BY <1>1, <1>2 DEF Init, TypeOK, Phases

\* The packet that is built is a packet.
LEMMA BuildTypes ==
    ASSUME TypeOK, Build, Connected
    PROVE  /\ built' \in [conn : 0..MaxConnections, seq : Nat, bunch : Bunches]
           /\ lastRaw' \in [Channels -> Fields \cup {None}]
           /\ chNext' \in [Channels -> Nat \ {0}]
           /\ base' \in 0..MaxConnections
<1>1. target \in Clients /\ conn[target] \in 0..MaxConnections /\ outSeq[target] \in Nat
  BY DEF TypeOK
<1>2. CASE /\ built' = [conn |-> conn[target], seq |-> outSeq[target], bunch |-> NoBunch]
           /\ UNCHANGED planVars
  <2>1. NoBunch \in Bunches
    BY DEF Bunches
  <2> QED
    BY <1>1, <1>2, <2>1 DEF planVars, TypeOK
<1>3. CASE \E c \in Channels, v \in Fields :
             /\ built' = [conn |-> conn[target], seq |-> outSeq[target],
                          bunch |-> [chan |-> c, raw |-> v, num |-> NumberFor(c, v)]]
             /\ Renumber(c, v)
  <2>1. PICK c \in Channels, v \in Fields :
          /\ built' = [conn |-> conn[target], seq |-> outSeq[target],
                       bunch |-> [chan |-> c, raw |-> v, num |-> NumberFor(c, v)]]
          /\ Renumber(c, v)
    BY <1>3
  <2>2. [chan |-> c, raw |-> v, num |-> NumberFor(c, v)] \in Bunches
    BY NumberForNat DEF Bunches
  <2>3. chNext[c] + 1 \in Nat \ {0}
    BY DEF TypeOK
  <2>4. /\ lastRaw' \in [Channels -> Fields \cup {None}]
        /\ chNext' \in [Channels -> Nat \ {0}]
    BY <2>1, <2>3 DEF Renumber, TypeOK
  <2>5. base' = base
    BY <2>1 DEF Renumber
  <2> QED
    BY <1>1, <2>1, <2>2, <2>4, <2>5 DEF TypeOK
<1> QED
  BY <1>2, <1>3 DEF Build

\* What has been sent.
LEMMA SendTypes ==
    ASSUME TypeOK, Send
    PROVE  /\ wire' \in [Clients -> Nat]
           /\ sent' \in [Channels -> Nat]
           /\ sentRaw' \in [Channels -> Fields \cup {None}]
<1>1. /\ built.seq \in Nat /\ built.bunch \in Bunches /\ wire \in [Clients -> Nat]
      /\ sent \in [Channels -> Nat] /\ sentRaw \in [Channels -> Fields \cup {None}]
  BY DEF TypeOK
<1>2. built.bunch.num # 0 =>
        built.bunch.chan \in Channels /\ built.bunch.raw \in Fields
        /\ built.bunch.num \in Nat
  BY <1>1 DEF Bunches, NoBunch
<1>3. wire' \in [Clients -> Nat]
  BY <1>1 DEF Send
<1> QED
  BY <1>1, <1>2, <1>3 DEF Send, ghostVars

LEMMA TypeStep ==
    ASSUME TypeOK, [Next]_vars
    PROVE  TypeOK'
<1> USE DEF TypeOK
<1>1. CASE \E k \in Clients : HandleInitial(k)
  BY <1>1 DEF HandleInitial, Phases, threadVars, planVars, ghostVars
<1>2. CASE \E k \in Clients : HandleResponse(k)
  <2>1. PICK k \in Clients : HandleResponse(k)
    BY <1>2
  <2>2. conn[k] + 1 \in 0..MaxConnections
    BY <2>1, ConstantsNat DEF HandleResponse
  <2> QED
    BY <2>1, <2>2 DEF HandleResponse, Phases, threadVars, planVars, ghostVars
<1>3. CASE \E k \in Clients : HandleData(k)
  <2>1. PICK k \in Clients : HandleData(k)
    BY <1>3
  <2>2. outAck' \in [Clients -> Nat]
    BY <2>1 DEF HandleData
  <2>3. outSeq' \in [Clients -> Nat] /\ wire' \in [Clients -> Nat]
    BY <2>1, SendEffect, KeepaliveEffect
       DEF HandleData, HandleHello, HandleLogin, HandleNetspeed, HandleReady, HandleOther
  <2>4. phase' \in [Clients -> Phases]
    BY <2>1 DEF HandleData, HandleHello, HandleLogin, HandleNetspeed, HandleReady,
                HandleOther, Phases
  <2>5. nmtState' \in [Clients -> 0..4]
    BY <2>1 DEF HandleData, HandleHello, HandleLogin, HandleNetspeed, HandleReady,
                HandleOther
  <2>6. active' \in [Clients -> BOOLEAN]
    BY <2>1 DEF HandleData, HandleHello, HandleLogin, HandleNetspeed, HandleReady,
                HandleOther
  <2>7. joining' \subseteq Clients
    BY <2>1 DEF HandleData, HandleHello, HandleLogin, HandleNetspeed, HandleReady,
                HandleOther
  <2> QED
    BY <2>1, <2>2, <2>3, <2>4, <2>5, <2>6, <2>7 DEF HandleData, threadVars, planVars, ghostVars
<1>4. CASE Launch
  <2>1. NumPackets \in 0..NumPackets
    BY ConstantsNat
  <2> QED
    BY <1>4, <2>1 DEF Launch, clientVars, planVars, ghostVars
<1>5. CASE \E k \in Clients : TimeOut(k)
  BY <1>5 DEF TimeOut, Phases, threadVars, planVars, ghostVars
<1>6. CASE \E k \in Clients : PeriodicKeepalive(k)
  <2>1. outSeq' \in [Clients -> Nat] /\ wire' \in [Clients -> Nat]
    BY <1>6, SendEffect, KeepaliveEffect DEF PeriodicKeepalive
  <2> QED
    BY <1>6, <2>1 DEF PeriodicKeepalive, threadVars, planVars, ghostVars
<1>7. CASE Start
  BY <1>7 DEF Start, Sending, clientVars, ghostVars
<1>8. CASE LeaveLoop
  BY <1>8, EmptyTypes, ConstantsNat DEF LeaveLoop, clientVars
<1>9. CASE Pace
  BY <1>8, <1>9 DEF Pace, MoveTo, Goto, Sending, clientVars, planVars, ghostVars
<1>10. CASE Build
  <2>1. CASE Connected
    <3>1. left' \in 0..NumPackets
      BY <1>10, <2>1, ConstantsNat DEF Build
    <3>2. outSeq' \in [Clients -> Nat]
      BY <1>10, <2>1 DEF Build
    <3> QED
      BY <1>10, <2>1, <3>1, <3>2, BuildTypes DEF Build, Sending, ghostVars
  <2> QED
    BY <1>8, <1>10, <2>1 DEF Build
<1>11. CASE Send
  BY <1>11, SendTypes, NoPacketIsPacket DEF Send, Sending, planVars
<1>12. CASE SpawnController
  <2>1. outSeq' \in [Clients -> Nat] /\ wire' \in [Clients -> Nat]
    BY <1>12, SendEffect DEF SpawnController
  <2> QED
    BY <1>12, <2>1 DEF SpawnController, Goto, planVars, ghostVars
<1>13. CASE KeepAlive
  <2>1. outSeq' \in [Clients -> Nat] /\ wire' \in [Clients -> Nat]
    BY <1>13, SendEffect, KeepaliveEffect DEF KeepAlive, MoveTo, clientVars
  <2> QED
    BY <1>13, <2>1 DEF KeepAlive, MoveTo, Goto, clientVars, planVars, ghostVars
<1>14. CASE Clear
  BY <1>14 DEF Clear, Goto, clientVars, planVars, ghostVars
<1>15. CASE UNCHANGED vars
  BY <1>15 DEF vars, clientVars, threadVars, planVars, ghostVars
<1>16. CASE \E k \in Clients : HandleInitRequest(k)
  <2>1. PICK k \in Clients : HandleInitRequest(k)
    BY <1>16
  <2>2. outSeq' \in [Clients -> Nat] /\ wire' \in [Clients -> Nat]
    BY <2>1, SendEffect DEF HandleInitRequest
  <2>3. answers' \in Nat
    BY <2>1 DEF HandleInitRequest
  <2> QED
    BY <2>1, <2>2, <2>3 DEF HandleInitRequest, planVars, ghostVars
<1> QED
  BY <1>1, <1>2, <1>3, <1>4, <1>5, <1>6, <1>7, <1>9, <1>10, <1>11, <1>12, <1>13,
     <1>14, <1>15, <1>16 DEF Next, Receive, Bootstrap

\* The variables keep their types.
THEOREM BootstrapTypes == Spec => []TypeOK
<1> QED
  BY TypeInit, TypeStep, PTL DEF Spec

-----------------------------------------------------------------------------
(* Who is served.                                                          *)

\* A thread at work serves a client whose flag is set, a handler that waits in
\* join() has set it, and a connected client whose flag is set has finished the
\* exchange: its control messages are ignored.
Control ==
    /\ boot \notin {"none", "exited"} => active[target]
    /\ \A k \in joining : active[k]
    /\ \A k \in Clients : active[k] /\ phase[k] = "CONNECTED" => nmtState[k] = 4

LEMMA ControlStep ==
    ASSUME TypeOK, Control, [Next]_vars
    PROVE  Control'
<1> USE DEF Control
<1>0. target \in Clients
  BY TargetIsClient
<1>1. CASE \E k \in Clients : HandleInitial(k)
  BY <1>1 DEF HandleInitial, threadVars, TypeOK
<1>2. CASE \E k \in Clients : HandleResponse(k)
  BY <1>2 DEF HandleResponse, threadVars, TypeOK
<1>3. CASE \E k \in Clients : HandleData(k)
  <2>1. PICK k \in Clients : HandleData(k)
    BY <1>3
  <2>2. CASE HandleHello(k)
    BY <2>1, <2>2 DEF HandleData, HandleHello, threadVars, TypeOK
  <2>3. CASE HandleLogin(k)
    BY <2>1, <2>3 DEF HandleData, HandleLogin, threadVars, TypeOK
  <2>4. CASE HandleNetspeed(k)
    BY <2>1, <2>4 DEF HandleData, HandleNetspeed, Ignores, threadVars, TypeOK
  <2>5. CASE HandleReady(k)
    BY <1>0, <2>1, <2>5 DEF HandleData, HandleReady, threadVars, TypeOK
  <2>6. CASE HandleOther(k)
    BY <2>1, <2>6 DEF HandleData, HandleOther, threadVars, TypeOK
  <2> QED
    BY <2>1, <2>2, <2>3, <2>4, <2>5, <2>6 DEF HandleData
<1>4. CASE Launch
  BY <1>4 DEF Launch, clientVars
<1>5. CASE \E k \in Clients : TimeOut(k)
  BY <1>5 DEF TimeOut, threadVars, TypeOK
<1>6. CASE \E k \in Clients : PeriodicKeepalive(k)
  BY <1>6 DEF PeriodicKeepalive, threadVars, TypeOK
<1>7. CASE Start \/ Pace
  BY <1>7 DEF Start, Pace, LeaveLoop, MoveTo, Goto, clientVars
<1>8. CASE Build \/ Send
  BY <1>8 DEF Build, Send, LeaveLoop, clientVars
<1>9. CASE SpawnController \/ KeepAlive
  BY <1>9 DEF SpawnController, KeepAlive, MoveTo, Goto, clientVars
<1>10. CASE Clear
  BY <1>0, <1>10 DEF Clear, Goto, Locked, clientVars, TypeOK
<1>11. CASE UNCHANGED vars
  BY <1>11 DEF vars, clientVars, threadVars
<1>12. CASE \E k \in Clients : HandleInitRequest(k)
  BY <1>12 DEF HandleInitRequest
<1> QED
  BY <1>1, <1>2, <1>3, <1>4, <1>5, <1>6, <1>7, <1>8, <1>9, <1>10, <1>11,
     <1>12
     DEF Next, Receive, Bootstrap

LEMMA ControlInit == Init => Control
  BY DEF Init, Control

-----------------------------------------------------------------------------
(* The join under the lock.                                                *)

\* One client at a time, as the comment at the launch says.
OneClient == \A j, k \in Clients : j = k

LEMMA JoinsStep ==
    ASSUME OneClient, TypeOK, Control, JoinsFinished, [Next]_vars
    PROVE  JoinsFinished'
<1> USE DEF JoinsFinished, Locked
<1>0. target \in Clients
  BY TargetIsClient
<1>1. CASE \E k \in Clients : HandleInitial(k) \/ HandleResponse(k) \/ TimeOut(k)
                              \/ PeriodicKeepalive(k) \/ HandleInitRequest(k)
  BY <1>1 DEF HandleInitial, HandleResponse, TimeOut, PeriodicKeepalive, HandleInitRequest
<1>2. CASE \E k \in Clients : HandleData(k)
  <2>1. PICK k \in Clients : HandleData(k)
    BY <1>2
  <2>2. boot' = boot /\ target = k
    BY <1>0, <2>1 DEF HandleData, threadVars, OneClient
  <2>3. CASE HandleReady(k)
    BY <2>2, <2>3 DEF HandleReady, Control
  <2>4. CASE joining' = joining
    BY <2>1, <2>2, <2>4 DEF HandleData
  <2> QED
    BY <2>1, <2>3, <2>4
       DEF HandleData, HandleHello, HandleLogin, HandleNetspeed, HandleOther
<1>3. CASE Launch
  BY <1>3 DEF Launch
<1>4. CASE Bootstrap
  BY <1>4 DEF Bootstrap, Start, Pace, Build, Send, SpawnController, KeepAlive, Clear,
              LeaveLoop, MoveTo, Goto, clientVars
<1>5. CASE UNCHANGED vars
  BY <1>5 DEF vars, threadVars
<1> QED
  BY <1>1, <1>2, <1>3, <1>4, <1>5 DEF Next, Receive

\* With one client a handler joins only a thread that has finished: the join
\* under client_mu_ returns.
THEOREM BootstrapJoins == ASSUME OneClient PROVE Spec => []JoinsFinished
<1> DEFINE IInv == TypeOK /\ Control /\ JoinsFinished
<1>1. Init => IInv
  BY TypeInit, ControlInit DEF Init, JoinsFinished
<1>2. IInv /\ [Next]_vars => IInv'
  BY OneClient, TypeStep, ControlStep, JoinsStep
<1>3. IInv => JoinsFinished
  OBVIOUS
<1> HIDE DEF IInv
<1> QED
  BY <1>1, <1>2, <1>3, PTL DEF Spec

-----------------------------------------------------------------------------
(* Numbers and packets on the wire.                                        *)

\* While a packet waits, the client is not in the middle of the exchange, so that
\* it is sent nothing else but answers.
Quiescent ==
    boot = "send" =>
        /\ built.conn <= conn[target]
        /\ built.conn = conn[target] =>
             nmtState[target] = 4 /\ phase[target] # "HANDSHAKE_COMPLETE"

\* The packet is pending, and nothing has overtaken it.
Waits(k) == Pending(k) /\ wire[k] < built.seq

\* Every number below outSeq is on the wire, but for that of the pending packet,
\* which is the highest unless an answer has overtaken it.
Numbering ==
    \A k \in Clients :
        /\ wire[k] = outSeq[k] - (IF Waits(k) THEN 2 ELSE 1)
        /\ Pending(k) => built.seq <= wire[k] + 1

LEMMA QuiescentStep ==
    ASSUME TypeOK, Control, Quiescent, [Next]_vars
    PROVE  Quiescent'
<1> USE DEF Quiescent
<1>0. target \in Clients
  BY TargetIsClient
<1>1. CASE \E k \in Clients : HandleInitial(k)
  BY <1>0, <1>1 DEF HandleInitial, threadVars, TypeOK
<1>2. CASE \E k \in Clients : HandleResponse(k)
  <2>1. PICK k \in Clients : HandleResponse(k)
    BY <1>2
  <2>2. conn[target] \in Nat /\ (boot = "send" => built.conn \in Nat)
    BY <1>0, ConstantsNat DEF TypeOK
  <2>3. conn'[target] = IF k = target THEN conn[target] + 1 ELSE conn[target]
    BY <1>0, <2>1 DEF HandleResponse, TypeOK
  <2>4. k # target => nmtState'[target] = nmtState[target] /\ phase'[target] = phase[target]
    BY <1>0, <2>1 DEF HandleResponse, TypeOK
  <2> QED
    BY <2>1, <2>2, <2>3, <2>4 DEF HandleResponse, threadVars
<1>3. CASE \E k \in Clients : HandleData(k)
  <2>1. PICK k \in Clients : HandleData(k)
    BY <1>3
  <2>2. boot = "send" => active[target]
    BY DEF Control
  <2>3. CASE HandleHello(k)
    BY <1>0, <2>1, <2>3 DEF HandleData, HandleHello, threadVars, TypeOK
  <2>4. CASE HandleLogin(k)
    BY <1>0, <2>1, <2>4 DEF HandleData, HandleLogin, threadVars, TypeOK
  <2>5. CASE HandleNetspeed(k)
    BY <1>0, <2>1, <2>2, <2>5 DEF HandleData, HandleNetspeed, Ignores, threadVars, TypeOK
  <2>6. CASE HandleReady(k)
    BY <1>0, <2>1, <2>6 DEF HandleData, HandleReady, threadVars, TypeOK
  <2>7. CASE HandleOther(k)
    BY <2>1, <2>7 DEF HandleData, HandleOther, threadVars
  <2> QED
    BY <2>1, <2>3, <2>4, <2>5, <2>6, <2>7 DEF HandleData
<1>4. CASE Launch
  BY <1>4 DEF Launch
<1>5. CASE \E k \in Clients : TimeOut(k)
  BY <1>0, <1>5 DEF TimeOut, threadVars, TypeOK
<1>6. CASE \E k \in Clients : PeriodicKeepalive(k)
  BY <1>6 DEF PeriodicKeepalive, threadVars
<1>7. CASE Start \/ Pace \/ Send
  BY <1>7 DEF Start, Pace, Send, LeaveLoop, MoveTo, Goto
<1>8. CASE Build
  <2>1. CASE Connected
    <3>1. active[target] /\ phase[target] = "CONNECTED"
      BY <1>8, <2>1 DEF Build, Control, Connected
    <3>2. nmtState[target] = 4
      BY <1>0, <3>1 DEF Control
    <3>3. conn[target] \in Nat /\ built'.conn = conn[target]
      BY <1>0, <1>8, <2>1, ConstantsNat DEF Build, TypeOK
    <3>4. UNCHANGED <<conn, nmtState, phase, target>>
      BY <1>8, <2>1 DEF Build
    <3> QED
      BY <3>1, <3>2, <3>3, <3>4
  <2>2. CASE ~Connected
    BY <1>8, <2>2 DEF Build, LeaveLoop
  <2> QED
    BY <2>1, <2>2
<1>9. CASE SpawnController \/ KeepAlive \/ Clear
  BY <1>9 DEF SpawnController, KeepAlive, Clear, MoveTo, Goto
<1>10. CASE UNCHANGED vars
  BY <1>10 DEF vars, clientVars, threadVars
<1>11. CASE \E k \in Clients : HandleInitRequest(k)
  BY <1>11 DEF HandleInitRequest
<1> QED
  BY <1>1, <1>2, <1>3, <1>4, <1>5, <1>6, <1>7, <1>8, <1>9, <1>10,
     <1>11
     DEF Next, Receive, Bootstrap

\* Whoever sends at once sends to a client with nothing pending.
LEMMA ControlMessageNotPending ==
    ASSUME TypeOK, Control, Quiescent, NEW k \in Clients, HandleData(k),
           HandleHello(k) \/ HandleLogin(k) \/ HandleNetspeed(k) \/ HandleReady(k)
    PROVE  ~Pending(k)
<1> SUFFICES ASSUME Pending(k) PROVE FALSE
  OBVIOUS
<1>1. active[k] /\ nmtState[k] = 4
  BY DEF Pending, Control, Quiescent
<1> QED
  BY <1>1 DEF HandleHello, HandleLogin, HandleNetspeed, HandleReady, Ignores

LEMMA KeepaliveNotPending ==
    ASSUME TypeOK, Control, Quiescent, NEW k \in Clients, PeriodicKeepalive(k)
    PROVE  ~Pending(k)
<1> SUFFICES ASSUME Pending(k) PROVE FALSE
  OBVIOUS
<1>1. active[k] /\ phase[k] # "HANDSHAKE_COMPLETE"
  BY DEF Pending, Control, Quiescent
<1> QED
  BY <1>1 DEF PeriodicKeepalive

\* What a step may put on the wire of j.
InTurn(j) ==
    wire'[j] # wire[j] =>
      \/ wire'[j] = wire[j] + 1
      \/ Pending(j) /\ answers' > answers /\ wire'[j] = wire[j] + 2

\* A step that numbers and sends at once, and leaves the connections and the
\* packet under way alone.
LEMMA SentAtOnce ==
    ASSUME TypeOK, Numbering, NEW k \in Clients, SendNow(k),
           conn' = conn, \A j \in Clients : Pending(j)' = Pending(j),
           boot = "send" => built' = built,
           Pending(k) => answers' > answers
    PROVE  Numbering' /\ \A j \in Clients : InTurn(j)
<1>1. /\ outSeq'[k] = outSeq[k] + 1 /\ wire'[k] = outSeq[k]
      /\ \A j \in Clients \ {k} : outSeq'[j] = outSeq[j] /\ wire'[j] = wire[j]
  BY SendEffect
<1>2. /\ outSeq[k] \in Nat /\ wire[k] = outSeq[k] - (IF Waits(k) THEN 2 ELSE 1)
      /\ Pending(k) => built.seq <= wire[k] + 1
      /\ built.seq \in Nat
  BY DEF Numbering, TypeOK
<1>3. \A j \in Clients : Pending(j) => built' = built
  BY DEF Pending
<1>4. ~Waits(k)'
  BY <1>1, <1>2, <1>3 DEF Waits
<1>5. ASSUME NEW j \in Clients \ {k}
      PROVE  Waits(j)' = Waits(j)
  BY <1>1, <1>3, <1>5 DEF Waits
<1>6. Numbering'
  <2>1. /\ wire'[k] = outSeq'[k] - 1
        /\ Pending(k)' => built'.seq <= wire'[k] + 1
    BY <1>1, <1>2, <1>3
  <2>2. ASSUME NEW j \in Clients \ {k}
        PROVE  /\ wire'[j] = outSeq'[j] - (IF Waits(j)' THEN 2 ELSE 1)
               /\ Pending(j)' => built'.seq <= wire'[j] + 1
    BY <1>1, <1>3, <1>5, <2>2 DEF Numbering
  <2> QED
    BY <1>4, <2>1, <2>2 DEF Numbering
<1>7. InTurn(k)
  BY <1>1, <1>2 DEF InTurn, Waits
<1> QED
  BY <1>1, <1>6, <1>7 DEF InTurn

LEMMA NothingSent ==
    ASSUME Numbering, UNCHANGED <<outSeq, wire, conn>>,
           \A j \in Clients : Pending(j)' = Pending(j),
           boot = "send" => built' = built
    PROVE  Numbering' /\ \A j \in Clients : InTurn(j)
<1>1. \A j \in Clients : Pending(j) => built' = built
  BY DEF Pending
<1>2. \A j \in Clients : Waits(j)' = Waits(j)
  BY <1>1 DEF Waits
<1> QED
  BY <1>1, <1>2 DEF Numbering, InTurn

\* Numbering is preserved, and what a step puts on the wire is the next number, or
\* an answer that overtakes the pending packet.
LEMMA NumberingStep ==
    ASSUME TypeOK, Control, Quiescent, Numbering, [Next]_vars
    PROVE  Numbering' /\ \A k \in Clients : conn'[k] = conn[k] => InTurn(k)
<1>0. target \in Clients
  BY TargetIsClient
<1>1. CASE \E k \in Clients : HandleInitial(k) \/ TimeOut(k)
  BY <1>1, NothingSent DEF HandleInitial, TimeOut, threadVars, Pending
<1>2. CASE \E k \in Clients : HandleResponse(k)
  <2>1. PICK k \in Clients : HandleResponse(k)
    BY <1>2
  <2>2. /\ conn'[k] = conn[k] + 1 /\ outSeq'[k] = 1 /\ wire'[k] = 0
        /\ \A j \in Clients \ {k} :
             conn'[j] = conn[j] /\ outSeq'[j] = outSeq[j] /\ wire'[j] = wire[j]
    BY <2>1 DEF HandleResponse, TypeOK
  <2>3. UNCHANGED <<boot, target, built>>
    BY <2>1 DEF HandleResponse, threadVars
  <2>4. conn[k] \in Nat
    BY ConstantsNat DEF TypeOK
  <2>5. built.conn \in Nat
    BY ConstantsNat DEF TypeOK
  <2>6. ~Pending(k)'
    BY <2>2, <2>3, <2>4, <2>5 DEF Pending, Quiescent
  <2>7. \A j \in Clients \ {k} : Pending(j)' = Pending(j)
    BY <2>2, <2>3 DEF Pending
  <2>8. Numbering'
    <3>1. ~Waits(k)' /\ \A j \in Clients \ {k} : Waits(j)' = Waits(j)
      BY <2>2, <2>3, <2>6, <2>7 DEF Waits
    <3> QED
      BY <2>2, <2>3, <2>6, <2>7, <3>1 DEF Numbering
  <2> QED
    BY <2>2, <2>4, <2>8 DEF InTurn
<1>3. CASE \E k \in Clients : HandleData(k)
  <2>1. PICK k \in Clients : HandleData(k)
    BY <1>3
  <2>2. /\ UNCHANGED <<conn, boot, target, built>>
        /\ \A j \in Clients : Pending(j)' = Pending(j)
    BY <2>1 DEF HandleData, threadVars, Pending
  <2>3. CASE HandleOther(k)
    BY <2>2, <2>3, NothingSent DEF HandleOther
  <2>4. CASE HandleHello(k) \/ HandleLogin(k) \/ HandleNetspeed(k) \/ HandleReady(k)
    <3>1. ~Pending(k)
      BY <2>1, <2>4, ControlMessageNotPending
    <3>2. SendNow(k) \/ UNCHANGED <<outSeq, wire>>
      BY <2>4, KeepaliveEffect
         DEF HandleHello, HandleLogin, HandleNetspeed, HandleReady
    <3> QED
      BY <2>2, <3>1, <3>2, NothingSent, SentAtOnce
  <2> QED
    BY <2>1, <2>3, <2>4 DEF HandleData
<1>4. CASE Launch
  BY <1>4, NothingSent DEF Launch, clientVars, Pending
<1>5. CASE \E k \in Clients : PeriodicKeepalive(k)
  <2>1. PICK k \in Clients : PeriodicKeepalive(k)
    BY <1>5
  <2>2. /\ UNCHANGED <<conn, boot, target, built>>
        /\ \A j \in Clients : Pending(j)' = Pending(j)
    BY <2>1 DEF PeriodicKeepalive, threadVars, Pending
  <2>3. ~Pending(k)
    BY <2>1, KeepaliveNotPending
  <2> QED
    BY <2>1, <2>2, <2>3, KeepaliveEffect, NothingSent, SentAtOnce DEF PeriodicKeepalive
<1>6. CASE Start \/ (boot # "send" /\ LeaveLoop) \/ Pace
  BY <1>6, NothingSent DEF Start, Pace, LeaveLoop, MoveTo, Goto, clientVars, Pending
<1>7. CASE Build
  <2>1. CASE Connected
    <3>1. /\ boot = "build" /\ boot' = "send" /\ UNCHANGED <<conn, target, wire>>
          /\ built'.conn = conn[target] /\ built'.seq = outSeq[target]
      BY <1>7, <2>1 DEF Build
    <3>2. outSeq'[target] = outSeq[target] + 1
      BY <1>0, <1>7, <2>1 DEF Build, TypeOK
    <3>3. \A j \in Clients \ {target} : outSeq'[j] = outSeq[j]
      BY <1>7, <2>1 DEF Build, TypeOK
    <3>4. outSeq[target] \in Nat
      BY <1>0 DEF TypeOK
    <3>5. \A j \in Clients : ~Pending(j) /\ ~Waits(j) /\ wire[j] = outSeq[j] - 1
      BY <3>1 DEF Pending, Waits, Numbering
    <3>6. Waits(target)' /\ \A j \in Clients \ {target} : ~Pending(j)' /\ ~Waits(j)'
      BY <1>0, <3>1, <3>4, <3>5 DEF Pending, Waits
    <3>7. Numbering'
      BY <1>0, <3>1, <3>2, <3>3, <3>4, <3>5, <3>6 DEF Numbering
    <3> QED
      BY <3>1, <3>7 DEF InTurn
  <2>2. CASE ~Connected
    BY <1>6, <1>7, <2>2 DEF Build
  <2> QED
    BY <2>1, <2>2
<1>8. CASE Send
  <2>1. /\ boot = "send" /\ boot' = "loop" /\ UNCHANGED <<conn, outSeq, target>>
    BY <1>8 DEF Send
  <2>2. \A j \in Clients \ {target} : wire'[j] = wire[j] /\ ~Waits(j)
    BY <1>8 DEF Send, TypeOK, Pending, Waits
  <2>3. wire'[target] = IF Waits(target) THEN built.seq ELSE wire[target]
    BY <1>0, <1>8 DEF Send, TypeOK, Pending, Waits
  <2>4. \A j \in Clients : ~Pending(j)' /\ ~Waits(j)'
    BY <2>1 DEF Pending, Waits
  <2>5. outSeq[target] \in Nat /\ built.seq \in Nat /\ wire[target] \in Nat
    BY <1>0 DEF TypeOK
  <2>6. Waits(target) => built.seq = wire[target] + 1
    BY <1>0, <2>5 DEF Numbering, Waits
  <2>7. Numbering'
    BY <1>0, <2>1, <2>2, <2>3, <2>4, <2>5, <2>6 DEF Numbering
  <2> QED
    BY <2>2, <2>3, <2>6, <2>7 DEF InTurn
<1>9. CASE SpawnController \/ KeepAlive
  <2>1. /\ boot # "send" /\ boot' # "send" /\ UNCHANGED <<conn, target>>
    BY <1>9 DEF SpawnController, KeepAlive, MoveTo, Goto, clientVars
  <2>2. \A j \in Clients : Pending(j)' = Pending(j) /\ ~Pending(j)
    BY <2>1 DEF Pending
  <2>3. SendNow(target) \/ UNCHANGED <<outSeq, wire>>
    BY <1>0, <1>9, KeepaliveEffect DEF SpawnController, KeepAlive, MoveTo, clientVars
  <2> QED
    BY <1>0, <2>1, <2>2, <2>3, NothingSent, SentAtOnce
<1>10. CASE Clear
  BY <1>10, NothingSent DEF Clear, Goto, clientVars, Pending
<1>11. CASE UNCHANGED vars
  BY <1>11, NothingSent DEF vars, clientVars, threadVars, Pending
<1>13. CASE \E k \in Clients : HandleInitRequest(k)
  <2>1. PICK k \in Clients : HandleInitRequest(k)
    BY <1>13
  <2>2. /\ SendNow(k) /\ conn' = conn /\ built' = built
        /\ \A j \in Clients : Pending(j)' = Pending(j)
    BY <2>1 DEF HandleInitRequest, Pending
  <2>3. Pending(k) => answers' > answers
    BY <2>1 DEF HandleInitRequest, TypeOK
  <2> QED
    BY <2>2, <2>3, SentAtOnce
<1>12. \/ \E k \in Clients : \/ HandleInitial(k) \/ TimeOut(k) \/ HandleResponse(k)
                            \/ HandleData(k) \/ PeriodicKeepalive(k)
                            \/ HandleInitRequest(k)
       \/ Launch \/ Start \/ Pace \/ Build \/ Send \/ SpawnController \/ KeepAlive
       \/ Clear \/ UNCHANGED vars
  BY DEF Next, Receive, Bootstrap
<1> QED
  BY <1>1, <1>2, <1>3, <1>4, <1>5, <1>6, <1>7, <1>8, <1>9, <1>10, <1>11, <1>12,
     <1>13

\* The packets of a connection leave in the order of their numbers, with any
\* number of clients, but for an answer that overtakes the pending packet.
THEOREM BootstrapInOrder == Spec => InOrder
<1> DEFINE IInv == TypeOK /\ Control /\ Quiescent /\ Numbering
<1>1. Init => IInv
  <2>1. Init => Quiescent
    BY DEF Init, Quiescent
  <2>2. ASSUME Init PROVE Numbering
    <3>1. ASSUME NEW k \in Clients
          PROVE  ~Pending(k) /\ wire[k] = 0 /\ outSeq[k] = 1
      BY <2>2 DEF Init, Pending
    <3>2. ASSUME NEW k \in Clients
          PROVE  /\ wire[k] = outSeq[k] - (IF Waits(k) THEN 2 ELSE 1)
                 /\ Pending(k) => built.seq <= wire[k] + 1
      BY <3>1 DEF Waits
    <3> QED
      BY <3>2 DEF Numbering
  <2> QED
    BY <2>1, <2>2, TypeInit, ControlInit
<1>2. IInv /\ [Next]_vars => IInv'
  BY TypeStep, ControlStep, QuiescentStep, NumberingStep
<1>3. IInv /\ [Next]_vars =>
        [\A k \in Clients :
           conn'[k] = conn[k] /\ wire'[k] # wire[k] =>
             \/ wire'[k] = wire[k] + 1
             \/ Pending(k) /\ answers' > answers /\ wire'[k] = wire[k] + 2]_vars
  BY NumberingStep DEF InTurn
<1> HIDE DEF IInv
<1> QED
  BY <1>1, <1>2, <1>3, PTL DEF Spec, InOrder

-----------------------------------------------------------------------------
(* Renumbering.                                                            *)

\* The connection the bootstrap is numbered for is not after the present one.
Base ==
    /\ boot \in {"loop", "build"} => base <= conn[target]
    /\ boot = "send" => base <= built.conn /\ built.conn <= conn[target]

\* What has been sent of channel c once the packet has gone out.
Patches(c) == built.bunch.num # 0 /\ built.bunch.chan = c
SentThen(c) == IF Patches(c) THEN built.bunch.num ELSE sent[c]
RawThen(c) == IF Patches(c) THEN built.bunch.raw ELSE sentRaw[c]

\* As long as every packet has gone out in the connection it was numbered for,
\* the plan knows the last patched bunch of every channel that was sent.  Outside
\* the loop the maps are empty.
Settled ==
    /\ boot \notin Sending =>
         \A c \in Channels : /\ chNext[c] = 1 /\ lastRaw[c] = None
                             /\ sent[c] = 0 /\ sentRaw[c] = None
    /\ boot \in {"loop", "build"} /\ base = conn[target] =>
         \A c \in Channels : chNext[c] = sent[c] + 1 /\ lastRaw[c] = sentRaw[c]
    /\ boot = "send" /\ base = built.conn =>
         \A c \in Channels : chNext[c] = SentThen(c) + 1 /\ lastRaw[c] = RawThen(c)

PlanInv == TypeOK /\ Base /\ Settled /\ Renumbered

\* A bunch that is accepted does not repeat the field of the last one.
LEMMA ForwardIsNew ==
    ASSUME TypeOK, NEW c \in Channels, NEW v \in Fields, Forward(c, v)
    PROVE  v # lastRaw[c]
<1>1. FieldSize \in Nat /\ MaxJump \in Nat /\ MaxJump < FieldSize - 1
  BY ConstantsNat
<1>2. v \in Int /\ v # None
  BY <1>1 DEF Fields, None
<1>3. SUFFICES ASSUME v = lastRaw[c] PROVE FALSE
  OBVIOUS
<1>4. Gap(c, v) <= MaxJump
  BY <1>2, <1>3 DEF Forward
<1>5. Gap(c, v) = (-1) % FieldSize
  <2>1. v - (v + 1) = -1
    BY <1>2
  <2> QED
    BY <1>3, <2>1 DEF Gap
<1>6. (-1) % FieldSize = FieldSize - 1
  BY <1>1
<1> QED
  BY <1>1, <1>4, <1>5, <1>6

\* What building a packet does to the plan.
LEMMA BuildPlan ==
    ASSUME PlanInv, Build, Connected
    PROVE  /\ boot = "build" /\ boot' = "send"
           /\ UNCHANGED <<conn, target, base, ghostVars>>
           /\ built'.conn = conn[target]
           /\ \/ built'.bunch = NoBunch /\ UNCHANGED <<lastRaw, chNext>>
              \/ \E c \in Channels, v \in Fields :
                   /\ built'.bunch = [chan |-> c, raw |-> v, num |-> NumberFor(c, v)]
                   /\ Renumber(c, v)
<1>1. CASE /\ built' = [conn |-> conn[target], seq |-> outSeq[target], bunch |-> NoBunch]
           /\ UNCHANGED planVars
  BY <1>1 DEF Build, planVars
<1>2. CASE \E c \in Channels, v \in Fields :
             /\ built' = [conn |-> conn[target], seq |-> outSeq[target],
                          bunch |-> [chan |-> c, raw |-> v, num |-> NumberFor(c, v)]]
             /\ Renumber(c, v)
  <2>1. PICK c \in Channels, v \in Fields :
          /\ built' = [conn |-> conn[target], seq |-> outSeq[target],
                       bunch |-> [chan |-> c, raw |-> v, num |-> NumberFor(c, v)]]
          /\ Renumber(c, v)
    BY <1>2
  <2>2. built'.bunch = [chan |-> c, raw |-> v, num |-> NumberFor(c, v)]
        /\ built'.conn = conn[target] /\ base' = base
    BY <2>1 DEF Renumber
  <2>3. /\ boot = "build" /\ boot' = "send" /\ UNCHANGED <<conn, target, ghostVars>>
    BY DEF Build
  <2> QED
    BY <2>1, <2>2, <2>3
<1> QED
  BY <1>1, <1>2 DEF Build

\* A packet without a bunch to patch leaves plan and client as they agree.
LEMMA BuildEmpty ==
    ASSUME PlanInv, Build, Connected, base = conn[target],
           built'.bunch = NoBunch, UNCHANGED <<lastRaw, chNext>>
    PROVE  /\ \A c \in Channels : chNext'[c] = SentThen(c)' + 1 /\ lastRaw'[c] = RawThen(c)'
           /\ Renumbered'
<1>1. UNCHANGED <<sent, sentRaw>> /\ boot = "build"
  BY BuildPlan DEF ghostVars
<1>2. built'.bunch.num = 0
  BY DEF NoBunch
<1>3. \A c \in Channels : ~Patches(c)'
  BY <1>2 DEF Patches
<1> QED
  BY <1>1, <1>2, <1>3 DEF PlanInv, Settled, SentThen, RawThen, Renumbered

\* A bunch gets the next number, the last one, or none.
LEMMA BuildBunch ==
    ASSUME PlanInv, Build, Connected, base = conn[target],
           NEW d \in Channels, NEW v \in Fields,
           built'.bunch = [chan |-> d, raw |-> v, num |-> NumberFor(d, v)],
           Renumber(d, v)
    PROVE  /\ \A c \in Channels : chNext'[c] = SentThen(c)' + 1 /\ lastRaw'[c] = RawThen(c)'
           /\ Renumbered'
<1>1. UNCHANGED <<sent, sentRaw>> /\ boot = "build"
  BY BuildPlan DEF ghostVars
<1>2. \A c \in Channels : /\ chNext[c] = sent[c] + 1 /\ lastRaw[c] = sentRaw[c]
                          /\ sent[c] \in Nat
  BY <1>1 DEF PlanInv, Settled, TypeOK
<1>3. /\ built'.bunch.chan = d /\ built'.bunch.raw = v
      /\ built'.bunch.num = NumberFor(d, v)
  OBVIOUS
<1>4. \A c \in Channels \ {d} : /\ chNext'[c] = chNext[c] /\ lastRaw'[c] = lastRaw[c]
                                /\ ~Patches(c)'
  BY <1>3 DEF Renumber, Patches, PlanInv, TypeOK
<1>5. CASE Forward(d, v)
  <2>1. /\ chNext'[d] = chNext[d] + 1 /\ lastRaw'[d] = v
    BY <1>5 DEF Renumber, PlanInv, TypeOK
  <2>2. built'.bunch.num = sent[d] + 1 /\ built'.bunch.num # 0
    BY <1>2, <1>3, <1>5 DEF NumberFor
  <2>3. Patches(d)'
    BY <1>1, <1>3, <2>2 DEF Patches
  <2>4. v # sentRaw[d]
    BY <1>2, <1>5, ForwardIsNew DEF PlanInv
  <2>5. Renumbered'
    BY <1>1, <1>3, <2>2, <2>4 DEF Renumbered
  <2> QED
    BY <1>1, <1>2, <1>3, <1>4, <2>1, <2>2, <2>3, <2>5 DEF SentThen, RawThen
<1>6. CASE ~Forward(d, v)
  <2>1. /\ chNext'[d] = chNext[d] /\ lastRaw'[d] = lastRaw[d]
    BY <1>6 DEF Renumber, PlanInv, TypeOK
  <2>2. built'.bunch.num # 0 => built'.bunch.num = sent[d] /\ v = sentRaw[d]
    BY <1>2, <1>3, <1>6 DEF NumberFor, Retransmit
  <2>3. SentThen(d)' = sent[d] /\ RawThen(d)' = sentRaw[d]
    BY <1>1, <1>3, <2>2 DEF SentThen, RawThen, Patches
  <2>4. Renumbered'
    BY <1>1, <1>3, <2>2 DEF Renumbered
  <2> QED
    BY <1>1, <1>2, <1>4, <2>1, <2>3, <2>4 DEF SentThen, RawThen
<1> QED
  BY <1>5, <1>6

\* What is sent is what SentThen and RawThen say.
LEMMA SendPlan ==
    ASSUME PlanInv, Send
    PROVE  /\ boot' = "loop" /\ boot = "send"
           /\ UNCHANGED <<conn, target, base, lastRaw, chNext>>
           /\ base = built.conn =>
                \A c \in Channels : sent'[c] = SentThen(c) /\ sentRaw'[c] = RawThen(c)
<1>1. /\ boot' = "loop" /\ boot = "send"
      /\ UNCHANGED <<conn, target, base, lastRaw, chNext>>
  BY DEF Send, planVars
<1>2. CASE base = built.conn /\ built.bunch.num # 0
  <2>1. built.bunch.chan \in Channels
    BY <1>2 DEF PlanInv, TypeOK, Bunches, NoBunch
  <2> QED
    BY <1>1, <1>2, <2>1 DEF Send, SentThen, RawThen, Patches, PlanInv, TypeOK
<1>3. CASE base = built.conn /\ built.bunch.num = 0
  BY <1>1, <1>3 DEF Send, SentThen, RawThen, Patches, ghostVars
<1> QED
  BY <1>1, <1>2, <1>3

\* The maps are empty wherever a bootstrap begins or ends.
LEMMA LeavePlan ==
    ASSUME LeaveLoop
    PROVE  Base' /\ Settled' /\ Renumbered'
  BY DEF LeaveLoop, EmptyPlan, Base, Settled, Renumbered, Sending

\* Steps that touch neither the plan nor the packet.
LEMMA SamePlan ==
    ASSUME PlanInv, UNCHANGED <<conn, base, target, built, lastRaw, chNext, ghostVars>>,
           boot' = boot \/ (boot \notin Sending /\ boot' \notin Sending)
                        \/ (boot = "loop" /\ boot' = "build")
    PROVE  Base' /\ Settled' /\ Renumbered'
<1>1. UNCHANGED <<sent, sentRaw>>
  BY DEF ghostVars
<1>2. \A c \in Channels : SentThen(c)' = SentThen(c) /\ RawThen(c)' = RawThen(c)
  BY <1>1 DEF SentThen, RawThen, Patches
<1> QED
  BY <1>1, <1>2 DEF PlanInv, Base, Settled, Renumbered, Sending

LEMMA PlanStep ==
    ASSUME PlanInv, [Next]_vars
    PROVE  Base' /\ Settled' /\ Renumbered'
<1>0. target \in Clients
  BY TargetIsClient DEF PlanInv
<1>1. CASE \E k \in Clients : HandleInitial(k) \/ TimeOut(k) \/ HandleData(k)
                              \/ PeriodicKeepalive(k) \/ HandleInitRequest(k)
  BY <1>1, SamePlan DEF HandleInitial, TimeOut, HandleData, PeriodicKeepalive,
                        HandleInitRequest, threadVars, planVars
<1>2. CASE \E k \in Clients : HandleResponse(k)
  <2>1. PICK k \in Clients : HandleResponse(k)
    BY <1>2
  <2>2. conn'[target] = conn[target] \/ conn'[target] = conn[target] + 1
    BY <1>0, <2>1 DEF HandleResponse, PlanInv, TypeOK
  <2>3. conn[target] \in Nat /\ base \in Nat /\ built.conn \in Nat
    BY <1>0, ConstantsNat DEF PlanInv, TypeOK
  <2>4. UNCHANGED <<boot, target, built, base, lastRaw, chNext, sent, sentRaw>>
    BY <2>1 DEF HandleResponse, threadVars, planVars, ghostVars
  <2>5. \A c \in Channels : SentThen(c)' = SentThen(c) /\ RawThen(c)' = RawThen(c)
    BY <2>4 DEF SentThen, RawThen, Patches
  <2>6. Base'
    BY <2>2, <2>3, <2>4 DEF PlanInv, Base
  <2>7. Settled'
    BY <2>2, <2>3, <2>4, <2>5 DEF PlanInv, Base, Settled
  <2>8. Renumbered'
    BY <2>4 DEF PlanInv, Renumbered
  <2> QED
    BY <2>6, <2>7, <2>8
<1>3. CASE Launch
  <2>1. /\ boot \notin Sending /\ boot' = "start"
        /\ UNCHANGED <<lastRaw, chNext, sent, sentRaw>>
    BY <1>3 DEF Launch, planVars, ghostVars, Sending
  <2> QED
    BY <2>1 DEF PlanInv, Base, Settled, Renumbered, Sending
<1>4. CASE Start
  <2>1. /\ boot = "start" /\ boot' = "loop" /\ base' = conn[target]
        /\ UNCHANGED <<conn, target, lastRaw, chNext, sent, sentRaw>>
    BY <1>4 DEF Start, clientVars, ghostVars
  <2>2. conn[target] \in Nat
    BY <1>0, ConstantsNat DEF PlanInv, TypeOK
  <2> QED
    BY <2>1, <2>2 DEF PlanInv, Base, Settled, Renumbered, Sending
<1>5. CASE Pace
  BY <1>5, LeavePlan, SamePlan DEF Pace, MoveTo, Goto, clientVars, planVars
<1>6. CASE Build
  <2>1. CASE Connected
    <3>1. conn[target] \in Nat /\ base \in Nat
      BY <1>0, ConstantsNat DEF PlanInv, TypeOK
    <3>2. Base'
      BY <1>6, <2>1, <3>1, BuildPlan DEF PlanInv, Base
    <3>3. CASE base = conn[target]
      <4>1. \A c \in Channels : chNext'[c] = SentThen(c)' + 1 /\ lastRaw'[c] = RawThen(c)'
        BY <1>6, <2>1, <3>3, BuildPlan, BuildEmpty, BuildBunch
      <4>2. Renumbered'
        BY <1>6, <2>1, <3>3, BuildPlan, BuildEmpty, BuildBunch
      <4>3. boot' = "send"
        BY <1>6, <2>1, BuildPlan
      <4> QED
        BY <3>2, <4>1, <4>2, <4>3 DEF Settled, Sending
    <3>4. CASE base # conn[target]
      <4>1. boot' = "send" /\ built'.conn # base'
        BY <1>6, <2>1, <3>4, BuildPlan
      <4> QED
        BY <3>2, <4>1 DEF Settled, Renumbered, Sending
    <3> QED
      BY <3>3, <3>4
  <2>2. CASE ~Connected
    BY <1>6, <2>2, LeavePlan DEF Build
  <2> QED
    BY <2>1, <2>2
<1>7. CASE Send
  <2>1. conn[target] \in Nat /\ base \in Nat /\ built.conn \in Nat
    BY <1>0, ConstantsNat DEF PlanInv, TypeOK
  <2>2. Base'
    BY <1>7, <2>1, SendPlan DEF PlanInv, Base
  <2>3. Renumbered'
    BY <1>7, SendPlan DEF Renumbered
  <2>4. base = conn[target] => base = built.conn
    BY <1>7, <2>1, SendPlan DEF PlanInv, Base
  <2>5. Settled'
    BY <1>7, <2>4, SendPlan DEF PlanInv, Settled, Sending
  <2> QED
    BY <2>2, <2>3, <2>5
<1>8. CASE SpawnController \/ KeepAlive \/ Clear
  <2>1. /\ boot \notin Sending /\ boot' \notin Sending
        /\ UNCHANGED <<conn, base, target, built, lastRaw, chNext, ghostVars>>
    BY <1>8 DEF SpawnController, KeepAlive, Clear, MoveTo, Goto, Sending, clientVars,
                planVars
  <2> QED
    BY <2>1, SamePlan
<1>9. CASE UNCHANGED vars
  BY <1>9, SamePlan DEF vars, clientVars, threadVars, planVars
<1> QED
  BY <1>1, <1>2, <1>3, <1>4, <1>5, <1>6, <1>7, <1>8, <1>9 DEF Next, Receive, Bootstrap

\* In the connection a bootstrap is numbered for, the patched bunches of every
\* channel are numbered without gaps, and a repeated number repeats the content.
THEOREM BootstrapRenumbered == Spec => []Renumbered
<1>1. Init => PlanInv
  <2>1. Init => Base /\ Settled /\ Renumbered
    BY DEF Init, Base, Settled, Renumbered, Sending
  <2> QED
    BY <2>1, TypeInit DEF PlanInv
<1>2. PlanInv /\ [Next]_vars => PlanInv'
  BY TypeStep, PlanStep DEF PlanInv
<1>3. PlanInv => Renumbered
  BY DEF PlanInv
<1> QED
  BY <1>1, <1>2, <1>3, PTL DEF Spec

-----------------------------------------------------------------------------
(* The width of the field.                                                 *)

\* As if the code read and patched the number alone.
NumberOnly == FieldSize = SeqSize

\* A distance of d + 1 from a field is one of d from the next.
LEMMA GapIsOneLess ==
    ASSUME NEW n \in Nat \ {0}, NEW x \in 0..n-1, NEW y \in 0..n-1, NEW m \in Nat,
           (x - y) % n \in 1..m+1
    PROVE  (x - (y + 1)) % n <= m
<1>1. CASE y < x
  <2>1. (x - y) % n = x - y
    BY <1>1
  <2>2. (x - (y + 1)) % n = x - (y + 1)
    BY <1>1
  <2> QED
    BY <2>1, <2>2
<1>2. CASE x = y
  <2>1. (x - y) % n = 0
    BY <1>2
  <2> QED
    BY <2>1
<1>3. CASE x < y
  <2>1. (x - y) % n = x - y + n
    BY <1>3
  <2>2. (x - (y + 1)) % n = x - (y + 1) + n
    BY <1>3
  <2> QED
    BY <2>1, <2>2
<1> QED
  BY <1>1, <1>2, <1>3

\* A bunch that continues its channel's sequence is accepted.
LEMMA ContinuesForward ==
    ASSUME NumberOnly, TypeOK, NEW c \in Channels, NEW v \in Fields,
           (v - lastRaw[c]) % SeqSize \in 1..MaxJump+1
    PROVE  Forward(c, v)
<1>1. CASE lastRaw[c] = None
  BY <1>1 DEF Forward
<1>2. CASE lastRaw[c] \in Fields
  <2>1. SeqSize \in Nat \ {0} /\ MaxJump \in Nat
    BY ConstantsNat
  <2>2. (v - (lastRaw[c] + 1)) % SeqSize <= MaxJump
    BY <1>2, <2>1, GapIsOneLess DEF NumberOnly, Fields
  <2> QED
    BY <2>2 DEF Forward, Gap, NumberOnly
<1> QED
  BY <1>1, <1>2 DEF TypeOK

\* Its number is then the next one, as sent and as read.
LEMMA CleanBuild ==
    ASSUME NumberOnly, PlanInv, Build, Connected, TypeOK'
    PROVE  CleanSequence'
<1> SUFFICES ASSUME base = conn[target], built'.bunch # NoBunch, Continues(built.bunch)'
             PROVE  SentField(built.bunch)' % SeqSize
                      = NumberAt(sent[built.bunch.chan] + 1)'
  BY BuildPlan DEF CleanSequence
<1>1. PICK d \in Channels, v \in Fields :
        built'.bunch = [chan |-> d, raw |-> v, num |-> NumberFor(d, v)]
  BY BuildPlan
<1>2. UNCHANGED <<sent, sentRaw, target, base>> /\ boot = "build"
  BY BuildPlan DEF ghostVars
<1>3. /\ chNext[d] = sent[d] + 1 /\ lastRaw[d] = sentRaw[d] /\ sent[d] \in Nat
  BY <1>2 DEF PlanInv, Settled, TypeOK
<1>4. Forward(d, v)
  BY <1>1, <1>2, <1>3, ContinuesForward DEF Continues, PlanInv
<1>5. built'.bunch.num = sent[d] + 1 /\ built'.bunch.num # 0 /\ built'.bunch.chan = d
  BY <1>1, <1>3, <1>4 DEF NumberFor
<1> DEFINE r == ReliableBase[target][base]
           n == r + (sent[d] + 1)
<1>6. r \in Nat
  <2>1. target \in Clients /\ base \in 0..MaxConnections
    BY DEF PlanInv, TypeOK
  <2>2. r \in 0..FieldSize-1 /\ FieldSize \in Nat
    BY <2>1, BootstrapAssumption, ConstantsNat
  <2> QED
    BY <2>2
<1>7. n \in Nat /\ SeqSize \in Nat \ {0}
  BY <1>3, <1>6, ConstantsNat
<1>8. SentField(built.bunch)' = n % SeqSize /\ NumberAt(sent[built.bunch.chan] + 1)' = n % SeqSize
  BY <1>2, <1>5 DEF SentField, NumberAt, NumberOnly
<1> HIDE DEF n
<1>9. (n % SeqSize) % SeqSize = n % SeqSize
  <2>1. n % SeqSize \in 0..SeqSize-1
    BY <1>7
  <2> DEFINE q == n % SeqSize
  <2> HIDE DEF q
  <2>2. q \in 0..SeqSize-1 => q % SeqSize = q
    BY <1>7
  <2> QED
    BY <2>1, <2>2 DEF q
<1> QED
  BY <1>8, <1>9

\* Steps that leave the packet and what has been sent alone.
LEMMA SameClean ==
    ASSUME CleanSequence, UNCHANGED <<base, target, built, ghostVars>>,
           boot' = boot \/ boot' # "send"
    PROVE  CleanSequence'
  BY DEF CleanSequence, Continues, SentField, NumberAt, ghostVars

LEMMA CleanStep ==
    ASSUME NumberOnly, PlanInv, CleanSequence, TypeOK', [Next]_vars
    PROVE  CleanSequence'
<1>1. CASE Receive
  <2>1. CASE Launch
    BY <2>1 DEF Launch, CleanSequence
  <2>2. CASE \E k \in Clients : \/ HandleInitial(k) \/ HandleResponse(k) \/ HandleData(k)
                                \/ HandleInitRequest(k) \/ TimeOut(k) \/ PeriodicKeepalive(k)
    BY <2>2, SameClean DEF HandleInitial, HandleResponse, HandleData, HandleInitRequest,
       TimeOut, PeriodicKeepalive, threadVars, planVars
  <2> QED
    BY <1>1, <2>1, <2>2 DEF Receive
<1>2. CASE Build
  <2>1. CASE Connected
    BY <1>2, <2>1, CleanBuild
  <2>2. CASE ~Connected
    BY <1>2, <2>2 DEF Build, LeaveLoop, CleanSequence
  <2> QED
    BY <2>1, <2>2
<1>3. CASE Start \/ Pace \/ Send \/ SpawnController \/ KeepAlive \/ Clear
  <2>1. boot' # "send"
    BY <1>3 DEF Start, Pace, Send, SpawnController, KeepAlive, Clear, LeaveLoop, MoveTo, Goto
  <2> QED
    BY <2>1 DEF CleanSequence
<1>4. CASE UNCHANGED vars
  BY <1>4, SameClean DEF vars, threadVars, planVars
<1> QED
  BY <1>1, <1>2, <1>3, <1>4 DEF Next, Bootstrap

\* The width is all that is wrong: if the code read and patched the number alone,
\* the client would get a clean sequence on every channel of the capture.
THEOREM BootstrapClean == ASSUME NumberOnly PROVE Spec => []CleanSequence
<1> DEFINE IInv == PlanInv /\ CleanSequence
<1>1. Init => IInv
  <2>1. Init => Base /\ Settled /\ Renumbered /\ CleanSequence
    BY DEF Init, Base, Settled, Renumbered, CleanSequence, Sending
  <2> QED
    BY <2>1, TypeInit DEF PlanInv
<1>2. IInv /\ [Next]_vars => IInv'
  BY NumberOnly, TypeStep, PlanStep, CleanStep DEF PlanInv
<1>3. IInv => CleanSequence
  OBVIOUS
<1> HIDE DEF IInv
<1> QED
  BY <1>1, <1>2, <1>3, PTL DEF Spec

-----------------------------------------------------------------------------
(* What JoinsFinished is good for.                                         *)

\* A handler is in join() with the lock, and the thread has not returned.
Blocked == joining # {} /\ boot \notin {"none", "exited"}

\* With several clients a handler may join a thread that works for another one:
\* no step of either thread gets the server out of that, since the thread needs
\* the lock, at the latest to clear the flag.
THEOREM BootstrapJoinBlocks == Spec => [](Blocked => []Blocked)
<1>1. Blocked /\ [Next]_vars => Blocked'
  <2> SUFFICES ASSUME Blocked, [Next]_vars PROVE Blocked'
    OBVIOUS
  <2>1. ~Locked
    BY DEF Blocked, Locked
  <2>2. CASE Receive
    BY <2>1, <2>2 DEF Receive, Launch, HandleInitial, HandleResponse, HandleData,
       HandleInitRequest, TimeOut, PeriodicKeepalive, Blocked
  <2>3. CASE Bootstrap
    BY <2>1, <2>3 DEF Bootstrap, Start, Pace, Build, Send, SpawnController, KeepAlive,
       Clear, Blocked
  <2>4. CASE UNCHANGED vars
    BY <2>4 DEF vars, threadVars, Blocked
  <2> QED
    BY <2>2, <2>3, <2>4 DEF Next
<1> QED
  BY <1>1, PTL DEF Spec
=============================================================================
