-------------------------- MODULE ReplayThreadProofs --------------------------
(* Proofs about ReplayThread, for any clients, file, window and bounds.       *)
EXTENDS ReplayThread, TLAPS

-----------------------------------------------------------------------------
(* The inductive invariant.                                                *)

\* The types of the single variables; a packet in hand is still counted.
Types ==
    /\ phase \in [Clients -> Phases] /\ nmtState \in [Clients -> {0, 2, 4}]
    /\ conn \in [Clients -> 0..MaxConnections]
    /\ outSeq \in [Clients -> Nat] /\ outAck \in [Clients -> Nat]
    /\ acked \in [Clients -> Nat] /\ wire \in [Clients -> Nat]
    /\ joining \subseteq Clients /\ terminated \in BOOLEAN
    /\ active \in BOOLEAN /\ mapLoaded \in BOOLEAN
    /\ rep \in Replaying \cup {"none", "post", "exited"}
    /\ target \in Connections /\ left \in 0..NumPackets
    /\ built \in [client : Clients, conn : 0..MaxConnections, seq : Nat]
    /\ released \in BOOLEAN /\ answers \in Nat
    /\ rep \in {"window", "full", "tier", "slow", "generate", "build"} => 0 < left

\* A connected client has finished the NMT exchange.  A replay is active until
\* a handler stops it, and that handler then waits in join(), with the lock.
Control ==
    /\ \A k \in Clients : phase[k] = "CONNECTED" => nmtState[k] = 4
    /\ rep \in Replaying => active \/ joining # {}

\* As long as its client is connected, and no handler waits, a replay belongs
\* to the client's present connection.
Owned ==
    /\ rep \in Replaying /\ joining = {} /\ Connected => conn[Here] = target.conn
    /\ OwnConnection

\* While a packet is pending, its connection has nothing to send but answers.
Quiescent ==
    rep = "send" =>
        /\ built.conn <= conn[built.client]
        /\ built.conn = conn[built.client] =>
             nmtState[built.client] = 4 /\ phase[built.client] # "HANDSHAKE_COMPLETE"

\* The packet is pending, and nothing has overtaken it.
Waits(k) == Pending(k) /\ wire[k] < built.seq

\* Every number below outSeq has been sent, but for that of the pending packet,
\* which is the highest unless an answer has overtaken it.  The last
\* acknowledgement may be a late one.
Numbering ==
    \A k \in Clients :
        /\ wire[k] = outSeq[k] - (IF Waits(k) THEN 2 ELSE 1)
        /\ Pending(k) => built.seq <= wire[k] + 1
        /\ outAck[k] <= acked[k] /\ acked[k] <= outAck[k] + MaxLate
        /\ acked[k] <= wire[k]

\* The packets of k the client is not known to have, the next one included.
InFlight(k) == outSeq[k] - acked[k]

\* Half the number space is enough for them and a late acknowledgement.
Narrow ==
    \A k \in Clients :
        /\ InFlight(k) + MaxLate <= HalfSpace
        /\ nmtState[k] = 0 => InFlight(k) <= MaxUnacked

\* How far ahead of the client each step between the check of the window and
\* the build may be: counting the answers, and however many there are.
Counted ==
    /\ rep \in {"tier", "slow"} => InFlight(Here) < MaxWindow + answers
    /\ rep = "generate" => InFlight(Here) <= MaxWindow + answers
    /\ rep = "build" => InFlight(Here) <= MaxWindow + Generators + answers

Uncounted ==
    /\ rep \in {"tier", "slow", "generate"} => InFlight(Here) <= MaxWindow + MaxUnacked
    /\ rep = "build" => InFlight(Here) <= MaxWindow + MaxUnacked + Generators

Room == (joining = {} /\ Connected => Counted /\ Uncounted) /\ WindowBound

\* The map flag is clear when a replay is launched, and set by a signal later.
MapSignal ==
    /\ joining # {} => ~mapLoaded
    /\ rep \in {"wait", "round"} /\ mapLoaded => released \/ joining # {}
    /\ MapLoadWaits

ReplayInv == /\ Types /\ Control /\ Owned /\ Quiescent /\ Numbering /\ Narrow
             /\ Room /\ MapSignal

-----------------------------------------------------------------------------
(* Constants, acknowledgements, and the numbering of packets.              *)

\* The constants as single facts.
LEMMA ConstantsNat ==
    /\ NumPackets \in Nat /\ Generators \in Nat /\ MaxWindow \in Nat
    /\ StallAhead \in Nat /\ MaxSeq \in Nat /\ MaxConnections \in Nat
    /\ MaxUnacked \in Nat /\ MaxLate \in Nat
    /\ 0 < StallAhead /\ StallAhead < MaxWindow /\ 0 < MaxUnacked
    /\ MaxWindow + MaxUnacked + Generators + 1 + MaxLate <= HalfSpace
    /\ MaxUnacked + 2 + MaxLate <= HalfSpace
  BY ReplayAssumption DEF HalfSpace

\* Zero is in the ranges that start there.
LEMMA ZeroLeft == 0 \in 0..NumPackets /\ 0 \in 0..MaxConnections
  BY ConstantsNat

\* What an acknowledgement does: it is a number that has been sent, at most
\* MaxLate behind the newest; of those the newest is kept.
LEMMA AckEffect ==
    ASSUME Types, NEW k \in Clients, NEW a \in Acks(k), Acknowledge(k, a)
    PROVE  /\ outAck' \in [Clients -> Nat] /\ acked' \in [Clients -> Nat]
           /\ outAck'[k] = a /\ a \in Nat /\ a <= wire[k] /\ acked[k] <= a + MaxLate
           /\ acked'[k] = IF a > acked[k] THEN a ELSE acked[k]
           /\ \A j \in Clients \ {k} : outAck'[j] = outAck[j] /\ acked'[j] = acked[j]
<1>1. a \in 0..wire[k] /\ acked[k] <= a + MaxLate
  BY DEF Acks
<1>2. wire[k] \in Nat /\ acked[k] \in Nat
  BY DEF Types
<1>3. a \in Nat /\ a <= wire[k] /\ (IF a > acked[k] THEN a ELSE acked[k]) \in Nat
  BY <1>1, <1>2
<1>4. /\ outAck' = [outAck EXCEPT ![k] = a]
      /\ acked' = [acked EXCEPT ![k] = IF a > acked[k] THEN a ELSE acked[k]]
  BY DEF Acknowledge, Types
<1> QED
  BY <1>1, <1>3, <1>4 DEF Types

\* Sending changes outSeq and wire, of the one client.
LEMMA SendEffect ==
    ASSUME Types, NEW k \in Clients, NEW n \in Nat, SendNow(k, n)
    PROVE  /\ outSeq' \in [Clients -> Nat] /\ wire' \in [Clients -> Nat]
           /\ outSeq'[k] = outSeq[k] + n
           /\ wire'[k] = IF n = 0 THEN wire[k] ELSE outSeq[k] + n - 1
           /\ \A j \in Clients \ {k} : outSeq'[j] = outSeq[j] /\ wire'[j] = wire[j]
<1>1. outSeq[k] \in Nat /\ wire[k] \in Nat
  BY DEF Types
<1> DEFINE w == IF n = 0 THEN wire[k] ELSE outSeq[k] + n - 1
<1>2. w \in Nat
  BY <1>1
<1>3. wire' = [wire EXCEPT ![k] = w] /\ outSeq' = [outSeq EXCEPT ![k] = outSeq[k] + n]
  BY DEF SendNow, Types
<1> HIDE DEF w
<1>4. /\ wire' \in [Clients -> Nat] /\ wire'[k] = w
      /\ \A j \in Clients \ {k} : wire'[j] = wire[j]
  BY <1>2, <1>3 DEF Types
<1>5. /\ outSeq' \in [Clients -> Nat] /\ outSeq'[k] = outSeq[k] + n
      /\ \A j \in Clients \ {k} : outSeq'[j] = outSeq[j]
  BY <1>1, <1>3, SMTT(30) DEF Types
<1> QED
  BY <1>4, <1>5 DEF w

\* A keepalive is a packet, or none at a bound: to a client that has not
\* acknowledged MaxUnacked packets none is sent.
LEMMA KeepaliveIsSend ==
    ASSUME NEW k \in Clients, SendKeepalive(k)
    PROVE  \E n \in {0, 1} : SendNow(k, n) /\ (n = 1 => InFlight(k) < MaxUnacked)
  BY DEF SendKeepalive, WithinBounds, InFlight

\* A keepalive keeps the types.
LEMMA KeepaliveTypes ==
    ASSUME Types, NEW k \in Clients, SendKeepalive(k)
    PROVE  outSeq' \in [Clients -> Nat] /\ wire' \in [Clients -> Nat]
<1>1. PICK n \in {0, 1} : SendNow(k, n)
  BY KeepaliveIsSend
<1> QED
  BY <1>1, SendEffect

\* Connections are numbers.
LEMMA ConnNat ==
    ASSUME Types, NEW k \in Clients
    PROVE  conn[k] \in 0..MaxConnections /\ conn[k] \in Nat
<1>1. conn[k] \in 0..MaxConnections
  BY DEF Types
<1> QED
  BY <1>1

\* The replay has a client.
LEMMA HereIsClient ==
    ASSUME Types
    PROVE  Here \in Clients /\ target.conn \in 0..MaxConnections
  BY DEF Types, Connections, Here

\* A new connection of k, with a numbering of its own.
LEMMA ResponseEffect ==
    ASSUME Types, NEW k \in Clients, HandleResponse(k)
    PROVE  /\ phase'[k] = "HANDSHAKE_COMPLETE" /\ nmtState'[k] = 0
           /\ conn[k] + 1 \in 0..MaxConnections /\ conn'[k] = conn[k] + 1
           /\ outSeq'[k] = 1 /\ outAck'[k] = 0 /\ acked'[k] = 0 /\ wire'[k] = 0
           /\ \A j \in Clients \ {k} :
                /\ phase'[j] = phase[j] /\ nmtState'[j] = nmtState[j] /\ conn'[j] = conn[j]
                /\ outSeq'[j] = outSeq[j] /\ outAck'[j] = outAck[j]
                /\ acked'[j] = acked[j] /\ wire'[j] = wire[j]
           /\ UNCHANGED <<joining, active, mapLoaded, rep, target, left, built,
                          released, answers>>
           /\ joining = {}
<1>1. conn[k] \in 0..MaxConnections /\ conn[k] < MaxConnections
  BY DEF HandleResponse, Types
<1>2. conn[k] + 1 \in 0..MaxConnections
  BY <1>1, ConstantsNat
<1>3. /\ phase' = [phase EXCEPT ![k] = "HANDSHAKE_COMPLETE"]
      /\ nmtState' = [nmtState EXCEPT ![k] = 0]
      /\ conn' = [conn EXCEPT ![k] = conn[k] + 1]
      /\ outSeq' = [outSeq EXCEPT ![k] = 1] /\ outAck' = [outAck EXCEPT ![k] = 0]
      /\ acked' = [acked EXCEPT ![k] = 0] /\ wire' = [wire EXCEPT ![k] = 0]
  BY DEF HandleResponse, Types
<1>4. phase'[k] = "HANDSHAKE_COMPLETE" /\ nmtState'[k] = 0
      /\ \A j \in Clients \ {k} : phase'[j] = phase[j] /\ nmtState'[j] = nmtState[j]
  BY <1>3 DEF Types
<1>5. conn'[k] = conn[k] + 1 /\ \A j \in Clients \ {k} : conn'[j] = conn[j]
  BY <1>3 DEF Types
<1>6. outSeq'[k] = 1 /\ outAck'[k] = 0
      /\ \A j \in Clients \ {k} : outSeq'[j] = outSeq[j] /\ outAck'[j] = outAck[j]
  BY <1>3 DEF Types
<1>8. acked'[k] = 0 /\ wire'[k] = 0
      /\ \A j \in Clients \ {k} : acked'[j] = acked[j] /\ wire'[j] = wire[j]
  BY <1>3 DEF Types
<1>7. /\ UNCHANGED <<joining, active, mapLoaded, rep, target, left, built, released,
                     answers>>
      /\ joining = {}
  BY DEF HandleResponse, Locked, threadVars
<1> QED
  BY <1>2, <1>4, <1>5, <1>6, <1>7, <1>8

\* The packet is numbered, or there is none to send, or the replay is over.
LEMMA BuildEffect ==
    ASSUME Types, Build
    PROVE  /\ rep = "build" /\ joining = {}
           /\ UNCHANGED <<phase, nmtState, conn, outAck, acked, wire, joining, terminated,
                          mapLoaded, target, released>>
           /\ answers' \in {answers, 0}
           /\ \/ UNCHANGED <<built, outSeq>> /\ rep' = "post" /\ active' = FALSE /\ left' = 0
              \/ UNCHANGED <<built, outSeq, active>> /\ rep' = "loop" /\ left' = left - 1
              \/ /\ Connected /\ rep' = "send" /\ UNCHANGED <<active, answers>>
                 /\ left' = left - 1
                 /\ built' = [client |-> Here, conn |-> conn[Here], seq |-> outSeq[Here]]
                 /\ built' \in [client : Clients, conn : 0..MaxConnections, seq : Nat]
                 /\ outSeq' = [outSeq EXCEPT ![Here] = outSeq[Here] + 1]
                 /\ outSeq' \in [Clients -> Nat]
                 /\ outSeq'[Here] = outSeq[Here] + 1
                 /\ \A j \in Clients \ {Here} : outSeq'[j] = outSeq[j]
<1>1. rep = "build" /\ joining = {}
  BY DEF Build, Locked
<1>2. CASE ~Connected
  BY <1>1, <1>2 DEF Build, Finish, clientVars
<1>3. CASE Connected
  <2>1. /\ UNCHANGED <<phase, nmtState, conn, outAck, acked, wire, joining, terminated, active,
                       mapLoaded, target, released, answers>>
        /\ left' = left - 1
        /\ \/ UNCHANGED <<built, outSeq>> /\ rep' = "loop"
           \/ /\ rep' = "send"
              /\ built' = [client |-> Here, conn |-> conn[Here], seq |-> outSeq[Here]]
              /\ outSeq' = [outSeq EXCEPT ![Here] = @ + 1]
    BY <1>3 DEF Build
  <2>2. CASE rep' = "send"
    <3>1. Here \in Clients /\ conn[Here] \in 0..MaxConnections /\ outSeq[Here] \in Nat
      BY HereIsClient DEF Types
    <3>2. outSeq' = [outSeq EXCEPT ![Here] = outSeq[Here] + 1]
      BY <2>1, <2>2
    <3>3. /\ built' = [client |-> Here, conn |-> conn[Here], seq |-> outSeq[Here]]
          /\ built' \in [client : Clients, conn : 0..MaxConnections, seq : Nat]
      BY <2>1, <2>2, <3>1
    <3> DEFINE h == Here
    <3> HIDE DEF h
    <3>4. outSeq' = [outSeq EXCEPT ![h] = outSeq[h] + 1] /\ h \in Clients /\ outSeq[h] \in Nat
      BY <3>1, <3>2 DEF h
    <3>5. /\ outSeq' \in [Clients -> Nat]
          /\ outSeq'[h] = outSeq[h] + 1
          /\ \A j \in Clients \ {h} : outSeq'[j] = outSeq[j]
      BY <3>4, SMTT(30) DEF Types
    <3> QED
      BY <1>1, <1>3, <2>1, <2>2, <3>2, <3>3, <3>5 DEF h
  <2>3. CASE rep' # "send"
    BY <1>1, <2>1, <2>3
  <2> QED
    BY <2>2, <2>3
<1> QED
  BY <1>2, <1>3

-----------------------------------------------------------------------------
(* Numbering, for the steps that send at once and for those that do not.   *)

\* The client acknowledges what has been sent, or nothing new.
AckGrows ==
    /\ outAck' \in [Clients -> Nat] /\ acked' \in [Clients -> Nat]
    /\ \A j \in Clients :
         \/ outAck'[j] = outAck[j] /\ acked'[j] = acked[j]
         \/ /\ outAck'[j] <= wire[j] /\ acked[j] <= outAck'[j] + MaxLate
            /\ acked'[j] = IF outAck'[j] > acked[j] THEN outAck'[j] ELSE acked[j]

SendState == (rep' = "send") = (rep = "send")

\* An acknowledgement is one.
LEMMA AckIsGrowth ==
    ASSUME Types, NEW k \in Clients, NEW a \in Acks(k), Acknowledge(k, a)
    PROVE  AckGrows
  BY AckEffect DEF AckGrows

\* So is none.
LEMMA NoAckGrows ==
    ASSUME Types, UNCHANGED <<outAck, acked>>
    PROVE  AckGrows
  BY DEF AckGrows, Types

\* The numbers acknowledged stay in order.
LEMMA AckOrder ==
    ASSUME Types, Numbering, AckGrows, NEW j \in Clients
    PROVE  /\ outAck'[j] \in Nat /\ acked'[j] \in Nat /\ acked[j] \in Nat
           /\ outAck'[j] <= acked'[j] /\ acked'[j] <= outAck'[j] + MaxLate
           /\ acked'[j] <= wire[j] /\ acked[j] <= acked'[j]
<1>1. /\ outAck'[j] \in Nat /\ acked'[j] \in Nat /\ acked[j] \in Nat /\ wire[j] \in Nat
      /\ outAck[j] \in Nat
  BY DEF AckGrows, Types
<1>2. outAck[j] <= acked[j] /\ acked[j] <= outAck[j] + MaxLate /\ acked[j] <= wire[j]
  BY DEF Numbering
<1>3. CASE outAck'[j] = outAck[j] /\ acked'[j] = acked[j]
  BY <1>1, <1>2, <1>3
<1>4. CASE /\ outAck'[j] <= wire[j] /\ acked[j] <= outAck'[j] + MaxLate
           /\ acked'[j] = IF outAck'[j] > acked[j] THEN outAck'[j] ELSE acked[j]
  BY <1>1, <1>2, <1>4, ConstantsNat
<1> QED
  BY <1>3, <1>4 DEF AckGrows

\* A step that numbers and sends at once keeps the numbering: what it sends is
\* later than a pending packet.
LEMMA QuietSend ==
    ASSUME Types, Numbering, NEW k \in Clients, NEW n \in Nat, SendNow(k, n),
           UNCHANGED <<conn, built>>, AckGrows, SendState
    PROVE  Numbering'
<1>1. \A j \in Clients : Pending(j)' = Pending(j)
  BY DEF Pending, SendState
<1>2. /\ outSeq'[k] = outSeq[k] + n
      /\ wire'[k] = IF n = 0 THEN wire[k] ELSE outSeq[k] + n - 1
      /\ \A j \in Clients \ {k} : outSeq'[j] = outSeq[j] /\ wire'[j] = wire[j]
  BY SendEffect
<1> SUFFICES ASSUME NEW j \in Clients
             PROVE  /\ wire'[j] = outSeq'[j]
                         - (IF Pending(j) /\ wire'[j] < built.seq THEN 2 ELSE 1)
                    /\ Pending(j) => built.seq <= wire'[j] + 1
                    /\ acked'[j] <= wire'[j]
  BY <1>1, AckOrder DEF Numbering, Waits
<1>3. /\ outSeq[j] \in Nat /\ wire[j] \in Nat /\ acked'[j] \in Nat /\ acked'[j] <= wire[j]
      /\ built.seq \in Nat
  BY AckOrder DEF Types
<1>4. /\ wire[j] = outSeq[j] - (IF Pending(j) /\ wire[j] < built.seq THEN 2 ELSE 1)
      /\ Pending(j) => built.seq <= wire[j] + 1
  BY DEF Numbering, Waits
<1>5. CASE j # k
  BY <1>2, <1>3, <1>4, <1>5
<1>6. CASE j = k
  BY <1>2, <1>3, <1>4, <1>6
<1> QED
  BY <1>5, <1>6

\* So does a step that sends nothing.
LEMMA NoSend ==
    ASSUME Types, Numbering, UNCHANGED <<conn, built, outSeq, wire>>, AckGrows,
           SendState
    PROVE  Numbering'
<1>1. \A j \in Clients : Pending(j)' = Pending(j)
  BY DEF Pending, SendState
<1> QED
  BY <1>1, AckOrder DEF Numbering, Waits, Types

-----------------------------------------------------------------------------
(* Each part of the invariant is kept.                                     *)

\* Every step keeps the types.
LEMMA TypesNext == Types /\ [Next]_vars => Types'
<1> SUFFICES ASSUME Types, [Next]_vars PROVE Types'
  OBVIOUS
<1>1. ASSUME NEW k \in Clients, HandleInitial(k) PROVE Types'
  BY <1>1 DEF HandleInitial, threadVars, Types, Phases
<1>2. ASSUME NEW k \in Clients, HandleResponse(k) PROVE Types'
  <2>1. conn[k] + 1 \in 0..MaxConnections
    BY <1>2, ResponseEffect
  <2> QED
    BY <1>2, <2>1 DEF HandleResponse, threadVars, Types, Phases
<1>3. ASSUME NEW k \in Clients, NEW a \in Acks(k),
             Acknowledge(k, a), HandleLogin(k)
      PROVE  Types'
  <2>1. outSeq' \in [Clients -> Nat]
        /\ wire' \in [Clients -> Nat]
    BY <1>3, SendEffect DEF HandleLogin
  <2> QED
    BY <1>3, <2>1, AckEffect DEF HandleLogin, threadVars, Types
<1>4. ASSUME NEW k \in Clients, NEW a \in Acks(k),
             Acknowledge(k, a), HandleReady(k)
      PROVE  Types'
  <2>1. outSeq' \in [Clients -> Nat]
        /\ wire' \in [Clients -> Nat]
    BY <1>4, KeepaliveTypes DEF HandleReady
  <2>2. outAck' \in [Clients -> Nat] /\ acked' \in [Clients -> Nat]
    BY <1>4, AckEffect
  <2> QED
    BY <1>4, <2>1, <2>2 DEF HandleReady, threadVars, Types, Phases
<1>5. ASSUME NEW k \in Clients, NEW a \in Acks(k),
             Acknowledge(k, a), HandleLateControl(k)
      PROVE  Types'
  BY <1>5, AckEffect DEF HandleLateControl, threadVars, Types
<1>6. ASSUME NEW k \in Clients, NEW a \in Acks(k),
             Acknowledge(k, a), HandleGameBunch(k)
      PROVE  Types'
  BY <1>6, AckEffect DEF HandleGameBunch, threadVars, Types
<1>7. ASSUME NEW k \in Clients, TimeOut(k) PROVE Types'
  BY <1>7 DEF TimeOut, threadVars, Types, Phases
<1>8. ASSUME NEW k \in Clients, PeriodicKeepalive(k) PROVE Types'
  <2>1. outSeq' \in [Clients -> Nat]
        /\ wire' \in [Clients -> Nat]
    BY <1>8, KeepaliveTypes DEF PeriodicKeepalive
  <2> QED
    BY <1>8, <2>1 DEF PeriodicKeepalive, threadVars, Types
<1>9. CASE Launch
  <2>1. PICK k \in joining : target' = [client |-> k, conn |-> conn[k]]
    BY <1>9 DEF Launch
  <2>2. target' \in Connections
    BY <2>1 DEF Types, Connections
  <2>3. NumPackets \in 0..NumPackets
    BY ConstantsNat
  <2> QED
    BY <1>9, <2>2, <2>3 DEF Launch, Types, clientVars, Replaying
<1>10. CASE WaitCheck
  BY <1>10 DEF WaitCheck, MoveTo, Goto, clientVars, Types, Replaying
<1>11. CASE WaitRound
  <2>1. outSeq' \in [Clients -> Nat]
        /\ wire' \in [Clients -> Nat]
    BY <1>11, KeepaliveTypes, HereIsClient DEF WaitRound, Types, MoveTo,
       clientVars
  <2> QED
    BY <1>11, <2>1 DEF WaitRound, MoveTo, Goto, clientVars, Types, Replaying
<1>12. CASE WaitOver
  BY <1>12 DEF WaitOver, clientVars, Types, Replaying
<1>13. CASE NextPacket
  <2>1. answers' \in Nat
    BY <1>13 DEF NextPacket, MoveTo, Goto, Finish, Types
  <2> QED
    BY <1>13, <2>1, ZeroLeft DEF NextPacket, MoveTo, Goto, Finish, clientVars, Types,
       Replaying
<1>14. CASE Stall
  BY <1>14, ZeroLeft DEF Stall, Finish, clientVars, Types
<1>15. CASE Window
  <2>1. answers' \in Nat
    BY <1>15 DEF Window, MoveTo, Goto, Finish, Types
  <2> QED
    BY <1>15, <2>1, ZeroLeft DEF Window, MoveTo, Goto, Finish, clientVars, Types,
       Replaying
<1>16. CASE Full
  <2>1. outSeq' \in [Clients -> Nat]
        /\ wire' \in [Clients -> Nat]
    BY <1>16, KeepaliveTypes, HereIsClient DEF Full, Types, MayKeepAlive
  <2> QED
    BY <1>16, <2>1 DEF Full, MayKeepAlive, Goto, Types, Replaying
<1>17. CASE Tier
  <2>1. answers' \in Nat
    BY <1>17 DEF Tier, MoveTo, Goto, Finish, Types
  <2> QED
    BY <1>17, <2>1, ZeroLeft DEF Tier, MoveTo, Goto, Finish, clientVars, Types,
       Replaying
<1>18. CASE Slow
  <2>1. outSeq' \in [Clients -> Nat]
        /\ wire' \in [Clients -> Nat]
    BY <1>18, KeepaliveTypes, HereIsClient DEF Slow, Types, MayKeepAlive
  <2> QED
    BY <1>18, <2>1 DEF Slow, MayKeepAlive, Goto, Types, Replaying
<1>19. CASE Generate
  <2>1. PICK n \in Nat : SendNow(Here, n)
    BY <1>19, ConstantsNat DEF Generate
  <2>2. outSeq' \in [Clients -> Nat]
        /\ wire' \in [Clients -> Nat]
    BY <2>1, SendEffect, HereIsClient
  <2> QED
    BY <1>19, <2>2 DEF Generate, Goto, Types, Replaying
<1>20. CASE Build
  <2>1. left' \in 0..NumPackets
    <3>1. left \in 0..NumPackets /\ 0 < left
      BY <1>20, BuildEffect DEF Types
    <3>2. left' = 0 \/ left' = left - 1
      BY <1>20, BuildEffect
    <3> QED
      BY <3>1, <3>2, ConstantsNat
  <2>2. built' \in [client : Clients, conn : 0..MaxConnections, seq : Nat]
        /\ outSeq' \in [Clients -> Nat] /\ active' \in BOOLEAN
        /\ rep' \in {"post", "loop", "send"}
    BY <1>20, BuildEffect DEF Types
  <2>3. UNCHANGED <<phase, nmtState, conn, outAck, acked, wire, joining, terminated,
                    mapLoaded, target, released>>
    BY <1>20, BuildEffect
  <2>4. answers' \in Nat
    <3>1. answers \in Nat /\ answers' \in {answers, 0}
      BY <1>20, BuildEffect DEF Types
    <3> QED
      BY <3>1
  <2> QED
    BY <2>1, <2>2, <2>3, <2>4 DEF Types, Replaying
<1>21. CASE Send
  <2>1. built.client \in Clients /\ built.seq \in Nat /\ wire[built.client] \in Nat
    BY DEF Types
  <2>2. wire' \in [Clients -> Nat]
    BY <1>21, <2>1 DEF Send, Types
  <2>3. NoPacket \in [client : Clients, conn : 0..MaxConnections, seq : Nat]
    BY ConstantsNat DEF NoPacket, Types, Connections
  <2> QED
    BY <1>21, <2>2, <2>3 DEF Send, Types, Replaying
<1>22. CASE PostReplay
  <2>1. outSeq' \in [Clients -> Nat]
        /\ wire' \in [Clients -> Nat]
    BY <1>22, KeepaliveTypes, HereIsClient DEF PostReplay, Types, MoveTo,
       clientVars
  <2> QED
    BY <1>22, <2>1 DEF PostReplay, MoveTo, Goto, clientVars, threadVars, Types
<1>23. CASE UNCHANGED vars
  BY <1>23 DEF vars, clientVars, threadVars, Types
<1>24. ASSUME NEW k \in Clients, HandleInitRequest(k) PROVE Types'
  <2>1. outSeq' \in [Clients -> Nat] /\ wire' \in [Clients -> Nat]
    BY <1>24, SendEffect DEF HandleInitRequest
  <2>2. answers' \in Nat
    BY <1>24 DEF HandleInitRequest, Types
  <2> QED
    BY <1>24, <2>1, <2>2 DEF HandleInitRequest, Types
<1> QED
  BY <1>1, <1>2, <1>3, <1>4, <1>5, <1>6, <1>7, <1>8, <1>9, <1>10, <1>11,
     <1>12, <1>13, <1>14, <1>15, <1>16, <1>17, <1>18, <1>19, <1>20, <1>21,
     <1>22, <1>23, <1>24 DEF Next, Receive, HandleData, Replay

\* A step of the replay thread that stops the replay leaves the loop, and a
\* handler that stops it joins.
LEMMA ControlNext == Types /\ Control /\ [Next]_vars => Control'
<1> SUFFICES ASSUME Types, Control, [Next]_vars PROVE Control'
  OBVIOUS
<1>1. ASSUME NEW k \in Clients, HandleInitial(k) PROVE Control'
  BY <1>1 DEF HandleInitial, threadVars, Control
<1>2. ASSUME NEW k \in Clients, HandleResponse(k) PROVE Control'
  BY <1>2 DEF HandleResponse, threadVars, Types, Control
<1>3. ASSUME NEW k \in Clients, NEW a \in Acks(k),
             Acknowledge(k, a), HandleLogin(k)
      PROVE  Control'
  BY <1>3 DEF HandleLogin, threadVars, Control, Locked
<1>4. ASSUME NEW k \in Clients, NEW a \in Acks(k),
             Acknowledge(k, a), HandleReady(k)
      PROVE  Control'
  BY <1>4 DEF HandleReady, Types, Control
<1>5. ASSUME NEW k \in Clients, NEW a \in Acks(k),
             Acknowledge(k, a), HandleLateControl(k)
      PROVE  Control'
  BY <1>5 DEF HandleLateControl, threadVars, Control
<1>6. ASSUME NEW k \in Clients, NEW a \in Acks(k),
             Acknowledge(k, a), HandleGameBunch(k)
      PROVE  Control'
  BY <1>6 DEF HandleGameBunch, Control
<1>7. ASSUME NEW k \in Clients, TimeOut(k) PROVE Control'
  BY <1>7 DEF TimeOut, threadVars, Control
<1>8. ASSUME NEW k \in Clients, PeriodicKeepalive(k) PROVE Control'
  BY <1>8 DEF PeriodicKeepalive, threadVars, Control
<1>9. CASE Launch
  BY <1>9 DEF Launch, clientVars, Control
<1>10. CASE WaitCheck
  BY <1>10 DEF WaitCheck, MoveTo, clientVars, Control
<1>11. CASE WaitRound
  BY <1>11 DEF WaitRound, MoveTo, clientVars, Types, Control
<1>12. CASE WaitOver
  BY <1>12 DEF WaitOver, clientVars, Types, Control
<1>13. CASE NextPacket
  BY <1>13 DEF NextPacket, MoveTo, Finish, clientVars, Control, Replaying
<1>14. CASE Stall
  BY <1>14 DEF Stall, Finish, clientVars, Control, Replaying
<1>15. CASE Window
  BY <1>15 DEF Window, MoveTo, Finish, clientVars, Control, Replaying
<1>16. CASE Full
  BY <1>16 DEF Full, MayKeepAlive, Types, Control
<1>17. CASE Tier
  BY <1>17 DEF Tier, MoveTo, Finish, clientVars, Control, Replaying
<1>18. CASE Slow
  BY <1>18 DEF Slow, MayKeepAlive, Types, Control
<1>19. CASE Generate
  BY <1>19 DEF Generate, Types, Control
<1>20. CASE Build
  BY <1>20 DEF Build, Finish, clientVars, Control, Replaying
<1>21. CASE Send
  BY <1>21 DEF Send, Types, Control
<1>22. CASE PostReplay
  BY <1>22 DEF PostReplay, MoveTo, Goto, clientVars, threadVars, Control,
     Replaying
<1>23. CASE UNCHANGED vars
  BY <1>23 DEF vars, clientVars, threadVars, Control
<1>24. ASSUME NEW k \in Clients, HandleInitRequest(k) PROVE Control'
  BY <1>24 DEF HandleInitRequest, Control
<1> QED
  BY <1>1, <1>2, <1>3, <1>4, <1>5, <1>6, <1>7, <1>8, <1>9, <1>10, <1>11,
     <1>12, <1>13, <1>14, <1>15, <1>16, <1>17, <1>18, <1>19, <1>20, <1>21,
     <1>22, <1>23, <1>24 DEF Next, Receive, HandleData, Replay

\* A client is connected anew only by the packet that launches a new replay.
LEMMA OwnedNext == Types /\ Control /\ Owned /\ [Next]_vars => Owned'
<1> SUFFICES ASSUME Types, Control, Owned, [Next]_vars PROVE Owned'
  OBVIOUS
<1>1. ASSUME NEW k \in Clients, HandleInitial(k) PROVE Owned'
  BY <1>1 DEF HandleInitial, threadVars, Owned, OwnConnection, Here, Connected
<1>2. ASSUME NEW k \in Clients, HandleResponse(k) PROVE Owned'
  BY <1>2, SMTT(30) DEF HandleResponse, threadVars, Types, Owned, OwnConnection, Locked,
     Here, Connected
<1>3. ASSUME NEW k \in Clients, NEW a \in Acks(k),
             Acknowledge(k, a), HandleLogin(k)
      PROVE  Owned'
  BY <1>3 DEF HandleLogin, threadVars, Owned, OwnConnection, Here, Connected
<1>4. ASSUME NEW k \in Clients, NEW a \in Acks(k),
             Acknowledge(k, a), HandleReady(k)
      PROVE  Owned'
  BY <1>4 DEF HandleReady, threadVars, Owned, OwnConnection
<1>5. ASSUME NEW k \in Clients, NEW a \in Acks(k),
             Acknowledge(k, a), HandleLateControl(k)
      PROVE  Owned'
  BY <1>5 DEF HandleLateControl, threadVars, Owned, OwnConnection, Here,
     Connected
<1>6. ASSUME NEW k \in Clients, NEW a \in Acks(k),
             Acknowledge(k, a), HandleGameBunch(k)
      PROVE  Owned'
  BY <1>6 DEF HandleGameBunch, Owned, OwnConnection, Here, Connected
<1>7. ASSUME NEW k \in Clients, TimeOut(k) PROVE Owned'
  BY <1>7 DEF TimeOut, threadVars, Owned, OwnConnection, Here, Connected
<1>8. ASSUME NEW k \in Clients, PeriodicKeepalive(k) PROVE Owned'
  BY <1>8 DEF PeriodicKeepalive, threadVars, Owned, OwnConnection, Here,
     Connected
<1>9. CASE Launch
  BY <1>9 DEF Launch, clientVars, Owned, OwnConnection, Here
<1>10. CASE WaitCheck
  BY <1>10 DEF WaitCheck, MoveTo, Goto, clientVars, Types, Owned,
     OwnConnection, Here, Connected
<1>11. CASE WaitRound
  BY <1>11 DEF WaitRound, MoveTo, Goto, Owned, OwnConnection, Here, Replaying
<1>12. CASE WaitOver
  BY <1>12 DEF WaitOver, clientVars, Types, Owned, OwnConnection, Here,
     Connected
<1>13. CASE NextPacket
  BY <1>13 DEF NextPacket, MoveTo, Goto, Finish, clientVars, Types, Owned,
     OwnConnection, Here, Connected
<1>14. CASE Stall
  BY <1>14 DEF Stall, Finish, Owned, OwnConnection, Replaying
<1>15. CASE Window
  BY <1>15 DEF Window, MoveTo, Goto, Finish, clientVars, Types, Owned,
     OwnConnection, Here, Connected
<1>16. CASE Full
  BY <1>16 DEF Full, MayKeepAlive, Goto, Types, Owned, OwnConnection, Here,
     Connected
<1>17. CASE Tier
  BY <1>17 DEF Tier, MoveTo, Goto, Finish, clientVars, Types, Owned,
     OwnConnection, Here, Connected
<1>18. CASE Slow
  BY <1>18 DEF Slow, MayKeepAlive, Goto, Types, Owned, OwnConnection, Here,
     Connected
<1>19. CASE Generate
  BY <1>19 DEF Generate, Goto, Types, Owned, OwnConnection, Here, Connected
<1>20. CASE Build
  <2>1. joining' = {} /\ UNCHANGED <<phase, conn, target>> /\ Here' = Here
    BY <1>20, BuildEffect DEF Here
  <2>2. rep' = "send" => Connected /\ built'.client = Here /\ built'.conn = conn[Here]
    BY <1>20, BuildEffect
  <2>3. Connected => conn[Here] = target.conn
    BY <1>20, BuildEffect DEF Owned, Replaying
  <2> QED
    BY <2>1, <2>2, <2>3 DEF Owned, OwnConnection, Connected, Connections,
       Here, Types
<1>21. CASE Send
  BY <1>21 DEF Send, Types, Owned, OwnConnection, Here, Connected
<1>22. CASE PostReplay
  BY <1>22 DEF PostReplay, MoveTo, Goto, threadVars, Owned, OwnConnection,
     Replaying
<1>23. CASE UNCHANGED vars
  BY <1>23 DEF vars, clientVars, threadVars, Owned, OwnConnection, Here,
     Connected
<1>24. ASSUME NEW k \in Clients, HandleInitRequest(k) PROVE Owned'
  BY <1>24 DEF HandleInitRequest, Owned, OwnConnection, Here, Connected
<1> QED
  BY <1>1, <1>2, <1>3, <1>4, <1>5, <1>6, <1>7, <1>8, <1>9, <1>10, <1>11,
     <1>12, <1>13, <1>14, <1>15, <1>16, <1>17, <1>18, <1>19, <1>20, <1>21,
     <1>22, <1>23, <1>24 DEF Next, Receive, HandleData, Replay

\* The pending packet's connection stays quiet until it is replaced.
LEMMA QuiescentNext == Types /\ Control /\ Quiescent /\ [Next]_vars => Quiescent'
<1> SUFFICES ASSUME Types, Control, Quiescent, [Next]_vars PROVE Quiescent'
  OBVIOUS
<1>1. ASSUME NEW k \in Clients, HandleInitial(k) PROVE Quiescent'
  BY <1>1 DEF HandleInitial, threadVars, Quiescent
<1>2. ASSUME NEW k \in Clients, HandleResponse(k) PROVE Quiescent'
  <2>1. conn[k] \in Nat /\ conn'[k] = conn[k] + 1 /\ built.client \in Clients
    BY <1>2, ResponseEffect, ConnNat DEF Types
  <2>2. CASE built.client = k
    <3>1. rep = "send" => built.conn <= conn[k] /\ built.conn \in Nat
      BY <2>2 DEF Quiescent, Types
    <3> QED
      BY <1>2, <2>1, <2>2, <3>1, ResponseEffect DEF Quiescent
  <2>3. CASE built.client # k
    BY <1>2, <2>1, <2>3, ResponseEffect DEF Quiescent
  <2> QED
    BY <2>2, <2>3
<1>3. ASSUME NEW k \in Clients, NEW a \in Acks(k),
             Acknowledge(k, a), HandleLogin(k)
      PROVE  Quiescent'
  BY <1>3 DEF HandleLogin, threadVars, Quiescent
<1>4. ASSUME NEW k \in Clients, NEW a \in Acks(k),
             Acknowledge(k, a), HandleReady(k)
      PROVE  Quiescent'
  BY <1>4 DEF HandleReady, threadVars, Quiescent
<1>5. ASSUME NEW k \in Clients, NEW a \in Acks(k),
             Acknowledge(k, a), HandleLateControl(k)
      PROVE  Quiescent'
  BY <1>5 DEF HandleLateControl, threadVars, Quiescent
<1>6. ASSUME NEW k \in Clients, NEW a \in Acks(k),
             Acknowledge(k, a), HandleGameBunch(k)
      PROVE  Quiescent'
  BY <1>6 DEF HandleGameBunch, Quiescent
<1>7. ASSUME NEW k \in Clients, TimeOut(k) PROVE Quiescent'
  BY <1>7 DEF TimeOut, threadVars, Quiescent
<1>8. ASSUME NEW k \in Clients, PeriodicKeepalive(k) PROVE Quiescent'
  BY <1>8 DEF PeriodicKeepalive, threadVars, Quiescent
<1>9. CASE Launch
  BY <1>9 DEF Launch, Quiescent
<1>10. CASE WaitCheck
  BY <1>10 DEF WaitCheck, MoveTo, Goto, Quiescent
<1>11. CASE WaitRound
  BY <1>11 DEF WaitRound, MoveTo, Goto, Quiescent
<1>12. CASE WaitOver
  BY <1>12 DEF WaitOver, Quiescent
<1>13. CASE NextPacket
  BY <1>13 DEF NextPacket, MoveTo, Goto, Finish, Quiescent
<1>14. CASE Stall
  BY <1>14 DEF Stall, Finish, Quiescent
<1>15. CASE Window
  BY <1>15 DEF Window, MoveTo, Goto, Finish, Quiescent
<1>16. CASE Full
  BY <1>16 DEF Full, MayKeepAlive, Goto, Quiescent
<1>17. CASE Tier
  BY <1>17 DEF Tier, MoveTo, Goto, Finish, Quiescent
<1>18. CASE Slow
  BY <1>18 DEF Slow, MayKeepAlive, Goto, Quiescent
<1>19. CASE Generate
  BY <1>19 DEF Generate, Goto, Quiescent
<1>20. CASE Build
  <2>1. rep' = "send" => /\ Connected /\ built'.client = Here /\ built'.conn = conn[Here]
                         /\ UNCHANGED <<conn, nmtState, phase>>
    BY <1>20, BuildEffect
  <2>2. Here \in Clients /\ conn[Here] \in Nat
    BY HereIsClient, ConnNat
  <2> QED
    BY <2>1, <2>2 DEF Quiescent, Control, Connected
<1>21. CASE Send
  BY <1>21 DEF Send, Quiescent
<1>22. CASE PostReplay
  BY <1>22 DEF PostReplay, MoveTo, Goto, threadVars, Quiescent
<1>23. CASE UNCHANGED vars
  BY <1>23 DEF vars, clientVars, threadVars, Quiescent
<1>24. ASSUME NEW k \in Clients, HandleInitRequest(k) PROVE Quiescent'
  BY <1>24 DEF HandleInitRequest, Quiescent
<1> QED
  BY <1>1, <1>2, <1>3, <1>4, <1>5, <1>6, <1>7, <1>8, <1>9, <1>10, <1>11,
     <1>12, <1>13, <1>14, <1>15, <1>16, <1>17, <1>18, <1>19, <1>20, <1>21,
     <1>22, <1>23, <1>24 DEF Next, Receive, HandleData, Replay

\* Only a quiet connection has a pending packet, so every other packet is
\* numbered and sent in one step.
LEMMA NumberingNext == Types /\ Control /\ Quiescent /\ Numbering /\ [Next]_vars => Numbering'
<1> SUFFICES ASSUME Types, Control, Quiescent, Numbering, [Next]_vars PROVE Numbering'
  OBVIOUS
<1>1. ASSUME NEW k \in Clients, HandleInitial(k) PROVE Numbering'
  <2>1. UNCHANGED <<conn, built, outSeq, wire>> /\ AckGrows /\ SendState
    BY <1>1, NoAckGrows DEF HandleInitial, threadVars, SendState
  <2> QED
    BY <2>1, NoSend
<1>2. ASSUME NEW k \in Clients, HandleResponse(k) PROVE Numbering'
  <2>1. UNCHANGED <<built, rep>> /\ conn[k] \in Nat /\ conn'[k] = conn[k] + 1
    BY <1>2, ResponseEffect, ConnNat
  <2>2. ~Pending(k)'
    <3>1. rep = "send" /\ built.client = k => built.conn <= conn[k] /\ built.conn \in Nat
      BY DEF Quiescent, Types
    <3> QED
      BY <2>1, <3>1 DEF Pending
  <2>3. outSeq'[k] = 1 /\ outAck'[k] = 0 /\ acked'[k] = 0 /\ wire'[k] = 0
    BY <1>2, ResponseEffect
  <2>4. \A j \in Clients \ {k} :
          /\ Pending(j)' = Pending(j) /\ outSeq'[j] = outSeq[j]
          /\ outAck'[j] = outAck[j] /\ acked'[j] = acked[j] /\ wire'[j] = wire[j]
    BY <1>2, <2>1, ResponseEffect DEF Pending
  <2> QED
    BY <2>1, <2>2, <2>3, <2>4, ConstantsNat DEF Numbering, Waits
<1>3. ASSUME NEW k \in Clients, NEW a \in Acks(k),
             Acknowledge(k, a), HandleLogin(k)
      PROVE  Numbering'
  <2>1. PICK n \in Nat : SendNow(k, n)
    BY <1>3 DEF HandleLogin
  <2>2. UNCHANGED <<conn, built>> /\ AckGrows /\ SendState
    BY <1>3, AckIsGrowth DEF HandleLogin, threadVars, SendState
  <2> QED
    BY <2>1, <2>2, QuietSend
<1>4. ASSUME NEW k \in Clients, NEW a \in Acks(k),
             Acknowledge(k, a), HandleReady(k)
      PROVE  Numbering'
  <2>1. PICK n \in Nat : SendNow(k, n)
    BY <1>4, KeepaliveIsSend DEF HandleReady
  <2>2. UNCHANGED <<conn, built>> /\ AckGrows /\ SendState
    BY <1>4, AckIsGrowth DEF HandleReady, threadVars, SendState
  <2> QED
    BY <2>1, <2>2, QuietSend
<1>5. ASSUME NEW k \in Clients, NEW a \in Acks(k),
             Acknowledge(k, a), HandleLateControl(k)
      PROVE  Numbering'
  <2>1. UNCHANGED <<conn, built, outSeq, wire>> /\ AckGrows /\ SendState
    BY <1>5, AckIsGrowth DEF HandleLateControl, threadVars, SendState
  <2> QED
    BY <2>1, NoSend
<1>6. ASSUME NEW k \in Clients, NEW a \in Acks(k),
             Acknowledge(k, a), HandleGameBunch(k)
      PROVE  Numbering'
  <2>1. UNCHANGED <<conn, built, outSeq, wire>> /\ AckGrows /\ SendState
    BY <1>6, AckIsGrowth DEF HandleGameBunch, SendState
  <2> QED
    BY <2>1, NoSend
<1>7. ASSUME NEW k \in Clients, TimeOut(k) PROVE Numbering'
  <2>1. UNCHANGED <<conn, built, outSeq, wire>> /\ AckGrows /\ SendState
    BY <1>7, NoAckGrows DEF TimeOut, threadVars, SendState
  <2> QED
    BY <2>1, NoSend
<1>8. ASSUME NEW k \in Clients, PeriodicKeepalive(k) PROVE Numbering'
  <2>1. PICK n \in Nat : SendNow(k, n)
    BY <1>8, KeepaliveIsSend DEF PeriodicKeepalive
  <2>2. UNCHANGED <<conn, built>> /\ AckGrows /\ SendState
    BY <1>8, NoAckGrows DEF PeriodicKeepalive, threadVars, SendState
  <2> QED
    BY <2>1, <2>2, QuietSend
<1>9. CASE Launch
  <2>1. UNCHANGED <<conn, built, outSeq, wire>> /\ AckGrows /\ SendState
    BY <1>9, NoAckGrows DEF Launch, clientVars, SendState
  <2> QED
    BY <2>1, NoSend
<1>10. CASE WaitCheck
  <2>1. UNCHANGED <<conn, built, outSeq, wire>> /\ AckGrows /\ SendState
    BY <1>10, NoAckGrows DEF WaitCheck, MoveTo, Goto, clientVars, SendState
  <2> QED
    BY <2>1, NoSend
<1>11. CASE WaitRound
  <2>1. UNCHANGED <<conn, built>> /\ AckGrows /\ SendState
    BY <1>11, NoAckGrows DEF WaitRound, MoveTo, Goto, clientVars, SendState
  <2>2. CASE Connected
    <3>1. PICK n \in Nat : SendNow(Here, n)
      BY <1>11, <2>2, HereIsClient, KeepaliveIsSend DEF WaitRound
    <3> QED
      BY <2>1, <3>1, HereIsClient, QuietSend
  <2>3. CASE ~Connected
    BY <1>11, <2>1, <2>3, NoSend DEF WaitRound, MoveTo, clientVars
  <2> QED
    BY <2>2, <2>3
<1>12. CASE WaitOver
  <2>1. UNCHANGED <<conn, built, outSeq, wire>> /\ AckGrows /\ SendState
    BY <1>12, NoAckGrows DEF WaitOver, clientVars, SendState
  <2> QED
    BY <2>1, NoSend
<1>13. CASE NextPacket
  <2>1. UNCHANGED <<conn, built, outSeq, wire>> /\ AckGrows /\ SendState
    BY <1>13, NoAckGrows DEF NextPacket, MoveTo, Goto, Finish, clientVars, SendState
  <2> QED
    BY <2>1, NoSend
<1>14. CASE Stall
  <2>1. UNCHANGED <<conn, built, outSeq, wire>> /\ AckGrows /\ SendState
    BY <1>14, NoAckGrows DEF Stall, Finish, clientVars, SendState
  <2> QED
    BY <2>1, NoSend
<1>15. CASE Window
  <2>1. UNCHANGED <<conn, built, outSeq, wire>> /\ AckGrows /\ SendState
    BY <1>15, NoAckGrows DEF Window, MoveTo, Goto, Finish, clientVars, SendState
  <2> QED
    BY <2>1, NoSend
<1>16. CASE Full
  <2>1. UNCHANGED <<conn, built>> /\ AckGrows /\ SendState
    BY <1>16, NoAckGrows DEF Full, MayKeepAlive, Goto, SendState
  <2>2. CASE SendKeepalive(Here)
    <3>1. PICK n \in Nat : SendNow(Here, n)
      BY <2>2, HereIsClient, KeepaliveIsSend
    <3> QED
      BY <2>1, <3>1, HereIsClient, QuietSend
  <2>3. CASE UNCHANGED <<outSeq, wire>>
    BY <2>1, <2>3, NoSend
  <2> QED
    BY <1>16, <2>2, <2>3 DEF Full, MayKeepAlive
<1>17. CASE Tier
  <2>1. UNCHANGED <<conn, built, outSeq, wire>> /\ AckGrows /\ SendState
    BY <1>17, NoAckGrows DEF Tier, MoveTo, Goto, Finish, clientVars, SendState
  <2> QED
    BY <2>1, NoSend
<1>18. CASE Slow
  <2>1. UNCHANGED <<conn, built>> /\ AckGrows /\ SendState
    BY <1>18, NoAckGrows DEF Slow, MayKeepAlive, Goto, SendState
  <2>2. CASE SendKeepalive(Here)
    <3>1. PICK n \in Nat : SendNow(Here, n)
      BY <2>2, HereIsClient, KeepaliveIsSend
    <3> QED
      BY <2>1, <3>1, HereIsClient, QuietSend
  <2>3. CASE UNCHANGED <<outSeq, wire>>
    BY <2>1, <2>3, NoSend
  <2> QED
    BY <1>18, <2>2, <2>3 DEF Slow, MayKeepAlive
<1>19. CASE Generate
  <2>1. UNCHANGED <<conn, built>> /\ AckGrows /\ SendState
    BY <1>19, NoAckGrows DEF Generate, Goto, SendState
  <2>2. PICK n \in Nat : SendNow(Here, n)
    BY <1>19, ConstantsNat DEF Generate
  <2> QED
    BY <2>1, <2>2, HereIsClient, QuietSend
<1>20. CASE Build
  <2>1. rep # "send" /\ UNCHANGED <<conn, outAck, acked, wire>>
    BY <1>20, BuildEffect
  <2>2. CASE rep' # "send"
    <3>1. UNCHANGED <<built, outSeq>> /\ SendState
      BY <1>20, <2>1, <2>2, BuildEffect DEF SendState
    <3> QED
      BY <2>1, <3>1, NoAckGrows, NoSend
  <2>3. CASE rep' = "send"
    <3>1. /\ Here \in Clients /\ built'.client = Here /\ built'.conn = conn[Here]
          /\ built'.seq = outSeq[Here]
          /\ outSeq'[Here] = outSeq[Here] + 1
          /\ \A j \in Clients \ {Here} : outSeq'[j] = outSeq[j]
      BY <1>20, <2>3, BuildEffect, HereIsClient
    <3>2. \A j \in Clients : ~Pending(j) /\ (Pending(j)' <=> j = Here)
      BY <2>1, <2>3, <3>1 DEF Pending
    <3> SUFFICES ASSUME NEW j \in Clients
                 PROVE  /\ wire[j] = outSeq'[j] - (IF j = Here THEN 2 ELSE 1)
                        /\ j = Here => wire[j] < outSeq[j] /\ outSeq[j] <= wire[j] + 1
      BY <2>1, <3>1, <3>2 DEF Numbering, Waits
    <3>3. wire[j] = outSeq[j] - 1 /\ outSeq[j] \in Nat
      BY <3>2 DEF Numbering, Waits, Types
    <3> QED
      BY <3>1, <3>3
  <2> QED
    BY <2>2, <2>3
<1>21. CASE Send
  <2>1. built.client \in Clients /\ built.seq \in Nat
    BY DEF Types
  <2>2. /\ rep = "send" /\ rep' # "send" /\ UNCHANGED <<conn, outSeq, outAck, acked>>
        /\ wire' = [wire EXCEPT ![built.client] =
                      IF Waits(built.client) THEN built.seq ELSE wire[built.client]]
    BY <1>21 DEF Send, Types, Pending, Waits
  <2>3. \A j \in Clients : /\ ~Waits(j)'
                           /\ wire'[j] = IF Waits(j) THEN built.seq ELSE wire[j]
    BY <2>1, <2>2 DEF Pending, Waits, Types
  <2>4. \A j \in Clients : ~Pending(j)'
    BY <2>2 DEF Pending
  <2> SUFFICES ASSUME NEW j \in Clients
               PROVE  wire'[j] = outSeq[j] - 1 /\ acked[j] <= wire'[j]
    BY <2>2, <2>3, <2>4 DEF Numbering
  <2>5. outSeq[j] \in Nat /\ wire[j] \in Nat /\ acked[j] \in Nat
    BY DEF Types
  <2> QED
    BY <2>1, <2>3, <2>5 DEF Numbering, Waits
<1>22. CASE PostReplay
  <2>1. UNCHANGED <<conn, built>> /\ AckGrows /\ SendState
    BY <1>22, NoAckGrows DEF PostReplay, MoveTo, Goto, clientVars, threadVars,
       SendState
  <2>2. CASE Connected
    <3>1. PICK n \in Nat : SendNow(Here, n)
      BY <1>22, <2>2, HereIsClient, KeepaliveIsSend DEF PostReplay
    <3> QED
      BY <2>1, <3>1, HereIsClient, QuietSend
  <2>3. CASE ~Connected
    BY <1>22, <2>1, <2>3, NoSend DEF PostReplay, MoveTo, clientVars
  <2> QED
    BY <2>2, <2>3
<1>23. CASE UNCHANGED vars
  BY <1>23 DEF vars, clientVars, threadVars, Numbering, Pending, Waits
<1>24. ASSUME NEW k \in Clients, HandleInitRequest(k) PROVE Numbering'
  <2>1. SendNow(k, 1) /\ UNCHANGED <<conn, built>> /\ AckGrows /\ SendState
    BY <1>24, NoAckGrows DEF HandleInitRequest, SendState
  <2> QED
    BY <2>1, QuietSend
<1> QED
  BY <1>1, <1>2, <1>3, <1>4, <1>5, <1>6, <1>7, <1>8, <1>9, <1>10, <1>11,
     <1>12, <1>13, <1>14, <1>15, <1>16, <1>17, <1>18, <1>19, <1>20, <1>21,
     <1>22, <1>23, <1>24 DEF Next, Receive, HandleData, Replay

\* What is left of the number space.
LEMMA InFlightNat ==
    ASSUME Types, Numbering, NEW k \in Clients
    PROVE  InFlight(k) \in Nat /\ 0 < InFlight(k) /\ outSeq[k] \in Nat /\ acked[k] \in Nat
<1>1. outSeq[k] \in Nat /\ acked[k] \in Nat /\ wire[k] \in Nat
  BY DEF Types
<1>2. acked[k] <= wire[k] /\ wire[k] < outSeq[k]
  BY <1>1 DEF Numbering
<1> QED
  BY <1>1, <1>2 DEF InFlight

\* A step that numbers n packets of k, and no other, has used that much more.
LEMMA NarrowSend ==
    ASSUME Types, Numbering, Narrow, AckGrows, NEW k \in Clients, NEW n \in Nat,
           outSeq'[k] = outSeq[k] + n,
           \A j \in Clients \ {k} : outSeq'[j] = outSeq[j],
           \A j \in Clients : nmtState'[j] = 0 => nmtState[j] = 0,
           n # 0 => InFlight(k) + n + MaxLate <= HalfSpace,
           n # 0 /\ nmtState'[k] = 0 => InFlight(k) + n <= MaxUnacked
    PROVE  Narrow'
<1> SUFFICES ASSUME NEW j \in Clients
             PROVE  /\ InFlight(j)' + MaxLate <= HalfSpace
                    /\ nmtState'[j] = 0 => InFlight(j)' <= MaxUnacked
  BY DEF Narrow
<1>1. /\ InFlight(j) \in Nat /\ outSeq[j] \in Nat /\ acked[j] \in Nat
      /\ acked'[j] \in Nat /\ acked[j] <= acked'[j]
  BY InFlightNat, AckOrder
<1>2. InFlight(j)' <= InFlight(j) + (IF j = k THEN n ELSE 0) /\ InFlight(j)' \in Int
  BY <1>1 DEF InFlight
<1>3. HalfSpace \in Nat
  BY DEF HalfSpace
<1>4. InFlight(j) + MaxLate <= HalfSpace /\ (nmtState[j] = 0 => InFlight(j) <= MaxUnacked)
  BY DEF Narrow
<1>5. CASE j = k /\ n # 0
  BY <1>1, <1>2, <1>3, <1>5, ConstantsNat
<1>6. CASE j # k \/ n = 0
  BY <1>1, <1>2, <1>3, <1>4, <1>6, ConstantsNat
<1> QED
  BY <1>5, <1>6

\* A step that numbers nothing.
LEMMA NarrowKept ==
    ASSUME Types, Numbering, Narrow, AckGrows, UNCHANGED outSeq,
           \A j \in Clients : nmtState'[j] = 0 => nmtState[j] = 0
    PROVE  Narrow'
<1>1. CASE Clients = {}
  BY <1>1 DEF Narrow
<1>2. CASE Clients # {}
  <2>1. PICK k \in Clients : TRUE
    BY <1>2
  <2>2. outSeq'[k] = outSeq[k] + 0
    BY InFlightNat
  <2> QED
    BY <2>2, NarrowSend
<1> QED
  BY <1>1, <1>2

\* A keepalive is not sent to a client that acknowledges nothing.
LEMMA NarrowKeepalive ==
    ASSUME Types, Numbering, Narrow, AckGrows, NEW k \in Clients, SendKeepalive(k),
           \A j \in Clients : nmtState'[j] = 0 => nmtState[j] = 0
    PROVE  Narrow'
<1>1. PICK n \in {0, 1} : SendNow(k, n) /\ (n = 1 => InFlight(k) < MaxUnacked)
  BY KeepaliveIsSend
<1>2. outSeq'[k] = outSeq[k] + n /\ \A j \in Clients \ {k} : outSeq'[j] = outSeq[j]
  BY <1>1, SendEffect
<1>3. InFlight(k) \in Nat /\ HalfSpace \in Nat /\ n \in Nat
  BY InFlightNat DEF HalfSpace
<1>4. n # 0 => InFlight(k) + n <= MaxUnacked /\ InFlight(k) + n + MaxLate <= HalfSpace
  BY <1>1, <1>3, ConstantsNat
<1> QED
  BY <1>2, <1>3, <1>4, NarrowSend

\* The exchange sends two packets on top of the keepalives, the replay what its
\* window leaves room for.
LEMMA NarrowNext ==
    Types /\ Control /\ Numbering /\ Narrow /\ Room /\ [Next]_vars => Narrow'
<1> SUFFICES ASSUME Types, Control, Numbering, Narrow, Room, [Next]_vars PROVE Narrow'
  OBVIOUS
<1> DEFINE SameExchange == \A j \in Clients : nmtState'[j] = 0 => nmtState[j] = 0
<1>0. nmtState' = nmtState => SameExchange
  OBVIOUS
<1>1. ASSUME NEW k \in Clients, HandleInitial(k) PROVE Narrow'
  BY <1>1, NoAckGrows, NarrowKept DEF HandleInitial
<1>2. ASSUME NEW k \in Clients, HandleResponse(k) PROVE Narrow'
  <2>1. InFlight(k)' = 1 /\ 1 <= MaxUnacked /\ 1 + MaxLate <= HalfSpace
    BY <1>2, ResponseEffect, ConstantsNat DEF InFlight, HalfSpace
  <2>2. \A j \in Clients \ {k} : InFlight(j)' = InFlight(j) /\ nmtState'[j] = nmtState[j]
    BY <1>2, ResponseEffect DEF InFlight
  <2> QED
    BY <2>1, <2>2 DEF Narrow
<1>3. ASSUME NEW k \in Clients, NEW a \in Acks(k),
             Acknowledge(k, a), HandleLogin(k)
      PROVE  Narrow'
  <2>1. SendNow(k, 2) /\ AckGrows
    BY <1>3, AckIsGrowth DEF HandleLogin
  <2>2. outSeq'[k] = outSeq[k] + 2 /\ \A j \in Clients \ {k} : outSeq'[j] = outSeq[j]
    BY <2>1, SendEffect
  <2>3. nmtState[k] = 0 /\ nmtState'[k] = 2 /\ SameExchange
    BY <1>3 DEF HandleLogin, Types
  <2>4. InFlight(k) + 2 + MaxLate <= HalfSpace
    BY <2>3, InFlightNat, ConstantsNat DEF Narrow, HalfSpace
  <2> QED
    BY <2>1, <2>2, <2>3, <2>4, NarrowSend
<1>4. ASSUME NEW k \in Clients, NEW a \in Acks(k),
             Acknowledge(k, a), HandleReady(k)
      PROVE  Narrow'
  <2>1. SendKeepalive(k) /\ SameExchange
    BY <1>4 DEF HandleReady, Types
  <2> QED
    BY <1>4, <2>1, AckIsGrowth, NarrowKeepalive
<1>5. ASSUME NEW k \in Clients, NEW a \in Acks(k),
             Acknowledge(k, a), HandleLateControl(k)
      PROVE  Narrow'
  BY <1>5, AckIsGrowth, NarrowKept DEF HandleLateControl
<1>6. ASSUME NEW k \in Clients, NEW a \in Acks(k),
             Acknowledge(k, a), HandleGameBunch(k)
      PROVE  Narrow'
  BY <1>6, AckIsGrowth, NarrowKept DEF HandleGameBunch
<1>7. ASSUME NEW k \in Clients, TimeOut(k) PROVE Narrow'
  BY <1>7, NoAckGrows, NarrowKept DEF TimeOut
<1>8. ASSUME NEW k \in Clients, PeriodicKeepalive(k) PROVE Narrow'
  BY <1>0, <1>8, NoAckGrows, NarrowKeepalive DEF PeriodicKeepalive
<1>9. CASE Launch
  BY <1>9, NoAckGrows, NarrowKept DEF Launch, clientVars
<1>10. CASE WaitCheck
  BY <1>10, NoAckGrows, NarrowKept DEF WaitCheck, MoveTo, clientVars
<1>11. CASE WaitRound
  BY <1>0, <1>11, NoAckGrows, NarrowKept, NarrowKeepalive, HereIsClient
     DEF WaitRound, MoveTo, clientVars
<1>12. CASE WaitOver
  BY <1>12, NoAckGrows, NarrowKept DEF WaitOver, clientVars
<1>13. CASE NextPacket
  BY <1>13, NoAckGrows, NarrowKept DEF NextPacket, MoveTo, Finish, clientVars
<1>14. CASE Stall
  BY <1>14, NoAckGrows, NarrowKept DEF Stall, Finish, clientVars
<1>15. CASE Window
  BY <1>15, NoAckGrows, NarrowKept DEF Window, MoveTo, Finish, clientVars
<1>16. CASE Full
  BY <1>0, <1>16, NoAckGrows, NarrowKept, NarrowKeepalive, HereIsClient
     DEF Full, MayKeepAlive
<1>17. CASE Tier
  BY <1>17, NoAckGrows, NarrowKept DEF Tier, MoveTo, Finish, clientVars
<1>18. CASE Slow
  BY <1>0, <1>18, NoAckGrows, NarrowKept, NarrowKeepalive, HereIsClient
     DEF Slow, MayKeepAlive
<1>19. CASE Generate
  <2>1. AckGrows /\ rep = "generate" /\ joining = {} /\ UNCHANGED nmtState
    BY <1>19, NoAckGrows DEF Generate, Locked
  <2>2. PICK m \in 0..Generators : SendNow(Here, IF Connected THEN m ELSE 0)
    BY <1>19 DEF Generate
  <2>3. CASE Connected
    <3>1. m \in Nat /\ m <= Generators
      BY ConstantsNat
    <3>2. /\ outSeq'[Here] = outSeq[Here] + m
          /\ \A j \in Clients \ {Here} : outSeq'[j] = outSeq[j]
      BY <2>2, <2>3, <3>1, SendEffect, HereIsClient
    <3>3. InFlight(Here) <= MaxWindow + MaxUnacked /\ nmtState'[Here] = 4
      BY <2>1, <2>3, HereIsClient DEF Room, Uncounted, Control, Connected
    <3>4. InFlight(Here) + m + MaxLate <= HalfSpace
      BY <3>1, <3>3, InFlightNat, HereIsClient, ConstantsNat DEF HalfSpace
    <3> QED
      BY <2>1, <3>1, <3>2, <3>3, <3>4, HereIsClient, NarrowSend
  <2>4. CASE ~Connected
    <3>1. SendNow(Here, 0)
      BY <2>2, <2>4
    <3>2. /\ outSeq'[Here] = outSeq[Here] + 0
          /\ \A j \in Clients \ {Here} : outSeq'[j] = outSeq[j]
      BY <3>1, SendEffect, HereIsClient
    <3> QED
      BY <2>1, <3>2, HereIsClient, NarrowSend
  <2> QED
    BY <2>3, <2>4
<1>20. CASE Build
  <2>1. AckGrows /\ rep = "build" /\ joining = {} /\ UNCHANGED nmtState
    BY <1>20, BuildEffect, NoAckGrows
  <2>2. CASE UNCHANGED outSeq
    BY <2>1, <2>2, NarrowKept
  <2>3. CASE outSeq' # outSeq
    <3>1. /\ Connected /\ Here \in Clients /\ outSeq'[Here] = outSeq[Here] + 1
          /\ \A j \in Clients \ {Here} : outSeq'[j] = outSeq[j]
      BY <1>20, <2>3, BuildEffect, HereIsClient
    <3>2. /\ InFlight(Here) <= MaxWindow + MaxUnacked + Generators
          /\ nmtState'[Here] = 4
      BY <2>1, <3>1 DEF Room, Uncounted, Control, Connected
    <3>3. InFlight(Here) + 1 + MaxLate <= HalfSpace
      BY <3>1, <3>2, InFlightNat, ConstantsNat DEF HalfSpace
    <3> QED
      BY <2>1, <3>1, <3>2, <3>3, NarrowSend
  <2> QED
    BY <2>2, <2>3
<1>21. CASE Send
  BY <1>21, NoAckGrows, NarrowKept DEF Send
<1>22. CASE PostReplay
  BY <1>0, <1>22, NoAckGrows, NarrowKept, NarrowKeepalive, HereIsClient
     DEF PostReplay, MoveTo, clientVars
<1>23. CASE UNCHANGED vars
  BY <1>23, NoAckGrows, NarrowKept DEF vars, clientVars
<1>24. ASSUME NEW k \in Clients, HandleInitRequest(k) PROVE Narrow'
  <2>1. SendKeepalive(k) /\ SameExchange
    BY <1>24 DEF HandleInitRequest, SendKeepalive
  <2> QED
    BY <1>24, <2>1, NoAckGrows, NarrowKeepalive DEF HandleInitRequest
<1> QED
  BY <1>1, <1>2, <1>3, <1>4, <1>5, <1>6, <1>7, <1>8, <1>9, <1>10, <1>11,
     <1>12, <1>13, <1>14, <1>15, <1>16, <1>17, <1>18, <1>19, <1>20, <1>21,
     <1>22, <1>23, <1>24 DEF Next, Receive, HandleData, Replay

-----------------------------------------------------------------------------
(* The window, read from 14 bits.                                          *)

\* Two numbers at most half the space apart: the distance of their 14 bits is
\* that of the numbers, wherever the numbering began.
LEMMA WrappedDistance ==
    ASSUME NEW f \in Nat, NEW n \in Nat, NEW m \in Nat, m <= n, n - m <= HalfSpace
    PROVE  Distance((f + n) % SeqSpace, (f + m) % SeqSpace) = n - m
<1> DEFINE x == f + n
           y == f + m
           d == ((x % SeqSpace) - (y % SeqSpace)) % SeqSpace
<1>1. x \in Nat /\ y \in Nat /\ x - y = n - m /\ 0 <= x - y /\ x - y <= 8192
  BY DEF HalfSpace
<1> HIDE DEF x, y
<1>2. d = x - y
  BY <1>1, SMTT(60) DEF SeqSpace
<1>3. Distance(x % SeqSpace, y % SeqSpace) = x - y
  BY <1>1, <1>2 DEF Distance, HalfSpace
<1> QED
  BY <1>1, <1>3 DEF x, y

\* So the window check sees how far the numbers are apart, which is no less
\* than what the client is missing.
LEMMA TrueDistance ==
    ASSUME Types, Numbering, Narrow, NEW k \in Clients
    PROVE  /\ Ahead(k) = outSeq[k] - outAck[k]
           /\ Ahead(k) \in Nat /\ InFlight(k) <= Ahead(k)
<1>1. outSeq[k] \in Nat /\ outAck[k] \in Nat /\ acked[k] \in Nat /\ InFlight(k) \in Nat
  BY InFlightNat DEF Types
<1>2. /\ outAck[k] <= acked[k] /\ acked[k] <= outAck[k] + MaxLate
      /\ InFlight(k) + MaxLate <= HalfSpace
  BY DEF Numbering, Narrow
<1>3. outAck[k] <= outSeq[k] /\ outSeq[k] - outAck[k] <= HalfSpace
  BY <1>1, <1>2, ConstantsNat DEF InFlight, HalfSpace
<1>4. conn[k] \in 0..MaxConnections
  BY DEF Types
<1>5. FirstSeq[k][conn[k]] \in 0..SeqSpace-1
  BY <1>4, ReplayAssumption
<1>6. FirstSeq[k][conn[k]] \in Nat
  <2>1. \A n : n \in 0..SeqSpace-1 => n \in Nat
    BY DEF SeqSpace
  <2> QED
    BY <1>5, <2>1
<1>7. Ahead(k) = outSeq[k] - outAck[k]
  BY <1>1, <1>3, <1>6, WrappedDistance DEF Ahead, Bits
<1> QED
  BY <1>1, <1>2, <1>3, <1>7 DEF InFlight

\* How much the replay's client is missing is a number.
LEMMA HereInFlight ==
    ASSUME Types, Numbering
    PROVE  /\ Here \in Clients /\ outSeq[Here] \in Nat /\ acked[Here] \in Nat
           /\ InFlight(Here) = outSeq[Here] - acked[Here] /\ InFlight(Here) \in Nat
  BY HereIsClient, InFlightNat DEF InFlight

-----------------------------------------------------------------------------

\* A step that sends nothing to the connected client of the replay.
LEMMA RoomKept ==
    ASSUME Types, Numbering, Room, UNCHANGED <<rep, target, built, conn, answers>>,
           AckGrows,
           (joining = {} /\ Connected)' /\ rep \in Replaying =>
             joining = {} /\ Connected /\ outSeq'[Here] = outSeq[Here]
    PROVE  Room'
<1>1. Here' = Here /\ acked'[Here] \in Nat /\ acked[Here] <= acked'[Here]
  BY HereIsClient, AckOrder DEF Here
<1>2. outSeq'[Here] = outSeq[Here] =>
         InFlight(Here)' <= InFlight(Here) /\ InFlight(Here)' \in Int
  BY <1>1, HereInFlight DEF InFlight
<1>3. (joining = {} /\ Connected)' /\ rep \in Replaying =>
         InFlight(Here)' <= InFlight(Here) /\ InFlight(Here)' \in Int
  BY <1>2
<1>4. ASSUME (joining = {} /\ Connected)'
      PROVE  Counted' /\ Uncounted'
  <2>1. answers \in Nat
    BY DEF Types
  <2>2. rep \in Replaying => Counted /\ Uncounted
    BY <1>4 DEF Room
  <2> QED
    BY <1>3, <1>4, <2>1, <2>2, HereInFlight, ConstantsNat
       DEF Counted, Uncounted, Replaying
<1>5. WindowBound'
  <2>1. /\ built.client \in Clients /\ built.seq \in Nat
        /\ acked[built.client] \in Nat /\ acked'[built.client] \in Nat
        /\ acked[built.client] <= acked'[built.client]
    BY AckOrder DEF Types
  <2> QED
    BY <2>1, ConstantsNat DEF Room, WindowBound, Types
<1> QED
  BY <1>1, <1>4, <1>5 DEF Room

\* Between the check and the build only the replay thread sends to its client,
\* but for the answers.
LEMMA RoomNext ==
    Types /\ Control /\ Quiescent /\ Numbering /\ Narrow /\ Room /\ [Next]_vars => Room'
<1> SUFFICES ASSUME Types, Control, Quiescent, Numbering, Narrow, Room, [Next]_vars
             PROVE  Room'
  OBVIOUS
<1>1. ASSUME NEW k \in Clients, HandleInitial(k) PROVE Room'
  <2>1. UNCHANGED <<rep, target, built, answers, conn, outSeq, joining>> /\ AckGrows
    BY <1>1, NoAckGrows DEF HandleInitial, threadVars
  <2>2. Connected' => Connected
    BY <1>1, <2>1 DEF HandleInitial, Connected, Here
  <2> QED
    BY <2>1, <2>2, RoomKept
<1>2. ASSUME NEW k \in Clients, HandleResponse(k) PROVE Room'
  <2>1. UNCHANGED <<rep, target, built, joining, answers>> /\ Here' = Here
    BY <1>2, ResponseEffect DEF Here
  <2>2. WindowBound'
    <3>1. CASE built.client = k
      <4>1. rep = "send" => built.conn <= conn[k] /\ built.conn \in Nat
        BY <3>1 DEF Quiescent, Types
      <4>2. conn'[k] = conn[k] + 1 /\ conn[k] \in Nat
        BY <1>2, ResponseEffect, ConnNat
      <4> QED
        BY <2>1, <3>1, <4>1, <4>2 DEF WindowBound
    <3>2. CASE built.client # k
      <4>1. built.client \in Clients
        BY DEF Types
      <4>2. /\ conn'[built.client] = conn[built.client]
            /\ acked'[built.client] = acked[built.client]
        BY <1>2, <3>2, <4>1, ResponseEffect
      <4> QED
        BY <2>1, <4>2 DEF Room, WindowBound
    <3> QED
      BY <3>1, <3>2
  <2>3. CASE Here = k
    <3>1. ~Connected'
      BY <1>2, <2>1, <2>3, ResponseEffect DEF Connected
    <3> QED
      BY <2>1, <2>2, <3>1 DEF Room
  <2>4. CASE Here # k
    <3>1. Connected' = Connected /\ InFlight(Here)' = InFlight(Here)
      BY <1>2, <2>1, <2>4, HereIsClient, ResponseEffect DEF Connected, InFlight
    <3> QED
      BY <2>1, <2>2, <3>1 DEF Room, Counted, Uncounted
  <2> QED
    BY <2>3, <2>4
<1>3. ASSUME NEW k \in Clients, NEW a \in Acks(k),
             Acknowledge(k, a), HandleLogin(k)
      PROVE  Room'
  <2>1. UNCHANGED <<rep, target, built, answers, conn, phase, joining>> /\ AckGrows
    BY <1>3, AckIsGrowth DEF HandleLogin, threadVars
  <2>2. Connected => k # Here
    BY <1>3 DEF HandleLogin, Control, Connected
  <2>3. k # Here => outSeq'[Here] = outSeq[Here]
    BY <1>3, SendEffect, HereIsClient DEF HandleLogin
  <2> QED
    BY <2>1, <2>2, <2>3, RoomKept DEF Connected, Here
<1>4. ASSUME NEW k \in Clients, NEW a \in Acks(k),
             Acknowledge(k, a), HandleReady(k)
      PROVE  Room'
  <2>1. UNCHANGED <<rep, target, built, answers, conn>> /\ AckGrows /\ joining' # {}
    BY <1>4, AckIsGrowth DEF HandleReady, threadVars
  <2> QED
    BY <2>1, RoomKept
<1>5. ASSUME NEW k \in Clients, NEW a \in Acks(k),
             Acknowledge(k, a), HandleLateControl(k)
      PROVE  Room'
  <2>1. /\ UNCHANGED <<rep, target, built, answers, conn, outSeq, phase, joining>>
        /\ AckGrows
    BY <1>5, AckIsGrowth DEF HandleLateControl, threadVars
  <2> QED
    BY <2>1, RoomKept DEF Connected, Here
<1>6. ASSUME NEW k \in Clients, NEW a \in Acks(k),
             Acknowledge(k, a), HandleGameBunch(k)
      PROVE  Room'
  <2>1. /\ UNCHANGED <<rep, target, built, answers, conn, outSeq, phase, joining>>
        /\ AckGrows
    BY <1>6, AckIsGrowth DEF HandleGameBunch, threadVars
  <2> QED
    BY <2>1, RoomKept DEF Connected, Here
<1>7. ASSUME NEW k \in Clients, TimeOut(k) PROVE Room'
  <2>1. UNCHANGED <<rep, target, built, answers, conn, outSeq, joining>> /\ AckGrows
    BY <1>7, NoAckGrows DEF TimeOut, threadVars
  <2>2. Connected' => Connected
    BY <1>7, <2>1 DEF TimeOut, Connected, Here
  <2> QED
    BY <2>1, <2>2, RoomKept
<1>8. ASSUME NEW k \in Clients, PeriodicKeepalive(k) PROVE Room'
  <2>1. UNCHANGED <<rep, target, built, answers, conn, phase, joining>> /\ AckGrows
    BY <1>8, NoAckGrows DEF PeriodicKeepalive, threadVars
  <2>2. rep \in Replaying /\ joining = {} /\ Connected => k # Here
    BY <1>8 DEF PeriodicKeepalive, Control, Connected
  <2>3. k # Here => outSeq'[Here] = outSeq[Here]
    <3>1. PICK n \in Nat : SendNow(k, n)
      BY <1>8, KeepaliveIsSend DEF PeriodicKeepalive
    <3> QED
      BY <3>1, SendEffect, HereIsClient
  <2> QED
    BY <2>1, <2>2, <2>3, RoomKept DEF Connected, Here, Replaying
<1>9. CASE Launch
  <2>1. rep' \notin {"tier", "slow", "generate", "build", "send"}
    BY <1>9 DEF Launch, clientVars
  <2> QED
    BY <2>1 DEF Room, Counted, Uncounted, WindowBound
<1>10. CASE WaitCheck
  <2>1. rep' \notin {"tier", "slow", "generate", "build", "send"}
    BY <1>10 DEF WaitCheck, MoveTo, Goto
  <2> QED
    BY <2>1 DEF Room, Counted, Uncounted, WindowBound
<1>11. CASE WaitRound
  <2>1. rep' \notin {"tier", "slow", "generate", "build", "send"}
    BY <1>11 DEF WaitRound, MoveTo, Goto
  <2> QED
    BY <2>1 DEF Room, Counted, Uncounted, WindowBound
<1>12. CASE WaitOver
  <2>1. rep' \notin {"tier", "slow", "generate", "build", "send"}
    BY <1>12 DEF WaitOver, clientVars
  <2> QED
    BY <2>1 DEF Room, Counted, Uncounted, WindowBound
<1>13. CASE NextPacket
  <2>1. rep' \notin {"tier", "slow", "generate", "build", "send"}
    BY <1>13 DEF NextPacket, MoveTo, Goto, Finish
  <2> QED
    BY <2>1 DEF Room, Counted, Uncounted, WindowBound
<1>14. CASE Stall
  <2>1. rep' \notin {"tier", "slow", "generate", "build", "send"}
    BY <1>14 DEF Stall, Finish
  <2> QED
    BY <2>1 DEF Room, Counted, Uncounted, WindowBound
<1>15. CASE Window
  <2>1. /\ rep' \in {"post", "full", "tier"}
        /\ rep' = "tier" => UNCHANGED <<clientVars, joining, target>>
    BY <1>15 DEF Window, MoveTo, Goto, Finish
  <2>2. rep' = "tier" /\ joining = {} => InFlight(Here) < MaxWindow
    <3>1. InFlight(Here) <= Ahead(Here) /\ Ahead(Here) \in Nat /\ InFlight(Here) \in Nat
      BY TrueDistance, HereInFlight
    <3>2. rep' = "tier" /\ joining = {} => ~(Ahead(Here) >= MaxWindow)
      BY <1>15 DEF Window, MoveTo, Goto, Finish, Control, Replaying
    <3> QED
      BY <3>1, <3>2, ConstantsNat
  <2>3. answers' \in Nat /\ (rep' = "tier" => answers' = answers)
    BY <1>15 DEF Window, MoveTo, Goto, Finish, Types
  <2>4. CASE rep' = "tier"
    <3>1. joining = {} => Counted' /\ Uncounted'
      BY <2>1, <2>2, <2>3, <2>4, HereInFlight, ConstantsNat
         DEF Counted, Uncounted, InFlight, Here, clientVars
    <3> QED
      BY <2>1, <2>4, <3>1 DEF Room, WindowBound
  <2>5. CASE rep' # "tier"
    BY <2>1, <2>5 DEF Room, Counted, Uncounted, WindowBound
  <2> QED
    BY <2>4, <2>5
<1>16. CASE Full
  <2>1. rep' \notin {"tier", "slow", "generate", "build", "send"}
    BY <1>16 DEF Full, MayKeepAlive, Goto
  <2> QED
    BY <2>1 DEF Room, Counted, Uncounted, WindowBound
<1>17. CASE Tier
  <2>1. /\ rep = "tier" /\ rep' \in {"post", "slow", "generate"}
        /\ UNCHANGED <<clientVars, joining, target>>
        /\ rep' # "post" => UNCHANGED answers
    BY <1>17 DEF Tier, MoveTo, Goto, Finish
  <2>2. InFlight(Here)' = InFlight(Here) /\ Connected' = Connected
    BY <2>1 DEF InFlight, Here, Connected, clientVars
  <2>3. Counted /\ Uncounted => Counted' /\ Uncounted'
    BY <2>1, <2>2, HereInFlight, ConstantsNat DEF Counted, Uncounted, Types
  <2> QED
    BY <2>1, <2>2, <2>3 DEF Room, WindowBound
<1>18. CASE Slow
  <2>1. /\ rep = "slow" /\ rep' = "generate"
        /\ UNCHANGED <<phase, acked, joining, target, answers>>
    BY <1>18 DEF Slow, MayKeepAlive, Goto
  <2>2. \/ outSeq'[Here] = outSeq[Here]
        \/ outSeq'[Here] = outSeq[Here] + 1 /\ InFlight(Here) < MaxUnacked
    <3>1. CASE SendKeepalive(Here)
      <4>1. PICK n \in {0, 1} : SendNow(Here, n) /\ (n = 1 => InFlight(Here) < MaxUnacked)
        BY <3>1, HereIsClient, KeepaliveIsSend
      <4>2. outSeq'[Here] = outSeq[Here] + n
        BY <4>1, HereIsClient, SendEffect
      <4> QED
        BY <4>1, <4>2, HereInFlight
    <3>2. CASE UNCHANGED <<outSeq, wire>>
      BY <3>2
    <3> QED
      BY <1>18, <3>1, <3>2 DEF Slow, MayKeepAlive
  <2>3. /\ InFlight(Here)' \in Nat
        /\ \/ InFlight(Here)' = InFlight(Here)
           \/ InFlight(Here)' = InFlight(Here) + 1 /\ InFlight(Here) < MaxUnacked
    BY <2>1, <2>2, HereInFlight DEF InFlight, Here
  <2>4. Counted /\ Uncounted => Counted' /\ Uncounted'
    BY <2>1, <2>3, HereInFlight, ConstantsNat DEF Counted, Uncounted, Types
  <2> QED
    BY <2>1, <2>4 DEF Room, WindowBound, Connected, Here
<1>19. CASE Generate
  <2>1. /\ rep = "generate" /\ rep' = "build"
        /\ UNCHANGED <<phase, acked, joining, target, answers>>
    BY <1>19 DEF Generate, MayKeepAlive, Goto
  <2>2. PICK n \in 0..Generators : outSeq'[Here] = outSeq[Here] + n
    <3>1. PICK n \in 0..Generators : SendNow(Here, IF Connected THEN n ELSE 0)
      BY <1>19 DEF Generate
    <3>2. (IF Connected THEN n ELSE 0) \in 0..Generators /\ (IF Connected THEN n ELSE 0) \in Nat
      BY ConstantsNat
    <3> QED
      BY <3>1, <3>2, HereIsClient, SendEffect
  <2>3. InFlight(Here)' <= InFlight(Here) + Generators /\ InFlight(Here)' \in Int
    BY <2>1, <2>2, HereInFlight, ConstantsNat DEF InFlight, Here
  <2>4. Counted /\ Uncounted => Counted' /\ Uncounted'
    BY <2>1, <2>3, HereInFlight, ConstantsNat DEF Counted, Uncounted, Types
  <2> QED
    BY <2>1, <2>4 DEF Room, WindowBound, Connected, Here
<1>20. CASE Build
  <2>1. rep' \in {"post", "loop", "send"}
    BY <1>20, BuildEffect
  <2>2. rep' = "send" => /\ built'.client = Here
                         /\ built'.seq - acked'[Here] <= MaxWindow + Generators + answers'
    <3>1. rep' = "send" => /\ Connected /\ joining = {} /\ rep = "build"
                           /\ built' = [client |-> Here, conn |-> conn[Here], seq |-> outSeq[Here]]
                           /\ acked' = acked /\ answers' = answers
      BY <1>20, BuildEffect
    <3> QED
      BY <3>1 DEF Room, Counted, InFlight
  <2> QED
    BY <2>1, <2>2 DEF Room, Counted, Uncounted, WindowBound
<1>21. CASE Send
  <2>1. rep' \notin {"tier", "slow", "generate", "build", "send"}
    BY <1>21 DEF Send, Goto
  <2> QED
    BY <2>1 DEF Room, Counted, Uncounted, WindowBound
<1>22. CASE PostReplay
  <2>1. rep' \notin {"tier", "slow", "generate", "build", "send"}
    BY <1>22 DEF PostReplay, MoveTo, Goto, threadVars
  <2> QED
    BY <2>1 DEF Room, Counted, Uncounted, WindowBound
<1>23. CASE UNCHANGED vars
  BY <1>23 DEF vars, clientVars, threadVars, Room, Counted, Uncounted, WindowBound,
     InFlight, Here, Connected
<1>24. ASSUME NEW k \in Clients, HandleInitRequest(k) PROVE Room'
  <2>1. UNCHANGED <<rep, target, built, conn, phase, joining>> /\ AckGrows
    BY <1>24, NoAckGrows DEF HandleInitRequest
  <2>2. SendNow(k, 1) /\ InFlight(k) < MaxUnacked /\ UNCHANGED acked
    BY <1>24 DEF HandleInitRequest, WithinBounds, InFlight
  <2>3. CASE k = Here /\ rep \in Pacing
    <3>1. outSeq'[Here] = outSeq[Here] + 1 /\ answers' = answers + 1
      BY <1>24, <2>2, <2>3, SendEffect DEF HandleInitRequest, Here
    <3>2. /\ InFlight(Here)' = InFlight(Here) + 1 /\ InFlight(Here) < MaxUnacked
          /\ InFlight(Here) \in Nat /\ answers \in Nat
      BY <2>1, <2>2, <2>3, <3>1, HereInFlight DEF InFlight, Here, Types
    <3>3. Counted /\ Uncounted => Counted' /\ Uncounted'
      BY <2>1, <3>1, <3>2, ConstantsNat DEF Counted, Uncounted
    <3>4. WindowBound'
      <4>1. built.seq \in Nat /\ acked[built.client] \in Nat
        BY DEF Types
      <4> QED
        BY <2>1, <2>2, <3>1, <3>2, <4>1, ConstantsNat DEF Room, WindowBound
    <3> QED
      BY <2>1, <3>3, <3>4 DEF Room, Connected, Here
  <2>4. CASE k # Here
    <3>1. outSeq'[Here] = outSeq[Here] /\ UNCHANGED answers
      BY <1>24, <2>2, <2>4, SendEffect, HereIsClient DEF HandleInitRequest, Here
    <3> QED
      BY <2>1, <3>1, RoomKept DEF Connected, Here
  <2>5. CASE rep \notin Pacing
    BY <2>1, <2>5 DEF Room, Counted, Uncounted, WindowBound, Pacing
  <2> QED
    BY <2>3, <2>4, <2>5
<1> QED
  BY <1>1, <1>2, <1>3, <1>4, <1>5, <1>6, <1>7, <1>8, <1>9, <1>10, <1>11,
     <1>12, <1>13, <1>14, <1>15, <1>16, <1>17, <1>18, <1>19, <1>20, <1>21,
     <1>22, <1>23, <1>24 DEF Next, Receive, HandleData, Replay

\* The flag goes up only under the lock, which a launch holds until its end.
LEMMA MapSignalNext == Types /\ MapSignal /\ [Next]_vars => MapSignal'
<1> SUFFICES ASSUME Types, MapSignal, [Next]_vars PROVE MapSignal'
  OBVIOUS
<1>1. ASSUME NEW k \in Clients, HandleInitial(k) PROVE MapSignal'
  BY <1>1 DEF HandleInitial, threadVars, MapSignal, MapLoadWaits
<1>2. ASSUME NEW k \in Clients, HandleResponse(k) PROVE MapSignal'
  BY <1>2 DEF HandleResponse, threadVars, MapSignal, MapLoadWaits
<1>3. ASSUME NEW k \in Clients, NEW a \in Acks(k),
             Acknowledge(k, a), HandleLogin(k)
      PROVE  MapSignal'
  BY <1>3 DEF HandleLogin, threadVars, MapSignal, MapLoadWaits
<1>4. ASSUME NEW k \in Clients, NEW a \in Acks(k),
             Acknowledge(k, a), HandleReady(k)
      PROVE  MapSignal'
  BY <1>4 DEF HandleReady, threadVars, MapSignal, MapLoadWaits
<1>5. ASSUME NEW k \in Clients, NEW a \in Acks(k),
             Acknowledge(k, a), HandleLateControl(k)
      PROVE  MapSignal'
  BY <1>5 DEF HandleLateControl, threadVars, MapSignal, MapLoadWaits
<1>6. ASSUME NEW k \in Clients, NEW a \in Acks(k),
             Acknowledge(k, a), HandleGameBunch(k)
      PROVE  MapSignal'
  BY <1>6 DEF HandleGameBunch, Acknowledge, MapSignal, MapLoadWaits, Locked
<1>7. ASSUME NEW k \in Clients, TimeOut(k) PROVE MapSignal'
  BY <1>7 DEF TimeOut, threadVars, MapSignal, MapLoadWaits
<1>8. ASSUME NEW k \in Clients, PeriodicKeepalive(k) PROVE MapSignal'
  BY <1>8 DEF PeriodicKeepalive, threadVars, MapSignal, MapLoadWaits
<1>9. CASE Launch
  BY <1>9 DEF Launch, MapSignal, MapLoadWaits
<1>10. CASE WaitCheck
  BY <1>10 DEF WaitCheck, MoveTo, Goto, MapSignal, MapLoadWaits
<1>11. CASE WaitRound
  BY <1>11 DEF WaitRound, MoveTo, Goto, MapSignal, MapLoadWaits, Replaying
<1>12. CASE WaitOver
  BY <1>12 DEF WaitOver, MapSignal, MapLoadWaits
<1>13. CASE NextPacket
  BY <1>13 DEF NextPacket, MoveTo, Goto, Finish, Types, MapSignal,
     MapLoadWaits
<1>14. CASE Stall
  BY <1>14 DEF Stall, Finish, Types, MapSignal, MapLoadWaits
<1>15. CASE Window
  BY <1>15 DEF Window, MoveTo, Goto, Finish, Types, MapSignal, MapLoadWaits
<1>16. CASE Full
  BY <1>16 DEF Full, MayKeepAlive, Goto, Types, MapSignal, MapLoadWaits
<1>17. CASE Tier
  BY <1>17 DEF Tier, MoveTo, Goto, Finish, Types, MapSignal, MapLoadWaits
<1>18. CASE Slow
  BY <1>18 DEF Slow, MayKeepAlive, Goto, Types, MapSignal, MapLoadWaits
<1>19. CASE Generate
  BY <1>19 DEF Generate, Goto, Types, MapSignal, MapLoadWaits
<1>20. CASE Build
  BY <1>20 DEF Build, Finish, Types, MapSignal, MapLoadWaits
<1>21. CASE Send
  BY <1>21 DEF Send, Types, MapSignal, MapLoadWaits
<1>22. CASE PostReplay
  BY <1>22 DEF PostReplay, MoveTo, Goto, threadVars, MapSignal, MapLoadWaits,
     Replaying
<1>23. CASE UNCHANGED vars
  BY <1>23 DEF vars, threadVars, MapSignal, MapLoadWaits
<1>24. ASSUME NEW k \in Clients, HandleInitRequest(k) PROVE MapSignal'
  BY <1>24 DEF HandleInitRequest, MapSignal, MapLoadWaits
<1> QED
  BY <1>1, <1>2, <1>3, <1>4, <1>5, <1>6, <1>7, <1>8, <1>9, <1>10, <1>11,
     <1>12, <1>13, <1>14, <1>15, <1>16, <1>17, <1>18, <1>19, <1>20, <1>21,
     <1>22, <1>23, <1>24 DEF Next, Receive, HandleData, Replay

-----------------------------------------------------------------------------

\* The invariant holds at the start, is kept by every step, and so always holds.
LEMMA InitReplayInv == Init => ReplayInv
<1> SUFFICES ASSUME Init PROVE ReplayInv
  OBVIOUS
<1>1. Types
  <2>1. target \in Connections
    BY ZeroLeft DEF Init, Connections
  <2>2. NoPacket \in [client : Clients, conn : 0..MaxConnections, seq : Nat]
    BY <2>1, ZeroLeft DEF NoPacket, Connections
  <2> QED
    BY <2>1, <2>2, ZeroLeft DEF Init, Types, Phases
<1>2. Control /\ Owned /\ Quiescent
  BY DEF Init, Control, Owned, OwnConnection, Quiescent, Replaying
<1>3. Numbering /\ Narrow
  BY ConstantsNat DEF Init, Numbering, Narrow, Pending, Waits, InFlight, HalfSpace
<1>4. Room /\ MapSignal
  BY DEF Init, Room, Counted, Uncounted, WindowBound, MapSignal, MapLoadWaits, Replaying
<1> QED
  BY <1>1, <1>2, <1>3, <1>4 DEF ReplayInv

LEMMA NextReplayInv == ReplayInv /\ [Next]_vars => ReplayInv'
  BY TypesNext, ControlNext, OwnedNext, QuiescentNext, NumberingNext,
     NarrowNext, RoomNext, MapSignalNext DEF ReplayInv

LEMMA ReplayInvariant == Spec => []ReplayInv
  BY InitReplayInv, NextReplayInv, PTL DEF Spec

-----------------------------------------------------------------------------
(* The theorems.                                                           *)

\* The shared state keeps its types, and what a client has acknowledged has
\* been sent, and what has been sent has been numbered.
THEOREM ReplayTypeOK == Spec => []TypeOK
<1>1. ReplayInv => TypeOK
  <2> SUFFICES ASSUME ReplayInv, NEW k \in Clients
               PROVE  outAck[k] <= acked[k] /\ acked[k] <= wire[k] /\ wire[k] < outSeq[k]
    BY DEF ReplayInv, Types, TypeOK
  <2>1. outSeq[k] \in Nat
    BY DEF ReplayInv, Types
  <2> QED
    BY <2>1 DEF ReplayInv, Numbering
<1> QED
  BY <1>1, ReplayInvariant, PTL

\* A replay packet is numbered in the connection its replay was started for.
THEOREM ReplayOwnConnection == Spec => []OwnConnection
<1>1. ReplayInv => OwnConnection
  BY DEF ReplayInv, Owned
<1> QED
  BY <1>1, ReplayInvariant, PTL

\* No packet of a replay is more than the window and what is sent between its
\* check and the build, the answers included, ahead of the client.
THEOREM ReplayWindowBound == Spec => []WindowBound
<1>1. ReplayInv => WindowBound
  BY DEF ReplayInv, Room
<1> QED
  BY <1>1, ReplayInvariant, PTL

\* The replay waits for the map of its own session.
THEOREM ReplayMapLoadWaits == Spec => []MapLoadWaits
<1>1. ReplayInv => MapLoadWaits
  BY DEF ReplayInv, MapSignal
<1> QED
  BY <1>1, ReplayInvariant, PTL

\* No step but an answer sends a packet while an earlier number of its connection
\* is pending.
LEMMA InOrderStep ==
    Types /\ Control /\ Owned /\ Quiescent /\ Numbering /\ [Next]_vars =>
      [\A k \in Clients :
         wire'[k] # wire[k] /\ conn'[k] = conn[k] =>
           LET sent == IF Send THEN 1 ELSE outSeq'[k] - outSeq[k]
           IN  \/ wire'[k] = wire[k] + sent
               \/ Pending(k) /\ answers' > answers /\ wire'[k] = wire[k] + 2]_vars
<1> DEFINE Next1 ==
             \A k \in Clients :
               wire'[k] # wire[k] /\ conn'[k] = conn[k] =>
                 \/ wire'[k] = wire[k] + (IF Send THEN 1 ELSE outSeq'[k] - outSeq[k])
                 \/ Pending(k) /\ answers' > answers /\ wire'[k] = wire[k] + 2
<1> SUFFICES ASSUME Types, Control, Owned, Quiescent, Numbering, [Next]_vars
             PROVE  Next1
  OBVIOUS
<1>0. wire' = wire => Next1
  OBVIOUS
<1>1. ASSUME NEW k \in Clients, NEW n \in Nat, SendNow(k, n), ~Waits(k), ~Send
      PROVE  Next1
  <2>1. /\ outSeq'[k] = outSeq[k] + n
        /\ wire'[k] = IF n = 0 THEN wire[k] ELSE outSeq[k] + n - 1
        /\ \A j \in Clients \ {k} : wire'[j] = wire[j]
    BY <1>1, SendEffect
  <2>2. wire[k] = outSeq[k] - 1 /\ outSeq[k] \in Nat
    BY <1>1 DEF Numbering, Types
  <2> QED
    BY <1>1, <2>1, <2>2
<1> HIDE DEF Next1
<1>2. ASSUME NEW k \in Clients, HandleInitial(k) PROVE Next1
  BY <1>0, <1>2 DEF HandleInitial
<1>3. ASSUME NEW k \in Clients, HandleResponse(k) PROVE Next1
  <2>1. conn'[k] # conn[k] /\ \A j \in Clients \ {k} : wire'[j] = wire[j]
    BY <1>3, ResponseEffect, ConnNat
  <2> QED
    BY <2>1 DEF Next1
<1>4. ASSUME NEW k \in Clients, NEW a \in Acks(k),
             Acknowledge(k, a), HandleLogin(k)
      PROVE  Next1
  <2>1. PICK n \in Nat : SendNow(k, n)
    BY <1>4 DEF HandleLogin
  <2>2. ~Waits(k)
    BY <1>4 DEF HandleLogin, Quiescent, Pending, Waits
  <2>3. ~Send
    BY <1>4 DEF HandleLogin, threadVars, Send
  <2> QED
    BY <1>1, <2>1, <2>2, <2>3
<1>5. ASSUME NEW k \in Clients, NEW a \in Acks(k),
             Acknowledge(k, a), HandleReady(k)
      PROVE  Next1
  <2>1. PICK n \in Nat : SendNow(k, n)
    BY <1>5, KeepaliveIsSend DEF HandleReady
  <2>2. ~Waits(k)
    BY <1>5 DEF HandleReady, Quiescent, Pending, Waits
  <2>3. ~Send
    BY <1>5 DEF HandleReady, threadVars, Send
  <2> QED
    BY <1>1, <2>1, <2>2, <2>3
<1>6. ASSUME NEW k \in Clients, NEW a \in Acks(k),
             Acknowledge(k, a), HandleLateControl(k)
      PROVE  Next1
  BY <1>0, <1>6 DEF HandleLateControl
<1>7. ASSUME NEW k \in Clients, NEW a \in Acks(k),
             Acknowledge(k, a), HandleGameBunch(k)
      PROVE  Next1
  BY <1>0, <1>7 DEF HandleGameBunch
<1>8. ASSUME NEW k \in Clients, TimeOut(k) PROVE Next1
  BY <1>0, <1>8 DEF TimeOut
<1>9. ASSUME NEW k \in Clients, PeriodicKeepalive(k) PROVE Next1
  <2>1. PICK n \in Nat : SendNow(k, n)
    BY <1>9, KeepaliveIsSend DEF PeriodicKeepalive
  <2>2. ~Waits(k)
    BY <1>9 DEF PeriodicKeepalive, Locked, Control, Quiescent, Pending, Waits, Replaying
  <2>3. ~Send
    BY <1>9 DEF PeriodicKeepalive, threadVars, Send
  <2> QED
    BY <1>1, <2>1, <2>2, <2>3
<1>10. CASE Launch
  BY <1>0, <1>10 DEF Launch, clientVars
<1>11. CASE WaitCheck
  BY <1>0, <1>11 DEF WaitCheck, MoveTo, clientVars
<1>12. CASE WaitRound
  <2>1. ~Send /\ rep # "send"
    BY <1>12 DEF WaitRound, Send
  <2>2. CASE Connected
    <3>1. PICK n \in Nat : SendNow(Here, n)
      BY <1>12, <2>2, HereIsClient, KeepaliveIsSend DEF WaitRound
    <3> QED
      BY <1>1, <2>1, <3>1, HereIsClient DEF Pending, Waits
  <2>3. CASE ~Connected
    BY <1>0, <1>12, <2>3 DEF WaitRound, MoveTo, clientVars
  <2> QED
    BY <2>2, <2>3
<1>13. CASE WaitOver
  BY <1>0, <1>13 DEF WaitOver, clientVars
<1>14. CASE NextPacket
  BY <1>0, <1>14 DEF NextPacket, MoveTo, Finish, clientVars
<1>15. CASE Stall
  BY <1>0, <1>15 DEF Stall, Finish, clientVars
<1>16. CASE Window
  BY <1>0, <1>16 DEF Window, MoveTo, Finish, clientVars
<1>17. CASE Full
  <2>1. ~Send /\ rep # "send"
    BY <1>17 DEF Full, Send
  <2>2. CASE SendKeepalive(Here)
    <3>1. PICK n \in Nat : SendNow(Here, n)
      BY <2>2, HereIsClient, KeepaliveIsSend
    <3> QED
      BY <1>1, <2>1, <3>1, HereIsClient DEF Pending, Waits
  <2>3. CASE UNCHANGED <<outSeq, wire>>
    BY <1>0, <2>3
  <2> QED
    BY <1>17, <2>2, <2>3 DEF Full, MayKeepAlive
<1>18. CASE Tier
  BY <1>0, <1>18 DEF Tier, MoveTo, Finish, clientVars
<1>19. CASE Slow
  <2>1. ~Send /\ rep # "send"
    BY <1>19 DEF Slow, Send
  <2>2. CASE SendKeepalive(Here)
    <3>1. PICK n \in Nat : SendNow(Here, n)
      BY <2>2, HereIsClient, KeepaliveIsSend
    <3> QED
      BY <1>1, <2>1, <3>1, HereIsClient DEF Pending, Waits
  <2>3. CASE UNCHANGED <<outSeq, wire>>
    BY <1>0, <2>3
  <2> QED
    BY <1>19, <2>2, <2>3 DEF Slow, MayKeepAlive
<1>20. CASE Generate
  <2>1. ~Send /\ rep # "send"
    BY <1>20 DEF Generate, Send
  <2>2. PICK n \in Nat : SendNow(Here, n)
    BY <1>20, ConstantsNat DEF Generate
  <2> QED
    BY <1>1, <2>1, <2>2, HereIsClient DEF Pending, Waits
<1>21. CASE Build
  BY <1>0, <1>21, BuildEffect
<1>22. CASE Send
  <2>1. /\ rep = "send" /\ built.client \in Clients
        /\ wire' = [wire EXCEPT ![built.client] =
                      IF Waits(built.client) THEN built.seq ELSE wire[built.client]]
    BY <1>22 DEF Send, Types, Pending, Waits
  <2>2. \A j \in Clients : wire'[j] # wire[j] => Waits(j) /\ wire'[j] = built.seq
    BY <2>1 DEF Types, Pending, Waits
  <2>3. ASSUME NEW j \in Clients, Waits(j) PROVE built.seq = wire[j] + 1
    <3>1. built.seq \in Nat /\ wire[j] \in Nat
      BY DEF Types
    <3> QED
      BY <2>3, <3>1 DEF Numbering, Waits
  <2> QED
    BY <1>22, <2>2, <2>3 DEF Next1
<1>23. CASE PostReplay
  <2>1. ~Send /\ rep # "send"
    BY <1>23 DEF PostReplay, Send
  <2>2. CASE Connected
    <3>1. PICK n \in Nat : SendNow(Here, n)
      BY <1>23, <2>2, HereIsClient, KeepaliveIsSend DEF PostReplay
    <3> QED
      BY <1>1, <2>1, <3>1, HereIsClient DEF Pending, Waits
  <2>3. CASE ~Connected
    BY <1>0, <1>23, <2>3 DEF PostReplay, MoveTo, clientVars
  <2> QED
    BY <2>2, <2>3
<1>25. ASSUME NEW k \in Clients, HandleInitRequest(k) PROVE Next1
  <2>1. SendNow(k, 1) /\ ~Send
    BY <1>25 DEF HandleInitRequest, Send, Pacing
  <2>2. CASE ~Waits(k)
    BY <1>1, <2>1, <2>2
  <2>3. CASE Waits(k)
    <3>1. k = target.client /\ rep = "send"
      BY <2>3 DEF Waits, Pending, Owned, OwnConnection
    <3>2. answers' = answers + 1 /\ answers \in Nat
      BY <1>25, <3>1 DEF HandleInitRequest, Pacing, Types
    <3>3. /\ outSeq'[k] = outSeq[k] + 1 /\ wire'[k] = outSeq[k] + 1 - 1
          /\ \A j \in Clients \ {k} : wire'[j] = wire[j]
      BY <2>1, SendEffect
    <3>4. wire'[k] = wire[k] + 2
      BY <2>3, <3>3 DEF Numbering, Types
    <3> QED
      BY <2>3, <3>2, <3>3, <3>4 DEF Waits, Next1
  <2> QED
    BY <2>2, <2>3
<1>24. CASE UNCHANGED vars
  BY <1>0, <1>24 DEF vars, clientVars
<1> QED
  BY <1>2, <1>3, <1>4, <1>5, <1>6, <1>7, <1>8, <1>9, <1>10, <1>11, <1>12,
     <1>13, <1>14, <1>15, <1>16, <1>17, <1>18, <1>19, <1>20, <1>21, <1>22,
     <1>23, <1>24, <1>25
     DEF Next, Receive, HandleData, Replay

\* The packets of a connection leave in the order of their numbers, but for an
\* answer that overtakes the pending packet.
THEOREM ReplayInOrder == Spec => InOrder
<1>1. ReplayInv /\ [Next]_vars =>
        [\A k \in Clients :
           wire'[k] # wire[k] /\ conn'[k] = conn[k] =>
             LET sent == IF Send THEN 1 ELSE outSeq'[k] - outSeq[k]
             IN  \/ wire'[k] = wire[k] + sent
                 \/ Pending(k) /\ answers' > answers /\ wire'[k] = wire[k] + 2]_vars
  BY InOrderStep DEF ReplayInv
<1> QED
  BY <1>1, ReplayInvariant, PTL DEF Spec, InOrder

\* The window check reads the distance between the numbers themselves, from 14
\* bits and across their wrap, and never less than what the client is missing.
THEOREM ReplayDistance ==
    Spec => [](\A k \in Clients :
                 Ahead(k) = outSeq[k] - outAck[k] /\ outSeq[k] - acked[k] <= Ahead(k))
<1>1. ReplayInv => \A k \in Clients :
                     Ahead(k) = outSeq[k] - outAck[k] /\ outSeq[k] - acked[k] <= Ahead(k)
  BY TrueDistance DEF ReplayInv, InFlight
<1> QED
  BY <1>1, ReplayInvariant, PTL

\* A handler is in join() with the lock, and the replay thread is at a step from
\* which it can only end through one that needs the lock.
Blocked == joining # {} /\ rep \notin {"none", "wait", "exited"}

\* A join() entered while the replay is past the wait for the map never returns:
\* no step of either thread gets the server out of it (game_server.h:3726).
THEOREM ReplayJoinBlocks == Spec => [](Blocked => []Blocked)
<1>1. Blocked /\ [Next]_vars => Blocked'
  <2> SUFFICES ASSUME Blocked, [Next]_vars PROVE Blocked'
    OBVIOUS
  <2>1. ~Locked
    BY DEF Blocked, Locked
  <2>2. CASE Receive
    BY <2>1, <2>2 DEF Receive, Launch, HandleInitial, HandleResponse, HandleData,
       HandleInitRequest, Acknowledge, TimeOut, PeriodicKeepalive, Blocked
  <2>3. CASE Replay
    BY <2>1, <2>3 DEF Replay, WaitCheck, WaitRound, WaitOver, NextPacket, Stall, Window,
       Full, MayKeepAlive, Tier, Slow, Generate, Build, Send, PostReplay, MoveTo, Goto,
       Finish, Blocked
  <2>4. CASE UNCHANGED vars
    BY <2>4 DEF vars, threadVars, Blocked
  <2> QED
    BY <2>2, <2>3, <2>4 DEF Next
<1> QED
  BY <1>1, PTL DEF Spec

\* A handler in join() has cleared the flag, and only the launch sets it.
Signalled == joining # {} => ~active

\* A join() entered while the replay waits for the map returns as soon as the
\* thread is scheduled: its next step is its last.
THEOREM ReplayJoinEnds ==
    Spec => [][joining # {} /\ rep = "wait" =>
                 joining' = joining /\ (Replay => rep' = "exited")]_vars
<1> DEFINE Ends == joining # {} /\ rep = "wait" =>
                     joining' = joining /\ (Replay => rep' = "exited")
<1>1. Init => Signalled
  BY DEF Init, Signalled
<1>2. Signalled /\ [Next]_vars => Signalled'
  <2> SUFFICES ASSUME Signalled, [Next]_vars PROVE Signalled'
    OBVIOUS
  <2>1. CASE Receive
    BY <2>1 DEF Receive, Launch, HandleInitial, HandleResponse, HandleData, HandleLogin,
       HandleReady, HandleLateControl, HandleGameBunch, HandleInitRequest, TimeOut,
       PeriodicKeepalive, Signalled
  <2>2. CASE Replay
    BY <2>2 DEF Replay, WaitCheck, WaitRound, WaitOver, NextPacket, Stall, Window,
       Full, MayKeepAlive, Tier, Slow, Generate, Build, Send, PostReplay, MoveTo, Goto,
       Finish, Signalled
  <2>3. CASE UNCHANGED vars
    BY <2>3 DEF vars, Signalled
  <2> QED
    BY <2>1, <2>2, <2>3 DEF Next
<1>3. Signalled /\ [Next]_vars => [Ends]_vars
  <2> SUFFICES ASSUME Signalled, Next, joining # {}, rep = "wait" PROVE Ends
    BY DEF Ends
  <2>1. ~Locked /\ ~active
    BY DEF Signalled, Locked
  <2>2. ~Receive
    BY <2>1 DEF Receive, Launch, HandleInitial, HandleResponse, HandleData, Acknowledge,
       HandleInitRequest, TimeOut, PeriodicKeepalive
  <2>3. Replay => joining' = joining /\ rep' = "exited"
    BY <2>1 DEF Replay, WaitCheck, WaitRound, WaitOver, NextPacket, Stall, Window,
       Full, MayKeepAlive, Tier, Slow, Generate, Build, Send, PostReplay
  <2> QED
    BY <2>2, <2>3 DEF Next
<1> QED
  BY <1>1, <1>2, <1>3, PTL DEF Spec
=============================================================================
