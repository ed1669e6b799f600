----------------------------- MODULE ReplayThread -----------------------------
(***************************************************************************)
(* Replay mode of GameServer: the receive thread and the one replay thread *)
(* share clients_ under client_mu_, and two atomics, replay_active_ and    *)
(* replay_map_loaded_.  A step is a stretch of code that holds client_mu_  *)
(* throughout, or one that does not need it.  The receive thread handles a *)
(* packet in one step, except that the packet which ends the NMT exchange  *)
(* joins the old replay thread while it holds the lock, and that the parser *)
(* answers a bunch which asks for the character before that, with a lock   *)
(* of its own.  A replay packet is numbered under the lock and sent after  *)
(* it is released.                                                         *)
(*                                                                         *)
(* running_ stays true, the V3 injection is off and LiveWorld only peeks   *)
(* at the sequence numbers: all three are the default.                     *)
(***************************************************************************)
EXTENDS Integers

CONSTANTS
    Clients,
    NumPackets,     \* packets of the replay file
    Generators,     \* packets the generators may emit in a tick
    MaxWindow,      \* MAX_WINDOW
    StallAhead,     \* STALL_AHEAD; also where the slow tier begins
    FirstSeq,       \* number before the first of each connection, 14 bits
    MaxSeq,         \* bound: keepalives and answers are sent below this number
    MaxConnections, \* bound: handshakes per client
    MaxUnacked,     \* bound: either, to a client that acknowledges nothing
    MaxLate         \* bound: how old an acknowledgement is when it arrives

\* Sequence numbers have 14 bits (SEQ_MASK).
SeqSpace == 16384
HalfSpace == 8192

\* Unacknowledged packets and late acknowledgements stay within half the space,
\* as for any window protocol.
ASSUME ReplayAssumption ==
    /\ {NumPackets, Generators, MaxWindow, StallAhead, MaxSeq, MaxConnections,
        MaxUnacked, MaxLate} \subseteq Nat
    /\ 0 < StallAhead /\ StallAhead < MaxWindow /\ 0 < MaxUnacked
    /\ FirstSeq \in [Clients -> [0..MaxConnections -> 0..SeqSpace-1]]
    /\ MaxWindow + MaxUnacked + Generators + 1 + MaxLate <= HalfSpace

VARIABLES
    phase,      \* ClientState::phase
    nmtState,   \* ClientState::nmt_state: 0, 2 after the login, or 4
    conn,       \* handshakes completed so far: numbers the connection
    outSeq,     \* out_seq, counted on from the connection's initial number
    outAck,     \* out_ack_seq, likewise
    acked,      \* ghost: the last packet the client is known to have received
    wire,       \* highest number sent so far in the present connection
    joining,    \* the client whose handler is in replay_thread_.join(), if any
    terminated, \* std::terminate has been called
    active,     \* replay_active_
    mapLoaded,  \* replay_map_loaded_
    rep,        \* where the replay thread is; "none" before the first launch
    target,     \* the client and connection the replay was launched for
    left,       \* replay packets still to do
    built,      \* client, connection and number of the packet just built
    released,   \* ghost: the map signal, or the limit, of this replay's wait
    answers     \* ghost: answers to the replay's client since the window check

clientVars == <<phase, nmtState, conn, outSeq, outAck, acked, wire>>
threadVars == <<rep, target, left, built, released, answers>>
vars == <<clientVars, joining, terminated, active, mapLoaded, threadVars>>

Phases == {"none", "AWAITING_INITIAL", "CHALLENGE_SENT", "HANDSHAKE_COMPLETE",
           "CONNECTED"}
Replaying == {"wait", "round", "loop", "window", "full", "tier", "slow", "generate",
              "build", "send"}
Pacing == {"tier", "slow", "generate", "build", "send"}
Connections == [client : Clients, conn : 0..MaxConnections]

\* The packet is a local of the loop body: gone once it has been sent.
NoPacket == [client |-> target.client, conn |-> 0, seq |-> 0]

TypeOK ==
    /\ phase \in [Clients -> Phases] /\ nmtState \in [Clients -> {0, 2, 4}]
    /\ conn \in [Clients -> 0..MaxConnections]
    /\ outSeq \in [Clients -> Nat] /\ outAck \in [Clients -> Nat]
    /\ acked \in [Clients -> Nat]
    /\ wire \in [Clients -> Nat]
    /\ joining \subseteq Clients /\ terminated \in BOOLEAN
    /\ active \in BOOLEAN /\ mapLoaded \in BOOLEAN
    /\ rep \in Replaying \cup {"none", "post", "exited"}
    /\ target \in Connections /\ left \in 0..NumPackets
    /\ built \in [client : Clients, conn : 0..MaxConnections, seq : Nat]
    /\ released \in BOOLEAN /\ answers \in Nat
    /\ \A k \in Clients : /\ outAck[k] <= acked[k] /\ acked[k] <= wire[k]
                          /\ wire[k] < outSeq[k]

Init ==
    /\ phase = [k \in Clients |-> "none"] /\ nmtState = [k \in Clients |-> 0]
    /\ conn = [k \in Clients |-> 0]
    /\ outSeq = [k \in Clients |-> 1] /\ outAck = [k \in Clients |-> 0]
    /\ acked = [k \in Clients |-> 0]
    /\ wire = [k \in Clients |-> 0]
    /\ joining = {} /\ terminated = FALSE /\ active = FALSE /\ mapLoaded = FALSE
    /\ rep = "none" /\ left = 0 /\ released = FALSE /\ answers = 0
    /\ target \in [client : Clients, conn : {0}]
    /\ built = NoPacket

\* A thread that needs client_mu_ runs; nothing runs after std::terminate.
Locked == joining = {} /\ ~terminated

\* Faulty: the difference is not taken modulo the space.
DistanceUnmasked(n, m) == n - m

\* The distance between two numbers of 14 bits: negative from half the space on.
Distance(n, m) ==
    LET d == (n - m) % SeqSpace IN IF d > HalfSpace THEN d - SeqSpace ELSE d

\* The 14 bits of a number of k's connection.
Bits(k, n) == (FirstSeq[k][conn[k]] + n) % SeqSpace

\* The packets of k not acknowledged, the next one included, as the code reads it.
Ahead(k) == Distance(Bits(k, outSeq[k]), Bits(k, outAck[k]))

\* The packet of k's connection that is numbered and not sent yet.
Pending(k) == rep = "send" /\ built.client = k /\ built.conn = conn[k]

\* Numbers and sends n packets to k, within client_mu_.
SendNow(k, n) ==
    /\ outSeq' = [outSeq EXCEPT ![k] = @ + n]
    /\ wire' = [wire EXCEPT ![k] = IF n = 0 THEN @ ELSE outSeq[k] + n - 1]

WithinBounds(k) == outSeq[k] < MaxSeq /\ outSeq[k] - acked[k] < MaxUnacked

\* A keepalive is left out only at one of the bounds.
SendKeepalive(k) == SendNow(k, IF WithinBounds(k) THEN 1 ELSE 0)

-----------------------------------------------------------------------------
(* The receive thread                                                      *)

HandleInitial(k) ==
    /\ Locked
    /\ phase' = [phase EXCEPT ![k] = "CHALLENGE_SENT"]
    /\ UNCHANGED <<nmtState, conn, outSeq, outAck, acked, wire>>
    /\ UNCHANGED <<joining, terminated, active, mapLoaded, threadVars>>

\* Faulty: leaves the last acknowledgement of the previous connection.
HandleResponseKeepsAck(k) ==
    /\ Locked /\ phase[k] # "none" /\ conn[k] < MaxConnections
    /\ phase' = [phase EXCEPT ![k] = "HANDSHAKE_COMPLETE"]
    /\ nmtState' = [nmtState EXCEPT ![k] = 0]
    /\ conn' = [conn EXCEPT ![k] = @ + 1]
    /\ outSeq' = [outSeq EXCEPT ![k] = 1]
    /\ acked' = [acked EXCEPT ![k] = 0] /\ wire' = [wire EXCEPT ![k] = 0]
    /\ UNCHANGED <<outAck, joining, terminated, active, mapLoaded, threadVars>>

\* A new connection: init_sequences starts its numbering over.
HandleResponse(k) ==
    /\ Locked /\ phase[k] # "none" /\ conn[k] < MaxConnections
    /\ phase' = [phase EXCEPT ![k] = "HANDSHAKE_COMPLETE"]
    /\ nmtState' = [nmtState EXCEPT ![k] = 0]
    /\ conn' = [conn EXCEPT ![k] = @ + 1]
    /\ outSeq' = [outSeq EXCEPT ![k] = 1] /\ outAck' = [outAck EXCEPT ![k] = 0]
    /\ acked' = [acked EXCEPT ![k] = 0] /\ wire' = [wire EXCEPT ![k] = 0]
    /\ UNCHANGED <<joining, terminated, active, mapLoaded, threadVars>>

\* What a data packet of k may acknowledge: what has been sent.  One that
\* arrives late has an older number than the last; the code takes it all the same.
Acks(k) == {a \in 0..wire[k] : acked[k] <= a + MaxLate
                              /\ (Pending(k) => a # built.seq)}

Acknowledge(k, a) ==
    /\ Locked /\ phase[k] # "none" /\ a \in Acks(k)
    /\ outAck' = [outAck EXCEPT ![k] = a]
    /\ acked' = [acked EXCEPT ![k] = IF a > @ THEN a ELSE @]

\* Hello and Login of one packet, answered with a challenge and a welcome.
HandleLogin(k) ==
    /\ nmtState[k] = 0
    /\ nmtState' = [nmtState EXCEPT ![k] = 2]
    /\ SendNow(k, 2)
    /\ UNCHANGED <<phase, conn, joining, terminated, active, mapLoaded, threadVars>>

\* Faulty: leaves the map flag of the previous session.
HandleReadyKeepsMap(k) ==
    /\ nmtState[k] = 2
    /\ nmtState' = [nmtState EXCEPT ![k] = 4]
    /\ phase' = [phase EXCEPT ![k] = "CONNECTED"]
    /\ SendKeepalive(k)
    /\ active' = FALSE
    /\ joining' = {k}
    /\ UNCHANGED <<conn, terminated, mapLoaded, threadVars>>

\* Join or GameSpecific: clears both flags and joins the old replay thread,
\* if there is one, with client_mu_ held.
HandleReady(k) ==
    /\ nmtState[k] = 2
    /\ nmtState' = [nmtState EXCEPT ![k] = 4]
    /\ phase' = [phase EXCEPT ![k] = "CONNECTED"]
    /\ SendKeepalive(k)
    /\ active' = FALSE /\ mapLoaded' = FALSE
    /\ joining' = {k}
    /\ UNCHANGED <<conn, terminated, threadVars>>

\* join() has returned, or there was no thread: the new replay starts.
Launch ==
    /\ rep \in {"none", "exited"} /\ ~terminated
    /\ \E k \in joining : target' = [client |-> k, conn |-> conn[k]]
    /\ joining' = {} /\ active' = TRUE
    /\ rep' = "wait" /\ left' = NumPackets /\ released' = FALSE
    /\ UNCHANGED <<clientVars, terminated, mapLoaded, built, answers>>

\* Any control message once the exchange is complete and no replay is active:
\* a new thread is assigned to replay_thread_.  The old one is still joinable,
\* even if it has returned, and the assignment calls std::terminate.
HandleLateControl(k) ==
    /\ nmtState[k] = 4
    /\ terminated' = ~active
    /\ UNCHANGED <<phase, nmtState, conn, outSeq, wire>>
    /\ UNCHANGED <<joining, active, mapLoaded, threadVars>>

\* A packet with bunches and no control message: the map is loaded.
HandleGameBunch(k) ==
    /\ mapLoaded' = (mapLoaded \/ nmtState[k] = 4)
    /\ released' = (released \/ nmtState[k] = 4)
    /\ UNCHANGED <<phase, nmtState, conn, outSeq, wire>>
    /\ UNCHANGED <<joining, terminated, active, rep, target, left, built, answers>>

\* A reliable bunch of channel 3 that asks for the character, whatever else is
\* in the packet: the parser numbers and sends the answer at once, in every mode.
HandleInitRequest(k) ==
    /\ Locked /\ phase[k] = "CONNECTED"
    /\ WithinBounds(k) /\ SendNow(k, 1)
    /\ answers' = IF k = target.client /\ rep \in Pacing THEN answers + 1 ELSE answers
    /\ UNCHANGED <<phase, nmtState, conn, outAck, acked>>
    /\ UNCHANGED <<joining, terminated, active, mapLoaded>>
    /\ UNCHANGED <<rep, target, left, built, released>>

HandleData(k) ==
    \E a \in Acks(k) :
       /\ Acknowledge(k, a)
       /\ \/ HandleLogin(k) \/ HandleReady(k)
          \/ HandleLateControl(k) \/ HandleGameBunch(k)

\* send_periodic_keepalives for one client: the idle limit ...
TimeOut(k) ==
    /\ Locked /\ phase[k] \in {"HANDSHAKE_COMPLETE", "CONNECTED"}
    /\ phase' = [phase EXCEPT ![k] = "AWAITING_INITIAL"]
    /\ UNCHANGED <<nmtState, conn, outSeq, outAck, acked, wire>>
    /\ UNCHANGED <<joining, terminated, active, mapLoaded, threadVars>>

\* Faulty: sends during a replay as well.
PeriodicKeepaliveAlways(k) ==
    /\ Locked /\ phase[k] \in {"HANDSHAKE_COMPLETE", "CONNECTED"}
    /\ SendKeepalive(k)
    /\ UNCHANGED <<phase, nmtState, conn, outAck, acked>>
    /\ UNCHANGED <<joining, terminated, active, mapLoaded, threadVars>>

\* ... and the keepalive, which a replay to a connected client replaces.
PeriodicKeepalive(k) ==
    /\ Locked /\ phase[k] \in {"HANDSHAKE_COMPLETE", "CONNECTED"}
    /\ ~(active /\ phase[k] = "CONNECTED")
    /\ SendKeepalive(k)
    /\ UNCHANGED <<phase, nmtState, conn, outAck, acked>>
    /\ UNCHANGED <<joining, terminated, active, mapLoaded, threadVars>>

Receive == \/ Launch
           \/ \E k \in Clients : \/ HandleInitial(k) \/ HandleResponse(k)
                                 \/ HandleData(k) \/ HandleInitRequest(k)
                                 \/ TimeOut(k) \/ PeriodicKeepalive(k)

-----------------------------------------------------------------------------
(* The replay thread                                                       *)

Here == target.client
Connected == phase[Here] = "CONNECTED"

Goto(pc) == /\ rep' = pc
            /\ answers' = IF pc = "window" THEN 0 ELSE answers
            /\ UNCHANGED <<target, left, built, released>>

\* Steps that only move the thread on.
MoveTo(pc) == Goto(pc) /\ UNCHANGED <<clientVars, joining, terminated, active, mapLoaded>>

\* The loop is left, and its index with it: the flag is cleared, the keepalive
\* loop follows.
Finish == /\ active' = FALSE
          /\ rep' = "post" /\ left' = 0 /\ answers' = 0
          /\ UNCHANGED <<clientVars, joining, terminated, mapLoaded>>
          /\ UNCHANGED <<target, built, released>>

\* Sends a keepalive, or none because the last one is recent.
MayKeepAlive(pc) ==
    /\ Locked
    /\ SendKeepalive(Here) \/ UNCHANGED <<outSeq, wire>>
    /\ Goto(pc)
    /\ UNCHANGED <<phase, nmtState, conn, outAck, acked, joining, terminated, active, mapLoaded>>

\* The wait for the map: the flags are read, then the lock is taken.
WaitCheck ==
    /\ rep = "wait" /\ active /\ ~mapLoaded /\ ~terminated
    /\ MoveTo("round")

\* A round of the wait.  The early return leaves replay_active_.
WaitRound ==
    /\ rep = "round" /\ Locked
    /\ IF Connected
       THEN /\ SendKeepalive(Here)
            /\ Goto("wait")
            /\ UNCHANGED <<phase, nmtState, conn, outAck, acked>>
            /\ UNCHANGED <<joining, terminated, active, mapLoaded>>
       ELSE MoveTo("exited")

\* The wait ends: by the signal, by its 120 s limit, or because it must stop.
WaitOver ==
    /\ rep = "wait" /\ ~terminated
    /\ rep' = IF active THEN "loop" ELSE "exited"
    /\ released' = (released \/ ~mapLoaded)
    /\ UNCHANGED <<clientVars, joining, terminated, active, mapLoaded>>
    /\ UNCHANGED <<target, left, built, answers>>

NextPacket ==
    /\ rep = "loop" /\ ~terminated
    /\ IF active /\ left > 0 THEN MoveTo("window") ELSE Finish

\* Faulty: the stall is looked for only while the window has room.
StallInWindow ==
    /\ rep = "window" /\ active /\ Locked
    /\ Connected /\ Ahead(Here) >= StallAhead /\ Ahead(Here) < MaxWindow
    /\ Finish

\* The window block: no acknowledgement for 120 s.
Stall ==
    /\ rep = "window" /\ active /\ Locked
    /\ Connected /\ Ahead(Here) >= StallAhead
    /\ Finish

\* Faulty: sends after a delay, whatever the window.
WindowIgnored ==
    /\ rep = "window" /\ ~terminated /\ (active => Locked)
    /\ IF active /\ ~Connected THEN Finish ELSE MoveTo("tier")

\* The window block: go on only when there is room.
Window ==
    /\ rep = "window" /\ ~terminated /\ (active => Locked)
    /\ IF active /\ ~Connected THEN Finish
       ELSE MoveTo(IF active /\ Ahead(Here) >= MaxWindow THEN "full" ELSE "tier")

Full == rep = "full" /\ MayKeepAlive("window")

\* The pacing: near the window it also sends a keepalive now and then.
Tier ==
    /\ rep = "tier" /\ Locked
    /\ IF ~Connected THEN Finish
       ELSE MoveTo(IF Ahead(Here) >= StallAhead THEN "slow" ELSE "generate")

Slow == rep = "slow" /\ MayKeepAlive("generate")

Generate ==
    /\ rep = "generate" /\ Locked
    /\ \E n \in 0..Generators : SendNow(Here, IF Connected THEN n ELSE 0)
    /\ Goto("build")
    /\ UNCHANGED <<phase, nmtState, conn, outAck, acked, joining, terminated, active, mapLoaded>>

\* Faulty: does not look at the phase again before it builds the packet.
BuildAnyPhase ==
    /\ rep = "build" /\ Locked
    /\ rep' = "send" /\ left' = left - 1
    /\ built' = [client |-> Here, conn |-> conn[Here], seq |-> outSeq[Here]]
    /\ outSeq' = [outSeq EXCEPT ![Here] = @ + 1]
    /\ UNCHANGED <<phase, nmtState, conn, outAck, acked, wire>>
    /\ UNCHANGED <<joining, terminated, active, mapLoaded, target, released, answers>>

\* The next packet takes a number, unless it is one the file has no bunches for.
Build ==
    /\ rep = "build" /\ Locked
    /\ IF ~Connected THEN Finish
       ELSE /\ left' = left - 1
            /\ \/ /\ rep' = "send"
                  /\ built' = [client |-> Here, conn |-> conn[Here],
                               seq |-> outSeq[Here]]
                  /\ outSeq' = [outSeq EXCEPT ![Here] = @ + 1]
               \/ rep' = "loop" /\ UNCHANGED <<built, outSeq>>
            /\ UNCHANGED <<phase, nmtState, conn, outAck, acked, wire>>
            /\ UNCHANGED <<joining, terminated, active, mapLoaded, target, released,
                           answers>>

\* Outside the lock: whatever happened since, the packet goes out; to a client
\* that has a new connection by now, as one of the old connection.
Send ==
    /\ rep = "send" /\ ~terminated
    /\ wire' = [wire EXCEPT ![built.client] =
                  IF Pending(built.client) /\ @ < built.seq THEN built.seq ELSE @]
    /\ rep' = "loop" /\ built' = NoPacket
    /\ UNCHANGED <<phase, nmtState, conn, outSeq, outAck, acked, joining, terminated>>
    /\ UNCHANGED <<active, mapLoaded, target, left, released, answers>>

\* The keepalive loop after the replay ends with the connection.
PostReplay ==
    /\ rep = "post" /\ Locked
    /\ IF Connected
       THEN /\ SendKeepalive(Here)
            /\ UNCHANGED <<phase, nmtState, conn, outAck, acked>>
            /\ UNCHANGED <<joining, terminated, active, mapLoaded, threadVars>>
       ELSE MoveTo("exited")

Replay == \/ WaitCheck \/ WaitRound \/ WaitOver \/ NextPacket \/ Stall
          \/ Window \/ Full \/ Tier \/ Slow \/ Generate \/ Build \/ Send \/ PostReplay

-----------------------------------------------------------------------------

Next == Receive \/ Replay

Spec == Init /\ [][Next]_vars

\* Both threads keep running; the 120 s limits of the wait and of the stall
\* are clocks the client cannot stop, looked at again in every round.
FairSpec ==
    /\ Spec
    /\ WF_vars(Launch)
    /\ WF_vars(Replay)
    /\ SF_vars(WaitOver)
    /\ SF_vars(Stall)

-----------------------------------------------------------------------------
(* Properties                                                              *)

\* "Replay packets share the same outbound seq counter, so the client sees
\* them in order with no gaps": the packets of one connection leave in the
\* order of their numbers, although a replay packet is sent after the lock
\* under which it was numbered has been released.  The answer to a bunch that
\* asks for the character is the one exception: it may overtake that packet.
InOrder ==
    [][\A k \in Clients :
         wire'[k] # wire[k] /\ conn'[k] = conn[k] =>
           LET sent == IF Send THEN 1 ELSE outSeq'[k] - outSeq[k]
           IN  \/ wire'[k] = wire[k] + sent
               \/ Pending(k) /\ answers' > answers /\ wire'[k] = wire[k] + 2]_vars

\* No replay packet is built before the map of this session is loaded, or the
\* wait has run into its limit; a flag left by an earlier session does not count.
MapLoadWaits == rep \in Replaying \ {"wait", "round"} => released

\* A replay packet is at most MaxWindow plus what is sent between the check
\* and the build ahead of what the client has received: one keepalive, the
\* generators, and the answers the client has asked for meanwhile.  The check
\* reads 14 bits, across the wrap of the numbers, and an acknowledgement that
\* may be out of date.
WindowBound ==
    rep = "send" /\ built.conn = conn[built.client]
    => built.seq - acked[built.client] <= MaxWindow + Generators + answers

\* A replay packet is numbered in the connection its replay was started for.
OwnConnection == rep = "send" => [client |-> built.client, conn |-> built.conn] = target

\* A replay comes to its end, whatever the client does, unless the server is
\* blocked or gone: "Client stalled" is detected.
ReplayEnds == rep \in Replaying ~> rep \notin Replaying \/ ~Locked

\* "replay_active_.store(false); // signal old thread to stop", then join()
\* (game_server.h:3726): the old thread does stop and join returns.
JoinReturns == joining # {} ~> joining = {}
=============================================================================
