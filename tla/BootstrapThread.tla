---------------------------- MODULE BootstrapThread ----------------------------
(***************************************************************************)
(* Normal mode of GameServer, without a replay file: the packet that ends  *)
(* the NMT exchange launches bootstrap_loop, which sends the embedded      *)
(* world state to the client, spawns a player controller and keeps the     *)
(* connection alive until the client has gone.  The flag bootstrap_active  *)
(* belongs to a client, the thread to the server.                          *)
(*                                                                         *)
(* Each captured packet carries one reliable bunch or none.  The number of *)
(* a bunch has 10 bits; the code reads, compares and patches it together   *)
(* with the two bits behind it, and that is what a field is here.  The     *)
(* field is renumbered from in_reliable_base of the connection; the code   *)
(* renumbers the whole capture before it sends, here a packet is renumbered*)
(* when it is built, which comes to the same since its number depends on   *)
(* the packets before it only.  The capture is not fixed: any field may    *)
(* come next.  Packets, and the bunches of a channel that are renumbered,  *)
(* are counted on from the first of their connection.                      *)
(***************************************************************************)
EXTENDS Integers

CONSTANTS
    Clients,
    Channels,       \* channels of the captured bunches
    SeqSize,        \* numbers of a bunch: 1024
    FieldSize,      \* values of the field that is read and patched: 4096
    ReliableBase,   \* in_reliable_base of each connection
    MaxJump,        \* MAX_JUMP
    NumPackets,     \* BOOTSTRAP_PACKET_COUNT
    StopAhead,      \* unacknowledged packets at which the client is given up
    MaxSeq,         \* bound: below this number keepalives and answers are
                    \* sent and control messages end the exchange (again)
    MaxConnections  \* bound: handshakes per client

ASSUME BootstrapAssumption ==
    /\ {SeqSize, FieldSize, MaxJump, NumPackets, StopAhead, MaxSeq, MaxConnections}
          \subseteq Nat
    /\ 0 < SeqSize /\ FieldSize % SeqSize = 0 /\ MaxJump < FieldSize - 1
    /\ ReliableBase \in [Clients -> [0..MaxConnections -> 0..FieldSize-1]]

VARIABLES
    phase,      \* ClientState::phase
    nmtState,   \* ClientState::nmt_state, 0 to 4
    conn,       \* handshakes completed so far: numbers the connection
    outSeq,     \* out_seq, relative to the connection's initial sequence
    outAck,     \* out_ack_seq, likewise
    wire,       \* highest number sent so far in the present connection
    active,     \* bootstrap_active
    joining,    \* the client whose handler is in bootstrap_thread_.join(), if any
    boot,       \* where the thread is; "none" before the first launch
    target,     \* the client the thread was launched for
    base,       \* the connection whose in_reliable_base it has read
    left,       \* packets still to do
    lastRaw,    \* last_raw; expected_next is one more
    chNext,     \* ch_next, counted on from base; last_assigned is one less
    built,      \* the packet just built
    answers,    \* ghost: answers to the client that packet is for, since then
    sent, sentRaw \* ghosts: number and captured field of the last patched
                  \* bunch that this bootstrap has sent, per channel

clientVars == <<phase, nmtState, conn, outSeq, outAck, wire>>
planVars   == <<base, lastRaw, chNext>>
ghostVars  == <<sent, sentRaw>>
threadVars == <<boot, target, left, built, answers, planVars, ghostVars>>
vars == <<clientVars, active, joining, threadVars>>

Phases == {"none", "AWAITING_INITIAL", "CHALLENGE_SENT", "HANDSHAKE_COMPLETE",
           "CONNECTED"}
Sending == {"loop", "build", "send"}
None == -1
Fields == 0..FieldSize-1

\* A captured bunch: its channel and the field; num, which the field is patched
\* with, counts on from base, and is 0 if the field is left as it is.
NoBunch == [chan |-> None, raw |-> None, num |-> 0]
Bunches == {NoBunch} \cup [chan : Channels, raw : Fields, num : Nat]
NoPacket == [conn |-> 0, seq |-> 0, bunch |-> NoBunch]

TypeOK ==
    /\ phase \in [Clients -> Phases] /\ nmtState \in [Clients -> 0..4]
    /\ conn \in [Clients -> 0..MaxConnections]
    /\ outSeq \in [Clients -> Nat] /\ outAck \in [Clients -> Nat]
    /\ wire \in [Clients -> Nat]
    /\ active \in [Clients -> BOOLEAN] /\ joining \subseteq Clients
    /\ boot \in Sending \cup {"none", "start", "spawn", "post", "clear", "exited"}
    /\ target \in Clients /\ base \in 0..MaxConnections /\ left \in 0..NumPackets
    /\ boot = "build" => left # 0
    /\ lastRaw \in [Channels -> Fields \cup {None}] /\ chNext \in [Channels -> Nat \ {0}]
    /\ built \in [conn : 0..MaxConnections, seq : Nat, bunch : Bunches]
    /\ answers \in Nat
    /\ sent \in [Channels -> Nat] /\ sentRaw \in [Channels -> Fields \cup {None}]

Init ==
    /\ phase = [k \in Clients |-> "none"] /\ nmtState = [k \in Clients |-> 0]
    /\ conn = [k \in Clients |-> 0]
    /\ outSeq = [k \in Clients |-> 1] /\ outAck = [k \in Clients |-> 0]
    /\ wire = [k \in Clients |-> 0]
    /\ active = [k \in Clients |-> FALSE] /\ joining = {}
    /\ boot = "none" /\ target \in Clients /\ base = 0 /\ left = 0
    /\ lastRaw = [c \in Channels |-> None] /\ chNext = [c \in Channels |-> 1]
    /\ built = NoPacket /\ answers = 0
    /\ sent = [c \in Channels |-> 0] /\ sentRaw = [c \in Channels |-> None]

\* client_mu_ is free: no handler waits in join() with it.
Locked == joining = {}

\* The packets of k the client has not acknowledged, the next one included.
Ahead(k) == outSeq[k] - outAck[k]

\* A captured packet of k's present connection has been numbered and not sent.
Pending(k) == boot = "send" /\ target = k /\ built.conn = conn[k]

\* Numbers and sends a packet to k, within client_mu_.
SendNow(k) ==
    /\ outSeq' = [outSeq EXCEPT ![k] = @ + 1]
    /\ wire' = [wire EXCEPT ![k] = outSeq[k]]

\* A keepalive is left out only at the bound.
SendKeepalive(k) ==
    IF outSeq[k] < MaxSeq THEN SendNow(k) ELSE UNCHANGED <<outSeq, wire>>

-----------------------------------------------------------------------------
(* The receive thread                                                      *)

HandleInitial(k) ==
    /\ Locked
    /\ phase' = [phase EXCEPT ![k] = "CHALLENGE_SENT"]
    /\ UNCHANGED <<nmtState, conn, outSeq, outAck, wire, active, joining, threadVars>>

\* A new connection: init_sequences starts its numbering over, and leaves
\* bootstrap_active as it is.
HandleResponse(k) ==
    /\ Locked /\ phase[k] # "none" /\ conn[k] < MaxConnections
    /\ phase' = [phase EXCEPT ![k] = "HANDSHAKE_COMPLETE"]
    /\ nmtState' = [nmtState EXCEPT ![k] = 0]
    /\ conn' = [conn EXCEPT ![k] = @ + 1]
    /\ outSeq' = [outSeq EXCEPT ![k] = 1] /\ outAck' = [outAck EXCEPT ![k] = 0]
    /\ wire' = [wire EXCEPT ![k] = 0]
    /\ UNCHANGED <<active, joining, threadVars>>

\* Hello, answered with a challenge, and Login, answered with a welcome.
HandleHello(k) ==
    /\ nmtState[k] = 0
    /\ nmtState' = [nmtState EXCEPT ![k] = 1]
    /\ SendNow(k)
    /\ UNCHANGED <<phase, active, joining>>

HandleLogin(k) ==
    /\ nmtState[k] = 1
    /\ nmtState' = [nmtState EXCEPT ![k] = 2]
    /\ SendNow(k)
    /\ UNCHANGED <<phase, active, joining>>

\* Control messages are ignored while the bootstrap runs.
Ignores(k) == active[k] /\ nmtState[k] >= 4

\* Faulty: answers control messages while the bootstrap runs.
NetspeedAnswered(k) ==
    /\ nmtState[k] >= 2
    /\ SendKeepalive(k)
    /\ UNCHANGED <<phase, nmtState, active, joining>>

HandleNetspeed(k) ==
    /\ nmtState[k] >= 2 /\ ~Ignores(k)
    /\ nmtState' = [nmtState EXCEPT ![k] = 3]
    /\ SendKeepalive(k)
    /\ UNCHANGED <<phase, active, joining>>

\* Join or GameSpecific.  Unless a bootstrap of the client is still active, the
\* handler joins the old thread with client_mu_ held and launches a new one.
HandleReady(k) ==
    /\ nmtState[k] >= 2 /\ ~Ignores(k) /\ outSeq[k] < MaxSeq
    /\ nmtState' = [nmtState EXCEPT ![k] = 4]
    /\ phase' = [phase EXCEPT ![k] = "CONNECTED"]
    /\ SendKeepalive(k)
    /\ active' = [active EXCEPT ![k] = TRUE]
    /\ joining' = IF active[k] THEN {} ELSE {k}

\* A packet without control messages, or with ignored ones.
HandleOther(k) == UNCHANGED <<phase, nmtState, outSeq, wire, active, joining>>

\* One control message at a time: a packet with several is several of these
\* steps with nothing in between.  A client sends data once it is connected; a
\* packet that arrives late acknowledges less than the one before it.
HandleData(k) ==
    /\ Locked /\ conn[k] > 0
    /\ \E a \in 0..wire[k] : /\ Pending(k) => a # built.seq
                            /\ outAck' = [outAck EXCEPT ![k] = a]
    /\ \/ HandleHello(k) \/ HandleLogin(k)
       \/ HandleNetspeed(k) \/ HandleReady(k) \/ HandleOther(k)
    /\ UNCHANGED <<conn, threadVars>>

\* A reliable bunch of channel 3 that asks for the character: before the handler
\* takes client_mu_ the parser numbers and sends the answer, in every mode.
HandleInitRequest(k) ==
    /\ Locked /\ phase[k] = "CONNECTED" /\ outSeq[k] < MaxSeq
    /\ SendNow(k)
    /\ answers' = IF Pending(k) THEN answers + 1 ELSE answers
    /\ UNCHANGED <<phase, nmtState, conn, outAck, active, joining>>
    /\ UNCHANGED <<boot, target, left, built, planVars, ghostVars>>

\* join() has returned, or there was no thread: the new one starts.
Launch ==
    /\ boot \in {"none", "exited"}
    /\ \E k \in joining : target' = k
    /\ joining' = {}
    /\ boot' = "start" /\ left' = NumPackets
    /\ UNCHANGED <<clientVars, active, built, answers, planVars, ghostVars>>

\* send_periodic_keepalives for one client: the idle limit ...
TimeOut(k) ==
    /\ Locked /\ phase[k] \in {"HANDSHAKE_COMPLETE", "CONNECTED"}
    /\ phase' = [phase EXCEPT ![k] = "AWAITING_INITIAL"]
    /\ UNCHANGED <<nmtState, conn, outSeq, outAck, wire, active, joining, threadVars>>

\* Faulty: sends during a bootstrap as well.
PeriodicKeepaliveAlways(k) ==
    /\ Locked /\ phase[k] \in {"HANDSHAKE_COMPLETE", "CONNECTED"}
    /\ SendKeepalive(k)
    /\ UNCHANGED <<phase, nmtState, conn, outAck, active, joining, threadVars>>

\* ... and the keepalive, which a bootstrap of a connected client replaces.
PeriodicKeepalive(k) ==
    /\ Locked /\ phase[k] \in {"HANDSHAKE_COMPLETE", "CONNECTED"}
    /\ ~(active[k] /\ phase[k] = "CONNECTED")
    /\ SendKeepalive(k)
    /\ UNCHANGED <<phase, nmtState, conn, outAck, active, joining, threadVars>>

Receive == \/ Launch
           \/ \E k \in Clients : \/ HandleInitial(k) \/ HandleResponse(k)
                                 \/ HandleData(k) \/ HandleInitRequest(k)
                                 \/ TimeOut(k) \/ PeriodicKeepalive(k)

-----------------------------------------------------------------------------
(* Renumbering: the filter and the numbers of bootstrap_loop.              *)

\* Forward distance of field v from the expected one, modulo the field's size.
Gap(c, v) == (v - (lastRaw[c] + 1)) % FieldSize

Forward(c, v) == lastRaw[c] = None \/ Gap(c, v) <= MaxJump

\* A retransmission carries the field of the last bunch again.  Whatever else
\* is behind is taken for a position that is no sequence field at all.
Retransmit(c, v) == ~Forward(c, v) /\ v = lastRaw[c]

\* Faulty: a retransmission takes a number of its own.
NumberForAnew(c, v) == IF Forward(c, v) \/ Retransmit(c, v) THEN chNext[c] ELSE 0

NumberFor(c, v) ==
    IF Forward(c, v) THEN chNext[c] ELSE IF Retransmit(c, v) THEN chNext[c] - 1 ELSE 0

Renumber(c, v) ==
    /\ lastRaw' = [lastRaw EXCEPT ![c] = IF Forward(c, v) THEN v ELSE @]
    /\ chNext' = [chNext EXCEPT ![c] = IF Forward(c, v) THEN @ + 1 ELSE @]
    /\ UNCHANGED base

-----------------------------------------------------------------------------
(* The bootstrap thread                                                    *)

Connected == phase[target] = "CONNECTED"

Goto(pc) == boot' = pc /\ UNCHANGED <<target, left, built, answers, planVars, ghostVars>>

\* Steps that only move the thread on.
MoveTo(pc) ==
    /\ Goto(pc)
    /\ UNCHANGED <<clientVars, active, joining>>

\* The maps are local to a bootstrap: each starts with empty ones.
EmptyPlan ==
    /\ lastRaw' = [c \in Channels |-> None] /\ chNext' = [c \in Channels |-> 1]
    /\ sent' = [c \in Channels |-> 0] /\ sentRaw' = [c \in Channels |-> None]

LeaveLoop ==
    /\ boot' = "spawn" /\ left' = 0 /\ EmptyPlan /\ UNCHANGED base
    /\ UNCHANGED <<clientVars, active, joining, target, built, answers>>

\* in_reliable_base is read under the lock.
Start ==
    /\ boot = "start" /\ Locked
    /\ boot' = "loop" /\ base' = conn[target]
    /\ UNCHANGED <<clientVars, active, joining, target, left, built, answers>>
    /\ UNCHANGED <<lastRaw, chNext, ghostVars>>

\* An empty packet is skipped; otherwise the pacing block looks at the client.
Pace ==
    /\ boot = "loop" /\ Locked
    /\ IF left = 0 \/ ~Connected \/ Ahead(target) > StopAhead
       THEN LeaveLoop
       ELSE MoveTo("build")

\* The next packet takes a number.
Build ==
    /\ boot = "build" /\ Locked
    /\ IF ~Connected THEN LeaveLoop
       ELSE /\ boot' = "send" /\ left' = left - 1
            /\ outSeq' = [outSeq EXCEPT ![target] = @ + 1]
            /\ \/ /\ built' = [conn |-> conn[target], seq |-> outSeq[target],
                               bunch |-> NoBunch]
                  /\ UNCHANGED planVars
               \/ \E c \in Channels, v \in Fields :
                    /\ built' = [conn |-> conn[target], seq |-> outSeq[target],
                                 bunch |-> [chan |-> c, raw |-> v,
                                            num |-> NumberFor(c, v)]]
                    /\ Renumber(c, v)
            /\ UNCHANGED <<phase, nmtState, conn, outAck, wire, active, joining,
                           target, answers, ghostVars>>

\* Outside the lock: whatever happened since, the packet goes out.
Send ==
    /\ boot = "send"
    /\ boot' = "loop" /\ built' = NoPacket /\ answers' = 0
    /\ wire' = IF built.conn = conn[target] /\ wire[target] < built.seq
               THEN [wire EXCEPT ![target] = built.seq] ELSE wire
    /\ IF built.conn = base /\ built.bunch.num # 0
       THEN /\ sent' = [sent EXCEPT ![built.bunch.chan] = built.bunch.num]
            /\ sentRaw' = [sentRaw EXCEPT ![built.bunch.chan] = built.bunch.raw]
       ELSE UNCHANGED ghostVars
    /\ UNCHANGED <<phase, nmtState, conn, outSeq, outAck, active, joining, target,
                   left, planVars>>

\* The player controller, if the client is still there.
SpawnController ==
    /\ boot = "spawn" /\ Locked
    /\ IF Connected THEN SendNow(target) ELSE UNCHANGED <<outSeq, wire>>
    /\ Goto("post")
    /\ UNCHANGED <<phase, nmtState, conn, outAck, active, joining>>

\* Faulty: the keepalive loop does not look at the phase.
KeepAliveForEver ==
    /\ boot = "post" /\ Locked
    /\ SendKeepalive(target)
    /\ Goto("post")
    /\ UNCHANGED <<phase, nmtState, conn, outAck, active, joining>>

\* Faulty: the flag is cleared before the keepalive loop.
ClearBeforeKeepAlive ==
    /\ boot = "post" /\ Locked
    /\ IF Connected
       THEN /\ SendKeepalive(target)
            /\ active' = [active EXCEPT ![target] = FALSE]
            /\ Goto("post")
            /\ UNCHANGED <<phase, nmtState, conn, outAck, joining>>
       ELSE MoveTo("clear")

\* The keepalive loop ends with the connection.
KeepAlive ==
    /\ boot = "post" /\ Locked
    /\ IF Connected
       THEN /\ SendKeepalive(target)
            /\ Goto("post")
            /\ UNCHANGED <<phase, nmtState, conn, outAck, active, joining>>
       ELSE MoveTo("clear")

\* bootstrap_active is cleared under the lock, and the thread returns.
Clear ==
    /\ boot = "clear" /\ Locked
    /\ active' = [active EXCEPT ![target] = FALSE]
    /\ Goto("exited")
    /\ UNCHANGED <<clientVars, joining>>

Bootstrap == \/ Start \/ Pace \/ Build \/ Send \/ SpawnController \/ KeepAlive \/ Clear

-----------------------------------------------------------------------------

Next == Receive \/ Bootstrap

Spec == Init /\ [][Next]_vars

\* Both threads keep running.
FairSpec == Spec /\ WF_vars(Launch) /\ WF_vars(Bootstrap)

-----------------------------------------------------------------------------
(* Properties                                                              *)

\* "advancing out_seq from two threads simultaneously causes sequence gaps
\* that confuse the client": the packets of a connection leave in the order of
\* their numbers, although a captured packet is sent after the lock under which
\* it was numbered has been released.  The answer to a bunch that asks for the
\* character is the one exception: it may overtake that packet.
InOrder ==
    [][\A k \in Clients :
         conn'[k] = conn[k] /\ wire'[k] # wire[k] =>
           \/ wire'[k] = wire[k] + 1
           \/ Pending(k) /\ answers' > answers /\ wire'[k] = wire[k] + 2]_vars

\* The patched bunches of a channel are numbered without gaps: each has the next
\* number, or repeats number and content of the last.  It holds in the connection
\* the bootstrap has been numbered for; it says nothing of a bunch that is left
\* as it was captured, nor of what the patch does to the bits behind the number.
Renumbered ==
    boot = "send" /\ built.conn = base /\ built.bunch.num # 0 =>
      LET b == built.bunch
      IN  \/ b.num = sent[b.chan] + 1 /\ b.raw # sentRaw[b.chan]
          \/ b.num = sent[b.chan] /\ b.raw = sentRaw[b.chan]

\* The field of bunch b as it is sent, and the number n of a base as a client
\* reads it, of SeqSize numbers.
SentField(b) == IF b.num = 0 THEN b.raw
                ELSE (ReliableBase[target][base] + b.num) % FieldSize
NumberAt(n) == (ReliableBase[target][base] + n) % SeqSize

\* In the capture, b comes after the last bunch of its channel that was patched.
Continues(b) == sent[b.chan] # 0 /\ (b.raw - sentRaw[b.chan]) % SeqSize \in 1..MaxJump+1

\* "the client receives a clean gapless sequence on every channel"
\* (game_server.h:5405): when the capture goes on with its channel, so does what
\* the client reads from the bunch that is sent.
CleanSequence ==
    boot = "send" /\ built.conn = base /\ built.bunch # NoBunch =>
      LET b == built.bunch
      IN  Continues(b) => SentField(b) % SeqSize = NumberAt(sent[b.chan] + 1)

\* A handler joins only a thread that needs client_mu_ no more: with a single
\* client the join under the lock cannot block.
JoinsFinished == joining # {} => boot \in {"none", "exited"}

\* "so a reconnect can trigger a fresh bootstrap": the flag of a client that has
\* gone is cleared, unless the client is back before the thread has noticed.
FlagClears ==
    \A k \in Clients :
        (active[k] /\ phase[k] # "CONNECTED") ~> (~active[k] \/ phase[k] = "CONNECTED")
=============================================================================
