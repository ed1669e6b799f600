---------------------------- MODULE NativeSequencer ----------------------------
(***************************************************************************)
(* Native mode of GameServer without the replay loop: once the NMT         *)
(* exchange of a client is over, the receive thread starts the one         *)
(* NativeConnectSequencer, whose thread waits for the client to load the   *)
(* map, emits the rows of the bootstrap plan and then sends keepalives.    *)
(* The receive thread stops the previous sequencer, with client_mu_ held,  *)
(* and every emission of the sequencer is a callback that takes            *)
(* client_mu_.  A step is a stretch of code that holds the mutex           *)
(* throughout, or one that does not need it.                               *)
(*                                                                         *)
(* The probe files are absent, send_to succeeds and a replay file is       *)
(* loaded, so the first sequence number of a connection is always the      *)
(* captured one: sequence numbers are relative to it, 1 is 954.            *)
(***************************************************************************)
EXTENDS Integers, Sequences, FiniteSets

CONSTANTS
    Clients,
    Plan,            \* the rows of the bootstrap plan that send a reliable bunch
    MaxConnections,  \* bound: handshakes per client
    MaxWire          \* bound: no InitializeCharacter answer beyond this many bunches

Channels == {0, 3, 19}

\* How a row picks the sequence number of its bunch: from reliable_seq, from
\* the per-channel tracker, or a number written in the emitter.  A row that
\* fails gives up the next "skip" rows.
Rows == [how : {"counter", "tracker", "fixed"}, ch : Channels, num : Nat, skip : Nat]

ASSUME NativeAssumption ==
    /\ Plan \in Seq(Rows)
    /\ \A i \in 1..Len(Plan) : i + Plan[i].skip <= Len(Plan)
    /\ MaxConnections \in Nat /\ MaxWire \in Nat

\* Opcode 3, the spliced welcome, and the PlayerController's channel; then the
\* pawn's channel, ClientRestart and ClientInitializeCharacter.
DefaultPlan ==
    << [how |-> "counter", ch |-> 0, num |-> 0, skip |-> 0],
       [how |-> "tracker", ch |-> 0, num |-> 0, skip |-> 0],
       [how |-> "fixed", ch |-> 3, num |-> 1, skip |-> 0],
       [how |-> "fixed", ch |-> 19, num |-> 1, skip |-> 2],
       [how |-> "fixed", ch |-> 3, num |-> 2, skip |-> 0],
       [how |-> "fixed", ch |-> 3, num |-> 4, skip |-> 0] >>

VARIABLES
    phase,        \* ClientState::phase
    nmtState,     \* ClientState::nmt_state
    conn,         \* handshakes completed so far: numbers the connection
    reliableSeq,  \* reliable_seq: next number of channel 0
    tracker,      \* last_outgoing_reliable_chseq; 0 where the map has no entry
    wire,         \* reliable bunches sent in the connection: channel, number,
                  \* plan row and the sequencer's connection (0, 0: receive thread)
    released,     \* ghost: in this connection the client has signalled its map,
                  \* or the wait for it has come to its limit
    joining,      \* the client whose handler is in native_sequencer_->stop()
    mapLoaded,    \* native_map_loaded_
    running,      \* the sequencer's running_
    pc,           \* where its thread is; "none" before the first launch
    target,       \* the client and connection it was started for
    row           \* next row of the plan

clientVars == <<phase, nmtState, conn, reliableSeq, tracker, wire, released>>
serverVars == <<joining, mapLoaded>>
threadVars == <<running, pc, target, row>>
vars == <<clientVars, serverVars, threadVars>>

Phases == {"none", "AWAITING_INITIAL", "CHALLENGE_SENT", "HANDSHAKE_COMPLETE",
           "CONNECTED"}

\* Inside a callback, that is, between the last test of running_ and the end
\* of an emission, which needs client_mu_; and outside.
Inside == {"ping", "rows", "beat"}
Outside == {"check", "limit", "leave", "loop"}

Bunches == [ch : Channels, num : Nat, row : 0..Len(Plan), by : 0..MaxConnections]

TypeOK ==
    /\ phase \in [Clients -> Phases] /\ nmtState \in [Clients -> 0..4]
    /\ conn \in [Clients -> 0..MaxConnections]
    /\ reliableSeq \in [Clients -> Nat]
    /\ tracker \in [Clients -> [Channels -> Nat]]
    /\ wire \in [Clients -> Seq(Bunches)]
    /\ released \in [Clients -> BOOLEAN]
    /\ joining \subseteq Clients /\ mapLoaded \in BOOLEAN
    /\ running \in BOOLEAN /\ pc \in {"none", "exited"} \cup Inside \cup Outside
    /\ target \in [client : Clients, conn : 0..MaxConnections]
    /\ row \in 1..Len(Plan) + 1

Init ==
    /\ phase = [k \in Clients |-> "none"] /\ nmtState = [k \in Clients |-> 0]
    /\ conn = [k \in Clients |-> 0]
    /\ reliableSeq = [k \in Clients |-> 1]
    /\ tracker = [k \in Clients |-> [c \in Channels |-> 0]]
    /\ wire = [k \in Clients |-> << >>]
    /\ released = [k \in Clients |-> FALSE]
    /\ joining = {} /\ mapLoaded = FALSE
    /\ running = FALSE /\ pc = "none" /\ row = 1
    /\ target \in [client : Clients, conn : {0}]

\* client_mu_ is free: its only holder across steps is the handler that joins.
Locked == joining = {}

\* A reliable bunch of the receive thread.
Bunch(c, n) == [ch |-> c, num |-> n, row |-> 0, by |-> 0]

-----------------------------------------------------------------------------
(* The receive thread                                                      *)

HandleInitial(k) ==
    /\ Locked
    /\ phase' = [phase EXCEPT ![k] = "CHALLENGE_SENT"]
    /\ UNCHANGED <<nmtState, conn, reliableSeq, tracker, wire, released>>
    /\ UNCHANGED <<serverVars, threadVars>>

\* Faulty: the first bunch of a new connection follows the last of the old one.
HandleResponseKeepsCounter(k) ==
    /\ Locked /\ phase[k] # "none" /\ conn[k] < MaxConnections
    /\ phase' = [phase EXCEPT ![k] = "HANDSHAKE_COMPLETE"]
    /\ nmtState' = [nmtState EXCEPT ![k] = 0]
    /\ conn' = [conn EXCEPT ![k] = @ + 1]
    /\ wire' = [wire EXCEPT ![k] = << >>]
    /\ released' = [released EXCEPT ![k] = FALSE]
    /\ UNCHANGED <<reliableSeq, tracker, serverVars, threadVars>>

\* A new connection.  init_sequences resets reliable_seq, not the tracker.
HandleResponse(k) ==
    /\ Locked /\ phase[k] # "none" /\ conn[k] < MaxConnections
    /\ phase' = [phase EXCEPT ![k] = "HANDSHAKE_COMPLETE"]
    /\ nmtState' = [nmtState EXCEPT ![k] = 0]
    /\ conn' = [conn EXCEPT ![k] = @ + 1]
    /\ reliableSeq' = [reliableSeq EXCEPT ![k] = 1]
    /\ wire' = [wire EXCEPT ![k] = << >>]
    /\ released' = [released EXCEPT ![k] = FALSE]
    /\ UNCHANGED <<tracker, serverVars, threadVars>>

\* Hello is answered with a challenge, Login with a welcome.
HandleHelloOrLogin(k) ==
    /\ Locked /\ conn[k] > 0 /\ nmtState[k] \in {0, 1}
    /\ nmtState' = [nmtState EXCEPT ![k] = @ + 1]
    /\ wire' = [wire EXCEPT ![k] = Append(@, Bunch(0, reliableSeq[k]))]
    /\ reliableSeq' = [reliableSeq EXCEPT ![k] = @ + 1]
    /\ UNCHANGED <<phase, conn, tracker, released, serverVars, threadVars>>

HandleNetSpeed(k) ==
    /\ Locked /\ nmtState[k] \in {2, 3}
    /\ nmtState' = [nmtState EXCEPT ![k] = 3]
    /\ UNCHANGED <<phase, conn, reliableSeq, tracker, wire, released, serverVars, threadVars>>

\* Faulty: accepts Join and GameSpecific again after the exchange.
HandleReadyAgain(k) ==
    /\ Locked /\ nmtState[k] \in {2, 3, 4}
    /\ nmtState' = [nmtState EXCEPT ![k] = 4]
    /\ phase' = [phase EXCEPT ![k] = "CONNECTED"]
    /\ running' = FALSE /\ joining' = {k}
    /\ UNCHANGED <<conn, reliableSeq, tracker, wire, released, mapLoaded>>
    /\ UNCHANGED <<pc, target, row>>

\* Join or GameSpecific: the client is connected; the previous sequencer, if
\* any, is told to stop and joined with client_mu_ held.
HandleReady(k) ==
    /\ Locked /\ nmtState[k] \in {2, 3}
    /\ nmtState' = [nmtState EXCEPT ![k] = 4]
    /\ phase' = [phase EXCEPT ![k] = "CONNECTED"]
    /\ running' = FALSE /\ joining' = {k}
    /\ UNCHANGED <<conn, reliableSeq, tracker, wire, released, mapLoaded>>
    /\ UNCHANGED <<pc, target, row>>

\* Faulty: leaves the map flag of the previous session.
LaunchKeepsFlag ==
    /\ pc \in {"none", "exited"}
    /\ \E k \in joining : target' = [client |-> k, conn |-> conn[k]]
    /\ joining' = {} /\ running' = TRUE
    /\ pc' = "check" /\ row' = 1
    /\ UNCHANGED <<mapLoaded, clientVars>>

\* stop() has returned, or there was nothing to stop: the flag is cleared and
\* the next sequencer starts.
Launch ==
    /\ pc \in {"none", "exited"}
    /\ \E k \in joining : target' = [client |-> k, conn |-> conn[k]]
    /\ joining' = {} /\ mapLoaded' = FALSE /\ running' = TRUE
    /\ pc' = "check" /\ row' = 1
    /\ UNCHANGED clientVars

\* A packet with bunches and no control message: the map is loaded.
HandleGameBunch(k) ==
    /\ Locked /\ nmtState[k] = 4
    /\ mapLoaded' = TRUE
    /\ released' = [released EXCEPT ![k] = TRUE]
    /\ UNCHANGED <<phase, nmtState, conn, reliableSeq, tracker, wire, joining, threadVars>>

\* RequestInitializeCharacter, which the client sends once it has its
\* PlayerController, is answered with ClientInitializeCharacter, whose number
\* is the one the plan's last row has.
HandleInitRequest(k) ==
    /\ Locked /\ phase[k] = "CONNECTED" /\ Len(wire[k]) < MaxWire
    /\ \E i \in 1..Len(wire[k]) : wire[k][i].ch = 3
    /\ wire' = [wire EXCEPT ![k] = Append(@, Bunch(3, 4))]
    /\ UNCHANGED <<phase, nmtState, conn, reliableSeq, tracker, released>>
    /\ UNCHANGED <<serverVars, threadVars>>

TimeOut(k) ==
    /\ Locked /\ phase[k] \in {"HANDSHAKE_COMPLETE", "CONNECTED"}
    /\ phase' = [phase EXCEPT ![k] = "AWAITING_INITIAL"]
    /\ UNCHANGED <<nmtState, conn, reliableSeq, tracker, wire, released>>
    /\ UNCHANGED <<serverVars, threadVars>>

Receive ==
    \/ Launch
    \/ \E k \in Clients :
          \/ HandleInitial(k) \/ HandleResponse(k) \/ HandleHelloOrLogin(k)
          \/ HandleNetSpeed(k) \/ HandleReady(k) \/ HandleGameBunch(k)
          \/ HandleInitRequest(k) \/ TimeOut(k)

-----------------------------------------------------------------------------
(* The sequencer's thread                                                  *)

Here == target.client

\* Faulty: any client past the handshake will do.
ReachableEarly == phase[Here] \in {"HANDSHAKE_COMPLETE", "CONNECTED"}

\* Every callback refuses a client that is not connected.
Reachable == phase[Here] = "CONNECTED"

Goto(l) == pc' = l /\ UNCHANGED <<running, target, row>>

\* Error and Done are terminal: run() clears running_ and returns.
Exit == pc' = "exited" /\ running' = FALSE /\ UNCHANGED <<target, row>>

\* Faulty: waits for the map whether it is to stop or not.
CheckMapOnly ==
    /\ pc = "check"
    /\ Goto(IF ~mapLoaded THEN "ping" ELSE "leave")
    /\ UNCHANGED <<clientVars, serverVars>>

\* The wait for the map: a round, unless it must stop or the map is loaded.
Check ==
    /\ pc = "check"
    /\ Goto(IF running /\ ~mapLoaded THEN "ping" ELSE "leave")
    /\ UNCHANGED <<clientVars, serverVars>>

\* Its keepalive; an unreachable client is an error.
Ping ==
    /\ pc = "ping" /\ Locked
    /\ IF Reachable THEN Goto("limit") ELSE Exit
    /\ UNCHANGED <<clientVars, serverVars>>

GoOn ==
    /\ pc = "limit"
    /\ Goto("check")
    /\ UNCHANGED <<clientVars, serverVars>>

Release ==
    /\ released' = [released EXCEPT ![Here] = @ \/ target.conn = conn[Here]]
    /\ UNCHANGED <<phase, nmtState, conn, reliableSeq, tracker, wire>>

\* Faulty: counts the time and waits on.
GiveUpNever ==
    /\ pc = "limit"
    /\ Goto("check")
    /\ Release
    /\ UNCHANGED serverVars

\* 120 s have passed.
GiveUp ==
    /\ pc = "limit"
    /\ Goto("leave")
    /\ Release
    /\ UNCHANGED serverVars

\* The wait is over.
Leave ==
    /\ pc = "leave"
    /\ IF running THEN Goto("rows") ELSE Exit
    /\ UNCHANGED <<clientVars, serverVars>>

\* The sequence number of a row's bunch.  The tracker starts from the first
\* number of the connection.
NumberOf(r) ==
    CASE r.how = "counter" -> reliableSeq[Here]
      [] r.how = "tracker" -> tracker[Here][r.ch] + 1
      [] OTHER -> r.num

\* Only a spliced row moves the tracker.
SendRow(r) ==
    /\ wire' = [wire EXCEPT ![Here] =
          Append(@, [ch |-> r.ch, num |-> NumberOf(r), row |-> row, by |-> target.conn])]
    /\ reliableSeq' = [reliableSeq EXCEPT ![Here] = IF r.how = "counter" THEN @ + 1 ELSE @]
    /\ tracker' = [tracker EXCEPT ![Here][r.ch] =
          IF r.how = "tracker" THEN NumberOf(r) ELSE @]
    /\ UNCHANGED <<phase, nmtState, conn, released>>

AfterFailure(r) == row + 1 + r.skip

\* A row is sent, or fails softly.  running_ is not looked at.
EmitRow ==
    /\ pc = "rows" /\ row <= Len(Plan) /\ Locked
    /\ IF Reachable THEN /\ SendRow(Plan[row])
                         /\ row' = row + 1
                    ELSE /\ row' = AfterFailure(Plan[row])
                         /\ UNCHANGED clientVars
    /\ UNCHANGED <<serverVars, running, pc, target>>

\* on_world_bootstrap_complete: nothing is queued, but the mutex is taken.
Complete ==
    /\ pc = "rows" /\ row = Len(Plan) + 1 /\ Locked
    /\ Goto("loop")
    /\ UNCHANGED <<clientVars, serverVars>>

\* run()'s loop while the connection is maintained.
Maintain ==
    /\ pc = "loop"
    /\ IF running THEN Goto("beat") ELSE Exit
    /\ UNCHANGED <<clientVars, serverVars>>

Beat ==
    /\ pc = "beat" /\ Locked
    /\ IF Reachable THEN Goto("loop") ELSE Exit
    /\ UNCHANGED <<clientVars, serverVars>>

Sequencer == Check \/ Ping \/ GoOn \/ GiveUp \/ Leave \/ EmitRow \/ Complete \/ Maintain \/ Beat

Next == Receive \/ Sequencer

Spec == Init /\ [][Next]_vars

\* Both threads are scheduled, and time passes: a wait that comes to its limit
\* again and again is given up.
FairSpec == Spec /\ WF_vars(Launch) /\ WF_vars(Sequencer) /\ SF_vars(GiveUp)
-----------------------------------------------------------------------------
(* Properties                                                              *)

\* What the plan sends goes to the connection the sequencer was started for,
\* never to a later one of the same client: the callbacks refuse a client in
\* its handshake, and stop() returns before the next connection is served.
OwnConnection ==
    \A k \in Clients : \A i \in 1..Len(wire[k]) :
        wire[k][i].row > 0 => wire[k][i].by = conn[k]

\* A connection gets every row of the plan once, and each after the row before
\* it, although rows may fail, the client may time out and sequencers come and
\* go in the middle of the plan.
PlanOrder ==
    \A k \in Clients : \A i \in 1..Len(wire[k]) :
        /\ wire[k][i].row > 1 => \E j \in 1..i - 1 : wire[k][j].row = wire[k][i].row - 1
        /\ wire[k][i].row > 0 => \A j \in 1..i - 1 : wire[k][j].row # wire[k][i].row

\* With one client, the plan starts only after the client has loaded the map in
\* this connection, or at the limit of the wait: a signal of the connection
\* before does not count.
MapLoadWaits ==
    \A k \in Clients : \A i \in 1..Len(wire[k]) :
        wire[k][i].row > 0 => released[k]

\* Bunch b has its number from reliable_seq: the receive thread's on channel 0,
\* and the rows that say so.
Counted(b) == IF b.row = 0 THEN b.ch = 0 ELSE Plan[b.row].how = "counter"

\* n - 1 counted bunches of w are numbered 1, 2, ... in the order they were sent.
CountedUpTo(w, n) ==
    LET counted == {i \in 1..Len(w) : Counted(w[i])}
    IN  /\ \A i, j \in counted : i < j => w[i].num < w[j].num
        /\ {w[i].num : i \in counted} = 1..n - 1

\* The receive thread and the sequencer number their bunches from one counter:
\* in each connection no number is missing and none is given twice, whichever
\* of them sends and whatever sequencer is stopped in between.
CounterSequence == \A k \in Clients : CountedUpTo(wire[k], reliableSeq[k])

\* stop() returns if it does not find the sequencer inside a callback.  (Inside
\* one the sequencer waits for the mutex stop()'s caller holds, for ever.)
StopReturns == joining # {} /\ pc \in Outside ~> joining = {}

\* A sequencer does not wait for the map for ever, whatever the client does;
\* only a stop() that finds it inside its keepalive holds it there.
WaitEnds == pc = "check" ~> pc \in {"rows", "loop", "beat", "exited"} \/ joining # {}

\* The bunches a connection gets on a channel are numbered one after the other.
ReliableInSequence ==
    \A k \in Clients : \A i \in 1..Len(wire[k]) :
        wire[k][i].num = 1 + Cardinality({j \in 1..i - 1 : wire[k][j].ch = wire[k][i].ch})
=============================================================================
