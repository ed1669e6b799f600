------------------------- MODULE NativeSequencerProofs -------------------------
(***************************************************************************)
(* Theorems about NativeSequencer, for every plan and any number of        *)
(* clients and connections: the types, that the plan's bunches reach the   *)
(* connection the sequencer was started for, each once and in the plan's   *)
(* order, and, for a server with one client, that they wait for its map.   *)
(***************************************************************************)
EXTENDS NativeSequencer, TLAPS

-----------------------------------------------------------------------------
\* Types.

LEMMA BunchTyped ==
    ASSUME NEW c \in Channels, NEW n \in Nat
    PROVE  Bunch(c, n) \in Bunches /\ Bunch(c, n).row = 0
BY NativeAssumption DEF Bunch, Bunches, Channels

LEMMA RowTyped ==
    ASSUME TypeOK, row <= Len(Plan)
    PROVE  /\ Plan[row] \in Rows
           /\ NumberOf(Plan[row]) \in Nat
           /\ [ch |-> Plan[row].ch, num |-> NumberOf(Plan[row]), row |-> row,
               by |-> target.conn] \in Bunches
<1>1. row \in 1..Len(Plan) /\ Len(Plan) \in Nat
  BY NativeAssumption DEF TypeOK
<1>2. Plan[row] \in Rows
  BY <1>1, NativeAssumption
<1>3. NumberOf(Plan[row]) \in Nat
  <2>1. reliableSeq[Here] \in Nat /\ tracker[Here][Plan[row].ch] \in Nat
    BY <1>2 DEF TypeOK, Here, Rows
  <2> QED BY <1>2, <2>1 DEF NumberOf, Rows
<1> QED BY <1>1, <1>2, <1>3 DEF TypeOK, Bunches, Rows

LEMMA AfterFailureTyped ==
    ASSUME TypeOK, row <= Len(Plan)
    PROVE  AfterFailure(Plan[row]) \in 1..Len(Plan) + 1
<1>1. row \in 1..Len(Plan) /\ Len(Plan) \in Nat
  BY NativeAssumption DEF TypeOK
<1>2. row + Plan[row].skip <= Len(Plan)
  BY <1>1, NativeAssumption
<1>3. Plan[row].skip \in Nat
  BY RowTyped DEF Rows
<1> QED BY <1>1, <1>2, <1>3 DEF AfterFailure

LEMMA InitTypeOK ==
    ASSUME Init
    PROVE  TypeOK
<1>1. wire \in [Clients -> Seq(Bunches)]
  BY DEF Init
<1>2. row \in 1..Len(Plan) + 1
  BY NativeAssumption DEF Init
<1>3. /\ conn \in [Clients -> 0..MaxConnections]
      /\ target \in [client : Clients, conn : 0..MaxConnections]
  BY NativeAssumption DEF Init
<1>4. tracker \in [Clients -> [Channels -> Nat]] /\ reliableSeq \in [Clients -> Nat]
  BY DEF Init
<1>5. phase \in [Clients -> Phases] /\ nmtState \in [Clients -> 0..4]
  BY DEF Init, Phases
<1> QED BY <1>1, <1>2, <1>3, <1>4, <1>5 DEF Init, TypeOK

LEMMA ReceiveTypeOK ==
    ASSUME TypeOK, Receive
    PROVE  TypeOK'
<1> USE DEF TypeOK, clientVars, serverVars, threadVars
<1>1. CASE Launch
  <2>1. row' \in 1..Len(Plan) + 1
    BY <1>1, NativeAssumption DEF Launch
  <2>2. target' \in [client : Clients, conn : 0..MaxConnections]
    BY <1>1 DEF Launch
  <2>3. joining' \subseteq Clients /\ pc' \in {"none", "exited"} \cup Inside \cup Outside
    BY <1>1 DEF Launch, Outside
  <2> QED BY <1>1, <2>1, <2>2, <2>3 DEF Launch
<1>2. ASSUME NEW k \in Clients, HandleInitial(k) PROVE TypeOK'
  BY <1>2 DEF HandleInitial, Phases
<1>3. ASSUME NEW k \in Clients, HandleResponse(k) PROVE TypeOK'
  <2>1. wire' \in [Clients -> Seq(Bunches)]
    BY <1>3 DEF HandleResponse
  <2>2. conn' \in [Clients -> 0..MaxConnections]
    BY <1>3, NativeAssumption DEF HandleResponse
  <2> QED BY <1>3, <2>1, <2>2 DEF HandleResponse, Phases
<1>4. ASSUME NEW k \in Clients, HandleHelloOrLogin(k) PROVE TypeOK'
  <2>1. Bunch(0, reliableSeq[k]) \in Bunches
    BY BunchTyped DEF Channels
  <2>2. wire' \in [Clients -> Seq(Bunches)]
    BY <1>4, <2>1 DEF HandleHelloOrLogin
  <2>3. nmtState' \in [Clients -> 0..4]
    <3>1. nmtState[k] + 1 \in 0..4 /\ nmtState' = [nmtState EXCEPT ![k] = nmtState[k] + 1]
      BY <1>4 DEF HandleHelloOrLogin
    <3> QED BY <3>1
  <2>4. reliableSeq' \in [Clients -> Nat]
    <3>1. /\ reliableSeq[k] + 1 \in Nat
          /\ reliableSeq' = [reliableSeq EXCEPT ![k] = reliableSeq[k] + 1]
      BY <1>4 DEF HandleHelloOrLogin
    <3> QED BY <3>1
  <2>5. UNCHANGED <<phase, conn, tracker, released, joining, mapLoaded, running, pc, target, row>>
    BY <1>4 DEF HandleHelloOrLogin
  <2> QED BY <2>2, <2>3, <2>4, <2>5
<1>5. ASSUME NEW k \in Clients, HandleNetSpeed(k) PROVE TypeOK'
  BY <1>5 DEF HandleNetSpeed
<1>6. ASSUME NEW k \in Clients, HandleReady(k) PROVE TypeOK'
  <2>1. joining' \subseteq Clients /\ phase' \in [Clients -> Phases]
    BY <1>6 DEF HandleReady, Phases
  <2>2. nmtState' \in [Clients -> 0..4]
    <3>1. nmtState' = [nmtState EXCEPT ![k] = 4] /\ 4 \in 0..4
      BY <1>6 DEF HandleReady
    <3> QED BY <3>1
  <2>4. running' \in BOOLEAN
    BY <1>6 DEF HandleReady
  <2>3. UNCHANGED <<conn, reliableSeq, tracker, wire, released, mapLoaded, pc, target, row>>
    BY <1>6 DEF HandleReady
  <2> QED BY <2>1, <2>2, <2>3, <2>4
<1>7. ASSUME NEW k \in Clients, HandleGameBunch(k) PROVE TypeOK'
  BY <1>7 DEF HandleGameBunch
<1>8. ASSUME NEW k \in Clients, HandleInitRequest(k) PROVE TypeOK'
  <2>1. Bunch(3, 4) \in Bunches
    BY BunchTyped DEF Channels
  <2>2. wire' \in [Clients -> Seq(Bunches)]
    BY <1>8, <2>1 DEF HandleInitRequest
  <2> QED BY <1>8, <2>2 DEF HandleInitRequest
<1>9. ASSUME NEW k \in Clients, TimeOut(k) PROVE TypeOK'
  BY <1>9 DEF TimeOut, Phases
<1> QED BY <1>1, <1>2, <1>3, <1>4, <1>5, <1>6, <1>7, <1>8, <1>9 DEF Receive

LEMMA SequencerTypeOK ==
    ASSUME TypeOK, Sequencer
    PROVE  TypeOK'
<1> USE DEF TypeOK, clientVars, serverVars, Goto, Exit, Inside, Outside
<1>1. CASE Check
  BY <1>1 DEF Check
<1>2. CASE Ping
  BY <1>2 DEF Ping
<1>3. CASE GoOn
  BY <1>3 DEF GoOn
<1>4. CASE GiveUp
  <2>1. released' \in [Clients -> BOOLEAN]
    <3>1. (target.conn = conn[Here]) \in BOOLEAN
      OBVIOUS
    <3> QED BY <1>4, <3>1 DEF GiveUp, Release
  <2> QED BY <1>4, <2>1 DEF GiveUp, Release
<1>5. CASE Leave
  BY <1>5 DEF Leave
<1>6. CASE EmitRow
  <2> DEFINE r == Plan[row]
  <2>0. row <= Len(Plan)
    BY <1>6 DEF EmitRow
  <2>1. row + 1 \in 1..Len(Plan) + 1 /\ AfterFailure(r) \in 1..Len(Plan) + 1
    BY <2>0, AfterFailureTyped, NativeAssumption
  <2>2. row' \in 1..Len(Plan) + 1
    BY <1>6, <2>1 DEF EmitRow
  <2>3. CASE Reachable
    <3>1. SendRow(r)
      BY <1>6, <2>3 DEF EmitRow
    <3>2. r \in Rows /\ NumberOf(r) \in Nat
      BY <2>0, RowTyped
    <3>3. wire' \in [Clients -> Seq(Bunches)]
      <4> DEFINE b == [ch |-> r.ch, num |-> NumberOf(r), row |-> row, by |-> target.conn]
      <4>1. b \in Bunches
        BY <2>0, RowTyped
      <4>2. wire' = [wire EXCEPT ![Here] = Append(@, b)]
        BY <3>1 DEF SendRow
      <4>3. wire[Here] \in Seq(Bunches) /\ Here \in Clients
        BY DEF Here
      <4> HIDE DEF b
      <4>4. Append(wire[Here], b) \in Seq(Bunches)
        BY <4>1, <4>3
      <4> QED BY <4>2, <4>3, <4>4
    <3>4. reliableSeq' \in [Clients -> Nat]
      <4>1. reliableSeq[Here] \in Nat /\ Here \in Clients
        BY DEF Here
      <4> DEFINE n == IF r.how = "counter" THEN reliableSeq[Here] + 1 ELSE reliableSeq[Here]
      <4>2. n \in Nat
        BY <4>1
      <4>3. reliableSeq' = [reliableSeq EXCEPT ![Here] = n]
        BY <3>1 DEF SendRow
      <4> HIDE DEF n
      <4> QED BY <4>1, <4>2, <4>3
    <3>5. tracker' \in [Clients -> [Channels -> Nat]]
      <4> DEFINE n == IF r.how = "tracker" THEN NumberOf(r) ELSE tracker[Here][r.ch]
                 inner == [tracker[Here] EXCEPT ![r.ch] = n]
      <4>1. Here \in Clients /\ r.ch \in Channels /\ tracker[Here] \in [Channels -> Nat]
        BY <3>2 DEF Here, Rows
      <4>2. tracker' = [tracker EXCEPT ![Here] = inner]
        BY <3>1 DEF SendRow
      <4>3. n \in Nat
        BY <3>2, <4>1
      <4> HIDE DEF n
      <4>4. inner \in [Channels -> Nat]
        BY <4>1, <4>3
      <4> HIDE DEF inner
      <4> QED BY <4>1, <4>2, <4>4
    <3> QED BY <1>6, <2>2, <3>1, <3>3, <3>4, <3>5 DEF EmitRow, SendRow
  <2>4. CASE ~Reachable
    BY <1>6, <2>2, <2>4 DEF EmitRow
  <2> QED BY <2>3, <2>4
<1>7. CASE Complete
  BY <1>7 DEF Complete
<1>8. CASE Maintain
  BY <1>8 DEF Maintain
<1>9. CASE Beat
  BY <1>9 DEF Beat
<1> QED BY <1>1, <1>2, <1>3, <1>4, <1>5, <1>6, <1>7, <1>8, <1>9 DEF Sequencer

LEMMA StutterTypeOK ==
    ASSUME TypeOK, UNCHANGED vars
    PROVE  TypeOK'
BY DEF TypeOK, vars, clientVars, serverVars, threadVars

\* Every variable keeps its type, whatever the plan: in particular a failing row
\* never sends the emitter past the end of the plan.
THEOREM NativeTypeOK == Spec => []TypeOK
<1>1. Init => TypeOK
  BY InitTypeOK
<1>2. TypeOK /\ [Next]_vars => TypeOK'
  BY ReceiveTypeOK, SequencerTypeOK, StutterTypeOK DEF Next
<1> QED BY <1>1, <1>2, PTL DEF Spec
-----------------------------------------------------------------------------
(* The plan.  A row is emitted to a connected client only, a connected      *)
(* client is through with its exchange, and the connection then gets a      *)
(* sequencer of its own, which starts with the first row: until then the    *)
(* connection has none of the plan, and from then on the rows before the    *)
(* sequencer's.                                                             *)

Sent(k, n) == \E i \in 1..Len(wire[k]) : wire[k][i].row = n

ConnectedLast == \A k \in Clients : phase[k] = "CONNECTED" => nmtState[k] = 4

NothingBefore ==
    \A k \in Clients : nmtState[k] # 4 \/ k \in joining =>
        \A i \in 1..Len(wire[k]) : wire[k][i].row = 0

Served == joining = {} /\ phase[Here] = "CONNECTED"

Serves ==
    Served => /\ target.conn = conn[Here]
              /\ \A i \in 1..Len(wire[Here]) : wire[Here][i].row < row
              /\ \A n \in 1..row - 1 : Sent(Here, n)

PlanInv ==
    /\ TypeOK
    /\ ConnectedLast
    /\ NothingBefore
    /\ Serves
    /\ OwnConnection
    /\ PlanOrder

LEMMA NextTypeOK ==
    ASSUME TypeOK, [Next]_vars
    PROVE  TypeOK'
BY ReceiveTypeOK, SequencerTypeOK, StutterTypeOK DEF Next

LEMMA AppendAt ==
    ASSUME NEW s \in Seq(Bunches), NEW b \in Bunches
    PROVE  /\ Len(Append(s, b)) = Len(s) + 1 /\ Len(s) \in Nat
           /\ \A i \in 1..Len(s) : Append(s, b)[i] = s[i]
           /\ Append(s, b)[Len(s) + 1] = b
OBVIOUS

\* The wire of a client is left alone, or gets a bunch that is not the plan's.
QuietAt(k) ==
    \/ wire'[k] = wire[k]
    \/ \E b \in Bunches : b.row = 0 /\ wire'[k] = Append(wire[k], b)

LEMMA QuietKeeps ==
    ASSUME TypeOK, NEW k \in Clients, QuietAt(k)
    PROVE  /\ Len(wire[k]) \in Nat /\ Len(wire'[k]) \in Nat
           /\ Len(wire[k]) <= Len(wire'[k])
           /\ \A i \in 1..Len(wire[k]) : wire'[k][i] = wire[k][i]
           /\ \A i \in 1..Len(wire'[k]) : i \notin 1..Len(wire[k]) => wire'[k][i].row = 0
<1>1. wire[k] \in Seq(Bunches) /\ Len(wire[k]) \in Nat
  BY DEF TypeOK
<1>2. CASE wire'[k] = wire[k]
  BY <1>1, <1>2
<1>3. ASSUME NEW b \in Bunches, b.row = 0, wire'[k] = Append(wire[k], b)
      PROVE  /\ Len(wire'[k]) = Len(wire[k]) + 1
             /\ \A i \in 1..Len(wire[k]) : wire'[k][i] = wire[k][i]
             /\ wire'[k][Len(wire[k]) + 1].row = 0
  BY <1>1, <1>3, AppendAt
<1>4. CASE \E b \in Bunches : b.row = 0 /\ wire'[k] = Append(wire[k], b)
  <2>1. /\ Len(wire'[k]) = Len(wire[k]) + 1
        /\ \A i \in 1..Len(wire[k]) : wire'[k][i] = wire[k][i]
        /\ wire'[k][Len(wire[k]) + 1].row = 0
    BY <1>3, <1>4
  <2> QED BY <1>1, <2>1
<1> QED BY <1>2, <1>4 DEF QuietAt

\* The order of one client's bunches.
Ordered(w) ==
    \A i \in 1..Len(w) :
        /\ w[i].row > 1 => \E j \in 1..i - 1 : w[j].row = w[i].row - 1
        /\ w[i].row > 0 => \A j \in 1..i - 1 : w[j].row # w[i].row

LEMMA QuietOrdered ==
    ASSUME TypeOK, NEW k \in Clients, QuietAt(k), Ordered(wire[k])
    PROVE  Ordered(wire'[k])
<1> DEFINE w == wire[k]
           v == wire'[k]
<1>1. /\ Len(w) \in Nat /\ Len(v) \in Nat /\ Len(w) <= Len(v)
      /\ \A i \in 1..Len(w) : v[i] = w[i]
      /\ \A i \in 1..Len(v) : i \notin 1..Len(w) => v[i].row = 0
  BY QuietKeeps
<1>2. Ordered(w)
  OBVIOUS
<1> HIDE DEF w, v
<1> SUFFICES ASSUME NEW i \in 1..Len(v), v[i].row > 0
             PROVE  /\ v[i].row > 1 => \E j \in 1..i - 1 : v[j].row = v[i].row - 1
                    /\ \A j \in 1..i - 1 : v[j].row # v[i].row
  <2>1. \A i \in 1..Len(v) : v[i].row \in Nat
    <3>1. \A i \in 1..Len(w) : w[i].row \in Nat
      <4>1. w \in Seq(Bunches)
        BY DEF w, TypeOK
      <4>2. \A b \in Bunches : b.row \in Nat
        BY NativeAssumption DEF Bunches
      <4> QED BY <4>1, <4>2
    <3> QED BY <1>1, <3>1
  <2>2. Ordered(v)
    BY <2>1 DEF Ordered
  <2> QED BY <2>2 DEF v
<1>3. i \in 1..Len(w) /\ v[i] = w[i]
  BY <1>1
<1>4. \A j \in 1..i - 1 : v[j] = w[j]
  BY <1>1, <1>3
<1>5. /\ w[i].row > 1 => \E j \in 1..i - 1 : w[j].row = w[i].row - 1
      /\ \A j \in 1..i - 1 : w[j].row # w[i].row
  BY <1>2, <1>3 DEF Ordered
<1> QED BY <1>3, <1>4, <1>5

\* A step that sends nothing of the plan, leaves the connections alone, does
\* not bring a client back before the end of its exchange, and does not turn
\* the sequencer to another connection or row.
LEMMA QuietPlanInv ==
    ASSUME PlanInv, TypeOK',
           \A k \in Clients : QuietAt(k),
           conn' = conn,
           \A k \in Clients : phase'[k] = "CONNECTED" => nmtState'[k] = 4,
           \A k \in Clients : nmtState'[k] # 4 \/ k \in joining' =>
               nmtState[k] # 4 \/ k \in joining,
           Served' => Served /\ target' = target /\ row' = row
    PROVE  PlanInv'
<1> USE DEF PlanInv
<1>0. ASSUME NEW k \in Clients
      PROVE  /\ Len(wire[k]) \in Nat /\ Len(wire'[k]) \in Nat
             /\ Len(wire[k]) <= Len(wire'[k])
             /\ \A i \in 1..Len(wire[k]) : wire'[k][i] = wire[k][i]
             /\ \A i \in 1..Len(wire'[k]) : i \notin 1..Len(wire[k]) => wire'[k][i].row = 0
  BY <1>0, QuietKeeps
<1>1. ConnectedLast'
  BY DEF ConnectedLast
<1>2. NothingBefore'
  BY <1>0 DEF NothingBefore
<1>3. Serves'
  <2> SUFFICES ASSUME Served'
               PROVE  /\ target'.conn = conn'[Here']
                      /\ \A i \in 1..Len(wire'[Here']) : wire'[Here'][i].row < row'
                      /\ \A n \in 1..row' - 1 : Sent(Here, n)'
    BY DEF Serves
  <2>1. Served /\ target' = target /\ row' = row /\ Here' = Here /\ Here \in Clients
    BY DEF Here, TypeOK
  <2>2. /\ target.conn = conn[Here]
        /\ \A i \in 1..Len(wire[Here]) : wire[Here][i].row < row
        /\ \A n \in 1..row - 1 : \E i \in 1..Len(wire[Here]) : wire[Here][i].row = n
    BY <2>1 DEF Serves, Sent
  <2>3. row \in Nat /\ row > 0
    BY NativeAssumption DEF TypeOK
  <2>4. \A i \in 1..Len(wire'[Here]) : wire'[Here][i].row < row
    BY <1>0, <2>1, <2>2, <2>3
  <2>5. \A n \in 1..row - 1 : \E i \in 1..Len(wire'[Here]) : wire'[Here][i].row = n
    BY <1>0, <2>1, <2>2
  <2> QED BY <2>1, <2>2, <2>4, <2>5 DEF Sent
<1>4. OwnConnection'
  BY <1>0 DEF OwnConnection
<1>5. PlanOrder'
  <2>1. \A k \in Clients : Ordered(wire[k])
    BY DEF PlanOrder, Ordered
  <2>2. \A k \in Clients : Ordered(wire'[k])
    BY <2>1, QuietOrdered
  <2> QED BY <2>2 DEF PlanOrder, Ordered
<1> QED BY <1>1, <1>2, <1>3, <1>4, <1>5

LEMMA InitPlanInv ==
    ASSUME Init
    PROVE  PlanInv
<1>1. TypeOK
  BY InitTypeOK
<1>2. \A k \in Clients : phase[k] = "none" /\ wire[k] = << >>
  BY DEF Init
<1>3. Here \in Clients
  BY <1>1 DEF TypeOK, Here
<1> QED BY <1>1, <1>2, <1>3 DEF PlanInv, ConnectedLast, NothingBefore, Serves, Served,
                                OwnConnection, PlanOrder

\* A new connection has nothing of the plan, and its client is not connected.
LEMMA ResponsePlanInv ==
    ASSUME PlanInv, TypeOK', NEW k \in Clients, HandleResponse(k)
    PROVE  PlanInv'
<1> USE DEF PlanInv
<1>1. /\ wire'[k] = << >> /\ phase'[k] = "HANDSHAKE_COMPLETE" /\ nmtState'[k] = 0
      /\ joining' = joining /\ joining = {} /\ target' = target /\ row' = row
  BY DEF HandleResponse, Locked, serverVars, threadVars, TypeOK
<1>2. \A q \in Clients \ {k} : /\ wire'[q] = wire[q] /\ phase'[q] = phase[q]
                               /\ nmtState'[q] = nmtState[q] /\ conn'[q] = conn[q]
  BY DEF HandleResponse, TypeOK
<1>3. ConnectedLast'
  BY <1>1, <1>2 DEF ConnectedLast
<1>4. NothingBefore'
  <2>1. \A i \in 1..Len(wire'[k]) : wire'[k][i].row = 0
    BY <1>1
  <2> QED BY <1>1, <1>2, <2>1 DEF NothingBefore
<1>5. Serves'
  <2>1. Here \in Clients /\ Here' = Here
    BY <1>1 DEF Here, TypeOK
  <2>2. Served' => Here \in Clients \ {k} /\ Served
    BY <1>1, <1>2, <2>1 DEF Served
  <2> QED BY <1>1, <1>2, <2>1, <2>2 DEF Serves, Sent
<1>6. OwnConnection'
  <2>1. \A q \in Clients \ {k} : \A i \in 1..Len(wire'[q]) :
            wire'[q][i].row > 0 => wire'[q][i].by = conn'[q]
    BY <1>2 DEF OwnConnection
  <2> QED BY <1>1, <2>1 DEF OwnConnection
<1>7. PlanOrder'
  <2>1. \A q \in Clients : Ordered(wire[q])
    BY DEF PlanOrder, Ordered
  <2>2. Ordered(<< >>)
    BY DEF Ordered
  <2>3. \A q \in Clients : Ordered(wire'[q])
    BY <1>1, <1>2, <2>1, <2>2
  <2> QED BY <2>3 DEF PlanOrder, Ordered
<1> QED BY <1>3, <1>4, <1>5, <1>6, <1>7

\* The sequencer that starts is the joining client's, from the first row.
LEMMA LaunchPlanInv ==
    ASSUME PlanInv, TypeOK', Launch
    PROVE  PlanInv'
<1> USE DEF PlanInv
<1>1. PICK k \in joining : target' = [client |-> k, conn |-> conn[k]]
  BY DEF Launch
<1>2. /\ k \in Clients /\ Here' = k /\ joining' = {} /\ row' = 1
      /\ UNCHANGED <<phase, nmtState, conn, wire>>
  BY <1>1 DEF Launch, Here, TypeOK, clientVars
<1>3. \A i \in 1..Len(wire[k]) : wire[k][i].row = 0
  BY <1>1, <1>2 DEF NothingBefore
<1>4. ConnectedLast' /\ OwnConnection' /\ PlanOrder'
  BY <1>2 DEF ConnectedLast, OwnConnection, PlanOrder
<1>5. NothingBefore'
  BY <1>2 DEF NothingBefore
<1>6. Serves'
  <2>1. target'.conn = conn'[Here']
    BY <1>1, <1>2
  <2>2. \A i \in 1..Len(wire'[Here']) : wire'[Here'][i].row < row'
    BY <1>2, <1>3
  <2>3. \A n \in 1..row' - 1 : Sent(Here, n)'
    BY <1>2
  <2> QED BY <2>1, <2>2, <2>3 DEF Serves
<1> QED BY <1>4, <1>5, <1>6

LEMMA OrderedAppend ==
    ASSUME NEW w \in Seq(Bunches), NEW b \in Bunches, Ordered(w),
           \A i \in 1..Len(w) : w[i].row < b.row,
           b.row > 1 => \E j \in 1..Len(w) : w[j].row = b.row - 1
    PROVE  Ordered(Append(w, b))
<1> DEFINE v == Append(w, b)
<1>1. /\ Len(v) = Len(w) + 1 /\ Len(w) \in Nat
      /\ \A i \in 1..Len(w) : v[i] = w[i]
      /\ v[Len(w) + 1] = b
  BY AppendAt
<1>0. \A i \in 1..Len(w) : w[i].row \in Nat
  <2>1. \A c \in Bunches : c.row \in Nat
    BY NativeAssumption DEF Bunches
  <2> QED BY <2>1
<1> HIDE DEF v
<1>2. ASSUME NEW i \in 1..Len(v)
      PROVE  /\ v[i].row > 1 => \E j \in 1..i - 1 : v[j].row = v[i].row - 1
             /\ v[i].row > 0 => \A j \in 1..i - 1 : v[j].row # v[i].row
  <2>1. CASE i \in 1..Len(w)
    <3>1. v[i] = w[i] /\ \A j \in 1..i - 1 : v[j] = w[j]
      BY <1>1, <2>1
    <3>2. /\ w[i].row > 1 => \E j \in 1..i - 1 : w[j].row = w[i].row - 1
          /\ w[i].row > 0 => \A j \in 1..i - 1 : w[j].row # w[i].row
      BY <2>1 DEF Ordered
    <3> QED BY <3>1, <3>2
  <2>2. CASE i \notin 1..Len(w)
    <3>1. i - 1 = Len(w) /\ v[i] = b
      BY <1>1, <2>2
    <3>2. \A j \in 1..i - 1 : v[j] = w[j] /\ w[j].row < b.row /\ w[j].row \in Nat
      BY <1>0, <1>1, <3>1
    <3>3. b.row \in Nat
      BY NativeAssumption DEF Bunches
    <3>4. \A j \in 1..i - 1 : v[j].row # v[i].row
      BY <3>1, <3>2, <3>3
    <3>5. b.row > 1 => \E j \in 1..i - 1 : v[j].row = b.row - 1
      <4>1. \A j \in 1..Len(w) : v[j].row = w[j].row
        BY <1>1
      <4> QED BY <3>1, <4>1
    <3> QED BY <3>1, <3>4, <3>5
  <2> QED BY <2>1, <2>2
<1>3. Ordered(v)
  BY <1>2 DEF Ordered
<1> QED BY <1>3 DEF v

\* The next row goes to the connection the sequencer was started for, after
\* the rows before it.
LEMMA SendRowPlanInv ==
    ASSUME PlanInv, TypeOK', EmitRow, Reachable
    PROVE  PlanInv'
<1> USE DEF PlanInv
<1> DEFINE b == [ch |-> Plan[row].ch, num |-> NumberOf(Plan[row]), row |-> row,
                 by |-> target.conn]
<1>1. /\ row <= Len(Plan) /\ row' = row + 1 /\ joining = {} /\ joining' = {}
      /\ target' = target /\ Here' = Here /\ SendRow(Plan[row])
  BY DEF EmitRow, Locked, Here, serverVars
<1>2. b \in Bunches /\ b.row = row /\ b.by = target.conn
  BY <1>1, RowTyped
<1>3. /\ wire' = [wire EXCEPT ![Here] = Append(@, b)]
      /\ UNCHANGED <<phase, nmtState, conn>>
  BY <1>1 DEF SendRow
<1> HIDE DEF b
<1>4. /\ Here \in Clients /\ wire[Here] \in Seq(Bunches) /\ row \in Nat /\ row > 0
      /\ phase[Here] = "CONNECTED" /\ nmtState[Here] = 4 /\ Served
  BY <1>1, NativeAssumption DEF TypeOK, Here, Reachable, ConnectedLast, Served
<1>5. /\ wire'[Here] = Append(wire[Here], b)
      /\ \A q \in Clients \ {Here} : wire'[q] = wire[q]
  BY <1>3, <1>4 DEF TypeOK
<1>6. /\ target.conn = conn[Here]
      /\ \A i \in 1..Len(wire[Here]) : wire[Here][i].row < row
      /\ \A n \in 1..row - 1 : \E i \in 1..Len(wire[Here]) : wire[Here][i].row = n
  BY <1>4 DEF Serves, Sent
<1>7. /\ Len(wire'[Here]) = Len(wire[Here]) + 1 /\ Len(wire[Here]) \in Nat
      /\ \A i \in 1..Len(wire[Here]) : wire'[Here][i] = wire[Here][i]
      /\ wire'[Here][Len(wire[Here]) + 1] = b
  BY <1>2, <1>4, <1>5, AppendAt
<1>8. ConnectedLast'
  BY <1>3 DEF ConnectedLast
<1>9. NothingBefore'
  BY <1>1, <1>3, <1>4, <1>5 DEF NothingBefore
<1>10. Serves'
  <2>1. \A i \in 1..Len(wire'[Here]) : wire'[Here][i].row < row + 1
    <3> SUFFICES ASSUME NEW i \in 1..Len(wire'[Here])
                 PROVE  wire'[Here][i].row < row + 1
      OBVIOUS
    <3>1. CASE i \in 1..Len(wire[Here])
      <4>1. wire[Here][i] \in Bunches
        BY <1>4, <3>1
      <4>2. wire[Here][i].row \in Nat
        BY <4>1, NativeAssumption DEF Bunches
      <4> QED BY <1>4, <1>6, <1>7, <3>1, <4>2
    <3>2. CASE i \notin 1..Len(wire[Here])
      BY <1>2, <1>4, <1>7, <3>2
    <3> QED BY <3>1, <3>2
  <2>2. ASSUME NEW n \in 1..row
        PROVE  \E i \in 1..Len(wire'[Here]) : wire'[Here][i].row = n
    <3>1. CASE n = row
      BY <1>2, <1>7, <3>1
    <3>2. CASE n # row
      <4>1. n \in 1..row - 1
        BY <1>4, <3>2
      <4>2. PICK i \in 1..Len(wire[Here]) : wire[Here][i].row = n
        BY <1>6, <4>1
      <4> QED BY <1>7, <4>2
    <3> QED BY <3>1, <3>2
  <2>3. row' - 1 = row
    BY <1>1, <1>4
  <2>4. \A n \in 1..row' - 1 : Sent(Here, n)'
    BY <1>1, <2>2, <2>3 DEF Sent
  <2> QED BY <1>1, <1>3, <1>6, <2>1, <2>4 DEF Serves
<1>11. OwnConnection'
  <2>1. \A i \in 1..Len(wire'[Here]) :
            wire'[Here][i].row > 0 => wire'[Here][i].by = conn[Here]
    <3> SUFFICES ASSUME NEW i \in 1..Len(wire'[Here]), wire'[Here][i].row > 0
                 PROVE  wire'[Here][i].by = conn[Here]
      OBVIOUS
    <3>1. CASE i \in 1..Len(wire[Here])
      BY <1>4, <1>7, <3>1 DEF OwnConnection
    <3>2. CASE i \notin 1..Len(wire[Here])
      BY <1>2, <1>6, <1>7, <3>2
    <3> QED BY <3>1, <3>2
  <2>2. \A q \in Clients \ {Here} : \A i \in 1..Len(wire'[q]) :
            wire'[q][i].row > 0 => wire'[q][i].by = conn[q]
    BY <1>5 DEF OwnConnection
  <2> QED BY <1>3, <2>1, <2>2 DEF OwnConnection
<1>12. PlanOrder'
  <2>1. \A q \in Clients : Ordered(wire[q])
    BY DEF PlanOrder, Ordered
  <2>2. b.row > 1 => \E j \in 1..Len(wire[Here]) : wire[Here][j].row = b.row - 1
    <3>1. row > 1 => row - 1 \in 1..row - 1
      BY <1>4
    <3> QED BY <1>2, <1>6, <3>1
  <2>3. Ordered(wire'[Here])
    BY <1>2, <1>4, <1>5, <1>6, <2>1, <2>2, OrderedAppend
  <2>4. \A q \in Clients : Ordered(wire'[q])
    BY <1>5, <2>1, <2>3
  <2> QED BY <2>4 DEF PlanOrder, Ordered
<1> QED BY <1>8, <1>9, <1>10, <1>11, <1>12

\* The rest of the receive thread.
LEMMA ReceivePlanInv ==
    ASSUME PlanInv, Receive
    PROVE  PlanInv'
<1>0. TypeOK /\ TypeOK' /\ ConnectedLast
  BY ReceiveTypeOK DEF PlanInv
<1> USE <1>0 DEF clientVars, serverVars, threadVars, Served, Here
<1>1. CASE Launch
  BY <1>1, LaunchPlanInv
<1>2. ASSUME NEW k \in Clients, HandleInitial(k) PROVE PlanInv'
  <2>1. \A q \in Clients : QuietAt(q)
    BY <1>2 DEF HandleInitial, QuietAt
  <2>2. \A q \in Clients : phase'[q] = "CONNECTED" => phase[q] = "CONNECTED"
    BY <1>2 DEF HandleInitial, TypeOK
  <2>3. \A q \in Clients : phase'[q] = "CONNECTED" => nmtState'[q] = 4
    BY <1>2, <2>2 DEF HandleInitial, ConnectedLast
  <2>4. Served' => Served /\ target' = target /\ row' = row
    BY <1>2, <2>2 DEF HandleInitial, TypeOK
  <2> QED BY <1>2, <2>1, <2>3, <2>4, QuietPlanInv DEF HandleInitial
<1>3. ASSUME NEW k \in Clients, HandleResponse(k) PROVE PlanInv'
  BY <1>3, ResponsePlanInv
<1>4. ASSUME NEW k \in Clients, HandleHelloOrLogin(k) PROVE PlanInv'
  <2>1. Bunch(0, reliableSeq[k]) \in Bunches /\ Bunch(0, reliableSeq[k]).row = 0
    BY BunchTyped DEF Channels, TypeOK
  <2>2. \A q \in Clients : QuietAt(q)
    <3>1. /\ wire'[k] = Append(wire[k], Bunch(0, reliableSeq[k]))
          /\ \A q \in Clients \ {k} : wire'[q] = wire[q]
      BY <1>4 DEF HandleHelloOrLogin, TypeOK
    <3> QED BY <2>1, <3>1 DEF QuietAt
  <2>3. phase' = phase /\ nmtState[k] # 4 /\ phase[k] # "CONNECTED"
    BY <1>4 DEF HandleHelloOrLogin, ConnectedLast
  <2>4. \A q \in Clients \ {k} : nmtState'[q] = nmtState[q]
    BY <1>4 DEF HandleHelloOrLogin, TypeOK
  <2>5. \A q \in Clients : phase'[q] = "CONNECTED" => nmtState'[q] = 4
    BY <2>3, <2>4 DEF ConnectedLast
  <2>6. \A q \in Clients : nmtState'[q] # 4 \/ q \in joining' =>
            nmtState[q] # 4 \/ q \in joining
    BY <1>4, <2>3, <2>4 DEF HandleHelloOrLogin
  <2>7. Served' => Served /\ target' = target /\ row' = row
    BY <1>4 DEF HandleHelloOrLogin
  <2> QED BY <1>4, <2>2, <2>5, <2>6, <2>7, QuietPlanInv DEF HandleHelloOrLogin
<1>5. ASSUME NEW k \in Clients, HandleNetSpeed(k) PROVE PlanInv'
  <2>1. \A q \in Clients : QuietAt(q)
    BY <1>5 DEF HandleNetSpeed, QuietAt
  <2>2. phase' = phase /\ nmtState[k] # 4 /\ phase[k] # "CONNECTED"
    BY <1>5 DEF HandleNetSpeed, ConnectedLast
  <2>3. \A q \in Clients \ {k} : nmtState'[q] = nmtState[q]
    BY <1>5 DEF HandleNetSpeed, TypeOK
  <2>4. \A q \in Clients : phase'[q] = "CONNECTED" => nmtState'[q] = 4
    BY <2>2, <2>3 DEF ConnectedLast
  <2>5. \A q \in Clients : nmtState'[q] # 4 \/ q \in joining' =>
            nmtState[q] # 4 \/ q \in joining
    BY <1>5, <2>2, <2>3 DEF HandleNetSpeed
  <2>6. Served' => Served /\ target' = target /\ row' = row
    BY <1>5 DEF HandleNetSpeed
  <2> QED BY <1>5, <2>1, <2>4, <2>5, <2>6, QuietPlanInv DEF HandleNetSpeed
<1>6. ASSUME NEW k \in Clients, HandleReady(k) PROVE PlanInv'
  <2>1. \A q \in Clients : QuietAt(q)
    BY <1>6 DEF HandleReady, QuietAt
  <2>2. nmtState[k] # 4 /\ nmtState'[k] = 4 /\ joining' = {k} /\ conn' = conn
    BY <1>6 DEF HandleReady, TypeOK
  <2>3. \A q \in Clients \ {k} : nmtState'[q] = nmtState[q] /\ phase'[q] = phase[q]
    BY <1>6 DEF HandleReady, TypeOK
  <2>4. \A q \in Clients : phase'[q] = "CONNECTED" => nmtState'[q] = 4
    BY <2>2, <2>3 DEF ConnectedLast
  <2>5. \A q \in Clients : nmtState'[q] # 4 \/ q \in joining' =>
            nmtState[q] # 4 \/ q \in joining
    BY <2>2, <2>3
  <2> QED BY <2>1, <2>2, <2>4, <2>5, QuietPlanInv
<1>7. ASSUME NEW k \in Clients, HandleGameBunch(k) PROVE PlanInv'
  <2>1. \A q \in Clients : QuietAt(q)
    BY <1>7 DEF HandleGameBunch, QuietAt
  <2> QED BY <1>7, <2>1, QuietPlanInv DEF HandleGameBunch, ConnectedLast
<1>8. ASSUME NEW k \in Clients, HandleInitRequest(k) PROVE PlanInv'
  <2>1. Bunch(3, 4) \in Bunches /\ Bunch(3, 4).row = 0
    BY BunchTyped DEF Channels
  <2>2. \A q \in Clients : QuietAt(q)
    <3>1. /\ wire'[k] = Append(wire[k], Bunch(3, 4))
          /\ \A q \in Clients \ {k} : wire'[q] = wire[q]
      BY <1>8 DEF HandleInitRequest, TypeOK
    <3> QED BY <2>1, <3>1 DEF QuietAt
  <2> QED BY <1>8, <2>2, QuietPlanInv DEF HandleInitRequest, ConnectedLast
<1>9. ASSUME NEW k \in Clients, TimeOut(k) PROVE PlanInv'
  <2>1. \A q \in Clients : QuietAt(q)
    BY <1>9 DEF TimeOut, QuietAt
  <2>2. \A q \in Clients : phase'[q] = "CONNECTED" => phase[q] = "CONNECTED"
    BY <1>9 DEF TimeOut, TypeOK
  <2>3. \A q \in Clients : phase'[q] = "CONNECTED" => nmtState'[q] = 4
    BY <1>9, <2>2 DEF TimeOut, ConnectedLast
  <2>4. Served' => Served /\ target' = target /\ row' = row
    BY <1>9, <2>2 DEF TimeOut, TypeOK
  <2> QED BY <1>9, <2>1, <2>3, <2>4, QuietPlanInv DEF TimeOut
<1> QED BY <1>1, <1>2, <1>3, <1>4, <1>5, <1>6, <1>7, <1>8, <1>9 DEF Receive

\* Of the sequencer's steps, only that of a row touches what the invariant is about.
LEMMA SequencerPlanInv ==
    ASSUME PlanInv, Sequencer
    PROVE  PlanInv'
<1>0. TypeOK /\ TypeOK' /\ ConnectedLast
  BY SequencerTypeOK DEF PlanInv
<1>1. CASE EmitRow /\ Reachable
  BY <1>0, <1>1, SendRowPlanInv
<1>2. CASE ~(EmitRow /\ Reachable)
  <2>1. UNCHANGED <<phase, nmtState, conn, wire, joining, target>>
    BY <1>2 DEF Sequencer, Check, Ping, GoOn, GiveUp, Release, Leave, EmitRow, Complete,
                Maintain, Beat, Goto, Exit, clientVars, serverVars
  <2>2. row' = row \/ ~Reachable
    BY <1>2 DEF Sequencer, Check, Ping, GoOn, GiveUp, Leave, EmitRow, Complete,
                Maintain, Beat, Goto, Exit
  <2>3. Served' => Served /\ target' = target /\ row' = row
    BY <2>1, <2>2 DEF Served, Reachable, Here
  <2>4. \A q \in Clients : QuietAt(q)
    BY <2>1 DEF QuietAt
  <2>5. \A q \in Clients : phase'[q] = "CONNECTED" => nmtState'[q] = 4
    BY <1>0, <2>1 DEF ConnectedLast
  <2> QED BY <1>0, <2>1, <2>3, <2>4, <2>5, QuietPlanInv
<1> QED BY <1>1, <1>2

LEMMA StutterPlanInv ==
    ASSUME PlanInv, UNCHANGED vars
    PROVE  PlanInv'
BY StutterTypeOK DEF PlanInv, ConnectedLast, NothingBefore, Serves, Served, Sent, Here,
    OwnConnection, PlanOrder, vars, clientVars, serverVars, threadVars

LEMMA SpecPlanInv == Spec => []PlanInv
<1>1. PlanInv /\ [Next]_vars => PlanInv'
  BY ReceivePlanInv, SequencerPlanInv, StutterPlanInv DEF Next
<1> QED BY <1>1, InitPlanInv, PTL DEF Spec

\* A sequencer's rows reach the connection it was started for and no later one
\* of its client, although it goes on emitting when it is told to stop.
THEOREM NativeOwnConnection == Spec => []OwnConnection
<1>1. PlanInv => OwnConnection
  BY DEF PlanInv
<1> QED BY <1>1, SpecPlanInv, PTL

\* Every connection gets a beginning of the plan, in its order and once, for
\* every plan and wherever rows fail and sequencers are replaced.
THEOREM NativePlanOrder == Spec => []PlanOrder
<1>1. PlanInv => PlanOrder
  BY DEF PlanInv
<1> QED BY <1>1, SpecPlanInv, PTL

-----------------------------------------------------------------------------
(* The wait for the map, with one client.  native_map_loaded_ belongs to    *)
(* the server and is cleared when a sequencer starts; with a second client  *)
(* it may be that client's signal, and the property fails.                  *)

RunsFree == joining = {} /\ pc \in Inside \cup Outside => running

FlagMeans == Served /\ mapLoaded => released[Here]

WaitedFor == Served /\ pc \in {"leave", "rows", "loop", "beat"} => released[Here]

WaitInv ==
    /\ PlanInv
    /\ RunsFree
    /\ FlagMeans
    /\ WaitedFor
    /\ MapLoadWaits

OneClient == \A a, b \in Clients : a = b

LEMMA InitWaitInv ==
    ASSUME Init
    PROVE  WaitInv
<1>1. \A k \in Clients : phase[k] = "none" /\ wire[k] = << >>
  BY DEF Init
<1>2. PlanInv /\ Here \in Clients
  BY InitPlanInv DEF PlanInv, TypeOK, Here
<1>3. RunsFree
  BY DEF Init, RunsFree, Inside, Outside
<1>4. phase[Here] # "CONNECTED"
  BY <1>1, <1>2
<1> QED BY <1>1, <1>2, <1>3, <1>4 DEF WaitInv, FlagMeans, WaitedFor, Served, MapLoadWaits

LEMMA ReceiveWaitInv ==
    ASSUME WaitInv, OneClient, Receive
    PROVE  WaitInv'
<1>0. PlanInv /\ PlanInv' /\ TypeOK /\ TypeOK' /\ ConnectedLast
  BY ReceivePlanInv DEF WaitInv, PlanInv
<1>h. Here \in Clients /\ Here' \in Clients
  BY <1>0 DEF TypeOK, Here
<1>w. /\ joining = {} /\ pc \in Inside \cup Outside => running
      /\ joining = {} /\ phase[Here] = "CONNECTED" /\ mapLoaded => released[Here]
      /\ joining = {} /\ phase[Here] = "CONNECTED"
            /\ pc \in {"leave", "rows", "loop", "beat"} => released[Here]
      /\ \A q \in Clients : \A i \in 1..Len(wire[q]) : wire[q][i].row > 0 => released[q]
  BY DEF WaitInv, RunsFree, FlagMeans, WaitedFor, Served, MapLoadWaits
<1> SUFFICES RunsFree' /\ FlagMeans' /\ WaitedFor' /\ MapLoadWaits'
  BY <1>0 DEF WaitInv
<1> USE DEF clientVars, serverVars, threadVars, Served, RunsFree, FlagMeans, WaitedFor
<1>1. CASE Launch
  <2>1. /\ running' /\ ~mapLoaded' /\ pc' = "check" /\ wire' = wire /\ released' = released
    BY <1>1 DEF Launch
  <2> QED BY <1>w, <2>1 DEF MapLoadWaits
<1>2. ASSUME NEW k \in Clients, HandleInitial(k)
      PROVE  RunsFree' /\ FlagMeans' /\ WaitedFor' /\ MapLoadWaits'
  <2>1. phase'[Here] = "CONNECTED" => phase[Here] = "CONNECTED"
    BY <1>0, <1>h, <1>2 DEF HandleInitial, TypeOK
  <2> QED BY <1>w, <1>2, <2>1 DEF HandleInitial, Here, MapLoadWaits
<1>3. ASSUME NEW k \in Clients, HandleResponse(k)
      PROVE  RunsFree' /\ FlagMeans' /\ WaitedFor' /\ MapLoadWaits'
  <2>1. phase'[Here'] # "CONNECTED"
    <3>1. phase'[k] = "HANDSHAKE_COMPLETE" /\ Here' = k
      BY <1>0, <1>h, <1>3 DEF HandleResponse, TypeOK, OneClient
    <3> QED BY <3>1
  <2>2. \A q \in Clients : wire'[q] = << >>
    BY <1>0, <1>3 DEF HandleResponse, TypeOK, OneClient
  <2> QED BY <1>w, <1>3, <2>1, <2>2 DEF HandleResponse, MapLoadWaits
<1>4. ASSUME NEW k \in Clients, HandleHelloOrLogin(k)
      PROVE  RunsFree' /\ FlagMeans' /\ WaitedFor' /\ MapLoadWaits'
  <2>1. Bunch(0, reliableSeq[k]) \in Bunches /\ Bunch(0, reliableSeq[k]).row = 0
    BY <1>0, BunchTyped DEF Channels, TypeOK
  <2>2. /\ wire'[k] = Append(wire[k], Bunch(0, reliableSeq[k]))
        /\ \A q \in Clients \ {k} : wire'[q] = wire[q]
    BY <1>0, <1>4 DEF HandleHelloOrLogin, TypeOK
  <2>3. \A q \in Clients : QuietAt(q)
    BY <2>1, <2>2 DEF QuietAt
  <2>4. MapLoadWaits'
    BY <1>0, <1>w, <1>4, <2>3, QuietKeeps DEF MapLoadWaits, HandleHelloOrLogin
  <2> QED BY <1>w, <1>4, <2>4 DEF HandleHelloOrLogin, Here
<1>5. ASSUME NEW k \in Clients, HandleNetSpeed(k)
      PROVE  RunsFree' /\ FlagMeans' /\ WaitedFor' /\ MapLoadWaits'
  BY <1>w, <1>5 DEF HandleNetSpeed, Here, MapLoadWaits
<1>6. ASSUME NEW k \in Clients, HandleReady(k)
      PROVE  RunsFree' /\ FlagMeans' /\ WaitedFor' /\ MapLoadWaits'
  <2>1. joining' # {} /\ wire' = wire /\ released' = released
    BY <1>6 DEF HandleReady
  <2> QED BY <1>w, <2>1 DEF MapLoadWaits
<1>7. ASSUME NEW k \in Clients, HandleGameBunch(k)
      PROVE  RunsFree' /\ FlagMeans' /\ WaitedFor' /\ MapLoadWaits'
  <2>1. \A q \in Clients : released'[q]
    BY <1>0, <1>7 DEF HandleGameBunch, TypeOK, OneClient
  <2> QED BY <1>h, <1>w, <1>7, <2>1 DEF HandleGameBunch, MapLoadWaits
<1>8. ASSUME NEW k \in Clients, HandleInitRequest(k)
      PROVE  RunsFree' /\ FlagMeans' /\ WaitedFor' /\ MapLoadWaits'
  <2>1. Bunch(3, 4) \in Bunches /\ Bunch(3, 4).row = 0
    BY BunchTyped DEF Channels
  <2>2. /\ wire'[k] = Append(wire[k], Bunch(3, 4))
        /\ \A q \in Clients \ {k} : wire'[q] = wire[q]
    BY <1>0, <1>8 DEF HandleInitRequest, TypeOK
  <2>3. \A q \in Clients : QuietAt(q)
    BY <2>1, <2>2 DEF QuietAt
  <2>4. MapLoadWaits'
    BY <1>0, <1>w, <1>8, <2>3, QuietKeeps DEF MapLoadWaits, HandleInitRequest
  <2> QED BY <1>w, <1>8, <2>4 DEF HandleInitRequest, Here
<1>9. ASSUME NEW k \in Clients, TimeOut(k)
      PROVE  RunsFree' /\ FlagMeans' /\ WaitedFor' /\ MapLoadWaits'
  <2>1. phase'[Here] = "CONNECTED" => phase[Here] = "CONNECTED"
    BY <1>0, <1>h, <1>9 DEF TimeOut, TypeOK
  <2> QED BY <1>w, <1>9, <2>1 DEF TimeOut, Here, MapLoadWaits
<1> QED BY <1>1, <1>2, <1>3, <1>4, <1>5, <1>6, <1>7, <1>8, <1>9 DEF Receive

LEMMA SequencerWaitInv ==
    ASSUME WaitInv, Sequencer
    PROVE  WaitInv'
<1>0. PlanInv /\ PlanInv' /\ TypeOK /\ TypeOK'
  BY SequencerPlanInv DEF WaitInv, PlanInv
<1>h. Here \in Clients /\ target' = target /\ Here' = Here
  BY <1>0 DEF TypeOK, Here, Sequencer, Check, Ping, GoOn, GiveUp, Leave, EmitRow, Complete,
              Maintain, Beat, Goto, Exit
<1>w. /\ joining = {} /\ pc \in Inside \cup Outside => running
      /\ joining = {} /\ phase[Here] = "CONNECTED" /\ mapLoaded => released[Here]
      /\ joining = {} /\ phase[Here] = "CONNECTED"
            /\ pc \in {"leave", "rows", "loop", "beat"} => released[Here]
      /\ \A q \in Clients : \A i \in 1..Len(wire[q]) : wire[q][i].row > 0 => released[q]
  BY DEF WaitInv, RunsFree, FlagMeans, WaitedFor, Served, MapLoadWaits
<1>s. joining' = joining /\ mapLoaded' = mapLoaded /\ phase' = phase
  BY DEF Sequencer, Check, Ping, GoOn, GiveUp, Release, Leave, EmitRow, SendRow, Complete,
         Maintain, Beat, clientVars, serverVars
<1> SUFFICES RunsFree' /\ FlagMeans' /\ WaitedFor' /\ MapLoadWaits'
  BY <1>0 DEF WaitInv
<1>r. RunsFree'
  BY <1>w, <1>s DEF RunsFree, Inside, Outside, Sequencer, Check, Ping, GoOn, GiveUp, Leave,
                    EmitRow, Complete, Maintain, Beat, Goto, Exit
<1>1. CASE GiveUp
  <2>1. /\ wire' = wire
        /\ released' = [released EXCEPT ![Here] = @ \/ target.conn = conn[Here]]
    BY <1>1 DEF GiveUp, Release
  <2>2. /\ released[Here] => released'[Here]
        /\ target.conn = conn[Here] => released'[Here]
        /\ \A q \in Clients : released[q] => released'[q]
    BY <1>0, <1>h, <2>1 DEF TypeOK
  <2>3. Served => target.conn = conn[Here]
    BY <1>0 DEF PlanInv, Serves
  <2> QED BY <1>h, <1>w, <1>s, <1>r, <2>1, <2>2, <2>3
          DEF FlagMeans, WaitedFor, Served, MapLoadWaits
<1>2. CASE EmitRow
  <2>1. pc = "rows" /\ pc' = "rows" /\ joining = {} /\ released' = released
    BY <1>2 DEF EmitRow, Locked, SendRow, clientVars
  <2>2. FlagMeans' /\ WaitedFor'
    BY <1>h, <1>w, <1>s, <2>1 DEF FlagMeans, WaitedFor, Served
  <2>3. MapLoadWaits'
    <3>1. CASE Reachable
      <4>1. released[Here]
        BY <1>w, <2>1, <3>1 DEF Reachable
      <4>2. \A q \in Clients \ {Here} : wire'[q] = wire[q]
        BY <1>0, <1>2, <3>1 DEF EmitRow, SendRow, TypeOK
      <4> QED BY <1>h, <1>w, <2>1, <4>1, <4>2 DEF MapLoadWaits
    <3>2. CASE ~Reachable
      BY <1>2, <1>w, <2>1, <3>2 DEF EmitRow, MapLoadWaits, clientVars
    <3> QED BY <3>1, <3>2
  <2> QED BY <1>r, <2>2, <2>3
<1>3. CASE ~GiveUp /\ ~EmitRow
  <2>1. wire' = wire /\ released' = released
    BY <1>3 DEF Sequencer, Check, Ping, GoOn, Leave, Complete, Maintain, Beat, clientVars
  <2>2. joining = {} /\ pc' \in {"leave", "rows", "loop", "beat"} =>
            mapLoaded \/ pc \in {"leave", "rows", "loop", "beat"}
    BY <1>3, <1>w DEF Sequencer, Check, Ping, GoOn, Leave, Complete, Maintain, Beat,
                      Goto, Exit, Inside, Outside
  <2> QED BY <1>h, <1>w, <1>s, <1>r, <2>1, <2>2 DEF FlagMeans, WaitedFor, Served, MapLoadWaits
<1> QED BY <1>1, <1>2, <1>3

LEMMA StutterWaitInv ==
    ASSUME WaitInv, UNCHANGED vars
    PROVE  WaitInv'
BY StutterPlanInv DEF WaitInv, RunsFree, FlagMeans, WaitedFor, Served, Here, MapLoadWaits,
    vars, clientVars, serverVars, threadVars

\* With one client, however often it comes back, a connection gets nothing of
\* the plan before the client's map signal in that connection or the limit of
\* the wait.
THEOREM NativeMapLoadWaits ==
    ASSUME OneClient
    PROVE  Spec => []MapLoadWaits
<1>1. Init => WaitInv
  BY InitWaitInv
<1>2. WaitInv /\ [Next]_vars => WaitInv'
  BY ReceiveWaitInv, SequencerWaitInv, StutterWaitInv DEF Next
<1>3. WaitInv => MapLoadWaits
  BY DEF WaitInv
<1> QED BY <1>1, <1>2, <1>3, PTL DEF Spec
-----------------------------------------------------------------------------
(* The counter the two threads share.                                      *)

\* The numbers of the counted bunches lie below the counter.
LEMMA CountedBelow ==
    ASSUME NEW w \in Seq(Bunches), NEW n \in Nat, CountedUpTo(w, n),
           NEW i \in 1..Len(w), Counted(w[i])
    PROVE  w[i].num \in 1..n - 1
BY DEF CountedUpTo

\* A bunch that is not counted leaves the count as it is.
LEMMA UncountedAppend ==
    ASSUME NEW w \in Seq(Bunches), NEW n \in Nat, CountedUpTo(w, n),
           NEW b \in Bunches, ~Counted(b)
    PROVE  CountedUpTo(Append(w, b), n)
<1> DEFINE v == Append(w, b)
           old == {i \in 1..Len(w) : Counted(w[i])}
           new == {i \in 1..Len(v) : Counted(v[i])}
<1>1. /\ Len(v) = Len(w) + 1 /\ Len(w) \in Nat /\ v[Len(w) + 1] = b
      /\ \A i \in 1..Len(w) : v[i] = w[i]
  BY AppendAt
<1> HIDE DEF v
<1>2. 1..Len(v) = 1..Len(w) \cup {Len(w) + 1}
  BY <1>1
<1>3. new = old /\ \A i \in old : v[i] = w[i]
  BY <1>1, <1>2
<1>4. {v[i].num : i \in old} = {w[i].num : i \in old}
  BY <1>3
<1> QED BY <1>3, <1>4 DEF CountedUpTo, v

\* A counted one takes the next number.
LEMMA CountedAppend ==
    ASSUME NEW w \in Seq(Bunches), NEW n \in Nat \ {0}, CountedUpTo(w, n),
           NEW b \in Bunches, Counted(b), b.num = n
    PROVE  CountedUpTo(Append(w, b), n + 1)
<1> DEFINE v == Append(w, b)
           l == Len(w) + 1
           old == {i \in 1..Len(w) : Counted(w[i])}
           new == {i \in 1..Len(v) : Counted(v[i])}
<1>1. /\ Len(v) = l /\ Len(w) \in Nat /\ v[l] = b
      /\ \A i \in 1..Len(w) : v[i] = w[i]
  BY AppendAt
<1> HIDE DEF v
<1>2. 1..Len(v) = 1..Len(w) \cup {l} /\ l \notin 1..Len(w)
  BY <1>1
<1>3. new = old \cup {l} /\ \A i \in old : v[i] = w[i]
  BY <1>1, <1>2
<1>4. \A i \in old : w[i].num \in 1..n - 1 /\ i < l /\ i \in Int
  BY <1>1, CountedBelow
<1>5. \A i, j \in new : i < j => v[i].num < v[j].num
  <2> SUFFICES ASSUME NEW i \in new, NEW j \in new, i < j
               PROVE  v[i].num < v[j].num
    OBVIOUS
  <2>1. i \in old
    BY <1>1, <1>3, <1>4
  <2>2. CASE j \in old
    BY <1>3, <2>1, <2>2 DEF CountedUpTo
  <2>3. CASE j = l
    BY <1>1, <1>3, <1>4, <2>1, <2>3
  <2> QED BY <1>3, <2>2, <2>3
<1>6. {v[i].num : i \in new} = 1..n
  <2>1. {v[i].num : i \in new} = {w[i].num : i \in old} \cup {n}
    BY <1>1, <1>3
  <2>2. {w[i].num : i \in old} = 1..n - 1
    BY DEF CountedUpTo
  <2>3. 1..n = 1..n - 1 \cup {n}
    OBVIOUS
  <2> QED BY <2>1, <2>2, <2>3
<1>7. (n + 1) - 1 = n
  OBVIOUS
<1> QED BY <1>5, <1>6, <1>7 DEF CountedUpTo, v

\* The counter is at least one: it has been reset or incremented.
CounterInv == CounterSequence /\ \A k \in Clients : reliableSeq[k] # 0

\* What one step may do to a client's bunches and its counter.
CounterStep(k) ==
    \/ wire'[k] = wire[k] /\ reliableSeq'[k] = reliableSeq[k]
    \/ wire'[k] = << >> /\ reliableSeq'[k] = 1
    \/ \E b \in Bunches :
         /\ wire'[k] = Append(wire[k], b)
         /\ \/ ~Counted(b) /\ reliableSeq'[k] = reliableSeq[k]
            \/ Counted(b) /\ b.num = reliableSeq[k] /\ reliableSeq'[k] = reliableSeq[k] + 1

LEMMA CounterStepKeeps ==
    ASSUME TypeOK, CounterInv, \A k \in Clients : CounterStep(k)
    PROVE  CounterInv'
<1> SUFFICES ASSUME NEW k \in Clients
             PROVE  CountedUpTo(wire'[k], reliableSeq'[k]) /\ reliableSeq'[k] # 0
  BY DEF CounterInv, CounterSequence
<1>1. /\ wire[k] \in Seq(Bunches) /\ reliableSeq[k] \in Nat \ {0}
      /\ CountedUpTo(wire[k], reliableSeq[k])
  BY DEF TypeOK, CounterInv, CounterSequence
<1>2. CASE wire'[k] = wire[k] /\ reliableSeq'[k] = reliableSeq[k]
  BY <1>1, <1>2
<1>3. CASE wire'[k] = << >> /\ reliableSeq'[k] = 1
  BY <1>3 DEF CountedUpTo
<1>4. ASSUME NEW b \in Bunches, wire'[k] = Append(wire[k], b), ~Counted(b),
             reliableSeq'[k] = reliableSeq[k]
      PROVE  CountedUpTo(wire'[k], reliableSeq'[k]) /\ reliableSeq'[k] # 0
  BY <1>1, <1>4, UncountedAppend
<1>5. ASSUME NEW b \in Bunches, wire'[k] = Append(wire[k], b), Counted(b),
             b.num = reliableSeq[k], reliableSeq'[k] = reliableSeq[k] + 1
      PROVE  CountedUpTo(wire'[k], reliableSeq'[k]) /\ reliableSeq'[k] # 0
  <2>1. CountedUpTo(Append(wire[k], b), reliableSeq[k] + 1)
    BY <1>1, <1>5, CountedAppend
  <2>2. reliableSeq[k] + 1 # 0
    BY <1>1
  <2> QED BY <1>5, <2>1, <2>2
<1> QED BY <1>2, <1>3, <1>4, <1>5 DEF CounterStep

\* Each step changes one client's bunches, and numbers them as CounterStep says.
LEMMA NextIsCounterStep ==
    ASSUME TypeOK, [Next]_vars
    PROVE  \A k \in Clients : CounterStep(k)
<1>0. ASSUME UNCHANGED <<wire, reliableSeq>> PROVE \A k \in Clients : CounterStep(k)
  BY <1>0 DEF CounterStep
<1>1. ASSUME NEW k \in Clients, NEW b \in Bunches,
             wire' = [wire EXCEPT ![k] = Append(wire[k], b)],
             \/ ~Counted(b) /\ reliableSeq' = reliableSeq
             \/ /\ Counted(b) /\ b.num = reliableSeq[k]
                /\ reliableSeq' = [reliableSeq EXCEPT ![k] = reliableSeq[k] + 1]
      PROVE  \A j \in Clients : CounterStep(j)
  BY <1>1 DEF CounterStep, TypeOK
<1>2. ASSUME NEW k \in Clients, HandleResponse(k) PROVE \A j \in Clients : CounterStep(j)
  BY <1>2 DEF HandleResponse, CounterStep, TypeOK
<1>3. ASSUME NEW k \in Clients, HandleHelloOrLogin(k)
      PROVE  \A j \in Clients : CounterStep(j)
  <2>1. Bunch(0, reliableSeq[k]) \in Bunches
    BY BunchTyped DEF TypeOK, Channels
  <2>2. Counted(Bunch(0, reliableSeq[k])) /\ Bunch(0, reliableSeq[k]).num = reliableSeq[k]
    BY DEF Counted, Bunch
  <2> QED BY <1>1, <1>3, <2>1, <2>2 DEF HandleHelloOrLogin
<1>4. ASSUME NEW k \in Clients, HandleInitRequest(k)
      PROVE  \A j \in Clients : CounterStep(j)
  <2>1. Bunch(3, 4) \in Bunches /\ ~Counted(Bunch(3, 4))
    BY BunchTyped DEF Channels, Counted, Bunch
  <2> QED BY <1>1, <1>4, <2>1 DEF HandleInitRequest
<1>5. CASE Receive
  BY <1>0, <1>2, <1>3, <1>4, <1>5 DEF Receive, Launch, HandleInitial, HandleNetSpeed,
     HandleReady, HandleGameBunch, TimeOut, clientVars
<1>6. CASE EmitRow /\ Reachable
  <2> DEFINE r == Plan[row]
             b == [ch |-> r.ch, num |-> NumberOf(r), row |-> row, by |-> target.conn]
  <2>1. row <= Len(Plan) /\ row # 0 /\ SendRow(r) /\ Here \in Clients
    BY <1>6, NativeAssumption DEF EmitRow, TypeOK, Here
  <2>2. b \in Bunches /\ b.num = NumberOf(r)
    BY <2>1, RowTyped
  <2>3. Counted(b) <=> r.how = "counter"
    BY <2>1 DEF Counted
  <2>4. wire' = [wire EXCEPT ![Here] = Append(wire[Here], b)]
    BY <2>1 DEF SendRow
  <2>5. r.how = "counter" => /\ NumberOf(r) = reliableSeq[Here]
                             /\ reliableSeq' = [reliableSeq EXCEPT ![Here] = reliableSeq[Here] + 1]
    BY <2>1 DEF SendRow, NumberOf
  <2>6. r.how # "counter" => reliableSeq' = reliableSeq
    BY <2>1 DEF SendRow, TypeOK
  <2> HIDE DEF b, r
  <2> QED BY <1>1, <2>1, <2>2, <2>3, <2>4, <2>5, <2>6
<1>7. CASE Sequencer /\ ~(EmitRow /\ Reachable)
  BY <1>0, <1>7 DEF Sequencer, Check, Ping, GoOn, GiveUp, Release, Leave, EmitRow,
     Complete, Maintain, Beat, clientVars
<1>8. CASE UNCHANGED vars
  BY <1>0, <1>8 DEF vars, clientVars
<1> QED BY <1>5, <1>6, <1>7, <1>8 DEF Next

\* The reliable bunches numbered from reliable_seq are numbered without gap or
\* repetition in every connection, whatever rows of whatever plan use it.  So the
\* numbers ReliableInSequence finds twice come from the tracker and the fixed
\* rows.
THEOREM NativeCounterSequence == Spec => []CounterSequence
<1>1. Init => CounterInv
  BY DEF Init, CounterInv, CounterSequence, CountedUpTo
<1>2. TypeOK /\ CounterInv /\ [Next]_vars => CounterInv'
  BY NextIsCounterStep, CounterStepKeeps
<1>3. CounterInv => CounterSequence
  BY DEF CounterInv
<1> QED BY <1>1, <1>2, <1>3, NativeTypeOK, PTL DEF Spec

-----------------------------------------------------------------------------
(* stop(): for ever if it meets the sequencer inside a callback, a few      *)
(* steps of its thread otherwise.                                           *)

\* A handler is in stop() with the lock a callback of the sequencer waits for.
Blocked == joining # {} /\ pc \in Inside

\* A stop() that finds the sequencer inside a callback never returns: no step
\* of either thread gets the server out of it.
THEOREM NativeStopBlocks == Spec => [](Blocked => []Blocked)
<1>1. Blocked /\ [Next]_vars => Blocked'
  <2> SUFFICES ASSUME Blocked, [Next]_vars PROVE Blocked'
    OBVIOUS
  <2>1. ~Locked
    BY DEF Blocked, Locked
  <2>2. CASE Receive
    BY <2>1, <2>2 DEF Receive, Launch, HandleInitial, HandleResponse, HandleHelloOrLogin,
       HandleNetSpeed, HandleReady, HandleGameBunch, HandleInitRequest, TimeOut, Blocked,
       Inside
  <2>3. CASE Sequencer
    BY <2>1, <2>3 DEF Sequencer, Check, Ping, GoOn, GiveUp, Leave, EmitRow, Complete,
       Maintain, Beat, Blocked, Inside
  <2>4. CASE UNCHANGED vars
    BY <2>4 DEF vars, serverVars, threadVars, Blocked
  <2> QED
    BY <2>2, <2>3, <2>4 DEF Next
<1> QED
  BY <1>1, PTL DEF Spec

\* How many steps the thread still takes once it must stop.
StepsLeft(l) == CASE l = "limit" -> 3 [] l = "check" -> 2
                  [] l \in {"leave", "loop"} -> 1 [] OTHER -> 0

\* A handler in stop() has lowered running_, and nothing raises it.
Lowered == joining # {} => ~running

\* While stop() waits for a sequencer outside a callback, each step its thread
\* takes brings it nearer to its end, and none leads into a callback: what
\* StopReturns needs of the code apart from its being scheduled.
THEOREM NativeStopDescends ==
    Spec => [][joining # {} /\ pc \in Outside =>
                 /\ joining' = joining
                 /\ Sequencer =>
                      /\ pc' \in Outside \cup {"exited"}
                      /\ StepsLeft(pc') < StepsLeft(pc)]_vars
<1> DEFINE Descends == joining # {} /\ pc \in Outside =>
                         /\ joining' = joining
                         /\ Sequencer => /\ pc' \in Outside \cup {"exited"}
                                         /\ StepsLeft(pc') < StepsLeft(pc)
<1>1. Init => Lowered
  BY DEF Init, Lowered
<1>2. Lowered /\ [Next]_vars => Lowered'
  <2> SUFFICES ASSUME Lowered, [Next]_vars PROVE Lowered'
    OBVIOUS
  <2>1. CASE Receive
    BY <2>1 DEF Receive, Launch, HandleInitial, HandleResponse, HandleHelloOrLogin,
       HandleNetSpeed, HandleReady, HandleGameBunch, HandleInitRequest, TimeOut, Lowered,
       serverVars, threadVars
  <2>2. CASE Sequencer
    BY <2>2 DEF Sequencer, Check, Ping, GoOn, GiveUp, Leave, EmitRow, Complete,
       Maintain, Beat, Goto, Exit, Lowered, serverVars
  <2>3. CASE UNCHANGED vars
    BY <2>3 DEF vars, serverVars, threadVars, Lowered
  <2> QED
    BY <2>1, <2>2, <2>3 DEF Next
<1>3. Lowered /\ [Next]_vars => [Descends]_vars
  <2> SUFFICES ASSUME Lowered, Next, joining # {}, pc \in Outside PROVE Descends
    BY DEF Descends
  <2>1. ~Locked /\ ~running /\ pc \in {"check", "limit", "leave", "loop"}
    BY DEF Lowered, Locked, Outside
  <2>2. ~Receive
    BY <2>1 DEF Receive, Launch, HandleInitial, HandleResponse, HandleHelloOrLogin,
       HandleNetSpeed, HandleReady, HandleGameBunch, HandleInitRequest, TimeOut
  <2>3. Sequencer => joining' = joining
    BY DEF Sequencer, Check, Ping, GoOn, GiveUp, Leave, EmitRow, Complete, Maintain,
       Beat, serverVars
  <2>4. Sequencer => \/ pc = "check" /\ pc' = "leave"
                     \/ pc = "limit" /\ pc' \in {"check", "leave"}
                     \/ pc \in {"leave", "loop"} /\ pc' = "exited"
    BY <2>1 DEF Sequencer, Check, Ping, GoOn, GiveUp, Leave, EmitRow, Complete,
       Maintain, Beat, Goto, Exit
  <2> QED
    BY <2>2, <2>3, <2>4 DEF Next, Outside, StepsLeft
<1> QED
  BY <1>1, <1>2, <1>3, PTL DEF Spec
=============================================================================
