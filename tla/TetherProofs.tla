---------------------------- MODULE TetherProofs ----------------------------
(***************************************************************************)
(* Theorems about Tether, for any size of the ring and any bounds: the     *)
(* types, when the endpoint is pushed, and that each session implements    *)
(* the channel of TetherChannel.                                           *)
(***************************************************************************)
EXTENDS Tether, SequenceTheorems, TLAPS

-----------------------------------------------------------------------------
\* The ring.

\* What the ring holds for a session in which log has been sent: for every
\* number given, the message itself if it is one of the last SentWindow, and
\* otherwise a later one.
RingHolds(ring, log) ==
    \A j \in 0..(Len(log) - 1) :
       /\ \E i \in (j + 1)..Len(log) : ring[Slot(j)] = log[i]
       /\ Len(log) <= j + SentWindow => ring[Slot(j)] = log[j + 1]

LEMMA SlotRange ==
    ASSUME NEW n \in Nat
    PROVE  Slot(n) \in 0..(SentWindow - 1)
BY TetherAssumption DEF Slot

\* Fewer than SentWindow apart, two numbers have different slots.
LEMMA SlotsDiffer ==
    ASSUME NEW i \in Nat, NEW j \in Nat, i < j, j < i + SentWindow
    PROVE  Slot(i) # Slot(j)
<1> DEFINE W == SentWindow
           a == i \div W
           b == j \div W
<1>1. W \in Nat /\ W > 0
  BY TetherAssumption
<1>2. i = W * a + (i % W) /\ j = W * b + (j % W) /\ a \in Int /\ b \in Int
  BY <1>1
<1>3. SUFFICES ASSUME i % W = j % W PROVE FALSE
  BY DEF Slot
<1> HIDE DEF a, b, W
<1>4. j - i = W * b - W * a
  BY <1>2, <1>3, <1>1
<1>5. W * b - W * a = W * (b - a)
  BY <1>1, <1>2
<1>6. CASE b - a <= 0
  <2>1. W * (b - a) <= 0
    BY <1>1, <1>2, <1>6
  <2> QED BY <2>1, <1>4, <1>5
<1>7. CASE b - a >= 1
  <2>1. W * (b - a) >= W
    BY <1>1, <1>2, <1>7
  <2> QED BY <2>1, <1>4, <1>5, <1>1 DEF W
<1> QED BY <1>2, <1>6, <1>7

Rings == [0..(SentWindow - 1) -> Messages \cup {Empty}]

\* Keeping one more message keeps the ring's promise.
LEMMA StoreHolds ==
    ASSUME NEW ring \in Rings, NEW log \in Seq(Messages), NEW msg \in Messages,
           RingHolds(ring, log)
    PROVE  /\ Store(ring, Len(log), msg) \in Rings
           /\ RingHolds(Store(ring, Len(log), msg), Append(log, msg))
<1> DEFINE n == Len(log)
           new == Append(log, msg)
           r == Store(ring, n, msg)
<1>1. n \in Nat /\ Len(new) = n + 1 /\ new[n + 1] = msg
      /\ \A i \in 1..n : new[i] = log[i]
  OBVIOUS
<1>2. Slot(n) \in 0..(SentWindow - 1)
  BY <1>1, SlotRange
<1>3. r \in Rings /\ r[Slot(n)] = msg
  BY <1>2 DEF Store, Rings
<1>4. \A k \in 0..(SentWindow - 1) : k # Slot(n) => r[k] = ring[k]
  BY <1>2 DEF Store, Rings
<1>5. ASSUME NEW j \in 0..n
      PROVE  /\ \E i \in (j + 1)..(n + 1) : r[Slot(j)] = new[i]
             /\ n + 1 <= j + SentWindow => r[Slot(j)] = new[j + 1]
  <2>0. Slot(j) \in 0..(SentWindow - 1) /\ SentWindow \in Nat
    BY <1>1, SlotRange, TetherAssumption
  <2>1. CASE j = n
    BY <2>1, <1>1, <1>3
  <2>2. CASE j # n /\ Slot(j) = Slot(n)
    <3>1. ~(n < j + SentWindow)
      BY <2>2, <1>1, SlotsDiffer
    <3> QED BY <3>1, <2>0, <2>2, <1>1, <1>3
  <2>3. CASE j # n /\ Slot(j) # Slot(n)
    <3>1. j \in 0..(n - 1) /\ r[Slot(j)] = ring[Slot(j)]
      BY <2>3, <2>0, <1>1, <1>4
    <3>2. PICK i \in (j + 1)..n : ring[Slot(j)] = log[i]
      BY <3>1 DEF RingHolds
    <3>3. i \in (j + 1)..(n + 1) /\ i \in 1..n /\ j + 1 \in 1..n
      BY <3>1, <3>2, <1>1
    <3>4. r[Slot(j)] = new[i]
      BY <3>1, <3>2, <3>3, <1>1
    <3>5. n + 1 <= j + SentWindow => ring[Slot(j)] = log[j + 1]
      BY <3>1, <1>1, <2>0 DEF RingHolds
    <3> QED BY <3>1, <3>3, <3>4, <3>5, <1>1
  <2> QED BY <2>1, <2>2, <2>3
<1>6. RingHolds(r, new)
  <2> HIDE DEF r, new
  <2> QED BY <1>1, <1>5 DEF RingHolds
<1> QED BY <1>3, <1>6

\* So does keeping the answers to one datagram, at most two.
LEMMA StoreAllHolds ==
    ASSUME NEW ring \in Rings, NEW log \in Seq(Messages), NEW ms \in Seq(Messages),
           Len(ms) \in 0..2, RingHolds(ring, log)
    PROVE  /\ StoreAll(ring, Len(log), ms) \in Rings
           /\ RingHolds(StoreAll(ring, Len(log), ms), log \o ms)
<1>1. CASE Len(ms) = 0
  <2>1. log \o ms = log
    BY <1>1
  <2> QED BY <1>1, <2>1 DEF StoreAll
<1>2. CASE Len(ms) = 1
  <2>1. log \o ms = Append(log, ms[1]) /\ ms[1] \in Messages
    <3>1. ms[1] \in Messages
      BY <1>2, ElementOfSeq
    <3>2. Len(log \o ms) = Len(Append(log, ms[1]))
      BY <1>2, <3>1, ConcatProperties, AppendProperties
    <3>3. \A i \in 1..Len(log \o ms) : (log \o ms)[i] = Append(log, ms[1])[i]
      BY <1>2, <3>1, ConcatProperties, AppendProperties
    <3>4. log \o ms \in Seq(Messages) /\ Append(log, ms[1]) \in Seq(Messages)
      BY <3>1, ConcatProperties, AppendProperties
    <3> QED BY <3>1, <3>2, <3>3, <3>4, SeqEqual
  <2>2. StoreAll(ring, Len(log), ms) = Store(ring, Len(log), ms[1])
    BY <1>2 DEF StoreAll
  <2> QED BY <2>1, <2>2, StoreHolds
<1>3. CASE Len(ms) = 2
  <2> DEFINE one == Append(log, ms[1])
  <2>1. /\ log \o ms = Append(one, ms[2]) /\ ms[1] \in Messages /\ ms[2] \in Messages
        /\ one \in Seq(Messages) /\ Len(one) = Len(log) + 1
    <3>1. /\ ms[1] \in Messages /\ ms[2] \in Messages
          /\ one \in Seq(Messages) /\ Len(one) = Len(log) + 1
      <4>1. 1 \in 1..Len(ms) /\ 2 \in 1..Len(ms)
        BY <1>3
      <4>2. ms[1] \in Messages /\ ms[2] \in Messages
        BY <4>1, ElementOfSeq
      <4> QED BY <4>2, AppendProperties
    <3>2. Len(log \o ms) = Len(Append(one, ms[2]))
      <4>1. Len(Append(one, ms[2])) = Len(one) + 1
        BY <3>1, AppendProperties
      <4>2. Len(log \o ms) = Len(log) + Len(ms)
        BY ConcatProperties
      <4>3. Len(log) \in Nat
        OBVIOUS
      <4> QED BY <4>1, <4>2, <4>3, <3>1, <1>3
    <3>3. \A i \in 1..Len(log \o ms) : (log \o ms)[i] = Append(one, ms[2])[i]
      BY <1>3, <3>1, ConcatProperties, AppendProperties
    <3>4. log \o ms \in Seq(Messages) /\ Append(one, ms[2]) \in Seq(Messages)
      BY <3>1, ConcatProperties, AppendProperties
    <3> QED BY <3>1, <3>2, <3>3, <3>4, SeqEqual
  <2>2. StoreAll(ring, Len(log), ms)
          = Store(Store(ring, Len(log), ms[1]), Len(log) + 1, ms[2])
    BY <1>3 DEF StoreAll
  <2>3. Store(ring, Len(log), ms[1]) \in Rings
        /\ RingHolds(Store(ring, Len(log), ms[1]), one)
    BY <2>1, StoreHolds
  <2> HIDE DEF one
  <2>4. /\ Store(Store(ring, Len(log), ms[1]), Len(one), ms[2]) \in Rings
        /\ RingHolds(Store(Store(ring, Len(log), ms[1]), Len(one), ms[2]), Append(one, ms[2]))
    BY <2>1, <2>3, StoreHolds
  <2> QED BY <2>1, <2>2, <2>4
<1> QED BY <1>1, <1>2, <1>3

-----------------------------------------------------------------------------
\* The inductive invariant.

\* The history belongs to the sessions the client has opened, and the client
\* is never ahead of the server.
History ==
    /\ session_id <= mySession
    /\ pending # None => pending.session = mySession
    /\ \A s \in Sessions : /\ s > mySession => sent[s] = <<>>
                           /\ Len(delivered[s]) <= Len(sent[s])

\* A session is opened once: while its Connect is under way nothing has been
\* sent in it.
ConnectOnce ==
    \A d \in net : d.type = "connect" =>
        /\ d.session <= mySession /\ d.session # session_id
        /\ sent[d.session] = <<>>
        /\ \A e \in net : e.type = "connect" /\ e.session = d.session => e = d

RingFaithful == connected => RingHolds(sent_payloads, sent[session_id])

\* A message under way is the one its number stands for, or one that has taken
\* its place in the ring.
DataFaithful ==
    \A d \in net : d.type = "data" =>
        /\ \E i \in (d.seq + 1)..Len(sent[d.session]) : d.msg = sent[d.session][i]
        /\ Len(sent[d.session]) <= d.seq + SentWindow
              => d.msg = sent[d.session][d.seq + 1]

\* Nobody asks for more than what comes next.
AskModest ==
    \A d \in net : d.type = "ask" => d.wanted <= Len(delivered[d.session])

TetherInv == /\ TypeOK /\ History /\ ConnectOnce
             /\ RingFaithful /\ DataFaithful /\ AskModest

\* What the server sends in answer to one request.
Answers(m) == [i \in 1..Len(Replies(m.kind)) |-> <<Replies(m.kind)[i], m.seq>>]

LEMMA AnswersType ==
    ASSUME NEW m, m.kind \in Kinds, m.seq \in 1..MaxRequests
    PROVE  Answers(m) \in Seq(Messages) /\ Len(Answers(m)) \in 0..2
<1>1. m.seq \in 0..MaxRequests
  BY TetherAssumption
<1>2. Replies(m.kind) \in Seq(MessageNames) /\ Len(Replies(m.kind)) \in 0..2
  <2>1. m.kind \in {"open", "echo", "info", "close", "other"}
    BY TetherAssumption
  <2>2. CASE m.kind = "open"
    BY <2>2 DEF Replies, MessageNames
  <2>3. CASE m.kind = "echo"
    BY <2>3 DEF Replies, MessageNames
  <2>4. CASE m.kind = "info"
    BY <2>4 DEF Replies, MessageNames
  <2>5. CASE m.kind = "close"
    BY <2>5 DEF Replies, MessageNames
  <2>6. CASE m.kind = "other"
    BY <2>6 DEF Replies, MessageNames
  <2> QED BY <2>1, <2>2, <2>3, <2>4, <2>5, <2>6
<1>3. \A i \in 1..Len(Replies(m.kind)) : <<Replies(m.kind)[i], m.seq>> \in Messages
  BY <1>1, <1>2, ElementOfSeq DEF Messages
<1> QED BY <1>2, <1>3 DEF Answers

\* The push nobody has asked for.
LEMMA PushType ==
    /\ << <<"connection_info", 0>> >> \in Seq(Messages)
    /\ Len(<< <<"connection_info", 0>> >>) \in 0..2
BY TetherAssumption DEF Messages, MessageNames

\* What a server step that sends ms does to the history and the ring.
LEMMA RepliesSent ==
    ASSUME TetherInv, connected, NEW ms \in Seq(Messages), Len(ms) \in 0..2,
           SendReplies(ms)
    PROVE  /\ session_id \in Sessions
           /\ sent' = [sent EXCEPT ![session_id] = sent[session_id] \o ms]
           /\ sent' \in [Sessions -> Seq(Messages)]
           /\ sent'[session_id] \in Seq(Messages)
           /\ \A s \in Sessions : s # session_id => sent'[s] = sent[s]
           /\ Len(sent'[session_id]) = Len(sent[session_id]) + Len(ms)
           /\ \A i \in 1..Len(sent[session_id]) : sent'[session_id][i] = sent[session_id][i]
           /\ \A i \in 1..Len(ms) :
                 sent'[session_id][Len(sent[session_id]) + i] = ms[i]
           /\ send_seq' = Len(sent'[session_id]) /\ send_seq' \in Nat
           /\ sent_payloads' \in Rings
           /\ RingHolds(sent_payloads', sent'[session_id])
<1> DEFINE log == sent[session_id]
<1>1. /\ session_id \in Sessions /\ sent \in [Sessions -> Seq(Messages)]
      /\ log \in Seq(Messages) /\ send_seq = Len(log) /\ sent_payloads \in Rings
      /\ RingHolds(sent_payloads, log)
  BY DEF TetherInv, TypeOK, RingFaithful, Rings
<1>2. /\ sent' = [sent EXCEPT ![session_id] = log \o ms]
      /\ sent_payloads' = StoreAll(sent_payloads, Len(log), ms)
      /\ send_seq' = Len(log) + Len(ms)
  BY <1>1 DEF SendReplies
<1>3. /\ log \o ms \in Seq(Messages) /\ Len(log \o ms) = Len(log) + Len(ms)
      /\ \A i \in 1..(Len(log) + Len(ms)) :
            (log \o ms)[i] = IF i <= Len(log) THEN log[i] ELSE ms[i - Len(log)]
  BY <1>1, ConcatProperties
<1>4. sent'[session_id] = log \o ms
  BY <1>1, <1>2
<1>5. sent_payloads' \in Rings /\ RingHolds(sent_payloads', log \o ms)
  BY <1>1, <1>2, StoreAllHolds
<1>6. Len(log) \in Nat /\ Len(ms) \in Nat
  BY <1>1
<1> HIDE DEF log
<1>7. /\ \A i \in 1..Len(log) : (log \o ms)[i] = log[i]
      /\ \A i \in 1..Len(ms) : (log \o ms)[Len(log) + i] = ms[i]
  BY <1>3, <1>6
<1>8. /\ sent' \in [Sessions -> Seq(Messages)]
      /\ \A s \in Sessions : s # session_id => sent'[s] = sent[s]
  BY <1>1, <1>2, <1>3
<1> QED BY <1>1, <1>2, <1>3, <1>4, <1>5, <1>6, <1>7, <1>8 DEF log

-----------------------------------------------------------------------------
\* Datagrams.

LEMMA DatagramType ==
    ASSUME NEW d \in Datagrams
    PROVE  /\ d.type \in {"connect", "connected", "request", "ask", "ack", "data"}
           /\ d.session \in Sessions /\ d.session \in Nat
           /\ d.type = "connect" => d.seq \in 0..MaxRequests
           /\ d.type = "request" => d.kind \in Kinds /\ d.seq \in 1..MaxRequests
           /\ d.type = "ask" => d.wanted \in Nat
           /\ d.type = "ack" => d.seq \in 1..MaxRequests
           /\ d.type = "data" => d.seq \in Nat /\ d.msg \in Messages
BY DEF Datagrams, Sessions

LEMMA DataType ==
    ASSUME NEW s \in Sessions, NEW q \in Nat, NEW msg \in Messages
    PROVE  /\ DataOf(s, q, msg) \in Datagrams
           /\ DataOf(s, q, msg).type = "data" /\ DataOf(s, q, msg).session = s
           /\ DataOf(s, q, msg).seq = q /\ DataOf(s, q, msg).msg = msg
BY DEF DataOf, Datagrams

LEMMA HeededSubset == \A ds : Heeded(ds) \subseteq ds
BY DEF Heeded

\* A step that neither sends a message nor opens a session, and puts nothing
\* under way but what satisfies the invariant.
LEMMA QuietStep ==
    ASSUME TetherInv, UNCHANGED <<sessionVars, sent>>,
           NEW d0 \in Datagrams, net' \subseteq net \cup {d0},
           d0.type \in {"connected", "request", "ack", "ask", "data"},
           d0.type = "data" =>
             /\ \E i \in (d0.seq + 1)..Len(sent[d0.session]) : d0.msg = sent[d0.session][i]
             /\ Len(sent[d0.session]) <= d0.seq + SentWindow
                   => d0.msg = sent[d0.session][d0.seq + 1],
           d0.type = "ask" => d0.wanted <= Len(delivered[d0.session]),
           mySession' = mySession,
           joined' \in BOOLEAN, joined' => mySession \in Sessions,
           requests' \in 0..MaxRequests, pending' \in Requests \cup {None},
           pending' # None => pending'.session = mySession,
           delivered' \in [Sessions -> Seq(Messages)],
           \A s \in Sessions : /\ Len(delivered[s]) <= Len(delivered'[s])
                               /\ Len(delivered'[s]) <= Len(sent[s])
    PROVE  TetherInv'
<1>1. TypeOK'
  BY DEF TetherInv, TypeOK, sessionVars
<1>2. History'
  BY DEF TetherInv, History, sessionVars
<1>3. ConnectOnce'
  BY DEF TetherInv, ConnectOnce, sessionVars
<1>4. RingFaithful'
  BY DEF TetherInv, RingFaithful, RingHolds, sessionVars
<1>5. DataFaithful'
  BY DEF TetherInv, DataFaithful, sessionVars
<1>6. AskModest'
  <2> SUFFICES ASSUME NEW d \in net', d.type = "ask"
               PROVE  d.wanted <= Len(delivered'[d.session])
    BY DEF AskModest
  <2>1. d.session \in Sessions /\ d.wanted \in Nat /\ d.wanted <= Len(delivered[d.session])
    BY DatagramType DEF TetherInv, TypeOK, AskModest
  <2>2. Len(delivered[d.session]) \in Nat /\ Len(delivered'[d.session]) \in Nat
    BY <2>1 DEF TetherInv, TypeOK
  <2> QED BY <2>1, <2>2
<1> QED BY <1>1, <1>2, <1>3, <1>4, <1>5, <1>6 DEF TetherInv

\* The same, with nothing taken: only the client's own variables change.
LEMMA ClientStep ==
    ASSUME TetherInv, UNCHANGED <<sessionVars, sent, mySession, delivered>>,
           NEW d0 \in Datagrams, net' \subseteq net \cup {d0},
           d0.type \in {"connected", "request", "ack"},
           joined' \in BOOLEAN, joined' => mySession \in Sessions,
           requests' \in 0..MaxRequests, pending' \in Requests \cup {None},
           pending' # None => pending'.session = mySession
    PROVE  TetherInv'
<1>1. /\ delivered' \in [Sessions -> Seq(Messages)]
      /\ \A s \in Sessions : /\ Len(delivered[s]) <= Len(delivered'[s])
                             /\ Len(delivered'[s]) <= Len(sent[s])
  BY DEF TetherInv, TypeOK, History
<1> QED BY <1>1, QuietStep

\* The same, with a datagram more or less under way and nothing else.
LEMMA UnchangedStep ==
    ASSUME TetherInv,
           UNCHANGED <<sessionVars, sent, mySession, joined, requests, pending, delivered>>,
           NEW d0 \in Datagrams, net' \subseteq net \cup {d0},
           d0.type \in {"ask", "data"},
           d0.type = "data" =>
             /\ \E i \in (d0.seq + 1)..Len(sent[d0.session]) : d0.msg = sent[d0.session][i]
             /\ Len(sent[d0.session]) <= d0.seq + SentWindow
                   => d0.msg = sent[d0.session][d0.seq + 1],
           d0.type = "ask" => d0.wanted <= Len(delivered[d0.session])
    PROVE  TetherInv'
<1>1. /\ delivered' \in [Sessions -> Seq(Messages)]
      /\ \A s \in Sessions : /\ Len(delivered[s]) <= Len(delivered'[s])
                             /\ Len(delivered'[s]) <= Len(sent[s])
  BY DEF TetherInv, TypeOK, History
<1>2. /\ joined' \in BOOLEAN /\ (joined' => mySession \in Sessions)
      /\ requests' \in 0..MaxRequests /\ pending' \in Requests \cup {None}
      /\ (pending' # None => pending'.session = mySession)
  BY DEF TetherInv, TypeOK, History
<1> QED BY <1>1, <1>2, QuietStep

\* A step in which the server sends the messages ms.
LEMMA SendStep ==
    ASSUME TetherInv, connected, NEW ms \in Seq(Messages), Len(ms) \in 0..2,
           SendReplies(ms), NEW acks \in SUBSET Datagrams,
           \A a \in acks : a.type = "ack",
           net' \subseteq net \cup acks \cup DataFor(ms),
           UNCHANGED <<session_id, clientVars, delivered>>,
           connected' \in BOOLEAN, connection_info_pushed' \in BOOLEAN,
           recv_seq' \in 0..MaxRequests
    PROVE  TetherInv'
<1> USE DEF clientVars
<1> DEFINE sid == session_id
           old == sent[sid]
           new == sent'[sid]
<1>1. /\ sid \in Sessions /\ new \in Seq(Messages)
      /\ sent' \in [Sessions -> Seq(Messages)]
      /\ \A s \in Sessions : s # sid => sent'[s] = sent[s]
      /\ Len(new) = Len(old) + Len(ms)
      /\ \A i \in 1..Len(old) : new[i] = old[i]
      /\ \A i \in 1..Len(ms) : new[Len(old) + i] = ms[i]
      /\ send_seq' = Len(new) /\ send_seq' \in Nat
      /\ sent_payloads' \in Rings /\ RingHolds(sent_payloads', new)
  BY RepliesSent
<1>2. /\ net \subseteq Datagrams /\ send_seq = Len(old) /\ Len(old) \in Nat
      /\ Len(new) \in Nat /\ Len(ms) \in Nat /\ SentWindow \in Nat
      /\ delivered \in [Sessions -> Seq(Messages)]
      /\ \A s \in Sessions : Len(sent[s]) \in Nat /\ Len(delivered[s]) \in Nat
      /\ sid \in Nat /\ mySession \in Nat
  <2>1. /\ net \subseteq Datagrams /\ send_seq = Len(old)
        /\ delivered \in [Sessions -> Seq(Messages)]
        /\ sent \in [Sessions -> Seq(Messages)] /\ SentWindow \in Nat
    BY TetherAssumption DEF TetherInv, TypeOK
  <2>2. \A s \in Sessions : Len(sent[s]) \in Nat /\ Len(delivered[s]) \in Nat
    BY <2>1
  <2>3. Len(old) \in Nat /\ Len(new) \in Nat /\ Len(ms) \in Nat
    BY <1>1, <2>2
  <2>4. sid \in Nat /\ mySession \in Nat
    BY TetherAssumption DEF TetherInv, TypeOK
  <2> QED BY <2>1, <2>2, <2>3, <2>4
<1> HIDE DEF sid, old, new
<1>3. ASSUME NEW d \in DataFor(ms)
      PROVE  /\ d \in Datagrams /\ d.type = "data" /\ d.session = sid
             /\ d.seq \in Nat /\ d.seq + 1 \in 1..Len(new)
             /\ d.msg = new[d.seq + 1]
  <2>1. PICK i \in 1..Len(ms) : d = DataOf(sid, send_seq + i - 1, ms[i])
    BY DEF DataFor, sid
  <2>2. ms[i] \in Messages
    BY ElementOfSeq
  <2>3. send_seq + i - 1 \in Nat /\ send_seq + i - 1 + 1 = Len(old) + i
        /\ Len(old) + i \in 1..Len(new)
    BY <1>1, <1>2
  <2>4. /\ d \in Datagrams /\ d.type = "data" /\ d.session = sid
        /\ d.seq = send_seq + i - 1 /\ d.msg = ms[i]
    BY <1>1, <2>1, <2>2, <2>3, DataType
  <2>5. new[Len(old) + i] = ms[i]
    BY <1>1
  <2> QED BY <2>3, <2>4, <2>5
<1>4. TypeOK'
  <2>1. net' \subseteq Datagrams
    BY <1>2, <1>3
  <2>2. connected' => send_seq' = Len(sent'[session_id'])
    BY <1>1 DEF sid, new
  <2>3. session_id' \in Sessions
    BY <1>1 DEF sid
  <2> QED BY <1>1, <2>1, <2>2, <2>3 DEF TetherInv, TypeOK, Rings
<1>5. History'
  <2>1. \A s \in Sessions : /\ s > mySession => sent'[s] = <<>>
                            /\ Len(delivered[s]) <= Len(sent'[s])
    <3> TAKE s \in Sessions
    <3>1. CASE s # sid
      BY <3>1, <1>1 DEF TetherInv, History
    <3>2. CASE s = sid
      <4>1. ~(s > mySession) /\ Len(delivered[s]) <= Len(old)
        BY <3>2, <1>2 DEF TetherInv, History, sid, old
      <4>2. Len(delivered[s]) <= Len(new)
        BY <4>1, <1>1, <1>2
      <4> QED BY <4>1, <4>2, <3>2 DEF new
    <3> QED BY <3>1, <3>2
  <2> QED BY <2>1 DEF TetherInv, History
<1>6. ConnectOnce'
  <2> SUFFICES ASSUME NEW d \in net', d.type = "connect"
               PROVE  /\ d.session <= mySession /\ d.session # session_id
                      /\ sent'[d.session] = <<>>
                      /\ \A e \in net' : e.type = "connect" /\ e.session = d.session => e = d
    BY DEF ConnectOnce
  <2>1. \A e \in net' : e.type = "connect" => e \in net
    BY <1>3
  <2>2. d \in net /\ d.session \in Sessions
    BY <2>1, <1>2, DatagramType
  <2> QED BY <2>1, <2>2, <1>1 DEF TetherInv, ConnectOnce, sid
<1>7. RingFaithful'
  BY <1>1 DEF RingFaithful, sid, new
<1>8. DataFaithful'
  <2> SUFFICES ASSUME NEW d \in net', d.type = "data"
               PROVE  /\ \E i \in (d.seq + 1)..Len(sent'[d.session]) :
                            d.msg = sent'[d.session][i]
                      /\ Len(sent'[d.session]) <= d.seq + SentWindow
                            => d.msg = sent'[d.session][d.seq + 1]
    BY DEF DataFaithful
  <2>1. CASE d \in DataFor(ms)
    <3>1. d.seq + 1 \in (d.seq + 1)..Len(new)
      BY <1>3, <2>1, <1>2
    <3> QED BY <3>1, <1>3, <2>1 DEF new
  <2>2. CASE d \in net
    <3>1. d.session \in Sessions /\ d.seq \in Nat
      BY <2>2, <1>2, DatagramType
    <3>2. PICK i \in (d.seq + 1)..Len(sent[d.session]) : d.msg = sent[d.session][i]
      BY <2>2 DEF TetherInv, DataFaithful
    <3>3. Len(sent[d.session]) <= d.seq + SentWindow => d.msg = sent[d.session][d.seq + 1]
      BY <2>2 DEF TetherInv, DataFaithful
    <3>4. CASE d.session # sid
      BY <3>1, <3>2, <3>3, <3>4, <1>1
    <3>5. CASE d.session = sid
      <4>0. i \in (d.seq + 1)..Len(old) /\ Len(old) <= Len(new)
        BY <3>2, <3>5, <1>1, <1>2 DEF old
      <4>1. i \in 1..Len(old) /\ d.seq + 1 \in 1..Len(old) /\ i \in (d.seq + 1)..Len(new)
        BY <4>0, <3>1, <1>2
      <4>2. d.msg = new[i]
        BY <4>1, <3>2, <3>5, <1>1 DEF old
      <4>3. Len(new) <= d.seq + SentWindow => d.msg = new[d.seq + 1]
        <5>1. Len(old) <= d.seq + SentWindow => d.msg = old[d.seq + 1]
          BY <3>3, <3>5 DEF old
        <5>2. Len(new) <= d.seq + SentWindow => Len(old) <= d.seq + SentWindow
          BY <4>0, <3>1, <1>2
        <5>3. new[d.seq + 1] = old[d.seq + 1]
          BY <4>1, <1>1
        <5> QED BY <5>1, <5>2, <5>3
      <4> QED BY <4>1, <4>2, <4>3, <3>5 DEF new
    <3> QED BY <3>4, <3>5
  <2> QED BY <2>1, <2>2
<1>9. AskModest'
  BY <1>3 DEF TetherInv, AskModest
<1> QED BY <1>4, <1>5, <1>6, <1>7, <1>8, <1>9 DEF TetherInv

-----------------------------------------------------------------------------
\* Every step keeps the invariant.

LEMMA OnConnectStep ==
    ASSUME TetherInv, NEW m \in net, OnConnect(m)
    PROVE  TetherInv'
<1> USE DEF clientVars
<1>1. /\ m \in Datagrams /\ m.session \in Sessions /\ m.seq \in 0..MaxRequests
      /\ m.session <= mySession /\ m.session # session_id /\ sent[m.session] = <<>>
  BY DatagramType DEF TetherInv, TypeOK, ConnectOnce, OnConnect
<1> DEFINE reply == [type |-> "connected", session |-> m.session]
<1>2. reply \in Datagrams /\ reply.type = "connected"
  BY <1>1 DEF Datagrams
<1>3. net' \subseteq (net \ {m}) \cup {reply}
  BY HeededSubset DEF OnConnect
<1>4. /\ session_id' = m.session /\ connected' = TRUE /\ recv_seq' = m.seq /\ send_seq' = 0
      /\ connection_info_pushed' = FALSE
      /\ UNCHANGED <<sent_payloads, mySession, joined, requests, pending, sent, delivered>>
  BY DEF OnConnect, Accept
<1> HIDE DEF reply
<1>5. TypeOK'
  <2>1. net' \subseteq Datagrams
    BY <1>2, <1>3 DEF TetherInv, TypeOK
  <2>2. session_id' \in 0..MaxSessions /\ session_id' \in Sessions
    BY <1>1, <1>4, TetherAssumption DEF Sessions
  <2>3. send_seq' = Len(sent'[session_id']) /\ send_seq' \in Nat
    BY <1>1, <1>4
  <2> QED BY <2>1, <2>2, <2>3, <1>1, <1>4 DEF TetherInv, TypeOK
<1>6. History'
  BY <1>1, <1>4 DEF TetherInv, History
<1>7. ConnectOnce'
  <2> SUFFICES ASSUME NEW d \in net', d.type = "connect"
               PROVE  /\ d.session <= mySession /\ d.session # m.session
                      /\ sent[d.session] = <<>>
                      /\ \A e \in net' : e.type = "connect" /\ e.session = d.session => e = d
    BY <1>4 DEF ConnectOnce
  <2>1. \A e \in net' : e.type = "connect" => e \in net /\ e # m
    BY <1>2, <1>3
  <2>2. m.type = "connect"
    BY DEF OnConnect
  <2> QED BY <2>1, <2>2 DEF TetherInv, ConnectOnce
<1>8. RingFaithful'
  <2>1. sent'[session_id'] = <<>>
    BY <1>1, <1>4
  <2> QED BY <2>1 DEF RingFaithful, RingHolds
<1>9. DataFaithful'
  BY <1>2, <1>3, <1>4 DEF TetherInv, DataFaithful
<1>10. AskModest'
  BY <1>2, <1>3, <1>4 DEF TetherInv, AskModest
<1> QED BY <1>5, <1>6, <1>7, <1>8, <1>9, <1>10 DEF TetherInv

LEMMA OnDataStep ==
    ASSUME TetherInv, NEW m \in net, OnData(m)
    PROVE  TetherInv'
<1>1. /\ m \in Datagrams /\ m.session \in Sessions /\ m.kind \in Kinds
      /\ m.seq \in 1..MaxRequests /\ connected
  BY DatagramType DEF TetherInv, TypeOK, OnData, Mine
<1>2. Answers(m) \in Seq(Messages) /\ Len(Answers(m)) \in 0..2
  BY <1>1, AnswersType
<1>3. /\ SendReplies(Answers(m)) /\ recv_seq' = m.seq /\ connected' = (m.kind # "close")
      /\ net' = (net \ {m}) \cup Heeded({AckOf(m)} \cup DataFor(Answers(m)))
      /\ UNCHANGED <<session_id, connection_info_pushed, clientVars, delivered>>
  BY DEF OnData, Answers
<1>4. {AckOf(m)} \in SUBSET Datagrams /\ \A a \in {AckOf(m)} : a.type = "ack"
  BY <1>1 DEF AckOf, Datagrams
<1>5. net' \subseteq net \cup {AckOf(m)} \cup DataFor(Answers(m))
  BY <1>3, HeededSubset
<1>6. /\ recv_seq' \in 0..MaxRequests /\ connected' \in BOOLEAN
      /\ connection_info_pushed' \in BOOLEAN
  BY <1>1, <1>3, TetherAssumption DEF TetherInv, TypeOK
<1> QED BY <1>1, <1>2, <1>3, <1>4, <1>5, <1>6, SendStep

LEMMA PushStep ==
    ASSUME TetherInv, NEW m \in net, PushConnectionInfo(m)
    PROVE  TetherInv'
<1> DEFINE ms == << <<"connection_info", 0>> >>
<1>1. /\ SendReplies(ms) /\ connection_info_pushed' = TRUE /\ connected
      /\ net' = (net \ {m}) \cup Heeded(DataFor(ms))
      /\ UNCHANGED <<session_id, recv_seq, connected, clientVars, delivered>>
  BY DEF PushConnectionInfo, Mine
<1>2. ms \in Seq(Messages) /\ Len(ms) \in 0..2
  BY PushType
<1> HIDE DEF ms
<1>3. net' \subseteq net \cup {} \cup DataFor(ms)
  BY <1>1, HeededSubset
<1>4. /\ recv_seq' \in 0..MaxRequests /\ connected' \in BOOLEAN
      /\ connection_info_pushed' \in BOOLEAN
  BY <1>1 DEF TetherInv, TypeOK
<1>5. {} \in SUBSET Datagrams /\ \A a \in {} : a.type = "ack"
  OBVIOUS
<1> QED BY <1>1, <1>2, <1>3, <1>4, <1>5, SendStep

\* What is sent again is what the number stands for, or later.
LEMMA ResendStep ==
    ASSUME TetherInv, NEW m \in net, Retransmit(m)
    PROVE  TetherInv'
<1> USE DEF clientVars
<1> DEFINE msg == sent_payloads[Slot(m.wanted)]
           log == sent[session_id]
           d0 == DataOf(session_id, m.wanted, msg)
<1>1. /\ m.wanted \in Nat /\ connected /\ session_id \in Sessions
      /\ send_seq = Len(log) /\ log \in Seq(Messages) /\ m.wanted < Len(log)
      /\ sent_payloads \in Rings
  BY DatagramType DEF TetherInv, TypeOK, Retransmit, Mine, Rings
<1>2. /\ net' = (net \ {m}) \cup Heeded({d0}) /\ msg # Empty
      /\ UNCHANGED <<sessionVars, mySession, joined, requests, pending, sent, delivered>>
  BY DEF Retransmit, Resend
<1>3. msg \in Messages
  BY <1>1, <1>2, SlotRange DEF Rings
<1>4. /\ \E i \in (m.wanted + 1)..Len(log) : msg = log[i]
      /\ Len(log) <= m.wanted + SentWindow => msg = log[m.wanted + 1]
  <2>1. m.wanted \in 0..(Len(log) - 1)
    BY <1>1
  <2>2. RingHolds(sent_payloads, log)
    BY <1>1 DEF TetherInv, RingFaithful
  <2> QED BY <2>1, <2>2 DEF RingHolds
<1>5. /\ d0 \in Datagrams /\ d0.type = "data" /\ d0.session = session_id
      /\ d0.seq = m.wanted /\ d0.msg = msg
  BY <1>1, <1>3, DataType
<1>6. net' \subseteq net \cup {d0}
  BY <1>2, HeededSubset
<1>7. /\ \E i \in (d0.seq + 1)..Len(sent[d0.session]) : d0.msg = sent[d0.session][i]
      /\ Len(sent[d0.session]) <= d0.seq + SentWindow
            => d0.msg = sent[d0.session][d0.seq + 1]
  BY <1>4, <1>5
<1> HIDE DEF msg, log, d0
<1> QED BY <1>2, <1>5, <1>6, <1>7, UnchangedStep

LEMMA TellWindowStep ==
    ASSUME TetherInv, NEW m \in net, TellWindow(m)
    PROVE  TetherInv'
<1>1. /\ m \in Datagrams /\ m.type = "ask" /\ m.wanted <= Len(delivered[m.session])
      /\ net' \subseteq net \cup {m}
      /\ UNCHANGED <<sessionVars, sent, mySession, joined, requests, pending, delivered>>
  BY DEF TellWindow, clientVars, TetherInv, TypeOK, AskModest
<1> QED BY <1>1, UnchangedStep

LEMMA LoseStep ==
    ASSUME TetherInv, NEW m \in net, Lose(m)
    PROVE  TetherInv'
<1>1. /\ m \in Datagrams /\ m.type = "data" /\ net' \subseteq net \cup {m}
      /\ UNCHANGED <<sessionVars, sent, mySession, joined, requests, pending, delivered>>
  BY DEF Lose, clientVars, TetherInv, TypeOK
<1>2. /\ \E i \in (m.seq + 1)..Len(sent[m.session]) : m.msg = sent[m.session][i]
      /\ Len(sent[m.session]) <= m.seq + SentWindow => m.msg = sent[m.session][m.seq + 1]
  BY <1>1 DEF TetherInv, DataFaithful
<1> QED BY <1>1, <1>2, UnchangedStep

LEMMA AskWindowStep ==
    ASSUME TetherInv, AskWindow
    PROVE  TetherInv'
<1> DEFINE ask == [type |-> "ask", session |-> mySession,
                   wanted |-> Len(delivered[mySession])]
<1>1. /\ joined /\ net' \subseteq net \cup {ask}
      /\ UNCHANGED <<sessionVars, sent, mySession, joined, requests, pending, delivered>>
  BY DEF AskWindow, clientVars
<1>2. mySession \in Sessions /\ Len(delivered[mySession]) \in Nat
  BY <1>1 DEF TetherInv, TypeOK
<1>3. /\ ask \in Datagrams /\ ask.type = "ask" /\ ask.session = mySession
      /\ ask.wanted = Len(delivered[mySession])
  BY <1>2 DEF Datagrams
<1> HIDE DEF ask
<1>4. ask.wanted <= Len(delivered[ask.session])
  BY <1>2, <1>3
<1> QED BY <1>1, <1>3, <1>4, UnchangedStep

\* A step of the client between two datagrams: it has joined, sends, or has
\* been answered.
LEMMA OnConnectedStep ==
    ASSUME TetherInv, NEW m \in net, OnConnected(m)
    PROVE  TetherInv'
<1>1. /\ m \in Datagrams /\ m.type = "connected" /\ net' \subseteq net \cup {m}
      /\ m.session = mySession /\ joined' = TRUE
      /\ UNCHANGED <<sessionVars, sent, mySession, requests, pending, delivered>>
  BY DEF OnConnected, TetherInv, TypeOK
<1>2. mySession \in Sessions
  BY <1>1, DatagramType
<1>3. /\ joined' \in BOOLEAN /\ (joined' => mySession \in Sessions)
      /\ requests' \in 0..MaxRequests /\ pending' \in Requests \cup {None}
      /\ (pending' # None => pending'.session = mySession)
  BY <1>1, <1>2 DEF TetherInv, TypeOK, History
<1> QED BY <1>1, <1>3, ClientStep

LEMMA OnAckStep ==
    ASSUME TetherInv, NEW m \in net, OnAck(m)
    PROVE  TetherInv'
<1>1. /\ m \in Datagrams /\ m.type = "ack" /\ net' \subseteq net \cup {m}
      /\ pending' = None
      /\ UNCHANGED <<sessionVars, sent, mySession, joined, requests, delivered>>
  BY DEF OnAck, TetherInv, TypeOK
<1>2. /\ joined' \in BOOLEAN /\ (joined' => mySession \in Sessions)
      /\ requests' \in 0..MaxRequests /\ pending' \in Requests \cup {None}
      /\ (pending' # None => pending'.session = mySession)
  BY <1>1 DEF TetherInv, TypeOK, History
<1> QED BY <1>1, <1>2, ClientStep

LEMMA RequestStep ==
    ASSUME TetherInv, NEW kind \in Kinds, Request(kind)
    PROVE  TetherInv'
<1> DEFINE r == [session |-> mySession, kind |-> kind, seq |-> requests + 1]
<1>1. /\ joined /\ requests < MaxRequests /\ requests' = requests + 1 /\ pending' = r
      /\ net' = net \cup {RequestOf(r)}
      /\ UNCHANGED <<sessionVars, sent, mySession, joined, delivered>>
  BY DEF Request
<1>2. /\ mySession \in Sessions /\ requests + 1 \in 1..MaxRequests
      /\ requests + 1 \in 0..MaxRequests
  BY <1>1, TetherAssumption DEF TetherInv, TypeOK
<1>3. r \in Requests /\ r.session = mySession
  BY <1>2 DEF Requests
<1>4. RequestOf(r) \in Datagrams /\ RequestOf(r).type = "request"
  BY <1>3 DEF RequestOf, Datagrams, Requests
<1> HIDE DEF r
<1> QED BY <1>1, <1>2, <1>3, <1>4, ClientStep

LEMMA RepeatStep ==
    ASSUME TetherInv, Repeat
    PROVE  TetherInv'
<1>1. /\ pending # None /\ requests < MaxRequests /\ requests' = requests + 1
      /\ net' = net \cup {RequestOf(pending)}
      /\ UNCHANGED <<sessionVars, sent, mySession, joined, pending, delivered>>
  BY DEF Repeat
<1>2. pending \in Requests /\ requests + 1 \in 0..MaxRequests
  BY <1>1, TetherAssumption DEF TetherInv, TypeOK
<1>3. RequestOf(pending) \in Datagrams /\ RequestOf(pending).type = "request"
  BY <1>2 DEF RequestOf, Datagrams, Requests
<1>4. /\ joined' \in BOOLEAN /\ (joined' => mySession \in Sessions)
      /\ requests' \in 0..MaxRequests /\ pending' \in Requests \cup {None}
      /\ (pending' # None => pending'.session = mySession)
  BY <1>1, <1>2 DEF TetherInv, TypeOK, History
<1> QED BY <1>1, <1>3, <1>4, ClientStep

LEMMA TakeStep ==
    ASSUME TetherInv, NEW m \in net, Take(m)
    PROVE  TetherInv'
<1> DEFINE s0 == mySession
           new == Append(delivered[s0], m.msg)
<1>1. /\ m \in Datagrams /\ m.type = "data" /\ m.session = s0 /\ s0 \in Sessions
      /\ m.seq = Len(delivered[s0]) /\ m.seq \in Nat /\ m.msg \in Messages
      /\ delivered' = [delivered EXCEPT ![s0] = new]
      /\ net' \subseteq net \cup {m}
      /\ UNCHANGED <<sessionVars, sent, mySession, joined, requests, pending>>
  BY DatagramType DEF Take, clientVars, TetherInv, TypeOK
<1>2. /\ \E i \in (m.seq + 1)..Len(sent[s0]) : m.msg = sent[s0][i]
      /\ Len(sent[s0]) <= m.seq + SentWindow => m.msg = sent[s0][m.seq + 1]
  BY <1>1 DEF TetherInv, DataFaithful
<1>3. /\ delivered \in [Sessions -> Seq(Messages)]
      /\ \A s \in Sessions : Len(delivered[s]) <= Len(sent[s])
      /\ \A s \in Sessions : Len(delivered[s]) \in Nat /\ Len(sent[s]) \in Nat
  BY DEF TetherInv, TypeOK, History
<1>4. new \in Seq(Messages) /\ Len(new) = Len(delivered[s0]) + 1
  BY <1>1, <1>3, AppendProperties
<1>5. Len(delivered[s0]) + 1 <= Len(sent[s0])
  BY <1>1, <1>2, <1>3
<1> HIDE DEF new
<1>6. /\ delivered' \in [Sessions -> Seq(Messages)] /\ delivered'[s0] = new
      /\ \A s \in Sessions : s # s0 => delivered'[s] = delivered[s]
  BY <1>1, <1>3, <1>4
<1>7. \A s \in Sessions : /\ Len(delivered[s]) <= Len(delivered'[s])
                          /\ Len(delivered'[s]) <= Len(sent[s])
  BY <1>1, <1>3, <1>4, <1>5, <1>6
<1>8. /\ joined' \in BOOLEAN /\ (joined' => mySession \in Sessions)
      /\ requests' \in 0..MaxRequests /\ pending' \in Requests \cup {None}
      /\ (pending' # None => pending'.session = mySession)
  BY <1>1 DEF TetherInv, TypeOK, History
<1> QED BY <1>1, <1>2, <1>6, <1>7, <1>8, QuietStep

LEMMA ConnectStep ==
    ASSUME TetherInv, Connect
    PROVE  TetherInv'
<1> DEFINE s0 == mySession + 1
           c == [type |-> "connect", session |-> s0, seq |-> requests]
<1>1. /\ mySession < MaxSessions /\ mySession' = s0 /\ joined' = FALSE /\ pending' = None
      /\ net' \subseteq net \cup {c}
      /\ UNCHANGED <<sessionVars, requests, sent, delivered>>
  BY DEF Connect
<1>2. /\ s0 \in Sessions /\ s0 \in 0..MaxSessions /\ mySession \in Nat
      /\ requests \in 0..MaxRequests /\ net \subseteq Datagrams
      /\ session_id \in Nat /\ session_id <= mySession
  BY <1>1, TetherAssumption DEF TetherInv, TypeOK, History, Sessions
<1>3. c \in Datagrams /\ c.type = "connect" /\ c.session = s0
  BY <1>2 DEF Datagrams
<1> HIDE DEF c
<1>4. sent[s0] = <<>>
  BY <1>2 DEF TetherInv, History
<1>5. \A s \in Sessions : s \in Nat
  BY DEF Sessions
<1>6. TypeOK'
  BY <1>1, <1>2, <1>3 DEF TetherInv, TypeOK, sessionVars
<1>7. History'
  BY <1>1, <1>2, <1>5 DEF TetherInv, History, sessionVars
<1>8. ConnectOnce'
  <2> SUFFICES ASSUME NEW d \in net', d.type = "connect"
               PROVE  /\ d.session <= s0 /\ d.session # session_id
                      /\ sent[d.session] = <<>>
                      /\ \A e \in net' : e.type = "connect" /\ e.session = d.session => e = d
    BY <1>1 DEF ConnectOnce, sessionVars
  <2>1. \A e \in net : e.type = "connect" =>
           e.session \in Nat /\ e.session <= mySession /\ e.session # s0
    BY <1>2, DatagramType DEF TetherInv, ConnectOnce
  <2>2. CASE d = c
    BY <2>1, <2>2, <1>1, <1>2, <1>3, <1>4
  <2>3. CASE d \in net
    <3>1. /\ d.session # session_id /\ sent[d.session] = <<>>
          /\ \A e \in net : e.type = "connect" /\ e.session = d.session => e = d
      BY <2>3 DEF TetherInv, ConnectOnce
    <3>2. d.session <= s0
      BY <2>1, <2>3, <1>2
    <3>3. \A e \in net' : e.type = "connect" /\ e.session = d.session => e = d
      BY <2>1, <2>3, <3>1, <1>1, <1>3
    <3> QED BY <3>1, <3>2, <3>3
  <2> QED BY <2>2, <2>3, <1>1
<1>9. RingFaithful'
  BY <1>1 DEF TetherInv, RingFaithful, RingHolds, sessionVars
<1>10. DataFaithful'
  BY <1>1, <1>3 DEF TetherInv, DataFaithful
<1>11. AskModest'
  BY <1>1, <1>3 DEF TetherInv, AskModest
<1> QED BY <1>6, <1>7, <1>8, <1>9, <1>10, <1>11 DEF TetherInv

-----------------------------------------------------------------------------
\* The theorems.

LEMMA TetherInit == Init => TetherInv
<1> SUFFICES ASSUME Init PROVE TetherInv
  OBVIOUS
<1>1. /\ \A s \in Sessions : sent[s] = <<>> /\ delivered[s] = <<>>
      /\ sent \in [Sessions -> Seq(Messages)] /\ delivered \in [Sessions -> Seq(Messages)]
  BY DEF Init
<1>2. TypeOK
  BY <1>1, TetherAssumption DEF Init, TypeOK
<1>3. History
  BY <1>1 DEF Init, History, None
<1> QED BY <1>2, <1>3
       DEF Init, TetherInv, ConnectOnce, RingFaithful, DataFaithful, AskModest

LEMMA TetherStep == TetherInv /\ [Next]_vars => TetherInv'
<1> SUFFICES ASSUME TetherInv, [Next]_vars PROVE TetherInv'
  OBVIOUS
<1>1. CASE UNCHANGED vars
  BY <1>1 DEF vars, sessionVars, clientVars, TetherInv, TypeOK, History, ConnectOnce,
              RingFaithful, RingHolds, DataFaithful, AskModest
<1>2. CASE Connect
  BY <1>2, ConnectStep
<1>3. CASE Repeat
  BY <1>3, RepeatStep
<1>4. CASE AskWindow
  BY <1>4, AskWindowStep
<1>5. ASSUME NEW kind \in Kinds, Request(kind) PROVE TetherInv'
  BY <1>5, RequestStep
<1>6. ASSUME NEW m \in net, Dispatch(m) PROVE TetherInv'
  BY <1>6, OnConnectStep, OnDataStep, ResendStep, PushStep, TellWindowStep DEF Dispatch
<1>7. ASSUME NEW m \in net, OnConnected(m) \/ OnAck(m) \/ Take(m) \/ Lose(m)
      PROVE  TetherInv'
  BY <1>7, OnConnectedStep, OnAckStep, TakeStep, LoseStep
<1> QED BY <1>1, <1>2, <1>3, <1>4, <1>5, <1>6, <1>7 DEF Next

LEMMA TetherInvariant == Spec => []TetherInv
BY TetherInit, TetherStep, PTL DEF Spec

\* Every variable keeps its type, no number is used that the history of the
\* session does not account for, and no datagram under way is malformed
\* (TetherSession and the datagrams of tether_service.h).
THEOREM TetherTypeOK == Spec => []TypeOK
<1>1. TetherInv => TypeOK
  BY DEF TetherInv
<1> QED BY <1>1, TetherInvariant, PTL

\* The endpoint of the ICS is pushed to a client only when it has taken all
\* that it was sent in this session (dispatch, ask_window).
THEOREM TetherPushesWhenDrained == Spec => PushesWhenDrained
<1>1. ASSUME TetherInv, [Next]_vars, ~connection_info_pushed, connection_info_pushed'
      PROVE  Len(delivered[session_id]) = Len(sent[session_id])
  <2>1. PICK m \in net : PushConnectionInfo(m)
    BY <1>1 DEF Next, vars, sessionVars, clientVars, Dispatch, OnConnect, Accept, OnData,
                Retransmit, Resend, TellWindow, Connect, Repeat, AskWindow, Request,
                OnConnected, OnAck, Take, Lose
  <2>2. /\ m \in Datagrams /\ m.type = "ask" /\ connected /\ session_id = m.session
        /\ m.wanted >= send_seq /\ send_seq = Len(sent[session_id])
        /\ m.wanted <= Len(delivered[session_id]) /\ session_id \in Sessions
    BY <1>1, <2>1 DEF PushConnectionInfo, Mine, TetherInv, TypeOK, AskModest
  <2>3. /\ Len(delivered[session_id]) <= Len(sent[session_id])
        /\ Len(delivered[session_id]) \in Nat /\ Len(sent[session_id]) \in Nat
    BY <1>1, <2>2 DEF TetherInv, TypeOK, History
  <2>4. m.wanted \in Nat
    BY <2>2, DatagramType
  <2> QED BY <2>2, <2>3, <2>4
<1>2. TetherInv /\ [Next]_vars
        => [~connection_info_pushed /\ connection_info_pushed'
              => Len(delivered[session_id]) = Len(sent[session_id])]_vars
  BY <1>1
<1> QED BY <1>2, TetherInvariant, PTL DEF Spec, PushesWhenDrained

\* Sending is a step of the channel.
LEMMA SendsInOrder ==
    ASSUME TetherInv, connected, NEW ms \in Seq(Messages), Len(ms) \in 0..2,
           SendReplies(ms), UNCHANGED delivered
    PROVE  Channel!Next
<1>1. /\ session_id \in Sessions /\ sent'[session_id] \in Seq(Messages)
      /\ sent' = [sent EXCEPT ![session_id] = sent[session_id] \o ms]
      /\ sent \in [Sessions -> Seq(Messages)]
      /\ Len(sent'[session_id]) = Len(sent[session_id]) + Len(ms)
      /\ \A i \in 1..Len(sent[session_id]) : sent'[session_id][i] = sent[session_id][i]
  BY RepliesSent DEF TetherInv, TypeOK
<1>2. sent' = [sent EXCEPT ![session_id] = sent'[session_id]]
  BY <1>1
<1>3. Len(sent'[session_id]) >= Len(sent[session_id])
  BY <1>1
<1>4. Channel!Send(session_id)
  BY <1>1, <1>2, <1>3 DEF Channel!Send
<1> QED BY <1>1, <1>4 DEF Channel!Next

\* Every step of the service, the client and the network is a step of the
\* channel or leaves it as it is.
LEMMA StepIsChannelStep ==
    ASSUME TetherInv, [Next]_vars
    PROVE  [Channel!Next]_(Channel!channelVars)
<1> USE DEF Channel!channelVars
<1>1. CASE UNCHANGED vars
  BY <1>1 DEF vars
<1>2. CASE Connect \/ Repeat \/ AskWindow \/ (\E kind \in Kinds : Request(kind))
  BY <1>2 DEF Connect, Repeat, AskWindow, Request
<1>3. ASSUME NEW m \in net,
             \/ OnConnect(m) \/ Retransmit(m) \/ TellWindow(m)
             \/ OnConnected(m) \/ OnAck(m) \/ Lose(m)
      PROVE  UNCHANGED Channel!channelVars
  BY <1>3 DEF OnConnect, Retransmit, Resend, TellWindow, OnConnected, OnAck, Lose
<1>4. ASSUME NEW m \in net, OnData(m) PROVE Channel!Next
  <2>1. /\ m.kind \in Kinds /\ m.seq \in 1..MaxRequests /\ connected
    BY <1>4, DatagramType DEF TetherInv, TypeOK, OnData, Mine
  <2>2. SendReplies(Answers(m)) /\ UNCHANGED delivered
    BY <1>4 DEF OnData, Answers
  <2> QED BY <2>1, <2>2, AnswersType, SendsInOrder
<1>5. ASSUME NEW m \in net, PushConnectionInfo(m) PROVE Channel!Next
  <2>1. /\ connected /\ UNCHANGED delivered
        /\ SendReplies(<< <<"connection_info", 0>> >>)
    BY <1>5 DEF PushConnectionInfo, Mine
  <2> QED BY <2>1, PushType, SendsInOrder
<1>6. ASSUME NEW m \in net, Take(m) PROVE Channel!Next
  <2>1. /\ m \in Datagrams /\ m.type = "data" /\ m.session = mySession
        /\ mySession \in Sessions /\ m.seq \in Nat /\ m.seq = Len(delivered[mySession])
        /\ delivered' = [delivered EXCEPT ![mySession] = Append(@, m.msg)]
        /\ UNCHANGED sent
    BY <1>6, DatagramType DEF Take, TetherInv, TypeOK
  <2>2. /\ \E i \in (m.seq + 1)..Len(sent[mySession]) : m.msg = sent[mySession][i]
        /\ Len(sent[mySession]) <= m.seq + SentWindow
              => m.msg = sent[mySession][m.seq + 1]
    BY <2>1 DEF TetherInv, DataFaithful
  <2>3. Len(sent[mySession]) \in Nat /\ SentWindow \in Nat
    BY <2>1, TetherAssumption DEF TetherInv, TypeOK
  <2>4. \E i \in (m.seq + 1)..Len(sent[mySession]) :
           /\ Len(sent[mySession]) < m.seq + 1 + SentWindow => i = m.seq + 1
           /\ m.msg = sent[mySession][i]
    <3>1. CASE Len(sent[mySession]) <= m.seq + SentWindow
      <4>1. m.seq + 1 \in (m.seq + 1)..Len(sent[mySession])
        BY <2>1, <2>2, <2>3
      <4> QED BY <3>1, <4>1, <2>2
    <3>2. CASE ~(Len(sent[mySession]) <= m.seq + SentWindow)
      <4>1. ~(Len(sent[mySession]) < m.seq + 1 + SentWindow)
        BY <3>2, <2>1, <2>3
      <4> QED BY <4>1, <2>2
    <3> QED BY <3>1, <3>2
  <2>5. Channel!Deliver(mySession)
    BY <2>1, <2>4 DEF Channel!Deliver
  <2> QED BY <2>1, <2>5 DEF Channel!Next
<1> QED BY <1>1, <1>2, <1>3, <1>4, <1>5, <1>6 DEF Next, Dispatch

\* Each session is the channel TetherChannel promises (TetherSession,
\* pkt_data, dispatch).
THEOREM TetherImplementsChannel == Spec => ImplementsChannel
<1>1. Init => Channel!Init
  BY DEF Init, Channel!Init
<1>2. TetherInv /\ [Next]_vars => [Channel!Next]_(Channel!channelVars)
  BY StepIsChannelStep
<1> QED BY <1>1, <1>2, TetherInvariant, PTL DEF Spec, ImplementsChannel, Channel!Spec

\* What the client of s has taken is a beginning of what was sent to it.
Prefix(s) == /\ Len(delivered[s]) <= Len(sent[s])
             /\ \A i \in 1..Len(delivered[s]) : delivered[s][i] = sent[s][i]

\* A client that never falls behind the ring takes exactly what it was sent, in
\* that order, whatever is lost, late, or asked for twice.
THEOREM TetherPrefix ==
    ASSUME NEW s \in Sessions
    PROVE  Spec /\ []~Behind(s) => []Prefix(s)
<1>1. Init => Prefix(s)
  BY DEF Init, Prefix
<1>2. TetherInv /\ ~Behind(s) /\ Prefix(s) /\ [Next]_vars => Prefix(s)'
  <2> SUFFICES ASSUME TetherInv, ~Behind(s), Prefix(s), [Next]_vars PROVE Prefix(s)'
    OBVIOUS
  <2>1. /\ sent \in [Sessions -> Seq(Messages)] /\ delivered \in [Sessions -> Seq(Messages)]
        /\ SentWindow \in Nat
    BY TetherAssumption DEF TetherInv, TypeOK
  <2>2. [Channel!Next]_(Channel!channelVars)
    BY StepIsChannelStep
  <2>3. CASE sent' = sent /\ delivered' = delivered
    BY <2>3 DEF Prefix
  <2>4. ASSUME NEW t \in Sessions, Channel!Send(t) PROVE Prefix(s)'
    <3>1. /\ delivered' = delivered
          /\ Len(sent'[s]) >= Len(sent[s])
          /\ \A i \in 1..Len(sent[s]) : sent'[s][i] = sent[s][i]
          /\ Len(sent'[s]) \in Nat
      <4>1. CASE t = s
        BY <2>1, <2>4, <4>1 DEF Channel!Send
      <4>2. CASE t # s
        <5>1. sent'[s] = sent[s] /\ delivered' = delivered
          BY <2>1, <2>4, <4>2 DEF Channel!Send
        <5> QED BY <2>1, <5>1
      <4> QED BY <4>1, <4>2
    <3> QED BY <2>1, <3>1 DEF Prefix
  <2>5. ASSUME NEW t \in Sessions, Channel!Deliver(t) PROVE Prefix(s)'
    <3>1. CASE t # s
      BY <2>1, <2>5, <3>1 DEF Channel!Deliver, Prefix
    <3>2. CASE t = s
      <4> DEFINE n == Len(delivered[s]) + 1
      <4>1. Len(sent[s]) < n + SentWindow /\ n \in Nat /\ Len(sent[s]) \in Nat
        BY <2>1 DEF Behind
      <4>2. /\ n <= Len(sent[s])
            /\ delivered' = [delivered EXCEPT ![s] = Append(@, sent[s][n])]
            /\ sent' = sent
        <5>1. PICK i \in n..Len(sent[s]) :
                /\ Len(sent[s]) < n + SentWindow => i = n
                /\ delivered' = [delivered EXCEPT ![s] = Append(@, sent[s][i])]
                /\ sent' = sent
          BY <2>5, <3>2 DEF Channel!Deliver
        <5>2. i = n /\ n <= Len(sent[s])
          BY <4>1, <5>1
        <5> QED BY <5>1, <5>2
      <4>3. delivered'[s] = Append(delivered[s], sent[s][n])
        BY <2>1, <4>2
      <4>4. /\ Len(delivered'[s]) = n
            /\ \A i \in 1..n : delivered'[s][i] =
                 IF i = n THEN sent[s][n] ELSE delivered[s][i]
        BY <2>1, <4>1, <4>2, <4>3
      <4> QED BY <2>1, <4>1, <4>2, <4>4 DEF Prefix
    <3> QED BY <3>1, <3>2
  <2> QED BY <2>2, <2>3, <2>4, <2>5 DEF Channel!Next, Channel!channelVars
<1> QED BY <1>1, <1>2, TetherInvariant, PTL DEF Spec
=============================================================================
