------------------------------- MODULE Tether -------------------------------
(***************************************************************************)
(* The tether service (src/services/tether/tether_service.h): one thread   *)
(* that answers the launcher's datagrams, and keeps the last SentWindow    *)
(* messages it has sent for the client that asks for one it has missed.    *)
(* A new Connect replaces the session, whichever it was.                   *)
(*                                                                         *)
(* The network loses and reorders datagrams: one that is under way may be  *)
(* received at any time, or never; one that would be ignored on arrival is *)
(* as good as lost.  The client is not in the repository: it               *)
(* opens a session with one Connect, sends its requests one at a time,     *)
(* sends a request again while it has no acknowledgement, and asks again   *)
(* and again for the number it expects next (the comment before            *)
(* handle_open_session: "every 10 s").  Datagrams that only inform the     *)
(* client of a window are left out.                                        *)
(***************************************************************************)
EXTENDS Integers, Sequences, FiniteSets

CONSTANTS
    SentWindow,    \* SENT_WINDOW: messages kept for retransmission
    MaxSessions,   \* bound: sessions the client opens
    MaxRequests,   \* bound: requests the client sends, repetitions included
    Kinds          \* message_type_name of the requests it sends

ASSUME TetherAssumption ==
    /\ SentWindow \in Nat \ {0}
    /\ MaxSessions \in Nat \ {0}
    /\ MaxRequests \in Nat
    /\ Kinds \subseteq {"open", "echo", "info", "close", "other"}

VARIABLES
    session_id, send_seq, recv_seq, connected,  \* TetherSession
    connection_info_pushed,
    sent_payloads,                              \* its ring
    mySession, joined, requests, pending,       \* the client
    net,                                        \* datagrams under way
    sent, delivered     \* history: what was sent, what the client took

sessionVars == <<session_id, send_seq, recv_seq, connected,
                 connection_info_pushed, sent_payloads>>
clientVars == <<mySession, joined, requests, pending>>
vars == <<sessionVars, clientVars, net, sent, delivered>>

Sessions == 1..MaxSessions

\* What the server sends in answer to a request, in this order; "other" stands
\* for a name it does not know and for an empty payload.
Replies(kind) ==
    CASE kind = "open"  -> <<"echo_open", "reply_open">>
      [] kind = "echo"  -> <<"reply_echo">>
      [] kind = "info"  -> <<"connection_info">>
      [] kind = "close" -> <<"reply_close">>
      [] kind = "other" -> <<>>

\* A message carries the tags of the request it answers: the request's number
\* tells the answers apart.  Number 0 is the push nobody has asked for.
MessageNames == {"echo_open", "reply_open", "reply_echo", "connection_info",
                 "reply_close"}
Messages == MessageNames \X (0..MaxRequests)
Empty == <<"none", 0>>
None == [session |-> 0, kind |-> "other", seq |-> 0]

Requests == [session : Sessions, kind : Kinds, seq : 1..MaxRequests]

Datagrams ==
       [type : {"connect"}, session : Sessions, seq : 0..MaxRequests]
  \cup [type : {"connected"}, session : Sessions]
  \cup [type : {"request"}, session : Sessions, kind : Kinds, seq : 1..MaxRequests]
  \cup [type : {"ask"}, session : Sessions, wanted : Nat]
  \cup [type : {"ack"}, session : Sessions, seq : 1..MaxRequests]
  \cup [type : {"data"}, session : Sessions, seq : Nat, msg : Messages]

RequestOf(r) == [type |-> "request", session |-> r.session, kind |-> r.kind,
                 seq |-> r.seq]
AckOf(r) == [type |-> "ack", session |-> r.session, seq |-> r.seq]
DataOf(s, seq, msg) == [type |-> "data", session |-> s, seq |-> seq, msg |-> msg]

Init ==
    /\ session_id = 0 /\ send_seq = 0 /\ recv_seq = 0
    /\ connected = FALSE /\ connection_info_pushed = FALSE
    /\ sent_payloads = [k \in 0..(SentWindow - 1) |-> Empty]
    /\ mySession = 0 /\ joined = FALSE /\ requests = 0 /\ pending = None
    /\ net = {}
    /\ sent = [s \in Sessions |-> <<>>]
    /\ delivered = [s \in Sessions |-> <<>>]

-----------------------------------------------------------------------------
\* The server.  Each action handles one datagram.

\* Faulty: the ring is taken for one slot shorter than it is.
SlotShort(seq) == seq % (SentWindow - 1)

Slot(seq) == seq % SentWindow

Store(ring, seq, msg) == [ring EXCEPT ![Slot(seq)] = msg]

StoreAll(ring, seq, ms) ==
    CASE Len(ms) = 0 -> ring
      [] Len(ms) = 1 -> Store(ring, seq, ms[1])
      [] OTHER       -> Store(Store(ring, seq, ms[1]), seq + 1, ms[2])

\* send_reply for each message: numbered, kept, sent.
SendReplies(ms) ==
    /\ send_seq' = send_seq + Len(ms)
    /\ sent_payloads' = StoreAll(sent_payloads, send_seq, ms)
    /\ sent' = [sent EXCEPT ![session_id] = @ \o ms]

DataFor(ms) == {DataOf(session_id, send_seq + i - 1, ms[i]) : i \in 1..Len(ms)}

\* Of the datagrams ds to the client, those it will not ignore whenever they
\* arrive: the others need not be under way.
Heeded(ds) ==
    {d \in ds : d.session = mySession
                /\ (d.type = "data" => d.seq >= Len(delivered[mySession]))
                /\ (d.type = "ack" => d.seq = pending.seq)}

\* Faulty: the numbers of the session before go on.
AcceptKeepsSeq(m) ==
    /\ session_id' = m.session /\ connected' = TRUE
    /\ recv_seq' = m.seq /\ UNCHANGED send_seq
    /\ connection_info_pushed' = FALSE

\* Faulty: what the session before was told counts for this one.
AcceptKeepsPushed(m) ==
    /\ session_id' = m.session /\ connected' = TRUE
    /\ recv_seq' = m.seq /\ send_seq' = 0
    /\ UNCHANGED connection_info_pushed

Accept(m) ==
    /\ session_id' = m.session /\ connected' = TRUE
    /\ recv_seq' = m.seq /\ send_seq' = 0
    /\ connection_info_pushed' = FALSE

\* The ring is not cleared.
OnConnect(m) ==
    /\ m.type = "connect"
    /\ Accept(m)
    /\ net' = (net \ {m}) \cup Heeded({[type |-> "connected", session |-> m.session]})
    /\ UNCHANGED <<sent_payloads, clientVars, sent, delivered>>

\* Faulty: whatever session is open counts.
MineAnySession(m) == connected

Mine(m) == connected /\ session_id = m.session

\* Data, AskWindow and TellWindow of another session, or after the close, are
\* ignored.  A request is acknowledged first and handled then, whether or not
\* it was handled before.
OnData(m) ==
    /\ m.type = "request" /\ Mine(m)
    /\ recv_seq' = m.seq
    /\ LET names == Replies(m.kind)
           ms    == [i \in 1..Len(names) |-> <<names[i], m.seq>>] IN
       /\ SendReplies(ms)
       /\ net' = (net \ {m}) \cup Heeded({AckOf(m)} \cup DataFor(ms))
    /\ connected' = (m.kind # "close")
    /\ UNCHANGED <<session_id, connection_info_pushed, clientVars, delivered>>

Resend(m) ==
    /\ LET msg == sent_payloads[Slot(m.wanted)] IN
       /\ msg # Empty
       /\ net' = (net \ {m}) \cup Heeded({DataOf(session_id, m.wanted, msg)})
    /\ UNCHANGED <<sessionVars, clientVars, sent, delivered>>

\* Faulty: the last message sent counts as not sent.
RetransmitOffByOne(m) ==
    /\ m.type = "ask" /\ Mine(m)
    /\ m.wanted < send_seq - 1
    /\ Resend(m)

\* The client misses a message that has been sent.
Retransmit(m) ==
    /\ m.type = "ask" /\ Mine(m)
    /\ m.wanted < send_seq
    /\ Resend(m)

\* It has everything: the first time, it is told where the ICS is.
PushConnectionInfo(m) ==
    /\ m.type = "ask" /\ Mine(m)
    /\ m.wanted >= send_seq
    /\ ~connection_info_pushed
    /\ connection_info_pushed' = TRUE
    /\ LET ms == << <<"connection_info", 0>> >> IN
       /\ SendReplies(ms)
       /\ net' = (net \ {m}) \cup Heeded(DataFor(ms))
    /\ UNCHANGED <<session_id, recv_seq, connected, clientVars, delivered>>

TellWindow(m) ==
    /\ m.type = "ask" /\ Mine(m)
    /\ \/ m.wanted >= send_seq /\ connection_info_pushed
       \/ m.wanted < send_seq /\ sent_payloads[Slot(m.wanted)] = Empty
    /\ net' = net \ {m}
    /\ UNCHANGED <<sessionVars, clientVars, sent, delivered>>

Dispatch(m) == \/ OnConnect(m) \/ OnData(m)
               \/ Retransmit(m) \/ PushConnectionInfo(m) \/ TellWindow(m)

-----------------------------------------------------------------------------
\* The client.

\* What is under way to an earlier session of the client will be ignored.
Connect ==
    /\ mySession < MaxSessions
    /\ mySession' = mySession + 1
    /\ joined' = FALSE /\ pending' = None
    /\ net' = {m \in net : m.type \in {"connect", "request", "ask"}}
              \cup {[type |-> "connect", session |-> mySession + 1,
                     seq |-> requests]}
    /\ UNCHANGED <<sessionVars, requests, sent, delivered>>

Request(kind) ==
    /\ joined /\ pending = None /\ requests < MaxRequests
    /\ requests' = requests + 1
    /\ pending' = [session |-> mySession, kind |-> kind, seq |-> requests + 1]
    /\ net' = net \cup {RequestOf(pending')}
    /\ UNCHANGED <<sessionVars, mySession, joined, sent, delivered>>

Repeat ==
    /\ pending # None /\ requests < MaxRequests
    /\ requests' = requests + 1
    /\ net' = net \cup {RequestOf(pending)}
    /\ UNCHANGED <<sessionVars, mySession, joined, pending, sent, delivered>>

\* One at a time: an ask that is lost is one that comes late.
AskWindow ==
    /\ joined
    /\ LET ask == [type |-> "ask", session |-> mySession,
                   wanted |-> Len(delivered[mySession])] IN
       /\ \A d \in net : d.type = "ask" => d.session # mySession
       /\ net' = net \cup {ask}
    /\ UNCHANGED <<sessionVars, clientVars, sent, delivered>>

OnConnected(m) ==
    /\ m.type = "connected" /\ m.session = mySession
    /\ joined' = TRUE
    /\ net' = net \ {m}
    /\ UNCHANGED <<sessionVars, mySession, requests, pending, sent, delivered>>

OnAck(m) ==
    /\ m.type = "ack" /\ m.session = pending.session /\ m.seq = pending.seq
    /\ pending' = None
    /\ net' = net \ {m}
    /\ UNCHANGED <<sessionVars, mySession, joined, requests, sent, delivered>>

\* The message the client expects next; it will ignore one with this number
\* from now on.
Take(m) ==
    /\ m.type = "data" /\ m.session = mySession
    /\ m.seq = Len(delivered[mySession])
    /\ delivered' = [delivered EXCEPT ![mySession] = Append(@, m.msg)]
    /\ net' = {d \in net : d.type = "data" => d.seq # m.seq}
    /\ UNCHANGED <<sessionVars, clientVars, sent>>

\* A message is lost on the way.
Lose(m) ==
    /\ m.type = "data"
    /\ net' = net \ {m}
    /\ UNCHANGED <<sessionVars, clientVars, sent, delivered>>

Next ==
    \/ Connect \/ Repeat \/ AskWindow
    \/ \E kind \in Kinds : Request(kind)
    \/ \E m \in net : Dispatch(m) \/ OnConnected(m) \/ OnAck(m) \/ Take(m) \/ Lose(m)

Spec == Init /\ [][Next]_vars

\* The server's thread and the client's timer keep running, and the network
\* does not lose every copy of what is sent again and again.
FairSpec ==
    /\ Spec
    /\ WF_vars(AskWindow)
    /\ SF_vars(\E m \in net : Retransmit(m))
    /\ SF_vars(\E m \in net : PushConnectionInfo(m))
    /\ SF_vars(\E m \in net : Take(m))

-----------------------------------------------------------------------------
\* Properties.

\* The variables hold what they are declared for, and no datagram has a number
\* or a message the service does not use.
TypeOK ==
    /\ session_id \in 0..MaxSessions /\ mySession \in 0..MaxSessions
    /\ connected \in BOOLEAN /\ connection_info_pushed \in BOOLEAN
    /\ joined \in BOOLEAN
    /\ connected => session_id \in Sessions
    /\ joined => mySession \in Sessions
    /\ connected => send_seq = Len(sent[session_id])
    /\ send_seq \in Nat /\ recv_seq \in 0..MaxRequests
    /\ sent_payloads \in [0..(SentWindow - 1) -> Messages \cup {Empty}]
    /\ requests \in 0..MaxRequests
    /\ pending \in Requests \cup {None}
    /\ net \subseteq Datagrams
    /\ sent \in [Sessions -> Seq(Messages)]
    /\ delivered \in [Sessions -> Seq(Messages)]

\* Each session is a channel that loses and repeats nothing and keeps the
\* order, for a client that is at most SentWindow messages behind: loss,
\* reordering, repeated requests and a ring shared by all sessions make no
\* difference to what the client takes.
Channel == INSTANCE TetherChannel WITH
               Sessions <- Sessions, Messages <- Messages,
               Window <- SentWindow, sent <- sent, delivered <- delivered

ImplementsChannel == Channel!Spec

\* The endpoint of the ICS is pushed to a client that has taken all it was
\* sent in this session, however old the datagram that asks for more.
PushesWhenDrained ==
    [][~connection_info_pushed /\ connection_info_pushed'
         => Len(delivered[session_id]) = Len(sent[session_id])]_vars

\* Both ends are in session s.
Together(s) == joined /\ mySession = s /\ connected /\ session_id = s

\* The client is further behind than the ring goes.
Behind(s) == Len(sent[s]) > Len(delivered[s]) + SentWindow

\* A client that stays in its session takes everything it is sent, whatever is
\* lost.
CatchesUp ==
    \A s \in Sessions :
        <>[]Together(s) => []<>(Len(delivered[s]) = Len(sent[s]))

\* A client that stays in its session, and never falls behind the ring, learns
\* where the ICS is, whether it asks or not and whatever is lost.
InfoArrives ==
    \A s \in Sessions :
        <>[]Together(s) /\ []~Behind(s)
          => <>(\E i \in 1..Len(delivered[s]) : delivered[s][i][1] = "connection_info")
=============================================================================
