---------------------------- MODULE TetherChannel ----------------------------
(***************************************************************************)
(* What the tether service promises a client: in every session, the        *)
(* messages the server sends arrive in the order in which they were sent,  *)
(* none missing and none twice, as long as the client is at most Window    *)
(* messages behind.  A client further behind may get a later message in    *)
(* the place of the one it misses.                                         *)
(***************************************************************************)
EXTENDS Naturals, Sequences

CONSTANTS Sessions, Messages, Window

VARIABLES sent, delivered

channelVars == <<sent, delivered>>

Init ==
    /\ sent = [s \in Sessions |-> <<>>]
    /\ delivered = [s \in Sessions |-> <<>>]

\* The server sends some messages more.
Send(s) ==
    /\ sent'[s] \in Seq(Messages)
    /\ Len(sent'[s]) >= Len(sent[s])
    /\ \A i \in 1..Len(sent[s]) : sent'[s][i] = sent[s][i]
    /\ sent' = [sent EXCEPT ![s] = sent'[s]]
    /\ UNCHANGED delivered

\* The client takes what it misses first: the message itself if it is still
\* in the window, otherwise that one or a later one.
Deliver(s) ==
    LET n == Len(delivered[s]) + 1 IN
    \E i \in n..Len(sent[s]) :
       /\ Len(sent[s]) < n + Window => i = n
       /\ delivered' = [delivered EXCEPT ![s] = Append(@, sent[s][i])]
       /\ UNCHANGED sent

Next == \E s \in Sessions : Send(s) \/ Deliver(s)

Spec == Init /\ [][Next]_channelVars
=============================================================================
