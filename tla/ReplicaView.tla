----------------------------- MODULE ReplicaView -----------------------------
(***************************************************************************)
(* What the replication pipeline promises, with no queue and no tick: each *)
(* connected client holds a copy of some of the world's actors.  The copy  *)
(* may be late, but an actor appears in it at most once, shows only values *)
(* the world has had, never goes back to an older one, and leaves it for   *)
(* good, and only after the world has dropped the actor.                   *)
(***************************************************************************)
EXTENDS Naturals

CONSTANTS Clients, Guids

VARIABLES actors, prop, spawned, knownClients, view, viewProp

replicaVars == <<actors, prop, spawned, knownClients, view, viewProp>>

Init ==
    /\ actors = {} /\ spawned = {} /\ knownClients = {}
    /\ prop = [g \in Guids |-> 0]
    /\ view = [c \in Clients |-> [g \in Guids |-> "none"]]
    /\ viewProp = [c \in Clients |-> [g \in Guids |-> 0]]

Spawn(g) ==
    /\ g \notin spawned
    /\ actors' = actors \cup {g} /\ spawned' = spawned \cup {g}
    /\ UNCHANGED <<prop, knownClients, view, viewProp>>

Destroy(g) ==
    /\ actors' = actors \ {g}
    /\ UNCHANGED <<prop, spawned, knownClients, view, viewProp>>

Change(g) ==
    /\ g \in actors
    /\ prop' = [prop EXCEPT ![g] = @ + 1]
    /\ UNCHANGED <<actors, spawned, knownClients, view, viewProp>>

Join(c) ==
    /\ knownClients' = knownClients \cup {c}
    /\ UNCHANGED <<actors, prop, spawned, view, viewProp>>

Leave(c) ==
    /\ knownClients' = knownClients \ {c}
    /\ view' = [view EXCEPT ![c] = [g \in Guids |-> "none"]]
    /\ viewProp' = [viewProp EXCEPT ![c] = [g \in Guids |-> 0]]
    /\ UNCHANGED <<actors, prop, spawned>>

\* One actor in one client's copy: it appears, is refreshed, or leaves.
Appear(c, g) ==
    /\ view[c][g] = "none" /\ view'[c][g] = "live"
    /\ viewProp'[c][g] <= prop[g]

Refresh(c, g) ==
    /\ view[c][g] = "live" /\ view'[c][g] = "live"
    /\ viewProp[c][g] <= viewProp'[c][g] /\ viewProp'[c][g] <= prop[g]

Vanish(c, g) ==
    /\ g \notin actors
    /\ view'[c][g] = "gone"

Same(c, g) == view'[c][g] = view[c][g] /\ viewProp'[c][g] = viewProp[c][g]

\* Any set of connected clients receives bunches.
Deliver ==
    /\ \A c \in Clients, g \in Guids :
         Same(c, g) \/ (c \in knownClients /\ (Appear(c, g) \/ Refresh(c, g) \/ Vanish(c, g)))
    /\ UNCHANGED <<actors, prop, spawned, knownClients>>

Next == \/ \E g \in Guids : Spawn(g) \/ Destroy(g) \/ Change(g)
        \/ \E c \in Clients : Join(c) \/ Leave(c)
        \/ Deliver

Spec == Init /\ [][Next]_replicaVars
=============================================================================
