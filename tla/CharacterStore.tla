---------------------------- MODULE CharacterStore ----------------------------
(***************************************************************************)
(* The characters of XClientServiceImpl and their file.  Every stream of   *)
(* the lobby service has a thread of its own.  A handler changes the list  *)
(* and saves it under chars_mutex_, then counts the list and answers       *)
(* without the mutex.  A save writes the whole list over the old file.  It *)
(* is skipped when the file cannot be opened, and it leaves the file empty *)
(* when the list cannot be written; the handler answers all the same.  The *)
(* process may end at any time, and loads the file when it starts again.   *)
(*                                                                         *)
(* A read without the mutex that meets a change of the list sees the list  *)
(* before or after it, or ends the process, which Restart covers.  The     *)
(* file is what load_characters makes of it: nothing, if it is cut short.  *)
(***************************************************************************)
EXTENDS Naturals

CONSTANTS
    Streams,
    Characters,   \* the identifiers generate_msg_uuid hands out, once each
    Unwritable,   \* those with a string that is not UTF-8: dump() throws on it
    MaxRestarts   \* bound: ends of the process

ASSUME StoreAssumption == MaxRestarts \in Nat /\ Unwritable \subseteq Characters

VARIABLES
    characters,   \* characters_
    mutex,        \* chars_mutex_: its holder
    counted,      \* character_count of the one world: the characters it counts
    file,         \* data/characters.json
    pc, request,  \* per stream: its place in the handler, and what was asked
    json,         \* per stream: the document built for the file
    count,        \* per stream: its count of the list
    \* ghosts
    created,      \* characters that have ever been stored
    answered,     \* characters whose creation has been answered
    asked,        \* characters a client has asked to delete
    gone,         \* characters whose deletion has been answered
    stale,        \* the last save has been skipped, or has failed half way
    lost,         \* on these the list and the file differed when a process ended
                  \* inside a save, or after one that was skipped or failed
    restarts

storeVars == <<characters, mutex, counted>>
streamVars == <<pc, request, json, count>>
ghostVars == <<created, answered, asked, gone, stale, lost, restarts>>
vars == <<storeVars, file, streamVars, ghostVars>>

Places == {"idle", "open", "write", "count", "publish", "reply"}
Requests == [op : {"none", "create", "delete"}, char : Characters]

\* One type invariant, with what the mutex is for: only its holder saves.
TypeOK ==
    /\ characters \subseteq created /\ file \subseteq created
    /\ counted \subseteq Characters
    /\ mutex \subseteq Streams
    /\ \A s \in Streams : pc[s] \in {"open", "write"} <=> mutex = {s}
    /\ pc \in [Streams -> Places] /\ request \in [Streams -> Requests]
    /\ json \in [Streams -> SUBSET Characters]
    /\ count \in [Streams -> SUBSET Characters]
    /\ created \subseteq Characters /\ answered \subseteq created
    /\ asked \subseteq created /\ gone \subseteq asked
    /\ stale \in BOOLEAN /\ lost \subseteq created
    /\ restarts \in 0..MaxRestarts

Init ==
    /\ characters = {} /\ mutex = {} /\ counted = {} /\ file = {}
    /\ pc = [s \in Streams |-> "idle"]
    /\ request \in [Streams -> [op : {"none"}, char : Characters]]
    /\ json = [s \in Streams |-> {}] /\ count = [s \in Streams |-> {}]
    /\ created = {} /\ answered = {} /\ asked = {} /\ gone = {}
    /\ stale = FALSE /\ lost = {} /\ restarts = 0

Goto(s, place) == pc' = [pc EXCEPT ![s] = place]

-----------------------------------------------------------------------------
(* The handlers of a stream                                                *)

\* Faulty: saves after the mutex has been released.
CreateCharacterUnlocked(s, c) ==
    /\ pc[s] = "idle" /\ mutex = {} /\ c \notin created
    /\ characters' = characters \cup {c} /\ created' = created \cup {c}
    /\ request' = [request EXCEPT ![s] = [op |-> "create", char |-> c]]
    /\ Goto(s, "open")
    /\ UNCHANGED <<mutex, counted, file, json, count, answered, asked, gone>>
    /\ UNCHANGED <<stale, lost, restarts>>

CreateCharacter(s, c) ==
    /\ pc[s] = "idle" /\ mutex = {} /\ c \notin created
    /\ characters' = characters \cup {c} /\ created' = created \cup {c}
    /\ mutex' = {s}
    /\ request' = [request EXCEPT ![s] = [op |-> "create", char |-> c]]
    /\ Goto(s, "open")
    /\ UNCHANGED <<counted, file, json, count, answered, asked, gone>>
    /\ UNCHANGED <<stale, lost, restarts>>

\* Faulty: erases and does not save.
DeleteCharacterUnsaved(s, c) ==
    /\ pc[s] = "idle" /\ mutex = {} /\ c \in created
    /\ asked' = asked \cup {c}
    /\ request' = [request EXCEPT ![s] = [op |-> "delete", char |-> c]]
    /\ characters' = characters \ {c}
    /\ Goto(s, "count")
    /\ UNCHANGED <<mutex, counted, file, json, count, created, answered, gone>>
    /\ UNCHANGED <<stale, lost, restarts>>

\* Any character that ever was can be named, in the list or not.  A list
\* without it is not saved.
DeleteCharacter(s, c) ==
    /\ pc[s] = "idle" /\ mutex = {} /\ c \in created
    /\ asked' = asked \cup {c}
    /\ request' = [request EXCEPT ![s] = [op |-> "delete", char |-> c]]
    /\ characters' = characters \ {c}
    /\ IF c \in characters THEN mutex' = {s} /\ Goto(s, "open")
                           ELSE mutex' = mutex /\ Goto(s, "count")
    /\ UNCHANGED <<counted, file, json, count, created, answered, gone>>
    /\ UNCHANGED <<stale, lost, restarts>>

\* The document is built, and opening the file empties it.
OpenFile(s) ==
    /\ pc[s] = "open"
    /\ json' = [json EXCEPT ![s] = characters]
    /\ file' = {}
    /\ Goto(s, "write")
    /\ UNCHANGED <<storeVars, request, count, ghostVars>>

\* Faulty: returns with the mutex held.
OpenFailsLocked(s) ==
    /\ pc[s] = "open"
    /\ stale' = TRUE
    /\ Goto(s, "count")
    /\ UNCHANGED <<storeVars, file, request, json, count>>
    /\ UNCHANGED <<created, answered, asked, gone, lost, restarts>>

\* The file cannot be opened, or its directory cannot be made: logged.
OpenFails(s) ==
    /\ pc[s] = "open"
    /\ mutex' = {} /\ stale' = TRUE
    /\ Goto(s, "count")
    /\ UNCHANGED <<characters, counted, file, request, json, count>>
    /\ UNCHANGED <<created, answered, asked, gone, lost, restarts>>

\* The dump throws, which is caught and logged, or the disk is full.  The file
\* has been emptied before, and stays so; the next save may fail as well.
WriteFails(s) ==
    /\ pc[s] = "write"
    /\ mutex' = {} /\ stale' = TRUE
    /\ Goto(s, "count")
    /\ UNCHANGED <<characters, counted, file, request, json, count>>
    /\ UNCHANGED <<created, answered, asked, gone, lost, restarts>>

\* One character with such a string, and nothing can be saved while it is listed.
WriteFile(s) ==
    /\ pc[s] = "write" /\ json[s] \cap Unwritable = {}
    /\ file' = json[s] /\ stale' = FALSE
    /\ mutex' = {}
    /\ Goto(s, "count")
    /\ UNCHANGED <<characters, counted, request, json, count>>
    /\ UNCHANGED <<created, answered, asked, gone, lost, restarts>>

\* count_chars_in_world reads the list without the mutex ...
CountCharacters(s) ==
    /\ pc[s] = "count"
    /\ count' = [count EXCEPT ![s] = characters]
    /\ Goto(s, "publish")
    /\ UNCHANGED <<storeVars, file, request, json, ghostVars>>

\* ... and its result may be old when it is stored.
PublishCount(s) ==
    /\ pc[s] = "publish"
    /\ counted' = count[s]
    /\ Goto(s, "reply")
    /\ UNCHANGED <<characters, mutex, file, request, json, count, ghostVars>>

Reply(s) ==
    /\ pc[s] = "reply"
    /\ answered' = answered \cup {c \in {request[s].char} : request[s].op = "create"}
    /\ gone' = gone \cup {c \in {request[s].char} : request[s].op = "delete"}
    /\ Goto(s, "idle")
    /\ UNCHANGED <<storeVars, file, request, json, count>>
    /\ UNCHANGED <<created, asked, stale, lost, restarts>>

\* The process ends, and starts again with what the file holds; the count
\* starts from nothing whatever that is.
Restart ==
    /\ restarts < MaxRestarts /\ restarts' = restarts + 1
    /\ characters' = file /\ mutex' = {} /\ counted' = {}
    /\ pc' = [s \in Streams |-> "idle"]
    /\ lost' = IF stale \/ \E s \in Streams : pc[s] = "write"
               THEN lost \cup (characters \ file) \cup (file \ characters)
               ELSE lost
    /\ stale' = FALSE
    /\ UNCHANGED <<file, request, json, count, created, answered, asked, gone>>

Next ==
    \/ Restart
    \/ \E s \in Streams :
          \/ OpenFile(s) \/ OpenFails(s) \/ WriteFile(s) \/ WriteFails(s)
          \/ CountCharacters(s) \/ PublishCount(s) \/ Reply(s)
          \/ \E c \in Characters : CreateCharacter(s, c) \/ DeleteCharacter(s, c)

Spec == Init /\ [][Next]_vars
-----------------------------------------------------------------------------
(* Properties                                                              *)

\* A character whose creation has been answered, and which nobody has asked to
\* delete, is in the list, and a process that starts again has it.  The one
\* exception is a character that was missing from the file when a process ended
\* inside a save, or after a save that was skipped or failed: nothing is lost
\* to the interleaving of the handlers, and nothing else is lost with it.
CreatedKept == answered \ (asked \cup lost) \subseteq characters

\* A character whose deletion has been answered does not come back, unless it
\* was still in the file when a process ended after a save that was skipped.
DeletedGone == gone \cap characters \subseteq lost
=============================================================================
