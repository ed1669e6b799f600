------------------------- MODULE CharacterStoreProofs -------------------------
(***************************************************************************)
(* Theorems about CharacterStore, for any number of streams, characters    *)
(* and restarts: the types and the mutex, and what a restart keeps.        *)
(***************************************************************************)
EXTENDS CharacterStore, TLAPS

\* Between two handlers that hold the mutex the file is the list, unless the
\* last save was skipped or failed.
FileIsList == ~stale /\ mutex = {} => file = characters

\* A document that is being written is the list.
JsonIsList == \A s \in Streams : pc[s] = "write" => json[s] = characters

\* What a handler has been asked to do is done in the list.
ListServes ==
    \A s \in Streams : pc[s] # "idle" =>
        /\ request[s].op = "create" =>
               request[s].char \in characters \cup asked /\ request[s].char \in created
        /\ request[s].op = "delete" =>
               request[s].char \in asked /\ request[s].char \notin characters

NoWrite == \A s \in Streams : pc[s] # "write"

\* And in the file, once its save is over.
FileServes ==
    ~stale /\ NoWrite =>
        /\ answered \ (asked \cup lost) \subseteq file
        /\ gone \cap file \subseteq lost
        /\ \A s \in Streams : pc[s] \in {"count", "publish", "reply"} =>
               /\ request[s].op = "create" => request[s].char \in file \cup asked
               /\ request[s].op = "delete" => request[s].char \notin file

StoreInv ==
    /\ TypeOK
    /\ FileIsList
    /\ JsonIsList
    /\ ListServes
    /\ FileServes
    /\ CreatedKept
    /\ DeletedGone

-----------------------------------------------------------------------------
\* Types, and the mutex.

LEMMA InitStoreInv ==
    ASSUME Init
    PROVE  StoreInv
<1>1. TypeOK
  <2>1. \A s \in Streams : pc[s] = "idle"
    BY DEF Init
  <2>2. request \in [Streams -> Requests]
    BY DEF Init, Requests
  <2>3. pc \in [Streams -> Places]
    BY DEF Init, Places
  <2>4. \A s \in Streams : pc[s] \in {"open", "write"} <=> mutex = {s}
    BY <2>1 DEF Init
  <2>5. restarts \in 0..MaxRestarts
    BY StoreAssumption DEF Init
  <2> QED BY <2>2, <2>3, <2>4, <2>5 DEF Init, TypeOK
<1>2. \A s \in Streams : pc[s] = "idle"
  BY DEF Init
<1> QED BY <1>1, <1>2 DEF Init, StoreInv, FileIsList, JsonIsList, ListServes, FileServes,
                          CreatedKept, DeletedGone

LEMMA StreamTypeOK ==
    ASSUME TypeOK, JsonIsList, ListServes, NEW s \in Streams,
           \/ OpenFile(s) \/ OpenFails(s) \/ WriteFile(s) \/ WriteFails(s)
           \/ CountCharacters(s) \/ PublishCount(s) \/ Reply(s)
           \/ \E c \in Characters : CreateCharacter(s, c) \/ DeleteCharacter(s, c)
    PROVE  TypeOK'
<1> USE DEF TypeOK, Goto, Places, storeVars, ghostVars
<1>1. CASE OpenFile(s)
  BY <1>1 DEF OpenFile
<1>2. CASE OpenFails(s)
  BY <1>2 DEF OpenFails
<1>3. CASE WriteFile(s)
  <2>1. mutex = {s} /\ mutex' = {}
    BY <1>3 DEF WriteFile
  <2>2. \A t \in Streams : pc'[t] \notin {"open", "write"}
    BY <1>3, <2>1 DEF WriteFile
  <2>3. pc' \in [Streams -> Places]
    BY <1>3 DEF WriteFile
  <2>4. file' \subseteq created'
    BY <1>3 DEF WriteFile, JsonIsList
  <2> QED BY <1>3, <2>1, <2>2, <2>3, <2>4 DEF WriteFile
<1>9. CASE WriteFails(s)
  BY <1>9 DEF WriteFails
<1>4. CASE CountCharacters(s)
  BY <1>4 DEF CountCharacters
<1>5. CASE PublishCount(s)
  BY <1>5 DEF PublishCount
<1>6. CASE Reply(s)
  <2>1. answered' \subseteq created' /\ gone' \subseteq asked'
    BY <1>6 DEF Reply, ListServes
  <2>2. \A t \in Streams : pc'[t] \in {"open", "write"} <=> mutex' = {t}
    BY <1>6 DEF Reply
  <2>3. pc' \in [Streams -> Places]
    BY <1>6 DEF Reply
  <2> QED BY <1>6, <2>1, <2>2, <2>3 DEF Reply
<1>7. ASSUME NEW c \in Characters, CreateCharacter(s, c) PROVE TypeOK'
  BY <1>7 DEF CreateCharacter, Requests
<1>8. ASSUME NEW c \in Characters, DeleteCharacter(s, c) PROVE TypeOK'
  <2>1. request' \in [Streams -> Requests]
    BY <1>8 DEF DeleteCharacter, Requests
  <2>2. /\ asked' \subseteq created' /\ gone' \subseteq asked'
        /\ characters' \subseteq created'
    BY <1>8 DEF DeleteCharacter
  <2>3. /\ pc' \in [Streams -> Places] /\ mutex' \subseteq Streams
        /\ \A t \in Streams : pc'[t] \in {"open", "write"} <=> mutex' = {t}
    <3>1. CASE c \in characters
      BY <1>8, <3>1 DEF DeleteCharacter
    <3>2. CASE c \notin characters
      <4>1. pc' = [pc EXCEPT ![s] = "count"] /\ mutex' = {} /\ mutex = {}
        BY <1>8, <3>2 DEF DeleteCharacter
      <4>2. \A t \in Streams : pc[t] \notin {"open", "write"}
        BY <4>1
      <4> QED BY <4>1, <4>2
    <3> QED BY <3>1, <3>2
  <2> QED BY <1>8, <2>1, <2>2, <2>3 DEF DeleteCharacter
<1> QED BY <1>1, <1>2, <1>3, <1>4, <1>5, <1>6, <1>7, <1>8, <1>9

LEMMA RestartTypeOK ==
    ASSUME TypeOK, Restart
    PROVE  TypeOK'
<1>1. \A s \in Streams : pc'[s] = "idle" /\ mutex' # {s}
  BY DEF Restart
<1>2. pc' \in [Streams -> Places] /\ restarts' \in 0..MaxRestarts
  BY StoreAssumption DEF Restart, TypeOK, Places
<1>3. lost' \subseteq created' /\ stale' \in BOOLEAN
  BY DEF Restart, TypeOK
<1> QED BY <1>1, <1>2, <1>3 DEF Restart, TypeOK

-----------------------------------------------------------------------------
(* The list, the file and what handlers have been asked.  A handler that   *)
(* holds the mutex is the only one that can change either.                 *)

LEMMA CreateStoreInv ==
    ASSUME StoreInv, NEW s \in Streams, NEW c \in Characters, CreateCharacter(s, c)
    PROVE  StoreInv'
<1> USE DEF StoreInv, Goto
<1>0. TypeOK'
  BY StreamTypeOK
<1>1. /\ pc'[s] = "open" /\ mutex = {} /\ mutex' = {s} /\ pc[s] = "idle"
      /\ request'[s].op = "create" /\ request'[s].char = c
      /\ \A t \in Streams \ {s} : pc'[t] = pc[t] /\ request'[t] = request[t]
      /\ characters' = characters \cup {c} /\ created' = created \cup {c} /\ c \notin created
      /\ UNCHANGED <<json, file, answered, asked, gone, stale, lost>>
  BY DEF CreateCharacter, TypeOK
<1>2. \A t \in Streams : pc[t] \notin {"open", "write"}
  BY <1>1 DEF TypeOK
<1>3. FileIsList' /\ JsonIsList'
  BY <1>1, <1>2 DEF FileIsList, JsonIsList
<1>4. ListServes'
  <2>1. \A t \in Streams \ {s} : pc[t] # "idle" /\ request[t].op = "delete" =>
            request[t].char # c
    BY <1>1 DEF ListServes, TypeOK
  <2> QED BY <1>1, <2>1 DEF ListServes
<1>5. FileServes'
  BY <1>1, <1>2 DEF FileServes, NoWrite
<1>6. CreatedKept' /\ DeletedGone'
  BY <1>1 DEF CreatedKept, DeletedGone, TypeOK
<1> QED BY <1>0, <1>3, <1>4, <1>5, <1>6

LEMMA DeleteStoreInv ==
    ASSUME StoreInv, NEW s \in Streams, NEW c \in Characters, DeleteCharacter(s, c)
    PROVE  StoreInv'
<1> USE DEF StoreInv, Goto
<1>0. TypeOK'
  BY StreamTypeOK
<1>1. /\ mutex = {} /\ pc[s] = "idle"
      /\ request'[s].op = "delete" /\ request'[s].char = c
      /\ \A t \in Streams \ {s} : pc'[t] = pc[t] /\ request'[t] = request[t]
      /\ characters' = characters \ {c} /\ asked' = asked \cup {c}
      /\ UNCHANGED <<json, file, created, answered, gone, stale, lost>>
  BY DEF DeleteCharacter, TypeOK
<1>2. \/ c \in characters /\ mutex' = {s} /\ pc'[s] = "open"
      \/ c \notin characters /\ mutex' = {} /\ pc'[s] = "count"
  BY <1>1 DEF DeleteCharacter, TypeOK
<1>3. \A t \in Streams : pc[t] \notin {"open", "write"}
  BY <1>1 DEF TypeOK
<1>4. FileIsList' /\ JsonIsList'
  BY <1>1, <1>2, <1>3 DEF FileIsList, JsonIsList
<1>5. ListServes'
  BY <1>1 DEF ListServes
<1>6. FileServes'
  <2>1. NoWrite /\ (~stale => file = characters)
    BY <1>1, <1>3 DEF NoWrite, FileIsList
  <2>2. ~stale' /\ pc'[s] = "count" => c \notin file'
    BY <1>1, <1>2, <2>1
  <2> QED BY <1>1, <1>2, <2>1, <2>2 DEF FileServes
<1>7. CreatedKept' /\ DeletedGone'
  BY <1>1 DEF CreatedKept, DeletedGone
<1> QED BY <1>0, <1>4, <1>5, <1>6, <1>7

LEMMA SaveStoreInv ==
    ASSUME StoreInv, NEW s \in Streams,
           OpenFile(s) \/ OpenFails(s) \/ WriteFile(s) \/ WriteFails(s)
    PROVE  StoreInv'
<1> USE DEF StoreInv, Goto
<1>0. TypeOK'
  BY StreamTypeOK
<1>1. /\ mutex = {s} /\ pc[s] # "idle" /\ pc'[s] # "idle"
      /\ \A t \in Streams \ {s} : pc'[t] = pc[t] /\ pc[t] \notin {"open", "write"}
      /\ UNCHANGED <<characters, request, created, answered, asked, gone, lost>>
  BY DEF OpenFile, OpenFails, WriteFile, WriteFails, TypeOK, storeVars, ghostVars
<1>2. ListServes' /\ CreatedKept' /\ DeletedGone'
  BY <1>1 DEF ListServes, CreatedKept, DeletedGone
<1>3. CASE OpenFile(s)
  <2>1. pc'[s] = "write" /\ mutex' = {s} /\ json'[s] = characters
    BY <1>1, <1>3 DEF OpenFile, TypeOK, storeVars
  <2>2. FileIsList' /\ JsonIsList' /\ FileServes'
    BY <1>1, <2>1 DEF FileIsList, JsonIsList, FileServes, NoWrite
  <2> QED BY <1>0, <1>2, <2>2
<1>4. CASE OpenFails(s) \/ WriteFails(s)
  <2>1. stale' /\ pc'[s] = "count"
    BY <1>4 DEF OpenFails, WriteFails, TypeOK
  <2>2. FileIsList' /\ JsonIsList' /\ FileServes'
    BY <1>1, <2>1 DEF FileIsList, JsonIsList, FileServes
  <2> QED BY <1>0, <1>2, <2>2
<1>5. CASE WriteFile(s)
  <2>1. pc'[s] = "count" /\ file' = json[s] /\ json[s] = characters
    BY <1>5 DEF WriteFile, TypeOK, JsonIsList
  <2>2. FileIsList' /\ JsonIsList'
    BY <1>1, <2>1 DEF FileIsList, JsonIsList
  <2>3. FileServes'
    <3>1. answered' \ (asked' \cup lost') \subseteq file' /\ gone' \cap file' \subseteq lost'
      BY <1>1, <2>1 DEF CreatedKept, DeletedGone
    <3>2. \A t \in Streams : pc'[t] # "idle" =>
              /\ request'[t].op = "create" => request'[t].char \in file' \cup asked'
              /\ request'[t].op = "delete" => request'[t].char \notin file'
      BY <1>1, <1>2, <2>1 DEF ListServes
    <3> QED BY <3>1, <3>2 DEF FileServes
  <2> QED BY <1>0, <1>2, <2>2, <2>3
<1> QED BY <1>3, <1>4, <1>5

LEMMA CountStoreInv ==
    ASSUME StoreInv, NEW s \in Streams, CountCharacters(s) \/ PublishCount(s)
    PROVE  StoreInv'
<1> USE DEF StoreInv, Goto
<1>0. TypeOK'
  BY StreamTypeOK
<1>1. /\ pc[s] \in {"count", "publish"} /\ pc'[s] \in {"publish", "reply"}
      /\ \A t \in Streams \ {s} : pc'[t] = pc[t]
      /\ UNCHANGED <<characters, mutex, json, file, request>>
      /\ UNCHANGED <<created, answered, asked, gone, stale, lost>>
  BY DEF CountCharacters, PublishCount, TypeOK, storeVars, ghostVars
<1>2. FileIsList' /\ JsonIsList' /\ CreatedKept' /\ DeletedGone'
  BY <1>1 DEF FileIsList, JsonIsList, CreatedKept, DeletedGone
<1>3. ListServes'
  BY <1>1 DEF ListServes
<1>4. FileServes'
  <2>1. NoWrite' => NoWrite
    BY <1>1 DEF NoWrite
  <2> QED BY <1>1, <2>1 DEF FileServes
<1> QED BY <1>0, <1>2, <1>3, <1>4

LEMMA ReplyStoreInv ==
    ASSUME StoreInv, NEW s \in Streams, Reply(s)
    PROVE  StoreInv'
<1> USE DEF StoreInv, Goto
<1>0. TypeOK'
  BY StreamTypeOK
<1>1. /\ pc[s] = "reply" /\ pc'[s] = "idle"
      /\ \A t \in Streams \ {s} : pc'[t] = pc[t]
      /\ UNCHANGED <<characters, mutex, json, file, request>>
      /\ UNCHANGED <<created, asked, stale, lost>>
      /\ answered' \subseteq answered \cup {c \in {request[s].char} : request[s].op = "create"}
      /\ gone' \subseteq gone \cup {c \in {request[s].char} : request[s].op = "delete"}
  BY DEF Reply, TypeOK, storeVars
<1>2. FileIsList' /\ JsonIsList' /\ ListServes'
  BY <1>1 DEF FileIsList, JsonIsList, ListServes
<1>3. CreatedKept' /\ DeletedGone'
  BY <1>1 DEF CreatedKept, DeletedGone, ListServes
<1>4. FileServes'
  <2>1. NoWrite' => NoWrite
    BY <1>1 DEF NoWrite
  <2> QED BY <1>1, <2>1 DEF FileServes
<1> QED BY <1>0, <1>2, <1>3, <1>4

\* A process that ends outside a save, the last one complete, leaves the list of
\* a moment without handler, or, before a save, the one before it; either has
\* what was answered.  Any other end loses what lost says.
LEMMA RestartStoreInv ==
    ASSUME StoreInv, Restart
    PROVE  StoreInv'
<1> USE DEF StoreInv
<1>0. TypeOK'
  BY RestartTypeOK
<1>1. /\ \A s \in Streams : pc'[s] = "idle"
      /\ characters' = file /\ file' = file
      /\ UNCHANGED <<answered, asked, gone>>
  BY DEF Restart
<1>2. answered \ (asked \cup lost') \subseteq file /\ gone \cap file \subseteq lost'
  <2>1. CASE ~stale /\ NoWrite
    BY <2>1 DEF FileServes, Restart, NoWrite
  <2>2. CASE stale \/ ~NoWrite
    BY <2>2 DEF CreatedKept, DeletedGone, Restart, NoWrite
  <2> QED BY <2>1, <2>2
<1> QED BY <1>0, <1>1, <1>2 DEF FileIsList, JsonIsList, ListServes, FileServes,
                                CreatedKept, DeletedGone

LEMMA StutterStoreInv ==
    ASSUME StoreInv, UNCHANGED vars
    PROVE  StoreInv'
BY DEF StoreInv, TypeOK, FileIsList, JsonIsList, ListServes, FileServes, NoWrite,
    CreatedKept, DeletedGone, vars, storeVars, streamVars, ghostVars

LEMMA SpecStoreInv == Spec => []StoreInv
<1>1. StoreInv /\ [Next]_vars => StoreInv'
  BY CreateStoreInv, DeleteStoreInv, SaveStoreInv, CountStoreInv, ReplyStoreInv,
     RestartStoreInv, StutterStoreInv DEF Next
<1> QED BY <1>1, InitStoreInv, PTL DEF Spec

\* Every variable keeps its type, and only the holder of chars_mutex_ saves.
THEOREM CharacterStoreTypeOK == Spec => []TypeOK
<1>1. StoreInv => TypeOK
  BY DEF StoreInv
<1> QED BY <1>1, SpecStoreInv, PTL

\* What has been answered is kept over any number of restarts, however the
\* handlers of other streams interleave, but for what was missing from the file
\* when a process ended in a save or after a save that was skipped or failed.
THEOREM CharacterStoreCreatedKept == Spec => []CreatedKept
<1>1. StoreInv => CreatedKept
  BY DEF StoreInv
<1> QED BY <1>1, SpecStoreInv, PTL

\* With the same exception, no restart brings a deleted character back.
THEOREM CharacterStoreDeletedGone == Spec => []DeletedGone
<1>1. StoreInv => DeletedGone
  BY DEF StoreInv
<1> QED BY <1>1, SpecStoreInv, PTL

-----------------------------------------------------------------------------
(* What a restart finds.                                                   *)

\* A handler that has changed the list and not yet opened the file is one
\* character ahead of it; there is one such handler at a time.
OneAhead ==
    /\ \A s, t \in mutex : s = t
    /\ \A s \in Streams : pc[s] = "open" /\ ~stale =>
          \A c \in Characters \ {request[s].char} : c \in file <=> c \in characters

LEMMA OneAheadNext == StoreInv /\ OneAhead /\ [Next]_vars => OneAhead'
<1> SUFFICES ASSUME StoreInv, OneAhead, [Next]_vars PROVE OneAhead'
  OBVIOUS
<1> USE DEF StoreInv, TypeOK, OneAhead, Goto
<1>1. CASE Restart
  BY <1>1 DEF Restart
<1>2. ASSUME NEW s \in Streams, NEW c \in Characters, CreateCharacter(s, c)
      PROVE  OneAhead'
  BY <1>2 DEF CreateCharacter, FileIsList
<1>3. ASSUME NEW s \in Streams, NEW c \in Characters, DeleteCharacter(s, c)
      PROVE  OneAhead'
  BY <1>3 DEF DeleteCharacter, FileIsList
<1>4. ASSUME NEW s \in Streams, OpenFile(s) PROVE OneAhead'
  BY <1>4 DEF OpenFile, storeVars, ghostVars
<1>5. ASSUME NEW s \in Streams, OpenFails(s) \/ WriteFile(s) \/ WriteFails(s)
      PROVE  OneAhead'
  BY <1>5 DEF OpenFails, WriteFile, WriteFails
<1>6. ASSUME NEW s \in Streams, CountCharacters(s) \/ PublishCount(s) \/ Reply(s)
      PROVE  OneAhead'
  BY <1>6 DEF CountCharacters, PublishCount, Reply, storeVars, ghostVars
<1>7. CASE UNCHANGED vars
  BY <1>7 DEF vars, storeVars, streamVars, ghostVars
<1> QED
  BY <1>1, <1>2, <1>3, <1>4, <1>5, <1>6, <1>7 DEF Next

\* The process that starts again, when the last save was complete and none is
\* under way, has the list the last one had: but for the one character of the
\* handler that holds the mutex, if any, nothing is lost and nothing comes back.
THEOREM CharacterStoreRestartKeeps ==
    Spec => [][Restart /\ ~stale /\ NoWrite =>
                 \A c \in Characters :
                   \/ c \in characters' <=> c \in characters
                   \/ \E s \in mutex : c = request[s].char]_vars
<1>1. Init => OneAhead
  BY DEF Init, OneAhead
<1>2. StoreInv /\ OneAhead /\ [Next]_vars =>
        [Restart /\ ~stale /\ NoWrite =>
           \A c \in Characters :
             \/ c \in characters' <=> c \in characters
             \/ \E s \in mutex : c = request[s].char]_vars
  <2> SUFFICES ASSUME StoreInv, OneAhead, Restart, ~stale, NoWrite, NEW c \in Characters
               PROVE  \/ c \in characters' <=> c \in characters
                      \/ \E s \in mutex : c = request[s].char
    OBVIOUS
  <2>1. ~stale /\ (\A s \in Streams : pc[s] # "write") /\ characters' = file
    BY DEF Restart, NoWrite
  <2>2. CASE mutex = {}
    BY <2>1, <2>2 DEF StoreInv, FileIsList
  <2>3. ASSUME NEW s \in mutex PROVE c = request[s].char \/ (c \in file <=> c \in characters)
    <3>1. mutex = {s} /\ s \in Streams
      BY <2>3 DEF StoreInv, TypeOK, OneAhead
    <3> QED BY <2>1, <3>1 DEF StoreInv, TypeOK, OneAhead
  <2> QED BY <2>1, <2>2, <2>3
<1> QED BY <1>1, <1>2, OneAheadNext, SpecStoreInv, PTL DEF Spec
=============================================================================
