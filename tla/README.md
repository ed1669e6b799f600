# Formal models of the Ashes of Creation server emulator

TLA+ modules, TLC configurations and TLAPS proofs for the server under `src/`:
a UDP game server that speaks UE5's StatelessConnect and NMT protocols and then
replays a captured session, sends a bootstrap plan of its own, or sends an
embedded capture; a world model (LiveWorld) that is replicated to the clients
beside it; and the services a launcher and a lobby talk to. Paths below are
relative to `src/src/`.

## 1. Inventory

### Components

| component | state it keeps | operations | what makes it correct |
|---|---|---|---|
| `ActorRegistry` (`world/simulation`) | `actors_` under its own mutex | `spawn`, `destroy`, `set_*_property`, `set_location`, `snapshot`; each announces its change on the `EventBus` after the mutex is released | no change is lost on the way to a client |
| `VisibilityManager` | `known_clients_`, `known_actors_`, `seen_by_client_`, `pending_diffs_` | `add/remove_client`, `add/remove_actor`, `clients_seeing`, `drain_diff_for_client` | an actor spawns once per client, and is hidden once |
| `BroadcastManager` | `dirty_actors_`, `pending_destroys_` | four event handlers, `tick` | every client ends up with the registry's state |
| `LiveWorld` (`net`) | the tick thread | `tick_loop`, `on_client_connected`, `on_client_disconnected`, `on_packet` | runs `tick` for ever; sessions and visible clients agree |
| `NetGuidAllocator` (`protocol`) | `next_slot_`, `player_to_block_` | allocate, release | blocks never overlap, a guid is never used twice |
| `SessionRegistry`, `OpcodeDispatcher` | one `ClientSession` per address: phase, block | one handler per opcode, guarded by phase | a logged-in player owns its block |
| `GameServer` connection handling | `clients_`: phase, `nmt_state`, sequence numbers, under `client_mu_` | `handle_initial`, `handle_response`, `handle_game_data`, `send_periodic_keepalives` | the two state machines fed by one packet stay together |
| `GameServer` replay thread | `replay_thread_`, `replay_active_`, `replay_map_loaded_` | `replay_loop`, and the handlers that start and stop it | packets in order, within the window, for the right connection; it always ends; it can be joined |
| `NativeConnectSequencer`, bootstrap plan, native emitters | sequencer state and thread, `native_map_loaded_` | `start`, `stop`, the state functions, one emitter per row | each connection gets the plan once, in order, after its map is loaded; waits end and `stop` returns |
| Channel sequences (`send_ch0_reliable_payload`, `send_bunch_packet`, `patch_replay_chseq`) | `reliable_seq`, last `chSeq` per channel | reliable senders | no gap and no repeat per channel |
| `GameServer` normal mode | `bootstrap_thread_`, `bootstrap_active` per client | launch, `bootstrap_loop` | packets in order, every channel numbered without a gap, the thread can be joined, the flag is cleared |
| Bunch generators | per-generator timers | called once per replay packet | - |
| `UdpPacketEmitter` | last sequence per client | spawn, delta, movement, destroy | - |
| Tether service (`services/tether`) | one session: ids, numbers, a ring of sent messages | connect, requests, acknowledgement, retransmission, a push | what the client takes is what was sent, once and in order; it learns where the game server is |
| XClient service (`services/xclient`) | `characters_` under `chars_mutex_`, a file, a count per world | create, delete, save, load, on a thread per stream | an answered change survives other streams and restarts |
| Auth and launcher services | none between requests | request handlers | - |
| Wire layer (`protocol/wire`) | partial bunches per channel, for one capture | parser, reassembler (offline tools only) | a bunch is delivered whole or not at all |
| Property synthesis, bunch builder | none | pure encoders | bytes equal to captures (own tests) |
| UDP relay, entry point, logging, EOS proxy | an address | - | - |

### How they interact

The receive thread of `GameServer` owns the socket. It holds `client_mu_` while
it handles a packet, and from inside the handler calls LiveWorld
(`on_client_connected`, `spawn_session_g_actors_for`,
`maybe_dispatch_nmt_to_live_world`). These mutate the registry, whose events
reach the visibility and broadcast managers by callback on the calling thread.
The tick thread of LiveWorld drains the managers. There is no common lock
between registry, visibility and broadcast manager: each has its own, and the
order of the critical sections is all there is.

The packet that ends the NMT exchange starts one of three threads, by mode: the
replay thread, the native sequencer's, or the bootstrap thread. Each shares
`clients_` with the receive thread and takes `client_mu_` step by step; each is
one per server, while its flags belong to the server (replay, native) or to a
client (bootstrap). The receive thread joins the previous one with `client_mu_`
held.

The tether service and the lobby are processes of their own. They share nothing
with the game server but the address they hand out and the character file.

### What is hard

* A mutation, its event and the tick are three critical sections on different
  mutexes, with any other thread's sections between them.
* A client can leave and rejoin under the same key in the middle of a tick, also
  between the drain of its diff and the emission of what was drained.
* Clients retransmit, abort, time out and reconnect from the same address;
  the legacy machine starts over and LiveWorld's session does not.
* Replay and bootstrap packets are numbered under the lock and sent outside it,
  while the receive thread may send, or restart the connection; the parser sends
  an answer of its own in every mode.
* The receive thread joins each of the three threads with the mutex held which
  that thread needs to notice that it must stop.
* The flags that release or guard such a thread outlive the connection they
  were set for.
* The tether server's ring is shorter than the window it tells its peer, and the
  client's repeated requests are handled again.
* A character file is truncated before it is written, writing it may fail, and
  saves may be skipped.
* The bootstrap filters and patches two bits more than a sequence number has.

`PROJECT.json` lists each hazard at its line, with the properties that watch it.

## 2. Modules

| module | models |
|---|---|
| `ReplicaView` | abstract: each client holds a copy of the world that may be late but never invents, rewinds or resurrects an actor |
| `Replication` | registry, event bus, visibility manager and `tick`, one action per critical section |
| `NetGuidAllocator` | block allocation with 64-bit arithmetic |
| `LiveWorld` | sessions, opcode dispatch, blocks, registration (extends the allocator) |
| `Connection` | composes `LiveWorld` with the legacy state machine, both fed by the same packet |
| `ReplayThread` | the receive thread's side of the replay, and the replay thread |
| `NativeSequencer` | the receive thread's side of native mode, the sequencer's thread and the reliable senders |
| `BootstrapThread` | the receive thread's side of the normal mode, and `bootstrap_loop` |
| `TetherChannel` | abstract: in each session the client takes what was sent, in order, none missing and none twice, as long as it is not too far behind |
| `Tether` | the tether service, its client and a network that loses and reorders |
| `CharacterStore` | the characters of the lobby, their file, concurrent streams and restarts |
| `ReplicationProofs`, `LiveWorldProofs`, `ConnectionProofs`, `ReplayThreadProofs`, `NativeSequencerProofs`, `BootstrapProofs`, `TetherProofs`, `CharacterStoreProofs` | theorems about the module of that name |
| `MC*` | symmetry sets and plans for TLC |

A definition named `...KeepsX`, `...Ignored` and the like, marked *Faulty*, is
a plausible bug of the action below it; no specification uses it. Each property
of a passing run has one that breaks it.

### Replication

`Spawn`, `Destroy`, `SetProperty` and `SetLocation` are the registry's critical
sections and leave an `event` for the calling thread; `OnSpawn`, `OnDestroy`,
`OnPropertyChanged`, `OnMoved` are the bus calling the subscribed handlers. The
tick is split where its locks are: `TickBegin` (take the queues), `TickLookup`
(registry snapshot), `TickClients`, then per client `TickDrain` and, outside its
lock, `EmitSpawn` and `EmitHide` for each bunch of the drained diff
(`EmitToNobody` once the client is gone), per dirty actor `TickDelta`, per
destroyed actor `TickDestroy` followed by `TickPurge` (`remove_actor`), and
`TickEnd`. `TickDelta` and `TickDestroy` emit in the step that reads
`clients_seeing`, although the code emits after that lock as well: a client that
leaves and joins in between shows nothing yet that a delta or a destroy could
reach, because only the tick thread itself spawns. `view`, `viewProp`, `viewLoc`
are what the emitted bunches add up to at the client. The emitter is the
contract of `world/replication/packet_emitter.h`; the current `UdpPacketEmitter`
sends no movement and skips component deltas, so `viewLoc` says what the
broadcast manager hands over, not what is on the wire. An actor has one property
and one location, and a value is its version number. `Movers` are the threads
that call `set_location`; in the server it is one, the receive thread. Delivery
to the client is reliable here: loss and retransmission belong to the channel
layer.

### LiveWorld and NetGuidAllocator

One action per dispatcher handler plus the three entry points. Rejected packets
change only counters. `SpawnPlayer` is the part of `spawn_session_g_actors_for`
that allocates and registers; each call takes a block of its own, even if the
session has one. `used` remembers every guid ever registered.

### Connection

`HandleMessage` feeds one control message to `WorldReacts` or `WorldIgnores`
and to `LegacyReacts` or `LegacyIgnores`. Messages come in any order and any
number, which covers retransmission, reordering and loss. `HandleResponse`
completes the handshake in any phase, as the code does. The instance has
LiveWorld attached and a replay file loaded. Two control messages in one data
packet are two consecutive actions here.

### ReplayThread

`rep` is the program counter of `replay_loop`; each value is a place where
`client_mu_` is free. `Locked` guards every step that needs the mutex: it is
false while a handler is in `join()` (variable `joining`), which is where the
handler holds the mutex without running. A packet is numbered in `Build` and
leaves in `Send`, outside the lock. `wire` is the last number sent in the client's
present connection (the highest, where one has been overtaken).
`HandleInitRequest` is the send of the parser: a bunch that asks for the
character is answered by `send_client_initialize_character_native`
(`net/game_server.h:4395`, `2327`, `1766`) before the handler takes
`client_mu_`, in every mode and at any time, and so between a `Build` and its
`Send` too. The ghost `answers` counts these since the check of the window.
`terminated` records that a joinable `std::thread`
has been assigned to (`net/game_server.h:3678-3686`), which ends the process.
Numbers are kept as they count on from the connection's initial one, `FirstSeq`;
the code keeps 14 bits of them, and what it computes from those is computed from
those (`Bits`, `Distance`, `Ahead`), the wrap included. A data packet may
acknowledge an older number than the last one did (`Acks`): the code takes it
all the same, so `outAck` can go back, while the ghost `acked` is what the client
is known to have. A `sendto` that fails is taken for a packet lost on the way.
The code's order of reading a flag and then taking the lock is kept (`WaitCheck`,
`WaitRound`): it is where `join()` can catch the thread.

### NativeSequencer

`pc` is the place of `NativeConnectSequencer::run`: `check`, `ping` and `poll`
are the wait for the map, `rows` the bootstrap plan, `loop` and `beat` the
keepalives afterwards. Every callback takes `client_mu_` and looks the client up
anew (`Reachable`), so each row is a step of its own and any packet may come
between two rows. `Plan` is a constant: a row says where its sequence number
comes from (`reliable_seq`, the tracker, or a constant in the emitter) and how
many rows after it are given up when it fails; `DefaultPlan` is
`kDefaultBootstrapPlan` with the rows that send a reliable bunch. `wire` lists
the reliable bunches of a connection. Numbers are relative to the captured
first one: 1 stands for 954, and the 10 bits that are sent are not taken.
`CounterSequence` is about the bunches numbered from `reliable_seq` (`Counted`),
which both threads draw from. `joining` is the handler inside `stop()`.
`native_map_loaded_` and `native_sequencer_` are single, and so is the client of
the runs. Hybrid mode, the probe files, a failing `sendto`, the reactive
ClientRestart and the ServerUpdateLevelVisibility queue are left out.

### BootstrapThread

`boot` is the program counter of `bootstrap_loop`: `start` (the plan is computed
and the base read), `loop` (pacing), `build` and `send` of a packet, `spawn` of
the player controller, `post` (keepalives until the client has gone), `clear`.
`Forward`, `Retransmit` and `NumberFor` are the filter and the numbers of its
phases 1b and 2. The code renumbers the whole capture before it sends; here a
packet is renumbered when it is built, which gives the same numbers, since each
depends on the packets before it only. A number has 10 bits
(`net/game_server.h:4951`; `SeqSize`), the field the loop reads, compares and
patches has 12 (`:5273`, `:5354`, `:5453`; `FieldSize`), the number being its
low bits. The capture itself is open: whatever field value on whatever channel
may come next, so the properties hold of every capture. `base` is the connection
whose `in_reliable_base` was read; the ghosts `sent` and `sentRaw` are number
and captured field of the last patched bunch that was sent on each channel. A
packet carries one bunch, or none; a position that is not the field of a bunch
at all (the scan of `find_chseq_offsets` gone astray) is left out.
`HandleInitRequest` is the parser's answer, as in `ReplayThread`. A data packet
may acknowledge anything that has been sent in the connection, so late ones are
included; that the numbers have 14 bits is left out here (the 500 packets the
loop waits for are far from half the space). Data that comes before any
handshake, which no client sends, is left out.

### Tether and TetherChannel

The server's thread handles one datagram at a time, so `Dispatch` is one action
per kind: `OnConnect`, `OnData` (acknowledge, then answer; a session opened is
answered twice), `Retransmit` out of the ring, and `PushConnectionInfo`, once per
session, when a client asks for a number that has not been sent. The client is
the launcher, which is not in the repository: it opens sessions, sends requests
one at a time, repeats one that is not acknowledged, and asks for the next
number whenever its timer runs out. It sends one Connect per session: the
service sets `send_seq` back to 0 at every Connect
(`services/tether/tether_service.h:730`), so a duplicate would number the
replies of one session anew, and all results on the tether rest on there being
none. `net` is a set of datagrams under way: one
can be taken late, out of order, or never. A datagram that repeats an older one
exactly is one element of it. Window sizes and the datagrams that only tell a
window are left out; they change nothing on either side.

### CharacterStore

A handler runs through `idle`, `open`, `write`, `count`, `publish`, `reply`:
the save is split where the file is truncated and where the document is
written, because the process may end between the two; the count and the answer
are read without the mutex. `OpenFails` skips the save. `WriteFails` ends it
after the file has been emptied: `dump()` throws when a string is not UTF-8, and
`extract_create_info` takes class, race and gender from the client's bytes as
they are; or the disk is full. The exception is caught, the mutex released and
the request answered. `Unwritable` are the characters with such a string; as long
as one of them is in the list no save succeeds. `Restart` ends the process at any
point and starts it again, which loads the file: what was cut short loads as no
characters. `lost` collects the characters on which list and file differ when a
process ends inside a save, or after one that was skipped or failed: what the
code loses then, and nothing more. Identifiers are taken to be unique, although
`generate_msg_uuid` (`services/xclient/xclient_service.h:22`) draws them from a
static generator that the streams use without a lock.

## 3. Runs

| run | bounds | shows |
|---|---|---|
| `replication` | 1 client, 2 actors of which 1 changes, 2 threads of which 1 moves actors, 2 mutations, 2 joins | no lost update, movement or destroy; destroys and updates reach the client (liveness); one spawn per membership, but for a client that rejoins between a drain and its emissions; `ReplicaView` implemented |
| `replication_lost_spawn` | 1 client, 2 actors | `AllSeeAll` fails: a spawn delivered between snapshot and drain is consumed and never sent |
| `liveworld` | 2 players, 3 allocations | blocks owned and disjoint, guids fresh, fan-out only to sessions |
| `connection` | 2 players, 4 allocations | the two machines stay together |
| `replay` | 1 client, 3 connections that begin at the wrap, 2 packets, 1 generator packet, window 3, acknowledgements 1 late | types, order and window but for the parser's answers, map wait, own connection, termination |
| `replay_join` | as above | `JoinReturns` fails under fairness: `join()` with `client_mu_` held never returns |
| `native` | 1 client, 3 connections, the code's plan | plan once and in order, for its own connection, after the map; one counter for both threads; `stop()` returns from outside a callback; the wait ends |
| `native_chseq` | 1 client, 1 connection | `ReliableInSequence` fails: the splice uses a number of channel 0 again |
| `bootstrap` | 1 client, 2 connections, 2 channels, 3 packets, numbers modulo 2 in a field of 4 values, jump of 1 | order but for the parser's answers, renumbering of what is patched, the join meets a finished thread, the flag is cleared |
| `bootstrap_chseq` | 1 client, 1 connection, 1 channel, numbers modulo 4 in a field of 16 values, jump of 2 | `CleanSequence` fails: a bunch that goes on with its channel is skipped for the two bits behind its number, and sent with the captured one |
| `tether` | ring of 2, 2 sessions, 2 requests of 5 kinds | `TetherChannel` implemented; the push waits for the client; a client that stays catches up and learns the address |
| `xclient` | 2 streams, 2 characters of which 1 cannot be written, 2 restarts | an answered creation stays, an answered deletion stays deleted, but for the characters in `lost` |

**Why the bounds are enough.** Two threads are what it takes for events to
arrive in the other order, and two mutations of an actor (`MaxVersion` counts its
property changes and its movements together) for an older value to follow a
newer one or a movement to follow a change. Two joins let a client leave and
rejoin between a drain and its emissions and get a spawn twice. Of the two
actors one is mutated, moved and destroyed (`Changing`); the other is only
spawned, and is what keeps the client among the clients of a tick after the
first is gone, so that the hidden actors of its diff are sent too. One client is
enough for the interleavings: no property relates two clients, the tick works
through them one by one, and the theorems of `ReplicationProofs` cover any
number of either, all of them changing. One thread moves
actors, because two make `NoLostMove` and `UpdateReaches` fail: `ActorMoved`
carries the location by value, and the server has one. Three or four allocations
let each player log in, spawn and come back; the arithmetic space 64 leaves the
blocks no room to wrap, as the assumption of the module says of 2^64 and
`kDynamicBase`. In `replay` the window (3) is above the slow limit (2), so each
of the three tiers is entered; three connections give a reconnect at every point
of a replay and of the one that replaces it; a second packet is checked against
the window after the first has been numbered, sent and acknowledged, or not. The
connections begin at the last, the second last, the third last number of the 14
bits and so on, so each wraps within a few packets and the numbers compared lie
on either side. Two bounds are more than a cap. `MaxUnacked` is how many packets
keepalives and answers may run ahead of the client: the code has no such limit,
but sends one keepalive per 200 ms and thread, answers only what the client
sends, and gives an idle client up after 30, 120 or 300 s, which is a few
thousand at most. `MaxLate` is how old an acknowledgement is when it arrives.
The assumption of the module asks that window, generators and these two together
stay below half the space, 8192, which is what reading a difference of 14 bits
as a signed one takes: a client that goes on sending for a quarter of an hour
and never acknowledges more is outside the model. `MaxSeq` only stops keepalives
and answers. In `native` three connections let a sequencer be replaced twice,
the second time by one whose predecessor has itself been stopped; `MaxWire` only
stops answers to requests the client repeats. In `bootstrap` a field of four
values with a jump of one has a value for each case of the filter on either side
of the wrap (next, one further, last again, anything else), three packets put a
retransmission between two new bunches, and `MaxSeq` 6 leaves room for
keepalives, answers and control messages while a packet waits to be sent; its
`SeqSize` of 2 is of no consequence there, since none of its four properties
reads it. In `bootstrap_chseq` the field keeps the two bits more that it has in
the code; with `FieldSize` equal to `SeqSize` the same instance satisfies
`CleanSequence`, which `BootstrapClean` proves. In `tether` two requests of a
kind that is answered twice run past a ring of two, and two sessions give an old
Connect, an old AskWindow and a ring with the messages of the session before. In
`xclient` one stream's save can meet the other's at every point, the character
that cannot be written makes each save fail that lists it, and the second
restart follows a load of what the first left behind.

Every safety property of the passing runs is proved for all values of the
constants the modules allow; `NoLostMove` for one thread that moves actors, and
`MapLoadWaits` of `native` and `JoinsFinished` for one client (section 5).

Deadlock is checked in all passing runs but `replay`, `native` and `tether`. The
first two really stop (a `join()` that never returns, `std::terminate`); in
`tether` the client may use up its sessions with every Connect lost.

**One client in `replay`, `native` and `bootstrap`.** The flags and the thread of
each mode are one for the server, whose comment at `net/game_server.h:3807`
calls it a single-client emulator. With two clients the second one's packets
release and stop the first one's replay, and its handler joins a bootstrap
thread that still works. The theorems that do not need one client are stated
for any number.

**Fairness.** Nothing is assumed about the clients of the game server, except
what the stall clock below says of late packets.

* `Replication!FairSpec`: the tick thread keeps ticking (`tick_loop` runs until
  `stop()`), and a thread which has mutated the registry goes on to emit its
  event (same call).
* `ReplayThread!FairSpec`: `join()` returns once the thread has exited
  (`WF(Launch)`), the replay thread is scheduled (`WF(Replay)`), and its two
  120-second clocks run out: the map wait (`SF(WaitOver)`) and the stall
  (`SF(Stall)`). Strong fairness, because the thread comes back to the check of
  either clock again and again, so that it is enabled repeatedly, not
  continuously. In the code each acknowledgement starts the stall clock anew. A
  replay that does not end has only so many packets left to be acknowledged in
  the bounded instance, so eventually no acknowledgement comes and the clock
  does run out. Acknowledgements that go back and forth for ever would start it
  anew as well; that a packet is late only so often is assumed of the network.
* `NativeSequencer!FairSpec`: the same for `stop()` and the sequencer's thread,
  and `SF(GiveUp)`, the limit of its wait.
* `BootstrapThread!FairSpec`: the same for `join()` and the bootstrap thread.
* `Tether!FairSpec`: the client's timer keeps running (`WF(AskWindow)`), and the
  network does not lose every copy of what is sent again and again: strong
  fairness of receiving an AskWindow and a Data.

## 4. What the failing runs show

Each one checks what a comment or a test of the repository says and finds the
code doing otherwise; `PROJECT.json` quotes both under `findings`.

Differences met while modelling, without a run of their own:

* LiveWorld: a client that reconnects from the same address keeps the phase of
  its previous session, so its new login is rejected there, although
  `live_world.cpp:91` means to move it to `NMT_NEGOTIATING`. A timed-out client
  stays visible (`live_world.h:103`). A repeated handshake Response spawns three
  more actors for the player. `NMT_LOGIN` allocates a second block; the actors
  keep the first.
* Replication: `remove_actor` queues a second destroy after the one `tick` has
  emitted. A client that leaves and joins again between the drain of its diff
  (`visibility_manager.cpp:90`) and the emissions gets the spawns drained before
  and, at the next tick, those of its new diff: twice in one membership, against
  `visibility_manager.h:65` ("spawn only fires once per actor-client pair") and
  Scenario 7 of `tools/test_replication.cpp:157` ("client leaves, no residual
  emits"). `SpawnOnce` states what is left of it: at most twice, and in this case
  only. `visibility_manager.h:29` says of
  `remove_client` "All actors become newly hidden"; it queues nothing.
  `live_world.h:28` calls `tick()` the only thread that emits packets;
  `maybe_send_nmt_reply` emits from the receive thread.
* Replay: the early return from the map wait leaves `replay_active_` set.
  Keepalives, generators and the parser's answers take numbers after the window
  check, so a packet can be `MaxWindow` plus what they took ahead; `WindowBound`
  states the real bound.
* Replay and bootstrap: the parser's answer to a bunch that asks for the character
  (`net/game_server.h:4395`) takes a number and is sent at once, whatever mode the
  server is in. Between the unlock of a replay packet (`:6828`) or a captured one
  (`:5543`) and its send it overtakes that packet, which is what the comment at
  `:7684` keeps the periodic keepalives from. `InOrder` says that nothing else
  does.
* Native: the wait for the map is only meaningful with one client, and a second
  client's Join stops the first one's sequencer.
* Bootstrap: where `bootstrap_chseq` shows a bunch skipped for the two bits behind
  its number, the patch of one that is not skipped overwrites these two bits with
  those of the new number (`:5453`); they belong to the rest of the bunch header. The
  comment at `:732` still speaks of 12 bits, those at `:4951` and the patch at
  `:5976` of 10. A retransmission of an older bunch than the last is taken
  for a false positive and sent with its captured number. `bootstrap_active`
  survives a reconnect the thread has not noticed: the new connection then gets
  the rest of the plan, numbered for the old one, and no plan of its own,
  although the comment at `:5646` says that the flag is cleared "so a reconnect
  can trigger a fresh bootstrap". A client that times out and sends Join again
  gets the plan a second time in the same connection. The loop gives a client up
  at 500 unacknowledged packets; the replay's comments put UE5's limit at 256.
* Tether: the ring keeps 16 messages and the peer is told a window of 64, so a
  request for a number that has left the ring is answered with a younger message
  under the old number. An acknowledgement covers every number below it, also
  those never received. A repeated request is handled again.
* XClient: `characters_.back()` is read after the mutex is released. The count of
  a world is not recomputed on start, and `current_play_character_id_` is not
  reset at the end of play although the comment at `xclient_service.h:713` says
  so.

## 5. Proofs

The only assumptions are the named `ASSUME`s of the modules, which TLC evaluates
in every run, and where it says so, that one thread moves actors, that there is
one client, or that a field is as wide as its number.

`ReplicationProofs` proves, for any sets of clients, actors and threads:

* `ReplicationTypeOK`, `ReplicationNoLostUpdate`, `ReplicationNoGhost`,
  `ReplicationSpawnOnce`: the types and the safety properties of the `replication`
  run, with `SpawnOnce` and its exception for a client that rejoins between a
  drain and its emissions;
* `ReplicationNoLostMove`, for one thread that moves actors;
* `ReplicationImplementsReplicaView`: initial states map to initial states and
  every step of the pipeline is a step of `ReplicaView` or a stutter;
* `ReplicationNeverAhead` and `ReplicationNeverRewinds`: what that means at a
  client that stays. It shows no property and no location the registry has not
  reached (for the location `MovesBehind`, a second invariant), an actor in its
  copy never goes back to an older property, and one that has left stays away;
* `ReplicationConverges` and, for one thread that moves actors,
  `ReplicationMovesConverge`:
  with all queues empty and no tick under way, what a client shows is alive and
  as the registry has it. That it shows every actor is what `AllSeeAll` refutes.

The inductive invariant `IInv` has nine parts. `NoLostUpdate` is not inductive:
a delta in progress carries the value of the snapshot, so one has to know that
whatever changed after the snapshot is already queued for the next tick
(`SnapshotCovered`), that the snapshot is never newer than the registry and a
view never newer than the snapshot (`Fresh`), and that an actor on its way to
be shown is not shown yet (`Known`). `NoGhost` needs `Dead`: whatever is queued
for destruction has left both registry and snapshot. `TickShape` says what the
tick's local variables hold at each point, and `Origins` that everything queued
was once spawned. `NoLostMove` adds that the event under way is the newest one
(`EventsCurrent`, which is what a single thread gives), that an actor without a
movement has its first location (`Unmoved`), and that a movement queued or under
way carries the registry's location (`MovesCovered`). One lemma per part shows
that a step keeps it.

`LiveWorldProofs` proves every property of the `liveworld` run for any set of
players and any number of blocks. `BlocksDisjoint` is not inductive: the
invariant `WorldInv` adds that every block a session holds is `SlotBase(s)` of a
slot `s` already issued (`Issued`), that no two sessions hold the same one
(`Distinct`), and that every guid ever registered lies below the next slot
(`UsedBelow`). The arithmetic lemmas (`SlotOrder`, `FreshIsSlot`) say that a
later slot begins after the end of an earlier one, and that within the bound the
64-bit expressions of the code do not wrap. The steps fall into three shapes
(`PhaseStep`, `AllocationStep`, `LeaveStep`) and two single actions, with one
lemma each. `FreshGuids` is what `Replication` relies on when it lets a guid be
spawned only once.

`ConnectionProofs` proves every property of the `connection` run. The invariant
`ConnInv` is `WorldInv`, the types, `WorldKeepsUp` and `NoWorldHandshake`
(GameServer does the handshakes, so the phases of LiveWorld's own are never
entered). Each action takes a step of `LiveWorld` and one of the legacy machine;
what the first does is cited from `LiveWorldProofs`. `HandleResponse` registers a
client and spawns its actors in one step, so `Connection` is no refinement of
`LiveWorld`, whose steps are single calls; since `WorldInv` is inductive for it
all the same, `ConnectionBlocks` and `ConnectionFreshGuids` carry the properties
of the `liveworld` run over to the server that drives it.

`ReplayThreadProofs` proves every safety property of the `replay` run for any
clients, file, window and bounds (with several clients the map signal of any of
them counts, as the one flag does). `InOrder` rests on three parts of the
invariant. `Control`: an active replay runs, or a handler waits for it with the
lock. `Quiescent`: while a packet is numbered and not sent, either its
connection has been replaced or nothing but the parser's answers is sent on it:
the NMT exchange is over, and the keepalives are off because the replay is
active and the phase is not `HANDSHAKE_COMPLETE`. `Numbering`: all numbers below
`outSeq` have been sent except that of the pending packet. `WindowBound` needs
`Room`: how far ahead of the client the thread may be at each program counter
between the check of the window and the build, where only the thread itself and
the parser send: counting the answers since the check (`Counted`), and however
many there are, since both stop at `MaxUnacked` (`Uncounted`). Since the code
compares 14 bits, it also needs that the numbers compared are never half the
space apart: `Narrow` bounds how far the thread and the keepalives run ahead of
what the client has, `InFlight` how far `outAck` can be behind that, and
`TrueDistance`, with the arithmetic of `WrappedDistance`, concludes that the
distance read is the true one and never less than what the client is missing
(`ReplayDistance`): a late acknowledgement makes the window narrower, never
wider. `OwnConnection` needs `Owned`: the client can only be connected anew by
the packet that launches a new replay. `MapLoadWaits` needs `MapSignal`: the
flag is down from the handler that clears it until the launch, because the
handler keeps the lock. `ReplayJoinBlocks` and `ReplayJoinEnds` are the two
sides of the refuted `JoinReturns`: a `join()` entered past the wait for the map
is never left by any step of either thread, and one entered during the wait is
left after one more step of the replay thread.

`NativeSequencerProofs` proves the types, `OwnConnection`, `PlanOrder` and
`CounterSequence` for any clients and any plan, and `MapLoadWaits` for one
client. `CounterSequence` is inductive with the types; it says that the repeats
`native_chseq` finds come from the tracker and the constants alone. `PlanInv`
adds that a connected client has answered the exchange last (`ConnectedLast`),
that a connection not yet served has none of the plan's rows (`NothingBefore`),
and which rows the connection the sequencer works for already has (`Serves`).
`WaitInv` adds that a handler inside `stop()` has lowered `running_`
(`RunsFree`), what a raised map flag means (`FlagMeans`), and that past the wait
the connection is released (`WaitedFor`). Of `StopReturns`, which is liveness,
the part that is about the code is proved: `NativeStopDescends` says that a
sequencer met outside a callback never enters one and has fewer steps left after
each step, `NativeStopBlocks` that one met inside a callback never gets out.

`BootstrapProofs` proves the types, `InOrder` and `Renumbered` for any clients,
channels, field size, jump and capture, and `JoinsFinished` for one client.
`BootstrapClean` is about the refuted `CleanSequence`: it holds for any capture
if `FieldSize` equals `SeqSize` (`NumberOnly`), so the width is all that is
wrong with the filter. `Control` is what the guard on control messages relies
on: a thread at work serves a client whose flag is set, and a connected client
whose flag is set has `nmt_state` 4. `Quiescent` and `Numbering` are to
`InOrder` what they are in the replay. `Renumbered` needs `Base` (the connection
a bootstrap is numbered for is not after the present one, nor after the one its
packet was built in) and `Settled` (as long as every packet has gone out in that
connection, the plan knows the last patched bunch that was sent on each channel,
the packet under way counted). That an accepted field is never the last one
again is `ForwardIsNew`, from `MAX_JUMP < 4096 - 1`. `Renumbered` says nothing
of the bunches that go out as they were captured, nor of the two bits a patch
overwrites. `BootstrapJoinBlocks` says what `JoinsFinished` excludes for one
client: a join that meets a thread at work never returns.

`TetherProofs` proves the types, `PushesWhenDrained` and the refinement
`TetherImplementsChannel` for any ring, sessions and requests. `TetherInv` adds
that what a session has delivered is a prefix of what it has sent as far as the
ring guarantees it (`History`), that a Connect is heeded once (`ConnectOnce`),
that a slot of the ring holds the last message with its remainder
(`RingFaithful`), that a Data under way carries the message of its number or
follows a client that is too far behind (`DataFaithful`), and that an AskWindow
asks for nothing the client has not reached (`AskModest`). `TetherPrefix` draws
the conclusion for a client that never falls behind the ring: what it has taken
is always a prefix of what it was sent. All of it rests on one Connect per session
(section 2). `CatchesUp`, which is only model-checked, compares lengths; that the
content is right is `ImplementsChannel`, as long as the client stays within the
ring.

`CharacterStoreProofs` proves every property of the `xclient` run for any
streams, characters, restarts and `Unwritable`. `StoreInv` adds that the file is
the list except inside a save or after one that was skipped or failed
(`FileIsList`), that the document of a stream inside its save is the list
(`JsonIsList`), and that list and file serve what has been answered, `lost`
excepted (`ListServes`, `FileServes`). `CharacterStoreRestartKeeps` says what a
restart finds: the list as it was, but for the character of a handler that has
changed it and not yet opened the file (`OneAhead`).

Only model-checked, since liveness under fairness and `ENABLED` are out of the
prover's reach: `DestroyReaches`, `UpdateReaches`, `ReplayEnds`, `StopReturns`,
`WaitEnds`, `FlagClears`, `CatchesUp`, `InfoArrives`, and the refuted
`JoinReturns`. No module declares a RECURSIVE operator.

## 6. Not modelled, and why

Most of the lines of the repository are no program of its own: 850,000 lines are
a generated SDK dump under `docs/aoc-sdk`, 18,500 one array of captured bytes
(`data/bootstrap_data.h`), and there are disassembly dumps and Python scripts
that inspect captures. Of the server itself the following is left out.

* The bits of packets, bunches and properties (bunch builder, property schema,
  actor and appearance emitters): pure encoders with tests that compare them
  with captures. The wire layer's reassembler is a pure function over a whole
  capture that only offline tools call.
* Statistics, logging, start-up and shutdown: `running_` and the server's `stop()`
  are left out (the threads run for ever or until they end).
* In `GameServer`: what else the parser could answer by itself
  (`net/game_server.h:4204-4300`, `:4585-4630`), which the code has switched off
  (`if (false)`, `kSendSulvAckStub`); the V3 injection and `session_g_send`, off by
  default, without which LiveWorld's emitter sends nothing; hybrid
  mode (replay and native sequencer side by side); the reactive ClientRestart and
  the queue of ServerUpdateLevelVisibility answers; the UDP relay, which forwards
  datagrams.
* `services/tether/udp_tether_server.h`, an older tether server without
  retransmission; the auth and launcher services, which answer each request from
  configuration; the requests of the XClient service that keep no state, and its
  proxy mode.
* The EOS proxy and the helper tools, which run on the client's side.

## 7. Plan

Done: sections 2 to 5. What would come next, in this order:

1. Hybrid mode: `ReplayThread` and `NativeSequencer` composed over one
   `ClientState`. Both number packets of one connection, and only the replay
   thread sends outside the lock.
2. The 14-bit wrap in `BootstrapThread`, as `ReplayThread` has it, and the 10
   bits of `reliable_seq` on the wire in `NativeSequencer`.
3. `Connection` and `Replication` composed: which guids the session mirrors,
   after a second block has been allocated.
4. The queue of ServerUpdateLevelVisibility answers: each question answered once,
   after the bootstrap is complete.
