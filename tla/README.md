# Networked: IV — verification project

TLA+ models of Networked: IV, a multiplayer modification of GTA IV (client, server
and the code they share, C++), with TLC instances that check them and TLAPS proofs
about them. The repository has no tests and next to no documentation: what the code
promises is taken from its comments, its assertions and the use its parts make of one
another. Paths below are relative to the repository (`src/` in `PROJECT.json`).

- [The system](#the-system)
- [Modules](#modules)
- [What is checked](#what-is-checked)
- [What is proved](#what-is-proved)
- [Disagreements found](#disagreements-found)
- [What is not modelled](#what-is-not-modelled)
- [Plan](#plan)

## The system

One server process, up to `PLAYER_MAX` = 32 client processes, each a DLL inside the
game. Server and clients talk through *Network.Core*, a library of which only the
interfaces are in the repository (`Shared/CNetServerInterface.h`,
`Shared/CNetClientInterface.h`). It gives every connection a slot, which is the player's
id, hands packets over between two frames, and delivers RPCs with one of several
reliabilities: `RELIABLE_ORDERED` in order, `RELIABLE` all but in any order,
`UNRELIABLE_SEQUENCED` for synchronisation.

| Part | State | Operations | Talks to | What is hard |
|---|---|---|---|---|
| **Player and vehicle replication** (`Server/Core/CPlayerManager`, `CPlayer`, `CVehicleManager`, `CVehicle`, `CServerPacketHandler`; `Client/Core/CClientPlayerManager`, `CClientVehicleManager`, `CClientPacketHandler`) | tables of 32 players and 100 vehicles on the server and on every client; the local player's id | join (InitialData), dump for the new player, announcement to the others, delete on loss or quit, create and destroy a vehicle | RPCs, ordered per connection; `playerConnect` handlers run in the middle of a join | a slot is left and taken again, connections are lost with RPCs under way, a client keeps its tables when it reconnects |
| **Vehicle entry and exit** (`CServerRPCHandler::VehicleEnterExit`, `CClientRPCHandler::VehicleEnterExit`, `CClientPlayer`) | client: `m_pVehicle`, `m_vehicleEnterExit` of every player; server: `CPlayer::m_pVehicle`, seat, `CVehicle::m_pDriver` | request, reply, complete, cancel, forceful exit | RPCs that are reliable but unordered; scripts allow or deny; the game's ped tasks | replies overtake one another, every client runs the machine of every player, tasks end by themselves |
| **Console input and shutdown** (`Server/Launcher/Main.cpp`, `CServer`, `Shared/CMutex`, `Shared/CThread`) | input queue, its mutex, active flag, thread flags | read a line, push, try to lock, drain, shut down | two threads and a signal handler | an unlocked queue, a mutex with two builds, a line that fills the buffer and is joined with the next one, a thread that is blocked in `fgets` at shutdown |
| **Script resources** (`Shared/scripting/CResource`, `CResourceManager`, `CSquirrel`, resource and event natives) | state of every resource, its VM, timers and handlers; the queue of stops | load, start, stop, restart, look up by name | natives call scripts that call natives, on one call stack | a VM deleted under its own script, a queue that grows while it is worked off, a start that fails in the middle |
| **Entity tree, events, timers** (`CEntity`, `CRootEntity`, `CTimer`, `CTimers`) | ids, parents and children, handlers of every entity, timers of every resource | create, delete, set parent, call event, add or remove handlers, process timers | scripts, which natives call from events and timers | lists that are changed while they are walked, ids used again at once, cycles, a clock that starts over |
| **Synchronisation** (`CPlayer`, `CVehicle`, `CClientPlayer`, `CClientVehicle`, `KeySync`) | position, keys, health | serialize, deserialize, relay | sequenced, unreliable packets | two hops that lose and reorder, sides that disagree about seats, slots that change hands, what is sent for a player in a vehicle |
| **Bit streams** (`Shared/CBitStream`) | buffer, read and write offsets | write, read, compress | everything that is sent | widths that are no multiple of eight, a byte that two writes share, memory that is not cleared, reallocation, reading past the end |
| **Packet and RPC dispatch** (`Shared/CPacketHandler`, `CRPCHandler`) | handler for each identifier | add, remove, look up, call | network managers | — |
| **Server lister, HTTP client** (`CServerLister`, `CHttpClient`, `CThreadedHttpClient`) | socket, status, header and data of the answer; time of the last post, what the operator was told | connect, post, process, time out | sockets, the server list | answers in pieces, posts that fail or overtake the answer before, sockets that are not given back |
| **Streamer** (`CStreamer`, `CStreamableEntity`; `Create`, `Destroy`, `StreamIn`, `StreamOut` of `CClientPlayer` and `CClientVehicle`; `CPools`) | the list of entities, those streamed in, the flag and the game object of each, pointers between players and vehicles | a pass every second; create, permit, delete | RPC handlers, the frame of each player, the game's pools | the limits of the game, pointers to what was deleted, riders that come and go without their vehicle |
| **Task manager, context data, game wrappers, hooks, user interface, launchers, configuration, vendored code** | — | — | the closed game, the operating system | see [What is not modelled](#what-is-not-modelled) |

What makes each of them correct, in short: an up-to-date client shows the players and
vehicles the server has; a player is in a vehicle only if a script let it in, and a
request never blocks the next one; the queue is used by one thread at a time, loses no
line (but joins one that fills the buffer with the next), and the server comes to its end; no VM is deleted while it runs, nothing that is
reached is without one, and a stop that was accepted happens; an id names one entity for
as long as it lives, an event calls each handler once, a timer runs as often and no sooner
than it was asked to; the closest entities are streamed in, and pointers between them do
not dangle; what is read from a stream is what was written to it; a player is shown where
he is in the end, and never where he was before; the server gets listed once that is
possible, and only if the list has said so. `PROJECT.json` lists the
hazards, each at its line, with the properties that answer it or the reason why none does.

## Modules

| Module | Models |
|---|---|
| `Replication` | player and vehicle tables, server and clients |
| `VehicleEnterExit` | the exchange to enter and leave vehicles |
| `InputQueue` | the input thread, its mutex and the shutdown |
| `ResourceManager` | loading, starting, stopping and restarting resources |
| `EntityTree` | ids, parents and children, handlers, and an event on its way through the tree |
| `IdPool` | what the ids promise; `EntityTree` implements it |
| `Timers` | the timers of all resources, the walk over them and the clock |
| `Streamer` | the streamer of a client, with the pointers between players and vehicles |
| `BitStream` | writing a stream, sending it and reading it |
| `BitQueue` | what a stream promises; `BitStream` implements it |
| `PlayerSync` | what players do, on its way to the server and to the others |
| `HttpClient` | a request and its answer in pieces |
| `ServerLister` | the posts to the server list, over an `HttpClient` |
| `MC…` | the instance of each for TLC, with its symmetry |
| `…_proofs` | theorems and proofs of the module of that name; `ServerLoop_proofs` has those of `InputQueue` and of `ServerLister`, and `ClientView_proofs` those of `Streamer` and of `PlayerSync`; the second of each has names of its own (`ListerInit`, `SyncInit`, …) so that one module can extend both |

### Replication

A handler of the server runs to its end before the next packet is handled, so each one is
an action. `link`, `inbox` and `down` are the library: who is connected in a slot, the
packets the server has not handled, the ordered RPCs on their way. `players`, `spawned`,
`vehicles` are the server's tables; `net`, `localId`, `netVeh` those of each client. A name
and a model stand for everything else a player or a vehicle has.

| Action | Code |
|---|---|
| `ConnectionSucceeded` | `CClientNetworkManager`, `CClientPacketHandler::ConnectionSucceeded` (sends InitialData), in any slot without a connection, whatever the server has still to handle of the last one there |
| `LostConnection`, `QuitClient` | the library; the client that loses a connection keeps its tables and connects again. Its InitialData may be lost with it (`Arrived`), so the server may be told of a loss in a slot without a player ("Invalid player") |
| `InitialData` | `CServerRPCHandler::InitialData`: `CPlayerManager::Add`, the `playerConnect` event (`Join` with a script that creates a vehicle, or none), both `HandlePlayerJoin`, the spawn for the others |
| `Disconnected` | `CServerPacketHandler::Disconnected`, `LostConnection` with `CPlayerManager::Delete` |
| `CreateVehicle`, `DeleteVehicle` | the natives with `CVehicleManager::Add` and `Delete`; `createVehicle` spawns twice |
| `Receive` | the client's handlers of AddPlayer, DeletePlayer, SpawnPlayer, InitialData, SpawnVehicle, DestroyVehicle, with `SetLocalPlayerId` as it is |

`sessions` counts the connections of a running client: `ViewConverges` says what an
up-to-date client holds in its first session, where it starts from empty tables;
`NobodyMissing` says the part of it that survives a reconnection (stale entries may): an
entry of its own for every other player, and every vehicle.

Two histories name the cases where the code keeps less. `early` are the slots that were
connected again before the server had handled every packet of the last connection. The
server joins and deletes in the order of the packets, so no join meets the old player
(`SlotBelongsToLink`); but until it has deleted that one, it sends what is meant for him to
the newcomer, who then holds players and vehicles nobody tells him to delete. `ViewConverges`
and `EveryPlayerRPCApplies` exempt such a slot as long as its connection lasts, and
`NobodyMissing` does not. `doubled` are the clients in which `SetLocalPlayerId` has stopped at
the player in the new slot and left the local player above it. Then `AddPlayer` for that upper
slot is refused, as it is active, and the player there is missing: this is all that
`NobodyMissing` exempts.

### VehicleEnterExit

`up` and `down` are bags of RPCs: `RELIABILITY_RELIABLE` promises delivery, not order.
`view[c][p]` is what client `c` keeps of player `p` (`m_pVehicle`, the entry under way,
`bExiting`), `ped[c][p]` what the game's ped does there; `requesting` is `bRequesting` of
the local players. The actions follow the code's frame function branch by branch
(`EntryComplete`, `EntryCancelled`, `EntryRestarted`, `EntryRemoved`, `ExitComplete` from
`CClientPlayer::ProcessVehicleEntryExit`), the server's handler type by type
(`ServerEntryRequest`, `ServerExitRequest`, `ServerEntryCancelled`, `ServerEntryComplete`,
`ServerExit`) and the client's handler likewise (`EntryReturn`, `ExitReturn`,
`EntryCancelledReply`). `PedMoves` is the game: a task ends, is aborted, or is started
without anybody asking (`OwnTask`). `granted` and `cancelled` are history.

`SetOccupant` only stores a driver: `CVehicle::SetPassenger` returns for every valid
passenger id (`CVehicle.cpp:110`), and so `GetClosestVehicle` never finds a passenger seat
but the first one taken. The model therefore has two seats.

### InputQueue

Both threads step by step: the main loop (`frame`, `try`, `drain`, `unlock`, `stop`,
`unload`, `exit`) and the input thread (`check`, `read`, `lock`, `push`, `unlock`), the
owner of the mutex, the queue, and the console handler (`Signal`). `linux` says which of
the two builds runs. `line` is `strInputString`, to which `fgets` adds: the end of a line
(`ReadLine`), a part that fills the buffer (`ReadPart`), or a newline alone (`ReadNewline`),
which is skipped (`Main.cpp:63`), be it an empty line or the end of one whose text has just
filled the buffer. Such a line is not queued, and the next one is added to it. `before`
remembers what was read since the last line that came to its end, and `typed` which lines came
after one that filled the buffer (`alone`): `NoLineLost` says what becomes of both, and
`ShutdownCommandWorks` is about a command on a line of its own. `CutLine` is what a build makes of a line: Windows drops the `\n`, the
pthread build two characters. `TryLock` takes the result of `pthread_mutex_trylock`, zero
on success, for a boolean, as the code does.

### ResourceManager

One thread, but natives run scripts and scripts call natives: `stack` is the call stack,
with a frame for every script, for the loading of a resource's scripts and for the events
of its start and stop. `state`, `vm`, `handlers` are the resource's; `queue` and `pos`
`m_pResourceQueue` and the iterator `Process` holds into it. `BootLoad` is
`CServer::OnLoad`; `Start` is `startResource`, at once and inside the calling script;
`StopOrRestart` puts the resource into the queue; `BeginQueue`, `BeginStop`, `Stopped`,
`ClearQueue` are `CResourceManager::Process`. `StartFails` is the `Stop` inside a failing
`Start`, with the deletion in `Load` for a resource that is loaded at startup.

### EntityTree

One thread: an event is under way (`stack`, one frame for each call of `CallEvent`), and a
script acts while its handler is on top, or between events. `CreateEntity` stands for the
natives that make an entity or a timer, `DeleteEntity` is `deleteEntity` of such an entity,
`KillTimer`, `SetParent`, `AddEvent` and `RemoveEvent` are the natives they are named for, for
any id in the table, as scripts hold ids and not pointers. Players and vehicles are entities of
the tree too, below the root; they are not in the model, and an entity of a script's making is
to the tree what they are. `NextHandler`, `HandlerReturns` and `NextChild` are the loops of `CEntity::CallEvent`. `Stop` is
`CResource::Stop` (`RemoveEvents` from the root, `DeleteAllChildren`): the stops in the queue
are carried out between events (`StopResource`), and that of a start that fails at once, under
the handler that called `startResource` (`StartFails`). `since` is when a resource got its VM, as a
handler of an earlier run is one without. One start is under way at a time, and no event is
called in it. Lists are ordered by stamps, so that a node that was erased and added again is
another one. `free` is `m_EntityIDs`, used as the stack it is; the order in which the
destructors of a branch give their ids back is left open as far as the code does (children
first).

What the code does with something deleted is undefined: `fault` says of which kind it is
(`iterator`: a list node, `source`: the entity the event was called for, which each handler
gets, `dangling`: the manager of resources or timers keeps a pointer, `recursion`: a call
without an end, `vm`: the VM of a stopped resource), and nothing is said of what comes after.
`FaultsExplained` says when that can happen: a script, or the stop of a failing start, has
taken away what the event was passing through (`cut`), an entity is above itself, or a handler
without a VM is at an entity that was moved, or whose resource was (`moved`), so that the stop
did not come to it. For a pointer to be left `dangling` a resource or a timer, or what is above
it, must have been moved; two comments of the code say that nobody may move those two; the run `entities_parent` shows that
every script can (see [Disagreements found](#disagreements-found)).

### Timers

`walk` is where the loops of `CResourceManager::Process`, `CResource::Process` and
`CTimers::Process` are; while the function of a timer is under call, scripts set, reset, kill
and move timers of any resource, delete entities, and start resources (`starting`), which may
fail and stop at once (`StartFails`); other stops come between walks, as `ResourceManager` has
them. `parent` of a timer is a resource or some other entity (`Elsewhere`): `setEntityParent`
calls `CEntity::SetParent`, which is not virtual, so that of `CTimer` does not refuse. Then
`CTimer::Process` finds no resource for a parent, or another one's VM, and the timer goes with
what it is below while its list keeps it. Which entities are below which is `EntityTree`'s, so
a deletion takes any of the timers that are `Elsewhere`. `state` of a timer is its object (live,
killed, stopped, done, deleted with an entity above it, or leaked: made without an id), `listed`
the lists. `NextExecution` is the sum of `CTimer::Reset` in the width of `unsigned long`, which is
that of the clock in one build and wider in the other (`wide`). `runs`, `waited`, `visited` and
`moved` are history.

A frame takes any number of ticks up to `MaxStep`. That matters where the clock starts over: a
frame may begin before the time of a timer and the next one after the clock has gone past its
end, and then the timer waits for as long as the clock goes round. `TimersRun` is about the
timers whose time is further from the end than a frame (`InReach`).

### Streamer

One client. Handlers of RPCs, a frame of a player and a pass of the streamer are actions;
`w` is what streaming changes in the entities (`isIn`, player numbers, game vehicles,
`m_pVehicle` and its seat, the entry under way, `m_pDriver`, and in which game vehicle a ped
sits). The operators from `SetOccupant` to `StreamOut` are the functions of
`CClientPlayer` and `CClientVehicle` on such a record, and `Pass` folds them over the
entities as `CStreamer::Process` loops over them: first over those that leave, then, type by
type, over the new ones. Entering and leaving are what
`VehicleEnterExit` has of them, for remote players. A pointer to something deleted is
`Freed`; a use of one sets `fault`. The local player is never streamed; it holds player
number 0. Nothing calls `SetDimension` or `ForceStreamIn`, so there are no dimensions.

The game may make no ped for a player who is streamed in: `Create` then destroys what there is
and returns false (`CClientPlayer.cpp:114`, `CreateFails`), and `CStreamer` does not look. `PassRefusing` has
the set of players this happens to. Such a player stays in the list and flagged (`refused`),
takes up room under the limit without a game object or a number, and is not tried again until he
has been streamed out.

### BitStream

One stream from the constructor to its last read. `data` is the memory as bits, bit *i*
being the mask `0x80 >> (i & 7)` of byte `i >> 3`; what new memory holds is all zeros or all
ones. A field is one bit, any number of bits, or a compressed value; each round of the
loops of `WriteBits`, `WriteCompressed` and `ReadCompressed` is a step. Nobody writes a field
without bits, and a compressed value is whole bytes (`BitStreamAssumption`). The receiver reads
what the sender wrote, in its order, and may read one field more. The reading loop of
`ReadBits` has no state of its own that anything else could see and is one step.
`MCBitStream` has a stack buffer of two bytes and a growth of 20 bits where the code has
256 bytes and a megabit, so that both limits are passed.

### PlayerSync

One slot, the players who are in it one after the other, and one other client. A sync is
what `Serialize` reads at once: the number of the last move stands for the keys and the
health, the place on foot, and the place of the vehicle, each where the code writes it.
`up` and `down` are the syncs under way; one that arrives drops those before it (`Later`),
which is what `UNRELIABLE_SEQUENCED` says. The library counts the syncs of all players of a
connection together, so it drops more than the model has to, which `Lose` covers. `news`
are the reliable RPCs about the slot, on another channel. `seat` is `m_pVehicle` as each
side has it: `VehicleEnterExit` says how it comes to differ, and here it may in any way.
The interpolation between two places is left out: a place that was received is shown.

### HttpClient and ServerLister

`HttpClient` has the functions of the class as operators on a record, as `ServerLister`
calls two of them in one step. An answer is a sequence of tokens, one of which is the line
end; recv takes any number of them, and none for the end, an error or the timeout (which
`Connect` sets to a second in the pthread build and, as Windows takes milliseconds, to one
millisecond there). `free` counts the sockets that are left to the process. `Get`, and
posts that wait for no answer, are not called by anything, but are in the model of the
class. In `ServerLister` each step of `Process` is the whole function, and `Tick` lets the
loop be held up for any time; `healthy` says that network and list work from now on. An
answer of the list begins with its status line, and its data may come after any of its
blank lines (`Says`), as the one that counts is the last in the first piece.

## What is checked

| Run | Instance | Shows |
|---|---|---|
| `replication` | 2 clients, 2 player slots, 1 vehicle slot, 2 models, 3 connections, 2 vehicles (4 223 000 states up to symmetry) | `ViewConverges`, `NobodyMissing`, `SlotBelongsToLink`, `EveryPlayerRPCApplies` |
| `vehicle` | 2 players, 1 vehicle, 2 requests, 1 own task of the game, scripts may deny (990 000 states) | `PhasesExclusive`, `EntersOnlyGranted`, `OneExchange`, `OnlyDeniedWait` |
| `vehicle_denied` | 1 player, a script may deny, fair | `RequestAnswered` is violated |
| `input` | both builds, 3 lines, any parts of lines that fill the buffer, fair (259 000 states) | `WindowsExclusion`, `NoLineLost`, `ShutdownCommandWorks`, `ShutdownCompletes` |
| `resource` | 2 resources, both started with the server, four nested calls, fair (34 000 states) | `VMInUse`, `ReachableHaveVM`, `StopAtItem`, `StopsHappen` |
| `timers` | 2 resources, 2 timers, ids for 1 or 2, interval 2 on a clock of 4, endless or 2 runs, 3 calls of natives, starts and stops, frames of 1 or 2 ticks, both widths, fair (1 253 000 states) | `TimersConsistent`, `FaultsExplained`, `RunsLiveOnce`, `IntervalPasses`, `TimersRun` |
| `entities` | root, 2 resources, 2 ids to spare, 1 function, 4 calls of natives, events, starts and stops (932 000 states) | `EntitiesConsistent`, `FaultsExplained`, `IdsImplementPool`, `StopLeavesNothing`, `CallsEachOnce` |
| `entities_parent` | root, 1 resource, 2 ids to spare, 3 calls of natives | `ParentsFixed` is violated |
| `streamer` | 2 players, 1 vehicle, room for 1 of each, 3 distances, peds refused or not (422 000 states) | `StreamerConsistent`, `PointersLive`, `ClosestIn` |
| `bitstream` | up to 4 fields of 9 values, 2 bytes on the stack (237 000 states) | `StreamConsistent`, `ReadsBack`, `AbsentIsNothing`, `ImplementsQueue` |
| `player_sync` | 2 players in 1 slot, 2 moves, 2 syncs on each way, fair (114 000 states) | `NeverBack`, `Converges`, `KeysConverge` |
| `server_lister` | 3 answers, cut anywhere, 2 sockets, interval 2 on a clock of 3, both widths, fair (59 000 states) | `ListedByTheList`, `PostsApart`, `Recovers` |

`TypeOK` of the first four modules, whose point is the range of ids in messages, of the seat
and of the queue position, and `StartAlone` of `ResourceManager` are in no run: they are
proved for every value of the constants, and the runs are kept for what is not. In the next
four modules the types are a part of the invariant that is named for the module
(`TimersConsistent`, `EntitiesConsistent`, `StreamerConsistent`, `StreamConsistent`),
together with what relates the lists, flags and tables to one another. They are proved as well.

Two runs are refinements. `IdsImplementPool`: with every entity named by the stamp it was
born with, the table of ids implements `IdPool`, in which an id that is taken names the same
entity until it is given back. `ImplementsQueue`: with the bits up to the write offset as
the queue, every step of a stream is a put, the sealing with zeros to a whole byte, a take
from the front or nothing, so no write ever changes a bit of an earlier one.

### Bounds, and why they are enough

- *Replication*: two clients are one that joins and one that watches; three connections
  let one of them leave and come back, under its old id or under the other one, before or
  after the server has handled its loss; two
  creations in one vehicle slot let a second vehicle take the slot of the first, with
  another model, while RPCs about the first are on their way. Slots are handled
  independently but for the dumps, and the slot properties are proved for every number.
  What `NobodyMissing` exempts needs a fourth connection; with four, and no vehicles, TLC
  finds it right as well (550 000 states), and it is proved for any number.
- *VehicleEnterExit*: two requests are an entry and the exit after it, or a repeated entry;
  a second player on the same vehicle is what another client shows of the first. One task
  the game starts by itself is enough to take an unasked entry or exit into account at any
  point. The properties are proved for any number of players, vehicles and requests.
- *InputQueue*: three lines are one in the queue, one handled and one being added, or one
  that fills the buffer, the one joined to it and one after both. A line may come in any
  number of parts, as parts are not told apart. The lock and queue properties are proved
  for any number.
- *ResourceManager*: four calls nest a handler in a start in a handler in a start, or a
  failing start under the handler of a stop. Two resources, both loaded at startup, call
  one another's starts and stops both ways. The safety properties are proved for any
  number of resources and any depth.

- *EntityTree*: four calls are, for instance, the creation of an entity, a handler on it, an
  event, and the removal or deletion under that event; or an entity, another parent for a
  resource, and a deletion; or a handler, an event, and a start under it that fails. Two ids to spare let one be given back and taken again. Several
  events under way differ from one only in that a deeper one can cut what an outer one
  passes through, as a handler can by itself.
- *Timers*: two timers are the one under call and another before or behind it, in the same
  list or in another resource's. Three calls are two timers and a kill, a move or a start
  under the function of one; or a timer, another parent for it and a deletion or a stop,
  deletions not being counted. The clock starts over twice as far as an interval reaches,
  so that a sum starts over before and after the clock does, and a frame of two ticks can
  go past the end from the time of a timer or from before it.
- *Streamer*: two players with room for one make the pass choose, and let the one who is
  let in be the driver, a passenger or nobody of the vehicle that is streamed with it, and the
  one the game refuses a ped take the other's room; the
  distances are near, at the edge and out of reach.
- *BitStream*: four fields cross the stack buffer, its first allocation and a reallocation,
  at offsets with and without a remainder; every branch of the compression is one of the
  values. The invariant and the refinement are proved for any fields and buffer.
- *PlayerSync*: two players are the last and the new one of a slot, each of whom joins with
  a move; a player who stays moves once more, so that of two syncs on a way, which may
  overtake one another, one is old, or the last player's. A passenger is a driver who sends
  no place of a vehicle, so the seats are on foot and at the wheel. Slots do not share state
  but for the channel (see above).
- *ServerLister*: two answers whose data together would say "Added", one of them the answer
  of the other kind; answers without a header and empty ones come of a recv that returns
  less, or nothing. Two sockets: one may be lost, or both. A post is due before the clock has
  gone all round, from every start.

Runs that say `CHECK_DEADLOCK FALSE` may stop: requests, connections and lines are spent,
the server process is gone, no resource runs and nothing is queued, a stream has been read,
or something deleted has been used.

### Fairness

- *VehicleEnterExit*: reliable RPCs arrive and are handled (weak fairness of the request
  and reply handlers). Nothing is assumed of players, scripts or the game's tasks. The
  counterexample of `vehicle_denied` keeps to it.
- *InputQueue*: the scheduler runs both threads (weak fairness), and the input thread gets
  the mutex if it is free again and again (strong fairness): the main thread sleeps
  between its release and its next attempt. Nobody has to type, so `fgets` may block for
  ever.
- *ResourceManager*: `Process` comes to the queue in every frame, and scripts return.
  Strong fairness for each depth of the stack says that a call that is on top again and
  again ends; without it, a script that runs for ever keeps any stop from happening, as it
  would in the program.

- *Timers*: the main loop goes on, functions and scripts return (weak fairness of the steps
  of the walk and of the end of a start), and the clock does not stand still (strong fairness of `Tick`, which is possible
  again and again).

- *PlayerSync*: the client sends a sync again and again and reliable RPCs arrive (weak
  fairness), and of the syncs that are sent again and again some arrive (strong fairness
  of both hops). Nothing is assumed of moves, seats, joins and losses.
- *ServerLister*: the main loop calls `Process` again and again before the clock has gone
  all round, which takes 49 days (strong fairness), and the clock does not stand still.
  Nobody promises that network or list ever work; `Recovers` is about when they do.

`EntityTree`, `Streamer` and `BitStream` have no liveness property: their loops end because
lists are finite, and what follows waits for nothing. Nor has `Replication`: a client waits
for queues only, which both main loops empty as long as the connection lasts, and
`ViewConverges` says that it is consistent once they are.

## What is proved

Safety, for every value of the constants, from the assumptions named in the modules
(`ReplicationAssumption` and so on: the NULL values are not clients or models, the bounds
are naturals, the tables have at least one slot). TLC evaluates the same assumptions.

| Theorem | Says | Argument |
|---|---|---|
| `ReplicationTypes` | no message names a slot outside the tables | inductive by itself; the lemmas `RPCType`, `PlayerDumpType`, `VehicleDumpType`, `ListingType` say what a dump and a multicast do to the queues |
| `ReplicationSlotPhases` | however soon a slot is taken again, its packets alternate: an `InitialData` comes after a departure or finds no player, and the last packet, or the player if there is none, is that of the connection | inductive with `TypeOK`, for any number of packets the server has not handled: it takes those of a slot in order, so it deletes a player before it joins the next one of the slot. A loss takes an `InitialData` with it or not (`Arrived`, `ArrivedType`); `PhaseTail` is what handling the first packet leaves |
| `ReplicationSlotBelongsToLink` | a join finds no player in its slot, though the slot may be taken before the last player's loss is handled; with no packet left the player of a slot is the client connected there | from `SlotPhases` |
| `ReplicationNoSelfTraffic` | no player RPC is ever on its way to the player it is about | the property as a type of the queues (`Discreet`), which a multicast to slots that may hear it keeps; both dumps of a join leave the new player out |
| `ReplicationViewConverges`, `ReplicationNobodyMissing`, `ReplicationEveryPlayerRPCApplies` | an up-to-date client holds the server's tables in its first session, and there every player RPC finds the entry it expects, both but for slots taken early; in any session and slot it misses nobody, unless its local player stayed above its slot | inductive invariant `Connections /\ Views` on top of the four above. `Views` says of every slot of a client's table that the RPCs about it under way are a run of applicable steps from the client's entry to the server's (`PlayersUnderWay`, `VehiclesUnderWay`, `LocalUnderWay`; `PresenceUnderWay` is what is left of it in a later session). A handler of the server lengthens the run at its end (`ViewSent`), the client shortens it at its head (`ViewReceived`), and with nothing under way both ends are equal. That a dump lists every entry once, in whatever order, is `ListingComplete`; `Connections` says that a client has one link, starts from fresh tables and, unless its slot was taken early, is sent nothing before its join. The joins themselves find the slot free whatever was sent before (`JoinerFollows` takes what is under way as a prefix, `ToldSuffix`). `ReplicationOneLocal`: a client that is not `doubled` has no local player but in the slot it was last told of, which is what `NobodyMissing` needs to find the others |
| `VehicleTypes`, `VehiclePhases` | a client shows a player in one phase at a time, and one that is leaving in a vehicle | inductive together: an exit request names the vehicle of the view, which is one only because of the phases |
| `VehicleEntersOnlyGranted` | a client shows a player entering or in a vehicle only with a script's permission for that vehicle | with `RepliesGranted` (every entry reply on its way was granted) and the vehicle a view leaves being one it had |
| `VehicleOneExchange` | the requests and replies of a player never overlap, and every one is under way once | from `ExchangePhases` (nothing, one request or one reply under way, the latter two only while `bRequesting` is set) and `CancelledByOthers` (no client hears of its own cancellation, which would clear the flag early) |
| `VehicleOnlyDeniedWait` | a client waits in vain only after a request that the server denied: nothing else that is handled takes the last of an exchange away without clearing the flag | from `ExchangePhases`, `CancelledByOthers` and the phases, action by action: a permitted request becomes a reply in one step, and a reply clears the flag |
| `InputQueueTypes` | lines stay lines, in both builds | inductive |
| `InputQueueDiscipline` | in the Windows build the mutex has an owner exactly between lock and unlock | inductive with `TypeOK`; this is the strengthening `WindowsExclusion` needs, as it says nothing of the owner |
| `InputQueueExclusion` | in the Windows build the queue is used by one thread at a time | from `LockDiscipline` |
| `InputQueueNoLineLost` | in the Windows build every line read to its end is handled once, in order; only one that fills the buffer waits for the next and is joined to it | inductive with `TypeOK`: handled, queued and pending lines stay what is made of the lines typed (`AllKept`), and text is left between two lines only after a buffer that was filled (`TextKept`) |
| `ResourceTypes`, `ResourceVMInUse`, `ResourceReachable`, `ResourceStartAlone`, `ResourceStopAtItem` | the safety properties of `ResourceManager` | one inductive invariant, `ResourceInvariant`, of which they are parts: a call under way means a running resource, starts are alone, a stop is at the bottom of the stack and at its item of the queue |
| `AlwaysConsistent` | `StreamConsistent`: writes stay inside the buffer, and the bits behind the last one are zero up to the end of their byte | inductive; `PaddingIsZero` needs every round of `WriteBits` and both `Write0` and `Write1` to leave zeros behind them, and `WritesInBounds` needs the sizes of a buffer on the heap to stay above the stack's (`RoomForBits`, `AddedKeeps`) |
| `AlwaysWritesItsBits` | each round of `WriteBits` leaves the bits it was given in the stream | from `StreamConsistent`: a bit that is or-ed into zero stays what it is |
| `AlwaysImplementsQueue` | `BitStream` implements `BitQueue` | step by step under `StreamConsistent`: what a write keeps (`KeptExtends`), the sealing of `Send` from the padding, reads from the offset |
| `TimersAlwaysConsistent`, `TimersFaultsExplained` | `TimersConsistent`: lists, objects and runs of the timers go together during a walk that scripts change; what goes wrong goes wrong for one of three reasons: a timer that killed itself, one set without an id, or one that was moved | one inductive invariant, `TimersInvariant`: `TimersConsistent` and `FaultsExplained` with what is left of an endless timer (`Counted`), the timers behind the walk (`Behind`), the distance of the next run (`TimesAhead`) the reason for a leak (`LeaksExplained`) and what holds while a start has not returned (`StartsApart`). Everything that deletes timers, with or without telling their list, is one lemma (`RemovalInvariant`), and what is below another entity than a resource has been moved (`BelowIsMoved`) |
| `TimersRunLiveOnce` | a timer that runs is live, of a running resource, and has not run in this walk | from `Behind`: what was visited and is still listed is behind the walk, so `After` cannot reach it again |
| `TimersIntervalPasses` | no timer runs before its interval has passed, but where the clock or the sum starts over | from `TimesAhead`, which says of every live timer how far its time and its waiting are from each other, in both widths |
| `EntitiesAlwaysConsistent` | `EntitiesConsistent`: ids, parents and children agree | inductive invariant `EntityInvariant`: `TypeOK` and `TreeConsistent` with the pool as an injective list of the unused ids (`FreeOnce`, from which `FreeIds` follows), what exists has been born (`Identified`), and calls of an event that wait for a parent or a child are at their children (`Calls`). `BelowIs` makes a branch the least closed set; `FreePushed` gives back the ids of one, each once, in any order the destructors may take |
| `IdsAlwaysImplementPool` | `EntityTree` implements `IdPool` | step by step: `CreatedIs` is a pop, everything else gives ids back or leaves them (`NobodyBorn`) |
| `FaultsAlwaysExplained` | `FaultsExplained`: a walk breaks, or a handler gets an entity that is gone, only after a `cut` by a script or by the stop of a failing start; a call is endless only after one or on a cycle of parents, and a handler without a VM is at an entity that was moved, or whose resource was | inductive invariant `FaultInvariant`: unless something was cut, each call of an event is for the parent or a child of the last, and the handler or child it is at is still there (`Passes`); a handler of a stopped resource has been moved, or what it was below has (`Retained`). More calls than there are ids go round in a circle (`LongIsCyclic`), and a branch is climbed from every entity below it (`Climb`) |
| `EveryHandlerCalledOnce` | `CallsEachOnce`: an event that ends without a fault has called every handler that was there when it began and was left alone, and none twice while no entity is above itself | inductive invariant `CallInvariant`: each handler the event is expected to call has been called or is to come (`AllToCome`) from the list the last call is at (`OwnToCome`), on the way up (`UpToCome`), or from a child that a call has not come to yet (`DownToCome`), and if it is not below a circle, from one of these alone (`OnceToCome`). That a call goes on to the parent or to the next child moves handlers from one of these to another; on the way up everything called is below (`Rising`), so two ways to a handler would close a circle (`OneAbove`, `Siblings`). Lists are in the order of their stamps, which are given once (`Stamped`). A script touches one branch, and what is above the rest stays above it (`TouchedBelow`, `TouchedCalls`) |
| `StopAlwaysLeavesNothing` | the stop of a resource leaves none of its entities and handlers in the tree, but for what was moved | from `Unmoved` (what was not moved is where it was made) and `Identified`: what it made is still its child; and no branch grows by a deletion |
| `AlwaysReadsBack`, `AbsentIsAlwaysNothing` | the receiver gets the value of every field that was written, and of one that was not written nothing, or zeros of the padding | inductive invariant `ReadInvariant` on top of `StreamConsistent`: there are places `at` such that every field is from its place to the next in the bits `Planned`, which are those in memory, those of the loop under way and those of the calls to come (`Placed`); and the receiver is at the place of the field it reads next, or at a flag of it (`Follows`). Of a compressed value, the flags of the bytes left out and the bytes after them are behind one another (`Packs`), so the reader cannot pass the flag at which the writer ended |
| `SyncNeverGoesBack` | neither the server nor the viewer goes back to what a player did before, but for a new player without a place | inductive invariant `SyncInvariant`: players come one after the other (`PlayersInTurn`), moves and places grow along each way and from the viewer back to the client (`KeysInTurn`, `PlacesInTurn`), and what arrives or is lost only thins a way out (`LaterThins`) |
| `StreamerAlwaysConsistent`, `PointersAlwaysLive` | lists, flags, game objects and player numbers agree, but for players the game refused a ped, who are listed without either; no pointer dangles unless the server deletes what is still used | one inductive invariant, `StreamerInvariant`: each list is free of doubles, within its limit and what is flagged of its type (`Listed`); each entity that is flagged and not refused, and no other, has its object and players their numbers (`Sane`); no pointer dangles (`Live`) unless `careless`. `StreamIn` and `StreamOut` keep `Sane` and `Live`: a number is left as long as the players that are or are to be streamed in fit the limit, counted with an injection (`NumberLeft`), and a vehicle that goes takes its driver out, who alone may point at it (`OutUnused`). A pass goes through whole lists, so each fold is unrolled into its rounds (`Unrolled`, `RoundByRound`) and taken round by round (`OutAllKeeps`, `InAllKeeps`) |
| `AlwaysClosestIn` | a pass leaves the closest entities in reach streamed in | on top of `StreamerInvariant`: what stays and what is new are together what is in reach (`LoopIs`), sorting gives every element a place of its own and none before a nearer one (`PlaceIs`, `ByDistanceIs`), and what is cut off at the limit is behind all that stays (`SplitIs`, `OverflowKeeps`) |
| `AlwaysPostsApart` | posts are `SERVER_LIST_TIMEOUT` apart, but where the clock has started over and `unsigned long` is wider | inductive invariant `ListerTime`: what has passed since the last post is the distance of the clock from it, until it has gone all round |
| `AlwaysListedByTheList` | the operator is told that the server is listed only if an answer of the list has said so | inductive invariant `ListerInvariant`: if what the client holds of an answer and what is still unread of it begin with an "Added", the list has sent that one (`Honest`), however the answer is cut; no data of an answer is left to the next, and nothing is waited for when it is complete |

Where an argument goes along a chain or a loop, the induction is over a number and in the
form of a set: the numbers for which a claim fails have a least one (`WFMin` of
`WellFoundedInduction`), which leads to a contradiction.

Only model-checked: everything under fairness (`ShutdownCommandWorks`, `ShutdownCompletes`,
`StopsHappen`, `TimersRun`, `Converges`, `KeysConverge`, `Recovers`), which is out of the
prover's reach. Every invariant and every safety property that a run shows to hold is proved.

## Disagreements found

Two are runs that TLC ends with a counterexample; `PROJECT.json` quotes the comments.

1. `RequestAnswered` with scripts that deny (`CServerRPCHandler.cpp:174`): the reply is only
   sent when the request was granted, and the client waits for it for ever.
   `OnlyDeniedWait` says that there is no other way for a client to wait in vain.
2. `ParentsFixed` (`EntityTree`; `CEntity.cpp:125`): "we won't allow anyone to set our parent
   element", say `CResource.cpp:202` and `CTimer.cpp:62`, but `CEntity::SetParent` is not
   virtual (`CEntity.h:50`) and the native calls it for any entity. A resource or timer that
   was moved is deleted with its new parent, under the manager that still points at it
   (`CEntity.cpp:171`), and a timer's function is called in the VM of whatever its parent is
   (`CTimer.cpp:36`; the properties of `Timers` say what comes of it).

TLC finds these as well, when the definition is added to a configuration, as an invariant or,
where it is a temporal formula, as a property:

3. `OwnSeatOnly` (`Streamer`; `CClientPlayer.cpp:1060`): a warp out of a vehicle empties the
   seat of the last entry and not the player's, although the comment above says "Reset the
   vehicle occupant for our seat"; a passenger who has been put back into the vehicle by the
   streamer takes the driver's place away. (It takes room for both players, and
   `Infos = 3`.)
4. `DriverConverges` (`PlayerSync`; `CPlayer.cpp:186`): the server returns before the part of
   a sync that is about a player's vehicle, whose comments say that it is written ("Write our
   vehicle id", line 187; "Serialize the vehicle", line 196); the place of a vehicle goes to
   the server with every sync of its driver, and to nobody else.
5. `OneLocalSlot` (`Replication`; `CClientPlayerManager.cpp:138`): the loop that clears the
   old local player stops at the first slot that is the local player's *or* has the new id.
   A client that comes back under a lower id than before can end with two local slots
   ("Clear the current local player (if any)"; TLC needs 13 states). The upper one is taken
   for active, so the player who comes there is refused (`CClientPlayerManager.cpp:48`) and
   stays missing; that is what `NobodyMissing` exempts with `doubled`.
6. `RecordsOnlyGranted` (`VehicleEnterExit`; `CClientPlayer.cpp:1324`): every client reports
   the completion of the entries of remote players, and the server takes the reporting
   player for the one who entered.
7. `CancelledStaysOut` (`VehicleEnterExit`; `CClientRPCHandler.cpp:354`): a cancelled entry
   stays under way at the clients that show the player, who is made to enter again.
8. `MutualExclusion` in the pthread build (`InputQueue`; `CMutex.cpp:75`): the result of
   `pthread_mutex_trylock` is taken the wrong way round.
9. `QueuedExist` (`ResourceManager`; `CResourceManager.cpp:71`): a resource that fails to
   start at startup is deleted while it may still be in the queue.
10. `OwnPlace` (`PlayerSync`; `CClientRPCHandler.cpp:383`): a sync of the last player of a slot
   may come after the AddPlayer of the new one, who is then shown where the last one was,
   until the next sync.
11. `AlwaysRecovers` (`ServerLister`; `CHttpClient.cpp:107`): a host name that cannot be
    resolved costs a socket with every post, so a server without name service for long has
    none left when it is back.

More are in the models as what the code does, and the properties say so much and no more:

- the pthread build cuts the last letter off a command typed at a terminal (`Main.cpp:79`,
  `CutLine`), and the server object is destroyed while the input thread may still use it
  (`Main.cpp:176`, `Unload`);
- a line that fills the buffer has its newline skipped, is not handled, and the next line,
  be it a shutdown command, is added to it (`Main.cpp:63`, `ReadNewline`);
- a client that takes a slot before the server has handled the loss of the last connection
  there is sent what is meant for that one's player, and may keep players and vehicles that
  are gone (`early`, `Replication`);
- a timer that kills itself breaks the walk (`CTimers.cpp:25`, `Return`), and so does one whose
  parent was set (`Visit`, `DeleteEntity`); a timer that is set when no id is left is a leak
  whose arguments are deleted twice (`CTimerNatives.cpp:77`, `SetTimer`); with a 64-bit `unsigned long` a timer set shortly before the clock starts
  over never runs, and in both builds one whose time is less than a frame from the end of the
  clock waits until the clock has gone all round (`CTimer.cpp:34`, `InReach`);
- a handler that removes itself breaks the event (`CEntity.cpp:274`), and so does a start
  that fails under a handler of that resource (`CResource.cpp:117`, `StartFails`); handlers
  after one that has deleted the source of the event get it all the same (`CEntity.cpp:277`,
  `FaultOfCall`); a parent that is a descendant makes an event endless (`CEntity.cpp:125`);
- a player whom the game refuses a ped stays flagged and listed as streamed in, and takes up
  the room of another (`CClientPlayer.cpp:114`, `PassRefusing`);
- a deleted player stays the driver of its vehicle, and a deleted vehicle that of a
  passenger or of a player who is entering (`careless`, `Streamer`);
- the server sends on the place of a player before it has one, which is the origin
  (`CServerRPCHandler.cpp:298`, `NeverBack`);
- the switch over the errors of a request goes on after that of a failed send
  (`CHttpClient.cpp:393`), which is reported as a missing header; the header of an answer
  ends at the last blank line of its first piece (`CHttpClient.cpp:325`, `HeaderEnd`); and
  a server that was listed, and could not be reached for a time, does not say so when it is
  listed again (`CServerLister.cpp:86`, `Hear`);
- the comment of `WriteCompressed` speaks of a 1 bit for each upper byte that is zero
  (`CBitStream.cpp:226`), but `Write(bool)` writes eight (`Flag`).

## What is not modelled

- *In a modelled part*: players and vehicles as entities of the server's tree (`EntityTree`);
  positions, colours, names and the other values that are only
  copied; the destruction of vehicles and players in `VehicleEnterExit` (it is in
  `Replication` and, with the pointers of a client, in `Streamer`); death and respawn; the
  handshake of `CThread::Start`, which the launcher waits for; a lock with a timeout, which
  nothing calls; what scripts compute; events that handlers call inside an event in
  `EntityTree`, or in a start in it or in `Timers` (`ResourceManager` nests calls); the shutdown of a client, which deletes the
  streamer before the managers whose destructors use it (`CClient.cpp:272`); signed
  compressed values, padding, alignment and resetting of streams, which nothing calls; the
  length of a string as a `size_t`, whose width is the build's (`CBitStream.cpp:127`).
- *Synchronisation*: the single fields, which are copied; how they are written and read is
  in `BitStream`. The interpolation, in floating point, from where a player is shown to
  where he is (`CClientPlayer.cpp:1479`). `KeySync` writes the keys into the game's pads.
  That `CPlayer::Serialize` returns early is also what `Streamer` relies on: no sync packet
  puts a player in a vehicle.
- *Task manager and context data*: two lists the hooks look up pointers of the game in.
  `RemoveTask` deletes a pair and leaves it in the list (`CClientTaskManager.cpp:62`), so
  after the first call there is no state to say anything of.
- *Dispatch*: handlers are registered once, and packets and RPCs look theirs up in a list
  that does not change.
- *Undefined behaviour*: in the pthread build both threads can be in the queue at the same
  time; what `std::queue` does then is open, so only `TypeOK` and `ShutdownCompletes` are
  said of that build. After the use of something deleted (`fault` in `EntityTree`, `Timers`
  and `Streamer`) nothing is said of the state, only how it came about.
- *External code*: Network.Core, the game, Squirrel, the C library. Their part in the
  models is taken from how the code uses them and marked in `PROJECT.json`.
- *No logic of its own*: game wrappers, hooks and patches; user interface; launchers;
  configuration, logging and strings; vendored libraries.
- *Not yet*: see the plan.

## Plan

Done: the core of the eleven parts where most goes on at once. Next, in this order:

1. The passengers of `Streamer`, should `CClientVehicle::SetPassenger` come to store them.
2. The interpolation of places, in whole numbers.
3. An abstract replication (each client's table is one of the server's earlier tables) that
   `Replication` implements in a first session; `Views` is the invariant it would rest on.
