----------------------------- MODULE Replication -----------------------------
(***************************************************************************)
(* How the server replicates its player and vehicle tables to the clients. *)
(*                                                                         *)
(* The server is one thread: a packet or RPC handler runs to its end before*)
(* the next one, so each handler is one action.  The network library       *)
(* (Network.Core, external) gives every connection a player slot that has  *)
(* none, whether or not the server has been told of the loss of the last   *)
(* one, hands the server the packets of one slot in order, and delivers the*)
(* RELIABLE_ORDERED RPCs of one connection in order until it is lost.      *)
(* Names and vehicle models stand for the payload: they are what tells one *)
(* occupant of a slot from the next.                                       *)
(***************************************************************************)
EXTENDS Integers, Sequences, FiniteSets

CONSTANTS
  Client,       \* client machines; a client's nickname is the client itself
  NoClient,     \* NULL in the tables of connections and players
  Models,       \* vehicle models a script may create
  NoVehicle,    \* NULL in the vehicle tables
  PlayerMax,    \* PLAYER_MAX
  VehicleMax,   \* VEHICLE_MAX
  MaxConnects,  \* bound: connections established in a behaviour
  MaxCreates    \* bound: vehicles created in a behaviour

ASSUME ReplicationAssumption ==
  /\ NoClient \notin Client
  /\ NoVehicle \notin Models
  /\ PlayerMax \in Nat \ {0}
  /\ VehicleMax \in Nat \ {0}
  /\ MaxConnects \in Nat
  /\ MaxCreates \in Nat

Pid == 0 .. PlayerMax - 1
Vid == 0 .. VehicleMax - 1

VARIABLES
  link,      \* network library: the client connected on each slot
  inbox,     \* packets of each slot the server has not handled yet
  down,      \* ordered RPCs on their way to the client of each slot
  players,   \* server: m_pPlayers, by the name of the player
  spawned,   \* server: the slots whose player has m_bSpawned set
  vehicles,  \* server: m_pVehicles, by model
  net,       \* clients: m_pNetworkPlayers
  localId,   \* clients: m_localPlayerId
  netVeh,    \* clients: m_pNetworkVehicles, by model
  sessions,  \* clients: connections made by the running client process
  early,     \* history: the slots connected again before the server had handled
             \* every packet of the last connection
  doubled,   \* history: clients that kept a local player above their new slot
  connects,  \* connections established so far
  creates    \* vehicles created so far

clientVars == <<net, localId, netVeh>>
serverVars == <<players, spawned, vehicles>>
vars == <<link, inbox, down, players, spawned, vehicles, net, localId, netVeh,
          sessions, early, doubled, connects, creates>>

-----------------------------------------------------------------------------
(* Messages *)

AddPlayer(p, c)    == [type |-> "AddPlayer", id |-> p, name |-> c]
DeletePlayer(p)    == [type |-> "DeletePlayer", id |-> p]
SpawnPlayer(p)     == [type |-> "SpawnPlayer", id |-> p]
InitialDataRPC(p)  == [type |-> "InitialData", id |-> p]
SpawnVehicle(v, m) == [type |-> "SpawnVehicle", id |-> v, model |-> m]
DestroyVehicle(v)  == [type |-> "DestroyVehicle", id |-> v]

Msg == [type : {"AddPlayer"}, id : Pid, name : Client]
       \cup [type : {"DeletePlayer", "SpawnPlayer", "InitialData"}, id : Pid]
       \cup [type : {"SpawnVehicle"}, id : Vid, model : Models]
       \cup [type : {"DestroyVehicle"}, id : Vid]

\* What the server's network module hands over for a slot.
Packet == [type : {"InitialData", "Disconnected", "LostConnection"}, name : Client]

\* An entry of a client's player table: empty, the local player, or another one.
Entry == [kind : {"none", "local", "remote"}, name : Client \cup {NoClient},
          spawned : BOOLEAN]
NoEntry    == [kind |-> "none", name |-> NoClient, spawned |-> FALSE]
LocalEntry == [kind |-> "local", name |-> NoClient, spawned |-> FALSE]
Remote(c)  == [kind |-> "remote", name |-> c, spawned |-> FALSE]

NoTable == [p \in Pid |-> NoEntry]
NoPid   == PlayerMax   \* INVALID_ENTITY_ID

-----------------------------------------------------------------------------
(* Helpers *)

\* Slots for which CPlayerManager::IsActive holds.
Active == {p \in Pid : players[p] # NoClient}

\* Queues after the RPCs s are sent to each slot of T; a slot without a
\* connection gets nothing.
RPC(d, T, s) ==
  [p \in Pid |-> IF p \in T /\ link[p] # NoClient THEN d[p] \o s ELSE d[p]]

\* The RPCs of S one after the other, in the order of the slots, an AddPlayer
\* before the SpawnPlayer of the same slot.
Rank(m) == 2 * m.id + (IF m.type = "SpawnPlayer" THEN 1 ELSE 0)
Listings(S) ==
  {s \in [1 .. Cardinality(S) -> S] :
     \A i, j \in 1 .. Cardinality(S) : i < j => Rank(s[i]) < Rank(s[j])}

\* CVehicleManager::Add takes the first free slot.
FreeVid == {v \in Vid : vehicles[v] = NoVehicle}
FirstFree(v) == v \in FreeVid /\ \A w \in FreeVid : v <= w

-----------------------------------------------------------------------------
Init ==
  /\ link = [p \in Pid |-> NoClient]
  /\ inbox = [p \in Pid |-> <<>>]
  /\ down = [p \in Pid |-> <<>>]
  /\ players = [p \in Pid |-> NoClient]
  /\ spawned = {}
  /\ vehicles = [v \in Vid |-> NoVehicle]
  /\ net = [c \in Client |-> NoTable]
  /\ localId = [c \in Client |-> NoPid]
  /\ netVeh = [c \in Client |-> [v \in Vid |-> NoVehicle]]
  /\ sessions = [c \in Client |-> 0]
  /\ early = {}
  /\ doubled = {}
  /\ connects = 0
  /\ creates = 0

-----------------------------------------------------------------------------
(* Connections *)

Linked(c) == \E p \in Pid : link[p] = c

\* CClientNetworkManager::Connect succeeds: the library gives the client a slot
\* without a connection.  The handler of PACKET_CONNECTION_SUCCEEDED answers with
\* the InitialData RPC.
ConnectionSucceeded(c, p) ==
  /\ ~Linked(c)
  /\ link[p] = NoClient
  /\ connects < MaxConnects
  /\ link' = [link EXCEPT ![p] = c]
  /\ inbox' = [inbox EXCEPT ![p] = Append(@, [type |-> "InitialData", name |-> c])]
  /\ sessions' = [sessions EXCEPT ![c] = @ + 1]
  /\ early' = IF inbox[p] = <<>> THEN early ELSE early \cup {p}
  /\ connects' = connects + 1
  /\ UNCHANGED <<down, serverVars, clientVars, doubled, creates>>

\* What the server is handed of a connection that ends: its InitialData may be
\* lost with it.
Arrived(s) ==
  {s} \cup {t \in {SubSeq(s, 1, Len(s) - 1)} : s # <<>> /\ s[Len(s)].type = "InitialData"}

\* The library drops the connection of slot p: what is still queued for the
\* client is lost, and the server is told after what it was sent before.
DropLink(p, reason) ==
  /\ link[p] # NoClient
  /\ link' = [link EXCEPT ![p] = NoClient]
  /\ \E s \in Arrived(inbox[p]) :
       inbox' = [inbox EXCEPT ![p] = Append(s, [type |-> reason, name |-> link[p]])]
  /\ down' = [down EXCEPT ![p] = <<>>]
  /\ early' = early \ {p}
  /\ UNCHANGED <<serverVars, connects, creates>>

\* The client keeps its tables: PACKET_LOST_CONNECTION only calls Connect again.
LostConnection(p) ==
  /\ DropLink(p, "LostConnection")
  /\ UNCHANGED <<clientVars, sessions, doubled>>

\* The game is closed: the process and its tables are gone.
QuitClient(p) ==
  /\ DropLink(p, "Disconnected")
  /\ net' = [net EXCEPT ![link[p]] = NoTable]
  /\ localId' = [localId EXCEPT ![link[p]] = NoPid]
  /\ netVeh' = [netVeh EXCEPT ![link[p]] = [v \in Vid |-> NoVehicle]]
  /\ sessions' = [sessions EXCEPT ![link[p]] = 0]
  /\ doubled' = doubled \ {link[p]}

-----------------------------------------------------------------------------
(* Server handlers *)

Packets(p, types) == inbox[p] # <<>> /\ Head(inbox[p]).type \in types

\* What createVehicle sends to every player: Add spawns the vehicle and the
\* native spawns it a second time once it has set the position.
CreateBurst(v, m) == <<SpawnVehicle(v, m), SpawnVehicle(v, m)>>

\* The RPCs of both HandlePlayerJoin for the player in slot p.
PlayerDump_NotSpawned(p) == {AddPlayer(q, players[q]) : q \in Active \ {p}}
PlayerDump(p) ==
  {AddPlayer(q, players[q]) : q \in Active \ {p}}
  \cup {SpawnPlayer(q) : q \in (Active \cap spawned) \ {p}}
VehicleDump(veh) ==
  {SpawnVehicle(v, veh[v]) : v \in {w \in Vid : veh[w] # NoVehicle}}

\* CServerRPCHandler::InitialData, with what a handler of playerConnect does to
\* the vehicles (veh, and burst, the RPCs that sends to every player).
Join(p, c, veh, burst) ==
  LET others == Active \ {p}
      announced == IF p \in Active THEN down
                   ELSE RPC(down, others, <<AddPlayer(p, c)>>)
      scripted == RPC(announced, others \cup {p}, burst)
  IN /\ players' = IF p \in Active THEN players ELSE [players EXCEPT ![p] = c]
     /\ spawned' = spawned \cup {p}
     /\ \E ps \in Listings(PlayerDump(p)), vs \in Listings(VehicleDump(veh)) :
          down' = RPC(RPC(scripted, {p}, <<InitialDataRPC(p)>> \o ps \o vs),
                      others, <<SpawnPlayer(p)>>)
     /\ vehicles' = veh

InitialData(p) ==
  /\ Packets(p, {"InitialData"})
  /\ inbox' = [inbox EXCEPT ![p] = Tail(@)]
  /\ LET c == Head(inbox[p]).name
     IN \/ /\ Join(p, c, vehicles, <<>>)
           /\ UNCHANGED creates
        \/ /\ p \notin Active
           /\ creates < MaxCreates
           /\ \E v \in Vid, m \in Models :
                /\ FirstFree(v)
                /\ Join(p, c, [vehicles EXCEPT ![v] = m], CreateBurst(v, m))
           /\ creates' = creates + 1
  /\ UNCHANGED <<link, clientVars, sessions, early, doubled, connects>>

\* CPlayerManager::Delete: the others are told, the instance and its flags go.
Delete_KeepsPointer(p) ==
  /\ down' = RPC(down, Active \ {p}, <<DeletePlayer(p)>>)
  /\ UNCHANGED <<players, spawned>>
Delete_NotAnnounced(p) ==
  /\ players' = [players EXCEPT ![p] = NoClient]
  /\ spawned' = spawned \ {p}
  /\ UNCHANGED down
Delete(p) ==
  /\ players' = [players EXCEPT ![p] = NoClient]
  /\ spawned' = spawned \ {p}
  /\ down' = RPC(down, Active \ {p}, <<DeletePlayer(p)>>)

\* The handlers of PACKET_DISCONNECTED and PACKET_LOST_CONNECTION.
Disconnected(p) ==
  /\ Packets(p, {"Disconnected", "LostConnection"})
  /\ inbox' = [inbox EXCEPT ![p] = Tail(@)]
  /\ IF p \in Active THEN Delete(p) ELSE UNCHANGED <<players, spawned, down>>
  /\ UNCHANGED <<link, vehicles, clientVars, sessions, early, doubled, connects, creates>>

\* The createVehicle native, run by a script.
CreateVehicle(m) ==
  /\ creates < MaxCreates
  /\ \E v \in Vid :
       /\ FirstFree(v)
       /\ vehicles' = [vehicles EXCEPT ![v] = m]
       /\ down' = RPC(down, Active, CreateBurst(v, m))
  /\ creates' = creates + 1
  /\ UNCHANGED <<link, inbox, players, spawned, clientVars, sessions, early, doubled,
                 connects>>

\* CVehicleManager::Delete, called by the destroyVehicle native with some slot.
DeleteVehicle(v) ==
  /\ vehicles[v] # NoVehicle
  /\ vehicles' = [vehicles EXCEPT ![v] = NoVehicle]
  /\ down' = RPC(down, Active, <<DestroyVehicle(v)>>)
  /\ UNCHANGED <<link, inbox, players, spawned, clientVars, sessions, early, doubled,
                 connects, creates>>

-----------------------------------------------------------------------------
(* Client handlers *)

\* The player table after the RPC m, but for InitialData.
ApplyToPlayers(t, m) ==
  CASE m.type = "AddPlayer" /\ t[m.id].kind = "none" ->
         [t EXCEPT ![m.id] = Remote(m.name)]
    [] m.type = "DeletePlayer" /\ t[m.id].kind = "remote" ->
         [t EXCEPT ![m.id] = NoEntry]
    [] m.type = "SpawnPlayer" /\ t[m.id].kind = "remote" ->
         [t EXCEPT ![m.id].spawned = TRUE]
    [] OTHER -> t

ApplyToVehicles(t, m) ==
  CASE m.type = "SpawnVehicle" /\ t[m.id] = NoVehicle ->
         [t EXCEPT ![m.id] = m.model]
    [] m.type = "DestroyVehicle" -> [t EXCEPT ![m.id] = NoVehicle]
    [] OTHER -> t

\* CClientPlayerManager::SetLocalPlayerId: the loop clears the first slot that
\* holds the local player or has the new id, and stops there.
SetLocalPlayerId_KeepsOld(t, p) == [t EXCEPT ![p] = LocalEntry]
SetLocalPlayerId(t, p) ==
  LET hits == {i \in Pid : t[i].kind = "local" \/ (i = p /\ t[i].kind = "remote")}
      first(i) == i \in hits /\ \A j \in hits : i <= j
  IN [i \in Pid |-> IF i = p THEN LocalEntry ELSE IF first(i) THEN NoEntry ELSE t[i]]

\* The loop stops at the player in the new slot and leaves the local player above it.
StopsBelow(t, p) == t[p].kind = "remote" /\ \E i \in Pid : i > p /\ t[i].kind = "local"

Receive(p) ==
  /\ link[p] # NoClient
  /\ down[p] # <<>>
  /\ down' = [down EXCEPT ![p] = Tail(@)]
  /\ LET c == link[p]
         m == Head(down[p])
     IN IF m.type = "InitialData"
        THEN /\ net' = [net EXCEPT ![c] = SetLocalPlayerId(@, m.id)]
             /\ doubled' = IF StopsBelow(net[c], m.id) THEN doubled \cup {c} ELSE doubled
             /\ localId' = [localId EXCEPT ![c] = m.id]
             /\ UNCHANGED netVeh
        ELSE /\ net' = [net EXCEPT ![c] = ApplyToPlayers(@, m)]
             /\ netVeh' = [netVeh EXCEPT ![c] = ApplyToVehicles(@, m)]
             /\ UNCHANGED <<localId, doubled>>
  /\ UNCHANGED <<link, inbox, serverVars, sessions, early, connects, creates>>

-----------------------------------------------------------------------------
Next ==
  \/ \E c \in Client, p \in Pid : ConnectionSucceeded(c, p)
  \/ \E p \in Pid :
       LostConnection(p) \/ QuitClient(p) \/ InitialData(p) \/ Disconnected(p)
       \/ Receive(p)
  \/ \E m \in Models : CreateVehicle(m)
  \/ \E v \in Vid : DeleteVehicle(v)

Spec == Init /\ [][Next]_vars

-----------------------------------------------------------------------------
(* Properties *)

\* The tables, queues and messages hold what the code's types allow; above all
\* no message names a slot outside the fixed-size tables its handler indexes.
TypeOK ==
  /\ link \in [Pid -> Client \cup {NoClient}]
  /\ inbox \in [Pid -> Seq(Packet)]
  /\ down \in [Pid -> Seq(Msg)]
  /\ players \in [Pid -> Client \cup {NoClient}]
  /\ spawned \in SUBSET Pid
  /\ vehicles \in [Vid -> Models \cup {NoVehicle}]
  /\ net \in [Client -> [Pid -> Entry]]
  /\ localId \in [Client -> Pid \cup {NoPid}]
  /\ netVeh \in [Client -> [Vid -> Models \cup {NoVehicle}]]
  /\ sessions \in [Client -> Nat]
  /\ early \in SUBSET Pid
  /\ doubled \in SUBSET Client
  /\ connects \in 0 .. MaxConnects
  /\ creates \in 0 .. MaxCreates

\* Slot p is the connection of client c, the server has handled its packets, and
\* every RPC sent to it has been handled.
UpToDate(c, p) == link[p] = c /\ inbox[p] = <<>> /\ down[p] = <<>>

\* The packets of a slot and its player: an InitialData finds no player and comes
\* after a departure, the last packet is that of the connection or of its loss, and
\* with none left the player is the client connected.  A slot that was not taken
\* early has no packet but its own.
SlotPhase(p) ==
  LET s == inbox[p]
      last == s[Len(s)]
  IN /\ \A i \in 1 .. Len(s) : s[i].type = "InitialData" =>
          IF i = 1 THEN players[p] = NoClient ELSE s[i - 1].type # "InitialData"
     /\ s = <<>> => players[p] = link[p]
     /\ s # <<>> /\ link[p] = NoClient => last.type # "InitialData"
     /\ s # <<>> /\ link[p] # NoClient =>
          /\ last = [type |-> "InitialData", name |-> link[p]]
          /\ p \in early \/ Len(s) = 1

\* Connection, packets and player of a slot never get out of step, and the
\* players of the server are spawned: the strengthening that carries
\* SlotBelongsToLink.
SlotPhases == spawned = Active /\ \A p \in Pid : SlotPhase(p)

\* What the client in slot p should hold for slot q.
Mirror(p, q) ==
  IF q = p THEN LocalEntry
  ELSE IF players[q] = NoClient THEN NoEntry
  ELSE [kind |-> "remote", name |-> players[q], spawned |-> TRUE]

\* A client process in its first session that has handled every RPC holds
\* exactly the server's players and vehicles: nobody missing, left over,
\* unspawned or under an earlier occupant's name.  Only a slot that was taken
\* early has been sent what was meant for the last one in it.
ViewConverges ==
  \A c \in Client, p \in Pid :
    UpToDate(c, p) /\ sessions[c] = 1 /\ p \notin early =>
      /\ localId[c] = p
      /\ \A q \in Pid : net[c][q] = Mirror(p, q)
      /\ netVeh[c] = vehicles

\* Even in a later session, with the tables of the earlier one still there, or in a
\* slot taken early, an up-to-date client has a player of its own for every other
\* player of the server, and every vehicle.  Its own local player stands for another
\* only when SetLocalPlayerId has stopped below it.
NobodyMissing ==
  \A c \in Client, p \in Pid :
    UpToDate(c, p) =>
      /\ net[c][p].kind = "local"
      /\ \A q \in Active \ {p} :
           \/ net[c][q].kind = "remote"
           \/ net[c][q].kind = "local" /\ c \in doubled
      /\ \A v \in Vid : vehicles[v] # NoVehicle => netVeh[c][v] # NoVehicle

\* However soon a slot is taken again, a join finds no player in it, and once the
\* server has handled the packets of a slot its player is the client connected there.
SlotBelongsToLink ==
  \A p \in Pid :
    /\ Packets(p, {"InitialData"}) => players[p] = NoClient
    /\ inbox[p] = <<>> => players[p] = link[p]

\* No handler of a first session drops a player RPC: an AddPlayer finds the slot
\* empty, a SpawnPlayer or DeletePlayer finds the player it is about.
EveryPlayerRPCApplies ==
  \A p \in Pid \ early :
    link[p] # NoClient /\ down[p] # <<>> /\ sessions[link[p]] = 1 =>
      LET m == Head(down[p])
          e == net[link[p]][m.id]
      IN /\ m.type = "AddPlayer" => e.kind = "none"
         /\ m.type = "SpawnPlayer" => e.kind = "remote" /\ ~e.spawned
         /\ m.type = "DeletePlayer" => e.kind = "remote"

\* No player is told about itself: every player RPC on the way to slot p is
\* about another slot, so the local player is never added, spawned or deleted.
NoSelfTraffic ==
  \A p \in Pid : \A i \in 1 .. Len(down[p]) :
    down[p][i].type \in {"AddPlayer", "SpawnPlayer", "DeletePlayer"}
      => down[p][i].id # p

\* The comment "Clear the current local player (if any)" on the loop of
\* SetLocalPlayerId: afterwards one slot holds the local player.
OneLocalSlot ==
  \A c \in Client, p, q \in Pid :
    net[c][p].kind = "local" /\ net[c][q].kind = "local" => p = q
=============================================================================
