-------------------------- MODULE VehicleEnterExit --------------------------
(***************************************************************************)
(* Entering and leaving vehicles: the exchange between the client of the   *)
(* player, the server and the clients that show the player.                *)
(*                                                                         *)
(* Every client runs the state machine of CClientPlayer for its local      *)
(* player and for each remote one.  Its RPCs are RELIABILITY_RELIABLE: they*)
(* all arrive, in any order.  What the game does with a ped (the tasks of  *)
(* GTA IV) is the environment.  Players and vehicles exist throughout, and *)
(* peds are streamed in; Replication models how they come and go.          *)
(***************************************************************************)
EXTENDS Integers, FiniteSets

CONSTANTS
  Player,      \* players; the client of a player is the player itself
  Vehicle,     \* vehicles
  NoVehicle,   \* the NULL vehicle pointer
  NoPlayer,    \* the NULL player pointer
  MayDeny,     \* whether a script may deny a request
  MaxRequests, \* bound: requests made in a behaviour
  MaxOwnTasks  \* bound: vehicle tasks the game starts on its own

ASSUME VehicleEnterExitAssumption ==
  /\ NoVehicle \notin Vehicle
  /\ NoPlayer \notin Player
  /\ MayDeny \in BOOLEAN
  /\ MaxRequests \in Nat
  /\ MaxOwnTasks \in Nat

\* The driver and the first passenger: as no passenger is ever stored (see
\* SetOccupant), the first passenger seat is the only one GetClosestVehicle finds.
Seat == {0, 1}

\* m_vehicleEnterExit while bEntering holds: pVehicle and byteSeatId.
Entry == [veh : Vehicle, seat : Seat]
NotEntering == [veh |-> NoVehicle, seat |-> 0]

\* What a client keeps of a player: m_pVehicle, the entry under way, bExiting.
View == [veh : Vehicle \cup {NoVehicle}, entering : Entry \cup {NotEntering},
         exiting : BOOLEAN]
OnFoot == [veh |-> NoVehicle, entering |-> NotEntering, exiting |-> FALSE]

EntryMsg(type, e) == [type |-> type, veh |-> e.veh, seat |-> e.seat]
OtherMsg(type, v) == [type |-> type, veh |-> v]

UpMsg == [type : {"EntryRequest", "EntryComplete"}, veh : Vehicle, seat : Seat]
         \cup [type : {"EntryCancelled", "ExitRequest", "ExitComplete", "ExitForceful"},
               veh : Vehicle]

DownMsg == [type : {"EntryReturn"}, player : Player, entry : Entry]
           \cup [type : {"EntryCancelled", "ExitReturn"}, player : Player]

EntryReturnMsg(p, e) == [type |-> "EntryReturn", player |-> p, entry |-> e]
PlayerMsg(type, p)   == [type |-> type, player |-> p]

VARIABLES
  up,          \* how many RPCs of each kind are on their way from a client
  down,        \* and to a client
  view,        \* clients: the players as each client has them
  ped,         \* game: what the ped of a player does on each client
  requesting,  \* clients: the players with bRequesting set on their own client
  pVehicle,    \* server: CPlayer::m_pVehicle
  seatId,      \* server: CPlayer::m_byteVehicleSeatId
  driver,      \* server: CVehicle::m_pDriver
  granted,     \* history: entries the scripts allowed, as <<player, vehicle>>
  cancelled,   \* history: <<client, player>> whose last entry RPC was a cancellation
  requests,    \* requests made so far
  ownTasks     \* tasks the game has started on its own

clientVars == <<view, ped, requesting>>
serverVars == <<pVehicle, seatId, driver>>
vars == <<up, down, view, ped, requesting, pVehicle, seatId, driver, granted,
          cancelled, requests, ownTasks>>

-----------------------------------------------------------------------------
Init ==
  /\ up = [c \in Player |-> [m \in UpMsg |-> 0]]
  /\ down = [c \in Player |-> [m \in DownMsg |-> 0]]
  /\ view = [c \in Player |-> [p \in Player |-> OnFoot]]
  /\ ped = [c \in Player |-> [p \in Player |-> "foot"]]
  /\ requesting = {}
  /\ pVehicle = [p \in Player |-> NoVehicle]
  /\ seatId = [p \in Player |-> 0]
  /\ driver = [v \in Vehicle |-> NoPlayer]
  /\ granted = {}
  /\ cancelled = {}
  /\ requests = 0
  /\ ownTasks = 0

-----------------------------------------------------------------------------
(* The enter/exit key of the local player: CheckVehicleEntryExitKey *)

SendUp(c, m) == up' = [up EXCEPT ![c][m] = @ + 1]

MayRequest_NotRequesting(p) == requests < MaxRequests
MayRequest(p) == p \notin requesting /\ requests < MaxRequests

\* The request m is sent and bRequesting set.
MakeRequest(p, m) ==
  /\ MayRequest(p)
  /\ SendUp(p, m)
  /\ requesting' = requesting \cup {p}
  /\ requests' = requests + 1
  /\ UNCHANGED <<down, view, ped, serverVars, granted, cancelled, ownTasks>>

\* The key is released close to a vehicle.
RequestEntry(p, e) ==
  /\ view[p][p].veh = NoVehicle
  /\ view[p][p].entering = NotEntering
  /\ MakeRequest(p, EntryMsg("EntryRequest", e))

\* The key is pressed in a vehicle.
RequestExit(p) ==
  /\ view[p][p].veh # NoVehicle
  /\ ~view[p][p].exiting
  /\ MakeRequest(p, OtherMsg("ExitRequest", view[p][p].veh))

-----------------------------------------------------------------------------
(* The frames of a client: ProcessVehicleEntryExit of player p on client c.  *)
(* The local and the remote players run the same code and send their RPCs on *)
(* the one connection of the client.  A frame takes one of these branches.   *)

InVehicleInternally(c, p) == ped[c][p] \in {"in", "gettingOut"}

EntryComplete(c, p) ==
  LET e == view[c][p].entering
  IN /\ InVehicleInternally(c, p)
     /\ e # NotEntering
     /\ view' = [view EXCEPT ![c][p].veh = e.veh, ![c][p].entering = NotEntering]
     /\ SendUp(c, EntryMsg("EntryComplete", e))
     /\ UNCHANGED <<down, ped, requesting, serverVars, granted, cancelled, requests, ownTasks>>

\* The entry task is gone: the local player gives up.
EntryCancelled(p) ==
  LET e == view[p][p].entering
  IN /\ ped[p][p] = "foot"
     /\ e # NotEntering
     /\ view' = [view EXCEPT ![p][p].entering = NotEntering]
     /\ SendUp(p, OtherMsg("EntryCancelled", e.veh))
     /\ UNCHANGED <<down, ped, requesting, serverVars, granted, cancelled, requests, ownTasks>>

\* The entry task is gone: a remote player is made to enter again.
EntryRestarted(c, p) ==
  /\ c # p
  /\ ped[c][p] = "foot"
  /\ view[c][p].entering # NotEntering
  /\ view[c][p].veh = NoVehicle
  /\ ped' = [ped EXCEPT ![c][p] = "gettingIn"]
  /\ UNCHANGED <<up, down, view, requesting, serverVars, granted, cancelled, requests, ownTasks>>

\* An entry task nobody asked for is removed.
EntryRemoved(c, p) ==
  /\ ped[c][p] = "gettingIn"
  /\ view[c][p].entering = NotEntering
  /\ view[c][p].veh = NoVehicle
  /\ ped' = [ped EXCEPT ![c][p] = "foot"]
  /\ UNCHANGED <<up, down, view, requesting, serverVars, granted, cancelled, requests, ownTasks>>

\* Out of the vehicle m_pVehicle: the exit is complete when it was asked for,
\* forceful when it was not.  An entry task is removed in the same frame.
LeaveVehicle_KeepsExiting(c, p) ==
  /\ ~InVehicleInternally(c, p)
  /\ view[c][p].exiting \/ view[c][p].veh # NoVehicle
  /\ ped' = [ped EXCEPT ![c][p] = "foot"]
  /\ view' = [view EXCEPT ![c][p].veh = NoVehicle]
LeaveVehicle(c, p) ==
  /\ ~InVehicleInternally(c, p)
  /\ view[c][p].exiting \/ view[c][p].veh # NoVehicle
  /\ ped' = [ped EXCEPT ![c][p] = "foot"]
  /\ view' = [view EXCEPT ![c][p].veh = NoVehicle, ![c][p].exiting = FALSE]

ExitComplete(c, p) ==
  /\ LeaveVehicle(c, p)
  /\ SendUp(c, OtherMsg(IF view[c][p].exiting THEN "ExitComplete" ELSE "ExitForceful",
                        view[c][p].veh))
  /\ UNCHANGED <<down, requesting, serverVars, granted, cancelled, requests, ownTasks>>

-----------------------------------------------------------------------------
(* The game: a task ends or is aborted, a ped is thrown out, and the game     *)
(* starts tasks of its own.  A ped is out when its exit task ends.            *)

PedStep == {<<"gettingIn", "in">>, <<"gettingIn", "foot">>, <<"gettingOut", "foot">>,
            <<"in", "foot">>}
OwnTask == {<<"foot", "gettingIn">>, <<"in", "gettingOut">>}

PedMoves(c, p) ==
  \E step \in PedStep \cup OwnTask :
    /\ ped[c][p] = step[1]
    /\ step \in OwnTask => ownTasks < MaxOwnTasks
    /\ ped' = [ped EXCEPT ![c][p] = step[2]]
    /\ ownTasks' = IF step \in OwnTask THEN ownTasks + 1 ELSE ownTasks
    /\ UNCHANGED <<up, down, view, requesting, serverVars, granted, cancelled, requests>>

-----------------------------------------------------------------------------
(* CServerRPCHandler::VehicleEnterExit, one action for each type *)

Received(c, m) == up[c][m] > 0 /\ up' = [up EXCEPT ![c][m] = @ - 1]

Broadcast(T, m) ==
  down' = [c \in Player |-> IF c \in T THEN [down[c] EXCEPT ![m] = @ + 1] ELSE down[c]]

\* CVehicle::SetOccupant.  SetPassenger returns when the passenger id is below
\* MAX_VEHICLE_PASSENGERS, as every passenger id is.
SetOccupant(d, v, s, p) == IF s = 0 THEN [d EXCEPT ![v] = p] ELSE d

\* A request the script denies gets no reply.
ServerEntryRequest_IgnoresScript(p, e) ==
  /\ Received(p, EntryMsg("EntryRequest", e))
  /\ Broadcast(Player, EntryReturnMsg(p, e))
  /\ granted' = granted \cup {<<p, e.veh>>} \/ (MayDeny /\ UNCHANGED granted)
  /\ UNCHANGED <<clientVars, serverVars, cancelled, requests, ownTasks>>
ServerEntryRequest(p, e) ==
  /\ Received(p, EntryMsg("EntryRequest", e))
  /\ \/ /\ Broadcast(Player, EntryReturnMsg(p, e))
        /\ granted' = granted \cup {<<p, e.veh>>}
     \/ MayDeny /\ UNCHANGED <<down, granted>>
  /\ UNCHANGED <<clientVars, serverVars, cancelled, requests, ownTasks>>

ServerExitRequest(p, v) ==
  /\ Received(p, OtherMsg("ExitRequest", v))
  /\ Broadcast(Player, PlayerMsg("ExitReturn", p)) \/ (MayDeny /\ UNCHANGED down)
  /\ UNCHANGED <<clientVars, serverVars, granted, cancelled, requests, ownTasks>>

ServerEntryCancelled(p, v) ==
  /\ Received(p, OtherMsg("EntryCancelled", v))
  /\ Broadcast(Player \ {p}, PlayerMsg("EntryCancelled", p))
  /\ UNCHANGED <<clientVars, serverVars, granted, cancelled, requests, ownTasks>>

ServerEntryComplete(p, e) ==
  /\ Received(p, EntryMsg("EntryComplete", e))
  /\ pVehicle' = [pVehicle EXCEPT ![p] = e.veh]
  /\ seatId' = [seatId EXCEPT ![p] = e.seat]
  /\ driver' = SetOccupant(driver, e.veh, e.seat, p)
  /\ UNCHANGED <<down, clientVars, granted, cancelled, requests, ownTasks>>

\* Completed and forceful exits only differ in the event the scripts get.
ServerExit(p, v) ==
  /\ \E type \in {"ExitComplete", "ExitForceful"} : Received(p, OtherMsg(type, v))
  /\ driver' = SetOccupant(driver, v, seatId[p], NoPlayer)
  /\ pVehicle' = [pVehicle EXCEPT ![p] = NoVehicle]
  /\ seatId' = [seatId EXCEPT ![p] = 0]
  /\ UNCHANGED <<down, clientVars, granted, cancelled, requests, ownTasks>>

-----------------------------------------------------------------------------
(* CClientRPCHandler::VehicleEnterExit of client c, about player p *)

\* Every reply about the local player ends its request.
HandleReply_KeepsRequesting(c, p, m) ==
  /\ down[c][m] > 0
  /\ down' = [down EXCEPT ![c][m] = @ - 1]
  /\ UNCHANGED <<up, requesting, serverVars, granted, requests, ownTasks>>
HandleReply(c, p, m) ==
  /\ down[c][m] > 0
  /\ down' = [down EXCEPT ![c][m] = @ - 1]
  /\ requesting' = IF p = c THEN requesting \ {p} ELSE requesting
  /\ UNCHANGED <<up, serverVars, granted, requests, ownTasks>>

\* EnterVehicle does nothing for a player in a vehicle, nor for a remote player
\* when the vehicle is not streamed in.
EntryReturn(c, p, e) ==
  /\ HandleReply(c, p, EntryReturnMsg(p, e))
  /\ \/ /\ view[c][p].veh = NoVehicle
        /\ view' = [view EXCEPT ![c][p].entering = e]
        /\ ped' = [ped EXCEPT ![c][p] = "gettingIn"]
     \/ /\ view[c][p].veh # NoVehicle \/ p # c
        /\ UNCHANGED <<view, ped>>
  /\ cancelled' = cancelled \ {<<c, p>>}

\* ExitVehicle(false): the exit task starts; a player who is still entering
\* loses its entry task instead, but not the flag.
ExitReturn(c, p) ==
  /\ HandleReply(c, p, PlayerMsg("ExitReturn", p))
  /\ IF view[c][p].veh # NoVehicle
     THEN /\ view' = [view EXCEPT ![c][p].exiting = TRUE]
          /\ ped' = [ped EXCEPT ![c][p] = IF @ = "in" THEN "gettingOut" ELSE @]
     ELSE /\ ped' = [ped EXCEPT ![c][p] = IF @ = "gettingIn" THEN "foot" ELSE @]
          /\ UNCHANGED view
  /\ UNCHANGED cancelled

\* A player in a vehicle is warped out of it, the others lose their task.
EntryCancelledReply(c, p) ==
  /\ HandleReply(c, p, PlayerMsg("EntryCancelled", p))
  /\ IF view[c][p].veh # NoVehicle
     THEN /\ view' = [view EXCEPT ![c][p] = OnFoot]
          /\ ped' = [ped EXCEPT ![c][p] = "foot"]
     ELSE /\ ped' = [ped EXCEPT ![c][p] = IF @ = "gettingIn" THEN "foot" ELSE @]
          /\ UNCHANGED view
  /\ cancelled' = cancelled \cup {<<c, p>>}

-----------------------------------------------------------------------------
Next ==
  \/ \E p \in Player, e \in Entry :
       RequestEntry(p, e) \/ ServerEntryRequest(p, e) \/ ServerEntryComplete(p, e)
  \/ \E p \in Player : RequestExit(p) \/ EntryCancelled(p)
  \/ \E p \in Player, v \in Vehicle :
       ServerExitRequest(p, v) \/ ServerEntryCancelled(p, v) \/ ServerExit(p, v)
  \/ \E c, p \in Player :
       \/ EntryComplete(c, p) \/ EntryRestarted(c, p) \/ EntryRemoved(c, p)
       \/ ExitComplete(c, p) \/ PedMoves(c, p)
       \/ ExitReturn(c, p) \/ EntryCancelledReply(c, p)
  \/ \E c, p \in Player, e \in Entry : EntryReturn(c, p, e)

Spec == Init /\ [][Next]_vars

\* Reliable RPCs arrive while the connection lasts, and both main loops handle
\* what has arrived.  Nothing is assumed of players, scripts or the game.
Fairness ==
  \A c, p \in Player, e \in Entry, v \in Vehicle :
    /\ WF_vars(ServerEntryRequest(p, e)) /\ WF_vars(ServerExitRequest(p, v))
    /\ WF_vars(EntryReturn(c, p, e)) /\ WF_vars(ExitReturn(c, p))

FairSpec == Spec /\ Fairness

-----------------------------------------------------------------------------
(* Properties *)

\* Flags, pointers and messages hold what the code's types allow, and no RPC
\* names a NULL vehicle or a seat that does not exist.
TypeOK ==
  /\ up \in [Player -> [UpMsg -> Nat]]
  /\ down \in [Player -> [DownMsg -> Nat]]
  /\ view \in [Player -> [Player -> View]]
  /\ ped \in [Player -> [Player -> {"foot", "gettingIn", "in", "gettingOut"}]]
  /\ requesting \in SUBSET Player
  /\ pVehicle \in [Player -> Vehicle \cup {NoVehicle}]
  /\ seatId \in [Player -> Seat]
  /\ driver \in [Vehicle -> Player \cup {NoPlayer}]
  /\ granted \in SUBSET (Player \X Vehicle)
  /\ cancelled \in SUBSET (Player \X Player)
  /\ requests \in 0 .. MaxRequests
  /\ ownTasks \in 0 .. MaxOwnTasks

\* A player that is exiting is in a vehicle, which ProcessVehicleEntryExit
\* dereferences when the exit ends, and no player is entering one vehicle while
\* in another, so a frame completes, cancels or ends at most one of them.
PhasesExclusive ==
  \A c, p \in Player :
    /\ view[c][p].exiting => view[c][p].veh # NoVehicle
    /\ view[c][p].veh # NoVehicle => view[c][p].entering = NotEntering

\* Whatever the order of the replies, a client shows a player entering or in a
\* vehicle only when a script has allowed that player to enter that vehicle.
EntersOnlyGranted ==
  \A c, p \in Player :
    /\ view[c][p].veh # NoVehicle => <<p, view[c][p].veh>> \in granted
    /\ view[c][p].entering # NotEntering => <<p, view[c][p].entering.veh>> \in granted

\* The requests of p on their way to the server, and their replies on the way back.
Exchanges(p) ==
  {<<"up", m>> : m \in {n \in UpMsg : n.type \in {"EntryRequest", "ExitRequest"}
                                      /\ up[p][n] > 0}}
  \cup {<<"down", m>> : m \in {n \in DownMsg : n.type \in {"EntryReturn", "ExitReturn"}
                                      /\ n.player = p /\ down[p][n] > 0}}

\* bRequesting keeps the requests of a player apart: at most one is on its way
\* or being answered, and only while the flag is set.
OneExchange ==
  \A p \in Player :
    /\ Exchanges(p) # {} => p \in requesting
    /\ \A x, y \in Exchanges(p) : x = y
    /\ \A x \in Exchanges(p) :
         (IF x[1] = "up" THEN up[p][x[2]] ELSE down[p][x[2]]) = 1

\* A player that requests with nothing under way waits in vain, and makes no request any
\* more: that comes of a request that the server denies, and of nothing else.  Whatever
\* overtakes what, a permitted request stays under way until its reply clears the flag.
WaitsInVain(p) == p \in requesting /\ Exchanges(p) = {}
OnlyDeniedWait ==
  [][\A p \in Player : WaitsInVain(p)' /\ ~WaitsInVain(p) =>
       /\ down' = down
       /\ \E m \in UpMsg : m.type \in {"EntryRequest", "ExitRequest"} /\ up'[p][m] < up[p][m]]_vars

\* A request is answered: bRequesting is cleared again, so that the player can
\* enter and leave vehicles.
RequestAnswered == \A p \in Player : p \in requesting ~> p \notin requesting

\* "Set the player vehicle and seat id": the server has a player in a vehicle
\* only when that player was allowed to enter it.
RecordsOnlyGranted ==
  \A p \in Player : pVehicle[p] # NoVehicle => <<p, pVehicle[p]>> \in granted

\* "If they are already in the vehicle, remove them, if not cancel their vehicle
\* entry task": a player whose cancelled entry a client has handled is not in a
\* vehicle there, until it enters one again.
CancelledStaysOut ==
  \A c, p \in Player : <<c, p>> \in cancelled => view[c][p].veh = NoVehicle
=============================================================================
