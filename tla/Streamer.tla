------------------------------- MODULE Streamer -------------------------------
(***************************************************************************)
(* The streamer of a client: which of the remote players and vehicles the  *)
(* game has an object of, and what becomes of the pointers between players *)
(* and vehicles when objects come and go.                                  *)
(*                                                                         *)
(* Everything here runs in the main thread of one client: RPC handlers     *)
(* between frames, the frame of each player, and a pass of the streamer    *)
(* more than a second after the last.  The local player is never streamed; *)
(* it counts as the place from which distances are taken and as the holder *)
(* of game player number 0.  Dimensions are left out: nothing calls        *)
(* SetDimension.  A sync packet never puts a player in a vehicle, because  *)
(* CPlayer::Serialize returns before the vehicle part.                     *)
(***************************************************************************)
EXTENDS Integers, FiniteSets, SequencesExt

CONSTANTS
  Player,       \* remote players
  Vehicle,      \* vehicles
  None,         \* the NULL pointer
  Freed,        \* a pointer to an object that has been deleted
  PlayerLimit,  \* m_uiStreamingLimits[ENTITY_TYPE_PLAYER]
  VehicleLimit, \* m_uiStreamingLimits[ENTITY_TYPE_VEHICLE]
  Infos,        \* PLAYER_INFO_ARRAY_SIZE
  Distance,     \* bound: the distances from the local player
  Range200      \* GetStreamingDistance

ASSUME StreamerAssumption ==
  /\ Player \cap Vehicle = {}
  /\ None # Freed /\ {None, Freed} \cap (Player \cup Vehicle) = {}
  /\ PlayerLimit \in Nat /\ VehicleLimit \in Nat /\ Infos \in Nat
  /\ PlayerLimit < Infos
  /\ Distance \subseteq Nat /\ Range200 \in Nat

Entity == Player \cup Vehicle
Types == {"player", "vehicle"}
OfType(t) == IF t = "player" THEN Player ELSE Vehicle
Limit(t) == IF t = "player" THEN PlayerLimit ELSE VehicleLimit

Seat == {0, 1}
NoNumber == Infos    \* INVALID_PLAYER_PED

VARIABLES
  entities,   \* CStreamer, the list of all entities
  streamed,   \* CStreamer::m_streamedElements
  permitted,  \* the entities with m_bCanBeStreamedIn
  at,         \* how far each of them is from the local player
  w,          \* the entities, see World
  careless    \* history: the server deleted an object the client still uses

vars == <<entities, streamed, permitted, at, w, careless>>

\* What streaming changes in the entities.
World ==
  [isIn : SUBSET Entity,                         \* m_bIsStreamedIn
   refused : SUBSET Player,                      \* players the game gives no ped
   number : [Player -> 1..Infos],                \* m_byteInternalPlayerNumber
   cars : SUBSET Vehicle,                        \* vehicles with a game vehicle
   veh : [Player -> Vehicle \cup {None, Freed}], \* m_pVehicle
   seat : [Player -> Seat],                      \* m_byteVehicleSeatId
   entering : [Player -> Vehicle \cup {None, Freed}], \* m_vehicleEnterExit.pVehicle
   entrySeat : [Player -> Seat],                 \* m_vehicleEnterExit.byteSeatId
   driver : [Vehicle -> Player \cup {None, Freed}], \* m_pDriver
   rides : [Player -> Vehicle \cup {None}],      \* the game vehicle its ped sits in
   fault : BOOLEAN]                              \* a freed object has been used

Init ==
  /\ entities = <<>>
  /\ streamed = [t \in Types |-> <<>>]
  /\ permitted = {}
  /\ at = <<>>
  /\ w = [isIn |-> {}, refused |-> {}, number |-> [p \in Player |-> NoNumber], cars |-> {},
          veh |-> [p \in Player |-> None], seat |-> [p \in Player |-> 0],
          entering |-> [p \in Player |-> None], entrySeat |-> [p \in Player |-> 0],
          driver |-> [v \in Vehicle |-> None], rides |-> [p \in Player |-> None],
          fault |-> FALSE]
  /\ careless = FALSE

Exists(e) == e \in ToSet(entities)
Spawned(u, p) == u.number[p] # NoNumber
Fault(u) == [u EXCEPT !.fault = TRUE]

-----------------------------------------------------------------------------
(* CClientPlayer and CClientVehicle, on the world u *)

\* CClientVehicle::SetOccupant.  SetPassenger returns for every passenger id.
SetOccupant(d, v, s, p) == IF s = 0 THEN [d EXCEPT ![v] = p] ELSE d

\* ExitVehicle(true).  The seat it empties is that of the last entry.
WarpOut(u, p) ==
  IF ~Spawned(u, p) \/ u.veh[p] = None THEN u
  ELSE IF u.veh[p] = Freed THEN Fault(u)
  ELSE [u EXCEPT !.driver = SetOccupant(@, u.veh[p], u.entrySeat[p], None),
                 !.veh[p] = None, !.seat[p] = 0,
                 !.entering[p] = None, !.entrySeat[p] = 0,
                 !.rides[p] = None]

\* PutInVehicle of a remote player.
PutIn(u, p, v, s) ==
  IF ~Spawned(u, p) \/ v \notin u.cars THEN u
  ELSE LET x == WarpOut(u, p)
       IN [x EXCEPT !.entering[p] = None, !.entrySeat[p] = 0,
                    !.veh[p] = v, !.seat[p] = s, !.rides[p] = v,
                    !.driver = SetOccupant(@, v, s, p)]

\* CPools::FindFreePlayerInfoIndex; the local player holds number 0.
FreeNumbers(u) == (1..Infos - 1) \ {u.number[p] : p \in Player}
FirstFree(u) == CHOOSE n \in FreeNumbers(u) : \A m \in FreeNumbers(u) : n <= m

\* CClientPlayer::Create returns false: no number is free, or the game makes no ped.
CreateFails(u, p) == FreeNumbers(u) = {} \/ p \in u.refused

\* CClientPlayer::StreamIn: the ped, and its place in the vehicle if it has one.  When
\* Create fails the entity stays flagged and listed all the same.
PlayerIn(u, p) ==
  IF CreateFails(u, p) THEN u
  ELSE LET x == [u EXCEPT !.number[p] = FirstFree(u)]
       IN CASE x.veh[p] = None  -> x
            [] x.veh[p] = Freed -> Fault(x)
            [] OTHER            -> PutIn(x, p, x.veh[p], x.seat[p])

\* CClientPlayer::Destroy: m_pVehicle and the occupant of the vehicle stay.
PlayerOut(u, p) == [u EXCEPT !.number[p] = NoNumber, !.rides[p] = None]

\* CClientVehicle::Destroy: the driver is warped out, there are no passengers, and the
\* game vehicle goes.
Driverless(u, v) ==
  CASE u.driver[v] = None  -> u
    [] u.driver[v] = Freed -> Fault(u)
    [] OTHER               -> WarpOut(u, u.driver[v])
WithoutCar(u, v) ==
  [u EXCEPT !.cars = @ \ {v}, !.rides = [p \in Player |-> IF @[p] = v THEN None ELSE @[p]]]

VehicleOut_KeepsDriver(u, v) == WithoutCar(u, v)
VehicleOut(u, v) == WithoutCar(Driverless(u, v), v)

\* StreamInInternal and StreamOutInternal.
StreamIn(u, e) ==
  IF e \in u.isIn THEN u
  ELSE LET x == [u EXCEPT !.isIn = @ \cup {e}]
       IN IF e \in Player THEN PlayerIn(x, e) ELSE [x EXCEPT !.cars = @ \cup {e}]

StreamOut(u, e) ==
  IF e \notin u.isIn THEN u
  ELSE LET x == IF e \in Player THEN PlayerOut(u, e) ELSE VehicleOut(u, e)
       IN [x EXCEPT !.isIn = @ \ {e}, !.refused = @ \ {e}]

-----------------------------------------------------------------------------
(* CStreamer::Process *)

InReach(e) == e \in permitted /\ at[e] <= Range200

\* The elements of S in list s, in its order: list::remove of the others.
Only(s, S) == FoldLeft(LAMBDA t, e : IF e \in S THEN Append(t, e) ELSE t, <<>>, s)

\* What the loop over all entities finds: those to stream out, those of type t that may
\* be streamed in, and what it leaves of the list of type t.
Leaving == {e \in w.isIn : ~InReach(e)}
Fresh(t) == Only(entities, {e \in OfType(t) \ w.isIn : InReach(e)})
Staying(t) == Only(streamed[t], Entity \ Leaving)

\* list::sort, which is stable, with SortStreamableEntites.
ByDistance(s) ==
  LET Before(i, j) == at[s[i]] < at[s[j]] \/ (at[s[i]] = at[s[j]] /\ i < j)
      Place(i) == Cardinality({j \in DOMAIN s : Before(j, i)}) + 1
  IN [n \in DOMAIN s |-> s[CHOOSE i \in DOMAIN s : Place(i) = n]]

Candidates_Unsorted(list, fresh) == list \o fresh
Candidates(list, fresh) == ByDistance(list \o fresh)

Overflows_AboveByOne(n, t) == n > Limit(t) + 1
Overflows(n, t) == n > Limit(t)

\* What a pass does for type t with the entities that are not streamed in yet:
\* all of them when they fit; otherwise the furthest are dropped, from the end.
Admit(u, t, list, fresh) ==
  IF fresh = <<>> THEN [world |-> u, list |-> list]
  ELSE IF ~Overflows(Len(list) + Len(fresh), t)
  THEN [world |-> FoldLeft(StreamIn, u, fresh), list |-> list \o fresh]
  ELSE LET sorted  == Candidates(list, fresh)
           kept    == SubSeq(sorted, 1, Limit(t))
           dropped == Reverse(SubSeq(sorted, Limit(t) + 1, Len(sorted)))
       IN [world |-> FoldLeft(StreamIn, FoldLeft(StreamOut, u, dropped), kept), list |-> kept]

Running == ~w.fault

\* Of the players that come in, the game refuses those of S a ped.
PassRefusing(S) ==
  LET start    == [w EXCEPT !.refused = @ \cup S]
      left     == FoldLeft(StreamOut, start, Only(entities, Leaving))
      players  == Admit(left, "player", Staying("player"), Fresh("player"))
      vehicles == Admit(players.world, "vehicle", Staying("vehicle"), Fresh("vehicle"))
  IN /\ Running
     /\ UNCHANGED <<entities, permitted, at, careless>>
     /\ w' = vehicles.world /\ S \subseteq w'.isIn
     /\ streamed' = [t \in Types |-> IF t = "player" THEN players.list ELSE vehicles.list]

Pass == \E S \in SUBSET ToSet(Fresh("player")) : PassRefusing(S)

-----------------------------------------------------------------------------
(* The RPC handlers that create, permit and delete *)

\* The constructor of CStreamableEntity; where the entity is comes with it.
Create(e) ==
  /\ Running
  /\ ~Exists(e)
  /\ entities' = Append(entities, e)
  /\ \E d \in Distance : at' = [x \in ToSet(entities') |-> IF x = e THEN d ELSE at[x]]
  /\ UNCHANGED <<streamed, w, careless>>

AddPlayer(p) == Create(p) /\ UNCHANGED permitted

SpawnPlayer(p) ==
  /\ Running /\ Exists(p)
  /\ permitted' = permitted \cup {p}
  /\ UNCHANGED <<entities, streamed, at, w, careless>>

SpawnVehicle(v) == Create(v) /\ permitted' = permitted \cup {v}

\* The members of a deleted object go with it; pointers to it point to freed memory.
Deleted(u, e) ==
  LET Gone(x) == IF x = e THEN Freed ELSE x
      Pointer(p, x) == IF p = e THEN None ELSE Gone(x)
      Seats(f) == [p \in Player |-> IF p = e THEN 0 ELSE f[p]]
  IN [u EXCEPT !.veh = [p \in Player |-> Pointer(p, @[p])],
               !.entering = [p \in Player |-> Pointer(p, @[p])],
               !.driver = [v \in Vehicle |-> Pointer(v, @[v])],
               !.seat = Seats(@), !.entrySeat = Seats(@)]

\* CStreamer::remove, called by OnDelete in the destructor.
RemoveEntity(e) ==
  /\ entities' = Only(entities, Entity \ {e})
  /\ streamed' = [t \in Types |-> Only(streamed[t], Entity \ {e})]
  /\ permitted' = permitted \ {e}
  /\ at' = Restrict(at, DOMAIN at \ {e})
  /\ w' = Deleted(StreamOut(w, e), e)

\* Nothing clears the occupant of the vehicle a deleted player drove, and only
\* a driver with a ped is taken out of a vehicle that is deleted.
DrivenBy(p) == \E v \in Vehicle : w.driver[v] = p
TakenOut(p, v) == v \in w.cars /\ w.driver[v] = p /\ Spawned(w, p)
UsedVehicle(v) ==
  \E p \in Player : (w.veh[p] = v \/ w.entering[p] = v) /\ ~(w.veh[p] = v /\ TakenOut(p, v))

DeletePlayer(p) ==
  /\ Running /\ Exists(p)
  /\ RemoveEntity(p)
  /\ careless' = (careless \/ DrivenBy(p))

DestroyVehicle(v) ==
  /\ Running /\ Exists(v)
  /\ RemoveEntity(v)
  /\ careless' = (careless \/ UsedVehicle(v))

-----------------------------------------------------------------------------
(* Entering and leaving, as VehicleEnterExit has it, for the remote players *)

Changes(u) ==
  /\ Running
  /\ w' = u
  /\ UNCHANGED <<entities, streamed, permitted, at, careless>>

\* The entry reply: EnterVehicle.
EnterVehicle(p, v, s) ==
  /\ Exists(p) /\ Exists(v) /\ Spawned(w, p) /\ v \in w.cars
  /\ w.veh[p] = None
  /\ Changes([w EXCEPT !.entering[p] = v, !.entrySeat[p] = s])

\* The entry is cancelled for a player who is in the vehicle already.
EntryCancelled(p) ==
  /\ Exists(p) /\ w.veh[p] # None
  /\ Changes(WarpOut(w, p))

\* A frame of p in its vehicle: the entry is complete.
EntryComplete(p) ==
  /\ Exists(p) /\ Spawned(w, p) /\ w.rides[p] # None
  /\ w.entering[p] # None
  /\ Changes(IF w.entering[p] = Freed THEN Fault(w)
             ELSE [w EXCEPT !.veh[p] = w.entering[p], !.seat[p] = w.entrySeat[p],
                            !.entering[p] = None,
                            !.driver = SetOccupant(@, w.entering[p], w.entrySeat[p], p)])

\* A frame of p out of its vehicle: an entry without a task is started again,
\* which looks at the vehicle, or the player has left it.
EntryRestarted(p) ==
  /\ Exists(p) /\ Spawned(w, p) /\ w.rides[p] = None
  /\ w.entering[p] = Freed
  /\ Changes(Fault(w))

LeaveVehicle(p) ==
  /\ Exists(p) /\ Spawned(w, p) /\ w.rides[p] = None
  /\ w.veh[p] # None
  /\ Changes(IF w.veh[p] = Freed THEN Fault(w)
             ELSE [w EXCEPT !.veh[p] = None, !.seat[p] = 0,
                            !.driver = SetOccupant(@, w.veh[p], w.seat[p], None)])

\* The game: a ped gets in or out, and everything moves.
PedMoves(p) ==
  /\ Exists(p) /\ Spawned(w, p)
  /\ \/ /\ w.rides[p] = None /\ w.entering[p] \in w.cars
        /\ Changes([w EXCEPT !.rides[p] = w.entering[p]])
     \/ /\ w.rides[p] # None
        /\ Changes([w EXCEPT !.rides[p] = None])

Moves(e) ==
  /\ Running /\ Exists(e)
  /\ at' \in {[at EXCEPT ![e] = d] : d \in Distance}
  /\ UNCHANGED <<entities, streamed, permitted, w, careless>>

-----------------------------------------------------------------------------
Next ==
  \/ Pass
  \/ \E p \in Player :
       \/ AddPlayer(p) \/ SpawnPlayer(p) \/ DeletePlayer(p)
       \/ EntryCancelled(p) \/ EntryComplete(p) \/ EntryRestarted(p) \/ LeaveVehicle(p)
       \/ PedMoves(p)
  \/ \E v \in Vehicle : SpawnVehicle(v) \/ DestroyVehicle(v)
  \/ \E p \in Player, v \in Vehicle, s \in Seat : EnterVehicle(p, v, s)
  \/ \E e \in Entity : Moves(e)

Spec == Init /\ [][Next]_vars

-----------------------------------------------------------------------------
(* Properties *)

\* The lists hold entities, and the members of each stay in their ranges.
TypeOK ==
  /\ entities \in Seq(Entity)
  /\ streamed \in [Types -> Seq(Entity)]
  /\ permitted \subseteq ToSet(entities)
  /\ at \in [ToSet(entities) -> Distance]
  /\ w \in World
  /\ careless \in BOOLEAN

\* The flag of an entity and the list of its type say the same: each entity
\* that is streamed in exists and is in the list once, and nothing else is.
StreamedOnce ==
  \A t \in Types :
    /\ ToSet(streamed[t]) = w.isIn \cap OfType(t)
    /\ Cardinality(ToSet(streamed[t])) = Len(streamed[t])
    /\ ToSet(streamed[t]) \subseteq ToSet(entities)

\* The game's tables suffice: no more is streamed in than the limits say, and
\* each player and vehicle that is streamed in has its game object, the players
\* under numbers of their own, but for the players the game refused a ped.  Those
\* stay flagged without one, and hold no number.
NumbersSuffice ==
  /\ \A t \in Types : Len(streamed[t]) <= Limit(t)
  /\ w.cars = w.isIn \cap Vehicle
  /\ \A p \in Player : Spawned(w, p) <=> p \in w.isIn \ w.refused
  /\ \A p, q \in (w.isIn \ w.refused) \cap Player : p # q => w.number[p] # w.number[q]

\* The streamer's lists, the flags of the entities and the game's tables agree,
\* whatever comes, goes and moves between two passes (CStreamer, CStreamableEntity).
StreamerConsistent == TypeOK /\ StreamedOnce /\ NumbersSuffice

\* As long as the server deletes no player that drives and no vehicle somebody
\* else than its driver still points at, no pointer between players and
\* vehicles dangles, whatever is streamed in and out meanwhile.
PointersLive ==
  careless \/ ( /\ ~w.fault
                /\ \A p \in Player : Exists(p) => w.veh[p] # Freed /\ w.entering[p] # Freed
                /\ \A v \in Vehicle : Exists(v) => w.driver[v] # Freed )

\* A pass leaves the closest entities in reach streamed in, as many as the
\* game can have of each type.
ClosestIn ==
  [][Pass => \A t \in Types :
       LET near == {e \in OfType(t) \cap ToSet(entities) : InReach(e)}
           list == ToSet(streamed'[t])
       IN /\ list \subseteq near
          /\ Len(streamed'[t]) = IF Cardinality(near) < Limit(t) THEN Cardinality(near)
                                 ELSE Limit(t)
          /\ \A e \in list, f \in near \ list : at[e] <= at[f]]_vars

\* "Reset the vehicle occupant for our seat" (src/Client/Core/CClientPlayer.cpp:1059):
\* a vehicle loses its driver only when a player on the driver's seat leaves it.
OwnSeatOnly ==
  [][\A v \in Vehicle :
       w.driver[v] \in Player /\ w'.driver[v] = None /\ Exists(v)' =>
         \E p \in Player : w.veh[p] = v /\ w.seat[p] = 0 /\ w'.veh[p] # v]_vars
=============================================================================
