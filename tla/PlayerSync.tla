----------------------------- MODULE PlayerSync -----------------------------
(***************************************************************************)
(* Synchronisation: ten times a second a client sends what its player does,*)
(* the server keeps it and tells the others.  Both ways are unreliable and *)
(* sequenced: packets may be lost, and one that is late is dropped.  Who is*)
(* in the slot goes to the viewer in reliable RPCs (Replication), and who  *)
(* sits where is found out by each side for itself (VehicleEnterExit), so  *)
(* that a sync may be about a player the reader has not got, about the last*)
(* one of the slot, or about one who sits elsewhere.                       *)
(*                                                                         *)
(* One slot with its players one after the other, and one client that sees *)
(* them.  What a sync holds are numbers of moves: the keys and the health, *)
(* the place on foot, and the place of the vehicle, as of that move.       *)
(***************************************************************************)
EXTENDS Integers, SequencesExt

CONSTANTS
  MaxMoves,    \* bound: moves, counted over all players of the slot
  MaxPlayers,  \* bound: players that are in the slot, one after the other
  MaxFlying,   \* bound: syncs under way on each way
  Seats        \* where players come to sit

ASSUME PlayerSyncAssumption ==
  /\ MaxMoves \in Nat /\ MaxPlayers \in Nat /\ MaxFlying \in Nat \ {0}
  /\ {"foot"} \subseteq Seats /\ Seats \subseteq {"foot", "driver", "passenger"}

VARIABLES
  link,    \* the player that is connected in the slot; 0 for none
  joins,   \* how many there have been
  moves,   \* what the player does: the number of the last move
  seat,    \* where each side takes the player to sit; "foot" where m_pVehicle is NULL
  player,  \* the server's CPlayer of the slot; 0 for none
  kept,    \* what the server has of it: keys, place, and the place of the vehicle
  entry,   \* the viewer's CClientPlayer of the slot; 0 for none
  shown,   \* what the viewer has of it
  up,      \* syncs on their way to the server, oldest first
  down,    \* syncs on their way to the viewer, oldest first
  news     \* AddPlayer and DeletePlayer (as 0) on their way to the viewer

clientVars == <<link, joins, moves>>
serverVars == <<player, kept>>
viewerVars == <<entry, shown>>
syncVars == <<clientVars, seat, serverVars, viewerVars, up, down, news>>

Sides == {"client", "server", "viewer"}
Nothing == [keys |-> 0, place |-> 0, car |-> 0]
Missing == -1

SyncInit ==
  /\ link = 0 /\ joins = 0 /\ moves = 0
  /\ seat = [s \in Sides |-> "foot"]
  /\ player = 0 /\ kept = Nothing
  /\ entry = 0 /\ shown = Nothing
  /\ up = <<>> /\ down = <<>> /\ news = <<>>

\* A new connection carries nothing of an earlier one.
Connect ==
  /\ link = 0 /\ player = 0 /\ joins < MaxPlayers /\ moves < MaxMoves
  /\ joins' = joins + 1 /\ link' = joins + 1
  /\ moves' = moves + 1
  /\ seat' = [seat EXCEPT !["client"] = "foot"]
  /\ up' = <<>>
  /\ UNCHANGED <<serverVars, viewerVars, down, news>>

\* InitialData: CPlayerManager::Add and HandlePlayerJoin.
Join ==
  /\ link # 0 /\ player = 0
  /\ player' = link /\ kept' = Nothing
  /\ seat' = [seat EXCEPT !["server"] = "foot"]
  /\ news' = Append(news, link)
  /\ UNCHANGED <<clientVars, viewerVars, up, down>>

\* Disconnected or LostConnection: CPlayerManager::Delete.
Leave ==
  /\ link # 0
  /\ link' = 0 /\ up' = <<>>
  /\ player' = 0 /\ kept' = Nothing
  /\ news' = IF player = 0 THEN news ELSE Append(news, 0)
  /\ UNCHANGED <<joins, moves, seat, viewerVars, down>>

\* The viewer's AddPlayer and DeletePlayer.
HandleNews ==
  /\ news # <<>>
  /\ entry' = Head(news) /\ shown' = Nothing
  /\ seat' = [seat EXCEPT !["viewer"] = "foot"]
  /\ news' = Tail(news)
  /\ UNCHANGED <<clientVars, serverVars, up, down>>

Move ==
  /\ link # 0 /\ moves < MaxMoves
  /\ moves' = moves + 1
  /\ UNCHANGED <<link, joins, seat, serverVars, viewerVars, up, down, news>>

\* Entering and leaving of vehicles reaches the sides in no order.
Sit(side, s) ==
  /\ seat[side] # s /\ (seat[side] = "foot" \/ s = "foot")
  /\ seat' = [seat EXCEPT ![side] = s]
  /\ UNCHANGED <<clientVars, serverVars, viewerVars, up, down, news>>
-----------------------------------------------------------------------------
\* CClientPlayer::Serialize; only the syncer, who is the driver, adds the vehicle.
ClientSync ==
  [keys   |-> moves,
   onFoot |-> seat["client"] = "foot",
   place  |-> IF seat["client"] = "foot" THEN moves ELSE Missing,
   car    |-> IF seat["client"] = "driver" THEN moves ELSE Missing]

\* CClientNetworkManager::ProcessSync, while the player is not dead.
Send ==
  /\ link # 0 /\ Len(up) < MaxFlying
  /\ up' = Append(up, ClientSync)
  /\ UNCHANGED <<clientVars, seat, serverVars, viewerVars, down, news>>

\* CPlayer::Deserialize.  Keys and health are taken before the check that fails.
Deserialize_ChecksFirst(sync) ==
  IF sync.onFoot # (seat["server"] = "foot") THEN kept
  ELSE [kept EXCEPT !.keys = sync.keys, !.place = IF sync.onFoot THEN sync.place ELSE @]
Deserialize(sync) ==
  [kept EXCEPT
     !.keys  = sync.keys,
     !.place = IF sync.onFoot /\ seat["server"] = "foot" THEN sync.place ELSE @,
     !.car   = IF ~sync.onFoot /\ seat["server"] = "driver" /\ sync.car # Missing THEN sync.car
               ELSE @]

\* CPlayer::Serialize returns before the part for a player in a vehicle.
Serialize(k) ==
  [keys   |-> k.keys,
   onFoot |-> seat["server"] = "foot",
   place  |-> IF seat["server"] = "foot" THEN k.place ELSE Missing,
   car    |-> Missing]

\* The syncs on a way that one which arrives leaves behind: those before it are dropped.
Later_Unsequenced(way, i) == RemoveAt(way, i)
Later(way, i) == SubSeq(way, i + 1, Len(way))

\* What the server sends on; it does so whether Deserialize has failed or not.
Forward_OnChange(k) == IF k = kept THEN <<>> ELSE <<Serialize(k)>>
Forward(k) == <<Serialize(k)>>

\* CServerRPCHandler::PlayerSync.
ServerSync(i) ==
  /\ up' = Later(up, i)
  /\ IF player = 0 THEN UNCHANGED <<kept, down>>
     ELSE LET k == Deserialize(up[i]) IN
          /\ Len(down) < MaxFlying
          /\ kept' = k
          /\ down' = down \o Forward(k)
  /\ UNCHANGED <<clientVars, seat, player, viewerVars, news>>

\* CClientPlayer::Deserialize at the viewer, of what the server sends.
Shown(sync) ==
  [shown EXCEPT
     !.keys  = sync.keys,
     !.place = IF sync.onFoot /\ seat["viewer"] = "foot" THEN sync.place ELSE @,
     !.car   = IF ~sync.onFoot /\ seat["viewer"] # "foot" /\ sync.car # Missing THEN sync.car
               ELSE @]

\* CClientRPCHandler::PlayerSync.
ViewerSync(i) ==
  /\ down' = Later(down, i)
  /\ shown' = IF entry = 0 THEN shown ELSE Shown(down[i])
  /\ UNCHANGED <<clientVars, seat, serverVars, entry, up, news>>

Lose ==
  /\ \/ \E i \in DOMAIN up : up' = RemoveAt(up, i) /\ UNCHANGED down
     \/ \E i \in DOMAIN down : down' = RemoveAt(down, i) /\ UNCHANGED up
  /\ UNCHANGED <<clientVars, seat, serverVars, viewerVars, news>>

ServerSyncs == \E i \in DOMAIN up : ServerSync(i)
ViewerSyncs == \E i \in DOMAIN down : ViewerSync(i)

SyncNext ==
  \/ Connect \/ Join \/ Leave \/ HandleNews \/ Move
  \/ \E side \in Sides, s \in Seats : Sit(side, s)
  \/ Send \/ ServerSyncs \/ ViewerSyncs \/ Lose

SyncSpec == SyncInit /\ [][SyncNext]_syncVars

\* The loops go on, reliable RPCs arrive, and of syncs that are sent again and again
\* some arrive.
SyncFairSpec ==
  /\ SyncSpec
  /\ WF_syncVars(Join) /\ WF_syncVars(HandleNews) /\ WF_syncVars(Send)
  /\ SF_syncVars(ServerSyncs) /\ SF_syncVars(ViewerSyncs)
-----------------------------------------------------------------------------
Before(a, b) == a.keys <= b.keys /\ a.place <= b.place

\* Neither the server nor the viewer goes back to what a player did before: of the
\* syncs of two hops none overtakes another, one that is late is not used, nor is one
\* of the last player of the slot once there was one of the new.  Only a new player
\* of whom the server has no place yet is put where every CPlayer begins.
NeverBack ==
  [][/\ player' = player => Before(kept, kept')
     /\ entry' = entry =>
          Before(shown, shown') \/ (shown.keys <= shown'.keys /\ shown'.place = Nothing.place)]_syncVars

\* When the sides agree that the player walks, the viewer comes to show him where he
\* is, whatever was lost, late, of another player or of another seat before.
Converges ==
  <>[](link # 0 /\ \A s \in Sides : seat[s] = "foot") => <>[](entry = link /\ shown.place = moves)

\* Keys and health get through while the sides disagree about where the player sits.
KeysConverge == <>[](link # 0) => <>[](shown.keys = moves)

\* A player who drives is shown where he drives: CPlayer::Serialize, "Serialize the
\* vehicle".  It does not hold, as that part of it is never reached.
DriverConverges ==
  <>[](link # 0 /\ \A s \in Sides : seat[s] = "driver") => <>[](shown.car = moves)

\* What the viewer shows of a player is his.  It does not hold: a sync of the last
\* player of the slot may come after the AddPlayer of the new one.
OwnPlace == player # 0 /\ entry = player => shown.place <= kept.place
=============================================================================
