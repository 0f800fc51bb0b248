----------------------- MODULE VehicleEnterExit_proofs -----------------------
(***************************************************************************)
(* Proofs about VehicleEnterExit: whatever the order in which the reliable *)
(* RPCs arrive and however the game's tasks end, the phases of a player    *)
(* stay apart, nobody is shown in a vehicle without permission, and the    *)
(* requests of a player do not overlap.                                    *)
(***************************************************************************)
EXTENDS VehicleEnterExit, TLAPS

-----------------------------------------------------------------------------
(* Messages *)

\* Every RPC the code builds is one its receiver knows.
LEMMA UpMessages ==
  ASSUME NEW e \in Entry, NEW v \in Vehicle
  PROVE  /\ EntryMsg("EntryRequest", e) \in UpMsg
         /\ EntryMsg("EntryComplete", e) \in UpMsg
         /\ OtherMsg("EntryCancelled", v) \in UpMsg
         /\ OtherMsg("ExitRequest", v) \in UpMsg
         /\ OtherMsg("ExitComplete", v) \in UpMsg
         /\ OtherMsg("ExitForceful", v) \in UpMsg
  BY DEF Entry, EntryMsg, OtherMsg, UpMsg

\* What the server sends are messages to clients.
LEMMA DownMessages ==
  ASSUME NEW p \in Player, NEW e \in Entry
  PROVE  /\ EntryReturnMsg(p, e) \in DownMsg
         /\ PlayerMsg("EntryCancelled", p) \in DownMsg
         /\ PlayerMsg("ExitReturn", p) \in DownMsg
  BY DEF EntryReturnMsg, PlayerMsg, DownMsg

\* An RPC that is sent, handled or multicast changes the count of that RPC and
\* no other.
LEMMA SendUpCounts ==
  ASSUME TypeOK, NEW c \in Player, NEW m \in UpMsg, SendUp(c, m)
  PROVE  /\ up' \in [Player -> [UpMsg -> Nat]]
         /\ \A d \in Player, n \in UpMsg :
              up'[d][n] = IF d = c /\ n = m THEN up[d][n] + 1 ELSE up[d][n]
  BY DEF TypeOK, SendUp

\* One copy less is under way once it is received.
LEMMA ReceivedCounts ==
  ASSUME TypeOK, NEW c \in Player, NEW m \in UpMsg, Received(c, m)
  PROVE  /\ up[c][m] > 0
         /\ up' \in [Player -> [UpMsg -> Nat]]
         /\ \A d \in Player, n \in UpMsg :
              up'[d][n] = IF d = c /\ n = m THEN up[d][n] - 1 ELSE up[d][n]
  BY DEF TypeOK, Received

\* One copy more is under way to each that is sent one.
LEMMA BroadcastCounts ==
  ASSUME TypeOK, NEW T \in SUBSET Player, NEW m \in DownMsg, Broadcast(T, m)
  PROVE  /\ down' \in [Player -> [DownMsg -> Nat]]
         /\ \A d \in Player, n \in DownMsg :
              down'[d][n] = IF d \in T /\ n = m THEN down[d][n] + 1 ELSE down[d][n]
  BY DEF TypeOK, Broadcast

\* One reply less is under way once it is handled.
LEMMA HandleReplyCounts ==
  ASSUME TypeOK, NEW c \in Player, NEW p \in Player, NEW m \in DownMsg,
         HandleReply(c, p, m)
  PROVE  /\ down[c][m] > 0
         /\ down' \in [Player -> [DownMsg -> Nat]]
         /\ \A d \in Player, n \in DownMsg :
              down'[d][n] = IF d = c /\ n = m THEN down[d][n] - 1 ELSE down[d][n]
         /\ requesting' = IF p = c THEN requesting \ {p} ELSE requesting
         /\ UNCHANGED <<up, serverVars, granted, requests, ownTasks>>
  BY DEF TypeOK, HandleReply

-----------------------------------------------------------------------------
(* Views *)

\* A view that keeps its three parts apart: what PhasesExclusive says of one.
Exclusive(w) ==
  /\ w.exiting => w.veh # NoVehicle
  /\ w.veh # NoVehicle => w.entering = NotEntering

\* A view that shows only what the set of grants g allows player p.
Allowed(p, w, g) ==
  /\ w.veh # NoVehicle => <<p, w.veh>> \in g
  /\ w.entering # NotEntering => <<p, w.entering.veh>> \in g

\* A player who is entering enters some vehicle, which becomes its vehicle.
LEMMA ViewTypes ==
  ASSUME NEW w \in View, w.entering # NotEntering
  PROVE  /\ w.entering \in Entry
         /\ [w EXCEPT !.veh = w.entering.veh, !.entering = NotEntering] \in View
  BY DEF View, Entry

\* The step replaces the view that client c has of player p by w.
ViewBecomes(c, p, w) ==
  /\ w \in View
  /\ view' \in [Player -> [Player -> View]]
  /\ \A d, q \in Player :
       view'[d][q] = IF d = c /\ q = p THEN w ELSE view[d][q]

\* The form all of them have, whatever w is.
LEMMA ViewReplaced ==
  ASSUME view \in [Player -> [Player -> View]],
         NEW c \in Player, NEW p \in Player, NEW w \in View,
         view' = [view EXCEPT ![c] = [view[c] EXCEPT ![p] = w]]
  PROVE  ViewBecomes(c, p, w)
  BY DEF ViewBecomes

\* The views themselves have their type.
LEMMA ViewType ==
  ASSUME TypeOK, NEW c \in Player, NEW p \in Player
  PROVE  view \in [Player -> [Player -> View]] /\ view[c][p] \in View
  BY DEF TypeOK

\* The view each action of a client leaves behind.
LEMMA EntryCompleteView ==
  ASSUME TypeOK, NEW c \in Player, NEW p \in Player, EntryComplete(c, p)
  PROVE  ViewBecomes(c, p, [view[c][p] EXCEPT !.veh = view[c][p].entering.veh,
                                              !.entering = NotEntering])
<1>1. view \in [Player -> [Player -> View]] /\ view[c][p] \in View
  BY ViewType
<1>2. view[c][p].entering # NotEntering
  BY DEF EntryComplete
<1>3. [view[c][p] EXCEPT !.veh = view[c][p].entering.veh, !.entering = NotEntering]
        \in View
  BY <1>1, <1>2, ViewTypes
<1>4. view' = [view EXCEPT ![c] = [view[c] EXCEPT ![p] =
                 [view[c][p] EXCEPT !.veh = view[c][p].entering.veh,
                                    !.entering = NotEntering]]]
  BY <1>1 DEF EntryComplete
<1> QED
  BY <1>1, <1>3, <1>4, ViewReplaced

\* What a cancelled entry does to the views.
LEMMA EntryCancelledView ==
  ASSUME TypeOK, NEW p \in Player, EntryCancelled(p)
  PROVE  ViewBecomes(p, p, [view[p][p] EXCEPT !.entering = NotEntering])
<1>1. view \in [Player -> [Player -> View]] /\ view[p][p] \in View
  BY ViewType
<1>2. [view[p][p] EXCEPT !.entering = NotEntering] \in View
  BY <1>1 DEF View
<1>3. view' = [view EXCEPT ![p] = [view[p] EXCEPT ![p] =
                 [view[p][p] EXCEPT !.entering = NotEntering]]]
  BY <1>1 DEF EntryCancelled
<1> QED
  BY <1>1, <1>2, <1>3, ViewReplaced

\* What leaving does to the views.
LEMMA LeaveVehicleView ==
  ASSUME TypeOK, NEW c \in Player, NEW p \in Player, LeaveVehicle(c, p)
  PROVE  ViewBecomes(c, p, [view[c][p] EXCEPT !.veh = NoVehicle, !.exiting = FALSE])
<1>1. view \in [Player -> [Player -> View]] /\ view[c][p] \in View
  BY ViewType
<1>2. [view[c][p] EXCEPT !.veh = NoVehicle, !.exiting = FALSE] \in View
  BY <1>1 DEF View
<1>3. view' = [view EXCEPT ![c] = [view[c] EXCEPT ![p] =
                 [view[c][p] EXCEPT !.veh = NoVehicle, !.exiting = FALSE]]]
  BY <1>1 DEF LeaveVehicle
<1> QED
  BY <1>1, <1>2, <1>3, ViewReplaced

\* What the reply to an entry does to the views.
LEMMA EntryReturnView ==
  ASSUME TypeOK, NEW c \in Player, NEW p \in Player, NEW e \in Entry,
         EntryReturn(c, p, e)
  PROVE  \/ /\ view[c][p].veh = NoVehicle
            /\ ViewBecomes(c, p, [view[c][p] EXCEPT !.entering = e])
         \/ UNCHANGED view
<1>1. view \in [Player -> [Player -> View]] /\ view[c][p] \in View
  BY ViewType
<1>2. [view[c][p] EXCEPT !.entering = e] \in View
  BY <1>1 DEF View
<1>3. \/ /\ view[c][p].veh = NoVehicle
         /\ view' = [view EXCEPT ![c] = [view[c] EXCEPT ![p] =
                       [view[c][p] EXCEPT !.entering = e]]]
      \/ UNCHANGED view
  BY <1>1 DEF EntryReturn
<1> QED
  BY <1>1, <1>2, <1>3, ViewReplaced

\* What the reply to an exit does to the views.
LEMMA ExitReturnView ==
  ASSUME TypeOK, NEW c \in Player, NEW p \in Player, ExitReturn(c, p)
  PROVE  \/ /\ view[c][p].veh # NoVehicle
            /\ ViewBecomes(c, p, [view[c][p] EXCEPT !.exiting = TRUE])
         \/ UNCHANGED view
<1>1. view \in [Player -> [Player -> View]] /\ view[c][p] \in View
  BY ViewType
<1>2. [view[c][p] EXCEPT !.exiting = TRUE] \in View
  BY <1>1 DEF View
<1>3. \/ /\ view[c][p].veh # NoVehicle
         /\ view' = [view EXCEPT ![c] = [view[c] EXCEPT ![p] =
                       [view[c][p] EXCEPT !.exiting = TRUE]]]
      \/ UNCHANGED view
  BY <1>1 DEF ExitReturn
<1> QED
  BY <1>1, <1>2, <1>3, ViewReplaced

\* What the cancellation of another does to the views.
LEMMA EntryCancelledReplyView ==
  ASSUME TypeOK, NEW c \in Player, NEW p \in Player, EntryCancelledReply(c, p)
  PROVE  ViewBecomes(c, p, OnFoot) \/ UNCHANGED view
<1>1. view \in [Player -> [Player -> View]]
  BY ViewType
<1>2. OnFoot \in View
  BY DEF View, OnFoot
<1>3. view' = [view EXCEPT ![c] = [view[c] EXCEPT ![p] = OnFoot]] \/ UNCHANGED view
  BY <1>1 DEF EntryCancelledReply
<1> QED
  BY <1>1, <1>2, <1>3, ViewReplaced

-----------------------------------------------------------------------------
(* Type correctness *)

\* What a step does to a ped of the game is a state of a ped again.
LEMMA PedTypes ==
  ASSUME TypeOK, NEW c \in Player, NEW p \in Player,
         NEW s \in {"foot", "gettingIn", "in", "gettingOut"},
         ped' = [ped EXCEPT ![c][p] = s] \/ UNCHANGED ped
  PROVE  ped' \in [Player -> [Player -> {"foot", "gettingIn", "in", "gettingOut"}]]
<1>1. ped \in [Player -> [Player -> {"foot", "gettingIn", "in", "gettingOut"}]]
  BY DEF TypeOK
<1> QED BY <1>1

\* The actions of one player's client that send a request.
LEMMA RequestTypes ==
  ASSUME TypeOK, NEW p \in Player, NEW m \in UpMsg, MakeRequest(p, m)
  PROVE  TypeOK'
<1>1. up' \in [Player -> [UpMsg -> Nat]]
  BY SendUpCounts DEF MakeRequest
<1>2. requesting' \in SUBSET Player /\ requests' \in 0 .. MaxRequests
  BY VehicleEnterExitAssumption DEF MakeRequest, MayRequest, TypeOK
<1>3. UNCHANGED <<down, view, ped, pVehicle, seatId, driver, granted, cancelled, ownTasks>>
  BY DEF MakeRequest, serverVars
<1> QED
  BY <1>1, <1>2, <1>3 DEF TypeOK

\* The server takes an RPC of a client: what it does to its own tables and sends.
LEMMA ServerTypes ==
  ASSUME TypeOK, NEW p \in Player, NEW e \in Entry, NEW v \in Vehicle,
         \/ ServerEntryRequest(p, e) \/ ServerEntryComplete(p, e)
         \/ ServerExitRequest(p, v) \/ ServerEntryCancelled(p, v) \/ ServerExit(p, v)
  PROVE  TypeOK'
<1> DEFINE Out == down' \in [Player -> [DownMsg -> Nat]]
           In == up' \in [Player -> [UpMsg -> Nat]]
<1>1. /\ EntryMsg("EntryRequest", e) \in UpMsg
      /\ EntryMsg("EntryComplete", e) \in UpMsg
      /\ \A type \in {"EntryCancelled", "ExitRequest", "ExitComplete", "ExitForceful"} :
           OtherMsg(type, v) \in UpMsg
  BY UpMessages
<1>2. /\ EntryReturnMsg(p, e) \in DownMsg
      /\ PlayerMsg("EntryCancelled", p) \in DownMsg
      /\ PlayerMsg("ExitReturn", p) \in DownMsg
  BY DownMessages
<1>3. /\ e.veh \in Vehicle /\ e.seat \in Seat
      /\ 0 \in Seat
  BY DEF Entry, Seat
<1>4. down \in [Player -> [DownMsg -> Nat]]
  BY DEF TypeOK
<1>5. CASE ServerEntryRequest(p, e)
  <2>1. In
    BY <1>1, <1>5, ReceivedCounts DEF ServerEntryRequest
  <2>2. Broadcast(Player, EntryReturnMsg(p, e)) \/ UNCHANGED down
    BY <1>5 DEF ServerEntryRequest
  <2>3. Out
    BY <1>2, <1>4, <2>2, BroadcastCounts
  <2>4. granted' \in SUBSET (Player \X Vehicle)
    BY <1>3, <1>5 DEF ServerEntryRequest, TypeOK
  <2>5. UNCHANGED <<view, ped, requesting, pVehicle, seatId, driver, cancelled,
                    requests, ownTasks>>
    BY <1>5 DEF ServerEntryRequest, clientVars, serverVars
  <2> QED BY <2>1, <2>3, <2>4, <2>5 DEF TypeOK
<1>6. CASE ServerEntryComplete(p, e)
  <2>1. In
    BY <1>1, <1>6, ReceivedCounts DEF ServerEntryComplete
  <2>2. /\ pVehicle' \in [Player -> Vehicle \cup {NoVehicle}]
        /\ seatId' \in [Player -> Seat]
        /\ driver' \in [Vehicle -> Player \cup {NoPlayer}]
    BY <1>3, <1>6 DEF ServerEntryComplete, SetOccupant, TypeOK
  <2>3. UNCHANGED <<down, view, ped, requesting, granted, cancelled, requests, ownTasks>>
    BY <1>6 DEF ServerEntryComplete, clientVars
  <2> QED BY <2>1, <2>2, <2>3 DEF TypeOK
<1>7. CASE ServerExitRequest(p, v)
  <2>1. In
    BY <1>1, <1>7, ReceivedCounts DEF ServerExitRequest
  <2>2. Broadcast(Player, PlayerMsg("ExitReturn", p)) \/ UNCHANGED down
    BY <1>7 DEF ServerExitRequest
  <2>3. Out
    BY <1>2, <1>4, <2>2, BroadcastCounts
  <2>4. UNCHANGED <<view, ped, requesting, pVehicle, seatId, driver, granted,
                    cancelled, requests, ownTasks>>
    BY <1>7 DEF ServerExitRequest, clientVars, serverVars
  <2> QED BY <2>1, <2>3, <2>4 DEF TypeOK
<1>8. CASE ServerEntryCancelled(p, v)
  <2>1. In
    BY <1>1, <1>8, ReceivedCounts DEF ServerEntryCancelled
  <2>2. Out
    BY <1>2, <1>8, BroadcastCounts DEF ServerEntryCancelled
  <2>3. UNCHANGED <<view, ped, requesting, pVehicle, seatId, driver, granted,
                    cancelled, requests, ownTasks>>
    BY <1>8 DEF ServerEntryCancelled, clientVars, serverVars
  <2> QED BY <2>1, <2>2, <2>3 DEF TypeOK
<1>9. CASE ServerExit(p, v)
  <2>1. In
    BY <1>1, <1>9, ReceivedCounts DEF ServerExit
  <2>2. /\ pVehicle' \in [Player -> Vehicle \cup {NoVehicle}]
        /\ seatId' \in [Player -> Seat]
        /\ driver' \in [Vehicle -> Player \cup {NoPlayer}]
    BY <1>3, <1>9 DEF ServerExit, SetOccupant, TypeOK
  <2>3. UNCHANGED <<down, view, ped, requesting, granted, cancelled, requests, ownTasks>>
    BY <1>9 DEF ServerExit, clientVars
  <2> QED BY <2>1, <2>2, <2>3 DEF TypeOK
<1> QED
  BY <1>5, <1>6, <1>7, <1>8, <1>9

\* The frames of a client.  The RPC of an exit names m_pVehicle: here TypeOK needs
\* PhasesExclusive, as the code does.
LEMMA FrameTypes ==
  ASSUME TypeOK, PhasesExclusive, NEW c \in Player, NEW p \in Player,
         \/ EntryComplete(c, p) \/ EntryCancelled(p) \/ EntryRestarted(c, p)
         \/ EntryRemoved(c, p) \/ ExitComplete(c, p)
  PROVE  TypeOK'
<1>1. /\ view \in [Player -> [Player -> View]]
      /\ view[c][p] \in View /\ view[p][p] \in View
  BY ViewType
<1>2. CASE EntryComplete(c, p)
  <2>1. view[c][p].entering \in Entry
    BY <1>1, <1>2, ViewTypes DEF EntryComplete
  <2>2. EntryMsg("EntryComplete", view[c][p].entering) \in UpMsg
    BY <2>1, UpMessages DEF Entry
  <2>3. up' \in [Player -> [UpMsg -> Nat]]
    BY <1>2, <2>2, SendUpCounts DEF EntryComplete
  <2>4. view' \in [Player -> [Player -> View]]
    BY <1>2, EntryCompleteView DEF ViewBecomes
  <2>5. UNCHANGED <<down, ped, requesting, pVehicle, seatId, driver, granted, cancelled,
                    requests, ownTasks>>
    BY <1>2 DEF EntryComplete, serverVars
  <2> QED BY <2>3, <2>4, <2>5 DEF TypeOK
<1>3. CASE EntryCancelled(p)
  <2>1. view[p][p].entering \in Entry
    BY <1>1, <1>3, ViewTypes DEF EntryCancelled
  <2>2. view[p][p].entering.veh \in Vehicle
    BY <2>1 DEF Entry
  <2>3. OtherMsg("EntryCancelled", view[p][p].entering.veh) \in UpMsg
    BY <2>1, <2>2, UpMessages
  <2>4. up' \in [Player -> [UpMsg -> Nat]]
    BY <1>3, <2>3, SendUpCounts DEF EntryCancelled
  <2>5. view' \in [Player -> [Player -> View]]
    BY <1>3, EntryCancelledView DEF ViewBecomes
  <2>6. UNCHANGED <<down, ped, requesting, pVehicle, seatId, driver, granted, cancelled,
                    requests, ownTasks>>
    BY <1>3 DEF EntryCancelled, serverVars
  <2> QED BY <2>4, <2>5, <2>6 DEF TypeOK
<1>4. CASE EntryRestarted(c, p) \/ EntryRemoved(c, p)
  <2>1. /\ \E s \in {"foot", "gettingIn", "in", "gettingOut"} :
             ped' = [ped EXCEPT ![c][p] = s]
        /\ UNCHANGED <<up, down, view, requesting, pVehicle, seatId, driver, granted,
                       cancelled, requests, ownTasks>>
    BY <1>4 DEF EntryRestarted, EntryRemoved, serverVars
  <2>2. ped' \in [Player -> [Player -> {"foot", "gettingIn", "in", "gettingOut"}]]
    BY <2>1, PedTypes
  <2> QED BY <2>1, <2>2 DEF TypeOK
<1>5. CASE ExitComplete(c, p)
  <2> DEFINE type == IF view[c][p].exiting THEN "ExitComplete" ELSE "ExitForceful"
  <2>1. view[c][p].veh # NoVehicle
    BY <1>5 DEF ExitComplete, LeaveVehicle, PhasesExclusive
  <2>2. view[c][p].veh \in Vehicle
    BY <1>1, <2>1 DEF View
  <2>3. OtherMsg(type, view[c][p].veh) \in UpMsg
    BY <2>2 DEF OtherMsg, UpMsg
  <2>4. up' \in [Player -> [UpMsg -> Nat]]
    BY <1>5, <2>3, SendUpCounts DEF ExitComplete
  <2>5. view' \in [Player -> [Player -> View]]
    BY <1>5, LeaveVehicleView DEF ExitComplete, ViewBecomes
  <2>6. ped' \in [Player -> [Player -> {"foot", "gettingIn", "in", "gettingOut"}]]
    BY <1>5, PedTypes DEF ExitComplete, LeaveVehicle
  <2>7. UNCHANGED <<down, requesting, pVehicle, seatId, driver, granted, cancelled,
                    requests, ownTasks>>
    BY <1>5 DEF ExitComplete, serverVars
  <2> QED BY <2>4, <2>5, <2>6, <2>7 DEF TypeOK
<1> QED
  BY <1>2, <1>3, <1>4, <1>5

\* The game moves a ped.
LEMMA PedMovesTypes ==
  ASSUME TypeOK, NEW c \in Player, NEW p \in Player, PedMoves(c, p)
  PROVE  TypeOK'
<1>1. PICK step \in PedStep \cup OwnTask :
        /\ step \in OwnTask => ownTasks < MaxOwnTasks
        /\ ped' = [ped EXCEPT ![c][p] = step[2]]
        /\ ownTasks' = IF step \in OwnTask THEN ownTasks + 1 ELSE ownTasks
        /\ UNCHANGED <<up, down, view, requesting, serverVars, granted, cancelled, requests>>
  BY DEF PedMoves
<1>2. step[2] \in {"foot", "gettingIn", "in", "gettingOut"}
  BY DEF PedStep, OwnTask
<1>3. ped' \in [Player -> [Player -> {"foot", "gettingIn", "in", "gettingOut"}]]
  BY <1>1, <1>2, PedTypes
<1>4. ownTasks \in 0 .. MaxOwnTasks /\ MaxOwnTasks \in Nat
  BY VehicleEnterExitAssumption DEF TypeOK
<1>5. ownTasks' \in 0 .. MaxOwnTasks
  BY <1>1, <1>4
<1>6. UNCHANGED <<up, down, view, requesting, pVehicle, seatId, driver, granted,
                  cancelled, requests>>
  BY <1>1 DEF serverVars
<1> QED
  BY <1>3, <1>5, <1>6 DEF TypeOK

\* The replies a client handles.
LEMMA ReplyTypes ==
  ASSUME TypeOK, NEW c \in Player, NEW p \in Player,
         \/ \E e \in Entry : EntryReturn(c, p, e)
         \/ ExitReturn(c, p) \/ EntryCancelledReply(c, p)
  PROVE  TypeOK'
<1>1. /\ view \in [Player -> [Player -> View]]
      /\ cancelled \in SUBSET (Player \X Player)
      /\ ped \in [Player -> [Player -> {"foot", "gettingIn", "in", "gettingOut"}]]
      /\ ped[c][p] \in {"foot", "gettingIn", "in", "gettingOut"}
      /\ requesting \in SUBSET Player
  BY DEF TypeOK
<1>2. /\ \A e \in Entry : EntryReturnMsg(p, e) \in DownMsg
      /\ PlayerMsg("EntryCancelled", p) \in DownMsg
      /\ PlayerMsg("ExitReturn", p) \in DownMsg
  BY DEF EntryReturnMsg, PlayerMsg, DownMsg
<1>3. PICK m \in DownMsg : HandleReply(c, p, m)
  BY <1>2 DEF EntryReturn, ExitReturn, EntryCancelledReply
<1>4. /\ down' \in [Player -> [DownMsg -> Nat]]
      /\ requesting' \in SUBSET Player
      /\ UNCHANGED <<up, pVehicle, seatId, driver, granted, requests, ownTasks>>
  BY ZenonT(60), <1>1, <1>3, HandleReplyCounts DEF serverVars
<1>5. view' \in [Player -> [Player -> View]]
  BY <1>1, EntryReturnView, ExitReturnView, EntryCancelledReplyView DEF ViewBecomes
<1>6. \E s \in {"foot", "gettingIn", "in", "gettingOut"} :
        ped' = [ped EXCEPT ![c][p] = s] \/ UNCHANGED ped
  <2> DEFINE out == IF ped[c][p] = "in" THEN "gettingOut" ELSE ped[c][p]
             off == IF ped[c][p] = "gettingIn" THEN "foot" ELSE ped[c][p]
  <2>1. out \in {"foot", "gettingIn", "in", "gettingOut"}
    BY <1>1
  <2>2. off \in {"foot", "gettingIn", "in", "gettingOut"}
    BY <1>1
  <2>3. \/ UNCHANGED ped
        \/ ped' = [ped EXCEPT ![c][p] = "gettingIn"]
        \/ ped' = [ped EXCEPT ![c][p] = "foot"]
        \/ ped' = [ped EXCEPT ![c][p] = out]
        \/ ped' = [ped EXCEPT ![c][p] = off]
    BY <1>1 DEF EntryReturn, ExitReturn, EntryCancelledReply
  <2> HIDE DEF out, off
  <2> QED BY <2>1, <2>2, <2>3
<1>7. ped' \in [Player -> [Player -> {"foot", "gettingIn", "in", "gettingOut"}]]
  BY <1>6, PedTypes
<1>8. cancelled' \in SUBSET (Player \X Player)
  BY <1>1 DEF EntryReturn, ExitReturn, EntryCancelledReply
<1> QED
  BY <1>4, <1>5, <1>7, <1>8 DEF TypeOK

-----------------------------------------------------------------------------
(* Phases *)

\* A view that is replaced by one that keeps its parts apart.
LEMMA ExclusiveStep ==
  ASSUME PhasesExclusive, NEW c \in Player, NEW p \in Player, NEW w,
         ViewBecomes(c, p, w), Exclusive(w)
  PROVE  PhasesExclusive'
  BY DEF PhasesExclusive, ViewBecomes, Exclusive

\* No step brings the phases of a player together.
LEMMA PhasesStep ==
  ASSUME TypeOK, PhasesExclusive, [Next]_vars
  PROVE  PhasesExclusive'
<1>1. ASSUME NEW c \in Player, NEW p \in Player
      PROVE  view[c][p] \in View /\ Exclusive(view[c][p])
  BY <1>1, ViewType DEF PhasesExclusive, Exclusive
<1>2. ASSUME UNCHANGED view PROVE PhasesExclusive'
  BY <1>2 DEF PhasesExclusive
<1>3. ASSUME NEW c \in Player, NEW p \in Player, EntryComplete(c, p)
      PROVE  PhasesExclusive'
  <2> DEFINE w == [view[c][p] EXCEPT !.veh = view[c][p].entering.veh,
                                     !.entering = NotEntering]
  <2>1. ViewBecomes(c, p, w)
    BY <1>3, EntryCompleteView
  <2>2. view[c][p].entering \in Entry
    BY <1>1, <1>3, ViewTypes DEF EntryComplete
  <2>3. w.veh \in Vehicle /\ w.entering = NotEntering
    BY <1>1, <2>2 DEF View, Entry
  <2>4. Exclusive(w)
    BY <2>3, VehicleEnterExitAssumption DEF Exclusive
  <2> HIDE DEF w
  <2> QED BY <2>1, <2>4, ExclusiveStep
<1>4. ASSUME NEW p \in Player, EntryCancelled(p) PROVE PhasesExclusive'
  <2>1. Exclusive([view[p][p] EXCEPT !.entering = NotEntering])
    BY <1>1 DEF Exclusive, View
  <2> QED BY <1>4, <2>1, EntryCancelledView, ExclusiveStep
<1>5. ASSUME NEW c \in Player, NEW p \in Player, ExitComplete(c, p)
      PROVE  PhasesExclusive'
  <2>1. Exclusive([view[c][p] EXCEPT !.veh = NoVehicle, !.exiting = FALSE])
    BY <1>1 DEF Exclusive, View
  <2> QED BY <1>5, <2>1, LeaveVehicleView, ExclusiveStep DEF ExitComplete
<1>6. ASSUME NEW c \in Player, NEW p \in Player, NEW e \in Entry, EntryReturn(c, p, e)
      PROVE  PhasesExclusive'
  <2>1. view[c][p].veh = NoVehicle => Exclusive([view[c][p] EXCEPT !.entering = e])
    BY <1>1 DEF Exclusive, View
  <2> QED BY <1>2, <1>6, <2>1, EntryReturnView, ExclusiveStep
<1>7. ASSUME NEW c \in Player, NEW p \in Player, ExitReturn(c, p)
      PROVE  PhasesExclusive'
  <2>1. view[c][p].veh # NoVehicle => Exclusive([view[c][p] EXCEPT !.exiting = TRUE])
    BY <1>1 DEF Exclusive, View
  <2> QED BY <1>2, <1>7, <2>1, ExitReturnView, ExclusiveStep
<1>8. ASSUME NEW c \in Player, NEW p \in Player, EntryCancelledReply(c, p)
      PROVE  PhasesExclusive'
  <2>1. Exclusive(OnFoot)
    BY DEF Exclusive, OnFoot
  <2> QED BY <1>2, <1>8, <2>1, EntryCancelledReplyView, ExclusiveStep
<1>9. ASSUME NEW p \in Player, NEW e \in Entry,
             RequestEntry(p, e) \/ ServerEntryRequest(p, e) \/ ServerEntryComplete(p, e)
      PROVE  UNCHANGED view
  BY <1>9 DEF RequestEntry, MakeRequest, ServerEntryRequest, ServerEntryComplete,
              clientVars
<1>10. ASSUME NEW p \in Player, NEW v \in Vehicle,
              ServerExitRequest(p, v) \/ ServerEntryCancelled(p, v) \/ ServerExit(p, v)
       PROVE  UNCHANGED view
  BY <1>10 DEF ServerExitRequest, ServerEntryCancelled, ServerExit, clientVars
<1>11. ASSUME NEW c \in Player, NEW p \in Player,
              \/ RequestExit(p) \/ EntryRestarted(c, p) \/ EntryRemoved(c, p)
              \/ PedMoves(c, p)
       PROVE  UNCHANGED view
  BY <1>11 DEF RequestExit, MakeRequest, EntryRestarted, EntryRemoved, PedMoves
<1>12. CASE UNCHANGED vars
  BY <1>2, <1>12 DEF vars
<1> QED
  BY <1>2, <1>3, <1>4, <1>5, <1>6, <1>7, <1>8, <1>9, <1>10, <1>11, <1>12 DEF Next

\* One step keeps the types, given the phases.
LEMMA TypeStep ==
  ASSUME TypeOK, PhasesExclusive, [Next]_vars
  PROVE  TypeOK'
<1>1. ASSUME NEW p \in Player, NEW e \in Entry, RequestEntry(p, e) PROVE TypeOK'
  <2>1. EntryMsg("EntryRequest", e) \in UpMsg
    BY DEF EntryMsg, UpMsg, Entry
  <2> QED BY <1>1, <2>1, RequestTypes DEF RequestEntry
<1>2. ASSUME NEW p \in Player, RequestExit(p) PROVE TypeOK'
  <2>1. view[p][p] \in View /\ view[p][p].veh # NoVehicle
    BY <1>2, ViewType DEF RequestExit
  <2>2. OtherMsg("ExitRequest", view[p][p].veh) \in UpMsg
    BY <2>1 DEF OtherMsg, UpMsg, View
  <2> QED BY <1>2, <2>2, RequestTypes DEF RequestExit
<1>3. ASSUME NEW p \in Player, NEW e \in Entry,
             ServerEntryRequest(p, e) \/ ServerEntryComplete(p, e)
      PROVE  TypeOK'
  <2>1. e.veh \in Vehicle
    BY DEF Entry
  <2> QED BY <1>3, <2>1, ServerTypes
<1>4. ASSUME NEW p \in Player, NEW v \in Vehicle,
             ServerExitRequest(p, v) \/ ServerEntryCancelled(p, v) \/ ServerExit(p, v)
      PROVE  TypeOK'
  <2>1. [veh |-> v, seat |-> 0] \in Entry
    BY DEF Entry, Seat
  <2> QED BY <1>4, <2>1, ServerTypes
<1>5. ASSUME NEW c \in Player, NEW p \in Player,
             \/ EntryComplete(c, p) \/ EntryCancelled(p) \/ EntryRestarted(c, p)
             \/ EntryRemoved(c, p) \/ ExitComplete(c, p)
      PROVE  TypeOK'
  BY <1>5, FrameTypes
<1>6. ASSUME NEW c \in Player, NEW p \in Player, PedMoves(c, p) PROVE TypeOK'
  BY <1>6, PedMovesTypes
<1>7. ASSUME NEW c \in Player, NEW p \in Player, NEW e \in Entry, EntryReturn(c, p, e)
      PROVE  TypeOK'
  BY <1>7, ReplyTypes
<1>8. ASSUME NEW c \in Player, NEW p \in Player,
             ExitReturn(c, p) \/ EntryCancelledReply(c, p)
      PROVE  TypeOK'
  BY <1>8, ReplyTypes
<1>9. CASE UNCHANGED vars
  BY <1>9 DEF vars, TypeOK
<1> QED
  BY <1>1, <1>2, <1>3, <1>4, <1>5, <1>6, <1>7, <1>8, <1>9 DEF Next

\* Types and phases are one invariant: the RPC of an exit is only well typed as
\* the phases are apart.
LEMMA TypesAndPhases == Spec => [](TypeOK /\ PhasesExclusive)
<1>1. Init => TypeOK /\ PhasesExclusive
  <2> SUFFICES ASSUME Init PROVE TypeOK /\ PhasesExclusive
    OBVIOUS
  <2>1. OnFoot \in View /\ Exclusive(OnFoot)
    BY DEF OnFoot, View, Exclusive
  <2>2. \A c, p \in Player : view[c][p] = OnFoot
    BY DEF Init
  <2>3. view \in [Player -> [Player -> View]]
    BY <2>1 DEF Init
  <2>4. PhasesExclusive
    BY <2>1, <2>2 DEF PhasesExclusive, Exclusive
  <2>5. /\ up \in [Player -> [UpMsg -> Nat]]
        /\ down \in [Player -> [DownMsg -> Nat]]
        /\ ped \in [Player -> [Player -> {"foot", "gettingIn", "in", "gettingOut"}]]
    BY DEF Init
  <2>6. /\ pVehicle \in [Player -> Vehicle \cup {NoVehicle}]
        /\ seatId \in [Player -> Seat]
        /\ driver \in [Vehicle -> Player \cup {NoPlayer}]
    BY DEF Init, Seat
  <2>7. requests \in 0 .. MaxRequests /\ ownTasks \in 0 .. MaxOwnTasks
    BY VehicleEnterExitAssumption DEF Init
  <2>8. /\ requesting \in SUBSET Player
        /\ granted \in SUBSET (Player \X Vehicle)
        /\ cancelled \in SUBSET (Player \X Player)
    BY DEF Init
  <2> QED BY <2>3, <2>4, <2>5, <2>6, <2>7, <2>8 DEF TypeOK
<1>2. TypeOK /\ PhasesExclusive /\ [Next]_vars => TypeOK' /\ PhasesExclusive'
  BY TypeStep, PhasesStep
<1> QED
  BY <1>1, <1>2, PTL DEF Spec

\* Flags, pointers and RPCs keep their types, and no RPC names a NULL vehicle,
\* for any number of players, vehicles and requests.
THEOREM VehicleTypes == Spec => []TypeOK
  BY TypesAndPhases, PTL

\* A player that is exiting is in a vehicle, and none is entering one while in
\* another, in whichever order the replies arrive.
THEOREM VehiclePhases == Spec => []PhasesExclusive
  BY TypesAndPhases, PTL

-----------------------------------------------------------------------------
(* Grants *)

\* An entry reply that is on its way was granted: the strengthening that carries
\* EntersOnlyGranted, as a client enters what the reply names.
RepliesGranted ==
  \A c, p \in Player, e \in Entry :
    down[c][EntryReturnMsg(p, e)] > 0 => <<p, e.veh>> \in granted

\* Replies about other entries are other messages.
LEMMA ReplyIdentity ==
  ASSUME NEW p \in Player, NEW q \in Player, NEW e \in Entry, NEW f \in Entry
  PROVE  /\ EntryReturnMsg(p, e) = EntryReturnMsg(q, f) => p = q /\ e = f
         /\ EntryReturnMsg(p, e) # PlayerMsg("ExitReturn", q)
         /\ EntryReturnMsg(p, e) # PlayerMsg("EntryCancelled", q)
  BY DEF EntryReturnMsg, PlayerMsg

\* A view that is replaced by one that shows what is granted.
LEMMA AllowedStep ==
  ASSUME EntersOnlyGranted, granted \subseteq granted',
         NEW c \in Player, NEW p \in Player, NEW w,
         ViewBecomes(c, p, w), Allowed(p, w, granted)
  PROVE  EntersOnlyGranted'
<1> SUFFICES ASSUME NEW d \in Player, NEW q \in Player
             PROVE  Allowed(q, view'[d][q], granted')
  BY DEF EntersOnlyGranted, Allowed
<1>1. CASE d = c /\ q = p
  BY <1>1 DEF ViewBecomes, Allowed
<1>2. CASE ~(d = c /\ q = p)
  <2>1. view'[d][q] = view[d][q]
    BY <1>2 DEF ViewBecomes
  <2>2. Allowed(q, view[d][q], granted)
    BY DEF EntersOnlyGranted, Allowed
  <2> QED BY <2>1, <2>2 DEF Allowed
<1> QED BY <1>1, <1>2

\* No step takes a grant back.
LEMMA GrantsGrow ==
  ASSUME [Next]_vars
  PROVE  granted \subseteq granted'
<1>1. ASSUME NEW p \in Player, NEW e \in Entry,
             RequestEntry(p, e) \/ ServerEntryRequest(p, e) \/ ServerEntryComplete(p, e)
      PROVE  granted \subseteq granted'
  BY <1>1 DEF RequestEntry, MakeRequest, ServerEntryRequest, ServerEntryComplete
<1>2. ASSUME NEW p \in Player, NEW v \in Vehicle,
             ServerExitRequest(p, v) \/ ServerEntryCancelled(p, v) \/ ServerExit(p, v)
      PROVE  granted \subseteq granted'
  BY <1>2 DEF ServerExitRequest, ServerEntryCancelled, ServerExit
<1>3. ASSUME NEW c \in Player, NEW p \in Player,
             \/ RequestExit(p) \/ EntryRestarted(c, p) \/ EntryRemoved(c, p)
             \/ PedMoves(c, p) \/ EntryComplete(c, p) \/ EntryCancelled(p)
             \/ ExitComplete(c, p)
      PROVE  granted \subseteq granted'
  BY <1>3 DEF RequestExit, MakeRequest, EntryRestarted, EntryRemoved, PedMoves,
              EntryComplete, EntryCancelled, ExitComplete
<1>4. ASSUME NEW c \in Player, NEW p \in Player, NEW e \in Entry,
             EntryReturn(c, p, e) \/ ExitReturn(c, p) \/ EntryCancelledReply(c, p)
      PROVE  granted \subseteq granted'
  BY <1>4 DEF EntryReturn, ExitReturn, EntryCancelledReply, HandleReply
<1>5. ASSUME NEW c \in Player, NEW p \in Player,
             ExitReturn(c, p) \/ EntryCancelledReply(c, p)
      PROVE  granted \subseteq granted'
  BY <1>5 DEF ExitReturn, EntryCancelledReply, HandleReply
<1>6. CASE UNCHANGED vars
  BY <1>6 DEF vars
<1> QED
  BY <1>1, <1>2, <1>3, <1>4, <1>5, <1>6 DEF Next

\* Every entry reply is sent with the grant it tells of.
LEMMA RepliesGrantedStep ==
  ASSUME TypeOK, TypeOK', RepliesGranted, [Next]_vars
  PROVE  RepliesGranted'
<1>1. granted \subseteq granted'
  BY GrantsGrow
<1>2. /\ \A p \in Player, e \in Entry : EntryReturnMsg(p, e) \in DownMsg
      /\ down' \in [Player -> [DownMsg -> Nat]]
  BY DownMessages DEF TypeOK
<1>3. ASSUME \A d \in Player, n \in DownMsg : down'[d][n] <= down[d][n]
      PROVE  RepliesGranted'
  <2> SUFFICES ASSUME NEW c \in Player, NEW p \in Player, NEW e \in Entry,
                      down'[c][EntryReturnMsg(p, e)] > 0
               PROVE  <<p, e.veh>> \in granted'
    BY DEF RepliesGranted
  <2>1. down[c][EntryReturnMsg(p, e)] \in Nat
    BY <1>2 DEF TypeOK
  <2>2. down'[c][EntryReturnMsg(p, e)] \in Nat
    BY <1>2
  <2>3. down[c][EntryReturnMsg(p, e)] > 0
    BY <1>2, <1>3, <2>1, <2>2
  <2> QED BY <1>1, <2>3 DEF RepliesGranted
<1>4. ASSUME UNCHANGED down PROVE RepliesGranted'
  BY <1>1, <1>2, <1>4 DEF RepliesGranted
<1>5. ASSUME NEW p \in Player, NEW e \in Entry, ServerEntryRequest(p, e)
      PROVE  RepliesGranted'
  <2>1. CASE Broadcast(Player, EntryReturnMsg(p, e)) /\ granted' = granted \cup {<<p, e.veh>>}
    <3>1. \A d \in Player, n \in DownMsg :
            down'[d][n] = IF n = EntryReturnMsg(p, e) THEN down[d][n] + 1 ELSE down[d][n]
      <4> DEFINE m == EntryReturnMsg(p, e)
      <4>1. m \in DownMsg /\ Broadcast(Player, m) /\ Player \in SUBSET Player
        BY <1>2, <2>1
      <4> HIDE DEF m
      <4>2. \A d \in Player, n \in DownMsg :
              down'[d][n] = IF d \in Player /\ n = m THEN down[d][n] + 1 ELSE down[d][n]
        BY ZenonT(60), <4>1, BroadcastCounts
      <4> QED BY <4>2 DEF m
    <3>2. ASSUME NEW c \in Player, NEW q \in Player, NEW f \in Entry,
                 down'[c][EntryReturnMsg(q, f)] > 0
          PROVE  <<q, f.veh>> \in granted'
      <4>1. CASE EntryReturnMsg(q, f) = EntryReturnMsg(p, e)
        BY <2>1, <4>1, ReplyIdentity
      <4>2. CASE EntryReturnMsg(q, f) # EntryReturnMsg(p, e)
        <5>1. down[c][EntryReturnMsg(q, f)] > 0
          BY <1>2, <3>1, <3>2, <4>2
        <5> QED BY <1>1, <5>1 DEF RepliesGranted
      <4> QED BY <4>1, <4>2
    <3> QED BY <3>2 DEF RepliesGranted
  <2> QED BY <1>4, <1>5, <2>1 DEF ServerEntryRequest
<1>6. ASSUME NEW p \in Player, NEW T \in SUBSET Player,
             NEW type \in {"ExitReturn", "EntryCancelled"},
             Broadcast(T, PlayerMsg(type, p))
      PROVE  RepliesGranted'
  <2>1. PlayerMsg(type, p) \in DownMsg
    BY DownMessages DEF PlayerMsg, DownMsg
  <2> DEFINE m == PlayerMsg(type, p)
  <2> HIDE DEF m
  <2>2. m \in DownMsg /\ Broadcast(T, m)
    BY <1>6, <2>1 DEF m
  <2>3. \A d \in Player, n \in DownMsg :
          down'[d][n] = IF d \in T /\ n = m THEN down[d][n] + 1 ELSE down[d][n]
    BY <2>2, BroadcastCounts
  <2>4. \A d \in Player, n \in DownMsg : n # m => down'[d][n] = down[d][n]
    BY <2>3
  <2>5. \A q \in Player, f \in Entry : EntryReturnMsg(q, f) # m
    BY ReplyIdentity DEF m
  <2>6. \A c, q \in Player, f \in Entry :
          down'[c][EntryReturnMsg(q, f)] = down[c][EntryReturnMsg(q, f)]
    BY <1>2, <2>4, <2>5
  <2> QED BY <1>1, <2>6 DEF RepliesGranted
<1>7. ASSUME NEW p \in Player, NEW v \in Vehicle,
             ServerExitRequest(p, v) \/ ServerEntryCancelled(p, v) \/ ServerExit(p, v)
      PROVE  RepliesGranted'
  BY <1>4, <1>6, <1>7 DEF ServerExitRequest, ServerEntryCancelled, ServerExit
<1>8. ASSUME NEW c \in Player, NEW p \in Player,
             \/ \E e \in Entry : EntryReturn(c, p, e)
             \/ ExitReturn(c, p) \/ EntryCancelledReply(c, p)
      PROVE  RepliesGranted'
  <2>1. PICK m \in DownMsg : HandleReply(c, p, m)
    BY <1>2, <1>8 DEF EntryReturn, ExitReturn, EntryCancelledReply, PlayerMsg, DownMsg
  <2>2. \A d \in Player, n \in DownMsg :
          down'[d][n] = IF d = c /\ n = m THEN down[d][n] - 1 ELSE down[d][n]
    BY <2>1, HandleReplyCounts
  <2>3. \A d \in Player, n \in DownMsg : down[d][n] \in Nat
    BY DEF TypeOK
  <2> QED BY <1>3, <2>2, <2>3
<1>9. ASSUME NEW p \in Player, NEW e \in Entry,
             RequestEntry(p, e) \/ ServerEntryComplete(p, e)
      PROVE  RepliesGranted'
  BY <1>4, <1>9 DEF RequestEntry, MakeRequest, ServerEntryComplete
<1>10. ASSUME NEW c \in Player, NEW p \in Player,
              \/ RequestExit(p) \/ EntryRestarted(c, p) \/ EntryRemoved(c, p)
              \/ PedMoves(c, p) \/ EntryComplete(c, p) \/ EntryCancelled(p)
              \/ ExitComplete(c, p)
       PROVE  RepliesGranted'
  BY <1>4, <1>10 DEF RequestExit, MakeRequest, EntryRestarted, EntryRemoved, PedMoves,
                     EntryComplete, EntryCancelled, ExitComplete
<1>11. CASE UNCHANGED vars
  BY <1>4, <1>11 DEF vars
<1> QED
  BY <1>5, <1>7, <1>8, <1>9, <1>10, <1>11 DEF Next

\* Every view follows a grant: an entry that starts follows a reply, and one that
\* is completed follows an entry that was shown as granted.
LEMMA GrantsStep ==
  ASSUME TypeOK, RepliesGranted, EntersOnlyGranted, [Next]_vars
  PROVE  EntersOnlyGranted'
<1>1. granted \subseteq granted'
  BY GrantsGrow
<1>2. ASSUME NEW c \in Player, NEW p \in Player
      PROVE  view[c][p] \in View /\ Allowed(p, view[c][p], granted)
  BY ViewType DEF EntersOnlyGranted, Allowed
<1>3. ASSUME UNCHANGED view PROVE EntersOnlyGranted'
  BY <1>1, <1>3 DEF EntersOnlyGranted
<1>4. ASSUME NEW c \in Player, NEW p \in Player, EntryComplete(c, p)
      PROVE  EntersOnlyGranted'
  <2> DEFINE w == [view[c][p] EXCEPT !.veh = view[c][p].entering.veh,
                                     !.entering = NotEntering]
  <2>1. ViewBecomes(c, p, w)
    BY <1>4, EntryCompleteView
  <2>2. w.veh = view[c][p].entering.veh /\ w.entering = NotEntering
    BY <1>2 DEF View
  <2>3. view[c][p].entering # NotEntering
    BY <1>4 DEF EntryComplete
  <2>4. Allowed(p, w, granted)
    BY <1>2, <2>2, <2>3 DEF Allowed
  <2> HIDE DEF w
  <2> QED BY <1>1, <2>1, <2>4, AllowedStep
<1>5. ASSUME NEW p \in Player, EntryCancelled(p) PROVE EntersOnlyGranted'
  <2>1. Allowed(p, [view[p][p] EXCEPT !.entering = NotEntering], granted)
    BY <1>2 DEF Allowed, View
  <2> QED BY <1>1, <1>5, <2>1, EntryCancelledView, AllowedStep
<1>6. ASSUME NEW c \in Player, NEW p \in Player, ExitComplete(c, p)
      PROVE  EntersOnlyGranted'
  <2>1. Allowed(p, [view[c][p] EXCEPT !.veh = NoVehicle, !.exiting = FALSE], granted)
    BY <1>2 DEF Allowed, View
  <2> QED BY <1>1, <1>6, <2>1, LeaveVehicleView, AllowedStep DEF ExitComplete
<1>7. ASSUME NEW c \in Player, NEW p \in Player, NEW e \in Entry, EntryReturn(c, p, e)
      PROVE  EntersOnlyGranted'
  <2>1. <<p, e.veh>> \in granted
    BY <1>7 DEF EntryReturn, HandleReply, RepliesGranted
  <2>2. Allowed(p, [view[c][p] EXCEPT !.entering = e], granted)
    BY <1>2, <2>1 DEF Allowed, View
  <2> QED BY <1>1, <1>3, <1>7, <2>2, EntryReturnView, AllowedStep
<1>8. ASSUME NEW c \in Player, NEW p \in Player, ExitReturn(c, p)
      PROVE  EntersOnlyGranted'
  <2>1. Allowed(p, [view[c][p] EXCEPT !.exiting = TRUE], granted)
    BY <1>2 DEF Allowed, View
  <2> QED BY <1>1, <1>3, <1>8, <2>1, ExitReturnView, AllowedStep
<1>9. ASSUME NEW c \in Player, NEW p \in Player, EntryCancelledReply(c, p)
      PROVE  EntersOnlyGranted'
  <2>1. Allowed(p, OnFoot, granted)
    BY DEF Allowed, OnFoot
  <2> QED BY <1>1, <1>3, <1>9, <2>1, EntryCancelledReplyView, AllowedStep
<1>10. ASSUME NEW p \in Player, NEW e \in Entry,
              RequestEntry(p, e) \/ ServerEntryRequest(p, e) \/ ServerEntryComplete(p, e)
       PROVE  UNCHANGED view
  BY <1>10 DEF RequestEntry, MakeRequest, ServerEntryRequest, ServerEntryComplete,
               clientVars
<1>11. ASSUME NEW p \in Player, NEW v \in Vehicle,
              ServerExitRequest(p, v) \/ ServerEntryCancelled(p, v) \/ ServerExit(p, v)
       PROVE  UNCHANGED view
  BY <1>11 DEF ServerExitRequest, ServerEntryCancelled, ServerExit, clientVars
<1>12. ASSUME NEW c \in Player, NEW p \in Player,
              \/ RequestExit(p) \/ EntryRestarted(c, p) \/ EntryRemoved(c, p)
              \/ PedMoves(c, p)
       PROVE  UNCHANGED view
  BY <1>12 DEF RequestExit, MakeRequest, EntryRestarted, EntryRemoved, PedMoves
<1>13. CASE UNCHANGED vars
  BY <1>3, <1>13 DEF vars
<1> QED
  BY <1>3, <1>4, <1>5, <1>6, <1>7, <1>8, <1>9, <1>10, <1>11, <1>12, <1>13 DEF Next

\* A client shows a player entering or in a vehicle only when a script has allowed
\* that player to enter that vehicle.
THEOREM VehicleEntersOnlyGranted == Spec => []EntersOnlyGranted
<1>1. Init => RepliesGranted /\ EntersOnlyGranted
  <2> SUFFICES ASSUME Init PROVE RepliesGranted /\ EntersOnlyGranted
    OBVIOUS
  <2>1. \A p \in Player, e \in Entry : EntryReturnMsg(p, e) \in DownMsg
    BY DownMessages
  <2>2. RepliesGranted
    BY <2>1 DEF Init, RepliesGranted
  <2>3. EntersOnlyGranted
    BY DEF Init, EntersOnlyGranted, OnFoot
  <2> QED BY <2>2, <2>3
<1>2. TypeOK /\ TypeOK' /\ RepliesGranted /\ EntersOnlyGranted /\ [Next]_vars
        => RepliesGranted' /\ EntersOnlyGranted'
  BY RepliesGrantedStep, GrantsStep
<1> QED
  BY <1>1, <1>2, VehicleTypes, PTL DEF Spec

-----------------------------------------------------------------------------
(* Exchanges *)

\* The requests of a client and the replies to a player's requests.
Asks == {m \in UpMsg : m.type \in {"EntryRequest", "ExitRequest"}}
Answers(p) == {m \in DownMsg : m.type \in {"EntryReturn", "ExitReturn"} /\ m.player = p}

\* Nothing of player p is on its way; just one request is; just one reply is.
NoAsk(p) == \A m \in Asks : up[p][m] = 0
NoAnswer(p) == \A m \in Answers(p) : down[p][m] = 0
OneAsk(p) == \E a \in Asks : up[p][a] = 1 /\ \A m \in Asks \ {a} : up[p][m] = 0
OneAnswer(p) ==
  \E a \in Answers(p) : down[p][a] = 1 /\ \A m \in Answers(p) \ {a} : down[p][m] = 0

\* The strengthening that carries OneExchange: one exchange at a time, and no
\* client hears of its own cancellation, which would clear bRequesting early.
ExchangePhase(p) ==
  \/ NoAsk(p) /\ NoAnswer(p)
  \/ p \in requesting /\ OneAsk(p) /\ NoAnswer(p)
  \/ p \in requesting /\ NoAsk(p) /\ OneAnswer(p)
ExchangePhases == \A p \in Player : ExchangePhase(p)
CancelledByOthers == \A p \in Player : down[p][PlayerMsg("EntryCancelled", p)] = 0

\* The phases keep the requests of a player apart.
LEMMA ExchangePhasesSuffice ==
  ASSUME TypeOK, ExchangePhases
  PROVE  OneExchange
<1> SUFFICES ASSUME NEW p \in Player
             PROVE  /\ Exchanges(p) # {} => p \in requesting
                    /\ \A x, y \in Exchanges(p) : x = y
                    /\ \A x \in Exchanges(p) :
                         (IF x[1] = "up" THEN up[p][x[2]] ELSE down[p][x[2]]) = 1
  BY DEF OneExchange
<1>1. Exchanges(p) = {<<"up", m>> : m \in {n \in Asks : up[p][n] > 0}}
                     \cup {<<"down", m>> : m \in {n \in Answers(p) : down[p][n] > 0}}
  BY DEF Exchanges, Asks, Answers
<1>2. CASE NoAsk(p) /\ NoAnswer(p)
  <2>1. Exchanges(p) = {}
    BY <1>1, <1>2 DEF NoAsk, NoAnswer
  <2> QED BY <2>1
<1>3. CASE p \in requesting /\ OneAsk(p) /\ NoAnswer(p)
  <2>1. PICK a \in Asks : up[p][a] = 1 /\ \A m \in Asks \ {a} : up[p][m] = 0
    BY <1>3 DEF OneAsk
  <2>2. Exchanges(p) = {<<"up", a>>}
    BY <1>1, <1>3, <2>1 DEF NoAnswer
  <2> QED BY <1>3, <2>1, <2>2
<1>4. CASE p \in requesting /\ NoAsk(p) /\ OneAnswer(p)
  <2>1. PICK a \in Answers(p) :
          down[p][a] = 1 /\ \A m \in Answers(p) \ {a} : down[p][m] = 0
    BY <1>4 DEF OneAnswer
  <2>2. Exchanges(p) = {<<"down", a>>}
    BY <1>1, <1>4, <2>1 DEF NoAsk
  <2> QED BY <1>4, <2>1, <2>2
<1> QED
  BY <1>2, <1>3, <1>4 DEF ExchangePhases, ExchangePhase

\* A step that leaves a player waiting in vain is that of a request that is denied; any
\* other clears the flag, leaves something under way, or does not touch the exchange.
AccountedFor(p) ==
  /\ ExchangePhase(p)'
  /\ \/ p \notin requesting'
     \/ ~NoAsk(p)' \/ ~NoAnswer(p)'
     \/ /\ p \in requesting
        /\ \A m \in Asks : up'[p][m] = up[p][m]
        /\ \A m \in Answers(p) : down'[p][m] = down[p][m]
     \/ down' = down /\ \E m \in Asks : up'[p][m] < up[p][m]
Accounted == \A p \in Player : AccountedFor(p)

\* The exchange of a player goes on as it is.
LEMMA ExchangeFrame ==
  ASSUME NEW p \in Player, ExchangePhase(p), p \in requesting <=> p \in requesting',
         \A m \in Asks : up'[p][m] = up[p][m],
         \A m \in Answers(p) : down'[p][m] = down[p][m]
  PROVE  AccountedFor(p)
  BY DEF AccountedFor, ExchangePhase, NoAsk, NoAnswer, OneAsk, OneAnswer, Asks, Answers

\* A request is made when nothing of the player is on its way.
LEMMA AskStep ==
  ASSUME TypeOK, ExchangePhases, NEW p \in Player, NEW m \in Asks, MakeRequest(p, m)
  PROVE  Accounted
<1>1. m \in UpMsg
  BY DEF Asks
<1>2. \A d \in Player, n \in UpMsg :
        up'[d][n] = IF d = p /\ n = m THEN up[d][n] + 1 ELSE up[d][n]
  BY <1>1, SendUpCounts DEF MakeRequest
<1>3. /\ p \notin requesting
      /\ requesting' = requesting \cup {p}
      /\ UNCHANGED down
  BY DEF MakeRequest, MayRequest
<1>4. AccountedFor(p)
  <2>1. NoAsk(p) /\ NoAnswer(p)
    BY <1>3 DEF ExchangePhases, ExchangePhase
  <2>2. up'[p][m] = 1 /\ \A n \in Asks \ {m} : up'[p][n] = 0
    BY <1>1, <1>2, <2>1 DEF NoAsk, Asks
  <2>3. OneAsk(p)'
    BY <2>2 DEF OneAsk, Asks
  <2>4. NoAnswer(p)'
    BY <1>3, <2>1 DEF NoAnswer, Answers
  <2>5. ~NoAsk(p)'
    BY <1>3, <2>2 DEF NoAsk, Asks
  <2> QED BY <1>3, <2>3, <2>4, <2>5 DEF ExchangePhase, AccountedFor
<1>5. ASSUME NEW q \in Player, q # p PROVE AccountedFor(q)
  <2>1. \A n \in Asks : up'[q][n] = up[q][n]
    BY <1>2, <1>5 DEF Asks
  <2> QED BY <1>3, <1>5, <2>1, ExchangeFrame DEF ExchangePhases, Accounted
<1> QED
  BY <1>4, <1>5 DEF ExchangePhases, Accounted

\* The server takes the request and answers it, or not.
LEMMA AnswerStep ==
  ASSUME TypeOK, ExchangePhases, NEW p \in Player, NEW m \in Asks, Received(p, m),
         NEW a \in Answers(p), Broadcast(Player, a) \/ UNCHANGED down,
         UNCHANGED requesting
  PROVE  Accounted
<1>1. m \in UpMsg /\ a \in DownMsg
  BY DEF Asks, Answers
<1>2. /\ up[p][m] > 0
      /\ \A d \in Player, n \in UpMsg :
           up'[d][n] = IF d = p /\ n = m THEN up[d][n] - 1 ELSE up[d][n]
  BY <1>1, ReceivedCounts
<1>3. \/ UNCHANGED down
      \/ \A d \in Player, n \in DownMsg :
           down'[d][n] = IF d \in Player /\ n = a THEN down[d][n] + 1 ELSE down[d][n]
  BY <1>1, BroadcastCounts
<1>4. AccountedFor(p)
  <2>1. p \in requesting /\ OneAsk(p) /\ NoAnswer(p)
    BY <1>2 DEF ExchangePhases, ExchangePhase, NoAsk
  <2>2. up[p][m] = 1 /\ \A n \in Asks \ {m} : up[p][n] = 0
    BY <1>2, <2>1 DEF OneAsk
  <2>3. \A n \in Asks : up'[p][n] = 0
    BY <1>1, <1>2, <2>2 DEF Asks
  <2>4. NoAsk(p)'
    BY <2>3 DEF NoAsk, Asks
  <2>5. CASE UNCHANGED down
    <3>1. NoAnswer(p)'
      BY <2>1, <2>5 DEF NoAnswer, Answers
    <3>2. up'[p][m] < up[p][m]
      BY <2>2, <2>3
    <3> QED BY <2>4, <2>5, <3>1, <3>2 DEF ExchangePhase, AccountedFor
  <2>6. CASE \A d \in Player, n \in DownMsg :
               down'[d][n] = IF d \in Player /\ n = a THEN down[d][n] + 1 ELSE down[d][n]
    <3>1. down'[p][a] = 1 /\ \A n \in Answers(p) \ {a} : down'[p][n] = 0
      BY <1>1, <2>1, <2>6 DEF NoAnswer, Answers
    <3>2. OneAnswer(p)'
      BY <3>1 DEF OneAnswer, Answers
    <3>3. ~NoAnswer(p)'
      BY <3>1 DEF NoAnswer, Answers
    <3> QED BY <2>1, <2>4, <3>2, <3>3 DEF ExchangePhase, AccountedFor
  <2> QED BY <1>3, <2>5, <2>6
<1>5. ASSUME NEW q \in Player, q # p PROVE AccountedFor(q)
  <2>1. \A n \in Asks : up'[q][n] = up[q][n]
    BY <1>2, <1>5 DEF Asks
  <2>2. \A n \in Answers(q) : n # a /\ n \in DownMsg
    BY <1>5 DEF Answers
  <2>3. \A n \in Answers(q) : down'[q][n] = down[q][n]
    BY <1>3, <2>2
  <2> QED BY <2>1, <2>3, ExchangeFrame DEF ExchangePhases, Accounted
<1> QED
  BY <1>4, <1>5 DEF ExchangePhases, Accounted

\* A reply about the local player ends its exchange, one about another player does
\* not touch it.
LEMMA ReplyStep ==
  ASSUME TypeOK, ExchangePhases, NEW c \in Player, NEW p \in Player,
         NEW m \in Answers(p), HandleReply(c, p, m)
  PROVE  Accounted
<1>1. m \in DownMsg
  BY DEF Answers
<1>2. /\ down[c][m] > 0
      /\ \A d \in Player, n \in DownMsg :
           down'[d][n] = IF d = c /\ n = m THEN down[d][n] - 1 ELSE down[d][n]
      /\ requesting' = IF p = c THEN requesting \ {p} ELSE requesting
      /\ UNCHANGED up
  BY <1>1, HandleReplyCounts
<1>3. ASSUME NEW q \in Player, q # c \/ p # c PROVE AccountedFor(q)
  <2>1. \A n \in Answers(q) : n \in DownMsg /\ (q # c \/ n # m)
    BY <1>3 DEF Answers
  <2>2. \A n \in Answers(q) : down'[q][n] = down[q][n]
    BY <1>2, <2>1
  <2>3. q \in requesting <=> q \in requesting'
    BY <1>2, <1>3
  <2> QED BY <1>2, <2>2, <2>3, ExchangeFrame DEF ExchangePhases, Accounted
<1>4. ASSUME p = c PROVE AccountedFor(c)
  <2>1. NoAsk(p) /\ OneAnswer(p)
    BY <1>2, <1>4 DEF ExchangePhases, ExchangePhase, NoAnswer
  <2>2. down[p][m] = 1 /\ \A n \in Answers(p) \ {m} : down[p][n] = 0
    BY <1>2, <1>4, <2>1 DEF OneAnswer
  <2>3. \A n \in Answers(p) : down'[p][n] = 0
    BY <1>1, <1>2, <1>4, <2>2 DEF Answers
  <2>4. NoAnswer(p)'
    BY <2>3 DEF NoAnswer, Answers
  <2>5. NoAsk(p)'
    BY <1>2, <2>1 DEF NoAsk, Asks
  <2>6. c \notin requesting'
    BY <1>2, <1>4
  <2> QED BY <1>4, <2>4, <2>5, <2>6 DEF ExchangePhase, AccountedFor
<1> QED
  BY <1>3, <1>4 DEF ExchangePhases, Accounted

\* An RPC that is no request changes no exchange when it is sent or handled.
LEMMA OtherUpStep ==
  ASSUME TypeOK, ExchangePhases, NEW c \in Player, NEW m \in UpMsg, m \notin Asks,
         SendUp(c, m) \/ Received(c, m), UNCHANGED <<down, requesting>>
  PROVE  Accounted
<1>1. ASSUME NEW q \in Player PROVE \A n \in Asks : up'[q][n] = up[q][n]
  <2>1. \A n \in UpMsg : n # m => up'[q][n] = up[q][n]
    BY SendUpCounts, ReceivedCounts
  <2> QED BY <2>1 DEF Asks
<1> QED
  BY <1>1, ExchangeFrame DEF ExchangePhases, Accounted

\* A cancellation that is multicast or handled changes no exchange, as it never
\* goes to the player it is about.
LEMMA CancellationStep ==
  ASSUME TypeOK, ExchangePhases, CancelledByOthers, NEW p \in Player,
         \/ /\ Broadcast(Player \ {p}, PlayerMsg("EntryCancelled", p))
            /\ UNCHANGED requesting
            /\ \E v \in Vehicle : Received(p, OtherMsg("EntryCancelled", v))
         \/ \E c \in Player : HandleReply(c, p, PlayerMsg("EntryCancelled", p))
  PROVE  Accounted
<1> DEFINE m == PlayerMsg("EntryCancelled", p)
<1>1. m \in DownMsg /\ \A q \in Player : m \notin Answers(q)
  BY DEF PlayerMsg, DownMsg, Answers
<1>2. down[p][m] = 0
  BY DEF CancelledByOthers
<1> HIDE DEF m
<1>3. CASE /\ Broadcast(Player \ {p}, m)
           /\ UNCHANGED requesting
           /\ \E v \in Vehicle : Received(p, OtherMsg("EntryCancelled", v))
  <2>1. PICK v \in Vehicle : Received(p, OtherMsg("EntryCancelled", v))
    BY <1>3
  <2>2. OtherMsg("EntryCancelled", v) \in UpMsg /\ OtherMsg("EntryCancelled", v) \notin Asks
    BY DEF OtherMsg, UpMsg, Asks
  <2>3. ASSUME NEW q \in Player PROVE \A n \in Asks : up'[q][n] = up[q][n]
    <3>1. \A n \in UpMsg : n # OtherMsg("EntryCancelled", v) => up'[q][n] = up[q][n]
      BY <2>1, <2>2, ReceivedCounts
    <3> QED BY <2>2, <3>1 DEF Asks
  <2>4. \A d \in Player, n \in DownMsg :
          down'[d][n] = IF d \in Player \ {p} /\ n = m THEN down[d][n] + 1 ELSE down[d][n]
    <3> DEFINE T == Player \ {p}
    <3>1. T \in SUBSET Player /\ Broadcast(T, m)
      BY <1>3
    <3> HIDE DEF T
    <3>2. \A d \in Player, n \in DownMsg :
            down'[d][n] = IF d \in T /\ n = m THEN down[d][n] + 1 ELSE down[d][n]
      BY <1>1, <3>1, BroadcastCounts
    <3> QED BY <3>2 DEF T
  <2>5. \A q \in Player : \A n \in Answers(q) : down'[q][n] = down[q][n]
    BY <1>1, <2>4 DEF Answers
  <2> QED BY <1>3, <2>3, <2>5, ExchangeFrame DEF ExchangePhases, Accounted
<1>4. ASSUME NEW c \in Player, HandleReply(c, p, m) PROVE Accounted
  <2>1. /\ down[c][m] > 0
        /\ \A d \in Player, n \in DownMsg :
             down'[d][n] = IF d = c /\ n = m THEN down[d][n] - 1 ELSE down[d][n]
        /\ requesting' = IF p = c THEN requesting \ {p} ELSE requesting
        /\ UNCHANGED up
    BY <1>1, <1>4, HandleReplyCounts
  <2>2. c # p
    BY <1>2, <2>1
  <2>3. \A q \in Player : \A n \in Answers(q) : down'[q][n] = down[q][n]
    BY <1>1, <2>1 DEF Answers
  <2> QED BY <2>1, <2>2, <2>3, ExchangeFrame DEF ExchangePhases, Accounted
<1> QED
  BY <1>3, <1>4 DEF m

\* Exchanges that nothing touches.
LEMMA QuietStep ==
  ASSUME ExchangePhases, UNCHANGED <<up, down, requesting>>
  PROVE  Accounted
  BY ExchangeFrame DEF ExchangePhases, Accounted

\* One step of the exchanges of all players.
LEMMA ExchangeStep ==
  ASSUME TypeOK, PhasesExclusive, ExchangePhases, CancelledByOthers, [Next]_vars
  PROVE  Accounted
<1>1. ASSUME NEW p \in Player, NEW e \in Entry, RequestEntry(p, e)
      PROVE  Accounted
  <2>1. EntryMsg("EntryRequest", e) \in Asks
    BY DEF EntryMsg, UpMsg, Entry, Asks
  <2> QED BY <1>1, <2>1, AskStep DEF RequestEntry
<1>2. ASSUME NEW p \in Player, RequestExit(p) PROVE Accounted
  <2>1. view[p][p] \in View /\ view[p][p].veh # NoVehicle
    BY <1>2, ViewType DEF RequestExit
  <2>2. OtherMsg("ExitRequest", view[p][p].veh) \in Asks
    BY <2>1 DEF OtherMsg, UpMsg, View, Asks
  <2> QED BY <1>2, <2>2, AskStep DEF RequestExit
<1>3. ASSUME NEW p \in Player, NEW e \in Entry, ServerEntryRequest(p, e)
      PROVE  Accounted
  <2>1. EntryMsg("EntryRequest", e) \in Asks /\ EntryReturnMsg(p, e) \in Answers(p)
    BY DEF EntryMsg, UpMsg, Entry, Asks, EntryReturnMsg, DownMsg, Answers
  <2> QED BY <1>3, <2>1, AnswerStep DEF ServerEntryRequest, clientVars
<1>4. ASSUME NEW p \in Player, NEW v \in Vehicle, ServerExitRequest(p, v)
      PROVE  Accounted
  <2>1. OtherMsg("ExitRequest", v) \in Asks /\ PlayerMsg("ExitReturn", p) \in Answers(p)
    BY DEF OtherMsg, UpMsg, Asks, PlayerMsg, DownMsg, Answers
  <2> QED BY <1>4, <2>1, AnswerStep DEF ServerExitRequest, clientVars
<1>5. ASSUME NEW p \in Player, NEW e \in Entry, ServerEntryComplete(p, e)
      PROVE  Accounted
  <2>1. EntryMsg("EntryComplete", e) \in UpMsg \ Asks
    BY DEF EntryMsg, UpMsg, Entry, Asks
  <2> QED BY <1>5, <2>1, OtherUpStep DEF ServerEntryComplete, clientVars
<1>6. ASSUME NEW p \in Player, NEW v \in Vehicle, ServerExit(p, v)
      PROVE  Accounted
  <2>1. /\ OtherMsg("ExitComplete", v) \in UpMsg \ Asks
        /\ OtherMsg("ExitForceful", v) \in UpMsg \ Asks
    BY DEF OtherMsg, UpMsg, Asks
  <2> QED BY <1>6, <2>1, OtherUpStep DEF ServerExit, clientVars
<1>7. ASSUME NEW p \in Player, NEW v \in Vehicle, ServerEntryCancelled(p, v)
      PROVE  Accounted
  BY <1>7, CancellationStep DEF ServerEntryCancelled, clientVars
<1>8. ASSUME NEW c \in Player, NEW p \in Player, EntryComplete(c, p)
      PROVE  Accounted
  <2>1. view[c][p].entering \in Entry
    BY <1>8, ViewType, ViewTypes DEF EntryComplete
  <2>2. EntryMsg("EntryComplete", view[c][p].entering) \in UpMsg \ Asks
    BY <2>1 DEF EntryMsg, UpMsg, Entry, Asks
  <2> QED BY <1>8, <2>2, OtherUpStep DEF EntryComplete
<1>9. ASSUME NEW p \in Player, EntryCancelled(p) PROVE Accounted
  <2>1. view[p][p].entering \in Entry
    BY <1>9, ViewType, ViewTypes DEF EntryCancelled
  <2>2. OtherMsg("EntryCancelled", view[p][p].entering.veh) \in UpMsg \ Asks
    BY <2>1 DEF OtherMsg, UpMsg, Entry, Asks
  <2> QED BY <1>9, <2>2, OtherUpStep DEF EntryCancelled
<1>10. ASSUME NEW c \in Player, NEW p \in Player, ExitComplete(c, p)
       PROVE  Accounted
  <2>1. view[c][p].veh # NoVehicle
    BY <1>10 DEF ExitComplete, LeaveVehicle, PhasesExclusive
  <2>2. view[c][p].veh \in Vehicle
    BY <2>1, ViewType DEF View
  <2>3. \A type \in {"ExitComplete", "ExitForceful"} :
          OtherMsg(type, view[c][p].veh) \in UpMsg \ Asks
    BY <2>2 DEF OtherMsg, UpMsg, Asks
  <2> QED BY <1>10, <2>3, OtherUpStep DEF ExitComplete
<1>11. ASSUME NEW c \in Player, NEW p \in Player,
              (\E e \in Entry : EntryReturn(c, p, e)) \/ ExitReturn(c, p)
       PROVE  Accounted
  <2>1. /\ \A e \in Entry : EntryReturnMsg(p, e) \in Answers(p)
        /\ PlayerMsg("ExitReturn", p) \in Answers(p)
    BY DEF EntryReturnMsg, PlayerMsg, DownMsg, Answers
  <2> QED BY <1>11, <2>1, ReplyStep DEF EntryReturn, ExitReturn
<1>12. ASSUME NEW c \in Player, NEW p \in Player, EntryCancelledReply(c, p)
       PROVE  Accounted
  BY <1>12, CancellationStep DEF EntryCancelledReply
<1>13. ASSUME NEW c \in Player, NEW p \in Player,
              EntryRestarted(c, p) \/ EntryRemoved(c, p) \/ PedMoves(c, p)
       PROVE  Accounted
  BY <1>13, QuietStep DEF EntryRestarted, EntryRemoved, PedMoves
<1>14. CASE UNCHANGED vars
  BY <1>14, QuietStep DEF vars
<1> QED
  BY <1>1, <1>2, <1>3, <1>4, <1>5, <1>6, <1>7, <1>8, <1>9, <1>10, <1>11, <1>12, <1>13,
     <1>14
  DEF Next

\* No step sends a player its own cancellation.
LEMMA CancelledByOthersStep ==
  ASSUME TypeOK, CancelledByOthers, [Next]_vars
  PROVE  CancelledByOthers'
<1> SUFFICES ASSUME NEW q \in Player
             PROVE  down'[q][PlayerMsg("EntryCancelled", q)] = 0
  BY DEF CancelledByOthers
<1> DEFINE own == PlayerMsg("EntryCancelled", q)
<1>1. /\ own \in DownMsg
      /\ \A p \in Player, e \in Entry : EntryReturnMsg(p, e) # own
      /\ \A p \in Player : PlayerMsg("ExitReturn", p) # own
      /\ \A p \in Player : PlayerMsg("EntryCancelled", p) = own => p = q
  BY DEF PlayerMsg, EntryReturnMsg, DownMsg
<1>2. down[q][own] = 0
  BY DEF CancelledByOthers
<1> HIDE DEF own
<1>3. ASSUME NEW T \in SUBSET Player, NEW m \in DownMsg, m # own \/ q \notin T,
             Broadcast(T, m)
      PROVE  down'[q][own] = 0
  <2>1. down'[q][own] = IF q \in T /\ own = m THEN down[q][own] + 1 ELSE down[q][own]
    BY <1>1, <1>3, BroadcastCounts
  <2> QED BY <1>2, <1>3, <2>1
<1>4. ASSUME NEW c \in Player, NEW p \in Player, NEW m \in DownMsg, HandleReply(c, p, m)
      PROVE  down'[q][own] = 0
  <2>1. /\ down[c][m] > 0
        /\ down'[q][own] = IF q = c /\ own = m THEN down[q][own] - 1 ELSE down[q][own]
    BY <1>1, <1>4, HandleReplyCounts
  <2> QED BY <1>2, <2>1
<1>5. ASSUME NEW p \in Player, NEW e \in Entry, ServerEntryRequest(p, e)
      PROVE  down'[q][own] = 0
  <2>1. EntryReturnMsg(p, e) \in DownMsg /\ EntryReturnMsg(p, e) # own
    BY <1>1, DownMessages
  <2> QED BY <1>2, <1>3, <1>5, <2>1 DEF ServerEntryRequest
<1>6. ASSUME NEW p \in Player, NEW v \in Vehicle,
             ServerExitRequest(p, v) \/ ServerEntryCancelled(p, v) \/ ServerExit(p, v)
      PROVE  down'[q][own] = 0
  <2>1. PlayerMsg("ExitReturn", p) \in DownMsg /\ PlayerMsg("EntryCancelled", p) \in DownMsg
    BY DEF PlayerMsg, DownMsg
  <2> QED BY <1>1, <1>2, <1>3, <1>6, <2>1
          DEF ServerExitRequest, ServerEntryCancelled, ServerExit
<1>7. ASSUME NEW c \in Player, NEW p \in Player,
             \/ \E e \in Entry : EntryReturn(c, p, e)
             \/ ExitReturn(c, p) \/ EntryCancelledReply(c, p)
      PROVE  down'[q][own] = 0
  <2>1. PICK m \in DownMsg : HandleReply(c, p, m)
    BY <1>7, DownMessages DEF EntryReturn, ExitReturn, EntryCancelledReply, PlayerMsg, DownMsg
  <2> QED BY <1>4, <2>1
<1>8. ASSUME NEW p \in Player, NEW e \in Entry,
             RequestEntry(p, e) \/ ServerEntryComplete(p, e)
      PROVE  down'[q][own] = 0
  BY <1>2, <1>8 DEF RequestEntry, MakeRequest, ServerEntryComplete
<1>9. ASSUME NEW c \in Player, NEW p \in Player,
             \/ RequestExit(p) \/ EntryRestarted(c, p) \/ EntryRemoved(c, p)
             \/ PedMoves(c, p) \/ EntryComplete(c, p) \/ EntryCancelled(p)
             \/ ExitComplete(c, p)
      PROVE  down'[q][own] = 0
  BY <1>2, <1>9 DEF RequestExit, MakeRequest, EntryRestarted, EntryRemoved, PedMoves,
                    EntryComplete, EntryCancelled, ExitComplete
<1>10. ASSUME UNCHANGED vars PROVE down'[q][own] = 0
  BY <1>2, <1>10 DEF vars
<1>11. down'[q][own] = 0
  BY <1>5, <1>6, <1>7, <1>8, <1>9, <1>10 DEF Next
<1> QED
  BY <1>11 DEF own

\* The phases last.
LEMMA AlwaysExchangePhases ==
  Spec => [](TypeOK /\ PhasesExclusive /\ ExchangePhases /\ CancelledByOthers)
<1>1. Init => ExchangePhases /\ CancelledByOthers
  <2> SUFFICES ASSUME Init PROVE ExchangePhases /\ CancelledByOthers
    OBVIOUS
  <2>1. ExchangePhases
    BY DEF Init, ExchangePhases, ExchangePhase, NoAsk, NoAnswer, Asks, Answers
  <2>2. CancelledByOthers
    BY DEF Init, CancelledByOthers, PlayerMsg, DownMsg
  <2> QED BY <2>1, <2>2
<1>2. /\ TypeOK /\ PhasesExclusive /\ ExchangePhases /\ CancelledByOthers /\ [Next]_vars
      => ExchangePhases' /\ CancelledByOthers'
  BY ExchangeStep, CancelledByOthersStep DEF Accounted, AccountedFor, ExchangePhases
<1> QED
  BY <1>1, <1>2, VehicleTypes, VehiclePhases, PTL DEF Spec

\* The requests of a player never overlap: a new one is only made when the last one
\* is neither on its way nor being answered, whatever the order of arrival.
THEOREM VehicleOneExchange == Spec => []OneExchange
<1>1. TypeOK /\ ExchangePhases => OneExchange
  BY ExchangePhasesSuffice
<1> QED
  BY <1>1, AlwaysExchangePhases, PTL

\* A player that waits in vain has neither a request nor a reply under way.
InVain == \A p \in Player : WaitsInVain(p) <=> p \in requesting /\ NoAsk(p) /\ NoAnswer(p)

\* The exchanges are empty when no request and no reply is counted.
LEMMA AlwaysInVain == TypeOK => InVain
<1> SUFFICES ASSUME TypeOK, NEW p \in Player
             PROVE  WaitsInVain(p) <=> p \in requesting /\ NoAsk(p) /\ NoAnswer(p)
  BY DEF InVain
<1>1. Exchanges(p) = {<<"up", m>> : m \in {n \in Asks : up[p][n] > 0}}
                     \cup {<<"down", m>> : m \in {n \in Answers(p) : down[p][n] > 0}}
  BY DEF Exchanges, Asks, Answers
<1>2. Asks \subseteq UpMsg /\ Answers(p) \subseteq DownMsg
  BY DEF Asks, Answers
<1>3. /\ \A n \in Asks : up[p][n] \in Nat
      /\ \A n \in Answers(p) : down[p][n] \in Nat
  BY <1>2 DEF TypeOK
<1>4. Exchanges(p) = {} <=> /\ {n \in Asks : up[p][n] > 0} = {}
                            /\ {n \in Answers(p) : down[p][n] > 0} = {}
  BY <1>1
<1>5. /\ {n \in Asks : up[p][n] > 0} = {} <=> NoAsk(p)
      /\ {n \in Answers(p) : down[p][n] > 0} = {} <=> NoAnswer(p)
  BY <1>3 DEF NoAsk, NoAnswer
<1> QED BY <1>4, <1>5 DEF WaitsInVain

\* Only a denial leaves a player waiting in vain: whatever order requests, replies and
\* cancellations arrive in, a permitted request is under way until its reply has cleared
\* bRequesting (CServerRPCHandler and CClientRPCHandler::VehicleEnterExit).
THEOREM VehicleOnlyDeniedWait == Spec => OnlyDeniedWait
<1> DEFINE Denied ==
      \A p \in Player : WaitsInVain(p)' /\ ~WaitsInVain(p) =>
        /\ down' = down
        /\ \E m \in UpMsg : m.type \in {"EntryRequest", "ExitRequest"} /\ up'[p][m] < up[p][m]
<1>1. /\ TypeOK /\ PhasesExclusive /\ ExchangePhases /\ CancelledByOthers
      /\ InVain /\ InVain' /\ [Next]_vars
      => [Denied]_vars
  <2> SUFFICES ASSUME TypeOK, PhasesExclusive, ExchangePhases, CancelledByOthers, InVain,
                      InVain', [Next]_vars, NEW p \in Player, WaitsInVain(p)', ~WaitsInVain(p)
               PROVE  /\ down' = down
                      /\ \E m \in UpMsg : /\ m.type \in {"EntryRequest", "ExitRequest"}
                                         /\ up'[p][m] < up[p][m]
    OBVIOUS
  <2>1. AccountedFor(p)
    BY ExchangeStep DEF Accounted
  <2>2. p \in requesting' /\ NoAsk(p)' /\ NoAnswer(p)'
    BY DEF InVain
  <2>3. ~(p \in requesting /\ NoAsk(p) /\ NoAnswer(p))
    BY DEF InVain
  <2>4. down' = down /\ \E m \in Asks : up'[p][m] < up[p][m]
    BY <2>1, <2>2, <2>3 DEF AccountedFor, NoAsk, NoAnswer, Asks, Answers
  <2> QED BY <2>4 DEF Asks
<1> QED
  BY <1>1, AlwaysInVain, AlwaysExchangePhases, PTL DEF Spec, OnlyDeniedWait
=============================================================================
