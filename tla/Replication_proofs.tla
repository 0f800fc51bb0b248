-------------------------- MODULE Replication_proofs --------------------------
(***************************************************************************)
(* Theorems about Replication for every number of clients, slots, models   *)
(* and vehicles: its types, the phases a player slot goes through, that no *)
(* player is told about itself, and what the clients come to hold.         *)
(***************************************************************************)
EXTENDS Replication, FiniteSetTheorems, SequenceTheorems, TLAPS

-----------------------------------------------------------------------------
(* Operators *)

\* What is sent before has no effect on the type of what is sent after: the
\* queues stay sequences of messages.
LEMMA RPCType ==
  ASSUME NEW d \in [Pid -> Seq(Msg)], NEW T, NEW s \in Seq(Msg)
  PROVE  RPC(d, T, s) \in [Pid -> Seq(Msg)]
  BY ConcatProperties DEF RPC

\* A listing of a finite set of messages is a sequence of them.
LEMMA ListingType ==
  ASSUME NEW M, NEW S, IsFiniteSet(S), S \subseteq M, NEW s \in Listings(S)
  PROVE  s \in Seq(M)
<1>1. Cardinality(S) \in Nat
  BY FS_CardinalityType
<1>2. s \in [1 .. Cardinality(S) -> M]
  BY DEF Listings
<1>. QED
  BY <1>1, <1>2

\* The image of a set of slots under a function is finite.
LEMMA FiniteImage ==
  ASSUME NEW n \in Nat, NEW D \in SUBSET (0 .. n - 1), NEW f, f = [q \in D |-> f[q]]
  PROVE  IsFiniteSet({f[q] : q \in D})
<1>1. IsFiniteSet(D)
  BY FS_Interval, FS_Subset
<1>2. f \in Surjection(D, {f[q] : q \in D})
  BY DEF Surjection
<1>. QED
  BY <1>1, <1>2, FS_Surjection

\* Both dumps of HandlePlayerJoin are finite sets of messages.
LEMMA PlayerDumpType ==
  ASSUME TypeOK, ReplicationAssumption, NEW p \in Pid
  PROVE  PlayerDump(p) \subseteq Msg /\ IsFiniteSet(PlayerDump(p))
<1>. DEFINE D == Active \ {p}
            E == (Active \cap spawned) \ {p}
            f == [q \in D |-> AddPlayer(q, players[q])]
            g == [q \in E |-> SpawnPlayer(q)]
<1>1. D \in SUBSET (0 .. PlayerMax - 1) /\ E \in SUBSET (0 .. PlayerMax - 1)
  BY DEF Active, Pid
<1>2. PlayerMax \in Nat
  BY DEF ReplicationAssumption
<1>3. IsFiniteSet({f[q] : q \in D}) /\ IsFiniteSet({g[q] : q \in E})
  <2>. f = [q \in D |-> f[q]] /\ g = [q \in E |-> g[q]]
    OBVIOUS
  <2>. HIDE DEF D, E, f, g
  <2>. QED
    BY <1>1, <1>2, FiniteImage
<1>4. PlayerDump(p) = {f[q] : q \in D} \cup {g[q] : q \in E}
  BY DEF PlayerDump
<1>5. PlayerDump(p) \subseteq Msg
  BY DEF PlayerDump, Msg, AddPlayer, SpawnPlayer, TypeOK, Active
<1>. HIDE DEF D, E, f, g
<1>6. IsFiniteSet({f[q] : q \in D} \cup {g[q] : q \in E})
  BY <1>3, FS_Union
<1>. QED
  BY <1>4, <1>5, <1>6

\* The dump of the vehicles is made of messages, finitely many.
LEMMA VehicleDumpType ==
  ASSUME ReplicationAssumption, NEW veh \in [Vid -> Models \cup {NoVehicle}]
  PROVE  VehicleDump(veh) \subseteq Msg /\ IsFiniteSet(VehicleDump(veh))
<1>. DEFINE D == {w \in Vid : veh[w] # NoVehicle}
            f == [v \in D |-> SpawnVehicle(v, veh[v])]
<1>1. D \in SUBSET (0 .. VehicleMax - 1)
  BY DEF Vid
<1>2. VehicleMax \in Nat
  BY DEF ReplicationAssumption
<1>3. IsFiniteSet({f[v] : v \in D})
  <2>. f = [v \in D |-> f[v]]
    OBVIOUS
  <2>. HIDE DEF D, f
  <2>. QED
    BY <1>1, <1>2, FiniteImage
<1>4. VehicleDump(veh) = {f[v] : v \in D}
  BY DEF VehicleDump
<1>5. VehicleDump(veh) \subseteq Msg
  BY DEF VehicleDump, Msg, SpawnVehicle
<1>. QED
  BY <1>3, <1>4, <1>5

\* The tables a client computes from a message keep their types.
LEMMA ApplyType ==
  ASSUME NEW t \in [Pid -> Entry], NEW u \in [Vid -> Models \cup {NoVehicle}],
         NEW m \in Msg
  PROVE  /\ ApplyToPlayers(t, m) \in [Pid -> Entry]
         /\ ApplyToVehicles(u, m) \in [Vid -> Models \cup {NoVehicle}]
<1>1. ApplyToPlayers(t, m) \in [Pid -> Entry]
  BY DEF ApplyToPlayers, Msg, Entry, Remote, NoEntry
<1>2. ApplyToVehicles(u, m) \in [Vid -> Models \cup {NoVehicle}]
  BY DEF ApplyToVehicles, Msg
<1>. QED
  BY <1>1, <1>2

\* A table stays one when the local player moves to its slot.
LEMMA SetLocalPlayerIdType ==
  ASSUME NEW t \in [Pid -> Entry], NEW p \in Pid
  PROVE  SetLocalPlayerId(t, p) \in [Pid -> Entry]
  BY DEF SetLocalPlayerId, Entry, LocalEntry, NoEntry

-----------------------------------------------------------------------------
(* Types *)

\* The part of a join that fills the queues and the server's tables.
LEMMA JoinType ==
  ASSUME TypeOK, ReplicationAssumption, NEW p \in Pid, NEW c \in Client,
         NEW veh \in [Vid -> Models \cup {NoVehicle}], NEW burst \in Seq(Msg),
         Join(p, c, veh, burst)
  PROVE  /\ players' \in [Pid -> Client \cup {NoClient}]
         /\ spawned' \in SUBSET Pid
         /\ down' \in [Pid -> Seq(Msg)]
         /\ vehicles' \in [Vid -> Models \cup {NoVehicle}]
<1>. DEFINE others == Active \ {p}
            announced == IF p \in Active THEN down
                         ELSE RPC(down, others, <<AddPlayer(p, c)>>)
            scripted == RPC(announced, others \cup {p}, burst)
<1>1. AddPlayer(p, c) \in Msg /\ SpawnPlayer(p) \in Msg /\ InitialDataRPC(p) \in Msg
  BY DEF Msg, AddPlayer, SpawnPlayer, InitialDataRPC
<1>2. scripted \in [Pid -> Seq(Msg)]
  <2>1. down \in [Pid -> Seq(Msg)] /\ <<AddPlayer(p, c)>> \in Seq(Msg)
    BY <1>1 DEF TypeOK
  <2>2. announced \in [Pid -> Seq(Msg)]
    BY <2>1, RPCType
  <2>. HIDE DEF announced
  <2>. QED
    BY <2>2, RPCType
<1>3. PICK ps \in Listings(PlayerDump(p)), vs \in Listings(VehicleDump(veh)) :
        down' = RPC(RPC(scripted, {p}, <<InitialDataRPC(p)>> \o ps \o vs),
                    others, <<SpawnPlayer(p)>>)
  BY DEF Join
<1>. HIDE DEF scripted, others
<1>4. ps \in Seq(Msg) /\ vs \in Seq(Msg)
  BY PlayerDumpType, VehicleDumpType, ListingType
<1>5. <<InitialDataRPC(p)>> \o ps \o vs \in Seq(Msg) /\ <<SpawnPlayer(p)>> \in Seq(Msg)
  BY <1>1, <1>4, ConcatProperties
<1>6. RPC(scripted, {p}, <<InitialDataRPC(p)>> \o ps \o vs) \in [Pid -> Seq(Msg)]
  BY <1>2, <1>5, RPCType
<1>7. down' \in [Pid -> Seq(Msg)]
  BY <1>3, <1>5, <1>6, RPCType
<1>. QED
  BY <1>7 DEF Join, TypeOK

\* The burst a script's createVehicle sends is a sequence of messages.
LEMMA BurstType ==
  ASSUME NEW v \in Vid, NEW m \in Models
  PROVE  CreateBurst(v, m) \in Seq(Msg)
  BY DEF CreateBurst, SpawnVehicle, Msg

\* What arrives of the packets of a connection is a part of them.
LEMMA ArrivedType ==
  ASSUME NEW t \in Seq(Packet), NEW s \in Arrived(t)
  PROVE  s \in Seq(Packet)
<1>1. CASE s = t
  BY <1>1
<1>2. CASE t # <<>> /\ s = SubSeq(t, 1, Len(t) - 1)
  <2>1. Len(t) \in Nat /\ \A i \in 1 .. Len(t) : t[i] \in Packet
    BY ElementOfSeq, LenProperties
  <2>2. SubSeq(t, 1, Len(t) - 1) \in Seq(Packet)
    BY <2>1
  <2>. QED
    BY <1>2, <2>2
<1>. QED
  BY <1>1, <1>2 DEF Arrived

\* Every step keeps the types: the handlers store and send only what their
\* tables and messages are declared to hold.
LEMMA TypeStep ==
  ASSUME TypeOK, ReplicationAssumption, [Next]_vars
  PROVE  TypeOK'
<1>1. ASSUME NEW c \in Client, NEW p \in Pid, ConnectionSucceeded(c, p)
      PROVE  TypeOK'
  <2>1. [type |-> "InitialData", name |-> c] \in Packet
    BY DEF Packet
  <2>2. Append(inbox[p], [type |-> "InitialData", name |-> c]) \in Seq(Packet)
    BY <2>1, AppendProperties DEF TypeOK
  <2>3. inbox' \in [Pid -> Seq(Packet)] /\ early' \in SUBSET Pid
    BY <1>1, <2>2 DEF ConnectionSucceeded, TypeOK
  <2>. QED
    BY <1>1, <2>3 DEF ConnectionSucceeded, TypeOK, serverVars, clientVars,
                      ReplicationAssumption
<1>2. ASSUME NEW p \in Pid, NEW r \in {"Disconnected", "LostConnection"}, DropLink(p, r)
      PROVE  /\ link' \in [Pid -> Client \cup {NoClient}]
             /\ inbox' \in [Pid -> Seq(Packet)]
             /\ down' \in [Pid -> Seq(Msg)]
             /\ early' \in SUBSET Pid
             /\ link[p] \in Client
             /\ UNCHANGED <<players, spawned, vehicles, connects, creates>>
  <2>1. link[p] \in Client
    BY <1>2 DEF DropLink, TypeOK
  <2>2. [type |-> r, name |-> link[p]] \in Packet
    BY <2>1 DEF Packet
  <2>3. PICK s \in Arrived(inbox[p]) :
          inbox' = [inbox EXCEPT ![p] = Append(s, [type |-> r, name |-> link[p]])]
    BY <1>2 DEF DropLink
  <2>4. s \in Seq(Packet)
    BY ArrivedType DEF TypeOK
  <2>5. Append(s, [type |-> r, name |-> link[p]]) \in Seq(Packet)
    BY <2>2, <2>4, AppendProperties
  <2>6. inbox' \in [Pid -> Seq(Packet)]
    BY <2>3, <2>5 DEF TypeOK
  <2>. QED
    BY <1>2, <2>1, <2>6 DEF DropLink, TypeOK, serverVars
<1>3. ASSUME NEW p \in Pid, LostConnection(p)
      PROVE  TypeOK'
  BY <1>2, <1>3 DEF LostConnection, TypeOK, clientVars
<1>4. ASSUME NEW p \in Pid, QuitClient(p)
      PROVE  TypeOK'
  <2>1. NoTable \in [Pid -> Entry]
    BY DEF NoTable, NoEntry, Entry
  <2>. QED
    BY <1>2, <1>4, <2>1 DEF QuitClient, TypeOK, clientVars
<1>5. ASSUME NEW p \in Pid, InitialData(p)
      PROVE  TypeOK'
  <2>1. inbox[p] # <<>> /\ Head(inbox[p]) \in Packet /\ Tail(inbox[p]) \in Seq(Packet)
    BY <1>5, HeadTailProperties DEF InitialData, Packets, TypeOK
  <2>2. Head(inbox[p]).name \in Client
    BY <2>1 DEF Packet
  <2>3. inbox' \in [Pid -> Seq(Packet)]
    BY <1>5, <2>1 DEF InitialData, TypeOK
  <2>4. CASE /\ Join(p, Head(inbox[p]).name, vehicles, <<>>)
             /\ UNCHANGED creates
    <3>1. <<>> \in Seq(Msg) /\ vehicles \in [Vid -> Models \cup {NoVehicle}]
      BY DEF TypeOK
    <3>. QED
      BY <1>5, <2>2, <2>3, <2>4, <3>1, JoinType DEF InitialData, TypeOK, clientVars
  <2>5. ASSUME creates < MaxCreates, creates' = creates + 1,
               NEW v \in Vid, NEW m \in Models,
               Join(p, Head(inbox[p]).name, [vehicles EXCEPT ![v] = m], CreateBurst(v, m))
        PROVE  TypeOK'
    <3>1. [vehicles EXCEPT ![v] = m] \in [Vid -> Models \cup {NoVehicle}]
      BY DEF TypeOK
    <3>2. creates' \in 0 .. MaxCreates
      BY <2>5 DEF TypeOK, ReplicationAssumption
    <3>3. /\ players' \in [Pid -> Client \cup {NoClient}]
          /\ spawned' \in SUBSET Pid
          /\ down' \in [Pid -> Seq(Msg)]
          /\ vehicles' \in [Vid -> Models \cup {NoVehicle}]
      BY <2>2, <2>5, <3>1, BurstType, JoinType
    <3>. QED
      BY <1>5, <2>3, <3>2, <3>3 DEF InitialData, TypeOK, clientVars
  <2>. QED
    BY <1>5, <2>4, <2>5 DEF InitialData
<1>6. ASSUME NEW p \in Pid, Disconnected(p)
      PROVE  TypeOK'
  <2>1. Tail(inbox[p]) \in Seq(Packet)
    BY <1>6, HeadTailProperties DEF Disconnected, Packets, TypeOK
  <2>2. <<DeletePlayer(p)>> \in Seq(Msg)
    BY DEF DeletePlayer, Msg
  <2>3. down' \in [Pid -> Seq(Msg)]
    <3>1. down \in [Pid -> Seq(Msg)]
      BY DEF TypeOK
    <3>2. RPC(down, Active \ {p}, <<DeletePlayer(p)>>) \in [Pid -> Seq(Msg)]
      BY <2>2, <3>1, RPCType
    <3>. QED
      BY <1>6, <3>1, <3>2 DEF Disconnected, Delete
  <2>. QED
    BY <1>6, <2>1, <2>3 DEF Disconnected, Delete, TypeOK, clientVars
<1>7. ASSUME NEW p \in Pid, Receive(p)
      PROVE  TypeOK'
  <2>1. /\ link[p] \in Client
        /\ Head(down[p]) \in Msg
        /\ Tail(down[p]) \in Seq(Msg)
    BY <1>7, HeadTailProperties DEF Receive, TypeOK
  <2>2. down' \in [Pid -> Seq(Msg)]
    BY <1>7, <2>1 DEF Receive, TypeOK
  <2>. DEFINE c == link[p]
              m == Head(down[p])
  <2>3. CASE m.type = "InitialData"
    <3>1. m.id \in Pid
      BY <2>1, <2>3 DEF Msg
    <3>2. SetLocalPlayerId(net[c], m.id) \in [Pid -> Entry]
      BY <2>1, <3>1, SetLocalPlayerIdType DEF TypeOK
    <3>3. doubled' \in SUBSET Client
      BY ZenonT(60), <1>7, <2>1, <2>3 DEF Receive, TypeOK
    <3>4. /\ net' = [net EXCEPT ![c] = SetLocalPlayerId(@, m.id)]
          /\ localId' = [localId EXCEPT ![c] = m.id]
          /\ UNCHANGED netVeh
      BY <1>7, <2>3 DEF Receive
    <3>5. UNCHANGED <<link, inbox, players, spawned, vehicles, sessions, early, connects,
                      creates>>
      BY <1>7 DEF Receive, serverVars
    <3>. HIDE DEF c, m
    <3>6. net' \in [Client -> [Pid -> Entry]] /\ localId' \in [Client -> Pid \cup {NoPid}]
      BY <3>1, <3>2, <3>4 DEF TypeOK
    <3>. QED
      BY <2>2, <3>3, <3>4, <3>5, <3>6 DEF TypeOK
  <2>4. CASE m.type # "InitialData"
    <3>1. /\ ApplyToPlayers(net[c], m) \in [Pid -> Entry]
          /\ ApplyToVehicles(netVeh[c], m) \in [Vid -> Models \cup {NoVehicle}]
      BY <2>1, ApplyType DEF TypeOK
    <3>2. /\ net' = [net EXCEPT ![c] = ApplyToPlayers(@, m)]
          /\ netVeh' = [netVeh EXCEPT ![c] = ApplyToVehicles(@, m)]
          /\ UNCHANGED <<localId, doubled>>
      BY <1>7, <2>4 DEF Receive
    <3>3. UNCHANGED <<link, inbox, players, spawned, vehicles, sessions, early, connects,
                      creates>>
      BY <1>7 DEF Receive, serverVars
    <3>. HIDE DEF c, m
    <3>4. net' \in [Client -> [Pid -> Entry]]
      BY <3>1, <3>2 DEF TypeOK
    <3>5. netVeh' \in [Client -> [Vid -> Models \cup {NoVehicle}]]
      BY <3>1, <3>2 DEF TypeOK
    <3>. QED
      BY <2>2, <3>2, <3>3, <3>4, <3>5 DEF TypeOK
  <2>. QED
    BY <2>3, <2>4
<1>8. ASSUME NEW m \in Models, CreateVehicle(m)
      PROVE  TypeOK'
  <2>1. PICK v \in Vid : /\ vehicles' = [vehicles EXCEPT ![v] = m]
                         /\ down' = RPC(down, Active, CreateBurst(v, m))
    BY <1>8 DEF CreateVehicle
  <2>2. down' \in [Pid -> Seq(Msg)]
    BY <2>1, BurstType, RPCType DEF TypeOK
  <2>. QED
    BY <1>8, <2>1, <2>2 DEF CreateVehicle, TypeOK, clientVars, ReplicationAssumption
<1>9. ASSUME NEW v \in Vid, DeleteVehicle(v)
      PROVE  TypeOK'
  <2>1. <<DestroyVehicle(v)>> \in Seq(Msg)
    BY DEF DestroyVehicle, Msg
  <2>2. down' \in [Pid -> Seq(Msg)]
    BY <1>9, <2>1, RPCType DEF DeleteVehicle, TypeOK
  <2>. QED
    BY <1>9, <2>2 DEF DeleteVehicle, TypeOK, clientVars
<1>10. CASE UNCHANGED vars
  BY <1>10 DEF TypeOK, vars
<1>. QED
  BY <1>1, <1>3, <1>4, <1>5, <1>6, <1>7, <1>8, <1>9, <1>10 DEF Next

\* Type correctness: no handler of the server or of a client stores or sends a
\* value outside the declared tables and messages.
THEOREM ReplicationTypes == Spec => []TypeOK
<1>1. Init => TypeOK
  <2>. SUFFICES ASSUME Init PROVE TypeOK
    OBVIOUS
  <2>1. NoTable \in [Pid -> Entry]
    BY DEF NoTable, NoEntry, Entry
  <2>. QED
    BY <2>1, ReplicationAssumption DEF Init, TypeOK, ReplicationAssumption
<1>2. TypeOK /\ [Next]_vars => TypeOK'
  BY TypeStep, ReplicationAssumption
<1>. QED
  BY <1>1, <1>2, PTL DEF Spec

-----------------------------------------------------------------------------
(* The phases of a slot *)

\* A step that leaves a slot alone leaves its phase alone.
LEMMA PhaseFrame ==
  ASSUME NEW p \in Pid, SlotPhase(p), p \in early => p \in early',
         link'[p] = link[p], inbox'[p] = inbox[p], players'[p] = players[p]
  PROVE  SlotPhase(p)'
  BY DEF SlotPhase

\* The order of the packets s of a slot whose player is pl: an InitialData comes
\* after a departure, or first where there is no player.
Alternating(s, pl) ==
  \A i \in 1 .. Len(s) : s[i].type = "InitialData" =>
    IF i = 1 THEN pl = NoClient ELSE s[i - 1].type # "InitialData"

\* Handling the first packet leaves the others in order, whatever becomes of the
\* player: another InitialData is not the next.
LEMMA AlternatingTail ==
  ASSUME NEW s \in Seq(Packet), s # <<>>, NEW pl, NEW new, Alternating(s, pl),
         s[1].type = "InitialData" \/ new = NoClient
  PROVE  Alternating(Tail(s), new)
<1>. DEFINE t == Tail(s)
<1>1. /\ Len(s) \in Nat /\ Len(t) = Len(s) - 1
      /\ \A i \in 1 .. Len(t) : t[i] = s[i + 1]
  BY HeadTailProperties, LenProperties
<1>. HIDE DEF t
<1>2. ASSUME NEW i \in 1 .. Len(t), t[i].type = "InitialData"
      PROVE  IF i = 1 THEN new = NoClient ELSE t[i - 1].type # "InitialData"
  <2>1. i + 1 \in 1 .. Len(s) /\ s[i + 1].type = "InitialData"
    BY <1>1, <1>2
  <2>2. s[(i + 1) - 1].type # "InitialData"
    BY <2>1 DEF Alternating
  <2>3. CASE i = 1
    BY <2>2, <2>3
  <2>4. CASE i # 1
    <3>1. i - 1 \in 1 .. Len(t) /\ t[i - 1] = s[i]
      BY <1>1, <2>4
    <3>. QED
      BY <2>2, <2>4, <3>1
  <2>. QED
    BY <2>3, <2>4
<1>. QED
  BY <1>2 DEF Alternating, t

\* So does a packet at the end, an InitialData after a departure only.
LEMMA AlternatingAppend ==
  ASSUME NEW s \in Seq(Packet), NEW pl, Alternating(s, pl), NEW m \in Packet,
         m.type = "InitialData" =>
           IF s = <<>> THEN pl = NoClient ELSE s[Len(s)].type # "InitialData"
  PROVE  /\ Alternating(Append(s, m), pl)
         /\ Append(s, m) # <<>>
         /\ Append(s, m)[Len(Append(s, m))] = m
         /\ s = <<>> => Len(Append(s, m)) = 1
<1>. DEFINE t == Append(s, m)
<1>1. /\ Len(s) \in Nat /\ Len(t) = Len(s) + 1 /\ t[Len(s) + 1] = m /\ t # <<>>
      /\ \A i \in 1 .. Len(s) : t[i] = s[i]
      /\ s = <<>> <=> Len(s) = 0
  BY AppendProperties, LenProperties, EmptySeq
<1>. HIDE DEF t
<1>2. ASSUME NEW i \in 1 .. Len(t), t[i].type = "InitialData"
      PROVE  IF i = 1 THEN pl = NoClient ELSE t[i - 1].type # "InitialData"
  <2>1. CASE i = Len(s) + 1
    <3>1. t[i] = m
      BY <1>1, <2>1
    <3>2. CASE i = 1
      BY <1>1, <1>2, <2>1, <3>1, <3>2
    <3>3. CASE i # 1
      <4>1. i - 1 \in 1 .. Len(s) /\ i - 1 = Len(s) /\ s # <<>>
        BY <1>1, <2>1, <3>3
      <4>2. t[i - 1] = s[Len(s)]
        BY <1>1, <4>1
      <4>. QED
        BY <1>2, <3>1, <3>3, <4>1, <4>2
    <3>. QED
      BY <3>2, <3>3
  <2>2. CASE i # Len(s) + 1
    <3>1. i \in 1 .. Len(s) /\ t[i] = s[i]
      BY <1>1, <2>2
    <3>2. CASE i = 1
      BY <1>2, <3>1, <3>2 DEF Alternating
    <3>3. CASE i # 1
      <4>1. i - 1 \in 1 .. Len(s) /\ t[i - 1] = s[i - 1]
        BY <1>1, <3>1, <3>3
      <4>. QED
        BY <1>2, <3>1, <3>3, <4>1 DEF Alternating
    <3>. QED
      BY <3>2, <3>3
  <2>. QED
    BY <2>1, <2>2
<1>. QED
  BY <1>1, <1>2 DEF Alternating, t

\* What arrives of the packets of a connection is in order, and does not end with
\* the InitialData that was lost.
LEMMA AlternatingArrived ==
  ASSUME NEW t \in Seq(Packet), NEW pl, Alternating(t, pl), NEW s \in Arrived(t)
  PROVE  Alternating(s, pl)
<1>1. CASE s = t
  BY <1>1
<1>2. CASE t # <<>> /\ s = SubSeq(t, 1, Len(t) - 1)
  <2>1. Len(t) \in Nat /\ Len(t) > 0
    BY <1>2, LenProperties, EmptySeq
  <2>2. \A i \in 1 .. Len(t) - 1 : t[i] \in Packet
    BY <2>1, ElementOfSeq
  <2>3. PICK n \in Nat : n = Len(t) - 1
    BY <2>1
  <2>4. Len(s) = n /\ \A i \in 1 .. n : s[i] = t[i]
    <3>1. s = SubSeq(t, 1, n) /\ \A i \in 1 .. n : t[i] \in Packet
      BY <1>2, <2>2, <2>3
    <3>2. /\ Len(SubSeq(t, 1, n)) = IF 1 <= n THEN n - 1 + 1 ELSE 0
          /\ \A i \in 1 .. n - 1 + 1 : SubSeq(t, 1, n)[i] = t[1 + i - 1]
      BY <3>1, SubSeqProperties
    <3>3. n - 1 + 1 = n /\ \A i \in 1 .. n : 1 + i - 1 = i
      OBVIOUS
    <3>. QED
      BY <3>1, <3>2, <3>3
  <2>. QED
    BY <2>3, <2>4 DEF Alternating
<1>. QED
  BY <1>1, <1>2 DEF Arrived

\* A slot in its phase: the order of its packets, and what the last one is.
LEMMA PhaseParts ==
  ASSUME NEW p \in Pid
  PROVE  SlotPhase(p) <=>
           /\ Alternating(inbox[p], players[p])
           /\ inbox[p] = <<>> => players[p] = link[p]
           /\ inbox[p] # <<>> /\ link[p] = NoClient =>
                inbox[p][Len(inbox[p])].type # "InitialData"
           /\ inbox[p] # <<>> /\ link[p] # NoClient =>
                /\ inbox[p][Len(inbox[p])] = [type |-> "InitialData", name |-> link[p]]
                /\ p \in early \/ Len(inbox[p]) = 1
  BY DEF SlotPhase, Alternating

\* What is left of the packets of a slot, and the last packet when none is left.
LEMMA PhaseTail ==
  ASSUME TypeOK, NEW p \in Pid, SlotPhase(p), inbox[p] # <<>>
  PROVE  /\ inbox[p] \in Seq(Packet) /\ Head(inbox[p]) = inbox[p][1]
         /\ Head(inbox[p]) \in Packet /\ Head(inbox[p]).name \in Client
         /\ Tail(inbox[p]) \in Seq(Packet)
         /\ Tail(inbox[p]) # <<>> =>
              Tail(inbox[p])[Len(Tail(inbox[p]))] = inbox[p][Len(inbox[p])]
         /\ link[p] # NoClient /\ p \notin early => Tail(inbox[p]) = <<>>
         /\ Tail(inbox[p]) = <<>> =>
              IF link[p] = NoClient THEN Head(inbox[p]).type # "InitialData"
              ELSE Head(inbox[p]) = [type |-> "InitialData", name |-> link[p]]
<1>. DEFINE s == inbox[p]
            t == Tail(inbox[p])
<1>1. s \in Seq(Packet) /\ s # <<>>
  BY DEF TypeOK
<1>2. /\ Head(s) = s[1] /\ Head(s) \in Packet /\ t \in Seq(Packet)
      /\ Len(s) \in Nat /\ Len(t) = Len(s) - 1 /\ Len(t) \in Nat
      /\ \A i \in 1 .. Len(t) : t[i] = s[i + 1]
      /\ t = <<>> <=> Len(t) = 0
  <2>. HIDE DEF s
  <2>1. /\ Head(s) = s[1] /\ Head(s) \in Packet /\ t \in Seq(Packet)
        /\ Len(t) = Len(s) - 1 /\ \A i \in 1 .. Len(t) : t[i] = s[i + 1]
    BY <1>1, HeadTailProperties DEF s
  <2>2. Len(s) \in Nat /\ Len(t) \in Nat
    BY <1>1, <2>1, LenProperties
  <2>. HIDE DEF t
  <2>3. t = <<>> <=> Len(t) = 0
    BY <2>1, EmptySeq
  <2>. QED
    BY <2>1, <2>2, <2>3
<1>3. Head(s).name \in Client
  BY <1>2 DEF Packet
<1>. HIDE DEF s, t
<1>4. t # <<>> => t[Len(t)] = s[Len(s)]
  BY <1>2
<1>5. t = <<>> <=> Len(s) = 1
  BY <1>2
<1>6. link[p] # NoClient /\ p \notin early => Len(s) = 1
  BY <1>1, PhaseParts DEF s
<1>7. t = <<>> => IF link[p] = NoClient THEN Head(s).type # "InitialData"
                  ELSE Head(s) = [type |-> "InitialData", name |-> link[p]]
  BY <1>1, <1>2, <1>5, PhaseParts DEF s
<1>. QED
  BY <1>1, <1>2, <1>3, <1>4, <1>5, <1>6, <1>7 DEF s, t

\* One step of the phases of every slot: packets come in at the end in their
\* order, and the server handles them in that order, so that a player is deleted
\* before the slot is joined again however early it was taken.
LEMMA PhaseStep ==
  ASSUME TypeOK, TypeOK', ReplicationAssumption, SlotPhases, [Next]_vars
  PROVE  SlotPhases'
<1>0. \A q \in Pid : SlotPhase(q) /\ inbox[q] \in Seq(Packet)
  BY DEF SlotPhases, TypeOK
<1>1. ASSUME NEW c \in Client, NEW p \in Pid, ConnectionSucceeded(c, p)
      PROVE  SlotPhases'
  <2>. DEFINE m == [type |-> "InitialData", name |-> c]
  <2>1. /\ m \in Packet /\ m.type = "InitialData" /\ c # NoClient
        /\ link[p] = NoClient /\ link'[p] = c /\ players' = players /\ spawned' = spawned
        /\ inbox'[p] = Append(inbox[p], m)
        /\ inbox[p] # <<>> => p \in early'
    BY <1>1 DEF ConnectionSucceeded, Packet, TypeOK, serverVars, ReplicationAssumption
  <2>. HIDE DEF m
  <2>2. /\ Alternating(inbox[p], players[p])
        /\ IF inbox[p] = <<>> THEN players[p] = NoClient
           ELSE inbox[p][Len(inbox[p])].type # "InitialData"
    BY <1>0, <2>1, PhaseParts
  <2>3. /\ Alternating(inbox'[p], players[p])
        /\ inbox'[p] # <<>> /\ inbox'[p][Len(inbox'[p])] = m
        /\ inbox[p] = <<>> => Len(inbox'[p]) = 1
    BY <1>0, <2>1, <2>2, AlternatingAppend
  <2>4. SlotPhase(p)'
    BY <2>1, <2>3 DEF SlotPhase, Alternating, m
  <2>5. ASSUME NEW q \in Pid, q # p
        PROVE  SlotPhase(q)'
    BY <1>0, <1>1, <2>5, PhaseFrame DEF ConnectionSucceeded, TypeOK, serverVars
  <2>6. spawned' = Active'
    BY <2>1 DEF SlotPhases, Active
  <2>. QED
    BY <2>4, <2>5, <2>6 DEF SlotPhases
<1>2. ASSUME NEW p \in Pid, NEW r \in {"Disconnected", "LostConnection"}, DropLink(p, r)
      PROVE  SlotPhases'
  <2>. DEFINE m == [type |-> r, name |-> link[p]]
  <2>1. /\ m \in Packet /\ m.type # "InitialData"
        /\ link'[p] = NoClient /\ players' = players /\ spawned' = spawned
    BY <1>2 DEF DropLink, Packet, TypeOK, serverVars
  <2>2. PICK s \in Arrived(inbox[p]) : inbox'[p] = Append(s, m)
    BY <1>2 DEF DropLink, TypeOK
  <2>. HIDE DEF m
  <2>3. s \in Seq(Packet) /\ Alternating(s, players[p])
    BY <1>0, ArrivedType, AlternatingArrived, PhaseParts
  <2>4. /\ Alternating(inbox'[p], players[p])
        /\ inbox'[p] # <<>> /\ inbox'[p][Len(inbox'[p])] = m
    BY <2>1, <2>2, <2>3, AlternatingAppend
  <2>5. SlotPhase(p)'
    BY <2>1, <2>4 DEF SlotPhase, Alternating
  <2>6. ASSUME NEW q \in Pid, q # p
        PROVE  SlotPhase(q)'
    BY <1>0, <1>2, <2>6, PhaseFrame DEF DropLink, TypeOK, serverVars
  <2>7. spawned' = Active'
    BY <2>1 DEF SlotPhases, Active
  <2>. QED
    BY <2>5, <2>6, <2>7 DEF SlotPhases
<1>3. ASSUME NEW p \in Pid, inbox[p] # <<>>, inbox' = [inbox EXCEPT ![p] = Tail(@)],
             link' = link, early' = early, NEW pl \in Client \cup {NoClient},
             players' = [players EXCEPT ![p] = pl],
             IF Head(inbox[p]).type = "InitialData" THEN pl = Head(inbox[p]).name
             ELSE pl = NoClient
      PROVE  \A q \in Pid : SlotPhase(q)'
  <2>. DEFINE t == Tail(inbox[p])
  <2>1. inbox'[p] = t /\ players'[p] = pl
    BY <1>3 DEF TypeOK
  <2>2. /\ Head(inbox[p]) = inbox[p][1] /\ t \in Seq(Packet)
        /\ t # <<>> => t[Len(t)] = inbox[p][Len(inbox[p])]
        /\ link[p] # NoClient /\ p \notin early => t = <<>>
        /\ t = <<>> => IF link[p] = NoClient THEN Head(inbox[p]).type # "InitialData"
                       ELSE Head(inbox[p]) = [type |-> "InitialData", name |-> link[p]]
    BY <1>0, <1>3, PhaseTail
  <2>. HIDE DEF t
  <2>3. Alternating(t, pl)
    BY <1>0, <1>3, <2>2, AlternatingTail, PhaseParts DEF t
  <2>4. t = <<>> => pl = link[p]
    BY <1>3, <2>2
  <2>5. /\ inbox[p] # <<>> /\ link[p] = NoClient =>
             inbox[p][Len(inbox[p])].type # "InitialData"
        /\ inbox[p] # <<>> /\ link[p] # NoClient =>
             inbox[p][Len(inbox[p])] = [type |-> "InitialData", name |-> link[p]]
    BY <1>0, PhaseParts
  <2>6. SlotPhase(p)'
    BY <1>3, <2>1, <2>2, <2>3, <2>4, <2>5 DEF SlotPhase, Alternating
  <2>7. ASSUME NEW q \in Pid, q # p
        PROVE  SlotPhase(q)'
    BY <1>0, <1>3, <2>7, PhaseFrame DEF TypeOK
  <2>. QED
    BY <2>6, <2>7
<1>4. ASSUME NEW p \in Pid, InitialData(p)
      PROVE  SlotPhases'
  <2>. DEFINE c == Head(inbox[p]).name
  <2>1. /\ inbox[p] # <<>> /\ Head(inbox[p]).type = "InitialData"
        /\ inbox' = [inbox EXCEPT ![p] = Tail(@)]
        /\ link' = link /\ early' = early
    BY <1>4 DEF InitialData, Packets
  <2>2. c \in Client /\ Head(inbox[p]) = inbox[p][1] /\ inbox[p] \in Seq(Packet)
    BY <1>0, <2>1, PhaseTail
  <2>3. p \notin Active
    <3>1. 1 \in 1 .. Len(inbox[p])
      BY <2>1, <2>2, LenProperties, EmptySeq
    <3>. QED
      BY <1>0, <2>1, <2>2, <3>1 DEF SlotPhase, Active
  <2>4. players' = [players EXCEPT ![p] = c] /\ spawned' = spawned \cup {p}
    BY <1>4, <2>3 DEF InitialData, Join
  <2>5. \A q \in Pid : SlotPhase(q)'
    BY <1>3, <2>1, <2>2, <2>4
  <2>6. spawned' = Active'
    BY <2>2, <2>4 DEF SlotPhases, Active, TypeOK, ReplicationAssumption
  <2>. QED
    BY <2>5, <2>6 DEF SlotPhases
<1>5. ASSUME NEW p \in Pid, Disconnected(p)
      PROVE  SlotPhases'
  <2>1. /\ inbox[p] # <<>> /\ Head(inbox[p]).type # "InitialData"
        /\ inbox' = [inbox EXCEPT ![p] = Tail(@)]
        /\ link' = link /\ early' = early
    BY <1>5 DEF Disconnected, Packets
  <2>2. players' = [players EXCEPT ![p] = NoClient] /\ spawned' = spawned \ {p}
    BY <1>5 DEF Disconnected, Delete, SlotPhases, Active, TypeOK
  <2>3. \A q \in Pid : SlotPhase(q)'
    BY <1>3, <2>1, <2>2
  <2>4. spawned' = Active'
    BY <2>2 DEF SlotPhases, Active, TypeOK
  <2>. QED
    BY <2>3, <2>4 DEF SlotPhases
<1>6. CASE UNCHANGED <<link, inbox, players, spawned, early>>
  BY <1>6 DEF SlotPhases, SlotPhase, Active
<1>. QED
  BY <1>1, <1>2, <1>4, <1>5, <1>6
     DEF Next, vars, LostConnection, QuitClient, Receive, CreateVehicle, DeleteVehicle,
         serverVars

\* Connection, packets and player of a slot stay in step, however early the slot
\* is taken again: InitialData always finds it without a player, so the result of
\* Add that the handler ignores is true.
THEOREM ReplicationSlotPhases == Spec => []SlotPhases
<1>1. Init => SlotPhases
  BY DEF Init, SlotPhases, SlotPhase, Active
<1>2. TypeOK /\ TypeOK' /\ SlotPhases /\ [Next]_vars => SlotPhases'
  BY PhaseStep, ReplicationAssumption
<1>. QED
  BY <1>1, <1>2, ReplicationTypes, PTL DEF Spec

\* However early a slot is taken again, a join finds no player in it, and with no
\* packet left the player the server keeps there is the client connected.
THEOREM ReplicationSlotBelongsToLink == Spec => []SlotBelongsToLink
<1>1. TypeOK /\ SlotPhases => SlotBelongsToLink
  <2>. SUFFICES ASSUME TypeOK, SlotPhases, NEW p \in Pid
                PROVE  /\ Packets(p, {"InitialData"}) => players[p] = NoClient
                       /\ inbox[p] = <<>> => players[p] = link[p]
    BY DEF SlotBelongsToLink
  <2>1. SlotPhase(p)
    BY DEF SlotPhases
  <2>2. inbox[p] = <<>> => players[p] = link[p]
    BY <2>1 DEF SlotPhase
  <2>3. ASSUME Packets(p, {"InitialData"})
        PROVE  players[p] = NoClient
    <3>1. inbox[p] # <<>> /\ inbox[p] \in Seq(Packet)
      BY <2>3 DEF Packets, TypeOK
    <3>2. inbox[p][1].type = "InitialData"
      BY <2>3, <3>1 DEF Packets
    <3>3. 1 \in 1 .. Len(inbox[p])
      BY <3>1, LenProperties, EmptySeq
    <3>. QED
      BY <2>1, <3>2, <3>3 DEF SlotPhase
  <2>. QED
    BY <2>2, <2>3
<1>. QED
  BY <1>1, ReplicationTypes, ReplicationSlotPhases, PTL

-----------------------------------------------------------------------------
(* No player is told about itself *)

\* The RPCs slot p may get: a player RPC among them is about another slot, and
\* InitialData tells the client its own.
AboutOthers(p) ==
  {m \in Msg : /\ m.type \in {"AddPlayer", "SpawnPlayer", "DeletePlayer"} => m.id # p
               /\ m.type = "InitialData" => m.id = p}

\* NoSelfTraffic as a type of the queues, which sending and receiving keep.
Discreet(d) == d \in [Pid -> Seq(Msg)] /\ \A p \in Pid : d[p] \in Seq(AboutOthers(p))

\* RPCs that every addressee may get keep the queues discreet.
LEMMA RPCDiscreet ==
  ASSUME NEW d, Discreet(d), NEW T, NEW s \in Seq(Msg),
         \A p \in Pid \cap T : s \in Seq(AboutOthers(p))
  PROVE  Discreet(RPC(d, T, s))
<1>1. RPC(d, T, s) \in [Pid -> Seq(Msg)]
  BY RPCType DEF Discreet
<1>2. ASSUME NEW p \in Pid
      PROVE  RPC(d, T, s)[p] \in Seq(AboutOthers(p))
  <2>1. d[p] \in Seq(AboutOthers(p))
    BY DEF Discreet
  <2>2. CASE p \in T /\ link[p] # NoClient
    <3>1. s \in Seq(AboutOthers(p))
      BY <2>2
    <3>2. d[p] \o s \in Seq(AboutOthers(p))
      BY <2>1, <3>1, ConcatProperties
    <3>. QED
      BY <2>2, <3>2 DEF RPC
  <2>3. CASE ~(p \in T /\ link[p] # NoClient)
    BY <2>1, <2>3 DEF RPC
  <2>. QED
    BY <2>2, <2>3
<1>. QED
  BY <1>1, <1>2 DEF Discreet

\* A join announces the player to the others and lists the others to it.
LEMMA JoinDiscreet ==
  ASSUME TypeOK, ReplicationAssumption, Discreet(down), NEW p \in Pid, NEW c \in Client,
         NEW veh \in [Vid -> Models \cup {NoVehicle}], NEW burst \in Seq(Msg),
         \A q \in Pid : burst \in Seq(AboutOthers(q)),
         Join(p, c, veh, burst)
  PROVE  Discreet(down')
<1>. DEFINE others == Active \ {p}
            announced == IF p \in Active THEN down
                         ELSE RPC(down, others, <<AddPlayer(p, c)>>)
            scripted == RPC(announced, others \cup {p}, burst)
<1>1. /\ <<AddPlayer(p, c)>> \in Seq(Msg)
      /\ <<SpawnPlayer(p)>> \in Seq(Msg)
      /\ \A q \in Pid \cap others : /\ <<AddPlayer(p, c)>> \in Seq(AboutOthers(q))
                                   /\ <<SpawnPlayer(p)>> \in Seq(AboutOthers(q))
  BY DEF Msg, AddPlayer, SpawnPlayer, AboutOthers
<1>2. PICK ps \in Listings(PlayerDump(p)), vs \in Listings(VehicleDump(veh)) :
        down' = RPC(RPC(scripted, {p}, <<InitialDataRPC(p)>> \o ps \o vs),
                    others, <<SpawnPlayer(p)>>)
  BY DEF Join
<1>3. Discreet(scripted)
  <2>1. Discreet(announced)
    <3>. HIDE DEF others
    <3>1. Discreet(RPC(down, others, <<AddPlayer(p, c)>>))
      BY <1>1, RPCDiscreet
    <3>. QED
      BY <3>1
  <2>. HIDE DEF announced, others
  <2>. QED
    BY <2>1, RPCDiscreet
<1>4. <<InitialDataRPC(p)>> \in Seq(AboutOthers(p))
  BY DEF Msg, InitialDataRPC, AboutOthers
<1>5. ps \in Seq(AboutOthers(p)) /\ vs \in Seq(AboutOthers(p))
  <2>1. /\ PlayerDump(p) \subseteq Msg /\ IsFiniteSet(PlayerDump(p))
        /\ VehicleDump(veh) \subseteq Msg /\ IsFiniteSet(VehicleDump(veh))
    BY PlayerDumpType, VehicleDumpType
  <2>2. PlayerDump(p) \subseteq AboutOthers(p)
    BY <2>1 DEF PlayerDump, AboutOthers, AddPlayer, SpawnPlayer
  <2>3. VehicleDump(veh) \subseteq AboutOthers(p)
    BY <2>1 DEF VehicleDump, AboutOthers, SpawnVehicle
  <2>. QED
    BY <2>1, <2>2, <2>3, ListingType
<1>. DEFINE dump == <<InitialDataRPC(p)>> \o ps \o vs
<1>6. dump \in Seq(AboutOthers(p))
  BY <1>4, <1>5, ConcatProperties
<1>. HIDE DEF dump, scripted, others
<1>7. dump \in Seq(Msg)
  BY <1>6 DEF AboutOthers
<1>8. Discreet(RPC(scripted, {p}, dump))
  BY <1>3, <1>6, <1>7, RPCDiscreet
<1>. QED
  BY <1>1, <1>2, <1>8, RPCDiscreet DEF dump

\* No step puts an RPC about a player on the way to that player.
LEMMA DiscreetStep ==
  ASSUME TypeOK, ReplicationAssumption, Discreet(down), [Next]_vars
  PROVE  Discreet(down')
<1>1. ASSUME NEW p \in Pid, down' = [down EXCEPT ![p] = <<>>]
      PROVE  Discreet(down')
  BY <1>1 DEF Discreet
<1>2. ASSUME NEW v \in Vid, NEW m \in Models, NEW q \in Pid
      PROVE  CreateBurst(v, m) \in Seq(AboutOthers(q))
  BY DEF CreateBurst, SpawnVehicle, Msg, AboutOthers
<1>3. ASSUME NEW p \in Pid, InitialData(p)
      PROVE  Discreet(down')
  <2>. DEFINE c == Head(inbox[p]).name
  <2>1. c \in Client
    <3>1. inbox[p] \in Seq(Packet) /\ inbox[p] # <<>>
      BY <1>3 DEF InitialData, Packets, TypeOK
    <3>2. Head(inbox[p]) \in Packet
      BY <3>1, HeadTailProperties
    <3>. QED
      BY <3>2 DEF Packet
  <2>2. \/ Join(p, c, vehicles, <<>>)
        \/ \E v \in Vid, m \in Models :
             Join(p, c, [vehicles EXCEPT ![v] = m], CreateBurst(v, m))
    BY <1>3 DEF InitialData
  <2>. HIDE DEF c
  <2>3. CASE Join(p, c, vehicles, <<>>)
    <3>1. /\ vehicles \in [Vid -> Models \cup {NoVehicle}]
          /\ <<>> \in Seq(Msg)
          /\ \A q \in Pid : <<>> \in Seq(AboutOthers(q))
      BY DEF TypeOK
    <3>. QED
      BY <2>1, <2>3, <3>1, JoinDiscreet
  <2>4. ASSUME NEW v \in Vid, NEW m \in Models,
               Join(p, c, [vehicles EXCEPT ![v] = m], CreateBurst(v, m))
        PROVE  Discreet(down')
    <3>1. [vehicles EXCEPT ![v] = m] \in [Vid -> Models \cup {NoVehicle}]
      BY DEF TypeOK
    <3>. QED
      BY <1>2, <2>1, <2>4, <3>1, BurstType, JoinDiscreet
  <2>. QED
    BY <2>2, <2>3, <2>4
<1>4. ASSUME NEW p \in Pid, Disconnected(p)
      PROVE  Discreet(down')
  <2>1. <<DeletePlayer(p)>> \in Seq(Msg)
    BY DEF DeletePlayer, Msg
  <2>2. \A q \in Pid \cap (Active \ {p}) : <<DeletePlayer(p)>> \in Seq(AboutOthers(q))
    BY DEF DeletePlayer, Msg, AboutOthers
  <2>3. Discreet(RPC(down, Active \ {p}, <<DeletePlayer(p)>>))
    <3>. DEFINE T == Active \ {p}
    <3>. HIDE DEF T
    <3>1. \A q \in Pid \cap T : <<DeletePlayer(p)>> \in Seq(AboutOthers(q))
      BY <2>2 DEF T
    <3>2. Discreet(RPC(down, T, <<DeletePlayer(p)>>))
      BY <2>1, <3>1, RPCDiscreet
    <3>. QED
      BY <3>2 DEF T
  <2>. QED
    BY <1>4, <2>3 DEF Disconnected, Delete
<1>5. ASSUME NEW m \in Models, CreateVehicle(m)
      PROVE  Discreet(down')
  <2>1. PICK v \in Vid : down' = RPC(down, Active, CreateBurst(v, m))
    BY <1>5 DEF CreateVehicle
  <2>. QED
    BY <1>2, <2>1, BurstType, RPCDiscreet
<1>6. ASSUME NEW v \in Vid, DeleteVehicle(v)
      PROVE  Discreet(down')
  <2>1. /\ <<DestroyVehicle(v)>> \in Seq(Msg)
        /\ \A q \in Pid : <<DestroyVehicle(v)>> \in Seq(AboutOthers(q))
    BY DEF DestroyVehicle, Msg, AboutOthers
  <2>2. down' = RPC(down, Active, <<DestroyVehicle(v)>>)
    BY <1>6 DEF DeleteVehicle
  <2>. QED
    BY <2>1, <2>2, RPCDiscreet
<1>7. ASSUME NEW p \in Pid, Receive(p)
      PROVE  Discreet(down')
  <2>1. down[p] \in Seq(AboutOthers(p)) /\ down[p] # <<>> /\ down[p] \in Seq(Msg)
    BY <1>7 DEF Receive, Discreet
  <2>2. Tail(down[p]) \in Seq(AboutOthers(p)) /\ Tail(down[p]) \in Seq(Msg)
    BY <2>1, HeadTailProperties
  <2>. QED
    BY <1>7, <2>2 DEF Receive, Discreet
<1>8. CASE UNCHANGED down
  BY <1>8
<1>. QED
  BY <1>1, <1>3, <1>4, <1>5, <1>6, <1>7, <1>8
     DEF Next, vars, ConnectionSucceeded, LostConnection, QuitClient, DropLink

\* What is on its way to a slot is about others, and InitialData about itself.
THEOREM ReplicationDiscreet == Spec => []Discreet(down)
<1>1. Init => Discreet(down)
  BY DEF Init, Discreet
<1>2. TypeOK /\ Discreet(down) /\ [Next]_vars => Discreet(down')
  BY DiscreetStep, ReplicationAssumption
<1>3. Discreet(down)' <=> Discreet(down')
  BY DEF Discreet
<1>. QED
  BY <1>1, <1>2, <1>3, ReplicationTypes, PTL DEF Spec

\* However players join, spawn and leave, and whatever a script does to the
\* vehicles meanwhile, no player RPC is ever on its way to the player it is about.
THEOREM ReplicationNoSelfTraffic == Spec => []NoSelfTraffic
<1>1. Discreet(down) => NoSelfTraffic
  <2>. SUFFICES ASSUME Discreet(down), NEW p \in Pid, NEW i \in 1 .. Len(down[p])
                PROVE  down[p][i] \in AboutOthers(p)
    BY DEF NoSelfTraffic, AboutOthers
  <2>1. down[p] \in Seq(AboutOthers(p))
    BY DEF Discreet
  <2>. QED
    BY <2>1, ElementOfSeq
<1>. QED
  BY <1>1, ReplicationDiscreet, PTL
-----------------------------------------------------------------------------
(***************************************************************************)
(* What a client holds once every RPC on its way is applied.               *)
(*                                                                         *)
(* The argument follows one slot of one client's table at a time.  The RPCs*)
(* still on their way take the client's entry, one applicable step after   *)
(* the other, to what the server holds: a Run.  A handler of the server    *)
(* lengthens the run at its end, the client shortens it at its head.       *)
(***************************************************************************)
(* Runs *)

\* The messages of s, in order, take e to f by steps of R through values of E.
Run(R, E, s, e, f) ==
  \E T \in [1 .. Len(s) + 1 -> E] :
    /\ T[1] = e
    /\ T[Len(s) + 1] = f
    /\ \A i \in 1 .. Len(s) : <<T[i], s[i], T[i + 1]>> \in R

\* With nothing on its way the value is already the last one.
LEMMA RunEmpty ==
  ASSUME NEW R, NEW E, NEW e, NEW f
  PROVE  Run(R, E, <<>>, e, f) => e = f
  BY DEF Run

\* Messages that change nothing are a run from a value to itself.
LEMMA RunFrame ==
  ASSUME NEW R, NEW E, NEW e \in E, NEW s \in Seq(Msg),
         \A i \in 1 .. Len(s) : <<e, s[i], e>> \in R
  PROVE  Run(R, E, s, e, e)
<1>. DEFINE T == [i \in 1 .. Len(s) + 1 |-> e]
<1>1. Len(s) \in Nat /\ \A i \in 1 .. Len(s) : s[i] \in Msg
  BY ElementOfSeq, LenProperties
<1>2. T \in [1 .. Len(s) + 1 -> E] /\ T[1] = e /\ T[Len(s) + 1] = e
  BY <1>1
<1>3. \A i \in 1 .. Len(s) : T[i] = e /\ T[i + 1] = e
  BY <1>1
<1>. HIDE DEF T
<1>4. \A i \in 1 .. Len(s) : <<T[i], s[i], T[i + 1]>> \in R
  BY <1>1, <1>3
<1>. QED
  BY <1>2, <1>4 DEF Run

\* Runs compose: what is sent later is applied later.
LEMMA RunConcat ==
  ASSUME NEW R, NEW E, NEW s \in Seq(Msg), NEW t \in Seq(Msg), NEW e, NEW f, NEW g,
         Run(R, E, s, e, f), Run(R, E, t, f, g)
  PROVE  Run(R, E, s \o t, e, g)
<1>1. PICK S \in [1 .. Len(s) + 1 -> E] :
        /\ S[1] = e
        /\ S[Len(s) + 1] = f
        /\ \A i \in 1 .. Len(s) : <<S[i], s[i], S[i + 1]>> \in R
  BY DEF Run
<1>2. PICK T \in [1 .. Len(t) + 1 -> E] :
        /\ T[1] = f
        /\ T[Len(t) + 1] = g
        /\ \A i \in 1 .. Len(t) : <<T[i], t[i], T[i + 1]>> \in R
  BY DEF Run
<1>3. /\ Len(s) \in Nat /\ Len(t) \in Nat
      /\ Len(s \o t) = Len(s) + Len(t)
      /\ \A i \in 1 .. Len(s) + Len(t) :
           (s \o t)[i] = IF i <= Len(s) THEN s[i] ELSE t[i - Len(s)]
  BY ConcatProperties, LenProperties
<1>. DEFINE U == [i \in 1 .. Len(s \o t) + 1 |->
                    IF i <= Len(s) THEN S[i] ELSE T[i - Len(s)]]
<1>4. U \in [1 .. Len(s \o t) + 1 -> E]
  <2>. SUFFICES ASSUME NEW i \in 1 .. Len(s) + Len(t) + 1
                PROVE  (IF i <= Len(s) THEN S[i] ELSE T[i - Len(s)]) \in E
    BY <1>3
  <2>1. CASE i <= Len(s)
    BY <1>3, <2>1
  <2>2. CASE ~(i <= Len(s))
    <3>1. i - Len(s) \in 1 .. Len(t) + 1
      BY <1>3, <2>2
    <3>. QED
      BY <2>2, <3>1
  <2>. QED
    BY <2>1, <2>2
<1>5. U[1] = e /\ U[Len(s \o t) + 1] = g
  <2>1. CASE Len(s) = 0
    BY <1>1, <1>2, <1>3, <2>1
  <2>2. CASE Len(s) > 0
    BY <1>1, <1>2, <1>3, <2>2
  <2>. QED
    BY <1>3, <2>1, <2>2
<1>6. ASSUME NEW i \in 1 .. Len(s \o t)
      PROVE  <<U[i], (s \o t)[i], U[i + 1]>> \in R
  <2>1. CASE i < Len(s)
    <3>1. U[i] = S[i] /\ U[i + 1] = S[i + 1] /\ (s \o t)[i] = s[i] /\ i \in 1 .. Len(s)
      BY <1>3, <2>1
    <3>. HIDE DEF U
    <3>. QED
      BY <1>1, <3>1
  <2>2. CASE i = Len(s)
    <3>1. U[i] = S[i] /\ U[i + 1] = T[1] /\ (s \o t)[i] = s[i] /\ i \in 1 .. Len(s)
      BY <1>3, <2>2
    <3>2. <<S[i], s[i], S[i + 1]>> \in R /\ S[i + 1] = T[1]
      BY <1>1, <1>2, <2>2, <3>1
    <3>. HIDE DEF U
    <3>. QED
      BY <3>1, <3>2
  <2>3. CASE i > Len(s)
    <3>0. i \in Nat /\ i <= Len(s) + Len(t) /\ Len(s) \in Nat /\ Len(t) \in Nat
      BY <1>3
    <3>1. PICK j \in 1 .. Len(t) : j = i - Len(s)
      <4>1. i - Len(s) \in 1 .. Len(t)
        BY <2>3, <3>0
      <4>. QED
        BY <4>1
    <3>2. U[i] = T[j] /\ U[i + 1] = T[j + 1] /\ (s \o t)[i] = t[j]
      BY <1>3, <2>3, <3>1
    <3>. HIDE DEF U
    <3>. QED
      BY <1>2, <3>2
  <2>4. i < Len(s) \/ i = Len(s) \/ i > Len(s)
    BY <1>3
  <2>. QED
    BY <2>1, <2>2, <2>3, <2>4
<1>. HIDE DEF U
<1>. QED
  BY <1>4, <1>5, <1>6 DEF Run

\* The first message of a run takes the value to where the rest of it starts.
LEMMA RunHead ==
  ASSUME NEW R, NEW E, NEW s \in Seq(Msg), s # <<>>, NEW e, NEW f, Run(R, E, s, e, f)
  PROVE  \E g \in E : e \in E /\ <<e, Head(s), g>> \in R /\ Run(R, E, Tail(s), g, f)
<1>1. PICK T \in [1 .. Len(s) + 1 -> E] :
        /\ T[1] = e
        /\ T[Len(s) + 1] = f
        /\ \A i \in 1 .. Len(s) : <<T[i], s[i], T[i + 1]>> \in R
  BY DEF Run
<1>2. /\ Len(s) \in Nat \ {0}
      /\ Len(Tail(s)) = Len(s) - 1
      /\ \A i \in 1 .. Len(Tail(s)) : Tail(s)[i] = s[i + 1]
      /\ Head(s) = s[1]
  BY HeadTailProperties, EmptySeq
<1>. DEFINE U == [i \in 1 .. Len(Tail(s)) + 1 |-> T[i + 1]]
<1>3. U \in [1 .. Len(Tail(s)) + 1 -> E] /\ U[1] = T[2] /\ U[Len(Tail(s)) + 1] = f
  BY <1>1, <1>2
<1>4. ASSUME NEW i \in 1 .. Len(Tail(s))
      PROVE  <<U[i], Tail(s)[i], U[i + 1]>> \in R
  <2>1. /\ U[i] = T[i + 1] /\ U[i + 1] = T[(i + 1) + 1] /\ Tail(s)[i] = s[i + 1]
        /\ i + 1 \in 1 .. Len(s)
    BY <1>2
  <2>. HIDE DEF U
  <2>. QED
    BY <1>1, <2>1
<1>. HIDE DEF U
<1>5. Run(R, E, Tail(s), T[2], f)
  BY <1>3, <1>4 DEF Run
<1>6. T[2] \in E /\ e \in E /\ <<e, Head(s), T[2]>> \in R
  BY <1>1, <1>2
<1>. QED
  BY <1>5, <1>6

\* A single message is a run of one step.
LEMMA RunSingle ==
  ASSUME NEW R, NEW E, NEW m, NEW e \in E, NEW f \in E, <<e, m, f>> \in R
  PROVE  Run(R, E, <<m>>, e, f)
<1>. DEFINE T == [i \in 1 .. 2 |-> IF i = 1 THEN e ELSE f]
<1>1. Len(<<m>>) = 1 /\ <<m>>[1] = m
  OBVIOUS
<1>2. T \in [1 .. 1 + 1 -> E] /\ T[1] = e /\ T[2] = f /\ T[1 + 1] = f
  OBVIOUS
<1>. HIDE DEF T
<1>3. \A i \in 1 .. 1 : <<T[i], <<m>>[i], T[i + 1]>> \in R
  BY <1>1, <1>2
<1>. QED
  BY <1>1, <1>2, <1>3 DEF Run

\* A sequence in which one message takes e to f and all others leave both alone.
LEMMA RunOnce ==
  ASSUME NEW R, NEW E, NEW s \in Seq(Msg), NEW e \in E, NEW f \in E,
         NEW k \in 1 .. Len(s), <<e, s[k], f>> \in R,
         \A i \in 1 .. k - 1 : <<e, s[i], e>> \in R,
         \A i \in k + 1 .. Len(s) : <<f, s[i], f>> \in R
  PROVE  Run(R, E, s, e, f)
<1>. DEFINE T == [i \in 1 .. Len(s) + 1 |-> IF i <= k THEN e ELSE f]
<1>1. Len(s) \in Nat
  BY LenProperties
<1>2. T \in [1 .. Len(s) + 1 -> E] /\ T[1] = e /\ T[Len(s) + 1] = f
  BY <1>1
<1>3. ASSUME NEW i \in 1 .. Len(s)
      PROVE  <<T[i], s[i], T[i + 1]>> \in R
  <2>1. CASE i < k
    <3>1. T[i] = e /\ T[i + 1] = e /\ i \in 1 .. k - 1
      BY <1>1, <2>1
    <3>. HIDE DEF T
    <3>. QED
      BY <3>1
  <2>2. CASE i = k
    <3>1. T[i] = e /\ T[i + 1] = f
      BY <1>1, <2>2
    <3>. HIDE DEF T
    <3>. QED
      BY <2>2, <3>1
  <2>3. CASE i > k
    <3>1. T[i] = f /\ T[i + 1] = f /\ i \in k + 1 .. Len(s)
      BY <1>1, <2>3
    <3>. HIDE DEF T
    <3>. QED
      BY <3>1
  <2>. QED
    BY <1>1, <2>1, <2>2, <2>3
<1>. HIDE DEF T
<1>. QED
  BY <1>2, <1>3 DEF Run

\* The same with two messages that change the value, one after the other.
LEMMA RunTwice ==
  ASSUME NEW R, NEW E, NEW s \in Seq(Msg), NEW e \in E, NEW f \in E, NEW g \in E,
         NEW k \in 1 .. Len(s), NEW l \in 1 .. Len(s), k < l,
         <<e, s[k], f>> \in R, <<f, s[l], g>> \in R,
         \A i \in 1 .. Len(s) : i # k /\ i # l =>
           <<e, s[i], e>> \in R /\ <<f, s[i], f>> \in R /\ <<g, s[i], g>> \in R
  PROVE  Run(R, E, s, e, g)
<1>. DEFINE T == [i \in 1 .. Len(s) + 1 |-> IF i <= k THEN e ELSE IF i <= l THEN f ELSE g]
<1>1. Len(s) \in Nat
  BY LenProperties
<1>2. T \in [1 .. Len(s) + 1 -> E] /\ T[1] = e /\ T[Len(s) + 1] = g
  BY <1>1
<1>3. ASSUME NEW i \in 1 .. Len(s)
      PROVE  <<T[i], s[i], T[i + 1]>> \in R
  <2>1. CASE i = k
    <3>1. T[i] = e /\ T[i + 1] = f
      BY <1>1, <2>1
    <3>. HIDE DEF T
    <3>. QED
      BY <2>1, <3>1
  <2>2. CASE i = l
    <3>1. T[i] = f /\ T[i + 1] = g
      BY <1>1, <2>2
    <3>. HIDE DEF T
    <3>. QED
      BY <2>2, <3>1
  <2>3. CASE i # k /\ i # l
    <3>1. T[i] = T[i + 1] /\ T[i] \in {e, f, g}
      BY <1>1, <2>3
    <3>. HIDE DEF T
    <3>. QED
      BY <2>3, <3>1
  <2>. QED
    BY <2>1, <2>2, <2>3
<1>. HIDE DEF T
<1>. QED
  BY <1>2, <1>3 DEF Run

-----------------------------------------------------------------------------
(* Steps of one entry *)

\* Message m is a player RPC about slot q.
About(m, q) == m.type \in {"AddPlayer", "SpawnPlayer", "DeletePlayer"} /\ m.id = q

\* What a player RPC does to entry q where it does what its name says.
PlayerStep(q) ==
  {x \in Entry \X Msg \X Entry :
     \/ ~About(x[2], q) /\ x[3] = x[1]
     \/ /\ x[2].type = "AddPlayer" /\ x[2].id = q
        /\ x[1] = NoEntry /\ x[3] = Remote(x[2].name)
     \/ /\ x[2].type = "SpawnPlayer" /\ x[2].id = q
        /\ x[1].kind = "remote" /\ ~x[1].spawned
        /\ x[3] = [kind |-> "remote", name |-> x[1].name, spawned |-> TRUE]
     \/ /\ x[2].type = "DeletePlayer" /\ x[2].id = q
        /\ x[1].kind = "remote" /\ x[3] = NoEntry}

\* What an RPC does to entry v of a table of vehicles.
Vehicle == Models \cup {NoVehicle}

VehicleStep(v) ==
  {x \in Vehicle \X Msg \X Vehicle :
     \/ ~(x[2].type \in {"SpawnVehicle", "DestroyVehicle"} /\ x[2].id = v) /\ x[3] = x[1]
     \/ /\ x[2].type = "SpawnVehicle" /\ x[2].id = v
        /\ x[3] = IF x[1] = NoVehicle THEN x[2].model ELSE x[1]
     \/ x[2].type = "DestroyVehicle" /\ x[2].id = v /\ x[3] = NoVehicle}

\* What is sure about an entry whatever the table held before: after an
\* AddPlayer or a SpawnVehicle it is there, until an RPC that may clear it.
Presence == {"unknown", "there"}

PlayerPresence(q) ==
  {x \in Presence \X Msg \X Presence :
     x[3] = "there" =>
       \/ x[2].type = "AddPlayer" /\ x[2].id = q
       \/ /\ x[1] = "there"
          /\ ~(x[2].type = "DeletePlayer" /\ x[2].id = q)
          /\ x[2].type # "InitialData"}

VehiclePresence(v) ==
  {x \in Presence \X Msg \X Presence :
     x[3] = "there" =>
       \/ x[2].type = "SpawnVehicle" /\ x[2].id = v
       \/ x[1] = "there" /\ ~(x[2].type = "DestroyVehicle" /\ x[2].id = v)}

\* An RPC that is not about an entry leaves it alone.
LEMMA StepFrames ==
  ASSUME NEW m \in Msg
  PROVE  /\ \A q : \A e \in Entry : ~About(m, q) => <<e, m, e>> \in PlayerStep(q)
         /\ \A v : \A x \in Vehicle :
              m.type \notin {"SpawnVehicle", "DestroyVehicle"} \/ m.id # v
                => <<x, m, x>> \in VehicleStep(v)
         /\ \A v : \A x \in Vehicle :
              m.type = "SpawnVehicle" /\ m.model = x => <<x, m, x>> \in VehicleStep(v)
         /\ \A q : <<"unknown", m, "unknown">> \in PlayerPresence(q)
         /\ \A q : m.type # "InitialData" /\ (m.type = "DeletePlayer" => m.id # q)
                     => <<"there", m, "there">> \in PlayerPresence(q)
         /\ \A v : <<"unknown", m, "unknown">> \in VehiclePresence(v)
         /\ \A v : (m.type = "DestroyVehicle" => m.id # v)
                     => <<"there", m, "there">> \in VehiclePresence(v)
<1>1. \A q : \A e \in Entry : ~About(m, q) => <<e, m, e>> \in PlayerStep(q)
  BY DEF PlayerStep
<1>2. \A v : \A x \in Vehicle :
        m.type \notin {"SpawnVehicle", "DestroyVehicle"} \/ m.id # v
          => <<x, m, x>> \in VehicleStep(v)
  BY DEF VehicleStep
<1>3. \A v : \A x \in Vehicle :
        m.type = "SpawnVehicle" /\ m.model = x => <<x, m, x>> \in VehicleStep(v)
  BY DEF VehicleStep
<1>4. \A q : <<"unknown", m, "unknown">> \in PlayerPresence(q)
  BY DEF PlayerPresence, Presence
<1>5. \A q : m.type # "InitialData" /\ (m.type = "DeletePlayer" => m.id # q)
               => <<"there", m, "there">> \in PlayerPresence(q)
  BY DEF PlayerPresence, Presence
<1>6. \A v : <<"unknown", m, "unknown">> \in VehiclePresence(v)
  BY DEF VehiclePresence, Presence
<1>7. \A v : (m.type = "DestroyVehicle" => m.id # v)
               => <<"there", m, "there">> \in VehiclePresence(v)
  BY DEF VehiclePresence, Presence
<1>. QED
  BY <1>1, <1>2, <1>3, <1>4, <1>5, <1>6, <1>7

\* Spawning an entry keeps what it names.
LEMMA SpawnedEntry ==
  ASSUME NEW e \in Entry
  PROVE  [e EXCEPT !.spawned = TRUE]
           = [kind |-> e.kind, name |-> e.name, spawned |-> TRUE]
<1>. DEFINE k == e.kind
            n == e.name
            b == e.spawned
            t == TRUE
<1>1. e = [kind |-> k, name |-> n, spawned |-> b]
  BY DEF Entry
<1>. HIDE DEF k, n, b, t
<1>2. [e EXCEPT !.spawned = t] = [kind |-> k, name |-> n, spawned |-> t]
  BY <1>1
<1>. QED
  BY <1>2, Zenon DEF k, n, t

\* A listing of a set of messages holds each of them, once, by rank.
LEMMA ListingComplete ==
  ASSUME ReplicationAssumption, NEW S, IsFiniteSet(S), S \subseteq Msg, NEW s \in Listings(S)
  PROVE  /\ s \in Seq(Msg)
         /\ \A i \in 1 .. Len(s) : s[i] \in S
         /\ \A m \in S : \E i \in 1 .. Len(s) : s[i] = m
         /\ \A i, j \in 1 .. Len(s) : i < j => Rank(s[i]) < Rank(s[j])
<1>1. s \in Seq(Msg) /\ Cardinality(S) \in Nat
  BY ListingType, FS_CardinalityType
<1>2. s \in [1 .. Cardinality(S) -> S] /\ Len(s) = Cardinality(S)
  <2>1. s \in [1 .. Cardinality(S) -> S]
    BY DEF Listings
  <2>. QED
    BY <1>1, <2>1, LenProperties
<1>3. \A i, j \in 1 .. Len(s) : i < j => Rank(s[i]) < Rank(s[j])
  BY <1>2 DEF Listings
<1>4. \A m \in Msg : Rank(m) \in Int
  BY DEF Rank, Msg, Pid, Vid, ReplicationAssumption
<1>5. s \in Injection(1 .. Cardinality(S), S)
  <2>1. ASSUME NEW i \in 1 .. Cardinality(S), NEW j \in 1 .. Cardinality(S), i # j
        PROVE  s[i] # s[j]
    <3>1. Rank(s[i]) \in Int /\ Rank(s[j]) \in Int
      BY <1>2, <1>4
    <3>2. i < j \/ j < i
      BY <1>1, <2>1
    <3>3. Rank(s[i]) < Rank(s[j]) \/ Rank(s[j]) < Rank(s[i])
      BY <1>2, <1>3, <3>2
    <3>. QED
      BY <3>1, <3>3
  <2>. QED
    BY <1>2, <2>1 DEF Injection, IsInjective
<1>6. s \in Surjection(1 .. Cardinality(S), S)
  <2>1. Cardinality(1 .. Cardinality(S)) = Cardinality(S)
    BY <1>1, FS_Interval
  <2>. QED
    BY <1>5, <2>1, FS_Injection
<1>7. \A m \in S : \E i \in 1 .. Len(s) : s[i] = m
  BY <1>2, <1>6 DEF Surjection
<1>. QED
  BY <1>1, <1>2, <1>3, <1>7

-----------------------------------------------------------------------------
(* What HandlePlayerJoin lists *)

\* The players listed to p take an empty table to the server's, in every slot
\* but p's own, whatever the order of the slots.
LEMMA PlayerDumpRuns ==
  ASSUME TypeOK, ReplicationAssumption, spawned = Active, NEW p \in Pid,
         NEW ps \in Listings(PlayerDump(p))
  PROVE  /\ ps \in Seq(Msg)
         /\ \A i \in 1 .. Len(ps) : ps[i].type \in {"AddPlayer", "SpawnPlayer"}
         /\ \A q \in Pid \ {p} : Run(PlayerStep(q), Entry, ps, NoEntry, Mirror(p, q))
         /\ \A q \in Active \ {p} :
              Run(PlayerPresence(q), Presence, ps, "unknown", "there")
<1>1. /\ ps \in Seq(Msg)
      /\ \A i \in 1 .. Len(ps) : ps[i] \in PlayerDump(p) /\ ps[i] \in Msg
      /\ \A m \in PlayerDump(p) : \E i \in 1 .. Len(ps) : ps[i] = m
      /\ \A i, j \in 1 .. Len(ps) : i < j => Rank(ps[i]) < Rank(ps[j])
  BY PlayerDumpType, ListingComplete
<1>2. /\ \A i \in 1 .. Len(ps) : ps[i].type \in {"AddPlayer", "SpawnPlayer"}
      /\ \A i \in 1 .. Len(ps) : ps[i].id \in Active
  BY <1>1 DEF PlayerDump, AddPlayer, SpawnPlayer
<1>3. NoEntry \in Entry /\ \A q \in Active : Remote(players[q]) \in Entry
  BY DEF NoEntry, Remote, Entry, Active, TypeOK
<1>4. \A i \in 1 .. Len(ps) : \A q : About(ps[i], q) =>
        ps[i] = AddPlayer(q, players[q]) \/ ps[i] = SpawnPlayer(q)
  BY <1>1 DEF PlayerDump, AddPlayer, SpawnPlayer, About
<1>5. ASSUME NEW q \in Active \ {p}
      PROVE  \E k, l \in 1 .. Len(ps) :
               /\ k < l
               /\ ps[k] = AddPlayer(q, players[q]) /\ ps[l] = SpawnPlayer(q)
               /\ \A i \in 1 .. Len(ps) : i # k /\ i # l => ~About(ps[i], q)
  <2>1. AddPlayer(q, players[q]) \in PlayerDump(p) /\ SpawnPlayer(q) \in PlayerDump(p)
    BY DEF PlayerDump
  <2>2. PICK k \in 1 .. Len(ps) : ps[k] = AddPlayer(q, players[q])
    BY <1>1, <2>1
  <2>3. PICK l \in 1 .. Len(ps) : ps[l] = SpawnPlayer(q)
    BY <1>1, <2>1
  <2>4. q \in Int
    BY DEF Active, Pid, ReplicationAssumption
  <2>5. Rank(ps[k]) = 2 * q /\ Rank(ps[l]) = 2 * q + 1
    BY <2>2, <2>3, <2>4 DEF Rank, AddPlayer, SpawnPlayer
  <2>6. Len(ps) \in Nat
    BY <1>1, LenProperties
  <2>7. k < l
    BY <1>1, <2>4, <2>5, <2>6
  <2>8. ASSUME NEW i \in 1 .. Len(ps), i # k, i # l
        PROVE  ~About(ps[i], q)
    <3>1. Rank(ps[i]) \in Int
      BY <1>1, <1>2 DEF Rank, Active, Pid, ReplicationAssumption
    <3>2. Rank(ps[i]) # 2 * q /\ Rank(ps[i]) # 2 * q + 1
      <4>1. i < k \/ k < i
        BY <2>6, <2>8
      <4>2. i < l \/ l < i
        BY <2>6, <2>8
      <4>3. Rank(ps[i]) < Rank(ps[k]) \/ Rank(ps[k]) < Rank(ps[i])
        BY <1>1, <4>1
      <4>4. Rank(ps[i]) < Rank(ps[l]) \/ Rank(ps[l]) < Rank(ps[i])
        BY <1>1, <4>2
      <4>. QED
        BY <2>4, <2>5, <3>1, <4>3, <4>4
    <3>3. ps[i] # AddPlayer(q, players[q]) /\ ps[i] # SpawnPlayer(q)
      BY <2>2, <2>3, <2>5, <3>2
    <3>. QED
      BY <1>4, <3>3
  <2>. QED
    BY <2>2, <2>3, <2>7, <2>8
<1>6. ASSUME NEW q \in Pid \ {p}
      PROVE  Run(PlayerStep(q), Entry, ps, NoEntry, Mirror(p, q))
  <2>1. CASE q \in Active
    <3>. DEFINE e == Remote(players[q])
                f == [kind |-> "remote", name |-> players[q], spawned |-> TRUE]
    <3>1. PICK k \in 1 .. Len(ps), l \in 1 .. Len(ps) :
            /\ k < l
            /\ ps[k] = AddPlayer(q, players[q]) /\ ps[l] = SpawnPlayer(q)
            /\ \A i \in 1 .. Len(ps) : i # k /\ i # l => ~About(ps[i], q)
      BY <1>5, <2>1
    <3>2. e \in Entry /\ f \in Entry /\ f = Mirror(p, q)
      <4>1. players[q] \in Client /\ players[q] # NoClient /\ q # p
        BY <2>1 DEF Active, TypeOK
      <4>2. e \in Entry /\ f \in Entry
        BY <4>1 DEF Remote, Entry
      <4>. QED
        BY <4>1, <4>2 DEF Mirror, Active
    <3>3. <<NoEntry, ps[k], e>> \in PlayerStep(q)
      <4>1. ps[k] \in Msg /\ ps[k].type = "AddPlayer" /\ ps[k].id = q
            /\ ps[k].name = players[q]
        BY <1>1, <3>1 DEF AddPlayer
      <4>. HIDE DEF f
      <4>. QED
        BY <1>3, <3>2, <4>1 DEF PlayerStep
    <3>4. <<e, ps[l], f>> \in PlayerStep(q)
      <4>1. ps[l] \in Msg /\ ps[l].type = "SpawnPlayer" /\ ps[l].id = q
        BY <1>1, <3>1 DEF SpawnPlayer
      <4>2. e.kind = "remote" /\ ~e.spawned /\ e.name = players[q]
        BY DEF Remote
      <4>. HIDE DEF e
      <4>. QED
        BY <3>2, <4>1, <4>2 DEF PlayerStep
    <3>5. \A i \in 1 .. Len(ps) : i # k /\ i # l =>
            /\ <<NoEntry, ps[i], NoEntry>> \in PlayerStep(q)
            /\ <<e, ps[i], e>> \in PlayerStep(q)
            /\ <<f, ps[i], f>> \in PlayerStep(q)
      <4>. HIDE DEF e, f
      <4>. QED
        BY <1>1, <1>3, <3>1, <3>2, StepFrames
    <3>6. Run(PlayerStep(q), Entry, ps, NoEntry, f)
      <4>. HIDE DEF e, f
      <4>. QED
        BY <1>1, <1>3, <3>1, <3>2, <3>3, <3>4, <3>5, RunTwice
    <3>. QED
      BY <3>2, <3>6
  <2>2. CASE q \notin Active
    <3>1. \A i \in 1 .. Len(ps) : ~About(ps[i], q)
      BY <1>2, <2>2 DEF About
    <3>2. \A i \in 1 .. Len(ps) : <<NoEntry, ps[i], NoEntry>> \in PlayerStep(q)
      BY <1>1, <1>3, <3>1, StepFrames
    <3>3. Run(PlayerStep(q), Entry, ps, NoEntry, NoEntry)
      BY <1>1, <1>3, <3>2, RunFrame
    <3>4. Mirror(p, q) = NoEntry
      BY <2>2 DEF Mirror, Active
    <3>. QED
      BY <3>3, <3>4
  <2>. QED
    BY <2>1, <2>2
<1>7. ASSUME NEW q \in Active \ {p}
      PROVE  Run(PlayerPresence(q), Presence, ps, "unknown", "there")
  <2>1. PICK k \in 1 .. Len(ps) : ps[k] = AddPlayer(q, players[q])
    BY <1>5
  <2>2. <<"unknown", ps[k], "there">> \in PlayerPresence(q)
    BY <1>1, <2>1 DEF PlayerPresence, Presence, AddPlayer
  <2>3. \A i \in 1 .. Len(ps) :
          /\ <<"unknown", ps[i], "unknown">> \in PlayerPresence(q)
          /\ <<"there", ps[i], "there">> \in PlayerPresence(q)
    BY <1>1, <1>2, StepFrames
  <2>4. Len(ps) \in Nat /\ "unknown" \in Presence /\ "there" \in Presence
    BY <1>1, LenProperties DEF Presence
  <2>5. /\ \A i \in 1 .. k - 1 : i \in 1 .. Len(ps)
        /\ \A i \in k + 1 .. Len(ps) : i \in 1 .. Len(ps)
    BY <2>4
  <2>6. /\ \A i \in 1 .. k - 1 : <<"unknown", ps[i], "unknown">> \in PlayerPresence(q)
        /\ \A i \in k + 1 .. Len(ps) : <<"there", ps[i], "there">> \in PlayerPresence(q)
    BY <2>3, <2>5
  <2>. QED
    BY <1>1, <2>2, <2>4, <2>6, RunOnce
<1>. QED
  BY <1>1, <1>2, <1>6, <1>7

\* The vehicles listed take an entry that is empty, or that a script's burst has
\* filled already, to the server's.
LEMMA VehicleDumpRuns ==
  ASSUME ReplicationAssumption, NEW veh \in [Vid -> Vehicle],
         NEW vs \in Listings(VehicleDump(veh))
  PROVE  /\ vs \in Seq(Msg)
         /\ \A i \in 1 .. Len(vs) : vs[i].type = "SpawnVehicle"
         /\ \A v \in Vid : \A x \in {NoVehicle, veh[v]} :
              Run(VehicleStep(v), Vehicle, vs, x, veh[v])
         /\ \A v \in Vid : veh[v] # NoVehicle =>
              Run(VehiclePresence(v), Presence, vs, "unknown", "there")
<1>1. /\ vs \in Seq(Msg)
      /\ \A i \in 1 .. Len(vs) : vs[i] \in VehicleDump(veh) /\ vs[i] \in Msg
      /\ \A m \in VehicleDump(veh) : \E i \in 1 .. Len(vs) : vs[i] = m
      /\ \A i, j \in 1 .. Len(vs) : i < j => Rank(vs[i]) < Rank(vs[j])
  BY VehicleDumpType, ListingComplete DEF Vehicle
<1>2. \A i \in 1 .. Len(vs) : /\ vs[i].type = "SpawnVehicle"
                              /\ vs[i].id \in Vid
                              /\ vs[i].model = veh[vs[i].id]
  BY <1>1 DEF VehicleDump, SpawnVehicle
<1>3. Len(vs) \in Nat /\ NoVehicle \in Vehicle /\ \A v \in Vid : veh[v] \in Vehicle /\ v \in Int
  BY <1>1, LenProperties DEF Vehicle, Vid, ReplicationAssumption
<1>4. ASSUME NEW v \in Vid
      PROVE  \A i \in 1 .. Len(vs) : <<veh[v], vs[i], veh[v]>> \in VehicleStep(v)
  BY <1>1, <1>2, <1>3, StepFrames
<1>5. ASSUME NEW v \in Vid, veh[v] # NoVehicle
      PROVE  \E k \in 1 .. Len(vs) :
               /\ vs[k].id = v
               /\ \A i \in 1 .. k - 1 : i \in 1 .. Len(vs) /\ vs[i].id # v
               /\ \A i \in k + 1 .. Len(vs) : i \in 1 .. Len(vs)
  <2>1. SpawnVehicle(v, veh[v]) \in VehicleDump(veh)
    BY <1>5 DEF VehicleDump
  <2>2. PICK k \in 1 .. Len(vs) : vs[k] = SpawnVehicle(v, veh[v])
    BY <1>1, <2>1
  <2>3. vs[k].id = v
    BY <2>2 DEF SpawnVehicle
  <2>4. /\ \A i \in 1 .. k - 1 : i \in 1 .. Len(vs) /\ i < k
        /\ \A i \in k + 1 .. Len(vs) : i \in 1 .. Len(vs)
    BY <1>3
  <2>5. ASSUME NEW i \in 1 .. k - 1
        PROVE  vs[i].id # v
    <3>1. Rank(vs[i]) < Rank(vs[k])
      BY <1>1, <2>4
    <3>2. Rank(vs[i]) = 2 * vs[i].id /\ Rank(vs[k]) = 2 * v /\ vs[i].id \in Int
      BY <1>2, <1>3, <2>3, <2>4 DEF Rank
    <3>. QED
      BY <1>3, <3>1, <3>2
  <2>. QED
    BY <2>3, <2>4, <2>5
<1>6. ASSUME NEW v \in Vid
      PROVE  Run(VehicleStep(v), Vehicle, vs, NoVehicle, veh[v])
  <2>1. CASE veh[v] = NoVehicle
    BY <1>1, <1>3, <1>4, <2>1, RunFrame
  <2>2. CASE veh[v] # NoVehicle
    <3>1. PICK k \in 1 .. Len(vs) :
            /\ vs[k].id = v
            /\ \A i \in 1 .. k - 1 : i \in 1 .. Len(vs) /\ vs[i].id # v
            /\ \A i \in k + 1 .. Len(vs) : i \in 1 .. Len(vs)
      BY <1>5, <2>2
    <3>2. <<NoVehicle, vs[k], veh[v]>> \in VehicleStep(v)
      BY <1>1, <1>2, <1>3, <3>1 DEF VehicleStep
    <3>3. \A i \in 1 .. k - 1 : <<NoVehicle, vs[i], NoVehicle>> \in VehicleStep(v)
      BY <1>1, <1>3, <3>1, StepFrames
    <3>4. \A i \in k + 1 .. Len(vs) : <<veh[v], vs[i], veh[v]>> \in VehicleStep(v)
      BY <1>4, <3>1
    <3>. QED
      BY <1>1, <1>3, <3>2, <3>3, <3>4, RunOnce
  <2>. QED
    BY <2>1, <2>2
<1>7. ASSUME NEW v \in Vid
      PROVE  Run(VehicleStep(v), Vehicle, vs, veh[v], veh[v])
  BY <1>1, <1>3, <1>4, RunFrame
<1>8. ASSUME NEW v \in Vid, veh[v] # NoVehicle
      PROVE  Run(VehiclePresence(v), Presence, vs, "unknown", "there")
  <2>1. PICK k \in 1 .. Len(vs) :
          /\ vs[k].id = v
          /\ \A i \in 1 .. k - 1 : i \in 1 .. Len(vs) /\ vs[i].id # v
          /\ \A i \in k + 1 .. Len(vs) : i \in 1 .. Len(vs)
    BY <1>5, <1>8
  <2>2. <<"unknown", vs[k], "there">> \in VehiclePresence(v)
    BY <1>1, <1>2, <2>1 DEF VehiclePresence, Presence
  <2>3. /\ \A i \in 1 .. k - 1 : <<"unknown", vs[i], "unknown">> \in VehiclePresence(v)
        /\ \A i \in k + 1 .. Len(vs) : <<"there", vs[i], "there">> \in VehiclePresence(v)
    <3>1. \A i \in 1 .. Len(vs) : vs[i].type # "DestroyVehicle" /\ vs[i] \in Msg
      BY <1>1, <1>2
    <3>. QED
      BY <2>1, <3>1, StepFrames
  <2>4. "unknown" \in Presence /\ "there" \in Presence
    BY DEF Presence
  <2>. QED
    BY <1>1, <2>2, <2>3, <2>4, RunOnce
<1>. QED
  BY <1>1, <1>2, <1>6, <1>7, <1>8

\* A script runs createVehicle at most once, before a join is answered.
Scripted(veh, burst) ==
  \/ veh = vehicles /\ burst = <<>>
  \/ \E v \in Vid, m \in Models :
       /\ FirstFree(v)
       /\ veh = [vehicles EXCEPT ![v] = m]
       /\ burst = CreateBurst(v, m)

\* The doubled SpawnVehicle of a new vehicle is applied once.
LEMMA BurstRuns ==
  ASSUME TypeOK, ReplicationAssumption, NEW veh, NEW burst, Scripted(veh, burst)
  PROVE  /\ veh \in [Vid -> Vehicle]
         /\ burst \in Seq(Msg)
         /\ \A i \in 1 .. Len(burst) : burst[i] \in Msg /\ burst[i].type = "SpawnVehicle"
         /\ \A v \in Vid : vehicles[v] # NoVehicle => veh[v] = vehicles[v]
         /\ \A v \in Vid : Run(VehicleStep(v), Vehicle, burst, vehicles[v], veh[v])
         /\ \A v \in Vid : vehicles[v] # NoVehicle =>
              Run(VehicleStep(v), Vehicle, burst, NoVehicle, NoVehicle)
         /\ \A v \in Vid : veh[v] # NoVehicle /\ vehicles[v] = NoVehicle =>
              Run(VehiclePresence(v), Presence, burst, "unknown", "there")
<1>1. CASE veh = vehicles /\ burst = <<>>
  <2>1. veh \in [Vid -> Vehicle] /\ burst \in Seq(Msg) /\ Len(burst) = 0
    BY <1>1 DEF TypeOK, Vehicle
  <2>2. ASSUME NEW v \in Vid
        PROVE  Run(VehicleStep(v), Vehicle, burst, vehicles[v], veh[v])
    <3>1. vehicles[v] \in Vehicle /\ veh[v] = vehicles[v]
      BY <1>1 DEF TypeOK, Vehicle
    <3>2. \A i \in 1 .. Len(burst) : <<vehicles[v], burst[i], vehicles[v]>> \in VehicleStep(v)
      BY <2>1
    <3>3. Run(VehicleStep(v), Vehicle, burst, vehicles[v], vehicles[v])
      BY <2>1, <3>1, <3>2, RunFrame
    <3>. QED
      BY <3>1, <3>3
  <2>3. ASSUME NEW v \in Vid
        PROVE  Run(VehicleStep(v), Vehicle, burst, NoVehicle, NoVehicle)
    <3>1. \A i \in 1 .. Len(burst) : <<NoVehicle, burst[i], NoVehicle>> \in VehicleStep(v)
      BY <2>1
    <3>. QED
      BY <2>1, <3>1, RunFrame DEF Vehicle
  <2>. QED
    BY <1>1, <2>1, <2>2, <2>3
<1>2. ASSUME NEW u \in Vid, NEW m \in Models, FirstFree(u),
             veh = [vehicles EXCEPT ![u] = m], burst = CreateBurst(u, m)
      PROVE  /\ veh \in [Vid -> Vehicle]
             /\ burst \in Seq(Msg)
             /\ \A i \in 1 .. Len(burst) : burst[i] \in Msg /\ burst[i].type = "SpawnVehicle"
             /\ \A v \in Vid : vehicles[v] # NoVehicle => veh[v] = vehicles[v]
             /\ \A v \in Vid : Run(VehicleStep(v), Vehicle, burst, vehicles[v], veh[v])
             /\ \A v \in Vid : vehicles[v] # NoVehicle =>
                  Run(VehicleStep(v), Vehicle, burst, NoVehicle, NoVehicle)
             /\ \A v \in Vid : veh[v] # NoVehicle /\ vehicles[v] = NoVehicle =>
                  Run(VehiclePresence(v), Presence, burst, "unknown", "there")
  <2>. DEFINE w == SpawnVehicle(u, m)
  <2>1. w \in Msg /\ w.type = "SpawnVehicle" /\ w.id = u /\ w.model = m
    BY DEF SpawnVehicle, Msg
  <2>2. burst = <<w, w>>
    BY <1>2 DEF CreateBurst
  <2>. HIDE DEF w
  <2>3. burst \in Seq(Msg) /\ Len(burst) = 2 /\ burst[1] = w /\ burst[2] = w
    BY <2>1, <2>2
  <2>4. /\ vehicles[u] = NoVehicle
        /\ veh \in [Vid -> Vehicle] /\ veh[u] = m
        /\ \A v \in Vid : v # u => veh[v] = vehicles[v]
        /\ m # NoVehicle
        /\ \A v \in Vid : vehicles[v] \in Vehicle
        /\ m \in Vehicle /\ NoVehicle \in Vehicle
    BY <1>2 DEF FirstFree, FreeVid, TypeOK, Vehicle, ReplicationAssumption
  <2>5. /\ \A i \in 1 .. 1 - 1 : FALSE
        /\ \A i \in 1 + 1 .. Len(burst) : burst[i] = w
        /\ \A i \in 1 .. Len(burst) : burst[i] = w
        /\ 1 \in 1 .. Len(burst)
    BY <2>3
  <2>6. Run(VehicleStep(u), Vehicle, burst, NoVehicle, m)
    <3>1. <<NoVehicle, w, m>> \in VehicleStep(u)
      BY <2>1, <2>4 DEF VehicleStep
    <3>2. <<m, w, m>> \in VehicleStep(u)
      BY <2>1, <2>4, StepFrames
    <3>3. /\ <<NoVehicle, burst[1], m>> \in VehicleStep(u)
          /\ \A i \in 1 .. 1 - 1 : <<NoVehicle, burst[i], NoVehicle>> \in VehicleStep(u)
          /\ \A i \in 1 + 1 .. Len(burst) : <<m, burst[i], m>> \in VehicleStep(u)
      BY <2>3, <2>5, <3>1, <3>2
    <3>. QED
      BY <2>3, <2>4, <2>5, <3>3, RunOnce
  <2>7. ASSUME NEW v \in Vid, v # u
        PROVE  Run(VehicleStep(v), Vehicle, burst, vehicles[v], veh[v])
    <3>1. <<vehicles[v], w, vehicles[v]>> \in VehicleStep(v)
      BY <2>1, <2>4, <2>7, StepFrames
    <3>2. \A i \in 1 .. Len(burst) : <<vehicles[v], burst[i], vehicles[v]>> \in VehicleStep(v)
      BY <2>5, <3>1
    <3>3. Run(VehicleStep(v), Vehicle, burst, vehicles[v], vehicles[v])
      BY <2>3, <2>4, <3>2, RunFrame
    <3>. QED
      BY <2>4, <2>7, <3>3
  <2>8. Run(VehiclePresence(u), Presence, burst, "unknown", "there")
    <3>1. <<"unknown", w, "there">> \in VehiclePresence(u)
      BY <2>1 DEF VehiclePresence, Presence
    <3>2. <<"there", w, "there">> \in VehiclePresence(u)
      BY <2>1, StepFrames
    <3>3. /\ <<"unknown", burst[1], "there">> \in VehiclePresence(u)
          /\ \A i \in 1 .. 1 - 1 : <<"unknown", burst[i], "unknown">> \in VehiclePresence(u)
          /\ \A i \in 1 + 1 .. Len(burst) : <<"there", burst[i], "there">> \in VehiclePresence(u)
      BY <2>3, <2>5, <3>1, <3>2
    <3>4. "unknown" \in Presence /\ "there" \in Presence
      BY DEF Presence
    <3>. QED
      BY <2>3, <2>5, <3>3, <3>4, RunOnce
  <2>9. ASSUME NEW v \in Vid, vehicles[v] # NoVehicle
        PROVE  Run(VehicleStep(v), Vehicle, burst, NoVehicle, NoVehicle)
    <3>1. <<NoVehicle, w, NoVehicle>> \in VehicleStep(v)
      BY <2>1, <2>4, <2>9, StepFrames
    <3>2. \A i \in 1 .. Len(burst) : <<NoVehicle, burst[i], NoVehicle>> \in VehicleStep(v)
      BY <2>5, <3>1
    <3>. QED
      BY <2>3, <2>4, <3>2, RunFrame
  <2>. QED
    BY <2>1, <2>3, <2>4, <2>5, <2>6, <2>7, <2>8, <2>9
<1>. QED
  BY <1>1, <1>2 DEF Scripted

-----------------------------------------------------------------------------
(* What is under way to a client *)

\* The server has handled the packets of the client connected on slot p, so that
\* its player is the one in the slot.
Joined(p) == link[p] # NoClient /\ inbox[p] = <<>>

\* A client in its first session, its slot not taken early: the RPCs on their way
\* take every entry to
\* what the server holds, and InitialData makes it local to its slot.
PlayersUnderWay(p) ==
  \A q \in Pid \ {p} :
    Run(PlayerStep(q), Entry, down[p], net[link[p]][q], Mirror(p, q))

VehiclesUnderWay(p) ==
  \A v \in Vid :
    Run(VehicleStep(v), Vehicle, down[p], netVeh[link[p]][v], vehicles[v])

Told(s) == \E i \in 1 .. Len(s) : s[i].type = "InitialData"
ToldItsSlot(p) == Told(down[p])

LocalUnderWay(p) ==
  /\ \A q \in Pid : net[link[p]][q].kind = "local" => q = p
  /\ net[link[p]][p].kind # "remote"
  /\ ToldItsSlot(p) \/ (localId[link[p]] = p /\ net[link[p]][p] = LocalEntry)

\* A client in any session, whatever it kept from an earlier one.
PresenceUnderWay(p) ==
  /\ ToldItsSlot(p) \/ net[link[p]][p].kind = "local"
  /\ \A q \in Active \ {p} : \E x \in Presence :
       /\ Run(PlayerPresence(q), Presence, down[p], x, "there")
       /\ x = "there" => net[link[p]][q].kind # "none"
  /\ \A v \in Vid : vehicles[v] # NoVehicle => \E x \in Presence :
       /\ Run(VehiclePresence(v), Presence, down[p], x, "there")
       /\ x = "there" => netVeh[link[p]][v] # NoVehicle

UnderWay(p) ==
  /\ PresenceUnderWay(p)
  /\ sessions[link[p]] = 1 /\ p \notin early =>
       PlayersUnderWay(p) /\ VehiclesUnderWay(p) /\ LocalUnderWay(p)

\* What the RPCs s, sent to p by a step, must do for p to stay up to date with
\* what the step does to the server's tables.
FollowsPlayers(p, s) ==
  /\ \A q \in Pid \ {p} : Run(PlayerStep(q), Entry, s, Mirror(p, q), Mirror(p, q)')
  /\ \A q \in Active' \ {p} :
       Run(PlayerPresence(q), Presence, s,
           IF q \in Active THEN "there" ELSE "unknown", "there")

FollowsVehicles(s) ==
  /\ \A v \in Vid : Run(VehicleStep(v), Vehicle, s, vehicles[v], vehicles'[v])
  /\ \A v \in Vid : vehicles'[v] # NoVehicle =>
       Run(VehiclePresence(v), Presence, s,
           IF vehicles[v] # NoVehicle THEN "there" ELSE "unknown", "there")

\* The step leaves the client on slot p, its process and its tables alone.
ClientKept(p) ==
  /\ link'[p] = link[p]
  /\ p \in early' <=> p \in early
  /\ sessions'[link[p]] = sessions[link[p]]
  /\ net'[link[p]] = net[link[p]]
  /\ localId'[link[p]] = localId[link[p]]
  /\ netVeh'[link[p]] = netVeh[link[p]]

\* What is unknown about an entry may stay unknown through any RPCs.
LEMMA RunUnknown ==
  ASSUME NEW s \in Seq(Msg)
  PROVE  /\ \A q : Run(PlayerPresence(q), Presence, s, "unknown", "unknown")
         /\ \A v : Run(VehiclePresence(v), Presence, s, "unknown", "unknown")
<1>1. "unknown" \in Presence /\ \A i \in 1 .. Len(s) : s[i] \in Msg
  BY ElementOfSeq DEF Presence
<1>2. \A q : \A i \in 1 .. Len(s) : <<"unknown", s[i], "unknown">> \in PlayerPresence(q)
  BY <1>1, StepFrames
<1>3. \A v : \A i \in 1 .. Len(s) : <<"unknown", s[i], "unknown">> \in VehiclePresence(v)
  BY <1>1, StepFrames
<1>. QED
  BY <1>1, <1>2, <1>3, RunFrame

\* A step of the server that sends what it does keeps a client up to date.
LEMMA ViewSent ==
  ASSUME TypeOK, NEW p \in Pid, UnderWay(p), ClientKept(p),
         NEW s \in Seq(Msg), down'[p] = down[p] \o s,
         FollowsPlayers(p, s), FollowsVehicles(s)
  PROVE  UnderWay(p)'
<1>1. down[p] \in Seq(Msg)
  BY DEF TypeOK
<1>2. ToldItsSlot(p) => ToldItsSlot(p)'
  <2>1. /\ Len(down[p]) \in Nat /\ Len(s) \in Nat
        /\ Len(down[p] \o s) = Len(down[p]) + Len(s)
        /\ \A i \in 1 .. Len(down[p]) : /\ i \in 1 .. Len(down[p] \o s)
                                        /\ (down[p] \o s)[i] = down[p][i]
    BY <1>1, ConcatProperties, LenProperties
  <2>. QED
    BY <2>1 DEF ToldItsSlot, Told
<1>3. ASSUME NEW q \in Active' \ {p}
      PROVE  \E x \in Presence :
               /\ Run(PlayerPresence(q), Presence, down'[p], x, "there")
               /\ x = "there" => net'[link'[p]][q].kind # "none"
  <2>1. CASE q \in Active
    <3>1. PICK x \in Presence :
            /\ Run(PlayerPresence(q), Presence, down[p], x, "there")
            /\ x = "there" => net[link[p]][q].kind # "none"
      BY <2>1 DEF UnderWay, PresenceUnderWay
    <3>2. Run(PlayerPresence(q), Presence, s, "there", "there")
      BY <2>1 DEF FollowsPlayers
    <3>3. Run(PlayerPresence(q), Presence, down'[p], x, "there")
      BY <1>1, <3>1, <3>2, RunConcat
    <3>. QED
      BY <3>1, <3>3 DEF ClientKept
  <2>2. CASE q \notin Active
    <3>1. Run(PlayerPresence(q), Presence, s, "unknown", "there")
      BY <2>2 DEF FollowsPlayers
    <3>2. Run(PlayerPresence(q), Presence, down[p], "unknown", "unknown")
      BY <1>1, RunUnknown
    <3>3. Run(PlayerPresence(q), Presence, down'[p], "unknown", "there")
      BY <1>1, <3>1, <3>2, RunConcat
    <3>. QED
      BY <3>3 DEF Presence
  <2>. QED
    BY <2>1, <2>2
<1>4. ASSUME NEW v \in Vid, vehicles'[v] # NoVehicle
      PROVE  \E x \in Presence :
               /\ Run(VehiclePresence(v), Presence, down'[p], x, "there")
               /\ x = "there" => netVeh'[link'[p]][v] # NoVehicle
  <2>1. CASE vehicles[v] # NoVehicle
    <3>1. PICK x \in Presence :
            /\ Run(VehiclePresence(v), Presence, down[p], x, "there")
            /\ x = "there" => netVeh[link[p]][v] # NoVehicle
      BY <2>1 DEF UnderWay, PresenceUnderWay
    <3>2. Run(VehiclePresence(v), Presence, s, "there", "there")
      BY <1>4, <2>1 DEF FollowsVehicles
    <3>3. Run(VehiclePresence(v), Presence, down'[p], x, "there")
      BY <1>1, <3>1, <3>2, RunConcat
    <3>. QED
      BY <3>1, <3>3 DEF ClientKept
  <2>2. CASE vehicles[v] = NoVehicle
    <3>1. Run(VehiclePresence(v), Presence, s, "unknown", "there")
      BY <1>4, <2>2 DEF FollowsVehicles
    <3>2. Run(VehiclePresence(v), Presence, down[p], "unknown", "unknown")
      BY <1>1, RunUnknown
    <3>3. Run(VehiclePresence(v), Presence, down'[p], "unknown", "there")
      BY <1>1, <3>1, <3>2, RunConcat
    <3>. QED
      BY <3>3 DEF Presence
  <2>. QED
    BY <2>1, <2>2
<1>5. PresenceUnderWay(p)'
  <2>1. (ToldItsSlot(p) \/ net[link[p]][p].kind = "local")'
    BY <1>2 DEF UnderWay, PresenceUnderWay, ClientKept
  <2>. QED
    BY <1>3, <1>4, <2>1 DEF PresenceUnderWay
<1>6. ASSUME PlayersUnderWay(p)
      PROVE  PlayersUnderWay(p)'
  <2>. SUFFICES ASSUME NEW q \in Pid \ {p}
                PROVE  Run(PlayerStep(q), Entry, down'[p], net'[link'[p]][q], Mirror(p, q)')
    BY DEF PlayersUnderWay
  <2>1. Run(PlayerStep(q), Entry, down[p], net[link[p]][q], Mirror(p, q))
    BY <1>6 DEF PlayersUnderWay
  <2>2. Run(PlayerStep(q), Entry, s, Mirror(p, q), Mirror(p, q)')
    BY DEF FollowsPlayers
  <2>3. Run(PlayerStep(q), Entry, down[p] \o s, net[link[p]][q], Mirror(p, q)')
    BY <1>1, <2>1, <2>2, RunConcat
  <2>. QED
    BY <2>3 DEF ClientKept
<1>7. ASSUME VehiclesUnderWay(p)
      PROVE  VehiclesUnderWay(p)'
  <2>. SUFFICES ASSUME NEW v \in Vid
                PROVE  Run(VehicleStep(v), Vehicle, down'[p], netVeh'[link'[p]][v], vehicles'[v])
    BY DEF VehiclesUnderWay
  <2>1. Run(VehicleStep(v), Vehicle, down[p], netVeh[link[p]][v], vehicles[v])
    BY <1>7 DEF VehiclesUnderWay
  <2>2. Run(VehicleStep(v), Vehicle, s, vehicles[v], vehicles'[v])
    BY DEF FollowsVehicles
  <2>3. Run(VehicleStep(v), Vehicle, down[p] \o s, netVeh[link[p]][v], vehicles'[v])
    BY <1>1, <2>1, <2>2, RunConcat
  <2>. QED
    BY <2>3 DEF ClientKept
<1>8. LocalUnderWay(p) => LocalUnderWay(p)'
  BY <1>2 DEF LocalUnderWay, ClientKept
<1>. QED
  BY <1>5, <1>6, <1>7, <1>8 DEF UnderWay, ClientKept

\* A step that sends p nothing and leaves the server's tables alone.
LEMMA ViewKept ==
  ASSUME NEW p \in Pid, UnderWay(p), ClientKept(p), down'[p] = down[p],
         players' = players, vehicles' = vehicles
  PROVE  UnderWay(p)'
<1>1. Active' = Active /\ ToldItsSlot(p)' = ToldItsSlot(p)
  BY DEF Active, ToldItsSlot, Told
<1>2. \A q : Mirror(p, q)' = Mirror(p, q)
  BY DEF Mirror
<1>3. PresenceUnderWay(p)'
  BY <1>1 DEF UnderWay, PresenceUnderWay, ClientKept
<1>4. PlayersUnderWay(p) => PlayersUnderWay(p)'
  BY <1>2 DEF PlayersUnderWay, ClientKept
<1>5. VehiclesUnderWay(p) => VehiclesUnderWay(p)'
  BY DEF VehiclesUnderWay, ClientKept
<1>6. LocalUnderWay(p) => LocalUnderWay(p)'
  BY <1>1 DEF LocalUnderWay, ClientKept
<1>. QED
  BY <1>3, <1>4, <1>5, <1>6 DEF UnderWay, ClientKept

-----------------------------------------------------------------------------
(* What a client does with an RPC *)

\* A client takes the step of an RPC wherever there is one, and an RPC that does
\* not delete an entry leaves it there.
LEMMA ApplyPlayersStep ==
  ASSUME NEW t \in [Pid -> Entry], NEW m \in Msg, NEW q \in Pid
  PROVE  /\ ~About(m, q) => ApplyToPlayers(t, m)[q] = t[q]
         /\ \A g : <<t[q], m, g>> \in PlayerStep(q) => ApplyToPlayers(t, m)[q] = g
         /\ t[q].kind # "none" /\ ~(m.type = "DeletePlayer" /\ m.id = q)
              => ApplyToPlayers(t, m)[q].kind # "none"
         /\ m.type = "AddPlayer" /\ m.id = q => ApplyToPlayers(t, m)[q].kind # "none"
         /\ ApplyToPlayers(t, m)[q].kind = "local" => t[q].kind = "local"
<1>. DEFINE a == ApplyToPlayers(t, m)[q]
<1>1. CASE ~About(m, q)
  <2>1. m.type \in {"AddPlayer", "SpawnPlayer", "DeletePlayer"} => m.id # q /\ m.id \in Pid
    BY <1>1 DEF About, Msg
  <2>2. a = t[q]
    BY <2>1 DEF ApplyToPlayers
  <2>3. \A g : <<t[q], m, g>> \in PlayerStep(q) => t[q] = g
    BY <1>1 DEF PlayerStep, About
  <2>4. ~(m.type = "AddPlayer" /\ m.id = q)
    BY <1>1 DEF About
  <2>. QED
    BY <2>2, <2>3, <2>4
<1>2. CASE m.type = "AddPlayer" /\ m.id = q
  <2>1. a = IF t[q].kind = "none" THEN Remote(m.name) ELSE t[q]
    BY <1>2 DEF ApplyToPlayers
  <2>2. \A g : <<t[q], m, g>> \in PlayerStep(q) => t[q].kind = "none" /\ g = Remote(m.name)
    BY <1>2 DEF PlayerStep, About, NoEntry
  <2>3. Remote(m.name).kind = "remote"
    BY DEF Remote
  <2>. HIDE DEF a
  <2>4. a.kind # "none" /\ (a.kind = "local" => t[q].kind = "local")
    BY <2>1, <2>3
  <2>5. \A g : <<t[q], m, g>> \in PlayerStep(q) => a = g
    BY <2>1, <2>2
  <2>. QED
    BY <1>2, <2>4, <2>5 DEF a, About
<1>3. CASE m.type = "SpawnPlayer" /\ m.id = q
  <2>1. a = IF t[q].kind = "remote" THEN [t[q] EXCEPT !.spawned = TRUE] ELSE t[q]
    BY <1>3 DEF ApplyToPlayers
  <2>2. [t[q] EXCEPT !.spawned = TRUE]
          = [kind |-> t[q].kind, name |-> t[q].name, spawned |-> TRUE]
    BY SpawnedEntry
  <2>3. \A g : <<t[q], m, g>> \in PlayerStep(q) =>
          t[q].kind = "remote" /\ g = [kind |-> "remote", name |-> t[q].name, spawned |-> TRUE]
    BY <1>3 DEF PlayerStep, About
  <2>. HIDE DEF a
  <2>4. a.kind = t[q].kind
    BY <2>1, <2>2
  <2>5. \A g : <<t[q], m, g>> \in PlayerStep(q) => a = g
    BY <2>1, <2>2, <2>3
  <2>. QED
    BY <1>3, <2>4, <2>5 DEF a, About
<1>4. CASE m.type = "DeletePlayer" /\ m.id = q
  <2>1. a = IF t[q].kind = "remote" THEN NoEntry ELSE t[q]
    BY <1>4 DEF ApplyToPlayers
  <2>2. \A g : <<t[q], m, g>> \in PlayerStep(q) => t[q].kind = "remote" /\ g = NoEntry
    BY <1>4 DEF PlayerStep, About
  <2>3. NoEntry.kind = "none"
    BY DEF NoEntry
  <2>. HIDE DEF a
  <2>4. a.kind = "local" => t[q].kind = "local"
    BY <2>1, <2>3
  <2>5. \A g : <<t[q], m, g>> \in PlayerStep(q) => a = g
    BY <2>1, <2>2
  <2>. QED
    BY <1>4, <2>4, <2>5 DEF a, About
<1>. QED
  BY <1>1, <1>2, <1>3, <1>4 DEF About

\* The same for the vehicles a client holds.
LEMMA ApplyVehiclesStep ==
  ASSUME NEW u \in [Vid -> Vehicle], NEW m \in Msg, NEW v \in Vid, ReplicationAssumption
  PROVE  /\ \A g : <<u[v], m, g>> \in VehicleStep(v) => ApplyToVehicles(u, m)[v] = g
         /\ u[v] # NoVehicle /\ ~(m.type = "DestroyVehicle" /\ m.id = v)
              => ApplyToVehicles(u, m)[v] # NoVehicle
         /\ m.type = "SpawnVehicle" /\ m.id = v => ApplyToVehicles(u, m)[v] # NoVehicle
<1>1. /\ m.type = "SpawnVehicle" => m.id \in Vid /\ m.model \in Models /\ m.model # NoVehicle
      /\ m.type = "DestroyVehicle" => m.id \in Vid
  BY DEF Msg, ReplicationAssumption
<1>2. CASE m.type = "SpawnVehicle" /\ m.id = v
  <2>1. ApplyToVehicles(u, m)[v] = IF u[v] = NoVehicle THEN m.model ELSE u[v]
    BY <1>2 DEF ApplyToVehicles
  <2>2. \A g : <<u[v], m, g>> \in VehicleStep(v) =>
          g = IF u[v] = NoVehicle THEN m.model ELSE u[v]
    BY <1>2 DEF VehicleStep
  <2>. QED
    BY <1>1, <1>2, <2>1, <2>2
<1>3. CASE m.type = "DestroyVehicle" /\ m.id = v
  <2>1. ApplyToVehicles(u, m)[v] = NoVehicle
    BY <1>3 DEF ApplyToVehicles
  <2>2. \A g : <<u[v], m, g>> \in VehicleStep(v) => g = NoVehicle
    BY <1>3 DEF VehicleStep
  <2>. QED
    BY <1>3, <2>1, <2>2
<1>4. CASE ~(m.type \in {"SpawnVehicle", "DestroyVehicle"} /\ m.id = v)
  <2>1. ApplyToVehicles(u, m)[v] = u[v]
    BY <1>1, <1>4 DEF ApplyToVehicles
  <2>2. \A g : <<u[v], m, g>> \in VehicleStep(v) => g = u[v]
    BY <1>4 DEF VehicleStep
  <2>. QED
    BY <1>4, <2>1, <2>2
<1>. QED
  BY <1>2, <1>3, <1>4

\* Told its slot, a client that has no other local entry moves nobody.
LEMMA ToldSlot ==
  ASSUME NEW t \in [Pid -> Entry], NEW p \in Pid
  PROVE  /\ SetLocalPlayerId(t, p)[p] = LocalEntry
         /\ (\A q \in Pid : t[q].kind = "local" => q = p) =>
              \A q \in Pid \ {p} : SetLocalPlayerId(t, p)[q] = t[q]
<1>1. SetLocalPlayerId(t, p)[p] = LocalEntry
  BY DEF SetLocalPlayerId
<1>2. ASSUME \A q \in Pid : t[q].kind = "local" => q = p, NEW q \in Pid \ {p}
      PROVE  SetLocalPlayerId(t, p)[q] = t[q]
  <2>1. q \notin {i \in Pid : t[i].kind = "local" \/ (i = p /\ t[i].kind = "remote")}
    BY <1>2
  <2>. QED
    BY <2>1 DEF SetLocalPlayerId
<1>. QED
  BY <1>1, <1>2

\* Handling the first RPC on its way keeps a client up to date.
LEMMA ViewReceived ==
  ASSUME TypeOK, ReplicationAssumption, Discreet(down), NEW p \in Pid, Joined(p),
         UnderWay(p), Receive(p)
  PROVE  UnderWay(p)'
<1>. DEFINE c == link[p]
            m == Head(down[p])
            rest == Tail(down[p])
<1>1. /\ c \in Client /\ m \in Msg /\ rest \in Seq(Msg)
      /\ down[p] \in Seq(Msg) /\ down[p] # <<>>
      /\ m \in AboutOthers(p)
  <2>1. down[p] \in Seq(AboutOthers(p)) /\ down[p] \in Seq(Msg) /\ down[p] # <<>>
    BY DEF Discreet, Receive
  <2>2. m \in AboutOthers(p) /\ rest \in Seq(Msg)
    BY <2>1, HeadTailProperties
  <2>. QED
    BY <2>1, <2>2 DEF AboutOthers, Joined, TypeOK
<1>2. /\ link'[p] = c /\ down'[p] = rest
      /\ players' = players /\ vehicles' = vehicles /\ sessions' = sessions
      /\ early' = early
      /\ net[c] \in [Pid -> Entry] /\ netVeh[c] \in [Vid -> Vehicle]
  BY <1>1 DEF Receive, serverVars, TypeOK, Vehicle
<1>3. /\ m.type = "InitialData" =>
           /\ m.id = p
           /\ net'[c] = SetLocalPlayerId(net[c], p)
           /\ localId'[c] = p
           /\ netVeh'[c] = netVeh[c]
      /\ m.type # "InitialData" =>
           /\ net'[c] = ApplyToPlayers(net[c], m)
           /\ localId'[c] = localId[c]
           /\ netVeh'[c] = ApplyToVehicles(netVeh[c], m)
  BY <1>1 DEF Receive, AboutOthers, TypeOK
<1>4. ~About(m, p)
  BY <1>1 DEF AboutOthers, About
<1>5. m.type # "InitialData" /\ ToldItsSlot(p) => ToldItsSlot(p)'
  <2>. SUFFICES ASSUME m.type # "InitialData", ToldItsSlot(p)
                PROVE  \E i \in 1 .. Len(rest) : rest[i].type = "InitialData"
    BY <1>2 DEF ToldItsSlot, Told
  <2>1. PICK i \in 1 .. Len(down[p]) : down[p][i].type = "InitialData"
    BY DEF ToldItsSlot, Told
  <2>2. /\ Len(rest) = Len(down[p]) - 1 /\ m = down[p][1] /\ Len(down[p]) \in Nat
        /\ \A j \in 1 .. Len(rest) : rest[j] = down[p][j + 1]
    BY <1>1, HeadTailProperties, LenProperties
  <2>3. i # 1
    BY <2>1, <2>2
  <2>4. i - 1 \in 1 .. Len(rest) /\ rest[i - 1] = down[p][i]
    BY <2>2, <2>3
  <2>. QED
    BY <2>1, <2>4
<1>6. Active' = Active /\ \A q : Mirror(p, q)' = Mirror(p, q)
  BY <1>2 DEF Active, Mirror
<1>. HIDE DEF c, m, rest
<1>7. ASSUME NEW q \in Active \ {p}
      PROVE  \E x \in Presence :
               /\ Run(PlayerPresence(q), Presence, rest, x, "there")
               /\ x = "there" => net'[c][q].kind # "none"
  <2>1. PICK x \in Presence :
          /\ Run(PlayerPresence(q), Presence, down[p], x, "there")
          /\ x = "there" => net[c][q].kind # "none"
    BY DEF UnderWay, PresenceUnderWay, c
  <2>2. PICK g \in Presence :
          /\ <<x, m, g>> \in PlayerPresence(q)
          /\ Run(PlayerPresence(q), Presence, rest, g, "there")
    BY <1>1, <2>1, RunHead DEF m, rest
  <2>3. g = "there" =>
          \/ m.type = "AddPlayer" /\ m.id = q
          \/ x = "there" /\ ~(m.type = "DeletePlayer" /\ m.id = q) /\ m.type # "InitialData"
    BY <2>2 DEF PlayerPresence
  <2>4. g = "there" => net'[c][q].kind # "none"
    <3>1. q \in Pid
      BY DEF Active
    <3>. QED
      BY <1>1, <1>2, <1>3, <2>1, <2>3, <3>1, ApplyPlayersStep
  <2>. QED
    BY <2>2, <2>4
<1>8. ASSUME NEW v \in Vid, vehicles[v] # NoVehicle
      PROVE  \E x \in Presence :
               /\ Run(VehiclePresence(v), Presence, rest, x, "there")
               /\ x = "there" => netVeh'[c][v] # NoVehicle
  <2>1. PICK x \in Presence :
          /\ Run(VehiclePresence(v), Presence, down[p], x, "there")
          /\ x = "there" => netVeh[c][v] # NoVehicle
    BY <1>8 DEF UnderWay, PresenceUnderWay, c
  <2>2. PICK g \in Presence :
          /\ <<x, m, g>> \in VehiclePresence(v)
          /\ Run(VehiclePresence(v), Presence, rest, g, "there")
    BY <1>1, <2>1, RunHead DEF m, rest
  <2>3. g = "there" =>
          \/ m.type = "SpawnVehicle" /\ m.id = v
          \/ x = "there" /\ ~(m.type = "DestroyVehicle" /\ m.id = v)
    BY <2>2 DEF VehiclePresence
  <2>4. g = "there" => netVeh'[c][v] # NoVehicle
    BY <1>1, <1>2, <1>3, <2>1, <2>3, ApplyVehiclesStep
  <2>. QED
    BY <2>2, <2>4
<1>9. PresenceUnderWay(p)'
  <2>1. (ToldItsSlot(p) \/ net[link[p]][p].kind = "local")'
    <3>1. CASE m.type = "InitialData"
      BY <1>2, <1>3, <3>1, ToldSlot DEF LocalEntry
    <3>2. CASE m.type # "InitialData"
      <4>1. net'[c][p] = net[c][p]
        BY <1>1, <1>2, <1>3, <1>4, <3>2, ApplyPlayersStep
      <4>2. ToldItsSlot(p) \/ net[c][p].kind = "local"
        BY DEF UnderWay, PresenceUnderWay, c
      <4>. QED
        BY <1>2, <1>5, <3>2, <4>1, <4>2
    <3>. QED
      BY <3>1, <3>2
  <2>. QED
    BY <1>2, <1>6, <1>7, <1>8, <2>1 DEF PresenceUnderWay
<1>10. ASSUME sessions[c] = 1, p \notin early
       PROVE  (PlayersUnderWay(p) /\ VehiclesUnderWay(p) /\ LocalUnderWay(p))'
  <2>0. PlayersUnderWay(p) /\ VehiclesUnderWay(p) /\ LocalUnderWay(p)
    BY <1>10 DEF UnderWay, c
  <2>1. ASSUME NEW q \in Pid \ {p}
        PROVE  Run(PlayerStep(q), Entry, rest, net'[c][q], Mirror(p, q))
    <3>1. Run(PlayerStep(q), Entry, down[p], net[c][q], Mirror(p, q))
      BY <2>0 DEF PlayersUnderWay, c
    <3>2. PICK g \in Entry : /\ <<net[c][q], m, g>> \in PlayerStep(q)
                             /\ Run(PlayerStep(q), Entry, rest, g, Mirror(p, q))
      BY <1>1, <3>1, RunHead DEF m, rest
    <3>3. net'[c][q] = g
      <4>1. CASE m.type = "InitialData"
        <5>1. g = net[c][q]
          BY <3>2, <4>1 DEF PlayerStep, About
        <5>2. net'[c][q] = net[c][q]
          BY <1>2, <1>3, <2>0, <4>1, ToldSlot DEF LocalUnderWay, c
        <5>. QED
          BY <5>1, <5>2
      <4>2. CASE m.type # "InitialData"
        <5>1. ApplyToPlayers(net[c], m)[q] = g
          BY <1>1, <1>2, <3>2, ApplyPlayersStep
        <5>. QED
          BY <1>3, <4>2, <5>1
      <4>. QED
        BY <4>1, <4>2
    <3>. QED
      BY <3>2, <3>3
  <2>2. ASSUME NEW v \in Vid
        PROVE  Run(VehicleStep(v), Vehicle, rest, netVeh'[c][v], vehicles[v])
    <3>1. Run(VehicleStep(v), Vehicle, down[p], netVeh[c][v], vehicles[v])
      BY <2>0 DEF VehiclesUnderWay, c
    <3>2. PICK g \in Vehicle : /\ <<netVeh[c][v], m, g>> \in VehicleStep(v)
                               /\ Run(VehicleStep(v), Vehicle, rest, g, vehicles[v])
      BY <1>1, <3>1, RunHead DEF m, rest
    <3>3. netVeh'[c][v] = g
      <4>1. CASE m.type = "InitialData"
        BY <1>3, <3>2, <4>1 DEF VehicleStep
      <4>2. CASE m.type # "InitialData"
        BY <1>1, <1>2, <1>3, <3>2, <4>2, ApplyVehiclesStep
      <4>. QED
        BY <4>1, <4>2
    <3>. QED
      BY <3>2, <3>3
  <2>3. LocalUnderWay(p)'
    <3>1. CASE m.type = "InitialData"
      <4>1. net'[c][p] = LocalEntry /\ \A q \in Pid \ {p} : net'[c][q] = net[c][q]
        BY <1>2, <1>3, <2>0, <3>1, ToldSlot DEF LocalUnderWay, c
      <4>2. \A q \in Pid : net'[c][q].kind = "local" => q = p
        BY <2>0, <4>1 DEF LocalUnderWay, c
      <4>. QED
        BY <1>2, <1>3, <3>1, <4>1, <4>2 DEF LocalUnderWay, LocalEntry
    <3>2. CASE m.type # "InitialData"
      <4>1. net'[c][p] = net[c][p] /\ localId'[c] = localId[c]
        BY <1>1, <1>2, <1>3, <1>4, <3>2, ApplyPlayersStep
      <4>2. \A q \in Pid : net'[c][q].kind = "local" => net[c][q].kind = "local"
        BY <1>1, <1>2, <1>3, <3>2, ApplyPlayersStep
      <4>3. /\ \A q \in Pid : net[c][q].kind = "local" => q = p
            /\ net[c][p].kind # "remote"
            /\ ToldItsSlot(p) \/ (localId[c] = p /\ net[c][p] = LocalEntry)
        BY <2>0 DEF LocalUnderWay, c
      <4>. QED
        BY <1>2, <1>5, <3>2, <4>1, <4>2, <4>3 DEF LocalUnderWay
    <3>. QED
      BY <3>1, <3>2
  <2>. QED
    BY <1>2, <1>6, <2>1, <2>2, <2>3 DEF PlayersUnderWay, VehiclesUnderWay
<1>. QED
  BY <1>2, <1>9, <1>10 DEF UnderWay

-----------------------------------------------------------------------------
(* What a handler of the server sends *)

\* What the server holds of a slot is an entry a client can hold.
LEMMA MirrorType ==
  ASSUME TypeOK, NEW p \in Pid, NEW q \in Pid
  PROVE  Mirror(p, q) \in Entry
  BY DEF TypeOK, Mirror, Entry, LocalEntry, NoEntry

\* RPCs about vehicles are of no concern to the tables of players.
LEMMA PlayersQuiet ==
  ASSUME NEW s \in Seq(Msg),
         \A i \in 1 .. Len(s) : s[i].type \in {"SpawnVehicle", "DestroyVehicle"}
  PROVE  /\ \A q : \A e \in Entry : Run(PlayerStep(q), Entry, s, e, e)
         /\ \A q : Run(PlayerPresence(q), Presence, s, "there", "there")
<1>1. \A i \in 1 .. Len(s) : s[i] \in Msg /\ \A q : ~About(s[i], q)
  BY ElementOfSeq DEF About
<1>2. ASSUME NEW q, NEW e \in Entry
      PROVE  Run(PlayerStep(q), Entry, s, e, e)
  <2>1. \A i \in 1 .. Len(s) : <<e, s[i], e>> \in PlayerStep(q)
    BY <1>1, StepFrames
  <2>. QED
    BY <2>1, RunFrame
<1>3. ASSUME NEW q
      PROVE  Run(PlayerPresence(q), Presence, s, "there", "there")
  <2>1. \A i \in 1 .. Len(s) : <<"there", s[i], "there">> \in PlayerPresence(q)
    BY <1>1, StepFrames
  <2>. QED
    BY <2>1, RunFrame DEF Presence
<1>. QED
  BY <1>2, <1>3

\* They keep up to date a client whose players did not change.
LEMMA PlayersKept ==
  ASSUME TypeOK, NEW p \in Pid, NEW s \in Seq(Msg), players' = players,
         \A i \in 1 .. Len(s) : s[i].type \in {"SpawnVehicle", "DestroyVehicle"}
  PROVE  FollowsPlayers(p, s)
<1>1. Active' = Active /\ \A q : Mirror(p, q)' = Mirror(p, q)
  BY DEF Active, Mirror
<1>2. \A q \in Pid : Mirror(p, q) \in Entry
  BY MirrorType
<1>3. \A q \in Pid : Run(PlayerStep(q), Entry, s, Mirror(p, q), Mirror(p, q)')
  BY <1>1, <1>2, PlayersQuiet
<1>4. \A q \in Active' : /\ q \in Active
                         /\ Run(PlayerPresence(q), Presence, s, "there", "there")
  BY <1>1, PlayersQuiet
<1>. QED
  BY <1>3, <1>4 DEF FollowsPlayers

\* RPCs about players are of no concern to the tables of vehicles.
LEMMA VehiclesKept ==
  ASSUME NEW s \in Seq(Msg), NEW veh \in [Vid -> Vehicle],
         \A i \in 1 .. Len(s) : s[i].type \notin {"SpawnVehicle", "DestroyVehicle"}
  PROVE  /\ \A v \in Vid : \A x \in Vehicle : Run(VehicleStep(v), Vehicle, s, x, x)
         /\ \A v \in Vid : Run(VehiclePresence(v), Presence, s, "there", "there")
         /\ veh = vehicles /\ vehicles' = vehicles => FollowsVehicles(s)
<1>1. \A i \in 1 .. Len(s) : s[i] \in Msg
  BY ElementOfSeq
<1>2. ASSUME NEW v \in Vid, NEW x \in Vehicle
      PROVE  Run(VehicleStep(v), Vehicle, s, x, x)
  <2>1. \A i \in 1 .. Len(s) : <<x, s[i], x>> \in VehicleStep(v)
    BY <1>1, StepFrames
  <2>. QED
    BY <2>1, RunFrame
<1>3. ASSUME NEW v \in Vid
      PROVE  Run(VehiclePresence(v), Presence, s, "there", "there")
  <2>1. \A i \in 1 .. Len(s) : <<"there", s[i], "there">> \in VehiclePresence(v)
    BY <1>1, StepFrames
  <2>. QED
    BY <2>1, RunFrame DEF Presence
<1>. QED
  BY <1>2, <1>3 DEF FollowsVehicles

\* The burst of a new vehicle brings everybody up to date.
LEMMA BurstFollows ==
  ASSUME TypeOK, ReplicationAssumption, NEW burst, Scripted(vehicles', burst)
  PROVE  FollowsVehicles(burst)
<1>1. /\ burst \in Seq(Msg)
      /\ \A i \in 1 .. Len(burst) : burst[i] \in Msg /\ burst[i].type = "SpawnVehicle"
      /\ \A v \in Vid : vehicles[v] # NoVehicle => vehicles'[v] = vehicles[v]
      /\ \A v \in Vid : Run(VehicleStep(v), Vehicle, burst, vehicles[v], vehicles'[v])
      /\ \A v \in Vid : vehicles'[v] # NoVehicle /\ vehicles[v] = NoVehicle =>
           Run(VehiclePresence(v), Presence, burst, "unknown", "there")
  BY BurstRuns
<1>2. ASSUME NEW v \in Vid
      PROVE  Run(VehiclePresence(v), Presence, burst, "there", "there")
  <2>1. \A i \in 1 .. Len(burst) : <<"there", burst[i], "there">> \in VehiclePresence(v)
    BY <1>1, StepFrames
  <2>. QED
    BY <1>1, <2>1, RunFrame DEF Presence
<1>. QED
  BY <1>1, <1>2 DEF FollowsVehicles

\* Nothing is lost where the vehicles change one after the other.
LEMMA FollowVehiclesPlus ==
  ASSUME TypeOK, TypeOK', NEW s \in Seq(Msg), NEW t \in Seq(Msg), NEW u \in Seq(Msg),
         FollowsVehicles(t),
         \A i \in 1 .. Len(s) : s[i].type \notin {"SpawnVehicle", "DestroyVehicle"},
         \A i \in 1 .. Len(u) : u[i].type \notin {"SpawnVehicle", "DestroyVehicle"}
  PROVE  FollowsVehicles((s \o t) \o u)
<1>1. \A v \in Vid : vehicles[v] \in Vehicle /\ vehicles'[v] \in Vehicle
  BY DEF TypeOK, Vehicle
<1>2. s \o t \in Seq(Msg)
  BY ConcatProperties
<1>3. ASSUME NEW v \in Vid
      PROVE  Run(VehicleStep(v), Vehicle, (s \o t) \o u, vehicles[v], vehicles'[v])
  <2>1. Run(VehicleStep(v), Vehicle, s, vehicles[v], vehicles[v])
    BY <1>1, VehiclesKept DEF TypeOK, Vehicle
  <2>2. Run(VehicleStep(v), Vehicle, t, vehicles[v], vehicles'[v])
    BY DEF FollowsVehicles
  <2>3. Run(VehicleStep(v), Vehicle, u, vehicles'[v], vehicles'[v])
    BY <1>1, VehiclesKept DEF TypeOK, Vehicle
  <2>4. Run(VehicleStep(v), Vehicle, s \o t, vehicles[v], vehicles'[v])
    BY <2>1, <2>2, RunConcat
  <2>. QED
    BY <1>2, <2>3, <2>4, RunConcat
<1>4. ASSUME NEW v \in Vid, vehicles'[v] # NoVehicle,
             NEW x \in {"there", "unknown"},
             x = IF vehicles[v] # NoVehicle THEN "there" ELSE "unknown"
      PROVE  Run(VehiclePresence(v), Presence, (s \o t) \o u, x, "there")
  <2>1. Run(VehiclePresence(v), Presence, s, x, x)
    <3>1. Run(VehiclePresence(v), Presence, s, "unknown", "unknown")
      BY RunUnknown
    <3>2. Run(VehiclePresence(v), Presence, s, "there", "there")
      BY VehiclesKept DEF TypeOK, Vehicle
    <3>. QED
      BY <3>1, <3>2
  <2>2. Run(VehiclePresence(v), Presence, t, x, "there")
    BY <1>4 DEF FollowsVehicles
  <2>3. Run(VehiclePresence(v), Presence, u, "there", "there")
    BY VehiclesKept DEF TypeOK, Vehicle
  <2>4. Run(VehiclePresence(v), Presence, s \o t, x, "there")
    BY <2>1, <2>2, RunConcat
  <2>. QED
    BY <1>2, <2>3, <2>4, RunConcat
<1>. QED
  BY <1>3, <1>4 DEF FollowsVehicles

\* A vehicle the server destroys is gone for everybody.
LEMMA DestroyFollows ==
  ASSUME TypeOK, ReplicationAssumption, NEW v \in Vid,
         vehicles' = [vehicles EXCEPT ![v] = NoVehicle]
  PROVE  FollowsVehicles(<<DestroyVehicle(v)>>)
<1>. DEFINE m == DestroyVehicle(v)
<1>1. m \in Msg /\ m.type = "DestroyVehicle" /\ m.id = v
  BY DEF DestroyVehicle, Msg
<1>. HIDE DEF m
<1>2. /\ vehicles'[v] = NoVehicle
      /\ \A u \in Vid : u # v => vehicles'[u] = vehicles[u]
      /\ \A u \in Vid : vehicles[u] \in Vehicle
      /\ NoVehicle \in Vehicle
  BY DEF TypeOK, Vehicle
<1>3. \A u \in Vid : <<vehicles[u], m, vehicles'[u]>> \in VehicleStep(u)
  BY <1>1, <1>2 DEF VehicleStep
<1>4. \A u \in Vid : u # v => <<"there", m, "there">> \in VehiclePresence(u)
  BY <1>1, StepFrames
<1>5. ASSUME NEW u \in Vid
      PROVE  Run(VehicleStep(u), Vehicle, <<m>>, vehicles[u], vehicles'[u])
  <2>1. vehicles'[u] \in Vehicle
    BY <1>2
  <2>. QED
    BY <1>2, <1>3, <2>1, RunSingle
<1>6. ASSUME NEW u \in Vid, vehicles'[u] # NoVehicle
      PROVE  /\ vehicles[u] # NoVehicle
             /\ Run(VehiclePresence(u), Presence, <<m>>, "there", "there")
  <2>1. u # v
    BY <1>2, <1>6
  <2>2. Run(VehiclePresence(u), Presence, <<m>>, "there", "there")
    BY <1>4, <2>1, RunSingle DEF Presence
  <2>. QED
    BY <1>2, <1>6, <2>1, <2>2
<1>. QED
  BY <1>5, <1>6 DEF FollowsVehicles, m

\* A player the server deletes is gone for everybody else.
LEMMA DeleteFollows ==
  ASSUME TypeOK, ReplicationAssumption, NEW p \in Active, NEW r \in Pid \ {p},
         players' = [players EXCEPT ![p] = NoClient]
  PROVE  FollowsPlayers(r, <<DeletePlayer(p)>>)
<1>. DEFINE m == DeletePlayer(p)
<1>1. m \in Msg /\ m.type = "DeletePlayer" /\ m.id = p /\ p \in Pid
  BY DEF DeletePlayer, Msg, Active
<1>. HIDE DEF m
<1>2. ASSUME NEW q \in Pid \ {r}
      PROVE  Run(PlayerStep(q), Entry, <<m>>, Mirror(r, q), Mirror(r, q)')
  <2>. DEFINE e == Mirror(r, q)
              f == Mirror(r, q)'
  <2>1. e \in Entry
    BY MirrorType
  <2>2. CASE q = p
    <3>1. e.kind = "remote"
      BY <2>2 DEF Mirror, Active
    <3>2. f = NoEntry
      BY <1>1, <2>2 DEF Mirror, TypeOK
    <3>3. NoEntry \in Entry
      BY DEF NoEntry, Entry
    <3>. HIDE DEF e, f
    <3>4. <<e, m, f>> \in PlayerStep(q)
      BY <1>1, <2>1, <2>2, <3>1, <3>2, <3>3 DEF PlayerStep
    <3>5. Run(PlayerStep(q), Entry, <<m>>, e, f)
      BY <2>1, <3>2, <3>3, <3>4, RunSingle
    <3>. QED
      BY <3>5 DEF e, f
  <2>3. CASE q # p
    <3>1. f = e
      BY <2>3 DEF Mirror, TypeOK
    <3>. HIDE DEF e, f
    <3>2. <<e, m, e>> \in PlayerStep(q)
      BY <1>1, <2>1, <2>3, StepFrames DEF About
    <3>3. Run(PlayerStep(q), Entry, <<m>>, e, f)
      BY <2>1, <3>1, <3>2, RunSingle
    <3>. QED
      BY <3>3 DEF e, f
  <2>. QED
    BY <2>2, <2>3
<1>3. ASSUME NEW q \in Active' \ {r}
      PROVE  /\ q \in Active
             /\ Run(PlayerPresence(q), Presence, <<m>>, "there", "there")
  <2>1. q # p /\ q \in Active
    BY <1>1 DEF Active, TypeOK
  <2>2. <<"there", m, "there">> \in PlayerPresence(q)
    BY <1>1, <2>1, StepFrames
  <2>. QED
    BY <2>1, <2>2, RunSingle DEF Presence
<1>. QED
  BY <1>2, <1>3 DEF FollowsPlayers, m

\* A player the server adds is announced and spawned for everybody else,
\* whatever a script does to the vehicles in between.
LEMMA JoinFollows ==
  ASSUME TypeOK, ReplicationAssumption, NEW p \in Pid, p \notin Active, NEW c \in Client,
         NEW r \in Pid \ {p}, players' = [players EXCEPT ![p] = c],
         NEW burst \in Seq(Msg),
         \A i \in 1 .. Len(burst) : burst[i].type \in {"SpawnVehicle", "DestroyVehicle"}
  PROVE  FollowsPlayers(r, (<<AddPlayer(p, c)>> \o burst) \o <<SpawnPlayer(p)>>)
<1>. DEFINE a == AddPlayer(p, c)
            b == SpawnPlayer(p)
            f == Remote(c)
            g == [kind |-> "remote", name |-> c, spawned |-> TRUE]
<1>1. /\ a \in Msg /\ a.type = "AddPlayer" /\ a.id = p /\ a.name = c
      /\ b \in Msg /\ b.type = "SpawnPlayer" /\ b.id = p
  BY DEF AddPlayer, SpawnPlayer, Msg
<1>2. /\ f \in Entry /\ f.kind = "remote" /\ f.name = c /\ ~f.spawned
      /\ g \in Entry /\ NoEntry \in Entry
  BY DEF Remote, Entry, NoEntry
<1>3. Mirror(r, p) = NoEntry /\ Mirror(r, p)' = g
  BY DEF Mirror, Active, TypeOK, ReplicationAssumption
<1>4. <<NoEntry, a, f>> \in PlayerStep(p)
  <2>. HIDE DEF a, g
  <2>. QED
    BY <1>1, <1>2 DEF PlayerStep
<1>5. <<f, b, g>> \in PlayerStep(p)
  <2>. HIDE DEF a, b, f
  <2>. QED
    BY <1>1, <1>2 DEF PlayerStep
<1>. HIDE DEF a, b, f, g
<1>6. <<a>> \in Seq(Msg) /\ <<b>> \in Seq(Msg) /\ <<a>> \o burst \in Seq(Msg)
  BY <1>1, ConcatProperties
<1>7. Run(PlayerStep(p), Entry, (<<a>> \o burst) \o <<b>>, NoEntry, g)
  <2>1. Run(PlayerStep(p), Entry, <<a>>, NoEntry, f)
    BY <1>2, <1>4, RunSingle
  <2>2. Run(PlayerStep(p), Entry, burst, f, f)
    BY <1>2, PlayersQuiet
  <2>3. Run(PlayerStep(p), Entry, <<b>>, f, g)
    BY <1>2, <1>5, RunSingle
  <2>4. Run(PlayerStep(p), Entry, <<a>> \o burst, NoEntry, f)
    BY <1>6, <2>1, <2>2, RunConcat
  <2>. QED
    BY <1>6, <2>3, <2>4, RunConcat
<1>8. ASSUME NEW q \in Pid, q # p
      PROVE  Run(PlayerStep(q), Entry, (<<a>> \o burst) \o <<b>>, Mirror(r, q), Mirror(r, q)')
  <2>. DEFINE e == Mirror(r, q)
  <2>1. e \in Entry
    BY MirrorType
  <2>2. Mirror(r, q)' = e
    BY <1>8 DEF Mirror, TypeOK
  <2>. HIDE DEF e
  <2>3. <<e, a, e>> \in PlayerStep(q) /\ <<e, b, e>> \in PlayerStep(q)
    BY <1>1, <1>8, <2>1, StepFrames DEF About
  <2>4. /\ Run(PlayerStep(q), Entry, <<a>>, e, e)
        /\ Run(PlayerStep(q), Entry, <<b>>, e, e)
        /\ Run(PlayerStep(q), Entry, burst, e, e)
    BY <2>1, <2>3, RunSingle, PlayersQuiet
  <2>5. Run(PlayerStep(q), Entry, <<a>> \o burst, e, e)
    BY <1>6, <2>4, RunConcat
  <2>6. Run(PlayerStep(q), Entry, (<<a>> \o burst) \o <<b>>, e, e)
    BY <1>6, <2>4, <2>5, RunConcat
  <2>. QED
    BY <2>2, <2>6 DEF e
<1>9. ASSUME NEW q \in Active', NEW x \in {"there", "unknown"},
             x = IF q \in Active THEN "there" ELSE "unknown"
      PROVE  Run(PlayerPresence(q), Presence, (<<a>> \o burst) \o <<b>>, x, "there")
  <2>1. q \in Active \/ q = p
    BY DEF Active, TypeOK
  <2>2. <<x, a, "there">> \in PlayerPresence(q)
    BY <1>1, <1>9, <2>1 DEF PlayerPresence, Presence
  <2>3. <<"there", b, "there">> \in PlayerPresence(q)
    BY <1>1, StepFrames
  <2>4. x \in Presence /\ "there" \in Presence
    BY DEF Presence
  <2>5. /\ Run(PlayerPresence(q), Presence, <<a>>, x, "there")
        /\ Run(PlayerPresence(q), Presence, <<b>>, "there", "there")
    BY <2>2, <2>3, <2>4, RunSingle
  <2>6. Run(PlayerPresence(q), Presence, burst, "there", "there")
    BY PlayersQuiet
  <2>7. Run(PlayerPresence(q), Presence, <<a>> \o burst, x, "there")
    BY <1>6, <2>5, <2>6, RunConcat
  <2>. QED
    BY <1>6, <2>5, <2>7, RunConcat
<1>10. \A q \in Pid \ {r} :
         Run(PlayerStep(q), Entry, (<<a>> \o burst) \o <<b>>, Mirror(r, q), Mirror(r, q)')
  BY <1>3, <1>7, <1>8
<1>. QED
  BY <1>9, <1>10 DEF FollowsPlayers, a, b

\* The tables of a client that has been told nothing.
Fresh(c) ==
  /\ net[c] = NoTable
  /\ localId[c] = NoPid
  /\ netVeh[c] = [v \in Vid |-> NoVehicle]

\* What has been told at the end of the RPCs has been told.
LEMMA ToldSuffix ==
  ASSUME NEW s \in Seq(Msg), NEW t \in Seq(Msg), Told(t)
  PROVE  Told(s \o t)
<1>1. PICK i \in 1 .. Len(t) : t[i].type = "InitialData"
  BY DEF Told
<1>2. /\ Len(s) \in Nat /\ Len(t) \in Nat /\ Len(s \o t) = Len(s) + Len(t)
      /\ \A j \in 1 .. Len(s) + Len(t) :
           (s \o t)[j] = IF j <= Len(s) THEN s[j] ELSE t[j - Len(s)]
  BY ConcatProperties, LenProperties
<1>3. Len(s) + i \in 1 .. Len(s \o t) /\ (s \o t)[Len(s) + i] = t[i]
  BY <1>2
<1>. QED
  BY <1>1, <1>3 DEF Told

\* The newcomer is told its slot and everything the server holds, after whatever
\* was meant for the last player in a slot that was taken early.
LEMMA JoinerFollows ==
  ASSUME TypeOK, ReplicationAssumption, spawned = Active, NEW p \in Pid, p \notin Active,
         NEW c \in Client, players' = [players EXCEPT ![p] = c],
         link[p] = c, ClientKept(p),
         p \notin early => down[p] = <<>>,
         p \notin early /\ sessions[c] = 1 => Fresh(c),
         NEW burst, Scripted(vehicles', burst),
         NEW ps \in Listings(PlayerDump(p)), NEW vs \in Listings(VehicleDump(vehicles')),
         down'[p] = (down[p] \o burst) \o ((<<InitialDataRPC(p)>> \o ps) \o vs)
  PROVE  UnderWay(p)'
<1>. DEFINE h == InitialDataRPC(p)
            lists == (<<h>> \o ps) \o vs
<1>1. h \in Msg /\ h.type = "InitialData"
  BY DEF InitialDataRPC, Msg
<1>2. /\ ps \in Seq(Msg)
      /\ \A i \in 1 .. Len(ps) : ps[i].type \in {"AddPlayer", "SpawnPlayer"}
      /\ \A q \in Pid \ {p} : Run(PlayerStep(q), Entry, ps, NoEntry, Mirror(p, q))
      /\ \A q \in Active \ {p} :
           Run(PlayerPresence(q), Presence, ps, "unknown", "there")
  BY PlayerDumpRuns
<1>3. /\ vehicles' \in [Vid -> Vehicle]
      /\ burst \in Seq(Msg)
      /\ \A i \in 1 .. Len(burst) : burst[i] \in Msg /\ burst[i].type = "SpawnVehicle"
      /\ \A v \in Vid : Run(VehicleStep(v), Vehicle, burst, vehicles[v], vehicles'[v])
      /\ \A v \in Vid : vehicles[v] # NoVehicle =>
           Run(VehicleStep(v), Vehicle, burst, NoVehicle, NoVehicle)
  BY BurstRuns
<1>4. /\ vs \in Seq(Msg)
      /\ \A i \in 1 .. Len(vs) : vs[i].type = "SpawnVehicle"
      /\ \A v \in Vid : \A x \in {NoVehicle, vehicles'[v]} :
           Run(VehicleStep(v), Vehicle, vs, x, vehicles'[v])
      /\ \A v \in Vid : vehicles'[v] # NoVehicle =>
           Run(VehiclePresence(v), Presence, vs, "unknown", "there")
  BY <1>3, VehicleDumpRuns
<1>. HIDE DEF h
<1>5. <<h>> \in Seq(Msg) /\ <<h>> \o ps \in Seq(Msg) /\ lists \in Seq(Msg)
  BY <1>1, <1>2, <1>4, ConcatProperties
<1>6. /\ \A q \in Pid \ {p} : Mirror(p, q)' = Mirror(p, q) /\ Mirror(p, q) \in Entry
      /\ Active' \ {p} = Active \ {p}
      /\ NoEntry \in Entry
  <2>1. \A q \in Pid \ {p} : players'[q] = players[q]
    BY DEF TypeOK
  <2>2. \A q \in Pid \ {p} : Mirror(p, q)' = Mirror(p, q) /\ Mirror(p, q) \in Entry
    BY <2>1, MirrorType DEF Mirror
  <2>3. Active' \ {p} = Active \ {p}
    BY <2>1 DEF Active
  <2>. QED
    BY <2>2, <2>3 DEF NoEntry, Entry
<1>7. Told(burst \o lists)
  <2>1. Len(<<h>>) = 1 /\ <<h>>[1] = h
    OBVIOUS
  <2>2. Len(ps) \in Nat /\ Len(vs) \in Nat /\ Len(burst) \in Nat /\ Len(lists) \in Nat
    BY <1>2, <1>3, <1>4, <1>5, LenProperties
  <2>3. Len(<<h>> \o ps) = 1 + Len(ps) /\ (<<h>> \o ps)[1] = h
    BY <1>2, <1>5, <2>1, <2>2, ConcatProperties
  <2>4. Len(lists) >= 1 /\ lists[1] = h
    BY <1>4, <1>5, <2>2, <2>3, ConcatProperties
  <2>5. 1 \in 1 .. Len(lists)
    BY <2>2, <2>4
  <2>. HIDE DEF lists
  <2>6. Told(lists)
    BY <1>1, <2>4, <2>5 DEF Told
  <2>. QED
    BY <1>3, <1>5, <2>6, ToldSuffix
<1>8. ASSUME NEW q \in Pid \ {p}
      PROVE  Run(PlayerStep(q), Entry, burst \o lists, NoEntry, Mirror(p, q))
  <2>1. Run(PlayerStep(q), Entry, burst, NoEntry, NoEntry)
    BY <1>3, <1>6, PlayersQuiet
  <2>2. Run(PlayerStep(q), Entry, <<h>>, NoEntry, NoEntry)
    BY <1>1, <1>6, StepFrames, RunSingle DEF About
  <2>3. Run(PlayerStep(q), Entry, vs, Mirror(p, q), Mirror(p, q))
    BY <1>4, <1>6, PlayersQuiet
  <2>4. Run(PlayerStep(q), Entry, <<h>> \o ps, NoEntry, Mirror(p, q))
    BY <1>2, <1>5, <2>2, RunConcat
  <2>5. Run(PlayerStep(q), Entry, lists, NoEntry, Mirror(p, q))
    BY <1>4, <1>5, <2>3, <2>4, RunConcat
  <2>. HIDE DEF lists
  <2>. QED
    BY <1>3, <1>5, <2>1, <2>5, RunConcat
<1>9. ASSUME NEW q \in Active \ {p}
      PROVE  Run(PlayerPresence(q), Presence, burst \o lists, "unknown", "there")
  <2>1. Run(PlayerPresence(q), Presence, burst, "unknown", "unknown")
    BY <1>3, RunUnknown
  <2>2. Run(PlayerPresence(q), Presence, <<h>>, "unknown", "unknown")
    BY <1>5, RunUnknown
  <2>3. Run(PlayerPresence(q), Presence, vs, "there", "there")
    BY <1>4, PlayersQuiet
  <2>4. Run(PlayerPresence(q), Presence, <<h>> \o ps, "unknown", "there")
    BY <1>2, <1>5, <2>2, RunConcat
  <2>5. Run(PlayerPresence(q), Presence, lists, "unknown", "there")
    BY <1>4, <1>5, <2>3, <2>4, RunConcat
  <2>. HIDE DEF lists
  <2>. QED
    BY <1>3, <1>5, <2>1, <2>5, RunConcat
<1>10. ASSUME NEW v \in Vid
       PROVE  Run(VehicleStep(v), Vehicle, burst \o lists, NoVehicle, vehicles'[v])
  <2>1. PICK x \in {NoVehicle, vehicles'[v]} :
          Run(VehicleStep(v), Vehicle, burst, NoVehicle, x)
    BY <1>3
  <2>2. x \in Vehicle
    BY <1>3 DEF Vehicle
  <2>3. Run(VehicleStep(v), Vehicle, <<h>>, x, x)
    BY <1>1, <2>2, StepFrames, RunSingle
  <2>4. Run(VehicleStep(v), Vehicle, ps, x, x)
    BY <1>2, <1>3, <2>2, VehiclesKept
  <2>5. Run(VehicleStep(v), Vehicle, vs, x, vehicles'[v])
    BY <1>4
  <2>6. Run(VehicleStep(v), Vehicle, <<h>> \o ps, x, x)
    BY <1>2, <1>5, <2>3, <2>4, RunConcat
  <2>7. Run(VehicleStep(v), Vehicle, lists, x, vehicles'[v])
    BY <1>4, <1>5, <2>5, <2>6, RunConcat
  <2>. HIDE DEF lists
  <2>. QED
    BY <1>3, <1>5, <2>1, <2>7, RunConcat
<1>11. ASSUME NEW v \in Vid, vehicles'[v] # NoVehicle
       PROVE  Run(VehiclePresence(v), Presence, burst \o lists, "unknown", "there")
  <2>1. Run(VehiclePresence(v), Presence, burst, "unknown", "unknown")
    BY <1>3, RunUnknown
  <2>2. Run(VehiclePresence(v), Presence, <<h>> \o ps, "unknown", "unknown")
    BY <1>5, RunUnknown
  <2>3. Run(VehiclePresence(v), Presence, vs, "unknown", "there")
    BY <1>4, <1>11
  <2>4. Run(VehiclePresence(v), Presence, lists, "unknown", "there")
    BY <1>4, <1>5, <2>2, <2>3, RunConcat
  <2>. HIDE DEF lists
  <2>. QED
    BY <1>3, <1>5, <2>1, <2>4, RunConcat
<1>12. /\ link'[p] = c
       /\ p \in early' <=> p \in early
       /\ sessions'[c] = sessions[c] /\ net'[c] = net[c]
       /\ localId'[c] = localId[c] /\ netVeh'[c] = netVeh[c]
  BY DEF ClientKept
<1>. HIDE DEF lists
<1>13. /\ burst \o lists \in Seq(Msg) /\ down[p] \in Seq(Msg)
       /\ down'[p] = down[p] \o (burst \o lists)
       /\ p \notin early => down'[p] = burst \o lists
  <2>1. down[p] \in Seq(Msg) /\ down'[p] = (down[p] \o burst) \o lists
    BY DEF TypeOK, lists, h
  <2>2. PICK d : d = down[p]
    OBVIOUS
  <2>3. burst \o lists \in Seq(Msg) /\ d \in Seq(Msg)
    BY <1>3, <1>5, <2>1, <2>2, ConcatProperties
  <2>4. (d \o burst) \o lists = d \o (burst \o lists)
    BY SMTT(30), <1>3, <1>5, <2>3, ConcatAssociative
  <2>5. <<>> \o (burst \o lists) = burst \o lists
    BY <2>3, ConcatEmptySeq
  <2>. QED
    BY <2>1, <2>2, <2>3, <2>4, <2>5
<1>14. ToldItsSlot(p)'
  <2>. DEFINE x == burst \o lists
  <2>. HIDE DEF x
  <2>1. x \in Seq(Msg) /\ Told(x) /\ down'[p] = down[p] \o x
    BY <1>7, <1>13 DEF x
  <2>2. Told(down[p] \o x)
    BY <1>13, <2>1, ToldSuffix
  <2>. QED
    BY <2>1, <2>2 DEF ToldItsSlot, Told
<1>15. PresenceUnderWay(p)'
  <2>1. \A q \in Active' \ {p} : \E x \in Presence :
          /\ Run(PlayerPresence(q), Presence, down'[p], x, "there")
          /\ x = "there" => net'[link'[p]][q].kind # "none"
    <3>. SUFFICES ASSUME NEW q \in Active' \ {p}
                  PROVE  Run(PlayerPresence(q), Presence, down'[p], "unknown", "there")
      BY DEF Presence
    <3>1. Run(PlayerPresence(q), Presence, burst \o lists, "unknown", "there")
      BY <1>6, <1>9
    <3>2. Run(PlayerPresence(q), Presence, down[p], "unknown", "unknown")
      BY <1>13, RunUnknown
    <3>. QED
      BY <1>13, <3>1, <3>2, RunConcat
  <2>2. \A v \in Vid : vehicles'[v] # NoVehicle => \E x \in Presence :
          /\ Run(VehiclePresence(v), Presence, down'[p], x, "there")
          /\ x = "there" => netVeh'[link'[p]][v] # NoVehicle
    <3>. SUFFICES ASSUME NEW v \in Vid, vehicles'[v] # NoVehicle
                  PROVE  Run(VehiclePresence(v), Presence, down'[p], "unknown", "there")
      BY DEF Presence
    <3>1. Run(VehiclePresence(v), Presence, burst \o lists, "unknown", "there")
      BY <1>11
    <3>2. Run(VehiclePresence(v), Presence, down[p], "unknown", "unknown")
      BY <1>13, RunUnknown
    <3>. QED
      BY <1>13, <3>1, <3>2, RunConcat
  <2>. QED
    BY <1>14, <2>1, <2>2 DEF PresenceUnderWay
<1>16. ASSUME sessions[c] = 1, p \notin early
       PROVE  (PlayersUnderWay(p) /\ VehiclesUnderWay(p) /\ LocalUnderWay(p))'
  <2>1. /\ \A q \in Pid : net'[c][q] = NoEntry
        /\ \A v \in Vid : netVeh'[c][v] = NoVehicle
    BY <1>12, <1>16 DEF Fresh, NoTable
  <2>2. NoEntry.kind = "none"
    BY DEF NoEntry
  <2>3. PlayersUnderWay(p)'
    BY <1>6, <1>8, <1>12, <1>16, <1>13, <2>1 DEF PlayersUnderWay
  <2>4. VehiclesUnderWay(p)'
    BY <1>10, <1>12, <1>16, <1>13, <2>1 DEF VehiclesUnderWay
  <2>5. LocalUnderWay(p)'
    BY <1>12, <1>14, <2>1, <2>2 DEF LocalUnderWay
  <2>. QED
    BY <2>3, <2>4, <2>5
<1>. QED
  BY <1>12, <1>15, <1>16 DEF UnderWay

SentTogether(d, s, t, u) == ((d \o s) \o t) \o u = d \o ((s \o t) \o u)

\* What is sent in three calls is what is sent at once.
LEMMA ConcatRegroup ==
  ASSUME NEW d \in Seq(Msg), NEW s \in Seq(Msg), NEW t \in Seq(Msg), NEW u \in Seq(Msg)
  PROVE  SentTogether(d, s, t, u)
<1>. DEFINE x == s \o t
<1>1. x \in Seq(Msg)
  BY ConcatProperties
<1>2. (d \o s) \o t = d \o x
  BY SMTT(30), ConcatAssociative
<1>. HIDE DEF x
<1>3. (d \o x) \o u = d \o (x \o u)
  BY SMTT(30), <1>1, ConcatAssociative
<1>. QED
  BY <1>2, <1>3 DEF x, SentTogether

\* What a join of c as player p puts on its way to the others and to p itself.
SentToOthers(p, c, burst) ==
  \A r \in Pid : link[r] # NoClient /\ r \in Active =>
    down'[r] = down[r] \o ((<<AddPlayer(p, c)>> \o burst) \o <<SpawnPlayer(p)>>)

SentToNewcomer(p, burst) ==
  link[p] # NoClient =>
    \E ps \in Listings(PlayerDump(p)), vs \in Listings(VehicleDump(vehicles')) :
      down'[p] = (down[p] \o burst) \o ((<<InitialDataRPC(p)>> \o ps) \o vs)

\* The calls of HandlePlayerJoin put that on its way, and nothing to anybody else.
LEMMA JoinSends ==
  ASSUME TypeOK, ReplicationAssumption, NEW p \in Pid, p \notin Active, NEW c \in Client,
         NEW veh, NEW burst \in Seq(Msg), Join(p, c, veh, burst)
  PROVE  /\ players' = [players EXCEPT ![p] = c]
         /\ SentToOthers(p, c, burst)
         /\ SentToNewcomer(p, burst)
         /\ \A r \in Pid : link[r] = NoClient \/ (r \notin Active /\ r # p) =>
              down'[r] = down[r]
<1>. DEFINE others == Active \ {p}
            d1 == RPC(down, others, <<AddPlayer(p, c)>>)
            d2 == RPC(d1, others \cup {p}, burst)
<1>1. players' = [players EXCEPT ![p] = c] /\ vehicles' = veh
  BY DEF Join
<1>2. PICK ps \in Listings(PlayerDump(p)), vs \in Listings(VehicleDump(veh)) :
        down' = RPC(RPC(d2, {p}, <<InitialDataRPC(p)>> \o ps \o vs),
                    others, <<SpawnPlayer(p)>>)
  BY DEF Join
<1>. DEFINE dump == <<InitialDataRPC(p)>> \o ps \o vs
            d3 == RPC(d2, {p}, dump)
<1>3. ASSUME NEW r \in Pid, link[r] # NoClient, r \in Active
      PROVE  down'[r] = down[r] \o ((<<AddPlayer(p, c)>> \o burst) \o <<SpawnPlayer(p)>>)
  <2>. DEFINE a == <<AddPlayer(p, c)>>
              b == <<SpawnPlayer(p)>>
  <2>1. a \in Seq(Msg) /\ b \in Seq(Msg) /\ down[r] \in Seq(Msg)
    BY DEF AddPlayer, SpawnPlayer, Msg, TypeOK
  <2>2. r # p /\ r \in others
    BY <1>3
  <2>. HIDE DEF a, b, others, dump
  <2>3. d1[r] = down[r] \o a
    BY <1>3, <2>2 DEF RPC, a
  <2>. HIDE DEF d1
  <2>4. d2[r] = d1[r] \o burst
    BY <1>3, <2>2 DEF RPC
  <2>. HIDE DEF d2
  <2>5. d3[r] = d2[r]
    BY <2>2 DEF RPC
  <2>. HIDE DEF d3
  <2>6. down' = RPC(d3, others, b)
    BY <1>2 DEF d3, dump, b
  <2>7. down'[r] = ((down[r] \o a) \o burst) \o b
    BY <1>3, <2>2, <2>3, <2>4, <2>5, <2>6 DEF RPC
  <2>8. ((down[r] \o a) \o burst) \o b = down[r] \o ((a \o burst) \o b)
    <3>. DEFINE d == down[r]
    <3>. HIDE DEF d
    <3>1. d \in Seq(Msg) /\ a \in Seq(Msg) /\ b \in Seq(Msg) /\ burst \in Seq(Msg)
      BY <2>1 DEF d
    <3>2. SentTogether(d, a, burst, b)
      BY <3>1, ConcatRegroup
    <3>. QED
      BY <3>2 DEF d, SentTogether
  <2>. QED
    BY <2>7, <2>8 DEF a, b
<1>4. link[p] # NoClient => down'[p] = (down[p] \o burst) \o dump
  <2>. SUFFICES ASSUME link[p] # NoClient
                PROVE  down'[p] = (down[p] \o burst) \o dump
    OBVIOUS
  <2>1. p \notin others
    OBVIOUS
  <2>. HIDE DEF others, dump
  <2>2. d1[p] = down[p]
    BY <2>1 DEF RPC
  <2>. HIDE DEF d1
  <2>3. d2[p] = d1[p] \o burst
    BY DEF RPC
  <2>. HIDE DEF d2
  <2>4. d3[p] = d2[p] \o dump
    BY DEF RPC
  <2>. HIDE DEF d3
  <2>5. down' = RPC(d3, others, <<SpawnPlayer(p)>>)
    BY <1>2 DEF d3, dump
  <2>. QED
    BY <2>1, <2>2, <2>3, <2>4, <2>5 DEF RPC
<1>5. ASSUME NEW r \in Pid, link[r] = NoClient \/ (r \notin Active /\ r # p)
      PROVE  down'[r] = down[r]
  <2>1. link[r] = NoClient \/ (r \notin others /\ r # p)
    BY <1>5
  <2>. HIDE DEF others, dump
  <2>2. d1[r] = down[r]
    BY <2>1 DEF RPC
  <2>. HIDE DEF d1
  <2>3. d2[r] = d1[r]
    BY <2>1 DEF RPC
  <2>. HIDE DEF d2
  <2>4. d3[r] = d2[r]
    BY <2>1 DEF RPC
  <2>. HIDE DEF d3
  <2>5. down' = RPC(d3, others, <<SpawnPlayer(p)>>)
    BY <1>2 DEF d3, dump
  <2>. QED
    BY <2>1, <2>2, <2>3, <2>4, <2>5 DEF RPC
<1>6. SentToOthers(p, c, burst)
  BY <1>3 DEF SentToOthers
<1>7. SentToNewcomer(p, burst)
  BY <1>1, <1>4 DEF SentToNewcomer, dump
<1>. QED
  BY <1>1, <1>5, <1>6, <1>7

-----------------------------------------------------------------------------
(* Connections and sessions *)

\* The connection of slot p is new: none of its packets has been handled, and
\* nothing is left of the last one.
New(p) == ~Joined(p) /\ p \notin early

\* A client is connected on one slot, a process that never connected and one
\* whose first join is still unanswered know nothing, a slot taken early is taken,
\* and nothing is on its way where there is no connection or a new one.
Connections ==
  /\ \A p, q \in Pid : link[p] # NoClient /\ link[p] = link[q] => p = q
  /\ \A c \in Client : sessions[c] = 0 => ~Linked(c) /\ Fresh(c)
  /\ \A p \in Pid :
       link[p] # NoClient /\ New(p) /\ sessions[link[p]] = 1 => Fresh(link[p])
  /\ \A p \in Pid : link[p] = NoClient => p \notin early
  /\ \A p \in Pid : New(p) => down[p] = <<>>

\* An RPC to the active players reaches the joined slots, and no new one.
LEMMA JoinedActive ==
  ASSUME SlotPhases, TypeOK, ReplicationAssumption, NEW r \in Pid
  PROVE  /\ Joined(r) => link[r] # NoClient /\ r \in Active
         /\ New(r) => link[r] = NoClient \/ r \notin Active
<1>1. SlotPhase(r)
  BY DEF SlotPhases
<1>2. Joined(r) => link[r] # NoClient /\ r \in Active
  BY <1>1 DEF SlotPhase, Joined, Active, TypeOK
<1>3. ASSUME New(r), link[r] # NoClient
      PROVE  r \notin Active
  <2>1. /\ inbox[r] # <<>> /\ Len(inbox[r]) = 1
        /\ inbox[r][Len(inbox[r])] = [type |-> "InitialData", name |-> link[r]]
    BY <1>1, <1>3 DEF SlotPhase, New, Joined
  <2>2. inbox[r][1].type = "InitialData" /\ 1 \in 1 .. Len(inbox[r])
    BY <2>1
  <2>. QED
    BY <1>1, <2>2 DEF SlotPhase, Active
<1>. QED
  BY <1>2, <1>3

\* A packet finds its slot in the phase that fits it: a join finds no player, and
\* the player it adds is the client connected if no packet is left; a departure
\* is never the last packet of a connection.
LEMMA PacketPhase ==
  ASSUME SlotPhases, TypeOK, ReplicationAssumption, NEW p \in Pid
  PROVE  /\ InitialData(p) =>
              /\ p \notin Active
              /\ Head(inbox[p]).name \in Client
              /\ Joined(p)' => Head(inbox[p]).name = link[p]
              /\ New(p)' => link[p] = NoClient
              /\ ~Joined(p)
         /\ Disconnected(p) => ~Joined(p) /\ ~Joined(p)'
<1>1. SlotPhase(p)
  BY DEF SlotPhases
<1>2. ASSUME InitialData(p) \/ Disconnected(p)
      PROVE  /\ inbox[p] # <<>> /\ inbox'[p] = Tail(inbox[p]) /\ link' = link /\ early' = early
             /\ Head(inbox[p]).type = "InitialData" <=> InitialData(p)
    BY <1>2 DEF InitialData, Disconnected, Packets, TypeOK
<1>3. ASSUME inbox[p] # <<>>
      PROVE  /\ Head(inbox[p]) = inbox[p][1] /\ 1 \in 1 .. Len(inbox[p])
             /\ Head(inbox[p]).name \in Client
             /\ link[p] # NoClient /\ p \notin early => Tail(inbox[p]) = <<>>
             /\ Tail(inbox[p]) = <<>> =>
                  IF link[p] = NoClient THEN Head(inbox[p]).type # "InitialData"
                  ELSE Head(inbox[p]) = [type |-> "InitialData", name |-> link[p]]
  <2>1. inbox[p] \in Seq(Packet)
    BY DEF TypeOK
  <2>2. 1 \in 1 .. Len(inbox[p])
    BY <1>3, <2>1, LenProperties, EmptySeq
  <2>. QED
    BY <1>1, <1>3, <2>2, PhaseTail
<1>4. ASSUME InitialData(p)
      PROVE  /\ p \notin Active
             /\ Head(inbox[p]).name \in Client
             /\ Joined(p)' => Head(inbox[p]).name = link[p]
             /\ New(p)' => link[p] = NoClient
             /\ ~Joined(p)
  <2>1. p \notin Active
    BY <1>1, <1>2, <1>3, <1>4 DEF SlotPhase, Active
  <2>2. inbox[p] # <<>> /\ inbox'[p] = Tail(inbox[p]) /\ link' = link /\ early' = early
    BY <1>2, <1>4
  <2>3. Joined(p)' => Head(inbox[p]).name = link[p]
    <3>1. Joined(p)' => link[p] # NoClient /\ Tail(inbox[p]) = <<>>
      BY <2>2 DEF Joined
    <3>2. [type |-> "InitialData", name |-> link[p]].name = link[p]
      OBVIOUS
    <3>. QED
      BY <1>3, <2>2, <3>1, <3>2
  <2>4. New(p)' => link[p] = NoClient
    BY <1>3, <2>2 DEF Joined, New
  <2>. QED
    BY <1>3, <2>1, <2>2, <2>3, <2>4 DEF Joined
<1>5. ASSUME Disconnected(p)
      PROVE  ~Joined(p) /\ ~Joined(p)'
  <2>1. Head(inbox[p]).type # "InitialData"
    BY <1>5 DEF Disconnected, Packets
  <2>2. link[p] # NoClient => Tail(inbox[p]) # <<>>
    BY <1>2, <1>3, <1>5, <2>1
  <2>. QED
    BY <1>2, <1>5, <2>2 DEF Joined
<1>. QED
  BY <1>4, <1>5

\* The vehicles a join leaves and the burst a script sent meanwhile go together.
LEMMA InitialDataJoins ==
  ASSUME TypeOK, ReplicationAssumption, NEW p \in Pid, InitialData(p)
  PROVE  /\ \E burst : /\ Scripted(vehicles', burst)
                       /\ Join(p, Head(inbox[p]).name, vehicles', burst)
         /\ UNCHANGED <<link, net, localId, netVeh, sessions, early>>
<1>. DEFINE c == Head(inbox[p]).name
<1>1. CASE Join(p, c, vehicles, <<>>)
  <2>1. vehicles' = vehicles
    BY <1>1 DEF Join
  <2>2. Scripted(vehicles', <<>>)
    BY <2>1 DEF Scripted
  <2>. QED
    BY <1>1, <2>1, <2>2 DEF InitialData, clientVars
<1>2. ASSUME NEW v \in Vid, NEW m \in Models, FirstFree(v),
             Join(p, c, [vehicles EXCEPT ![v] = m], CreateBurst(v, m))
      PROVE  \E burst : Scripted(vehicles', burst) /\ Join(p, c, vehicles', burst)
  <2>1. vehicles' = [vehicles EXCEPT ![v] = m]
    BY <1>2 DEF Join
  <2>2. Scripted(vehicles', CreateBurst(v, m))
    BY <1>2, <2>1 DEF Scripted
  <2>. QED
    BY <1>2, <2>1, <2>2
<1>. QED
  BY <1>1, <1>2 DEF InitialData, clientVars

\* A step that tells nobody anything new about connections.
LEMMA ConnectionsKept ==
  ASSUME Connections, link' = link, sessions' = sessions, net' = net,
         localId' = localId, netVeh' = netVeh, early' = early,
         \A p \in Pid : Joined(p) => Joined(p)',
         \A p \in Pid : New(p)' => down'[p] = <<>>
  PROVE  Connections'
<1>1. /\ \A c : Linked(c)' = Linked(c)
      /\ \A c : Fresh(c)' = Fresh(c)
      /\ \A p \in Pid : New(p)' => New(p)
  BY DEF Linked, Fresh, New
<1>. QED
  BY <1>1 DEF Connections

\* One step of the connections: only a connection starts a session, only the end
\* of a process forgets one, and a new connection is sent nothing before its join.
LEMMA ConnectionsStep ==
  ASSUME TypeOK, ReplicationAssumption, SlotPhases, Connections, [Next]_vars
  PROVE  Connections'
<1>1. ASSUME NEW c \in Client, NEW p \in Pid, ConnectionSucceeded(c, p)
      PROVE  Connections'
  <2>1. /\ link[p] = NoClient /\ link'[p] = c
        /\ \A q \in Pid : q # p => link'[q] = link[q] /\ link'[q] # c
        /\ sessions'[c] = sessions[c] + 1
        /\ \A b \in Client : b # c => sessions'[b] = sessions[b]
        /\ players' = players /\ down' = down
        /\ net' = net /\ localId' = localId /\ netVeh' = netVeh
        /\ sessions[c] \in Nat /\ c # NoClient
        /\ \A q \in Pid : q # p => inbox'[q] = inbox[q] /\ (q \in early' <=> q \in early)
    BY <1>1 DEF ConnectionSucceeded, Linked, TypeOK, serverVars, clientVars,
                ReplicationAssumption
  <2>2. \A b : Fresh(b)' = Fresh(b)
    BY <2>1 DEF Fresh
  <2>3. (\A q, r \in Pid : link[q] # NoClient /\ link[q] = link[r] => q = r)'
    BY <2>1 DEF Connections
  <2>4. (\A b \in Client : sessions[b] = 0 => ~Linked(b) /\ Fresh(b))'
    <3>. SUFFICES ASSUME NEW b \in Client, sessions'[b] = 0
                  PROVE  ~Linked(b)' /\ Fresh(b)
      BY <2>2
    <3>1. b # c /\ sessions[b] = 0
      BY <2>1
    <3>2. ~Linked(b) /\ Fresh(b)
      BY <3>1 DEF Connections
    <3>. QED
      BY <2>1, <3>1, <3>2 DEF Linked
  <2>5. \A q \in Pid : q # p => New(q)' = New(q)
    BY <2>1 DEF New, Joined
  <2>6. (\A q \in Pid :
           link[q] # NoClient /\ New(q) /\ sessions[link[q]] = 1 => Fresh(link[q]))'
    <3>. SUFFICES ASSUME NEW q \in Pid, link'[q] # NoClient, New(q)', sessions'[link'[q]] = 1
                  PROVE  Fresh(link'[q])
      BY <2>1, <2>2
    <3>1. CASE q = p
      <4>1. sessions[c] = 0
        BY <2>1, <3>1
      <4>. QED
        BY <2>1, <3>1, <4>1 DEF Connections
    <3>2. CASE q # p
      <4>1. link[q] \in Client /\ link[q] # c /\ link'[q] = link[q] /\ New(q)
        BY <2>1, <2>5, <3>2 DEF TypeOK
      <4>2. sessions[link[q]] = 1
        BY <2>1, <4>1
      <4>. QED
        BY <4>1, <4>2 DEF Connections
    <3>. QED
      BY <3>1, <3>2
  <2>7. (\A q \in Pid : link[q] = NoClient => q \notin early)'
    BY <2>1 DEF Connections
  <2>8. (\A q \in Pid : New(q) => down[q] = <<>>)'
    <3>. SUFFICES ASSUME NEW q \in Pid, New(q)'
                  PROVE  down[q] = <<>>
      BY <2>1
    <3>1. CASE q = p
      <4>1. New(p)
        BY <2>1 DEF New, Joined, Connections
      <4>. QED
        BY <3>1, <4>1 DEF Connections
    <3>2. CASE q # p
      BY <2>5, <3>2 DEF Connections
    <3>. QED
      BY <3>1, <3>2
  <2>. QED
    BY <2>3, <2>4, <2>6, <2>7, <2>8 DEF Connections
<1>2. ASSUME NEW p \in Pid, NEW r \in {"Disconnected", "LostConnection"}, DropLink(p, r)
      PROVE  /\ link[p] # NoClient /\ link'[p] = NoClient /\ link[p] \in Client
             /\ \A q \in Pid : q # p =>
                  link'[q] = link[q] /\ link[q] # link[p] /\ New(q)' = New(q)
             /\ (\A q \in Pid : link[q] = NoClient => q \notin early)'
             /\ (\A q \in Pid : New(q) => down[q] = <<>>)'
             /\ (\A q, s \in Pid : link[q] # NoClient /\ link[q] = link[s] => q = s)'
             /\ \A b \in Client : Linked(b)' => Linked(b)
  <2>1. /\ link[p] # NoClient /\ link'[p] = NoClient /\ link[p] \in Client
        /\ \A q \in Pid : q # p => link'[q] = link[q]
        /\ down'[p] = <<>>
        /\ \A q \in Pid : q # p => down'[q] = down[q] /\ inbox'[q] = inbox[q]
        /\ early' = early \ {p}
    BY <1>2 DEF DropLink, TypeOK
  <2>2. \A q \in Pid : q # p => link[q] # link[p]
    BY <2>1 DEF Connections
  <2>3. \A q \in Pid : q # p => New(q)' = New(q)
    BY <2>1 DEF New, Joined
  <2>4. (\A q \in Pid : New(q) => down[q] = <<>>)'
    BY <2>1, <2>3 DEF Connections
  <2>5. (\A q \in Pid : link[q] = NoClient => q \notin early)'
    BY <2>1 DEF Connections
  <2>6. (\A q, s \in Pid : link[q] # NoClient /\ link[q] = link[s] => q = s)'
    BY <2>1 DEF Connections
  <2>7. ASSUME NEW b \in Client, Linked(b)'
        PROVE  Linked(b)
    <3>1. PICK q \in Pid : link'[q] = b
      BY <2>7 DEF Linked
    <3>2. CASE q # p
      BY <2>1, <3>1, <3>2 DEF Linked
    <3>3. CASE q = p
      BY <2>1, <3>1, <3>3 DEF ReplicationAssumption
    <3>. QED
      BY <3>2, <3>3
  <2>. QED
    BY <2>1, <2>2, <2>3, <2>4, <2>5, <2>6, <2>7
<1>3. ASSUME NEW p \in Pid, LostConnection(p)
      PROVE  Connections'
  <2>1. /\ net' = net /\ localId' = localId /\ netVeh' = netVeh /\ sessions' = sessions
    BY <1>3 DEF LostConnection, clientVars
  <2>2. \A b : Fresh(b)' = Fresh(b)
    BY <2>1 DEF Fresh
  <2>3. DropLink(p, "LostConnection")
    BY <1>3 DEF LostConnection
  <2>4. (\A q \in Pid :
           link[q] # NoClient /\ New(q) /\ sessions[link[q]] = 1 => Fresh(link[q]))'
    BY <1>2, <2>1, <2>2, <2>3 DEF Connections
  <2>. QED
    BY <1>2, <2>1, <2>2, <2>3, <2>4 DEF Connections
<1>4. ASSUME NEW p \in Pid, QuitClient(p)
      PROVE  Connections'
  <2>. DEFINE c == link[p]
  <2>1. /\ DropLink(p, "Disconnected")
        /\ c \in Client
    BY <1>4 DEF QuitClient, DropLink, TypeOK
  <2>2. /\ sessions'[c] = 0
        /\ net'[c] = NoTable /\ localId'[c] = NoPid
        /\ netVeh'[c] = [v \in Vid |-> NoVehicle]
        /\ \A b \in Client : b # c =>
             /\ sessions'[b] = sessions[b]
             /\ net'[b] = net[b] /\ localId'[b] = localId[b] /\ netVeh'[b] = netVeh[b]
    BY <1>4, <2>1 DEF QuitClient, TypeOK
  <2>3. /\ link'[p] = NoClient
        /\ \A q \in Pid : q # p => link'[q] = link[q] /\ link[q] # c /\ New(q)' = New(q)
        /\ (\A q \in Pid : link[q] = NoClient => q \notin early)'
        /\ (\A q \in Pid : New(q) => down[q] = <<>>)'
        /\ (\A q, s \in Pid : link[q] # NoClient /\ link[q] = link[s] => q = s)'
        /\ \A b \in Client : Linked(b)' => Linked(b)
    BY <1>2, <2>1
  <2>. HIDE DEF c
  <2>4. ASSUME NEW b \in Client, sessions'[b] = 0
        PROVE  ~Linked(b)' /\ Fresh(b)'
    <3>1. CASE b = c
      <4>1. Fresh(b)'
        BY <2>2, <3>1 DEF Fresh
      <4>2. ~Linked(b)'
        BY <2>1, <2>3, <3>1 DEF Linked, ReplicationAssumption
      <4>. QED
        BY <4>1, <4>2
    <3>2. CASE b # c
      <4>1. ~Linked(b) /\ Fresh(b)
        BY <2>2, <2>4, <3>2 DEF Connections
      <4>2. Fresh(b)'
        BY <2>2, <3>2, <4>1 DEF Fresh
      <4>. QED
        BY <2>3, <4>1, <4>2
    <3>. QED
      BY <3>1, <3>2
  <2>5. ASSUME NEW q \in Pid, link'[q] # NoClient, New(q)', sessions'[link'[q]] = 1
        PROVE  Fresh(link[q])'
    <3>1. q # p /\ link'[q] = link[q] /\ link[q] # c /\ New(q)
      BY <2>3, <2>5
    <3>2. link[q] \in Client
      BY <2>5, <3>1 DEF TypeOK
    <3>3. sessions[link[q]] = 1
      BY <2>2, <2>5, <3>1, <3>2
    <3>4. Fresh(link[q])
      BY <2>5, <3>1, <3>3 DEF Connections
    <3>. QED
      BY <2>2, <3>1, <3>2, <3>4 DEF Fresh
  <2>6. (\A b \in Client : sessions[b] = 0 => ~Linked(b) /\ Fresh(b))'
    BY <2>4
  <2>7. (\A q \in Pid :
           link[q] # NoClient /\ New(q) /\ sessions[link[q]] = 1 => Fresh(link[q]))'
    BY <2>5
  <2>. QED
    BY <2>3, <2>6, <2>7 DEF Connections
<1>5. ASSUME NEW p \in Pid, InitialData(p)
      PROVE  Connections'
  <2>. DEFINE c == Head(inbox[p]).name
  <2>1. PICK burst : Scripted(vehicles', burst) /\ Join(p, c, vehicles', burst)
    BY <1>5, InitialDataJoins
  <2>2. UNCHANGED <<link, net, localId, netVeh, sessions, early>>
    BY <1>5, InitialDataJoins
  <2>3. /\ p \notin Active /\ c \in Client /\ ~Joined(p)
        /\ New(p)' => link[p] = NoClient
    BY <1>5, PacketPhase
  <2>4. burst \in Seq(Msg)
    BY <2>1, BurstRuns
  <2>. HIDE DEF c
  <2>5. \A r \in Pid : link[r] = NoClient \/ (r \notin Active /\ r # p) =>
          down'[r] = down[r]
    BY <2>1, <2>3, <2>4, JoinSends
  <2>6. \A q \in Pid : q # p => inbox'[q] = inbox[q]
    BY <1>5 DEF InitialData, TypeOK
  <2>7. \A q \in Pid : q # p => Joined(q)' = Joined(q) /\ New(q)' = New(q)
    BY <2>2, <2>6 DEF Joined, New
  <2>8. ASSUME NEW q \in Pid, New(q)'
        PROVE  down'[q] = <<>>
    <3>1. New(q)
      BY <2>2, <2>3, <2>7, <2>8 DEF New
    <3>2. link[q] = NoClient \/ (q \notin Active /\ q # p)
      BY <2>3, <2>8, <3>1, JoinedActive
    <3>. QED
      BY <2>5, <3>1, <3>2 DEF Connections
  <2>9. \A q \in Pid : Joined(q) => Joined(q)'
    BY <2>3, <2>7
  <2>. QED
    BY <2>2, <2>8, <2>9, ConnectionsKept
<1>6. ASSUME NEW T, NEW s, down' = RPC(down, T, s), T \subseteq Active,
             \A q \in Pid : Joined(q)' = Joined(q),
             link' = link, sessions' = sessions, net' = net, localId' = localId,
             netVeh' = netVeh, early' = early
      PROVE  Connections'
  <2>1. \A q \in Pid : New(q)' => New(q)
    BY <1>6 DEF New
  <2>2. \A q \in Pid : New(q)' => down'[q] = <<>>
    BY <1>6, <2>1, JoinedActive DEF Connections, RPC
  <2>. QED
    BY <1>6, <2>2, ConnectionsKept
<1>7. ASSUME NEW p \in Pid, Disconnected(p)
      PROVE  Connections'
  <2>1. ~Joined(p) /\ ~Joined(p)'
    BY <1>7, PacketPhase
  <2>2. /\ link' = link /\ sessions' = sessions /\ net' = net /\ localId' = localId
        /\ netVeh' = netVeh /\ early' = early
        /\ \A q \in Pid : q # p => inbox'[q] = inbox[q]
    BY <1>7 DEF Disconnected, TypeOK, clientVars
  <2>3. \A q \in Pid : Joined(q)' = Joined(q)
    BY <2>1, <2>2 DEF Joined
  <2>4. CASE p \in Active
    <3>1. down' = RPC(down, Active \ {p}, <<DeletePlayer(p)>>)
      BY <1>7, <2>4 DEF Disconnected, Delete
    <3>. QED
      BY <1>6, <2>2, <2>3, <3>1
  <2>5. CASE p \notin Active
    <3>1. down' = down
      BY <1>7, <2>5 DEF Disconnected
    <3>2. \A q \in Pid : New(q)' => New(q)
      BY <2>2, <2>3 DEF New
    <3>. QED
      BY <2>2, <2>3, <3>1, <3>2, ConnectionsKept DEF Connections
  <2>. QED
    BY <2>4, <2>5
<1>8. ASSUME NEW m \in Models, CreateVehicle(m)
      PROVE  Connections'
  <2>1. PICK v \in Vid : down' = RPC(down, Active, CreateBurst(v, m))
    BY <1>8 DEF CreateVehicle
  <2>. QED
    BY <1>6, <1>8, <2>1 DEF CreateVehicle, clientVars, Joined
<1>9. ASSUME NEW v \in Vid, DeleteVehicle(v)
      PROVE  Connections'
  BY <1>6, <1>9 DEF DeleteVehicle, clientVars, Joined
<1>10. ASSUME NEW p \in Pid, Receive(p)
       PROVE  Connections'
  <2>. DEFINE c == link[p]
  <2>1. /\ c \in Client /\ c # NoClient /\ down[p] # <<>>
        /\ link' = link /\ inbox' = inbox /\ sessions' = sessions /\ early' = early
        /\ \A b \in Client : b # c =>
             net'[b] = net[b] /\ localId'[b] = localId[b] /\ netVeh'[b] = netVeh[b]
        /\ \A q \in Pid : q # p => down'[q] = down[q]
    BY <1>10 DEF Receive, TypeOK
  <2>2. \A b \in Client : b # c => Fresh(b)' = Fresh(b)
    BY <2>1 DEF Fresh
  <2>3. \A b : Linked(b)' = Linked(b)
    BY <2>1 DEF Linked
  <2>4. \A q \in Pid : New(q)' = New(q)
    BY <2>1 DEF New, Joined
  <2>5. sessions[c] # 0
    BY <2>1 DEF Connections, Linked
  <2>6. ~New(p)
    BY <2>1 DEF Connections
  <2>7. ASSUME NEW q \in Pid, link[q] # NoClient, New(q), sessions[link[q]] = 1
        PROVE  Fresh(link[q])'
    <3>1. q # p /\ link[q] \in Client
      BY <2>6, <2>7 DEF TypeOK
    <3>2. link[q] # c
      BY <2>1, <2>7, <3>1 DEF Connections
    <3>3. Fresh(link[q])
      BY <2>7 DEF Connections
    <3>. QED
      BY <2>1, <2>2, <3>1, <3>2, <3>3 DEF Fresh
  <2>8. (\A b \in Client : sessions[b] = 0 => ~Linked(b) /\ Fresh(b))'
    BY <2>1, <2>2, <2>3, <2>5 DEF Connections
  <2>9. (\A q \in Pid : New(q) => down[q] = <<>>)'
    BY <2>1, <2>4, <2>6 DEF Connections
  <2>10. /\ (\A q, s \in Pid : link[q] # NoClient /\ link[q] = link[s] => q = s)'
         /\ (\A q \in Pid : link[q] = NoClient => q \notin early)'
    BY <2>1 DEF Connections
  <2>11. (\A q \in Pid :
            link[q] # NoClient /\ New(q) /\ sessions[link[q]] = 1 => Fresh(link[q]))'
    BY <2>1, <2>4, <2>7 DEF Fresh
  <2>. QED
    BY <2>8, <2>9, <2>10, <2>11 DEF Connections
<1>11. CASE UNCHANGED vars
  <2>1. \A q \in Pid : Joined(q)' = Joined(q)
    BY <1>11 DEF vars, Joined
  <2>2. \A q \in Pid : New(q)' = New(q)
    BY <1>11, <2>1 DEF vars, New
  <2>. QED
    BY <1>11, <2>1, <2>2, ConnectionsKept DEF vars, Connections
<1>. QED
  BY <1>1, <1>3, <1>4, <1>5, <1>7, <1>8, <1>9, <1>10, <1>11 DEF Next

-----------------------------------------------------------------------------
(* The theorems *)

\* Every client the server knows is up to date but for what is on its way.
Views == \A p \in Pid : Joined(p) => UnderWay(p)

\* The handlers that send an RPC to the players keep every one up to date.
LEMMA BroadcastStep ==
  ASSUME TypeOK, ReplicationAssumption, SlotPhases, Views,
         NEW T \in SUBSET Pid, NEW s \in Seq(Msg), down' = RPC(down, T, s),
         \A r \in Pid : Joined(r)' => Joined(r) /\ r \in T /\ FollowsPlayers(r, s),
         FollowsVehicles(s),
         UNCHANGED <<link, sessions, early, net, localId, netVeh>>
  PROVE  Views'
<1>. SUFFICES ASSUME NEW r \in Pid, Joined(r)'
              PROVE  UnderWay(r)'
  BY DEF Views
<1>1. Joined(r) /\ UnderWay(r) /\ r \in T /\ FollowsPlayers(r, s)
  BY DEF Views
<1>2. ClientKept(r)
  BY DEF ClientKept
<1>3. down'[r] = down[r] \o s
  BY <1>1 DEF RPC, Joined
<1>. QED
  BY <1>1, <1>2, <1>3, ViewSent

\* One step of every handler and of every client.
LEMMA ViewsStep ==
  ASSUME TypeOK, TypeOK', ReplicationAssumption, SlotPhases, Discreet(down), Connections,
         Views, [Next]_vars
  PROVE  Views'
<1>1. ASSUME NEW c \in Client, NEW p \in Pid, ConnectionSucceeded(c, p)
      PROVE  Views'
  <2>. SUFFICES ASSUME NEW r \in Pid, Joined(r)'
                PROVE  UnderWay(r)'
    BY DEF Views
  <2>1. /\ link[p] = NoClient /\ link'[p] = c
        /\ \A q \in Pid : q # p =>
             link'[q] = link[q] /\ inbox'[q] = inbox[q] /\ (q \in early' <=> q \in early)
        /\ inbox'[p] # <<>>
        /\ link[r] # c
        /\ \A b \in Client : b # c => sessions'[b] = sessions[b]
        /\ UNCHANGED <<down, players, vehicles, net, localId, netVeh>>
        /\ c # NoClient
    <3>1. inbox'[p] = Append(inbox[p], [type |-> "InitialData", name |-> c])
      BY <1>1 DEF ConnectionSucceeded, TypeOK
    <3>2. inbox[p] \in Seq(Packet) /\ [type |-> "InitialData", name |-> c] \in Packet
      BY DEF TypeOK, Packet
    <3>3. inbox'[p] # <<>>
      BY <3>1, <3>2, AppendProperties
    <3>. QED
      BY <1>1, <3>3 DEF ConnectionSucceeded, Linked, TypeOK, serverVars, clientVars,
                        ReplicationAssumption
  <2>2. r # p
    BY <2>1 DEF Joined
  <2>3. Joined(r) /\ link[r] \in Client /\ link'[r] = link[r]
    BY <2>1, <2>2 DEF Joined, TypeOK
  <2>4. ClientKept(r)
    BY <2>1, <2>3 DEF ClientKept
  <2>. QED
    BY <2>1, <2>3, <2>4, ViewKept DEF Views
<1>2. ASSUME NEW p \in Pid, LostConnection(p) \/ QuitClient(p)
      PROVE  Views'
  <2>. SUFFICES ASSUME NEW r \in Pid, Joined(r)'
                PROVE  UnderWay(r)'
    BY DEF Views
  <2>1. /\ link[p] # NoClient /\ link'[p] = NoClient /\ link[p] \in Client
        /\ \A q \in Pid : q # p =>
             /\ link'[q] = link[q] /\ down'[q] = down[q] /\ inbox'[q] = inbox[q]
             /\ q \in early' <=> q \in early
        /\ UNCHANGED <<players, vehicles>>
    BY ZenonT(60), <1>2 DEF LostConnection, QuitClient, DropLink, TypeOK, serverVars
  <2>2. \A b \in Client : b # link[p] =>
          /\ sessions'[b] = sessions[b] /\ net'[b] = net[b]
          /\ localId'[b] = localId[b] /\ netVeh'[b] = netVeh[b]
    BY ZenonT(60), <1>2 DEF LostConnection, QuitClient, TypeOK, clientVars
  <2>3. r # p /\ Joined(r) /\ link[r] \in Client
    BY <2>1 DEF Joined, TypeOK
  <2>4. link[r] # link[p]
    BY <2>1, <2>3 DEF Connections, Joined
  <2>5. ClientKept(r)
    BY <2>1, <2>2, <2>3, <2>4 DEF ClientKept
  <2>. QED
    BY <2>1, <2>3, <2>5, ViewKept DEF Views
<1>3. ASSUME NEW p \in Pid, InitialData(p)
      PROVE  Views'
  <2>. DEFINE c == Head(inbox[p]).name
  <2>1. PICK burst : Scripted(vehicles', burst) /\ Join(p, c, vehicles', burst)
    BY <1>3, InitialDataJoins
  <2>2. UNCHANGED <<link, net, localId, netVeh, sessions, early>>
    BY <1>3, InitialDataJoins
  <2>3. /\ p \notin Active /\ c \in Client /\ ~Joined(p)
        /\ Joined(p)' => c = link[p]
    BY <1>3, PacketPhase
  <2>4. /\ burst \in Seq(Msg)
        /\ \A i \in 1 .. Len(burst) : burst[i].type = "SpawnVehicle"
    BY <2>1, BurstRuns
  <2>. HIDE DEF c
  <2>5. /\ players' = [players EXCEPT ![p] = c]
        /\ SentToOthers(p, c, burst)
        /\ SentToNewcomer(p, burst)
    BY <2>1, <2>3, <2>4, JoinSends
  <2>6. \A r \in Pid : ClientKept(r)
    BY <2>2 DEF ClientKept
  <2>7. ASSUME Joined(p)'
        PROVE  UnderWay(p)'
    <3>1. link[p] # NoClient /\ link[p] = c
      BY <2>2, <2>3, <2>7 DEF Joined
    <3>2. p \notin early => New(p)
      BY <2>3 DEF New
    <3>3. /\ p \notin early => down[p] = <<>>
          /\ p \notin early /\ sessions[c] = 1 => Fresh(c)
      BY <3>1, <3>2 DEF Connections
    <3>4. PICK ps \in Listings(PlayerDump(p)), vs \in Listings(VehicleDump(vehicles')) :
            down'[p] = (down[p] \o burst) \o ((<<InitialDataRPC(p)>> \o ps) \o vs)
      BY <2>5, <3>1 DEF SentToNewcomer
    <3>5. spawned = Active
      BY DEF SlotPhases
    <3>. QED
      BY <2>1, <2>3, <2>5, <2>6, <3>1, <3>3, <3>4, <3>5, JoinerFollows
  <2>8. ASSUME NEW r \in Pid, r # p, Joined(r)'
        PROVE  UnderWay(r)'
    <3>1. Joined(r)
      BY <1>3, <2>2, <2>8 DEF Joined, InitialData, TypeOK
    <3>2. link[r] # NoClient /\ r \in Active
      BY <3>1, JoinedActive
    <3>. DEFINE a == <<AddPlayer(p, c)>>
                b == <<SpawnPlayer(p)>>
                s == (a \o burst) \o b
    <3>3. /\ a \in Seq(Msg) /\ b \in Seq(Msg)
          /\ \A i \in 1 .. Len(a) : a[i].type \notin {"SpawnVehicle", "DestroyVehicle"}
          /\ \A i \in 1 .. Len(b) : b[i].type \notin {"SpawnVehicle", "DestroyVehicle"}
      BY <2>3 DEF AddPlayer, SpawnPlayer, Msg
    <3>4. FollowsPlayers(r, s)
      BY <2>3, <2>4, <2>5, <2>8, JoinFollows
    <3>5. down'[r] = down[r] \o s
      BY <2>5, <3>2 DEF SentToOthers
    <3>. HIDE DEF a, b
    <3>6. FollowsVehicles(burst)
      BY <2>1, BurstFollows
    <3>7. FollowsVehicles(s) /\ s \in Seq(Msg)
      <4>1. a \o burst \in Seq(Msg)
        BY <2>4, <3>3, ConcatProperties
      <4>2. s \in Seq(Msg)
        BY <3>3, <4>1, ConcatProperties
      <4>. QED
        BY <2>4, <3>3, <3>6, <4>2, FollowVehiclesPlus
    <3>. HIDE DEF s
    <3>. QED
      BY <2>6, <3>1, <3>4, <3>5, <3>7, ViewSent DEF Views
  <2>. QED
    BY <2>7, <2>8 DEF Views
<1>4. ASSUME NEW p \in Pid, Disconnected(p)
      PROVE  Views'
  <2>. DEFINE s == <<DeletePlayer(p)>>
  <2>1. /\ ~Joined(p) /\ ~Joined(p)'
        /\ UNCHANGED <<vehicles, link, sessions, early, net, localId, netVeh>>
        /\ \A r \in Pid : r # p => inbox'[r] = inbox[r]
    BY <1>4, PacketPhase DEF Disconnected, TypeOK, clientVars
  <2>2. \A r \in Pid : Joined(r)' => Joined(r) /\ r # p /\ r \in Active
    BY <2>1, JoinedActive DEF Joined
  <2>3. /\ s \in Seq(Msg)
        /\ \A i \in 1 .. Len(s) : s[i].type \notin {"SpawnVehicle", "DestroyVehicle"}
    BY DEF DeletePlayer, Msg
  <2>4. CASE p \in Active
    <3>1. /\ players' = [players EXCEPT ![p] = NoClient]
          /\ down' = RPC(down, Active \ {p}, s)
      BY <1>4, <2>4 DEF Disconnected, Delete
    <3>2. ASSUME NEW r \in Pid, Joined(r)'
          PROVE  Joined(r) /\ r \in Active \ {p} /\ FollowsPlayers(r, s)
      BY <2>2, <2>4, <3>1, <3>2, DeleteFollows
    <3>3. FollowsVehicles(s)
      <4>1. vehicles \in [Vid -> Vehicle]
        BY DEF TypeOK, Vehicle
      <4>. HIDE DEF s
      <4>. QED
        BY <2>1, <2>3, <4>1, VehiclesKept
    <3>4. Active \ {p} \in SUBSET Pid
      BY DEF Active
    <3>. HIDE DEF s
    <3>. QED
      BY <2>1, <2>3, <3>1, <3>2, <3>3, <3>4, BroadcastStep
  <2>5. CASE p \notin Active
    <3>1. UNCHANGED <<players, down>>
      BY <1>4, <2>5 DEF Disconnected
    <3>2. \A r \in Pid : ClientKept(r)
      BY <2>1 DEF ClientKept
    <3>. QED
      BY <2>1, <2>2, <3>1, <3>2, ViewKept DEF Views
  <2>. QED
    BY <2>4, <2>5
<1>5. ASSUME NEW s \in Seq(Msg), down' = RPC(down, Active, s), FollowsVehicles(s),
             \A i \in 1 .. Len(s) : s[i].type \in {"SpawnVehicle", "DestroyVehicle"},
             UNCHANGED <<players, link, inbox, sessions, early, net, localId, netVeh>>
      PROVE  Views'
  <2>1. \A r \in Pid : Joined(r)' => Joined(r) /\ r \in Active /\ FollowsPlayers(r, s)
    BY <1>5, JoinedActive, PlayersKept DEF Joined
  <2>2. Active \in SUBSET Pid
    BY DEF Active
  <2>. QED
    BY <1>5, <2>1, <2>2, BroadcastStep
<1>6. ASSUME NEW m \in Models, CreateVehicle(m)
      PROVE  Views'
  <2>1. PICK v \in Vid : /\ FirstFree(v)
                         /\ vehicles' = [vehicles EXCEPT ![v] = m]
                         /\ down' = RPC(down, Active, CreateBurst(v, m))
    BY <1>6 DEF CreateVehicle
  <2>2. Scripted(vehicles', CreateBurst(v, m))
    BY <2>1 DEF Scripted
  <2>3. /\ CreateBurst(v, m) \in Seq(Msg)
        /\ \A i \in 1 .. Len(CreateBurst(v, m)) : CreateBurst(v, m)[i].type = "SpawnVehicle"
        /\ FollowsVehicles(CreateBurst(v, m))
    BY <2>2, BurstRuns, BurstFollows
  <2>4. UNCHANGED <<players, link, inbox, sessions, early, net, localId, netVeh>>
    BY <1>6 DEF CreateVehicle, clientVars
  <2>. QED
    BY <1>5, <2>1, <2>3, <2>4
<1>7. ASSUME NEW v \in Vid, DeleteVehicle(v)
      PROVE  Views'
  <2>1. /\ <<DestroyVehicle(v)>> \in Seq(Msg)
        /\ \A i \in 1 .. Len(<<DestroyVehicle(v)>>) :
             <<DestroyVehicle(v)>>[i].type = "DestroyVehicle"
    BY DEF DestroyVehicle, Msg
  <2>2. FollowsVehicles(<<DestroyVehicle(v)>>)
    BY <1>7, DestroyFollows DEF DeleteVehicle
  <2>3. /\ down' = RPC(down, Active, <<DestroyVehicle(v)>>)
        /\ UNCHANGED <<players, link, inbox, sessions, early, net, localId, netVeh>>
    BY <1>7 DEF DeleteVehicle, clientVars
  <2>. QED
    BY <1>5, <2>1, <2>2, <2>3
<1>8. ASSUME NEW p \in Pid, Receive(p)
      PROVE  Views'
  <2>. SUFFICES ASSUME NEW r \in Pid, Joined(r)'
                PROVE  UnderWay(r)'
    BY DEF Views
  <2>1. /\ link[p] \in Client
        /\ UNCHANGED <<link, inbox, players, vehicles, sessions, early>>
        /\ \A b \in Client : b # link[p] =>
             net'[b] = net[b] /\ localId'[b] = localId[b] /\ netVeh'[b] = netVeh[b]
        /\ \A q \in Pid : q # p => down'[q] = down[q]
    BY <1>8 DEF Receive, TypeOK, serverVars
  <2>2. Joined(r) /\ link[r] \in Client
    BY <2>1 DEF Joined, TypeOK
  <2>3. CASE r = p
    BY <1>8, <2>2, <2>3, ViewReceived DEF Views
  <2>4. CASE r # p
    <3>1. link[r] # link[p]
      BY <2>2, <2>4 DEF Connections, Joined
    <3>2. ClientKept(r)
      BY <2>1, <2>2, <3>1 DEF ClientKept
    <3>. QED
      BY <2>1, <2>2, <2>4, <3>2, ViewKept DEF Views
  <2>. QED
    BY <2>3, <2>4
<1>9. CASE UNCHANGED vars
  <2>. SUFFICES ASSUME NEW r \in Pid, Joined(r)'
                PROVE  UnderWay(r)'
    BY DEF Views
  <2>1. Joined(r) /\ ClientKept(r)
    BY <1>9 DEF vars, Joined, ClientKept
  <2>. QED
    BY <1>9, <2>1, ViewKept DEF Views, vars
<1>. QED
  BY <1>1, <1>2, <1>3, <1>4, <1>6, <1>7, <1>8, <1>9 DEF Next

\* Connections and views hold from the start, when nobody is connected.
THEOREM ReplicationViews == Spec => [](Connections /\ Views)
<1>1. Init => Connections /\ Views
  <2>. SUFFICES ASSUME Init
                PROVE  Connections /\ Views
    OBVIOUS
  <2>1. \A p \in Pid : link[p] = NoClient /\ down[p] = <<>> /\ p \notin early
    BY DEF Init
  <2>2. \A c \in Client : ~Linked(c) /\ Fresh(c)
    BY <2>1, ReplicationAssumption DEF Init, Linked, Fresh, ReplicationAssumption
  <2>. QED
    BY <2>1, <2>2 DEF Connections, Views, Joined
<1>2. /\ TypeOK /\ TypeOK' /\ SlotPhases /\ Discreet(down) /\ Connections /\ Views
      /\ [Next]_vars
      => Connections' /\ Views'
  BY ConnectionsStep, ViewsStep, ReplicationAssumption
<1>. QED
  BY <1>1, <1>2, ReplicationTypes, ReplicationSlotPhases, ReplicationDiscreet, PTL DEF Spec

\* A client of which the server has handled everything, and that has handled
\* everything sent to it, holds the server's tables if this is its process's
\* first session and its slot was not taken early: the doubled SpawnVehicle, the silent refusals of Add and the
\* order of the dumps lose and duplicate nothing.
THEOREM ReplicationViewConverges == Spec => []ViewConverges
<1>1. TypeOK /\ Connections /\ Views => ViewConverges
  <2>. SUFFICES ASSUME TypeOK, Connections, Views, NEW c \in Client, NEW p \in Pid,
                       UpToDate(c, p), sessions[c] = 1, p \notin early
                PROVE  /\ localId[c] = p
                       /\ \A q \in Pid : net[c][q] = Mirror(p, q)
                       /\ netVeh[c] = vehicles
    BY DEF ViewConverges
  <2>1. link[p] = c /\ down[p] = <<>> /\ Joined(p)
    BY ReplicationAssumption DEF UpToDate, Joined, ReplicationAssumption
  <2>2. PlayersUnderWay(p) /\ VehiclesUnderWay(p) /\ LocalUnderWay(p)
    BY <2>1 DEF Views, UnderWay
  <2>3. \A q \in Pid \ {p} : net[c][q] = Mirror(p, q)
    BY <2>1, <2>2, RunEmpty DEF PlayersUnderWay
  <2>4. \A v \in Vid : netVeh[c][v] = vehicles[v]
    BY <2>1, <2>2, RunEmpty DEF VehiclesUnderWay
  <2>5. ~ToldItsSlot(p)
    BY <2>1 DEF ToldItsSlot, Told
  <2>6. localId[c] = p /\ net[c][p] = LocalEntry
    BY <2>1, <2>2, <2>5 DEF LocalUnderWay
  <2>7. netVeh[c] = vehicles
    BY <2>4 DEF TypeOK
  <2>. QED
    BY <2>3, <2>6, <2>7 DEF Mirror
<1>. QED
  BY <1>1, ReplicationTypes, ReplicationViews, PTL

\* A client has one local player as long as SetLocalPlayerId never stopped below
\* the one it had.
OneLocal ==
  \A c \in Client \ doubled : \A p, q \in Pid :
    net[c][p].kind = "local" /\ net[c][q].kind = "local" => p = q

\* Told its slot, a client with one local player moves it, unless the loop stops
\* at another player in the new slot.
LEMMA OneLocalMoved ==
  ASSUME NEW t \in [Pid -> Entry], NEW p \in Pid, ReplicationAssumption, ~StopsBelow(t, p),
         \A i, j \in Pid : t[i].kind = "local" /\ t[j].kind = "local" => i = j
  PROVE  \A i, j \in Pid :
           /\ SetLocalPlayerId(t, p)[i].kind = "local"
           /\ SetLocalPlayerId(t, p)[j].kind = "local"
           => i = j
<1>1. ASSUME NEW i \in Pid, i # p, SetLocalPlayerId(t, p)[i].kind = "local"
      PROVE  FALSE
  <2>. DEFINE hits == {k \in Pid : t[k].kind = "local" \/ (k = p /\ t[k].kind = "remote")}
  <2>1. /\ SetLocalPlayerId(t, p)[i] =
             IF i \in hits /\ \A j \in hits : i <= j THEN NoEntry ELSE t[i]
        /\ NoEntry.kind # "local"
    BY <1>1 DEF SetLocalPlayerId, NoEntry
  <2>2. t[i].kind = "local" /\ i \in hits
    BY <1>1, <2>1
  <2>3. PICK j \in hits : ~(i <= j)
    BY <1>1, <2>1, <2>2
  <2>4. j \in Pid /\ i \in Int /\ j \in Int /\ p \in Int
    BY DEF Pid
  <2>5. j # i /\ i > j
    BY <2>3, <2>4
  <2>6. j = p /\ t[p].kind = "remote"
    BY <2>2, <2>4, <2>5
  <2>. QED
    BY <2>2, <2>5, <2>6 DEF StopsBelow
<1>. QED
  BY <1>1

\* Only a client that is told its slot, and keeps its old local player above it,
\* comes to have two.
LEMMA OneLocalStep ==
  ASSUME TypeOK, ReplicationAssumption, OneLocal, [Next]_vars
  PROVE  OneLocal'
<1>1. ASSUME NEW p \in Pid, QuitClient(p)
      PROVE  OneLocal'
  <2>1. /\ doubled' = doubled \ {link[p]}
        /\ \A c \in Client : c # link[p] => net'[c] = net[c]
        /\ link[p] \in Client => net'[link[p]] = NoTable
    BY <1>1 DEF QuitClient, TypeOK
  <2>2. \A q \in Pid : NoTable[q].kind # "local"
    BY DEF NoTable, NoEntry
  <2>. QED
    BY <2>1, <2>2 DEF OneLocal
<1>2. ASSUME NEW p \in Pid, Receive(p)
      PROVE  OneLocal'
  <2>. DEFINE c == link[p]
              m == Head(down[p])
  <2>1. /\ c \in Client /\ m \in Msg /\ net[c] \in [Pid -> Entry]
    BY <1>2, HeadTailProperties DEF Receive, TypeOK
  <2>2. /\ m.type = "InitialData" =>
             /\ net'[c] = SetLocalPlayerId(net[c], m.id)
             /\ doubled' = IF StopsBelow(net[c], m.id) THEN doubled \cup {c} ELSE doubled
        /\ m.type # "InitialData" =>
             net'[c] = ApplyToPlayers(net[c], m) /\ doubled' = doubled
        /\ \A b \in Client : b # c => net'[b] = net[b]
    BY <1>2, <2>1 DEF Receive, TypeOK
  <2>. HIDE DEF c, m
  <2>3. ASSUME c \notin doubled', NEW i \in Pid, NEW j \in Pid,
               net'[c][i].kind = "local", net'[c][j].kind = "local"
        PROVE  i = j
    <3>1. \A k, l \in Pid : net[c][k].kind = "local" /\ net[c][l].kind = "local" => k = l
      BY <2>1, <2>2, <2>3 DEF OneLocal
    <3>2. CASE m.type = "InitialData"
      <4>1. m.id \in Pid /\ ~StopsBelow(net[c], m.id)
        BY <2>1, <2>2, <2>3, <3>2 DEF Msg
      <4>. QED
        BY <2>1, <2>2, <2>3, <3>1, <3>2, <4>1, OneLocalMoved
    <3>3. CASE m.type # "InitialData"
      <4>1. net[c][i].kind = "local" /\ net[c][j].kind = "local"
        BY <2>1, <2>2, <2>3, <3>3, ApplyPlayersStep
      <4>. QED
        BY <3>1, <4>1
    <3>. QED
      BY <3>2, <3>3
  <2>4. \A b \in Client \ doubled' : b # c => b \notin doubled
    BY <2>2
  <2>. QED
    BY <2>2, <2>3, <2>4 DEF OneLocal
<1>3. CASE UNCHANGED <<net, doubled>>
  BY <1>3 DEF OneLocal
<1>. QED
  BY <1>1, <1>2, <1>3
     DEF Next, vars, ConnectionSucceeded, LostConnection, InitialData, Disconnected,
         CreateVehicle, DeleteVehicle, clientVars

\* Whatever slots a client is given, session after session, it has one local player
\* until SetLocalPlayerId stops below the one it had.
THEOREM ReplicationOneLocal == Spec => []OneLocal
<1>1. Init => OneLocal
  BY DEF Init, OneLocal, NoTable, NoEntry
<1>2. TypeOK /\ OneLocal /\ [Next]_vars => OneLocal'
  BY OneLocalStep, ReplicationAssumption
<1>. QED
  BY <1>1, <1>2, ReplicationTypes, PTL DEF Spec

\* The same client, in a later session of its process, or in a slot that was taken
\* early, may keep entries of the earlier one, but holds its own player and has one
\* for everybody else the server knows: its own stands for another's only after
\* SetLocalPlayerId has left it two.
THEOREM ReplicationNobodyMissing == Spec => []NobodyMissing
<1>1. TypeOK /\ OneLocal /\ Views => NobodyMissing
  <2>. SUFFICES ASSUME TypeOK, OneLocal, Views, NEW c \in Client, NEW p \in Pid,
                       UpToDate(c, p)
                PROVE  /\ net[c][p].kind = "local"
                       /\ \A q \in Active \ {p} :
                            \/ net[c][q].kind = "remote"
                            \/ net[c][q].kind = "local" /\ c \in doubled
                       /\ \A v \in Vid : vehicles[v] # NoVehicle => netVeh[c][v] # NoVehicle
    BY DEF NobodyMissing
  <2>1. link[p] = c /\ down[p] = <<>> /\ Joined(p)
    BY ReplicationAssumption DEF UpToDate, Joined, ReplicationAssumption
  <2>2. PresenceUnderWay(p)
    BY <2>1 DEF Views, UnderWay
  <2>3. net[c][p].kind = "local"
    BY <2>1, <2>2 DEF PresenceUnderWay, ToldItsSlot, Told
  <2>4. ASSUME NEW q \in Active \ {p}
        PROVE  \/ net[c][q].kind = "remote"
               \/ net[c][q].kind = "local" /\ c \in doubled
    <3>1. net[c][q].kind # "none"
      BY <2>1, <2>2, RunEmpty DEF PresenceUnderWay
    <3>2. q \in Pid /\ q # p /\ net[c][q].kind \in {"none", "local", "remote"}
      BY DEF TypeOK, Active, Entry
    <3>3. net[c][q].kind = "local" => c \in doubled
      BY <2>3, <3>2 DEF OneLocal
    <3>. QED
      BY <3>1, <3>2, <3>3
  <2>5. \A v \in Vid : vehicles[v] # NoVehicle => netVeh[c][v] # NoVehicle
    BY <2>1, <2>2, RunEmpty DEF PresenceUnderWay
  <2>. QED
    BY <2>3, <2>4, <2>5
<1>. QED
  BY <1>1, ReplicationTypes, ReplicationOneLocal, ReplicationViews, PTL

\* In a first session, in a slot that was not taken early, every player RPC finds
\* the entry as it expects it: no AddPlayer is refused, and nobody is spawned or
\* deleted who is not there.
THEOREM ReplicationEveryPlayerRPCApplies == Spec => []EveryPlayerRPCApplies
<1>1. TypeOK /\ Discreet(down) /\ Connections /\ Views => EveryPlayerRPCApplies
  <2>. SUFFICES ASSUME TypeOK, Discreet(down), Connections, Views, NEW p \in Pid \ early,
                       link[p] # NoClient, down[p] # <<>>, sessions[link[p]] = 1,
                       About(Head(down[p]), Head(down[p]).id)
                PROVE  LET m == Head(down[p])
                           e == net[link[p]][m.id]
                       IN /\ m.type = "AddPlayer" => e.kind = "none"
                          /\ m.type = "SpawnPlayer" => e.kind = "remote" /\ ~e.spawned
                          /\ m.type = "DeletePlayer" => e.kind = "remote"
    BY DEF EveryPlayerRPCApplies, About
  <2>. DEFINE m == Head(down[p])
              e == net[link[p]][m.id]
  <2>1. down[p] \in Seq(Msg) /\ down[p] \in Seq(AboutOthers(p))
    BY DEF Discreet
  <2>2. m \in AboutOthers(p)
    BY <2>1, HeadTailProperties
  <2>3. m.id \in Pid \ {p}
    BY <2>2 DEF AboutOthers, About, Msg
  <2>4. PlayersUnderWay(p)
    <3>1. Joined(p)
      BY DEF Connections, New
    <3>. QED
      BY <3>1 DEF Views, UnderWay
  <2>5. Run(PlayerStep(m.id), Entry, down[p], e, Mirror(p, m.id))
    BY <2>3, <2>4 DEF PlayersUnderWay
  <2>6. PICK g \in Entry : <<e, m, g>> \in PlayerStep(m.id)
    BY <2>1, <2>5, RunHead
  <2>7. NoEntry.kind = "none"
    BY DEF NoEntry
  <2>. QED
    BY ZenonT(60), <2>6, <2>7 DEF PlayerStep, About
<1>. QED
  BY <1>1, ReplicationTypes, ReplicationDiscreet, ReplicationViews, PTL
=============================================================================
