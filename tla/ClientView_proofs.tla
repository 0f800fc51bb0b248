-------------------------- MODULE ClientView_proofs --------------------------
(***************************************************************************)
(* Theorems about what a client makes of the other players.                *)
(*                                                                         *)
(* PlayerSync, for every number of moves, players and syncs under way:     *)
(* neither the server nor the viewer goes back to what a player did before.*)
(* Moves are numbered over all players of the slot.  What is on a way is in*)
(* the order of its moves, what is nearer to the viewer is older, and what *)
(* arrives, or is lost, only thins a way out.  Places are the moves at     *)
(* which they were taken, or, for a new player, none yet.                  *)
(*                                                                         *)
(* Streamer, for any players, vehicles and limits: lists, flags and objects*)
(* of the game agree, a pass leaves the closest streamed in, and streaming *)
(* lets no pointer dangle.  Each of StreamIn and StreamOut keeps the world *)
(* sane and its pointers live, hence so do the loops of a pass over lists  *)
(* of any length, taken round by round.                                    *)
(***************************************************************************)
EXTENDS PlayerSync, Streamer, FiniteSetTheorems, SequenceTheorems, WellFoundedInduction, TLAPS

-----------------------------------------------------------------------------
(* PlayerSync: the invariant *)

Sync == [keys : Nat, onFoot : BOOLEAN, place : Int, car : Int]
Known == [keys : Nat, place : Nat, car : Int]

SyncTypes ==
  /\ link \in Nat /\ joins \in Nat /\ moves \in Nat
  /\ seat \in [Sides -> Seats]
  /\ player \in Nat /\ kept \in Known
  /\ entry \in Nat /\ shown \in Known
  /\ up \in Seq(Sync) /\ down \in Seq(Sync)
  /\ news \in Seq(Nat)

\* Players come one after the other, on the server and, later, at the viewer.
PlayersInTurn ==
  /\ link \in {0, joins} /\ player \in {0, link} /\ entry <= joins
  /\ player = 0 => kept = Nothing
  /\ entry = 0 => shown = Nothing
  /\ \A i \in DOMAIN news :
       /\ news[i] <= joins
       /\ news[i] # 0 => entry < news[i] /\ \A j \in 1 .. i - 1 : news[j] < news[i]
  /\ link # 0 /\ player = 0 => entry < link /\ \A i \in DOMAIN news : news[i] < link

\* The moves of the syncs grow along each way, and from the viewer back to the client.
KeysInTurn ==
  /\ kept.keys <= moves /\ shown.keys <= moves
  /\ \A i \in DOMAIN up :
       /\ up[i].keys <= moves /\ kept.keys <= up[i].keys /\ shown.keys <= up[i].keys
       /\ \A j \in DOMAIN up : i < j => up[i].keys <= up[j].keys
       /\ \A j \in DOMAIN down : down[j].keys <= up[i].keys
  /\ \A i \in DOMAIN down :
       /\ down[i].keys <= moves /\ shown.keys <= down[i].keys
       /\ \A j \in DOMAIN down : i < j => down[i].keys <= down[j].keys

\* A place is not newer than the keys that it comes with.
PlacesOfKeys ==
  /\ kept.place <= kept.keys /\ shown.place <= shown.keys
  /\ \A i \in DOMAIN up : up[i].onFoot => up[i].place = up[i].keys
  /\ \A i \in DOMAIN down :
       /\ down[i].place <= down[i].keys
       /\ down[i].onFoot => down[i].place \in Nat

\* Place a may be followed by place b: b is of a player without a place, or newer.
Precedes(a, b) == b = Nothing.place \/ a <= b

\* The places grow from the viewer to the server, but where a new player begins.
PlacesInTurn ==
  /\ Precedes(shown.place, kept.place)
  /\ \A i \in DOMAIN down :
       /\ Precedes(down[i].place, kept.place)
       /\ down[i].onFoot => Precedes(shown.place, down[i].place)
       /\ \A j \in DOMAIN down :
            i < j /\ down[j].onFoot => Precedes(down[i].place, down[j].place)

SyncInvariant == SyncTypes /\ PlayersInTurn /\ KeysInTurn /\ PlacesOfKeys /\ PlacesInTurn

-----------------------------------------------------------------------------
(* What is left of a way *)

\* r is s without some of its elements.
Thins(r, s) ==
  \E f \in [DOMAIN r -> DOMAIN s] :
    \A j \in DOMAIN r : r[j] = s[f[j]] /\ \A k \in DOMAIN r : j < k => f[j] < f[k]

\* A sync that arrives leaves the later ones on their way.
LEMMA LaterThins ==
  ASSUME NEW S, NEW s \in Seq(S), NEW i \in DOMAIN s
  PROVE  /\ Later(s, i) \in Seq(S) /\ Thins(Later(s, i), s)
         /\ \A j \in DOMAIN Later(s, i) : j + i \in DOMAIN s /\ Later(s, i)[j] = s[j + i]
<1>1. /\ Later(s, i) \in Seq(S)
      /\ Len(Later(s, i)) = Len(s) - i
      /\ \A j \in 1 .. Len(s) - i : Later(s, i)[j] = s[j + i]
  <2>1. i \in 1 .. Len(s)
    OBVIOUS
  <2>2. i + 1 \in 1 .. Len(s) + 1 /\ Len(s) \in i .. Len(s)
    BY <2>1
  <2>3. \A j \in (i + 1) .. Len(s) : s[j] \in S
    BY <2>1
  <2>. QED
    BY <2>1, <2>2, <2>3, SubSeqProperties DEF Later
<1>2. DOMAIN Later(s, i) = 1 .. Len(s) - i
  BY <1>1
<1>3. Thins(Later(s, i), s)
  <2> DEFINE f == [j \in DOMAIN Later(s, i) |-> j + i]
  <2>1. f \in [DOMAIN Later(s, i) -> DOMAIN s]
    BY <1>2
  <2>2. \A j \in DOMAIN Later(s, i) :
          Later(s, i)[j] = s[f[j]] /\ \A k \in DOMAIN Later(s, i) : j < k => f[j] < f[k]
    BY <1>1, <1>2
  <2>. QED
    BY <2>1, <2>2 DEF Thins
<1>4. \A j \in DOMAIN Later(s, i) : j + i \in DOMAIN s /\ Later(s, i)[j] = s[j + i]
  BY <1>1, <1>2
<1>. QED
  BY <1>1, <1>3, <1>4

\* So does one that is lost with the earlier ones too.
LEMMA RemovedThins ==
  ASSUME NEW S, NEW s \in Seq(S), NEW i \in DOMAIN s
  PROVE  RemoveAt(s, i) \in Seq(S) /\ Thins(RemoveAt(s, i), s)
<1> DEFINE a == SubSeq(s, 1, i - 1)
           b == SubSeq(s, i + 1, Len(s))
           f == [j \in DOMAIN RemoveAt(s, i) |-> IF j < i THEN j ELSE j + 1]
<1>1. i \in 1 .. Len(s) /\ Len(s) \in Nat /\ \A j \in 1 .. Len(s) : s[j] \in S
  OBVIOUS
<1>2. a \in Seq(S) /\ Len(a) = i - 1 /\ \A j \in 1 .. i - 1 : a[j] = s[j]
  BY <1>1, SubSeqProperties
<1>3. b \in Seq(S) /\ Len(b) = Len(s) - i /\ \A j \in 1 .. Len(s) - i : b[j] = s[i + j]
  BY <1>1, SubSeqProperties
<1>4. RemoveAt(s, i) = a \o b
  BY DEF RemoveAt
<1>. HIDE DEF a, b
<1>5. /\ RemoveAt(s, i) \in Seq(S) /\ Len(RemoveAt(s, i)) = Len(s) - 1
      /\ DOMAIN RemoveAt(s, i) = 1 .. Len(s) - 1
  BY <1>1, <1>2, <1>3, <1>4
<1>6. \A j \in 1 .. Len(s) - 1 : RemoveAt(s, i)[j] = s[IF j < i THEN j ELSE j + 1]
  <2> SUFFICES ASSUME NEW j \in 1 .. Len(s) - 1
               PROVE  RemoveAt(s, i)[j] = s[IF j < i THEN j ELSE j + 1]
    OBVIOUS
  <2>1. CASE j < i
    BY <1>1, <1>2, <1>3, <1>4, <2>1
  <2>2. CASE ~(j < i)
    <3>1. (a \o b)[j] = b[j - Len(a)]
      BY SMTT(30), <1>1, <1>2, <1>3, <2>2
    <3>2. j - Len(a) = j - i + 1 /\ j - i + 1 \in 1 .. Len(s) - i
      BY <1>1, <1>2, <2>2
    <3>3. b[j - i + 1] = s[i + (j - i + 1)] /\ i + (j - i + 1) = j + 1
      BY SMTT(30), <1>1, <1>3, <3>2
    <3>. QED
      BY <1>4, <2>2, <3>1, <3>2, <3>3
  <2>. QED
    BY <2>1, <2>2
<1>7. f \in [DOMAIN RemoveAt(s, i) -> DOMAIN s]
  BY <1>1, <1>5
<1>8. \A j \in DOMAIN RemoveAt(s, i) :
        /\ RemoveAt(s, i)[j] = s[f[j]]
        /\ \A k \in DOMAIN RemoveAt(s, i) : j < k => f[j] < f[k]
  BY <1>1, <1>5, <1>6
<1>. QED
  BY <1>5, <1>7, <1>8 DEF Thins

\* Every way thins itself out, by nothing.
LEMMA ThinsItself ==
  ASSUME NEW S, NEW s \in Seq(S)
  PROVE  Thins(s, s)
<1> DEFINE f == [j \in DOMAIN s |-> j]
<1>1. f \in [DOMAIN s -> DOMAIN s]
  OBVIOUS
<1>2. \A j \in DOMAIN s : s[j] = s[f[j]] /\ \A k \in DOMAIN s : j < k => f[j] < f[k]
  OBVIOUS
<1>. QED
  BY <1>1, <1>2 DEF Thins

\* Syncs that arrive nowhere take nothing out of turn.
LEMMA ThinnedKeeps ==
  ASSUME SyncInvariant,
         up' \in Seq(Sync), down' \in Seq(Sync), Thins(up', up), Thins(down', down),
         UNCHANGED <<clientVars, seat, serverVars, viewerVars, news>>
  PROVE  SyncInvariant'
<1>1. PICK f \in [DOMAIN up' -> DOMAIN up] :
        \A j \in DOMAIN up' : up'[j] = up[f[j]] /\ \A k \in DOMAIN up' : j < k => f[j] < f[k]
  BY DEF Thins
<1>2. PICK g \in [DOMAIN down' -> DOMAIN down] :
        \A j \in DOMAIN down' :
          down'[j] = down[g[j]] /\ \A k \in DOMAIN down' : j < k => g[j] < g[k]
  BY DEF Thins
<1>3. SyncTypes' /\ PlayersInTurn'
  BY DEF SyncInvariant, SyncTypes, PlayersInTurn, clientVars, serverVars, viewerVars
<1>4. KeysInTurn'
  BY <1>1, <1>2 DEF SyncInvariant, KeysInTurn, clientVars, serverVars, viewerVars
<1>5. PlacesOfKeys'
  BY <1>1, <1>2 DEF SyncInvariant, PlacesOfKeys, clientVars, serverVars, viewerVars
<1>6. PlacesInTurn'
  BY SMTT(30), <1>1, <1>2
  DEF SyncInvariant, PlacesInTurn, Precedes, clientVars, serverVars, viewerVars
<1>. QED
  BY <1>3, <1>4, <1>5, <1>6 DEF SyncInvariant

-----------------------------------------------------------------------------
(* The steps *)

\* The numbers that are compared.
LEMMA Numbers ==
  ASSUME SyncTypes
  PROVE  /\ moves \in Nat /\ {kept.keys, kept.place, shown.keys, shown.place} \subseteq Nat
         /\ \A i \in DOMAIN up : up[i].keys \in Nat /\ i \in Nat
         /\ \A i \in DOMAIN down : down[i].keys \in Nat /\ down[i].place \in Int /\ i \in Nat
<1>1. \A i \in DOMAIN up : up[i] \in Sync /\ i \in Nat
  BY DEF SyncTypes
<1>2. \A i \in DOMAIN down : down[i] \in Sync /\ i \in Nat
  BY DEF SyncTypes
<1>3. kept \in Known /\ shown \in Known /\ moves \in Nat
  BY DEF SyncTypes
<1>. QED
  BY <1>1, <1>2, <1>3 DEF Sync, Known

\* A new player of the slot comes after all there were, on the way to the viewer too.
LEMMA JoinKeeps == SyncInvariant /\ Join => SyncInvariant'
<1> SUFFICES ASSUME SyncInvariant, Join PROVE SyncInvariant'
  OBVIOUS
<1>1. /\ news' = Append(news, link) /\ link \in Nat /\ news \in Seq(Nat)
      /\ player' = link /\ kept' = Nothing /\ link # 0 /\ player = 0
      /\ UNCHANGED <<link, joins, moves, entry, shown, up, down>>
  BY DEF Join, clientVars, viewerVars, SyncInvariant, SyncTypes
<1>2. /\ news' \in Seq(Nat) /\ Len(news') = Len(news) + 1
      /\ \A i \in 1 .. Len(news) : news'[i] = news[i]
      /\ news'[Len(news) + 1] = link
      /\ DOMAIN news = 1 .. Len(news) /\ DOMAIN news' = 1 .. Len(news) + 1
  BY <1>1
<1>3. SyncTypes'
  BY <1>1, <1>2, PlayerSyncAssumption
    DEF Join, SyncInvariant, SyncTypes, Known, Nothing, Sides
<1>4. PlayersInTurn'
  <2>1. \A i \in DOMAIN news' : news'[i] <= joins'
    BY <1>1, <1>2 DEF SyncInvariant, SyncTypes, PlayersInTurn
  <2>2. \A i \in DOMAIN news' :
          news'[i] # 0 => entry' < news'[i] /\ \A j \in 1 .. i - 1 : news'[j] < news'[i]
    <3>1. \A i \in DOMAIN news :
            news[i] < link /\ (news[i] # 0 => entry < news[i] /\ \A j \in 1 .. i - 1 : news[j] < news[i])
      BY <1>1 DEF SyncInvariant, PlayersInTurn
    <3>2. entry < link
      BY <1>1 DEF SyncInvariant, PlayersInTurn
    <3>3. Len(news) \in Nat
      BY <1>1
    <3>4. ASSUME NEW i \in 1 .. Len(news), news'[i] # 0
          PROVE  entry' < news'[i] /\ \A j \in 1 .. i - 1 : news'[j] < news'[i]
      <4>1. \A j \in 1 .. i - 1 : j \in 1 .. Len(news)
        BY <3>3
      <4>. QED
        BY <1>1, <1>2, <3>1, <3>4, <4>1
    <3>5. \A j \in 1 .. Len(news) + 1 - 1 : j \in 1 .. Len(news)
      BY <3>3
    <3>. QED
      BY <1>1, <1>2, <3>1, <3>2, <3>3, <3>4, <3>5
  <2>3. /\ link' \in {0, joins'} /\ player' \in {0, link'} /\ entry' <= joins'
        /\ (entry' = 0 => shown' = Nothing) /\ kept' = Nothing /\ player' # 0
    BY <1>1 DEF SyncInvariant, PlayersInTurn
  <2>. QED
    BY <2>1, <2>2, <2>3 DEF PlayersInTurn
<1>5. KeysInTurn'
  BY <1>1, Numbers DEF SyncInvariant, KeysInTurn, Nothing
<1>6. PlacesOfKeys' /\ PlacesInTurn'
  BY <1>1 DEF SyncInvariant, PlacesOfKeys, PlacesInTurn, Precedes, Nothing
<1>. QED
  BY <1>3, <1>4, <1>5, <1>6 DEF SyncInvariant

\* A connection begins with a way that is empty.
LEMMA ConnectKeeps == SyncInvariant /\ Connect => SyncInvariant'
<1> SUFFICES ASSUME SyncInvariant, Connect PROVE SyncInvariant'
  OBVIOUS
<1>1. /\ link = 0 /\ player = 0 /\ joins' = joins + 1 /\ link' = joins + 1
      /\ moves' = moves + 1 /\ up' = <<>>
      /\ UNCHANGED <<player, kept, entry, shown, down, news>>
  BY DEF Connect, serverVars, viewerVars
<1>2. SyncTypes'
  BY <1>1, PlayerSyncAssumption DEF Connect, SyncInvariant, SyncTypes, Sides
<1>3. PlayersInTurn'
  BY <1>1 DEF SyncInvariant, SyncTypes, PlayersInTurn
<1>4. KeysInTurn'
  BY <1>1, Numbers DEF SyncInvariant, KeysInTurn
<1>5. PlacesOfKeys' /\ PlacesInTurn'
  BY <1>1 DEF SyncInvariant, PlacesOfKeys, PlacesInTurn
<1>. QED
  BY <1>2, <1>3, <1>4, <1>5 DEF SyncInvariant

\* With a player goes what the server had of him and what he sent.
LEMMA LeaveKeeps == SyncInvariant /\ Leave => SyncInvariant'
<1> SUFFICES ASSUME SyncInvariant, Leave PROVE SyncInvariant'
  OBVIOUS
<1>1. /\ link' = 0 /\ player' = 0 /\ kept' = Nothing /\ up' = <<>>
      /\ UNCHANGED <<joins, moves, seat, entry, shown, down>>
  BY DEF Leave, viewerVars
<1>2. news' = news \/ news' = Append(news, 0)
  BY DEF Leave
<1>3. /\ news' \in Seq(Nat)
      /\ \A i \in DOMAIN news' :
           \/ news'[i] = 0
           \/ i \in DOMAIN news /\ news'[i] = news[i] /\ \A j \in 1 .. i - 1 : news'[j] = news[j]
  <2>1. news \in Seq(Nat)
    BY DEF SyncInvariant, SyncTypes
  <2>2. CASE news' = news
    BY <2>1, <2>2
  <2>3. CASE news' = Append(news, 0)
    <3>1. /\ news' \in Seq(Nat) /\ Len(news') = Len(news) + 1 /\ Len(news) \in Nat
          /\ \A j \in 1 .. Len(news) : news'[j] = news[j]
          /\ news'[Len(news) + 1] = 0
      BY <2>1, <2>3, AppendProperties
    <3>2. DOMAIN news' = 1 .. Len(news) + 1 /\ DOMAIN news = 1 .. Len(news)
      BY <2>1, <3>1
    <3>. QED
      BY <3>1, <3>2
  <2>. QED
    BY <1>2, <2>2, <2>3
<1>4. SyncTypes'
  BY <1>1, <1>3 DEF SyncInvariant, SyncTypes, Known, Nothing
<1>5. PlayersInTurn'
  <2>1. entry \in Nat /\ joins \in Nat
    BY DEF SyncInvariant, SyncTypes
  <2>2. \A i \in DOMAIN news' :
          /\ news'[i] <= joins'
          /\ news'[i] # 0 => entry' < news'[i] /\ \A j \in 1 .. i - 1 : news'[j] < news'[i]
    BY SMTT(30), <1>1, <1>3, <2>1 DEF SyncInvariant, PlayersInTurn
  <2>. QED
    BY <1>1, <2>1, <2>2 DEF SyncInvariant, PlayersInTurn
<1>6. KeysInTurn'
  BY <1>1, Numbers DEF SyncInvariant, KeysInTurn, Nothing
<1>7. PlacesOfKeys' /\ PlacesInTurn'
  BY <1>1 DEF SyncInvariant, PlacesOfKeys, PlacesInTurn, Precedes, Nothing
<1>. QED
  BY <1>4, <1>5, <1>6, <1>7 DEF SyncInvariant

\* AddPlayer is always about a player whom the viewer has not had before.
LEMMA HeadIsNew ==
  ASSUME SyncInvariant, HandleNews
  PROVE  entry' = 0 \/ entry < entry'
<1>1. news # <<>> /\ entry' = Head(news) /\ 1 \in DOMAIN news /\ Head(news) = news[1]
  BY DEF HandleNews, SyncInvariant, SyncTypes
<1>. QED
  BY <1>1 DEF SyncInvariant, PlayersInTurn

\* The viewer's new player begins with nothing.
LEMMA HandleNewsKeeps == SyncInvariant /\ HandleNews => SyncInvariant'
<1> SUFFICES ASSUME SyncInvariant, HandleNews PROVE SyncInvariant'
  OBVIOUS
<1>1. /\ entry' = news[1] /\ shown' = Nothing /\ news # <<>> /\ news' = Tail(news)
      /\ UNCHANGED <<link, joins, moves, player, kept, up, down>>
  BY DEF HandleNews, clientVars, serverVars, SyncInvariant, SyncTypes
<1>2. /\ news' \in Seq(Nat) /\ 1 \in DOMAIN news
      /\ \A i \in DOMAIN news' : i + 1 \in DOMAIN news /\ news'[i] = news[i + 1]
      /\ DOMAIN news' = 1 .. Len(news) - 1
  BY <1>1 DEF SyncInvariant, SyncTypes
<1>3. SyncTypes'
  BY <1>1, <1>2, PlayerSyncAssumption
    DEF HandleNews, SyncInvariant, SyncTypes, Known, Nothing, Sides
<1>4. PlayersInTurn'
  <2>1. \A i \in DOMAIN news' : news'[i] <= joins'
    BY <1>1, <1>2 DEF SyncInvariant, PlayersInTurn
  <2>2. ASSUME NEW i \in DOMAIN news', news'[i] # 0
        PROVE  entry' < news'[i] /\ \A j \in 1 .. i - 1 : news'[j] < news'[i]
    <3>1. \A j \in 1 .. (i + 1) - 1 : news[j] < news[i + 1]
      BY <1>2, <2>2 DEF SyncInvariant, PlayersInTurn
    <3>2. i \in Nat /\ \A j \in 1 .. i - 1 : j \in DOMAIN news' /\ j + 1 \in 1 .. (i + 1) - 1
      BY <1>2
    <3>. QED
      BY SMTT(30), <1>1, <1>2, <3>1, <3>2
  <2>3. link' # 0 /\ player' = 0 => entry' < link' /\ \A i \in DOMAIN news' : news'[i] < link'
    BY <1>1, <1>2 DEF SyncInvariant, PlayersInTurn
  <2>4. entry' <= joins'
    BY <1>1, <1>2 DEF SyncInvariant, PlayersInTurn
  <2>. QED
    BY <1>1, <2>1, <2>2, <2>3, <2>4 DEF SyncInvariant, PlayersInTurn
<1>5. KeysInTurn'
  BY <1>1, Numbers DEF SyncInvariant, KeysInTurn, Nothing
<1>6. PlacesOfKeys' /\ PlacesInTurn'
  BY SMTT(30), <1>1 DEF SyncInvariant, SyncTypes, Known, PlacesOfKeys, PlacesInTurn, Precedes, Nothing
<1>. QED
  BY <1>3, <1>4, <1>5, <1>6 DEF SyncInvariant

\* A sync is of the last move, and takes its place from nowhere else.
LEMMA SendKeeps == SyncInvariant /\ Send => SyncInvariant'
<1> SUFFICES ASSUME SyncInvariant, Send PROVE SyncInvariant'
  OBVIOUS
<1>1. /\ up' = Append(up, ClientSync) /\ up \in Seq(Sync)
      /\ UNCHANGED <<link, joins, moves, seat, player, kept, entry, shown, down, news>>
  BY DEF Send, clientVars, serverVars, viewerVars, SyncInvariant, SyncTypes
<1>2. ClientSync \in Sync /\ ClientSync.keys = moves
      /\ (ClientSync.onFoot => ClientSync.place = ClientSync.keys)
  <2>1. moves \in Nat /\ Missing \in Int
    BY DEF Missing, SyncInvariant, SyncTypes
  <2>2. CASE seat["client"] = "foot"
    <3>1. ClientSync = [keys |-> moves, onFoot |-> TRUE, place |-> moves, car |-> Missing]
      BY <2>2 DEF ClientSync
    <3>. QED
      BY <2>1, <3>1 DEF Sync
  <2>3. CASE seat["client"] # "foot"
    <3>1. ClientSync = [keys |-> moves, onFoot |-> FALSE, place |-> Missing,
                        car |-> IF seat["client"] = "driver" THEN moves ELSE Missing]
      BY <2>3 DEF ClientSync
    <3>. QED
      BY <2>1, <3>1 DEF Sync
  <2>. QED
    BY <2>2, <2>3
<1>3. /\ up' \in Seq(Sync) /\ DOMAIN up = 1 .. Len(up) /\ DOMAIN up' = 1 .. Len(up) + 1
      /\ Len(up) \in Nat
      /\ \A i \in DOMAIN up : up'[i] = up[i]
      /\ up'[Len(up) + 1] = ClientSync
  BY <1>1, <1>2
<1>4. \A i \in DOMAIN up' :
        \/ i \in DOMAIN up /\ up'[i] = up[i]
        \/ i = Len(up) + 1 /\ up'[i] = ClientSync
  BY <1>3
<1>5. SyncTypes' /\ PlayersInTurn'
  BY <1>1, <1>3 DEF SyncInvariant, SyncTypes, PlayersInTurn
<1>6. KeysInTurn'
  BY SMTT(30), <1>1, <1>2, <1>3, <1>4 DEF SyncInvariant, SyncTypes, Known, KeysInTurn
<1>7. PlacesOfKeys' /\ PlacesInTurn'
  BY <1>1, <1>2, <1>4 DEF SyncInvariant, PlacesOfKeys, PlacesInTurn
<1>. QED
  BY <1>5, <1>6, <1>7 DEF SyncInvariant

\* What the server takes of a sync is newer than what it had, and not newer than what
\* is still on its way to it.
LEMMA DeserializeIsNewer ==
  ASSUME SyncInvariant, NEW i \in DOMAIN up
  PROVE  /\ Deserialize(up[i]) \in Known
         /\ Deserialize(up[i]).keys = up[i].keys
         /\ Deserialize(up[i]).place \in {kept.place, up[i].keys}
         /\ kept.keys <= up[i].keys /\ kept.place <= kept.keys
<1>1. up[i] \in Sync /\ kept \in Known
  BY DEF SyncInvariant, SyncTypes
<1>2. up[i].onFoot => up[i].place = up[i].keys
  BY DEF SyncInvariant, PlacesOfKeys
<1>. QED
  BY <1>1, <1>2 DEF Deserialize, Sync, Known, SyncInvariant, KeysInTurn, PlacesOfKeys

\* One sync arrives at the server, and what the server makes of it goes on.
LEMMA ServerSyncKeeps ==
  ASSUME SyncInvariant, NEW i \in DOMAIN up, ServerSync(i)
  PROVE  SyncInvariant'
<1>1. /\ up' = Later(up, i) /\ up' \in Seq(Sync) /\ Thins(up', up)
      /\ \A j \in DOMAIN up' : j + i \in DOMAIN up /\ up'[j] = up[j + i]
      /\ UNCHANGED <<link, joins, moves, seat, player, entry, shown, news>>
  BY LaterThins DEF ServerSync, clientVars, viewerVars, SyncInvariant, SyncTypes
<1>2. CASE player = 0
  BY <1>1, <1>2, ThinsItself, ThinnedKeeps
    DEF ServerSync, clientVars, serverVars, viewerVars, SyncInvariant, SyncTypes
<1>3. CASE player # 0
  <2> DEFINE k == Deserialize(up[i])
             f == Serialize(k)
  <2>1. /\ kept' = k /\ k \in Known /\ k.keys = up[i].keys
        /\ k.place \in {kept.place, up[i].keys}
        /\ kept.keys <= up[i].keys /\ kept.place <= kept.keys
    BY <1>3, DeserializeIsNewer DEF ServerSync
  <2>2. /\ f \in Sync /\ f.keys = k.keys
        /\ f.place \in {k.place, Missing} /\ (f.onFoot => f.place = k.place)
    <3>1. Missing \in Int /\ k.keys \in Nat /\ k.place \in Nat
      BY <2>1 DEF Missing, Known
    <3>2. CASE seat["server"] = "foot"
      <4>1. f = [keys |-> k.keys, onFoot |-> TRUE, place |-> k.place, car |-> Missing]
        BY <3>2 DEF Serialize
      <4>. HIDE DEF k, f
      <4>. QED
        BY <3>1, <4>1 DEF Sync
    <3>3. CASE seat["server"] # "foot"
      <4>1. f = [keys |-> k.keys, onFoot |-> FALSE, place |-> Missing, car |-> Missing]
        BY <3>3 DEF Serialize
      <4>. HIDE DEF k, f
      <4>. QED
        BY <3>1, <4>1 DEF Sync
    <3>. QED
      BY <3>2, <3>3
  <2>3. down' = down \o <<f>> /\ down \in Seq(Sync)
    BY <1>3 DEF ServerSync, Forward, SyncInvariant, SyncTypes
  <2>. HIDE DEF k, f
  <2>4. /\ down' \in Seq(Sync) /\ DOMAIN down = 1 .. Len(down) /\ Len(down) \in Nat
        /\ DOMAIN down' = 1 .. Len(down) + 1
        /\ \A j \in DOMAIN down' :
             \/ j \in DOMAIN down /\ down'[j] = down[j]
             \/ j = Len(down) + 1 /\ down'[j] = f
    BY <2>2, <2>3
  <2>5. /\ i \in Nat /\ up[i] \in Sync /\ kept \in Known /\ shown \in Known /\ moves \in Nat
        /\ \A j \in DOMAIN up : up[j] \in Sync /\ j \in Nat
        /\ \A j \in DOMAIN down : down[j] \in Sync
        /\ \A j \in DOMAIN up' : j \in Nat \ {0}
    BY SMTT(30), <1>1 DEF SyncInvariant, SyncTypes
  <2>6. SyncTypes'
    BY <1>1, <2>1, <2>4 DEF SyncInvariant, SyncTypes
  <2>7. PlayersInTurn'
    BY <1>1, <1>3 DEF SyncInvariant, PlayersInTurn
  <2>8. KeysInTurn'
    <3>1. \A j \in DOMAIN up' :
            /\ up[i].keys <= up'[j].keys /\ up'[j].keys <= moves /\ shown.keys <= up'[j].keys
            /\ \A m \in DOMAIN up' : j < m => up'[j].keys <= up'[m].keys
            /\ \A m \in DOMAIN down : down[m].keys <= up'[j].keys
      BY <1>1, <2>5 DEF SyncInvariant, KeysInTurn
    <3>2. \A m \in DOMAIN down : down[m].keys <= f.keys /\ shown.keys <= f.keys
      BY <2>1, <2>2 DEF SyncInvariant, KeysInTurn
    <3>3. /\ kept'.keys <= moves' /\ shown'.keys <= moves' /\ f.keys <= moves
          /\ shown.keys <= f.keys
      BY <1>1, <2>1, <2>2 DEF SyncInvariant, KeysInTurn
    <3>4. \A j \in DOMAIN up' : \A m \in DOMAIN down' : down'[m].keys <= up'[j].keys
      BY <2>1, <2>2, <2>4, <3>1
    <3>5. \A j \in DOMAIN down' :
            /\ down'[j].keys <= moves' /\ shown'.keys <= down'[j].keys
            /\ \A m \in DOMAIN down' : j < m => down'[j].keys <= down'[m].keys
      BY <1>1, <2>4, <3>2, <3>3 DEF SyncInvariant, KeysInTurn
    <3>. QED
      BY <1>1, <2>1, <3>1, <3>3, <3>4, <3>5 DEF KeysInTurn
  <2>9. PlacesOfKeys'
    <3>1. kept'.place <= kept'.keys /\ f.place <= f.keys /\ (f.onFoot => f.place \in Nat)
      BY <2>1, <2>2, <2>5 DEF Known, Missing
    <3>2. \A j \in DOMAIN up' : up'[j].onFoot => up'[j].place = up'[j].keys
      BY <1>1 DEF SyncInvariant, PlacesOfKeys
    <3>. QED
      BY <1>1, <2>4, <3>1, <3>2 DEF SyncInvariant, PlacesOfKeys
  <2>10. PlacesInTurn'
    <3>1. /\ Precedes(shown.place, k.place)
          /\ \A j \in DOMAIN down : Precedes(down[j].place, k.place)
      <4>1. /\ shown.place <= shown.keys /\ shown.keys <= up[i].keys
            /\ \A j \in DOMAIN down :
                 down[j].place <= down[j].keys /\ down[j].keys <= up[i].keys
        BY DEF SyncInvariant, PlacesOfKeys, KeysInTurn
      <4>2. CASE k.place = kept.place
        BY <4>2 DEF SyncInvariant, PlacesInTurn
      <4>3. CASE k.place = up[i].keys
        BY <4>1, <4>3, <2>5 DEF Precedes, Sync, Known
      <4>. QED
        BY <2>1, <4>2, <4>3
    <3>2. Precedes(f.place, k.place)
      BY <2>1, <2>2 DEF Precedes, Known, Missing, Nothing
    <3>3. \A j \in DOMAIN down' :
            /\ Precedes(down'[j].place, kept'.place)
            /\ down'[j].onFoot => Precedes(shown'.place, down'[j].place)
      BY <1>1, <2>1, <2>2, <2>4, <3>1, <3>2 DEF SyncInvariant, PlacesInTurn
    <3>4. \A j, m \in DOMAIN down' :
            j < m /\ down'[m].onFoot => Precedes(down'[j].place, down'[m].place)
      BY <2>2, <2>4, <3>1 DEF SyncInvariant, PlacesInTurn
    <3>. QED
      BY <1>1, <2>1, <3>1, <3>3, <3>4 DEF PlacesInTurn
  <2>. QED
    BY <2>6, <2>7, <2>8, <2>9, <2>10 DEF SyncInvariant
<1>. QED
  BY <1>2, <1>3

\* What the viewer takes of a sync is newer than what it had.
LEMMA ShownIsNewer ==
  ASSUME SyncInvariant, NEW i \in DOMAIN down
  PROVE  /\ Shown(down[i]) \in Known
         /\ Shown(down[i]).keys = down[i].keys
         /\ \/ Shown(down[i]).place = shown.place
            \/ down[i].onFoot /\ Shown(down[i]).place = down[i].place
         /\ shown.keys <= down[i].keys
<1>1. down[i] \in Sync /\ shown \in Known
  BY DEF SyncInvariant, SyncTypes
<1>2. down[i].onFoot => down[i].place \in Nat
  BY DEF SyncInvariant, PlacesOfKeys
<1>. QED
  BY <1>1, <1>2 DEF Shown, Sync, Known, SyncInvariant, KeysInTurn

\* One sync arrives at the viewer.
LEMMA ViewerSyncKeeps ==
  ASSUME SyncInvariant, NEW i \in DOMAIN down, ViewerSync(i)
  PROVE  SyncInvariant'
<1>1. /\ down' = Later(down, i) /\ down' \in Seq(Sync) /\ Thins(down', down)
      /\ \A j \in DOMAIN down' : j + i \in DOMAIN down /\ down'[j] = down[j + i]
      /\ UNCHANGED <<link, joins, moves, seat, player, kept, entry, up, news>>
  BY LaterThins DEF ViewerSync, clientVars, serverVars, SyncInvariant, SyncTypes
<1>2. CASE entry = 0
  BY <1>1, <1>2, ThinsItself, ThinnedKeeps
    DEF ViewerSync, clientVars, serverVars, viewerVars, SyncInvariant, SyncTypes
<1>3. CASE entry # 0
  <2> DEFINE k == Shown(down[i])
  <2>1. /\ shown' = k /\ k \in Known /\ k.keys = down[i].keys
        /\ k.place = shown.place \/ (down[i].onFoot /\ k.place = down[i].place)
        /\ shown.keys <= down[i].keys
    BY <1>3, ShownIsNewer DEF ViewerSync
  <2>. HIDE DEF k
  <2>2. /\ i \in Nat /\ down[i] \in Sync /\ shown \in Known
        /\ \A j \in DOMAIN down : down[j] \in Sync /\ j \in Nat
        /\ \A j \in DOMAIN down' : j \in Nat /\ i < j + i /\ \A m \in DOMAIN down' : j < m => j + i < m + i
    BY <1>1 DEF SyncInvariant, SyncTypes
  <2>3. SyncTypes'
    BY <1>1, <2>1 DEF SyncInvariant, SyncTypes
  <2>4. PlayersInTurn'
    BY <1>1, <1>3 DEF SyncInvariant, PlayersInTurn
  <2>5. KeysInTurn'
    <3>1. \A j \in DOMAIN down' :
            /\ down'[j].keys <= moves /\ down[i].keys <= down'[j].keys
            /\ \A m \in DOMAIN down' : j < m => down'[j].keys <= down'[m].keys
      BY <1>1, <2>2 DEF SyncInvariant, KeysInTurn
    <3>2. \A j \in DOMAIN up :
            /\ down[i].keys <= up[j].keys
            /\ \A m \in DOMAIN down' : down'[m].keys <= up[j].keys
      BY <1>1 DEF SyncInvariant, KeysInTurn
    <3>. QED
      BY <1>1, <2>1, <3>1, <3>2 DEF SyncInvariant, KeysInTurn
  <2>6. PlacesOfKeys'
    <3>1. down[i].place <= down[i].keys /\ shown.place <= shown.keys
      BY DEF SyncInvariant, PlacesOfKeys
    <3>2. shown'.place <= shown'.keys
      BY <2>1, <2>2, <3>1 DEF Sync, Known
    <3>. QED
      BY <1>1, <3>2 DEF SyncInvariant, PlacesOfKeys
  <2>7. PlacesInTurn'
    <3>1. Precedes(shown'.place, kept'.place)
      BY <1>1, <2>1 DEF SyncInvariant, PlacesInTurn
    <3>2. \A j \in DOMAIN down' :
            /\ Precedes(down'[j].place, kept'.place)
            /\ down'[j].onFoot => Precedes(shown'.place, down'[j].place)
      BY <1>1, <2>1, <2>2 DEF SyncInvariant, PlacesInTurn
    <3>3. \A j, m \in DOMAIN down' :
            j < m /\ down'[m].onFoot => Precedes(down'[j].place, down'[m].place)
      BY <1>1, <2>2 DEF SyncInvariant, PlacesInTurn
    <3>. QED
      BY <3>1, <3>2, <3>3 DEF PlacesInTurn
  <2>. QED
    BY <2>3, <2>4, <2>5, <2>6, <2>7 DEF SyncInvariant
<1>. QED
  BY <1>2, <1>3

\* What is lost is missing from one way only.
LEMMA LoseKeeps == SyncInvariant /\ Lose => SyncInvariant'
<1> SUFFICES ASSUME SyncInvariant, Lose PROVE SyncInvariant'
  OBVIOUS
<1>1. up \in Seq(Sync) /\ down \in Seq(Sync)
  BY DEF SyncInvariant, SyncTypes
<1>2. UNCHANGED <<clientVars, seat, serverVars, viewerVars, news>>
  BY DEF Lose
<1>3. ASSUME NEW i \in DOMAIN up, up' = RemoveAt(up, i), UNCHANGED down
      PROVE  SyncInvariant'
  BY <1>1, <1>2, <1>3, RemovedThins, ThinsItself, ThinnedKeeps
<1>4. ASSUME NEW i \in DOMAIN down, down' = RemoveAt(down, i), UNCHANGED up
      PROVE  SyncInvariant'
  BY <1>1, <1>2, <1>4, RemovedThins, ThinsItself, ThinnedKeeps
<1>. QED
  BY <1>3, <1>4 DEF Lose

\* Players, moves and syncs stay in turn, however syncs are lost, late or about a
\* player who is gone.
LEMMA AlwaysInTurn == SyncSpec => []SyncInvariant
<1>1. SyncInit => SyncInvariant
  BY PlayerSyncAssumption
    DEF SyncInit, SyncInvariant, SyncTypes, Known, Nothing, Sides, PlayersInTurn, KeysInTurn,
        PlacesOfKeys, PlacesInTurn, Precedes
<1>2. SyncInvariant /\ [SyncNext]_syncVars => SyncInvariant'
  <2> SUFFICES ASSUME SyncInvariant, [SyncNext]_syncVars PROVE SyncInvariant'
    OBVIOUS
  <2>1. CASE Move
    <3>1. moves' = moves + 1 /\ moves \in Nat
          /\ UNCHANGED <<link, joins, seat, player, kept, entry, shown, up, down, news>>
      BY <2>1 DEF Move, serverVars, viewerVars, SyncInvariant, SyncTypes
    <3>2. SyncTypes' /\ PlayersInTurn' /\ PlacesOfKeys' /\ PlacesInTurn'
      BY <3>1 DEF SyncInvariant, SyncTypes, PlayersInTurn, PlacesOfKeys, PlacesInTurn
    <3>3. KeysInTurn'
      BY <3>1, Numbers DEF SyncInvariant, KeysInTurn
    <3>. QED
      BY <3>2, <3>3 DEF SyncInvariant
  <2>2. ASSUME NEW side \in Sides, NEW s \in Seats, Sit(side, s) PROVE SyncInvariant'
    <3>1. /\ seat' = [seat EXCEPT ![side] = s]
          /\ UNCHANGED <<link, joins, moves, player, kept, entry, shown, up, down, news>>
      BY <2>2 DEF Sit, clientVars, serverVars, viewerVars
    <3>. QED
      BY <3>1 DEF SyncInvariant, SyncTypes, PlayersInTurn, KeysInTurn, PlacesOfKeys, PlacesInTurn
  <2>3. CASE UNCHANGED syncVars
    BY <2>3 DEF syncVars, clientVars, serverVars, viewerVars, SyncInvariant, SyncTypes, PlayersInTurn,
                KeysInTurn, PlacesOfKeys, PlacesInTurn
  <2>. QED
    BY <2>1, <2>2, <2>3, ConnectKeeps, JoinKeeps, LeaveKeeps, HandleNewsKeeps, SendKeeps,
       ServerSyncKeeps, ViewerSyncKeeps, LoseKeeps DEF SyncNext, ServerSyncs, ViewerSyncs
<1>. QED
  BY <1>1, <1>2, PTL DEF SyncSpec

-----------------------------------------------------------------------------
(* Neither side goes back *)

\* What the server has of a player only gets newer.
LEMMA KeptNeverBack ==
  ASSUME SyncInvariant, [SyncNext]_syncVars, player' = player
  PROVE  Before(kept, kept')
<1>1. kept \in Known
  BY DEF SyncInvariant, SyncTypes
<1>2. CASE kept' = kept
  BY <1>1, <1>2 DEF Before, Known
<1>3. CASE Join
  BY <1>3 DEF Join
<1>4. CASE Leave
  <2>1. kept = Nothing /\ kept' = Nothing
    BY <1>4 DEF Leave, SyncInvariant, PlayersInTurn
  <2>. QED
    BY <1>2, <2>1
<1>5. ASSUME NEW i \in DOMAIN up, ServerSync(i), player # 0 PROVE Before(kept, kept')
  <2>1. kept' = Deserialize(up[i]) /\ up[i] \in Sync
    BY <1>5 DEF ServerSync, SyncInvariant, SyncTypes
  <2>. QED
    BY <1>1, <2>1, DeserializeIsNewer DEF Before, Known, Sync
<1>. QED
  BY <1>2, <1>3, <1>4, <1>5
    DEF SyncNext, syncVars, serverVars, Connect, HandleNews, Move, Sit, Send, ServerSyncs, ServerSync,
        ViewerSyncs, ViewerSync, Lose

\* What the viewer has of a player only gets newer, or is of one without a place.
LEMMA ShownNeverBack ==
  ASSUME SyncInvariant, [SyncNext]_syncVars, entry' = entry
  PROVE  Before(shown, shown') \/ (shown.keys <= shown'.keys /\ shown'.place = Nothing.place)
<1>1. shown \in Known
  BY DEF SyncInvariant, SyncTypes
<1>2. CASE shown' = shown
  BY <1>1, <1>2 DEF Before, Known
<1>3. CASE HandleNews
  <2>1. entry \in Nat
    BY DEF SyncInvariant, SyncTypes
  <2>2. shown = Nothing /\ shown' = Nothing
    BY <1>3, <2>1, HeadIsNew DEF HandleNews, SyncInvariant, PlayersInTurn
  <2>. QED
    BY <1>2, <2>2
<1>4. ASSUME NEW i \in DOMAIN down, ViewerSync(i), entry # 0
      PROVE  Before(shown, shown') \/ (shown.keys <= shown'.keys /\ shown'.place = Nothing.place)
  <2>1. shown' = Shown(down[i])
    BY <1>4 DEF ViewerSync
  <2>2. down[i].onFoot => Precedes(shown.place, down[i].place)
    BY DEF SyncInvariant, PlacesInTurn
  <2>. QED
    BY <1>1, <2>1, <2>2, ShownIsNewer DEF Before, Precedes, Known
<1>. QED
  BY <1>2, <1>3, <1>4
    DEF SyncNext, syncVars, viewerVars, Connect, Join, Leave, Move, Sit, Send, ServerSyncs, ServerSync,
        ViewerSyncs, ViewerSync, Lose

\* Whatever is lost or late, of this player or of the last one of the slot, neither
\* the server nor the viewer goes back to what a player did before, for any number of
\* moves, players and syncs under way.
THEOREM SyncNeverGoesBack == SyncSpec => NeverBack
<1>1. SyncInvariant /\ [SyncNext]_syncVars =>
        /\ player' = player => Before(kept, kept')
        /\ entry' = entry =>
             Before(shown, shown') \/ (shown.keys <= shown'.keys /\ shown'.place = Nothing.place)
  BY KeptNeverBack, ShownNeverBack
<1>. QED
  BY <1>1, AlwaysInTurn, PTL DEF SyncSpec, NeverBack
-----------------------------------------------------------------------------
(* Streamer: numbers *)

\* A set of numbers has a least element.
LEMMA LeastNumber ==
  ASSUME NEW T \in SUBSET Nat, T # {}
  PROVE  \E x \in T : \A y \in T : x <= y
<1>1. PICK x \in T : \A y \in T : ~(<<y, x>> \in OpToRel(<, Nat))
  BY NatLessThanWellFounded, WFMin, Zenon
<1>2. \A y \in T : ~(y < x)
  <2> SUFFICES ASSUME NEW y \in T, y < x PROVE FALSE
    OBVIOUS
  <2>1. <<y, x>> \in Nat \X Nat
    OBVIOUS
  <2>2. <<y, x>> \in OpToRel(<, Nat)
    BY <2>1, Zenon DEF OpToRel
  <2> QED BY <1>1, <2>2, Zenon
<1> QED BY <1>2

\* What holds of i, and of each number that follows one of which it holds, holds of j.
LEMMA Climb ==
  ASSUME NEW T, NEW i \in Nat, NEW j \in Nat, i <= j, i \in T,
         \A k \in i .. j - 1 : k \in T => k + 1 \in T
  PROVE  j \in T
<1> DEFINE F == {k \in i .. j : k \notin T}
<1>1. SUFFICES ASSUME F # {} PROVE FALSE
  OBVIOUS
<1>2. PICK x \in F : \A y \in F : x <= y
  <2>1. F \in SUBSET Nat
    OBVIOUS
  <2> QED BY <1>1, <2>1, LeastNumber
<1>3. x # i /\ x \in i .. j
  BY <1>2
<1>4. x - 1 \in i .. j - 1 /\ x - 1 \notin F /\ (x - 1) + 1 = x
  BY <1>2, <1>3
<1>5. x - 1 \in T
  BY <1>4
<1> QED BY <1>2, <1>4, <1>5

\* The last number of a set of the first ones.
LEMMA MaxIs ==
  ASSUME NEW n \in Nat, NEW x \in SUBSET (1 .. n), n \in x
  PROVE  Max(x) = n
<1>1. \A y \in x : n >= y /\ n \in Nat /\ y \in Nat
  OBVIOUS
<1>2. Max(x) \in x /\ \A y \in x : Max(x) >= y
  BY <1>1, Zenon DEF Max
<1>3. PICK m \in x : m = Max(x) /\ \A y \in x : m >= y
  BY <1>2
<1>. QED
  BY <1>1, <1>3

-----------------------------------------------------------------------------
(* Going through a list *)

\* What a loop does with element e, as how says: it streams e in, or out, or keeps it if
\* it is in a set.
Step(how, u, e) ==
  IF how[1] = "in" THEN StreamIn(u, e)
  ELSE IF how[1] = "out" THEN StreamOut(u, e)
  ELSE IF e \in how[2] THEN Append(u, e) ELSE u

\* h is what FoldLeft computes of the elements of s with the numbers of any set.
Unrolls(h, how, u, s, n) ==
  h = [x \in SUBSET (1 .. n) |-> IF x = {} THEN u ELSE Step(how, h[x \ {Max(x)}], s[Max(x)])]

\* One element more can be unrolled.
LEMMA UnrollsMore ==
  ASSUME NEW how, NEW u, NEW s, NEW n \in Nat, NEW h, Unrolls(h, how, u, s, n)
  PROVE  \E k : Unrolls(k, how, u, s, n + 1)
<1> DEFINE k == [x \in SUBSET (1 .. n + 1) |->
                   IF n + 1 \in x THEN Step(how, h[x \ {n + 1}], s[n + 1]) ELSE h[x]]
<1>1. ASSUME NEW x \in SUBSET (1 .. n + 1)
      PROVE  k[x] = IF x = {} THEN u ELSE Step(how, k[x \ {Max(x)}], s[Max(x)])
  <2>1. CASE n + 1 \in x
    <3>1. Max(x) = n + 1 /\ x # {}
      BY <2>1, MaxIs
    <3>2. x \ {n + 1} \in SUBSET (1 .. n + 1) /\ n + 1 \notin x \ {n + 1}
      OBVIOUS
    <3>3. k[x \ {n + 1}] = h[x \ {n + 1}]
      BY <3>2
    <3>. QED
      BY <2>1, <3>1, <3>3
  <2>2. CASE n + 1 \notin x
    <3>1. x \in SUBSET (1 .. n)
      BY <2>2
    <3>2. h[x] = IF x = {} THEN u ELSE Step(how, h[x \ {Max(x)}], s[Max(x)])
      BY <3>1 DEF Unrolls
    <3>3. x \ {Max(x)} \in SUBSET (1 .. n + 1) /\ n + 1 \notin x \ {Max(x)}
      BY <2>2
    <3>4. k[x \ {Max(x)}] = h[x \ {Max(x)}]
      BY <3>3
    <3>. QED
      BY <2>2, <3>2, <3>4
  <2>. QED
    BY <2>1, <2>2
<1>2. k = [x \in SUBSET (1 .. n + 1) |->
             IF x = {} THEN u ELSE Step(how, k[x \ {Max(x)}], s[Max(x)])]
  BY <1>1
<1>. QED
  BY <1>2 DEF Unrolls

\* Every list can be unrolled.
LEMMA Unrolled ==
  ASSUME NEW how, NEW u, NEW s, NEW n \in Nat
  PROVE  \E h : Unrolls(h, how, u, s, n)
<1> DEFINE T == {m \in Nat : \E h : Unrolls(h, how, u, s, m)}
<1>1. 0 \in T
  <2> DEFINE h == [x \in SUBSET (1 .. 0) |-> u]
  <2>1. Unrolls(h, how, u, s, 0)
    BY DEF Unrolls
  <2>. QED
    BY <2>1
<1>2. \A m \in 0 .. n - 1 : m \in T => m + 1 \in T
  BY UnrollsMore
<1>. HIDE DEF T
<1>3. n \in T
  BY <1>1, <1>2, Climb
<1>. QED
  BY <1>3 DEF T

\* The rounds of a loop, g[i] being what it has after i of them.
Rounds(g, how, u, s) ==
  g[0] = u /\ \A i \in 1 .. Len(s) : g[i] = Step(how, g[i - 1], s[i])

\* Unrolled, a loop is its rounds one after the other.
LEMMA RoundByRound ==
  ASSUME NEW how, NEW u, NEW E, NEW s \in Seq(E), NEW h, Unrolls(h, how, u, s, Len(s))
  PROVE  \E g : Rounds(g, how, u, s) /\ h[DOMAIN s] = g[Len(s)]
<1> DEFINE g == [i \in 0 .. Len(s) |-> h[1 .. i]]
<1>1. DOMAIN s = 1 .. Len(s) /\ Len(s) \in Nat
  OBVIOUS
<1>2. g[0] = u
  BY <1>1 DEF Unrolls
<1>3. ASSUME NEW i \in 1 .. Len(s) PROVE g[i] = Step(how, g[i - 1], s[i])
  <2>1. i \in Nat /\ i - 1 \in 0 .. Len(s) /\ i \in 0 .. Len(s)
    BY <1>1
  <2>2. Max(1 .. i) = i
    BY <2>1, MaxIs
  <2>3. (1 .. i) \ {i} = 1 .. i - 1
    BY <2>1
  <2>4. 1 .. i # {}
    <3>1. i \in 1 .. i
      BY <2>1
    <3>. QED
      BY <3>1
  <2>5. 1 .. i \in SUBSET (1 .. Len(s))
    BY <1>1, <2>1
  <2>. QED
    BY <1>1, <2>1, <2>2, <2>3, <2>4, <2>5 DEF Unrolls
<1>4. g[Len(s)] = h[DOMAIN s]
  BY <1>1
<1>. HIDE DEF g
<1>. QED
  BY <1>2, <1>3, <1>4 DEF Rounds

\* Streaming in of a list is one StreamIn after the other.
LEMMA InOneByOne ==
  ASSUME NEW u, NEW E, NEW s \in Seq(E)
  PROVE  \E g : Rounds(g, <<"in">>, u, s) /\ FoldLeft(StreamIn, u, s) = g[Len(s)]
<1> DEFINE iter == CHOOSE h : h = [x \in SUBSET DOMAIN s |->
                     IF x = {} THEN u ELSE StreamIn(h[x \ {Max(x)}], s[Max(x)])]
<1>1. FoldLeft(StreamIn, u, s) = iter[DOMAIN s]
  BY Zenon DEF FoldLeft, MapThenFoldSet
<1>2. DOMAIN s = 1 .. Len(s) /\ Len(s) \in Nat
  OBVIOUS
<1>3. iter = [x \in SUBSET DOMAIN s |->
                IF x = {} THEN u ELSE StreamIn(iter[x \ {Max(x)}], s[Max(x)])]
  <2>1. PICK h : Unrolls(h, <<"in">>, u, s, Len(s))
    BY <1>2, Unrolled
  <2>2. h = [x \in SUBSET DOMAIN s |->
               IF x = {} THEN u ELSE StreamIn(h[x \ {Max(x)}], s[Max(x)])]
    BY <1>2, <2>1 DEF Unrolls, Step
  <2>. QED
    BY <2>2, Zenon
<1>. HIDE DEF iter
<1>4. Unrolls(iter, <<"in">>, u, s, Len(s))
  BY <1>2, <1>3 DEF Unrolls, Step
<1>. QED
  BY <1>1, <1>4, RoundByRound

\* Streaming out of a list is one StreamOut after the other.
LEMMA OutOneByOne ==
  ASSUME NEW u, NEW E, NEW s \in Seq(E)
  PROVE  \E g : Rounds(g, <<"out">>, u, s) /\ FoldLeft(StreamOut, u, s) = g[Len(s)]
<1> DEFINE iter == CHOOSE h : h = [x \in SUBSET DOMAIN s |->
                     IF x = {} THEN u ELSE StreamOut(h[x \ {Max(x)}], s[Max(x)])]
<1>1. FoldLeft(StreamOut, u, s) = iter[DOMAIN s]
  BY Zenon DEF FoldLeft, MapThenFoldSet
<1>2. DOMAIN s = 1 .. Len(s) /\ Len(s) \in Nat
  OBVIOUS
<1>3. iter = [x \in SUBSET DOMAIN s |->
                IF x = {} THEN u ELSE StreamOut(iter[x \ {Max(x)}], s[Max(x)])]
  <2>1. PICK h : Unrolls(h, <<"out">>, u, s, Len(s))
    BY <1>2, Unrolled
  <2>2. h = [x \in SUBSET DOMAIN s |->
               IF x = {} THEN u ELSE StreamOut(h[x \ {Max(x)}], s[Max(x)])]
    BY <1>2, <2>1 DEF Unrolls, Step
  <2>. QED
    BY <2>2, Zenon
<1>. HIDE DEF iter
<1>4. Unrolls(iter, <<"out">>, u, s, Len(s))
  BY <1>2, <1>3 DEF Unrolls, Step
<1>. QED
  BY <1>1, <1>4, RoundByRound

\* Only looks at one element after the other.
LEMMA OnlyOneByOne ==
  ASSUME NEW E, NEW S \in SUBSET Entity, NEW s \in Seq(E)
  PROVE  \E g : Rounds(g, <<"only", S>>, <<>>, s) /\ Only(s, S) = g[Len(s)]
<1> DEFINE iter == CHOOSE h : h = [x \in SUBSET DOMAIN s |->
                     IF x = {} THEN <<>>
                     ELSE IF s[Max(x)] \in S THEN Append(h[x \ {Max(x)}], s[Max(x)])
                          ELSE h[x \ {Max(x)}]]
<1>1. Only(s, S) = iter[DOMAIN s]
  BY Zenon DEF FoldLeft, MapThenFoldSet, Only
<1>2. DOMAIN s = 1 .. Len(s) /\ Len(s) \in Nat
  OBVIOUS
<1>3. iter = [x \in SUBSET DOMAIN s |->
                     IF x = {} THEN <<>>
                     ELSE IF s[Max(x)] \in S THEN Append(iter[x \ {Max(x)}], s[Max(x)])
                          ELSE iter[x \ {Max(x)}]]
  <2>1. PICK h : Unrolls(h, <<"only", S>>, <<>>, s, Len(s))
    BY <1>2, Unrolled
  <2>2. h = [x \in SUBSET DOMAIN s |->
                     IF x = {} THEN <<>>
                     ELSE IF s[Max(x)] \in S THEN Append(h[x \ {Max(x)}], s[Max(x)])
                          ELSE h[x \ {Max(x)}]]
    BY <1>2, <2>1 DEF Unrolls, Step
  <2>. QED
    BY <2>2, Zenon
<1>. HIDE DEF iter
<1>4. Unrolls(iter, <<"only", S>>, <<>>, s, Len(s))
  BY <1>2, <1>3 DEF Unrolls, Step
<1>. QED
  BY <1>1, <1>4, RoundByRound

-----------------------------------------------------------------------------
(* Lists *)

\* No element is in s twice.
Distinct(s) == \A i, j \in DOMAIN s : i # j => s[i] # s[j]

\* What an element at the end makes of a list.
LEMMA AppendIs ==
  ASSUME NEW E, NEW s \in Seq(E), NEW e \in E
  PROVE  /\ Append(s, e) \in Seq(E)
         /\ ToSet(Append(s, e)) = ToSet(s) \cup {e}
         /\ Distinct(s) /\ e \notin ToSet(s) => Distinct(Append(s, e))
<1>1. /\ Append(s, e) \in Seq(E) /\ Len(Append(s, e)) = Len(s) + 1 /\ Len(s) \in Nat
      /\ \A i \in 1 .. Len(s) : Append(s, e)[i] = s[i]
      /\ Append(s, e)[Len(s) + 1] = e
  BY AppendProperties
<1>2. DOMAIN Append(s, e) = 1 .. Len(s) + 1 /\ DOMAIN s = 1 .. Len(s)
  BY <1>1
<1>3. \A i \in 1 .. Len(s) + 1 : i \in 1 .. Len(s) \/ i = Len(s) + 1
  BY <1>1
<1>4. \A i \in 1 .. Len(s) : i \in 1 .. Len(s) + 1 /\ i # Len(s) + 1
  BY <1>1
<1>5. Len(s) + 1 \in 1 .. Len(s) + 1
  BY <1>1
<1>6. ToSet(Append(s, e)) = ToSet(s) \cup {e}
  BY <1>1, <1>2, <1>3, <1>4, <1>5 DEF ToSet
<1>7. Distinct(s) /\ e \notin ToSet(s) => Distinct(Append(s, e))
  BY <1>1, <1>2, <1>3 DEF ToSet, Distinct
<1>. QED
  BY <1>1, <1>6, <1>7

\* What one list behind another makes.
LEMMA ConcatIs ==
  ASSUME NEW E, NEW s \in Seq(E), NEW r \in Seq(E)
  PROVE  /\ s \o r \in Seq(E) /\ Len(s \o r) = Len(s) + Len(r)
         /\ ToSet(s \o r) = ToSet(s) \cup ToSet(r)
         /\ Distinct(s) /\ Distinct(r) /\ ToSet(s) \cap ToSet(r) = {} => Distinct(s \o r)
<1>1. /\ s \o r \in Seq(E) /\ Len(s \o r) = Len(s) + Len(r)
      /\ \A i \in 1 .. Len(s) + Len(r) :
           (s \o r)[i] = IF i <= Len(s) THEN s[i] ELSE r[i - Len(s)]
  BY ConcatProperties
<1>2. /\ DOMAIN (s \o r) = 1 .. Len(s) + Len(r) /\ DOMAIN s = 1 .. Len(s)
      /\ DOMAIN r = 1 .. Len(r) /\ Len(s) \in Nat /\ Len(r) \in Nat
  BY <1>1
<1>3. \A i \in 1 .. Len(s) + Len(r) :
        \/ i \in 1 .. Len(s) /\ (s \o r)[i] = s[i]
        \/ i - Len(s) \in 1 .. Len(r) /\ (s \o r)[i] = r[i - Len(s)] /\ ~(i \in 1 .. Len(s))
  BY <1>1, <1>2
<1>4. \A i \in 1 .. Len(s) : i \in 1 .. Len(s) + Len(r) /\ (s \o r)[i] = s[i]
  BY <1>1, <1>2
<1>5. \A i \in 1 .. Len(r) :
        Len(s) + i \in 1 .. Len(s) + Len(r) /\ (s \o r)[Len(s) + i] = r[i]
  <2> SUFFICES ASSUME NEW i \in 1 .. Len(r)
               PROVE  Len(s) + i \in 1 .. Len(s) + Len(r) /\ (s \o r)[Len(s) + i] = r[i]
    OBVIOUS
  <2>1. /\ Len(s) + i \in 1 .. Len(s) + Len(r) /\ ~(Len(s) + i <= Len(s))
        /\ Len(s) + i - Len(s) = i
    BY <1>2
  <2>. QED
    BY <1>1, <2>1
<1>6. ToSet(s \o r) = ToSet(s) \cup ToSet(r)
  <2>1. \A x \in ToSet(s \o r) : x \in ToSet(s) \cup ToSet(r)
    BY <1>2, <1>3 DEF ToSet
  <2>2. \A x \in ToSet(s) \cup ToSet(r) : x \in ToSet(s \o r)
    BY <1>2, <1>4, <1>5 DEF ToSet
  <2>. QED
    BY <2>1, <2>2
<1>7. ASSUME Distinct(s), Distinct(r), ToSet(s) \cap ToSet(r) = {} PROVE Distinct(s \o r)
  <2> SUFFICES ASSUME NEW i \in 1 .. Len(s) + Len(r), NEW j \in 1 .. Len(s) + Len(r), i # j
               PROVE  (s \o r)[i] # (s \o r)[j]
    BY <1>2 DEF Distinct
  <2>1. \A k \in 1 .. Len(s), l \in 1 .. Len(r) : s[k] # r[l]
    BY <1>2, <1>7 DEF ToSet
  <2>2. i - Len(s) # j - Len(s)
    BY <1>2
  <2>. QED
    BY SMTT(30), <1>2, <1>3, <1>7, <2>1, <2>2 DEF Distinct
<1>. QED
  BY <1>1, <1>6, <1>7

\* A list without doubles is as long as its set is large.
LEMMA LengthIs ==
  ASSUME NEW E, NEW s \in Seq(E)
  PROVE  /\ IsFiniteSet(ToSet(s)) /\ Cardinality(ToSet(s)) \in Nat
         /\ Cardinality(ToSet(s)) <= Len(s)
         /\ Cardinality(ToSet(s)) = Len(s) <=> Distinct(s)
<1>1. DOMAIN s = 1 .. Len(s) /\ Len(s) \in Nat
  OBVIOUS
<1>2. s \in Surjection(1 .. Len(s), ToSet(s))
  BY <1>1 DEF Surjection, ToSet
<1>3. IsFiniteSet(1 .. Len(s)) /\ Cardinality(1 .. Len(s)) = Len(s)
  BY <1>1, FS_Interval
<1>4. Distinct(s) <=> s \in Injection(1 .. Len(s), ToSet(s))
  BY <1>1 DEF Distinct, Injection, IsInjective, ToSet
<1>. QED
  BY <1>2, <1>3, <1>4, FS_Surjection, FS_CardinalityType

\* What is kept of a list.
LEMMA OnlyIs ==
  ASSUME NEW E, NEW S \in SUBSET Entity, NEW s \in Seq(E)
  PROVE  /\ Only(s, S) \in Seq(E)
         /\ ToSet(Only(s, S)) = ToSet(s) \cap S
         /\ Distinct(s) => Distinct(Only(s, S))
<1>1. PICK g : Rounds(g, <<"only", S>>, <<>>, s) /\ Only(s, S) = g[Len(s)]
  BY OnlyOneByOne
<1>2. DOMAIN s = 1 .. Len(s) /\ Len(s) \in Nat /\ \A i \in 1 .. Len(s) : s[i] \in E
  OBVIOUS
<1>3. /\ g[0] = <<>>
      /\ \A i \in 1 .. Len(s) : g[i] = IF s[i] \in S THEN Append(g[i - 1], s[i]) ELSE g[i - 1]
  BY <1>1 DEF Rounds, Step
<1> DEFINE First(i) == {s[k] : k \in 1 .. i}
           T == {i \in 0 .. Len(s) : /\ g[i] \in Seq(E) /\ ToSet(g[i]) = First(i) \cap S
                                     /\ Distinct(s) => Distinct(g[i])}
<1>4. 0 \in T
  <2>1. g[0] \in Seq(E) /\ DOMAIN g[0] = {}
    BY <1>3
  <2>2. ToSet(g[0]) = {} /\ Distinct(g[0]) /\ First(0) = {}
    BY <2>1 DEF ToSet, Distinct
  <2>. QED
    BY <1>2, <2>1, <2>2
<1>5. ASSUME NEW i \in 0 .. Len(s) - 1, i \in T PROVE i + 1 \in T
  <2>1. i + 1 \in 1 .. Len(s) /\ i + 1 \in 0 .. Len(s) /\ (i + 1) - 1 = i
    BY <1>2
  <2>2. g[i + 1] = IF s[i + 1] \in S THEN Append(g[i], s[i + 1]) ELSE g[i]
    BY <1>3, <2>1
  <2>3. First(i + 1) = First(i) \cup {s[i + 1]}
    <3>1. \A k \in 1 .. i + 1 : k \in 1 .. i \/ k = i + 1
      BY <2>1
    <3>2. i + 1 \in 1 .. i + 1 /\ \A k \in 1 .. i : k \in 1 .. i + 1
      BY <2>1
    <3>. QED
      BY <3>1, <3>2
  <2>4. s[i + 1] \in E
    BY <1>2, <2>1
  <2>5. Distinct(s) => s[i + 1] \notin First(i)
    <3>1. \A k \in 1 .. i : k \in DOMAIN s /\ k # i + 1
      BY <1>2, <2>1
    <3>. QED
      BY <1>2, <2>1, <3>1 DEF Distinct
  <2>. HIDE DEF First
  <2>6. g[i] \in Seq(E) /\ ToSet(g[i]) = First(i) \cap S /\ (Distinct(s) => Distinct(g[i]))
    BY <1>5
  <2>7. CASE s[i + 1] \in S
    <3>1. g[i + 1] = Append(g[i], s[i + 1])
      BY <2>2, <2>7
    <3>2. /\ g[i + 1] \in Seq(E) /\ ToSet(g[i + 1]) = ToSet(g[i]) \cup {s[i + 1]}
          /\ Distinct(g[i]) /\ s[i + 1] \notin ToSet(g[i]) => Distinct(g[i + 1])
      BY <2>4, <2>6, <3>1, AppendIs
    <3>. QED
      BY <2>1, <2>3, <2>5, <2>6, <2>7, <3>2
  <2>8. CASE s[i + 1] \notin S
    BY <2>1, <2>2, <2>3, <2>6, <2>8
  <2>. QED
    BY <2>7, <2>8
<1>6. Len(s) \in T
  <2>. HIDE DEF T
  <2>. QED
    BY <1>2, <1>4, <1>5, Climb
<1>7. First(Len(s)) = ToSet(s)
  BY <1>2 DEF ToSet
<1>. HIDE DEF First
<1>. QED
  BY <1>1, <1>6, <1>7

\* The order of ByDistance, and the place of what is at i in list s.
Ahead(s, i, j) == at[s[i]] < at[s[j]] \/ (at[s[i]] = at[s[j]] /\ i < j)
Nearer(s, i) == {j \in DOMAIN s : Ahead(s, j, i)}
Place(s, i) == Cardinality(Nearer(s, i)) + 1

\* Every element has a place of its own.
LEMMA PlaceIs ==
  ASSUME NEW s \in Seq(Entity), \A i \in DOMAIN s : at[s[i]] \in Nat
  PROVE  /\ \A i \in DOMAIN s : Place(s, i) \in DOMAIN s
         /\ \A i, j \in DOMAIN s : Ahead(s, i, j) => Place(s, i) < Place(s, j)
         /\ \A n \in DOMAIN s : \E i \in DOMAIN s : Place(s, i) = n
<1>1. DOMAIN s = 1 .. Len(s) /\ Len(s) \in Nat
  OBVIOUS
<1>2. IsFiniteSet(DOMAIN s) /\ Cardinality(DOMAIN s) = Len(s)
  BY <1>1, FS_Interval
<1>3. \A i \in DOMAIN s : IsFiniteSet(Nearer(s, i)) /\ Cardinality(Nearer(s, i)) \in Nat
  BY <1>2, FS_Subset, FS_CardinalityType DEF Nearer
<1>4. ASSUME NEW i \in DOMAIN s PROVE Place(s, i) \in DOMAIN s
  <2>1. Nearer(s, i) \subseteq DOMAIN s \ {i}
    BY <1>1 DEF Nearer, Ahead
  <2>2. IsFiniteSet(DOMAIN s \ {i}) /\ Cardinality(DOMAIN s \ {i}) = Len(s) - 1
    BY <1>2, FS_RemoveElement
  <2>3. Cardinality(Nearer(s, i)) <= Len(s) - 1
    BY <2>1, <2>2, FS_Subset
  <2>. QED
    BY <1>1, <1>3, <2>3 DEF Place
<1>5. ASSUME NEW i \in DOMAIN s, NEW j \in DOMAIN s, Ahead(s, i, j)
      PROVE  Place(s, i) < Place(s, j)
  <2>1. i \in Nearer(s, j)
    BY <1>5 DEF Nearer
  <2>2. i \notin Nearer(s, i)
    BY <1>1 DEF Nearer, Ahead
  <2>3. \A k \in DOMAIN s : Ahead(s, k, i) => Ahead(s, k, j)
    BY <1>1, <1>5 DEF Ahead
  <2>4. Nearer(s, i) \subseteq Nearer(s, j) \ {i}
    BY <2>2, <2>3 DEF Nearer
  <2>5. IsFiniteSet(Nearer(s, j) \ {i}) /\
        Cardinality(Nearer(s, j) \ {i}) = Cardinality(Nearer(s, j)) - 1
    BY <1>3, <2>1, FS_RemoveElement
  <2>6. Cardinality(Nearer(s, i)) <= Cardinality(Nearer(s, j)) - 1
    BY <2>4, <2>5, FS_Subset
  <2>. QED
    BY <1>3, <2>6 DEF Place
<1>6. \A i, j \in DOMAIN s : i # j => Ahead(s, i, j) \/ Ahead(s, j, i)
  BY <1>1 DEF Ahead
<1>7. ASSUME NEW n \in DOMAIN s PROVE \E i \in DOMAIN s : Place(s, i) = n
  <2> DEFINE f == [i \in DOMAIN s |-> Place(s, i)]
  <2>1. f \in [DOMAIN s -> DOMAIN s]
    BY <1>4
  <2>2. \A i, j \in DOMAIN s : i # j => f[i] # f[j]
    <3>1. \A i \in DOMAIN s : Place(s, i) \in Nat
      BY <1>1, <1>4
    <3>2. ASSUME NEW i \in DOMAIN s, NEW j \in DOMAIN s, i # j
          PROVE  Place(s, i) # Place(s, j)
      BY <1>5, <1>6, <3>1, <3>2
    <3>. QED
      BY <3>2
  <2>3. f \in Injection(DOMAIN s, DOMAIN s)
    BY <2>1, <2>2 DEF Injection, IsInjective
  <2>4. f \in Surjection(DOMAIN s, DOMAIN s)
    BY <1>2, <2>3, FS_Injection
  <2>. QED
    BY <2>4 DEF Surjection
<1>. QED
  BY <1>4, <1>5, <1>7

\* Sorting moves elements, and no element is nearer than the ones before it.
LEMMA ByDistanceIs ==
  ASSUME NEW E \in SUBSET Entity, NEW s \in Seq(E), \A i \in DOMAIN s : at[s[i]] \in Nat
  PROVE  /\ ByDistance(s) \in Seq(E) /\ Len(ByDistance(s)) = Len(s)
         /\ ToSet(ByDistance(s)) = ToSet(s)
         /\ Distinct(s) => Distinct(ByDistance(s))
         /\ \A k, l \in 1 .. Len(s) : k < l => at[ByDistance(s)[k]] <= at[ByDistance(s)[l]]
<1> DEFINE f == [n \in DOMAIN s |-> CHOOSE i \in DOMAIN s : Place(s, i) = n]
<1>1. ByDistance(s) = [n \in DOMAIN s |-> s[f[n]]]
  BY DEF ByDistance, Place, Nearer, Ahead
<1>2. DOMAIN s = 1 .. Len(s) /\ Len(s) \in Nat /\ s \in Seq(Entity)
      /\ \A i \in DOMAIN s : s[i] \in E
  OBVIOUS
<1>3. \A n \in DOMAIN s : f[n] \in DOMAIN s /\ Place(s, f[n]) = n
  <2> SUFFICES ASSUME NEW n \in DOMAIN s PROVE f[n] \in DOMAIN s /\ Place(s, f[n]) = n
    OBVIOUS
  <2>1. \E i \in DOMAIN s : Place(s, i) = n
    BY <1>2, PlaceIs
  <2>. QED
    BY <2>1
<1>4. \A i \in DOMAIN s : Place(s, i) \in DOMAIN s
  BY <1>2, PlaceIs
<1>5. \A i, j \in DOMAIN s : Ahead(s, i, j) => Place(s, i) < Place(s, j)
  BY <1>2, PlaceIs
<1>6. \A i, j \in DOMAIN s : i # j => Ahead(s, i, j) \/ Ahead(s, j, i)
  BY <1>2 DEF Ahead
<1>. HIDE DEF f
<1>7. \A i \in DOMAIN s : f[Place(s, i)] = i
  BY <1>2, <1>3, <1>4, <1>5, <1>6
<1>8. ByDistance(s) \in Seq(E) /\ Len(ByDistance(s)) = Len(s) /\ DOMAIN ByDistance(s) = DOMAIN s
  BY <1>1, <1>2, <1>3
<1>9. ToSet(ByDistance(s)) = ToSet(s)
  <2>1. \A n \in DOMAIN s : ByDistance(s)[n] = s[f[n]] /\ f[n] \in DOMAIN s
    BY <1>1, <1>3
  <2>2. \A i \in DOMAIN s : Place(s, i) \in DOMAIN s /\ s[i] = ByDistance(s)[Place(s, i)]
    BY <1>4, <1>7, <2>1
  <2>3. \A x \in ToSet(ByDistance(s)) : x \in ToSet(s)
    BY <1>8, <2>1 DEF ToSet
  <2>4. \A x \in ToSet(s) : x \in ToSet(ByDistance(s))
    BY <1>8, <2>2 DEF ToSet
  <2>. QED
    BY <2>3, <2>4
<1>10. Distinct(s) => Distinct(ByDistance(s))
  BY SMTT(30), <1>1, <1>3 DEF Distinct
<1>11. ASSUME NEW k \in 1 .. Len(s), NEW l \in 1 .. Len(s), k < l
       PROVE  at[ByDistance(s)[k]] <= at[ByDistance(s)[l]]
  <2>1. f[k] \in DOMAIN s /\ f[l] \in DOMAIN s /\ Place(s, f[k]) = k /\ Place(s, f[l]) = l
    BY <1>2, <1>3
  <2>2. k # l /\ ~(l < k)
    BY <1>2, <1>11
  <2>3. Ahead(s, f[k], f[l])
    BY <1>5, <1>6, <2>1, <2>2
  <2>. QED
    BY <1>1, <1>2, <2>1, <2>3 DEF Ahead
<1>. QED
  BY <1>8, <1>9, <1>10, <1>11

-----------------------------------------------------------------------------
(* The world of a client *)

\* Each entity that is streamed in, and no other, has its object of the game, and
\* players their numbers, but for the players the game refused a ped.
Sane(u) ==
  /\ u \in World
  /\ u.cars = u.isIn \cap Vehicle
  /\ \A p \in Player : Spawned(u, p) <=> p \in u.isIn \ u.refused
  /\ \A p, q \in (u.isIn \ u.refused) \cap Player : p # q => u.number[p] # u.number[q]

\* No pointer dangles, and none that did has been used.
Live(u) ==
  /\ ~u.fault
  /\ \A p \in Player : u.veh[p] # Freed /\ u.entering[p] # Freed
  /\ \A v \in Vehicle : u.driver[v] # Freed

\* From u to x objects and numbers stay, and no pointer comes to dangle.
Keeps(u, x) ==
  /\ x \in World
  /\ x.isIn = u.isIn /\ x.refused = u.refused
  /\ x.cars = u.cars /\ x.number = u.number
  /\ Live(u) => Live(x)

\* What keeps a sane world leaves it sane.
LEMMA KeepsSane ==
  ASSUME NEW u, NEW x, Sane(u), Keeps(u, x)
  PROVE  Sane(x)
BY DEF Sane, Keeps, Spawned

\* Two steps that keep the world keep it.
LEMMA KeepsKeeps ==
  ASSUME NEW u, NEW x, NEW y, Keeps(u, x), Keeps(x, y)
  PROVE  Keeps(u, y)
BY DEF Keeps

\* SetOccupant with a player or none lets no driver dangle.
LEMMA OccupantIs ==
  ASSUME NEW d \in [Vehicle -> Player \cup {None, Freed}], NEW v \in Vehicle, NEW s,
         NEW p \in Player \cup {None}
  PROVE  /\ SetOccupant(d, v, s, p) \in [Vehicle -> Player \cup {None, Freed}]
         /\ \A x \in Vehicle : d[x] # Freed => SetOccupant(d, v, s, p)[x] # Freed
BY StreamerAssumption DEF SetOccupant

\* ExitVehicle(true) keeps the world.
LEMMA WarpOutKeeps ==
  ASSUME NEW u \in World, NEW p \in Player
  PROVE  Keeps(u, WarpOut(u, p))
<1>1. CASE ~Spawned(u, p) \/ u.veh[p] = None
  BY <1>1 DEF WarpOut, Keeps
<1>2. CASE Spawned(u, p) /\ u.veh[p] = Freed
  BY <1>2, StreamerAssumption DEF WarpOut, Keeps, World, Fault, Live
<1>3. CASE Spawned(u, p) /\ u.veh[p] # None /\ u.veh[p] # Freed
  <2> DEFINE d == SetOccupant(u.driver, u.veh[p], u.entrySeat[p], None)
             x == [u EXCEPT !.driver = d, !.veh[p] = None, !.seat[p] = 0,
                            !.entering[p] = None, !.entrySeat[p] = 0, !.rides[p] = None]
  <2>1. u.veh[p] \in Vehicle /\ u.driver \in [Vehicle -> Player \cup {None, Freed}]
    BY <1>3 DEF World
  <2>2. /\ d \in [Vehicle -> Player \cup {None, Freed}]
        /\ \A v \in Vehicle : u.driver[v] # Freed => d[v] # Freed
    BY <2>1, OccupantIs
  <2>3. WarpOut(u, p) = x
    BY <1>3 DEF WarpOut
  <2>. HIDE DEF d
  <2>4. x \in World
    BY <2>2 DEF World, Seat
  <2>5. x.isIn = u.isIn /\ x.refused = u.refused /\ x.cars = u.cars /\ x.number = u.number
    BY DEF World
  <2>6. Live(u) => Live(x)
    BY <2>2, StreamerAssumption DEF World, Live
  <2>. QED
    BY <2>3, <2>4, <2>5, <2>6 DEF Keeps
<1>. QED
  BY <1>1, <1>2, <1>3

\* PutInVehicle keeps the world.
LEMMA PutInKeeps ==
  ASSUME NEW u \in World, NEW p \in Player, NEW v \in Vehicle, NEW s \in Seat
  PROVE  Keeps(u, PutIn(u, p, v, s))
<1>1. CASE ~Spawned(u, p) \/ v \notin u.cars
  BY <1>1 DEF PutIn, Keeps
<1>2. CASE Spawned(u, p) /\ v \in u.cars
  <2>1. PICK x : x = WarpOut(u, p)
    OBVIOUS
  <2>2. Keeps(u, x) /\ x \in World
    BY <2>1, WarpOutKeeps DEF Keeps
  <2> DEFINE d == SetOccupant(x.driver, v, s, p)
             y == [x EXCEPT !.entering[p] = None, !.entrySeat[p] = 0,
                            !.veh[p] = v, !.seat[p] = s, !.rides[p] = v, !.driver = d]
  <2>3. PutIn(u, p, v, s) = y
    BY <1>2, <2>1 DEF PutIn
  <2>4. /\ d \in [Vehicle -> Player \cup {None, Freed}]
        /\ \A c \in Vehicle : x.driver[c] # Freed => d[c] # Freed
    BY <2>2, OccupantIs DEF World
  <2>. HIDE DEF d
  <2>5. y \in World
    BY <2>2, <2>4 DEF World, Seat
  <2>6. y.isIn = x.isIn /\ y.refused = x.refused /\ y.cars = x.cars /\ y.number = x.number
    BY <2>2 DEF World
  <2>7. Live(x) => Live(y)
    BY <2>2, <2>4, StreamerAssumption DEF World, Live
  <2>8. Keeps(x, y)
    BY <2>5, <2>6, <2>7 DEF Keeps
  <2>. QED
    BY <2>2, <2>3, <2>8, KeepsKeeps
<1>. QED
  BY <1>1, <1>2

\* As long as fewer players are streamed in than may be, there is a number left.
LEMMA NumberLeft ==
  ASSUME NEW u, Sane(u), NEW M \in SUBSET Player, IsFiniteSet(M), Cardinality(M) <= PlayerLimit,
         u.isIn \cap Player \subseteq M, NEW p \in M, p \notin u.isIn
  PROVE  FirstFree(u) \in FreeNumbers(u)
<1>1. FreeNumbers(u) # {}
  <2> SUFFICES ASSUME FreeNumbers(u) = {} PROVE FALSE
    OBVIOUS
  <2> DEFINE N == 1 .. Infos - 1
             f == [n \in N |-> CHOOSE q \in Player : u.number[q] = n]
  <2>1. \A n \in N : f[n] \in Player /\ u.number[f[n]] = n
    <3> SUFFICES ASSUME NEW n \in N PROVE f[n] \in Player /\ u.number[f[n]] = n
      OBVIOUS
    <3>1. \E q \in Player : u.number[q] = n
      BY DEF FreeNumbers
    <3>. QED
      BY <3>1
  <2>2. \A n \in N : n # Infos
    BY StreamerAssumption
  <2>3. \A n \in N : f[n] \in M \ {p}
    <3> SUFFICES ASSUME NEW n \in N PROVE f[n] \in M \ {p}
      OBVIOUS
    <3>. HIDE DEF f, N
    <3>1. f[n] \in u.isIn
      BY <2>1, <2>2 DEF Sane, Spawned, NoNumber
    <3>. QED
      BY <2>1, <3>1
  <2>4. f \in Injection(N, M \ {p})
    <3>1. f \in [N -> M \ {p}]
      BY <2>3
    <3>. HIDE DEF f
    <3>. QED
      BY <2>1, <3>1 DEF Injection, IsInjective
  <2>. HIDE DEF f
  <2>5. IsFiniteSet(M \ {p}) /\ Cardinality(M \ {p}) = Cardinality(M) - 1 /\ Cardinality(M) \in Nat
    BY FS_RemoveElement, FS_CardinalityType
  <2>6. Cardinality(N) <= Cardinality(M \ {p})
    BY <2>4, <2>5, FS_Injection
  <2>7. Cardinality(N) = Infos - 1
    <3>1. Infos \in Nat /\ 1 <= Infos
      BY StreamerAssumption
    <3>2. Cardinality(1 .. Infos - 1) = IF 1 > Infos - 1 THEN 0 ELSE Infos - 1 - 1 + 1
      BY <3>1, FS_Interval
    <3>. QED
      BY <3>1, <3>2
  <2>. HIDE DEF N
  <2>. QED
    BY <2>5, <2>6, <2>7, StreamerAssumption
<1>2. FreeNumbers(u) \in SUBSET Nat
  BY StreamerAssumption DEF FreeNumbers
<1>3. \E n \in FreeNumbers(u) : \A m \in FreeNumbers(u) : n <= m
  BY <1>1, <1>2, LeastNumber
<1>. QED
  BY <1>3, Zenon DEF FirstFree

\* A player that is streamed in gets a number that no other has.
LEMMA PlayerInKeeps ==
  ASSUME NEW u, Sane(u), NEW M \in SUBSET Player, IsFiniteSet(M), Cardinality(M) <= PlayerLimit,
         u.isIn \cap Player \subseteq M, NEW p \in M, p \notin u.isIn,
         NEW x, x = StreamIn(u, p)
  PROVE  Sane(x) /\ x.isIn = u.isIn \cup {p} /\ (Live(u) => Live(x))
<1> DEFINE n == FirstFree(u)
           y == [u EXCEPT !.isIn = @ \cup {p}]
           z == [y EXCEPT !.number[p] = n]
<1>1. n \in FreeNumbers(u)
  BY NumberLeft
<1>2. u \in World /\ p \in Player /\ p \in Entity /\ p \notin Vehicle
  BY StreamerAssumption DEF Sane, Entity
<1>3. /\ y.number = u.number /\ y.veh = u.veh /\ y.seat = u.seat /\ y.refused = u.refused
      /\ FreeNumbers(y) = FreeNumbers(u) /\ FirstFree(y) = n
  BY <1>2 DEF World, FreeNumbers, FirstFree
<1>. HIDE DEF n
<1>4. n \in 1 .. Infos /\ n # NoNumber /\ \A q \in Player : u.number[q] # n
  BY <1>1, StreamerAssumption DEF FreeNumbers, NoNumber
<1>5. z \in World /\ z.isIn = u.isIn \cup {p} /\ z.cars = u.cars /\ z.refused = u.refused
      /\ z.number = [u.number EXCEPT ![p] = n] /\ z.fault = u.fault
      /\ z.veh = u.veh /\ z.entering = u.entering /\ z.driver = u.driver /\ z.seat = u.seat
  BY <1>2, <1>4 DEF World, Entity
<1>6. ASSUME p \notin u.refused PROVE Sane(z) /\ (Live(u) => Live(z))
  <2>1. z.cars = z.isIn \cap Vehicle
    BY <1>2, <1>5 DEF Sane
  <2>2. \A q \in Player : Spawned(z, q) <=> q \in z.isIn \ z.refused
    BY <1>2, <1>4, <1>5, <1>6 DEF Sane, Spawned, World
  <2>3. \A q, r \in (z.isIn \ z.refused) \cap Player : q # r => z.number[q] # z.number[r]
    BY <1>2, <1>4, <1>5 DEF Sane, World
  <2>4. Live(u) => Live(z)
    BY <1>5 DEF Live
  <2>. QED
    BY <1>5, <2>1, <2>2, <2>3, <2>4 DEF Sane
<1>7. x = PlayerIn(y, p)
  BY <1>2 DEF StreamIn
<1>8. CASE p \in u.refused
  <2>1. x = y
    BY <1>3, <1>7, <1>8 DEF PlayerIn, CreateFails
  <2>2. y \in World /\ y.isIn = u.isIn \cup {p} /\ y.cars = u.cars /\ y.fault = u.fault
        /\ y.entering = u.entering /\ y.driver = u.driver
    BY <1>2 DEF World, Entity
  <2>. HIDE DEF y
  <2>3. y.cars = y.isIn \cap Vehicle
    BY <1>2, <2>2 DEF Sane
  <2>4. y.isIn \ y.refused = u.isIn \ u.refused
    BY <1>3, <1>8, <2>2
  <2>5. Sane(y)
    BY <1>3, <2>2, <2>3, <2>4 DEF Sane, Spawned
  <2>6. Live(u) => Live(y)
    BY <1>3, <2>2 DEF Live
  <2>. QED
    BY <2>1, <2>2, <2>5, <2>6
<1>. SUFFICES ASSUME p \notin u.refused PROVE Sane(x) /\ x.isIn = u.isIn \cup {p} /\ (Live(u) => Live(x))
  BY <1>8
<1>. HIDE DEF y
<1>81. x = CASE z.veh[p] = None  -> z
            [] z.veh[p] = Freed -> Fault(z)
            [] OTHER            -> PutIn(z, p, z.veh[p], z.seat[p])
  BY <1>1, <1>3, <1>7 DEF PlayerIn, CreateFails
<1>. HIDE DEF z
<1>9. Keeps(z, x)
  <2>1. CASE z.veh[p] = None
    <3>1. x = z
      BY <1>81, <2>1, StreamerAssumption
    <3>. QED
      BY <1>5, <3>1 DEF Keeps
  <2>2. CASE z.veh[p] = Freed
    <3>1. x = Fault(z)
      BY <1>81, <2>2, StreamerAssumption
    <3>. QED
      BY <1>2, <1>5, <2>2, <3>1 DEF Keeps, World, Fault, Live
  <2>3. CASE z.veh[p] # None /\ z.veh[p] # Freed
    <3>1. x = PutIn(z, p, z.veh[p], z.seat[p])
      BY <1>81, <2>3
    <3>2. z.veh[p] \in Vehicle /\ z.seat[p] \in Seat
      BY <1>2, <1>5, <2>3 DEF World
    <3>. QED
      BY <1>2, <1>5, <3>1, <3>2, PutInKeeps
  <2>. QED
    BY <2>1, <2>2, <2>3
<1>10. Sane(x)
  BY <1>6, <1>9, KeepsSane
<1>. QED
  BY <1>5, <1>6, <1>9, <1>10 DEF Keeps

\* Streaming in of one entity, of a player while there is room.
LEMMA StreamInKeeps ==
  ASSUME NEW u, Sane(u), NEW M \in SUBSET Player, IsFiniteSet(M), Cardinality(M) <= PlayerLimit,
         u.isIn \cap Player \subseteq M, NEW e \in M \cup Vehicle, NEW x, x = StreamIn(u, e)
  PROVE  Sane(x) /\ x.isIn = u.isIn \cup {e} /\ (Live(u) => Live(x))
<1>1. CASE e \in u.isIn
  <2>1. x = u
    BY <1>1 DEF StreamIn
  <2>. QED
    BY <1>1, <2>1
<1>2. CASE e \notin u.isIn /\ e \in M
  BY <1>2, PlayerInKeeps
<1>3. CASE e \notin u.isIn /\ e \in Vehicle
  <2> DEFINE y == [u EXCEPT !.isIn = @ \cup {e}]
             z == [y EXCEPT !.cars = @ \cup {e}]
  <2>1. e \notin Player /\ e \in Entity /\ u \in World
    BY <1>3, StreamerAssumption DEF Sane, Entity
  <2>2. x = z
    BY <1>3, <2>1 DEF StreamIn
  <2>3. z \in World /\ z.isIn = u.isIn \cup {e} /\ z.cars = u.cars \cup {e}
        /\ z.number = u.number /\ z.fault = u.fault /\ z.refused = u.refused
        /\ z.veh = u.veh /\ z.entering = u.entering /\ z.driver = u.driver
    BY <1>3, <2>1 DEF World, Entity
  <2>. HIDE DEF z
  <2>4. Sane(z)
    BY <1>3, <2>1, <2>3 DEF Sane, Spawned
  <2>5. Live(u) => Live(z)
    BY <2>3 DEF Live
  <2>. QED
    BY <2>2, <2>3, <2>4, <2>5
<1>. QED
  BY <1>1, <1>2, <1>3

\* Streaming out of a player leaves every driver.
LEMMA PlayerOutKeeps ==
  ASSUME NEW u, Sane(u), NEW p \in Player, p \in u.isIn, NEW x, x = StreamOut(u, p)
  PROVE  Sane(x) /\ x.isIn = u.isIn \ {p} /\ (Live(u) => Live(x)) /\ x.driver = u.driver
<1> DEFINE z == [[u EXCEPT !.number[p] = NoNumber, !.rides[p] = None]
                 EXCEPT !.isIn = @ \ {p}, !.refused = @ \ {p}]
<1>1. x = z
  BY DEF StreamOut, PlayerOut
<1>2. u \in World /\ p \notin Vehicle /\ NoNumber \in 1 .. Infos
  BY StreamerAssumption DEF Sane, NoNumber
<1>3. z \in World /\ z.isIn = u.isIn \ {p} /\ z.refused = u.refused \ {p} /\ z.cars = u.cars
      /\ z.number = [u.number EXCEPT ![p] = NoNumber] /\ z.fault = u.fault
      /\ z.veh = u.veh /\ z.entering = u.entering /\ z.driver = u.driver
  BY <1>2 DEF World
<1>. HIDE DEF z
<1>4. z.cars = z.isIn \cap Vehicle
  BY <1>2, <1>3 DEF Sane
<1>5. \A q \in Player : Spawned(z, q) <=> q \in z.isIn \ z.refused
  BY <1>2, <1>3 DEF Sane, Spawned, World
<1>6. \A q, r \in (z.isIn \ z.refused) \cap Player : q # r => z.number[q] # z.number[r]
  BY <1>2, <1>3 DEF Sane, World
<1>7. Live(u) => Live(z)
  BY <1>3 DEF Live
<1>. QED
  BY <1>1, <1>3, <1>4, <1>5, <1>6, <1>7 DEF Sane

\* What StreamOutInternal does in the end.
Unflagged(u, e) == [u EXCEPT !.isIn = @ \ {e}, !.refused = @ \ {e}]

\* The object of a vehicle goes from a world that has kept the others.
LEMMA CarOut ==
  ASSUME NEW u, Sane(u), NEW v \in Vehicle, NEW y, Keeps(u, y),
         NEW x, x = Unflagged(WithoutCar(y, v), v)
  PROVE  /\ Sane(x) /\ x.isIn = u.isIn \ {v} /\ (Live(u) => Live(x))
         /\ x.veh = y.veh /\ x.entering = y.entering /\ x.driver = y.driver
<1>1. y \in World /\ Sane(y) /\ v \notin Player
  BY SMTT(30), KeepsSane, StreamerAssumption DEF Keeps
<1>2. /\ x \in World /\ x.isIn = y.isIn \ {v} /\ x.refused = y.refused /\ x.cars = y.cars \ {v}
      /\ x.number = y.number /\ x.fault = y.fault
      /\ x.veh = y.veh /\ x.entering = y.entering /\ x.driver = y.driver
  <2>1. /\ x \in World /\ x.isIn = y.isIn \ {v} /\ x.refused = y.refused \ {v}
        /\ x.cars = y.cars \ {v} /\ x.number = y.number /\ x.fault = y.fault
        /\ x.veh = y.veh /\ x.entering = y.entering /\ x.driver = y.driver
    BY <1>1 DEF World, WithoutCar, Unflagged
  <2>2. y.refused \subseteq Player
    BY <1>1 DEF World
  <2>. QED
    BY <1>1, <2>1, <2>2
<1>3. x.cars = x.isIn \cap Vehicle
  BY <1>1, <1>2 DEF Sane
<1>4. \A q \in Player : Spawned(x, q) <=> q \in x.isIn \ x.refused
  BY <1>1, <1>2 DEF Sane, Spawned
<1>5. \A q, r \in (x.isIn \ x.refused) \cap Player : q # r => x.number[q] # x.number[r]
  BY <1>1, <1>2 DEF Sane
<1>6. Live(y) => Live(x)
  BY <1>2 DEF Live
<1>. QED
  BY <1>2, <1>3, <1>4, <1>5, <1>6 DEF Sane, Keeps

\* The driver of a vehicle that goes is taken out of it.
LEMMA DriverlessKeeps ==
  ASSUME NEW u \in World, NEW v \in Vehicle
  PROVE  Keeps(u, Driverless(u, v))
<1>1. CASE u.driver[v] = None
  <2>1. Driverless(u, v) = u
    BY <1>1, StreamerAssumption DEF Driverless
  <2>. QED
    BY <2>1 DEF Keeps
<1>2. CASE u.driver[v] = Freed
  <2>1. Driverless(u, v) = Fault(u)
    BY <1>2, StreamerAssumption DEF Driverless
  <2>. QED
    BY <1>2, <2>1 DEF Keeps, World, Fault, Live
<1>3. CASE u.driver[v] # None /\ u.driver[v] # Freed
  <2>1. Driverless(u, v) = WarpOut(u, u.driver[v])
    BY <1>3 DEF Driverless
  <2>2. u.driver[v] \in Player
    BY <1>3 DEF World
  <2>. QED
    BY <2>1, <2>2, WarpOutKeeps
<1>. QED
  BY <1>1, <1>2, <1>3

\* Streaming out of a vehicle changes no pointer but those of its driver.
LEMMA VehicleOutIs ==
  ASSUME NEW u, Sane(u), NEW v \in Vehicle, v \in u.isIn, NEW x, x = StreamOut(u, v)
  PROVE  /\ Sane(x) /\ x.isIn = u.isIn \ {v} /\ (Live(u) => Live(x))
         /\ x.veh = Driverless(u, v).veh /\ x.entering = Driverless(u, v).entering
         /\ x.driver = Driverless(u, v).driver
<1>1. v \notin Player /\ u \in World
  BY StreamerAssumption DEF Sane
<1>2. Keeps(u, Driverless(u, v))
  BY <1>1, DriverlessKeeps
<1>3. x = Unflagged(WithoutCar(Driverless(u, v), v), v)
  BY <1>1 DEF StreamOut, VehicleOut, Unflagged
<1>. QED
  BY <1>2, <1>3, CarOut

\* Streaming out of one entity.
LEMMA StreamOutKeeps ==
  ASSUME NEW u, Sane(u), NEW e \in Entity, NEW x, x = StreamOut(u, e)
  PROVE  Sane(x) /\ x.isIn = u.isIn \ {e} /\ (Live(u) => Live(x))
<1>1. CASE e \notin u.isIn
  BY <1>1 DEF StreamOut
<1>2. CASE e \in u.isIn /\ e \in Player
  BY <1>2, PlayerOutKeeps
<1>3. CASE e \in u.isIn /\ e \in Vehicle
  BY <1>3, VehicleOutIs
<1>. QED
  BY <1>1, <1>2, <1>3 DEF Entity

\* Streaming out of a list of entities.
LEMMA OutAllKeeps ==
  ASSUME NEW u, Sane(u), NEW s \in Seq(Entity), NEW x, x = FoldLeft(StreamOut, u, s)
  PROVE  Sane(x) /\ x.isIn = u.isIn \ ToSet(s) /\ (Live(u) => Live(x))
<1>1. PICK g : Rounds(g, <<"out">>, u, s) /\ x = g[Len(s)]
  BY OutOneByOne
<1>2. DOMAIN s = 1 .. Len(s) /\ Len(s) \in Nat /\ \A i \in 1 .. Len(s) : s[i] \in Entity
  OBVIOUS
<1>3. g[0] = u /\ \A i \in 1 .. Len(s) : g[i] = StreamOut(g[i - 1], s[i])
  BY <1>1 DEF Rounds, Step
<1> DEFINE First(i) == {s[k] : k \in 1 .. i}
           T == {i \in 0 .. Len(s) : /\ Sane(g[i]) /\ g[i].isIn = u.isIn \ First(i)
                                     /\ Live(u) => Live(g[i])}
<1>4. 0 \in T
  <2>1. First(0) = {}
    OBVIOUS
  <2>. HIDE DEF First
  <2>. QED
    BY <1>2, <1>3, <2>1
<1>5. ASSUME NEW i \in 0 .. Len(s) - 1, i \in T PROVE i + 1 \in T
  <2>1. i + 1 \in 1 .. Len(s) /\ i + 1 \in 0 .. Len(s) /\ (i + 1) - 1 = i
    BY <1>2
  <2>2. g[i + 1] = StreamOut(g[i], s[i + 1]) /\ s[i + 1] \in Entity
    BY <1>2, <1>3, <2>1
  <2>3. First(i + 1) = First(i) \cup {s[i + 1]}
    <3>1. \A k \in 1 .. i + 1 : k \in 1 .. i \/ k = i + 1
      BY <2>1
    <3>2. i + 1 \in 1 .. i + 1 /\ \A k \in 1 .. i : k \in 1 .. i + 1
      BY <2>1
    <3>. QED
      BY <3>1, <3>2
  <2>. HIDE DEF First
  <2>4. Sane(g[i]) /\ g[i].isIn = u.isIn \ First(i) /\ (Live(u) => Live(g[i]))
    BY <1>5
  <2>5. /\ Sane(g[i + 1]) /\ g[i + 1].isIn = g[i].isIn \ {s[i + 1]}
        /\ Live(g[i]) => Live(g[i + 1])
    BY SMTT(30), <2>2, <2>4, StreamOutKeeps
  <2>. QED
    BY <2>1, <2>3, <2>4, <2>5
<1>6. Len(s) \in T
  <2>. HIDE DEF T
  <2>. QED
    BY <1>2, <1>4, <1>5, Climb
<1>7. First(Len(s)) = ToSet(s)
  BY <1>2 DEF ToSet
<1>. HIDE DEF First
<1>. QED
  BY <1>1, <1>6, <1>7

\* Streaming in of a list of entities, of players while there is room for all.
LEMMA InAllKeeps ==
  ASSUME NEW u, Sane(u), NEW M \in SUBSET Player, IsFiniteSet(M), Cardinality(M) <= PlayerLimit,
         u.isIn \cap Player \subseteq M, NEW s \in Seq(M \cup Vehicle),
         NEW x, x = FoldLeft(StreamIn, u, s)
  PROVE  Sane(x) /\ x.isIn = u.isIn \cup ToSet(s) /\ (Live(u) => Live(x))
<1>1. PICK g : Rounds(g, <<"in">>, u, s) /\ x = g[Len(s)]
  BY InOneByOne
<1>2. DOMAIN s = 1 .. Len(s) /\ Len(s) \in Nat /\ \A i \in 1 .. Len(s) : s[i] \in M \cup Vehicle
  OBVIOUS
<1>3. g[0] = u /\ \A i \in 1 .. Len(s) : g[i] = StreamIn(g[i - 1], s[i])
  BY <1>1 DEF Rounds, Step
<1> DEFINE First(i) == {s[k] : k \in 1 .. i}
           T == {i \in 0 .. Len(s) : /\ Sane(g[i]) /\ g[i].isIn = u.isIn \cup First(i)
                                     /\ g[i].isIn \cap Player \subseteq M
                                     /\ Live(u) => Live(g[i])}
<1>4. 0 \in T
  <2>1. First(0) = {}
    OBVIOUS
  <2>. HIDE DEF First
  <2>. QED
    BY <1>2, <1>3, <2>1
<1>5. ASSUME NEW i \in 0 .. Len(s) - 1, i \in T PROVE i + 1 \in T
  <2>1. i + 1 \in 1 .. Len(s) /\ i + 1 \in 0 .. Len(s) /\ (i + 1) - 1 = i
    BY <1>2
  <2>2. g[i + 1] = StreamIn(g[i], s[i + 1]) /\ s[i + 1] \in M \cup Vehicle
    BY <1>2, <1>3, <2>1
  <2>3. First(i + 1) = First(i) \cup {s[i + 1]}
    <3>1. \A k \in 1 .. i + 1 : k \in 1 .. i \/ k = i + 1
      BY <2>1
    <3>2. i + 1 \in 1 .. i + 1 /\ \A k \in 1 .. i : k \in 1 .. i + 1
      BY <2>1
    <3>. QED
      BY <3>1, <3>2
  <2>. HIDE DEF First
  <2>4. /\ Sane(g[i]) /\ g[i].isIn = u.isIn \cup First(i) /\ g[i].isIn \cap Player \subseteq M
        /\ Live(u) => Live(g[i])
    BY <1>5
  <2>5. /\ Sane(g[i + 1]) /\ g[i + 1].isIn = g[i].isIn \cup {s[i + 1]}
        /\ Live(g[i]) => Live(g[i + 1])
    BY <2>2, <2>4, StreamInKeeps
  <2>6. s[i + 1] \in Player => s[i + 1] \in M
    BY <2>2, StreamerAssumption
  <2>. QED
    BY <2>1, <2>3, <2>4, <2>5, <2>6
<1>6. Len(s) \in T
  <2>. HIDE DEF T
  <2>. QED
    BY <1>2, <1>4, <1>5, Climb
<1>7. First(Len(s)) = ToSet(s)
  BY <1>2 DEF ToSet
<1>. HIDE DEF First
<1>. QED
  BY <1>1, <1>6, <1>7

-----------------------------------------------------------------------------
(* A pass *)

\* chosen are the first n elements of a list, dropped the others from the end.
Splits(s, n, chosen, dropped) ==
  chosen = SubSeq(s, 1, n) /\ dropped = Reverse(SubSeq(s, n + 1, Len(s)))

\* What a list is split into makes up the list.
LEMMA SplitIs ==
  ASSUME NEW E, NEW s \in Seq(E), NEW n \in 0 .. Len(s),
         NEW chosen, NEW dropped, Splits(s, n, chosen, dropped)
  PROVE  /\ chosen \in Seq(E) /\ dropped \in Seq(E) /\ Len(chosen) = n
         /\ ToSet(chosen) \cup ToSet(dropped) = ToSet(s)
         /\ Distinct(s) => Distinct(chosen) /\ ToSet(chosen) \cap ToSet(dropped) = {}
         /\ \A e \in ToSet(chosen) : \E k \in 1 .. n : e = s[k]
         /\ \A e \in ToSet(dropped) : \E k \in n + 1 .. Len(s) : e = s[k]
<1>1. DOMAIN s = 1 .. Len(s) /\ Len(s) \in Nat /\ n \in Nat /\ n <= Len(s)
      /\ \A i \in 1 .. Len(s) : s[i] \in E
  OBVIOUS
<1>2. /\ chosen \in Seq(E) /\ Len(chosen) = n /\ DOMAIN chosen = 1 .. n
      /\ \A k \in 1 .. n : chosen[k] = s[k]
  <2>1. /\ SubSeq(s, 1, n) \in Seq(E) /\ Len(SubSeq(s, 1, n)) = n
        /\ \A k \in 1 .. n : SubSeq(s, 1, n)[k] = s[k]
    BY <1>1, SubSeqProperties
  <2>. QED
    BY <2>1 DEF Splits
<1>3. PICK r : r = SubSeq(s, n + 1, Len(s))
  OBVIOUS
<1>4. /\ r \in Seq(E) /\ Len(r) = Len(s) - n
      /\ \A k \in 1 .. Len(s) - n : r[k] = s[n + k]
  <2>1. PICK m \in Int : m = n + 1
    BY <1>1
  <2>2. \A i \in m .. Len(s) : s[i] \in E
    BY <1>1, <2>1
  <2>3. /\ SubSeq(s, m, Len(s)) \in Seq(E)
        /\ Len(SubSeq(s, m, Len(s))) = IF m <= Len(s) THEN Len(s) - m + 1 ELSE 0
        /\ \A i \in 1 .. Len(s) - m + 1 : SubSeq(s, m, Len(s))[i] = s[m + i - 1]
    BY <1>1, <2>2, SubSeqProperties
  <2>4. Len(s) - m + 1 = Len(s) - n /\ (~(m <= Len(s)) => Len(s) - n = 0)
    <3>1. Len(s) \in Nat /\ n \in Nat /\ n <= Len(s)
      BY <1>1
    <3>. QED
      BY <2>1, <3>1
  <2>5. \A i \in 1 .. Len(s) - n : m + i - 1 = n + i
    BY <1>1, <2>1
  <2>. QED
    BY <1>3, <2>1, <2>3, <2>4, <2>5
<1>5. dropped = [i \in 1 .. Len(r) |-> r[Len(r) - i + 1]]
  BY <1>3 DEF Reverse, Splits
<1>6. \A k \in 1 .. Len(s) - n :
        /\ Len(r) - k + 1 \in 1 .. Len(s) - n /\ Len(s) + 1 - k \in n + 1 .. Len(s)
        /\ n + (Len(r) - k + 1) = Len(s) + 1 - k
  BY <1>1, <1>4
<1>7. \A k \in 1 .. Len(s) - n : dropped[k] = s[Len(s) + 1 - k]
  <2> SUFFICES ASSUME NEW k \in 1 .. Len(s) - n PROVE dropped[k] = s[Len(s) + 1 - k]
    OBVIOUS
  <2>1. dropped[k] = r[Len(r) - k + 1]
    BY <1>4, <1>5
  <2>. QED
    BY <1>4, <1>6, <2>1
<1>8. dropped \in Seq(E) /\ DOMAIN dropped = 1 .. Len(s) - n
  <2>1. Len(r) \in Nat /\ \A k \in 1 .. Len(r) : r[Len(r) - k + 1] \in E
    BY <1>4, <1>6
  <2>. QED
    BY <1>4, <1>5, <2>1
<1>9. \A k \in n + 1 .. Len(s) :
        Len(s) + 1 - k \in 1 .. Len(s) - n /\ Len(s) + 1 - (Len(s) + 1 - k) = k
  BY <1>1
<1>10. \A e \in ToSet(chosen) : \E k \in 1 .. n : e = s[k]
  BY <1>2 DEF ToSet
<1>11. \A e \in ToSet(dropped) : \E k \in n + 1 .. Len(s) : e = s[k]
  <2> SUFFICES ASSUME NEW k \in 1 .. Len(s) - n
               PROVE  \E i \in n + 1 .. Len(s) : dropped[k] = s[i]
    BY <1>8 DEF ToSet
  <2>. QED
    BY <1>6, <1>7
<1>12. \A k \in 1 .. n : s[k] \in ToSet(chosen)
  BY <1>2 DEF ToSet
<1>13. \A k \in n + 1 .. Len(s) : s[k] \in ToSet(dropped)
  BY <1>7, <1>8, <1>9 DEF ToSet
<1>14. \A k \in 1 .. n : k \in 1 .. Len(s) /\ ~(k \in n + 1 .. Len(s))
  BY <1>1
<1>15. \A k \in n + 1 .. Len(s) : k \in 1 .. Len(s)
  BY <1>1
<1>16. \A k \in 1 .. Len(s) : k \in 1 .. n \/ k \in n + 1 .. Len(s)
  BY <1>1
<1>17. ToSet(chosen) \cup ToSet(dropped) = ToSet(s)
  <2>1. \A e \in ToSet(chosen) \cup ToSet(dropped) : e \in ToSet(s)
    BY <1>1, <1>10, <1>11, <1>14, <1>15 DEF ToSet
  <2>2. \A e \in ToSet(s) : e \in ToSet(chosen) \cup ToSet(dropped)
    BY <1>1, <1>12, <1>13, <1>16 DEF ToSet
  <2>. QED
    BY <2>1, <2>2
<1>18. Distinct(s) => Distinct(chosen)
  BY <1>1, <1>2, <1>14 DEF Distinct
<1>19. Distinct(s) => ToSet(chosen) \cap ToSet(dropped) = {}
  BY <1>1, <1>10, <1>11, <1>14, <1>15 DEF Distinct
<1>. QED
  BY <1>2, <1>8, <1>10, <1>11, <1>17, <1>18, <1>19

\* The world u and the list of type t say the same, and the list is not too long.
Listed(u, t, list) ==
  /\ list \in Seq(OfType(t)) /\ Distinct(list) /\ Len(list) <= Limit(t)
  /\ ToSet(list) = u.isIn \cap OfType(t)

\* The players that are streamed in are not too many.
Room(u) == IsFiniteSet(u.isIn \cap Player) /\ Cardinality(u.isIn \cap Player) <= PlayerLimit

\* Players and vehicles are the entities, and none is both.
LEMMA TypesAre ==
  /\ OfType("player") = Player /\ OfType("vehicle") = Vehicle
  /\ Limit("player") = PlayerLimit /\ Limit("vehicle") = VehicleLimit
  /\ \A t \in Types : OfType(t) \subseteq Entity /\ Limit(t) \in Nat
  /\ Entity = OfType("player") \cup OfType("vehicle")
  /\ OfType("player") \cap OfType("vehicle") = {}
BY StreamerAssumption DEF OfType, Limit, Types, Entity

\* The list of players leaves room for those that are streamed in.
LEMMA ListedRoom ==
  ASSUME NEW u, NEW list, Listed(u, "player", list)
  PROVE  Room(u)
BY LengthIs, TypesAre DEF Listed, Room

\* x is u with all of s streamed in.
StreamsIn(u, s, x) == x = FoldLeft(StreamIn, u, s)

\* What stays in a list is what stays streamed in.
LEMMA OnlyListed ==
  ASSUME NEW t \in Types, NEW u, NEW list, Listed(u, t, list), NEW S \in SUBSET Entity,
         NEW x, x.isIn \cap OfType(t) = (u.isIn \cap OfType(t)) \cap S
  PROVE  Listed(x, t, Only(list, S))
<1>1. /\ list \in Seq(OfType(t)) /\ Distinct(list) /\ Len(list) <= Limit(t)
      /\ ToSet(list) = u.isIn \cap OfType(t) /\ Limit(t) \in Nat
  BY TypesAre DEF Listed
<1>2. PICK r : r = Only(list, S)
  OBVIOUS
<1>3. r \in Seq(OfType(t)) /\ Distinct(r) /\ ToSet(r) = ToSet(list) \cap S
  BY <1>1, <1>2, OnlyIs
<1>4. /\ Len(r) = Cardinality(ToSet(r)) /\ Len(list) = Cardinality(ToSet(list))
      /\ IsFiniteSet(ToSet(list)) /\ Len(r) \in Nat /\ Len(list) \in Nat
  BY <1>1, <1>3, LengthIs
<1>5. Cardinality(ToSet(r)) <= Cardinality(ToSet(list))
  <2>1. ToSet(r) \in SUBSET ToSet(list)
    BY <1>3
  <2>. QED
    BY <1>4, <2>1, FS_Subset
<1>6. Len(r) <= Limit(t)
  BY <1>1, <1>4, <1>5
<1>. QED
  BY <1>1, <1>2, <1>3, <1>6 DEF Listed

\* Streaming in of what makes a list that is not too long.
LEMMA ListIn ==
  ASSUME NEW t \in Types, NEW u, Sane(u), Room(u),
         NEW list \in Seq(OfType(t)), Distinct(list), Len(list) <= Limit(t),
         u.isIn \cap OfType(t) \subseteq ToSet(list),
         NEW s \in Seq(OfType(t)), ToSet(s) \subseteq ToSet(list), NEW x, StreamsIn(u, s, x)
  PROVE  Sane(x) /\ x.isIn = u.isIn \cup ToSet(s) /\ (Live(u) => Live(x))
<1>1. IsFiniteSet(ToSet(list)) /\ Cardinality(ToSet(list)) = Len(list)
  BY LengthIs
<1>2. ToSet(list) \subseteq OfType(t) /\ DOMAIN s = 1 .. Len(s)
      /\ \A i \in 1 .. Len(s) : s[i] \in ToSet(s)
  BY DEF ToSet
<1>3. CASE t = "player"
  <2>1. s \in Seq(ToSet(list) \cup Vehicle)
    BY <1>2
  <2>2. ToSet(list) \in SUBSET Player
    BY <1>2, <1>3, TypesAre
  <2>3. u.isIn \cap Player \subseteq ToSet(list) /\ Cardinality(ToSet(list)) <= PlayerLimit
    BY <1>1, <1>3, TypesAre
  <2>. QED
    BY <1>1, <2>1, <2>2, <2>3, InAllKeeps DEF StreamsIn
<1>4. CASE t = "vehicle"
  <2>1. s \in Seq((u.isIn \cap Player) \cup Vehicle)
    BY <1>4, TypesAre
  <2>. QED
    BY <2>1, InAllKeeps DEF Room, StreamsIn
<1>. QED
  BY <1>3, <1>4 DEF Types

\* list holds the nearest of the entities in near, as many as there may be of type t.
Nearest(near, t, list) ==
  /\ ToSet(list) \subseteq near
  /\ Len(list) = IF Cardinality(near) < Limit(t) THEN Cardinality(near) ELSE Limit(t)
  /\ \A e \in ToSet(list), f \in near \ ToSet(list) : at[e] <= at[f]

\* What Admit is given: list is of u, fresh is of others.
Admissible(u, t, list, fresh) ==
  /\ Sane(u) /\ Room(u) /\ Listed(u, t, list)
  /\ fresh \in Seq(OfType(t)) /\ Distinct(fresh) /\ ToSet(list) \cap ToSet(fresh) = {}
  /\ \A e \in ToSet(list) \cup ToSet(fresh) : at[e] \in Nat

\* What comes of it: the list and the world still say the same, no pointer has come to
\* dangle, the other type is left alone, and the nearest are streamed in.
Admitted(u, t, list, fresh, world, admitted) ==
  /\ Sane(world) /\ (Live(u) => Live(world)) /\ Listed(world, t, admitted)
  /\ world.isIn \ OfType(t) = u.isIn \ OfType(t)
  /\ Nearest(ToSet(list) \cup ToSet(fresh), t, admitted)

\* What Admit does when list and fresh are too many.
Squeezes(u, t, list, fresh, chosen, dropped, x) ==
  /\ Len(list) + Len(fresh) > Limit(t)
  /\ Splits(Candidates(list, fresh), Limit(t), chosen, dropped)
  /\ x = FoldLeft(StreamIn, FoldLeft(StreamOut, u, dropped), chosen)

\* The furthest are dropped, and the rest is streamed in.
LEMMA OverflowKeeps ==
  ASSUME NEW t \in Types, NEW u, NEW list, NEW fresh, Admissible(u, t, list, fresh),
         NEW chosen, NEW dropped, NEW x, Squeezes(u, t, list, fresh, chosen, dropped, x)
  PROVE  Admitted(u, t, list, fresh, x, chosen)
<1> DEFINE all == list \o fresh
           near == ToSet(list) \cup ToSet(fresh)
<1>1. list \in Seq(OfType(t)) /\ Distinct(list) /\ ToSet(list) = u.isIn \cap OfType(t)
  BY DEF Listed, Admissible
<1>0. /\ Sane(u) /\ Room(u) /\ fresh \in Seq(OfType(t)) /\ Distinct(fresh)
      /\ ToSet(list) \cap ToSet(fresh) = {} /\ \A e \in near : at[e] \in Nat
  BY DEF Admissible
<1>2. OfType(t) \in SUBSET Entity /\ Limit(t) \in Nat
  BY TypesAre
<1>3. /\ all \in Seq(OfType(t)) /\ Len(all) = Len(list) + Len(fresh)
      /\ ToSet(all) = near /\ Distinct(all)
  BY <1>0, <1>1, ConcatIs
<1>4. PICK sorted : sorted = Candidates(list, fresh)
  OBVIOUS
<1>5. /\ sorted \in Seq(OfType(t)) /\ Len(sorted) = Len(all)
      /\ ToSet(sorted) = near /\ Distinct(sorted)
      /\ \A k, l \in 1 .. Len(all) : k < l => at[sorted[k]] <= at[sorted[l]]
  <2>1. \A i \in DOMAIN all : at[all[i]] \in Nat
    BY <1>0, <1>3 DEF ToSet
  <2>2. sorted = ByDistance(all)
    BY <1>4 DEF Candidates
  <2>. HIDE DEF all
  <2>. QED
    BY <1>2, <1>3, <2>1, <2>2, ByDistanceIs
<1>6. Len(all) \in Nat /\ Limit(t) \in 0 .. Len(sorted) /\ Limit(t) < Len(all)
  BY <1>0, <1>1, <1>2, <1>3, <1>5 DEF Squeezes
<1>. HIDE DEF all
<1>7. /\ chosen \in Seq(OfType(t)) /\ dropped \in Seq(OfType(t)) /\ Len(chosen) = Limit(t)
      /\ ToSet(chosen) \cup ToSet(dropped) = near
      /\ Distinct(chosen) /\ ToSet(chosen) \cap ToSet(dropped) = {}
      /\ \A e \in ToSet(chosen) : \E k \in 1 .. Limit(t) : e = sorted[k]
      /\ \A e \in ToSet(dropped) : \E k \in Limit(t) + 1 .. Len(sorted) : e = sorted[k]
  <2>1. Splits(sorted, Limit(t), chosen, dropped)
    BY <1>4 DEF Squeezes
  <2>2. sorted \in Seq(OfType(t)) /\ Limit(t) \in 0 .. Len(sorted)
    BY <1>5, <1>6
  <2>3. /\ chosen \in Seq(OfType(t)) /\ dropped \in Seq(OfType(t)) /\ Len(chosen) = Limit(t)
        /\ ToSet(chosen) \cup ToSet(dropped) = ToSet(sorted)
        /\ Distinct(sorted) => Distinct(chosen) /\ ToSet(chosen) \cap ToSet(dropped) = {}
        /\ \A e \in ToSet(chosen) : \E k \in 1 .. Limit(t) : e = sorted[k]
        /\ \A e \in ToSet(dropped) : \E k \in Limit(t) + 1 .. Len(sorted) : e = sorted[k]
    BY <2>1, <2>2, SplitIs
  <2>. QED
    BY <1>5, <2>3
<1>8. PICK y : y = FoldLeft(StreamOut, u, dropped)
  OBVIOUS
<1>9. Sane(y) /\ y.isIn = u.isIn \ ToSet(dropped) /\ (Live(u) => Live(y))
  <2>1. dropped \in Seq(Entity)
    BY <1>2, <1>7
  <2>. QED
    BY <1>0, <1>8, <2>1, OutAllKeeps
<1>10. Room(y)
  BY <1>0, <1>9, FS_Subset, FS_CardinalityType, StreamerAssumption DEF Room
<1>11. y.isIn \cap OfType(t) \subseteq ToSet(chosen)
  BY <1>1, <1>7, <1>9
<1>12. Sane(x) /\ x.isIn = y.isIn \cup ToSet(chosen) /\ (Live(y) => Live(x))
  <2>1. StreamsIn(y, chosen, x)
    BY <1>8 DEF Squeezes, StreamsIn
  <2>2. Len(chosen) <= Limit(t)
    BY <1>2, <1>7
  <2>. QED
    BY <1>7, <1>9, <1>10, <1>11, <2>1, <2>2, ListIn
<1>13. ToSet(chosen) \subseteq OfType(t) /\ ToSet(dropped) \subseteq OfType(t)
  BY <1>7 DEF ToSet
<1>14. Listed(x, t, chosen)
  BY <1>2, <1>7, <1>11, <1>12, <1>13 DEF Listed
<1>15. x.isIn \ OfType(t) = u.isIn \ OfType(t)
  BY <1>9, <1>12, <1>13
<1>16. Cardinality(near) = Len(all)
  BY <1>3, LengthIs
<1>17. \A e \in ToSet(chosen), f \in near \ ToSet(chosen) : at[e] <= at[f]
  <2> SUFFICES ASSUME NEW e \in ToSet(chosen), NEW f \in near \ ToSet(chosen) PROVE at[e] <= at[f]
    OBVIOUS
  <2>1. PICK k \in 1 .. Limit(t) : e = sorted[k]
    BY <1>7
  <2>2. PICK l \in Limit(t) + 1 .. Len(sorted) : f = sorted[l]
    BY <1>7
  <2>3. k \in 1 .. Len(all) /\ l \in 1 .. Len(all) /\ k < l
    BY <1>2, <1>5, <1>6
  <2>. QED
    BY <1>5, <2>1, <2>2, <2>3
<1>18. Nearest(near, t, chosen)
  <2>1. ~(Cardinality(near) < Limit(t))
    BY <1>2, <1>6, <1>16
  <2>. QED
    BY <1>7, <1>17, <2>1 DEF Nearest
<1>. QED
  BY <1>9, <1>12, <1>14, <1>15, <1>18 DEF Admitted

\* Whether there is room for all or not.
LEMMA AdmitKeeps ==
  ASSUME NEW t \in Types, NEW u, NEW list, NEW fresh, Admissible(u, t, list, fresh),
         NEW a, a = Admit(u, t, list, fresh)
  PROVE  Admitted(u, t, list, fresh, a.world, a.list)
<1>1. list \in Seq(OfType(t)) /\ Distinct(list) /\ ToSet(list) = u.isIn \cap OfType(t)
      /\ Len(list) <= Limit(t) /\ Sane(u) /\ Room(u) /\ Listed(u, t, list)
      /\ fresh \in Seq(OfType(t)) /\ Distinct(fresh) /\ ToSet(list) \cap ToSet(fresh) = {}
  BY DEF Listed, Admissible
<1>2. OfType(t) \in SUBSET Entity /\ Limit(t) \in Nat
  BY TypesAre
<1>3. Cardinality(ToSet(list)) = Len(list) /\ Len(list) \in Nat /\ Len(fresh) \in Nat
  BY <1>1, LengthIs
<1>4. CASE fresh = <<>>
  <2>1. a.world = u /\ a.list = list
    BY <1>4 DEF Admit
  <2>2. ToSet(fresh) = {}
    BY <1>4 DEF ToSet
  <2>3. Nearest(ToSet(list) \cup ToSet(fresh), t, list)
    BY <1>1, <1>2, <1>3, <2>2 DEF Nearest
  <2>. QED
    BY <1>1, <2>1, <2>3 DEF Admitted
<1>5. CASE fresh # <<>> /\ Len(list) + Len(fresh) <= Limit(t)
  <2>1. ~Overflows(Len(list) + Len(fresh), t)
    BY <1>2, <1>3, <1>5 DEF Overflows
  <2>2. a.world = FoldLeft(StreamIn, u, fresh) /\ a.list = list \o fresh
    BY <1>5, <2>1 DEF Admit
  <2>3. /\ a.list \in Seq(OfType(t)) /\ Len(a.list) = Len(list) + Len(fresh)
        /\ ToSet(a.list) = ToSet(list) \cup ToSet(fresh) /\ Distinct(a.list)
    BY <1>1, <2>2, ConcatIs
  <2>4. /\ Sane(a.world) /\ a.world.isIn = u.isIn \cup ToSet(fresh)
        /\ Live(u) => Live(a.world)
    <3>1. u.isIn \cap OfType(t) \subseteq ToSet(a.list) /\ ToSet(fresh) \subseteq ToSet(a.list)
      BY <1>1, <2>3
    <3>2. Len(a.list) <= Limit(t)
      BY <1>5, <2>3
    <3>3. PICK l : l = a.list
      OBVIOUS
    <3>4. StreamsIn(u, fresh, a.world)
      BY <2>2 DEF StreamsIn
    <3>. QED
      BY <1>1, <2>3, <3>1, <3>2, <3>3, <3>4, ListIn
  <2>5. ToSet(fresh) \subseteq OfType(t)
    BY <1>1 DEF ToSet
  <2>6. Listed(a.world, t, a.list)
    BY <1>1, <1>5, <2>3, <2>4, <2>5 DEF Listed
  <2>7. Cardinality(ToSet(a.list)) = Len(a.list)
    BY <2>3, LengthIs
  <2>8. Nearest(ToSet(list) \cup ToSet(fresh), t, a.list)
    <3>1. Len(a.list) = IF Len(a.list) < Limit(t) THEN Len(a.list) ELSE Limit(t)
      BY <1>2, <1>3, <1>5, <2>3
    <3>. QED
      BY <2>3, <2>7, <3>1 DEF Nearest
  <2>. QED
    BY <2>4, <2>5, <2>6, <2>8 DEF Admitted
<1>6. CASE fresh # <<>> /\ Len(list) + Len(fresh) > Limit(t)
  <2>1. Overflows(Len(list) + Len(fresh), t)
    BY <1>6 DEF Overflows
  <2>2. \E chosen, dropped, x :
          /\ Squeezes(u, t, list, fresh, chosen, dropped, x)
          /\ a.world = x /\ a.list = chosen
    BY <1>6, <2>1 DEF Admit, Squeezes, Splits
  <2>3. PICK chosen, dropped, x : /\ Squeezes(u, t, list, fresh, chosen, dropped, x)
                                /\ a.world = x /\ a.list = chosen
    BY <2>2
  <2>4. Admitted(u, t, list, fresh, x, chosen)
    BY <2>3, OverflowKeeps
  <2>. QED
    BY <2>3, <2>4
<1>. QED
  BY <1>2, <1>3, <1>4, <1>5, <1>6

-----------------------------------------------------------------------------
(* Streamer: the invariant *)

Lists ==
  /\ entities \in Seq(Entity) /\ Distinct(entities)
  /\ streamed \in [Types -> Seq(Entity)]
  /\ permitted \subseteq ToSet(entities)
  /\ at \in [ToSet(entities) -> Distance]
  /\ careless \in BOOLEAN

StreamerInvariant ==
  /\ Lists
  /\ Sane(w) /\ w.isIn \subseteq ToSet(entities)
  /\ \A t \in Types : Listed(w, t, streamed[t])
  /\ careless \/ Live(w)

\* The entities of type t that a pass may stream in.
Near(t) == {e \in OfType(t) \cap ToSet(entities) : InReach(e)}

\* What the loop over all entities leaves of a list, and what it adds.
LEMMA LoopIs ==
  ASSUME StreamerInvariant, NEW S \in SUBSET ToSet(Fresh("player")),
         NEW start, start = [w EXCEPT !.refused = @ \cup S],
         NEW left, left = FoldLeft(StreamOut, start, Only(entities, Leaving))
  PROVE  /\ Sane(left) /\ (Live(w) => Live(left)) /\ left.isIn = w.isIn \ Leaving
         /\ \A t \in Types :
              /\ Listed(left, t, Staying(t))
              /\ Fresh(t) \in Seq(OfType(t)) /\ Distinct(Fresh(t))
              /\ ToSet(Staying(t)) \cap ToSet(Fresh(t)) = {}
              /\ ToSet(Staying(t)) \cup ToSet(Fresh(t)) = Near(t)
<1>1. /\ Sane(w) /\ w.isIn \subseteq ToSet(entities) /\ entities \in Seq(Entity)
      /\ Distinct(entities) /\ permitted \subseteq ToSet(entities)
      /\ \A t \in Types : Listed(w, t, streamed[t])
  BY DEF StreamerInvariant, Lists
<1>2. Leaving \in SUBSET Entity /\ Leaving \subseteq w.isIn
  <2>1. w.isIn \subseteq Entity
    BY <1>1 DEF ToSet
  <2>. QED
    BY <2>1 DEF Leaving
<1>3. PICK out : out = Only(entities, Leaving)
  OBVIOUS
<1>4. out \in Seq(Entity) /\ ToSet(out) = Leaving
  <2>1. out \in Seq(Entity) /\ ToSet(out) = ToSet(entities) \cap Leaving
    BY <1>1, <1>2, <1>3, OnlyIs
  <2>. QED
    BY <1>1, <1>2, <2>1
<1>5. Sane(left) /\ left.isIn = w.isIn \ Leaving /\ (Live(w) => Live(left))
  <2>1. S \subseteq Player /\ S \cap w.isIn = {}
    <3> DEFINE T == {e \in OfType("player") \ w.isIn : InReach(e)}
    <3>1. T \in SUBSET Entity /\ T \subseteq Player /\ T \cap w.isIn = {}
      BY DEF OfType, Entity
    <3>2. Fresh("player") = Only(entities, T)
      BY DEF Fresh
    <3>. HIDE DEF T
    <3>3. PICK fresh : fresh = Only(entities, T)
      OBVIOUS
    <3>4. ToSet(fresh) = ToSet(entities) \cap T
      BY <1>1, <3>1, <3>3, OnlyIs
    <3>5. S \subseteq ToSet(fresh)
      BY <3>2, <3>3
    <3>. QED
      BY <3>1, <3>4, <3>5
  <2>2. w \in World
    BY <1>1 DEF Sane
  <2>3. /\ start \in World /\ start.isIn = w.isIn /\ start.refused = w.refused \cup S
        /\ start.cars = w.cars /\ start.number = w.number /\ start.fault = w.fault
        /\ start.veh = w.veh /\ start.entering = w.entering /\ start.driver = w.driver
    BY <2>1, <2>2 DEF World
  <2>4. start.isIn \ start.refused = w.isIn \ w.refused
    BY <2>1, <2>3
  <2>5. Sane(start)
    BY <1>1, <2>3, <2>4 DEF Sane, Spawned
  <2>6. Live(w) => Live(start)
    BY <2>3 DEF Live
  <2>7. Sane(left) /\ left.isIn = start.isIn \ Leaving /\ (Live(start) => Live(left))
    BY <1>3, <1>4, <2>5, OutAllKeeps
  <2>. QED
    BY <2>3, <2>6, <2>7
<1>6. ASSUME NEW t \in Types
      PROVE  /\ Listed(left, t, Staying(t))
             /\ Fresh(t) \in Seq(OfType(t)) /\ Distinct(Fresh(t))
             /\ ToSet(Staying(t)) \cap ToSet(Fresh(t)) = {}
             /\ ToSet(Staying(t)) \cup ToSet(Fresh(t)) = Near(t)
  <2> DEFINE F == {e \in OfType(t) \ w.isIn : InReach(e)}
             R == Entity \ Leaving
  <2>1. OfType(t) \in SUBSET Entity /\ Limit(t) \in Nat
    BY TypesAre
  <2>2. Listed(w, t, streamed[t]) /\ R \in SUBSET Entity
    BY <1>1
  <2>3. PICK staying : staying = Staying(t)
    OBVIOUS
  <2>4. PICK fresh : fresh = Fresh(t)
    OBVIOUS
  <2>5. Listed(left, t, staying)
    <3>1. left.isIn \cap OfType(t) = (w.isIn \cap OfType(t)) \cap R
      BY <1>5, <2>1
    <3>2. staying = Only(streamed[t], R)
      BY <2>3 DEF Staying
    <3>. HIDE DEF R
    <3>. QED
      BY <2>2, <3>1, <3>2, OnlyListed
  <2>6. ToSet(staying) = (w.isIn \cap OfType(t)) \ Leaving
    BY <1>5, <2>5 DEF Listed
  <2>7. fresh \in Seq(Entity) /\ Distinct(fresh) /\ ToSet(fresh) = ToSet(entities) \cap F
    <3>1. F \in SUBSET Entity
      BY <2>1
    <3>2. fresh = Only(entities, F)
      BY <2>4 DEF Fresh
    <3>. HIDE DEF F
    <3>. QED
      BY <1>1, <3>1, <3>2, OnlyIs
  <2>8. fresh \in Seq(OfType(t))
    <3>1. ToSet(fresh) \subseteq OfType(t)
      BY <2>7
    <3>. QED
      BY <2>7, <3>1 DEF ToSet
  <2>10. ToSet(staying) \cap ToSet(fresh) = {}
    BY <2>6, <2>7
  <2>11. ToSet(staying) \cup ToSet(fresh) = Near(t)
    BY <1>1, <2>6, <2>7 DEF Near, Leaving
  <2>. QED
    BY <2>3, <2>4, <2>5, <2>7, <2>8, <2>10, <2>11
<1>. QED
  BY <1>5, <1>6

\* A pass leaves the nearest streamed in.
LEMMA PassIs ==
  ASSUME StreamerInvariant, Pass
  PROVE  /\ Sane(w') /\ (Live(w) => Live(w'))
         /\ \A t \in Types : Listed(w', t, streamed'[t]) /\ Nearest(Near(t), t, streamed'[t])
<1>0. PICK S \in SUBSET ToSet(Fresh("player")) : PassRefusing(S)
  BY DEF Pass
<1>01. PICK start : start = [w EXCEPT !.refused = @ \cup S]
  OBVIOUS
<1>1. PICK left : left = FoldLeft(StreamOut, start, Only(entities, Leaving))
  OBVIOUS
<1>2. PICK players : players = Admit(left, "player", Staying("player"), Fresh("player"))
  OBVIOUS
<1>3. PICK vehicles :
        vehicles = Admit(players.world, "vehicle", Staying("vehicle"), Fresh("vehicle"))
  OBVIOUS
<1>4. w' = vehicles.world
      /\ streamed' = [t \in Types |-> IF t = "player" THEN players.list ELSE vehicles.list]
  BY <1>0, <1>01, <1>1, <1>2, <1>3 DEF PassRefusing
<1>5. /\ Sane(left) /\ (Live(w) => Live(left))
      /\ \A t \in Types :
           /\ Listed(left, t, Staying(t))
           /\ Fresh(t) \in Seq(OfType(t)) /\ Distinct(Fresh(t))
           /\ ToSet(Staying(t)) \cap ToSet(Fresh(t)) = {}
           /\ ToSet(Staying(t)) \cup ToSet(Fresh(t)) = Near(t)
  BY <1>01, <1>1, LoopIs
<1>6. \A t \in Types : \A e \in Near(t) : at[e] \in Nat
  BY StreamerAssumption DEF StreamerInvariant, Lists, Near
<1>7. "player" \in Types /\ "vehicle" \in Types
  BY DEF Types
<1>8. Admissible(left, "player", Staying("player"), Fresh("player"))
  <2>1. Room(left)
    BY <1>5, <1>7, ListedRoom
  <2>. QED
    BY <1>5, <1>6, <1>7, <2>1 DEF Admissible
<1>9. Admitted(left, "player", Staying("player"), Fresh("player"), players.world, players.list)
  BY <1>2, <1>7, <1>8, AdmitKeeps
<1>10. /\ Sane(players.world) /\ (Live(left) => Live(players.world))
       /\ Listed(players.world, "player", players.list)
       /\ players.world.isIn \ Player = left.isIn \ Player
       /\ Nearest(Near("player"), "player", players.list)
  BY <1>5, <1>7, <1>9, TypesAre DEF Admitted
<1>11. Admissible(players.world, "vehicle", Staying("vehicle"), Fresh("vehicle"))
  <2>1. Room(players.world)
    BY <1>10, ListedRoom
  <2>2. players.world.isIn \cap OfType("vehicle") = left.isIn \cap OfType("vehicle")
    BY <1>10, TypesAre
  <2>3. Listed(players.world, "vehicle", Staying("vehicle"))
    BY <1>5, <1>7, <2>2 DEF Listed
  <2>. QED
    BY <1>5, <1>6, <1>7, <1>10, <2>1, <2>3 DEF Admissible
<1>12. Admitted(players.world, "vehicle", Staying("vehicle"), Fresh("vehicle"),
                vehicles.world, vehicles.list)
  BY <1>3, <1>7, <1>11, AdmitKeeps
<1>13. /\ Sane(w') /\ (Live(players.world) => Live(w'))
       /\ Listed(w', "vehicle", vehicles.list)
       /\ w'.isIn \ Vehicle = players.world.isIn \ Vehicle
       /\ Nearest(Near("vehicle"), "vehicle", vehicles.list)
  BY <1>4, <1>5, <1>7, <1>12, TypesAre DEF Admitted
<1>14. Listed(w', "player", players.list)
  <2>1. w'.isIn \cap OfType("player") = players.world.isIn \cap OfType("player")
    BY <1>13, TypesAre
  <2>. QED
    BY <1>10, <2>1 DEF Listed
<1>15. streamed'["player"] = players.list /\ streamed'["vehicle"] = vehicles.list
  BY <1>4, <1>7
<1>. QED
  BY <1>5, <1>10, <1>13, <1>14, <1>15 DEF Types

\* A pass preserves the invariant.
LEMMA PassKeeps == StreamerInvariant /\ Pass => StreamerInvariant'
<1> SUFFICES ASSUME StreamerInvariant, Pass PROVE StreamerInvariant'
  OBVIOUS
<1>1. UNCHANGED <<entities, permitted, at, careless>>
  BY DEF Pass, PassRefusing
<1>2. /\ Sane(w') /\ (Live(w) => Live(w'))
      /\ \A t \in Types : Listed(w', t, streamed'[t]) /\ Nearest(Near(t), t, streamed'[t])
  BY PassIs
<1>3. w'.isIn \subseteq ToSet(entities)
  <2>1. w'.isIn \subseteq Entity
    BY <1>2 DEF Sane, World
  <2>2. \A t \in Types : w'.isIn \cap OfType(t) \subseteq ToSet(entities)
    BY <1>2 DEF Listed, Nearest, Near
  <2>. QED
    BY <2>1, <2>2, TypesAre DEF Types
<1>4. streamed' \in [Types -> Seq(Entity)]
  <2>1. streamed' = [t \in Types |-> streamed'[t]]
    BY DEF Pass, PassRefusing
  <2>2. \A t \in Types : streamed'[t] \in Seq(Entity)
    BY <1>2, TypesAre DEF Listed
  <2>. QED
    BY <2>1, <2>2
<1>5. Lists'
  BY <1>1, <1>4 DEF StreamerInvariant, Lists, ToSet
<1>. QED
  BY <1>1, <1>2, <1>3, <1>5 DEF StreamerInvariant

-----------------------------------------------------------------------------
(* What happens between passes *)

\* Entities that enter and leave vehicles stay where they are in the lists.
LEMMA ChangeKeeps ==
  ASSUME StreamerInvariant, Keeps(w, w'),
         UNCHANGED <<entities, streamed, permitted, at, careless>>
  PROVE  StreamerInvariant'
<1>1. Sane(w') /\ w'.isIn = w.isIn /\ (Live(w) => Live(w'))
  BY KeepsSane DEF StreamerInvariant, Keeps
<1>2. \A t \in Types : Listed(w', t, streamed'[t])
  BY <1>1 DEF StreamerInvariant, Listed
<1>3. Lists'
  BY DEF StreamerInvariant, Lists
<1>. QED
  BY <1>1, <1>2, <1>3 DEF StreamerInvariant

\* An entry starts.
LEMMA EnterKeeps ==
  ASSUME StreamerInvariant, NEW p \in Player, NEW v \in Vehicle, NEW s \in Seat,
         EnterVehicle(p, v, s)
  PROVE  StreamerInvariant'
<1>1. w \in World
  BY DEF StreamerInvariant, Sane
<1>2. w' = [w EXCEPT !.entering[p] = v, !.entrySeat[p] = s]
      /\ UNCHANGED <<entities, streamed, permitted, at, careless>>
  BY DEF EnterVehicle, Changes
<1>3. Keeps(w, w')
  BY <1>1, <1>2, StreamerAssumption DEF Keeps, World, Live
<1>. QED
  BY <1>2, <1>3, ChangeKeeps

\* An entry is cancelled.
LEMMA CancelKeeps ==
  ASSUME StreamerInvariant, NEW p \in Player, EntryCancelled(p)
  PROVE  StreamerInvariant'
<1>1. w \in World /\ w' = WarpOut(w, p)
      /\ UNCHANGED <<entities, streamed, permitted, at, careless>>
  BY DEF StreamerInvariant, Sane, EntryCancelled, Changes
<1>. QED
  BY <1>1, WarpOutKeeps, ChangeKeeps

\* A dangling pointer is used: no pointer was live before.
LEMMA FaultKeeps ==
  ASSUME NEW u \in World, ~Live(u)
  PROVE  Keeps(u, Fault(u))
BY DEF Keeps, World, Fault

\* An entry is complete.
LEMMA CompleteKeeps ==
  ASSUME StreamerInvariant, NEW p \in Player, EntryComplete(p)
  PROVE  StreamerInvariant'
<1>1. w \in World /\ w.entering[p] # None
      /\ UNCHANGED <<entities, streamed, permitted, at, careless>>
  BY DEF StreamerInvariant, Sane, EntryComplete, Changes
<1>2. Keeps(w, w')
  <2>1. CASE w.entering[p] = Freed
    <3>1. w' = Fault(w) /\ ~Live(w)
      BY <2>1 DEF EntryComplete, Changes, Live
    <3>. QED
      BY <1>1, <3>1, FaultKeeps
  <2>2. CASE w.entering[p] # Freed
    <3> DEFINE d == SetOccupant(w.driver, w.entering[p], w.entrySeat[p], p)
               x == [w EXCEPT !.veh[p] = w.entering[p], !.seat[p] = w.entrySeat[p],
                              !.entering[p] = None, !.driver = d]
    <3>1. w' = x
      BY <2>2 DEF EntryComplete, Changes
    <3>2. w.entering[p] \in Vehicle
      BY <1>1, <2>2 DEF World
    <3>3. /\ d \in [Vehicle -> Player \cup {None, Freed}]
          /\ \A v \in Vehicle : w.driver[v] # Freed => d[v] # Freed
      BY <1>1, <3>2, OccupantIs DEF World
    <3>. HIDE DEF d
    <3>4. /\ x \in World /\ x.isIn = w.isIn /\ x.refused = w.refused
          /\ x.cars = w.cars /\ x.number = w.number
      BY <1>1, <3>2, <3>3 DEF World, Seat
    <3>5. Live(w) => Live(x)
      BY <1>1, <3>2, <3>3, StreamerAssumption DEF World, Live
    <3>. QED
      BY <3>1, <3>4, <3>5 DEF Keeps
  <2>. QED
    BY <2>1, <2>2
<1>. QED
  BY <1>1, <1>2, ChangeKeeps

\* An entry is started again.
LEMMA RestartKeeps ==
  ASSUME StreamerInvariant, NEW p \in Player, EntryRestarted(p)
  PROVE  StreamerInvariant'
<1>1. w \in World /\ w' = Fault(w) /\ w.entering[p] = Freed
      /\ UNCHANGED <<entities, streamed, permitted, at, careless>>
  BY DEF StreamerInvariant, Sane, EntryRestarted, Changes
<1>2. ~Live(w)
  BY <1>1 DEF Live
<1>. QED
  BY <1>1, <1>2, FaultKeeps, ChangeKeeps

\* A player has left a vehicle.
LEMMA LeaveVehicleKeeps ==
  ASSUME StreamerInvariant, NEW p \in Player, LeaveVehicle(p)
  PROVE  StreamerInvariant'
<1>1. w \in World /\ w.veh[p] # None
      /\ UNCHANGED <<entities, streamed, permitted, at, careless>>
  BY DEF StreamerInvariant, Sane, LeaveVehicle, Changes
<1>2. Keeps(w, w')
  <2>1. CASE w.veh[p] = Freed
    <3>1. w' = Fault(w) /\ ~Live(w)
      BY <2>1 DEF LeaveVehicle, Changes, Live
    <3>. QED
      BY <1>1, <3>1, FaultKeeps
  <2>2. CASE w.veh[p] # Freed
    <3> DEFINE d == SetOccupant(w.driver, w.veh[p], w.seat[p], None)
               x == [w EXCEPT !.veh[p] = None, !.seat[p] = 0, !.driver = d]
    <3>1. w' = x
      BY <2>2 DEF LeaveVehicle, Changes
    <3>2. w.veh[p] \in Vehicle
      BY <1>1, <2>2 DEF World
    <3>3. /\ d \in [Vehicle -> Player \cup {None, Freed}]
          /\ \A v \in Vehicle : w.driver[v] # Freed => d[v] # Freed
      BY <1>1, <3>2, OccupantIs DEF World
    <3>. HIDE DEF d
    <3>4. /\ x \in World /\ x.isIn = w.isIn /\ x.refused = w.refused
          /\ x.cars = w.cars /\ x.number = w.number
      BY <1>1, <3>2, <3>3 DEF World, Seat
    <3>5. Live(w) => Live(x)
      BY <1>1, <3>2, <3>3, StreamerAssumption DEF World, Live
    <3>. QED
      BY <3>1, <3>4, <3>5 DEF Keeps
  <2>. QED
    BY <2>1, <2>2
<1>. QED
  BY <1>1, <1>2, ChangeKeeps

\* A ped gets in or out.
LEMMA PedKeeps ==
  ASSUME StreamerInvariant, NEW p \in Player, PedMoves(p)
  PROVE  StreamerInvariant'
<1>1. w \in World /\ UNCHANGED <<entities, streamed, permitted, at, careless>>
  BY DEF StreamerInvariant, Sane, PedMoves, Changes
<1>2. w.cars \subseteq Vehicle
  BY <1>1 DEF World
<1>3. PICK c \in Vehicle \cup {None} : w' = [w EXCEPT !.rides[p] = c]
  BY <1>2 DEF PedMoves, Changes
<1>4. Keeps(w, w')
  BY <1>1, <1>3 DEF Keeps, World, Live
<1>. QED
  BY <1>1, <1>4, ChangeKeeps

\* An entity moves.
LEMMA MoveKeeps ==
  ASSUME StreamerInvariant, NEW e \in Entity, Moves(e)
  PROVE  StreamerInvariant'
<1>1. UNCHANGED <<entities, streamed, permitted, w, careless>>
  BY DEF Moves
<1>2. at' \in [ToSet(entities) -> Distance]
  BY DEF Moves, StreamerInvariant, Lists
<1>3. Lists'
  BY <1>1, <1>2 DEF StreamerInvariant, Lists
<1>. QED
  BY <1>1, <1>3 DEF StreamerInvariant, Listed

\* A player may be streamed in.
LEMMA SpawnPlayerKeeps ==
  ASSUME StreamerInvariant, NEW p \in Player, SpawnPlayer(p)
  PROVE  StreamerInvariant'
<1>1. UNCHANGED <<entities, streamed, at, w, careless>> /\ permitted' = permitted \cup {p}
      /\ p \in ToSet(entities)
  BY DEF SpawnPlayer, Exists
<1>2. Lists'
  BY <1>1 DEF StreamerInvariant, Lists
<1>. QED
  BY <1>1, <1>2 DEF StreamerInvariant, Listed

\* An entity that is created is in no list but that of all.
LEMMA CreateKeeps ==
  ASSUME StreamerInvariant, NEW e \in Entity, Create(e),
         permitted' = permitted \/ permitted' = permitted \cup {e}
  PROVE  StreamerInvariant'
<1>1. /\ entities' = Append(entities, e) /\ e \notin ToSet(entities)
      /\ UNCHANGED <<streamed, w, careless>>
      /\ entities \in Seq(Entity) /\ Distinct(entities) /\ permitted \subseteq ToSet(entities)
      /\ at \in [ToSet(entities) -> Distance]
  BY DEF Create, Exists, StreamerInvariant, Lists
<1>2. /\ entities' \in Seq(Entity) /\ ToSet(entities') = ToSet(entities) \cup {e}
      /\ Distinct(entities')
  BY <1>1, AppendIs
<1>3. PICK d \in Distance : at' = [x \in ToSet(entities') |-> IF x = e THEN d ELSE at[x]]
  BY DEF Create
<1>4. at' \in [ToSet(entities') -> Distance]
  BY <1>1, <1>2, <1>3
<1>5. Lists'
  BY <1>1, <1>2, <1>4 DEF StreamerInvariant, Lists
<1>. QED
  BY <1>1, <1>2, <1>5 DEF StreamerInvariant, Listed

\* ExitVehicle takes pointers away and sets none.
LEMMA WarpOutTakes ==
  ASSUME NEW u \in World, NEW p \in Player
  PROVE  /\ \A q \in Player : /\ WarpOut(u, p).veh[q] \in {u.veh[q], None}
                              /\ WarpOut(u, p).entering[q] \in {u.entering[q], None}
         /\ Spawned(u, p) /\ u.veh[p] \in Vehicle =>
              WarpOut(u, p).veh[p] = None /\ WarpOut(u, p).entering[p] = None
<1>1. CASE ~Spawned(u, p) \/ u.veh[p] = None
  BY <1>1, StreamerAssumption DEF WarpOut
<1>2. CASE Spawned(u, p) /\ u.veh[p] = Freed
  BY <1>2, StreamerAssumption DEF WarpOut, World, Fault
<1>3. CASE Spawned(u, p) /\ u.veh[p] # None /\ u.veh[p] # Freed
  <2> DEFINE d == SetOccupant(u.driver, u.veh[p], u.entrySeat[p], None)
             x == [u EXCEPT !.driver = d, !.veh[p] = None, !.seat[p] = 0,
                            !.entering[p] = None, !.entrySeat[p] = 0, !.rides[p] = None]
  <2>1. WarpOut(u, p) = x
    BY <1>3 DEF WarpOut
  <2>. HIDE DEF d
  <2>2. x.veh = [u.veh EXCEPT ![p] = None] /\ x.entering = [u.entering EXCEPT ![p] = None]
    BY DEF World
  <2>3. u.veh \in [Player -> Vehicle \cup {None, Freed}]
        /\ u.entering \in [Player -> Vehicle \cup {None, Freed}]
    BY DEF World
  <2>. HIDE DEF x
  <2>. QED
    BY <2>1, <2>2, <2>3
<1>. QED
  BY <1>1, <1>2, <1>3

\* No player is in v or on the way to it.
Unused(u, v) == \A p \in Player : u.veh[p] # v /\ u.entering[p] # v

\* Who is taken out of a vehicle that goes is the one who still points at it.
LEMMA OutUnused ==
  ASSUME NEW v \in Vehicle, Sane(w), ~UsedVehicle(v), NEW x, x = StreamOut(w, v)
  PROVE  Unused(x, v)
<1>1. w \in World /\ v # None /\ w.cars = w.isIn \cap Vehicle
  BY StreamerAssumption DEF Sane
<1>2. \A p \in Player : w.veh[p] = v \/ w.entering[p] = v => w.veh[p] = v /\ TakenOut(p, v)
  BY DEF UsedVehicle
<1>3. CASE Unused(w, v)
  <2>1. CASE v \notin w.isIn
    BY <1>3, <2>1 DEF StreamOut
  <2>2. CASE v \in w.isIn
    <3>1. PICK y : y = Driverless(w, v)
      OBVIOUS
    <3>2. x.veh = y.veh /\ x.entering = y.entering
      BY <2>2, <3>1, VehicleOutIs
    <3>3. \A q \in Player : y.veh[q] \in {w.veh[q], None} /\ y.entering[q] \in {w.entering[q], None}
      <4>1. CASE w.driver[v] = None
        <5>1. y = w
          BY <3>1, <4>1, StreamerAssumption DEF Driverless
        <5>. QED
          BY <5>1
      <4>2. CASE w.driver[v] = Freed
        <5>1. y = Fault(w)
          BY <3>1, <4>2, StreamerAssumption DEF Driverless
        <5>. QED
          BY <1>1, <5>1 DEF Fault, World
      <4>3. CASE w.driver[v] # None /\ w.driver[v] # Freed
        <5>1. y = WarpOut(w, w.driver[v]) /\ w.driver[v] \in Player
          BY <1>1, <3>1, <4>3 DEF Driverless, World
        <5>. QED
          BY <1>1, <5>1, WarpOutTakes
      <4>. QED
        BY <4>1, <4>2, <4>3
    <3>. QED
      BY <1>1, <1>3, <3>2, <3>3 DEF Unused
  <2>. QED
    BY <2>1, <2>2
<1>4. CASE ~Unused(w, v)
  <2>1. PICK p \in Player : w.veh[p] = v /\ TakenOut(p, v)
    BY <1>2, <1>4 DEF Unused
  <2>2. w.driver[v] = p /\ Spawned(w, p) /\ v \in w.isIn
    BY <1>1, <2>1 DEF TakenOut
  <2>3. \A q \in Player : q # p => w.veh[q] # v /\ w.entering[q] # v
    BY <1>2, <2>2 DEF TakenOut
  <2>4. Driverless(w, v) = WarpOut(w, p)
    BY <2>2, StreamerAssumption DEF Driverless
  <2>5. PICK y : y = WarpOut(w, p)
    OBVIOUS
  <2>6. x.veh = y.veh /\ x.entering = y.entering
    BY <2>2, <2>4, <2>5, VehicleOutIs
  <2>7. /\ \A q \in Player : y.veh[q] \in {w.veh[q], None} /\ y.entering[q] \in {w.entering[q], None}
        /\ y.veh[p] = None /\ y.entering[p] = None
    BY <1>1, <2>1, <2>2, <2>5, WarpOutTakes
  <2>. QED
    BY <1>1, <2>3, <2>6, <2>7 DEF Unused
<1>. QED
  BY <1>3, <1>4

\* When nothing points at what is deleted, no pointer comes to dangle.
LEMMA DeletedKeeps ==
  ASSUME NEW u, Sane(u), NEW e \in Entity, NEW x, x = Deleted(u, e)
  PROVE  /\ Sane(x) /\ x.isIn = u.isIn
         /\ Live(u) /\ Unused(u, e) /\ (\A v \in Vehicle : u.driver[v] # e) => Live(x)
<1> DEFINE Gone(y) == IF y = e THEN Freed ELSE y
           Pointer(p, y) == IF p = e THEN None ELSE Gone(y)
           Places(f) == [p \in Player |-> IF p = e THEN 0 ELSE f[p]]
           veh == [p \in Player |-> Pointer(p, u.veh[p])]
           entering == [p \in Player |-> Pointer(p, u.entering[p])]
           driver == [v \in Vehicle |-> Pointer(v, u.driver[v])]
           seats == Places(u.seat)
           entrySeat == Places(u.entrySeat)
<1>1. u \in World
  BY DEF Sane
<1>2. x = [u EXCEPT !.veh = veh, !.entering = entering, !.driver = driver,
                    !.seat = seats, !.entrySeat = entrySeat]
  BY <1>1 DEF Deleted, World
<1>3. /\ veh \in [Player -> Vehicle \cup {None, Freed}]
      /\ entering \in [Player -> Vehicle \cup {None, Freed}]
  BY <1>1 DEF World
<1>4. driver \in [Vehicle -> Player \cup {None, Freed}]
  BY <1>1 DEF World
<1>5. seats \in [Player -> Seat] /\ entrySeat \in [Player -> Seat]
  BY <1>1 DEF World, Seat
<1>6. Live(u) /\ Unused(u, e) =>
        \A p \in Player : veh[p] # Freed /\ entering[p] # Freed
  BY StreamerAssumption DEF Live, Unused
<1>7. Live(u) /\ (\A v \in Vehicle : u.driver[v] # e) => \A v \in Vehicle : driver[v] # Freed
  BY StreamerAssumption DEF Live
<1>. HIDE DEF veh, entering, driver, seats, entrySeat
<1>8. /\ x \in World /\ x.isIn = u.isIn /\ x.refused = u.refused
      /\ x.cars = u.cars /\ x.number = u.number
      /\ x.fault = u.fault /\ x.veh = veh /\ x.entering = entering /\ x.driver = driver
  BY <1>1, <1>2, <1>3, <1>4, <1>5 DEF World
<1>9. Sane(x)
  BY <1>8 DEF Sane, Spawned
<1>. QED
  BY <1>6, <1>7, <1>8, <1>9 DEF Live

\* What is deleted goes from every list and from the world.
LEMMA RemoveKeeps ==
  ASSUME StreamerInvariant, NEW e \in Entity, RemoveEntity(e), careless' \in BOOLEAN,
         careless' \/ Live(w')
  PROVE  StreamerInvariant'
<1>1. /\ entities \in Seq(Entity) /\ Distinct(entities)
      /\ streamed \in [Types -> Seq(Entity)] /\ permitted \subseteq ToSet(entities)
      /\ at \in [ToSet(entities) -> Distance]
      /\ Sane(w) /\ w.isIn \subseteq ToSet(entities)
      /\ \A t \in Types : Listed(w, t, streamed[t])
  BY DEF StreamerInvariant, Lists
<1>2. PICK S \in SUBSET Entity : S = Entity \ {e}
  OBVIOUS
<1>3. /\ entities' = Only(entities, S) /\ streamed' = [t \in Types |-> Only(streamed[t], S)]
      /\ permitted' = permitted \ {e} /\ at' = Restrict(at, DOMAIN at \ {e})
      /\ w' = Deleted(StreamOut(w, e), e)
  BY <1>2 DEF RemoveEntity
<1>4. entities' \in Seq(Entity) /\ Distinct(entities')
      /\ ToSet(entities') = ToSet(entities) \ {e}
  <2>1. /\ entities' \in Seq(Entity) /\ Distinct(entities')
        /\ ToSet(entities') = ToSet(entities) \cap S
    BY <1>1, <1>3, OnlyIs
  <2>2. ToSet(entities) \subseteq Entity
    BY <1>1 DEF ToSet
  <2>. QED
    BY <1>2, <2>1, <2>2
<1>5. Sane(w') /\ w'.isIn = w.isIn \ {e}
  <2>1. PICK x : x = StreamOut(w, e)
    OBVIOUS
  <2>2. Sane(x) /\ x.isIn = w.isIn \ {e}
    BY <1>1, <2>1, StreamOutKeeps
  <2>. QED
    BY <1>3, <2>1, <2>2, DeletedKeeps
<1>6. \A t \in Types : Listed(w', t, streamed'[t])
  <2> SUFFICES ASSUME NEW t \in Types PROVE Listed(w', t, streamed'[t])
    OBVIOUS
  <2>1. w'.isIn \cap OfType(t) = (w.isIn \cap OfType(t)) \cap S
    BY <1>2, <1>5, TypesAre
  <2>2. streamed'[t] = Only(streamed[t], S) /\ Listed(w, t, streamed[t])
    BY <1>1, <1>3
  <2>. QED
    BY <2>1, <2>2, OnlyListed
<1>7. streamed' \in [Types -> Seq(Entity)]
  <2>1. \A t \in Types : Only(streamed[t], S) \in Seq(Entity)
    <3> SUFFICES ASSUME NEW t \in Types PROVE Only(streamed[t], S) \in Seq(Entity)
      OBVIOUS
    <3>1. Listed(w, t, streamed[t]) /\ streamed[t] \in Seq(Entity)
      BY <1>1
    <3>2. Distinct(streamed[t])
      BY <3>1 DEF Listed
    <3>. QED
      BY <3>1, <3>2, OnlyIs
  <2>. QED
    BY <1>3, <2>1
<1>8. at' \in [ToSet(entities') -> Distance] /\ permitted' \subseteq ToSet(entities')
  BY <1>1, <1>3, <1>4 DEF Restrict
<1>9. Lists'
  BY <1>4, <1>7, <1>8 DEF Lists, Distinct, ToSet
<1>. QED
  BY <1>1, <1>4, <1>5, <1>6, <1>9 DEF StreamerInvariant

\* A player that drives nothing is deleted without a trace.
LEMMA DeletePlayerKeeps ==
  ASSUME StreamerInvariant, NEW p \in Player, DeletePlayer(p)
  PROVE  StreamerInvariant'
<1>1. /\ RemoveEntity(p) /\ careless' = (careless \/ DrivenBy(p))
      /\ Sane(w) /\ careless \in BOOLEAN /\ (careless \/ Live(w))
      /\ p \in Entity /\ p \notin Vehicle
  BY StreamerAssumption DEF DeletePlayer, StreamerInvariant, Lists, Entity
<1>2. careless' \in BOOLEAN
  BY <1>1, Zenon
<1>3. ASSUME ~careless' PROVE Live(w')
  <2>1. ~careless /\ \A v \in Vehicle : w.driver[v] # p
    BY <1>1, <1>3 DEF DrivenBy
  <2>2. PICK x : x = StreamOut(w, p)
    OBVIOUS
  <2>3. Sane(x) /\ Live(x) /\ x.driver = w.driver
    <3>1. CASE p \in w.isIn
      BY <1>1, <2>1, <2>2, <3>1, PlayerOutKeeps
    <3>2. CASE p \notin w.isIn
      BY <1>1, <2>1, <2>2, <3>2 DEF StreamOut
    <3>. QED
      BY <3>1, <3>2
  <2>4. Unused(x, p)
    BY <1>1, <2>3, StreamerAssumption DEF Sane, World, Unused
  <2>5. w' = Deleted(x, p)
    BY <1>1, <2>2 DEF RemoveEntity
  <2>. QED
    BY <1>1, <2>1, <2>3, <2>4, <2>5, DeletedKeeps
<1>. QED
  BY <1>1, <1>2, <1>3, RemoveKeeps

\* A vehicle that only its driver uses is deleted without a trace.
LEMMA DestroyVehicleKeeps ==
  ASSUME StreamerInvariant, NEW v \in Vehicle, DestroyVehicle(v)
  PROVE  StreamerInvariant'
<1>1. /\ RemoveEntity(v) /\ careless' = (careless \/ UsedVehicle(v))
      /\ Sane(w) /\ careless \in BOOLEAN /\ (careless \/ Live(w))
      /\ v \in Entity /\ v \notin Player
  BY StreamerAssumption DEF DestroyVehicle, StreamerInvariant, Lists, Entity
<1>2. careless' \in BOOLEAN
  BY <1>1, Zenon
<1>3. ASSUME ~careless' PROVE Live(w')
  <2>1. ~careless /\ ~UsedVehicle(v)
    BY <1>1, <1>3
  <2>2. PICK x : x = StreamOut(w, v)
    OBVIOUS
  <2>3. Sane(x) /\ Live(x)
    BY <1>1, <2>1, <2>2, StreamOutKeeps
  <2>4. Unused(x, v)
    BY <1>1, <2>1, <2>2, OutUnused
  <2>5. \A c \in Vehicle : x.driver[c] # v
    BY <1>1, <2>3, StreamerAssumption DEF Sane, World
  <2>6. w' = Deleted(x, v)
    BY <1>1, <2>2 DEF RemoveEntity
  <2>. QED
    BY <1>1, <2>3, <2>4, <2>5, <2>6, DeletedKeeps
<1>. QED
  BY <1>1, <1>2, <1>3, RemoveKeeps

\* No entity exists at first.
LEMMA InitStreamer == Init => StreamerInvariant
<1> SUFFICES ASSUME Init PROVE StreamerInvariant
  OBVIOUS
<1>1. /\ entities = <<>> /\ streamed = [t \in Types |-> <<>>] /\ permitted = {} /\ at = <<>>
      /\ careless = FALSE
      /\ w = [isIn |-> {}, refused |-> {}, number |-> [p \in Player |-> NoNumber], cars |-> {},
              veh |-> [p \in Player |-> None], seat |-> [p \in Player |-> 0],
              entering |-> [p \in Player |-> None], entrySeat |-> [p \in Player |-> 0],
              driver |-> [v \in Vehicle |-> None], rides |-> [p \in Player |-> None],
              fault |-> FALSE]
  BY DEF Init
<1>2. NoNumber \in 1 .. Infos
  BY StreamerAssumption DEF NoNumber
<1>3. Sane(w) /\ Live(w) /\ w.isIn = {}
  BY <1>1, <1>2, StreamerAssumption DEF Sane, Live, World, Spawned, Seat
<1>4. PICK s : s = <<>>
  OBVIOUS
<1>5. s \in Seq(Entity) /\ Len(s) = 0 /\ ToSet(s) = {} /\ Distinct(s) /\ DOMAIN s = {}
      /\ \A t \in Types : s \in Seq(OfType(t))
  BY <1>4 DEF ToSet, Distinct
<1>6. at \in [{} -> Distance]
  <2>1. at = [x \in {} |-> at[x]]
    BY <1>1
  <2>. QED
    BY <2>1
<1>7. Lists
  BY <1>1, <1>4, <1>5, <1>6 DEF Lists
<1>8. \A t \in Types : Listed(w, t, s)
  BY <1>3, <1>5, TypesAre DEF Listed
<1>9. \A t \in Types : streamed[t] = s
  BY <1>1, <1>4
<1>. QED
  BY <1>3, <1>7, <1>8, <1>9 DEF StreamerInvariant

\* Every step preserves the invariant.
LEMMA StreamerStep == StreamerInvariant /\ [Next]_vars => StreamerInvariant'
<1> SUFFICES ASSUME StreamerInvariant, [Next]_vars PROVE StreamerInvariant'
  OBVIOUS
<1>1. CASE Pass
  BY <1>1, PassKeeps
<1>2. ASSUME NEW p \in Player, AddPlayer(p) PROVE StreamerInvariant'
  BY <1>2, CreateKeeps DEF AddPlayer, Entity
<1>3. ASSUME NEW p \in Player, SpawnPlayer(p) PROVE StreamerInvariant'
  BY <1>3, SpawnPlayerKeeps
<1>4. ASSUME NEW p \in Player, DeletePlayer(p) PROVE StreamerInvariant'
  BY <1>4, DeletePlayerKeeps
<1>5. ASSUME NEW p \in Player, EntryCancelled(p) PROVE StreamerInvariant'
  BY <1>5, CancelKeeps
<1>6. ASSUME NEW p \in Player, EntryComplete(p) PROVE StreamerInvariant'
  BY <1>6, CompleteKeeps
<1>7. ASSUME NEW p \in Player, EntryRestarted(p) PROVE StreamerInvariant'
  BY <1>7, RestartKeeps
<1>8. ASSUME NEW p \in Player, LeaveVehicle(p) PROVE StreamerInvariant'
  BY <1>8, LeaveVehicleKeeps
<1>9. ASSUME NEW p \in Player, PedMoves(p) PROVE StreamerInvariant'
  BY <1>9, PedKeeps
<1>10. ASSUME NEW v \in Vehicle, SpawnVehicle(v) PROVE StreamerInvariant'
  BY <1>10, CreateKeeps DEF SpawnVehicle, Entity
<1>11. ASSUME NEW v \in Vehicle, DestroyVehicle(v) PROVE StreamerInvariant'
  BY <1>11, DestroyVehicleKeeps
<1>12. ASSUME NEW p \in Player, NEW v \in Vehicle, NEW s \in Seat, EnterVehicle(p, v, s)
       PROVE  StreamerInvariant'
  BY <1>12, EnterKeeps
<1>13. ASSUME NEW e \in Entity, Moves(e) PROVE StreamerInvariant'
  BY <1>13, MoveKeeps
<1>14. CASE UNCHANGED vars
  BY <1>14 DEF vars, StreamerInvariant, Lists, Listed
<1>. QED
  BY <1>1, <1>2, <1>3, <1>4, <1>5, <1>6, <1>7, <1>8, <1>9, <1>10, <1>11, <1>12, <1>13, <1>14
     DEF Next

\* The invariant holds throughout.
LEMMA AlwaysStreamerInvariant == Spec => []StreamerInvariant
BY InitStreamer, StreamerStep, PTL DEF Spec

\* Whatever comes, goes and moves between two passes and within one, the lists of the
\* streamer, the flags of the entities and the tables of the game say the same
\* (CStreamer::Process, CStreamer::remove, CStreamableEntity).
THEOREM StreamerAlwaysConsistent == Spec => []StreamerConsistent
<1>1. StreamerInvariant => StreamerConsistent
  <2> SUFFICES ASSUME StreamerInvariant PROVE StreamerConsistent
    OBVIOUS
  <2>1. Lists /\ Sane(w) /\ w.isIn \subseteq ToSet(entities)
        /\ \A t \in Types : Listed(w, t, streamed[t])
    BY DEF StreamerInvariant
  <2>2. TypeOK
    BY <2>1 DEF TypeOK, Lists, Sane
  <2>3. StreamedOnce
    <3>1. \A t \in Types : Cardinality(ToSet(streamed[t])) = Len(streamed[t])
      BY <2>1, LengthIs DEF Listed
    <3>. QED
      BY <2>1, <3>1 DEF StreamedOnce, Listed
  <2>4. NumbersSuffice
    BY <2>1 DEF NumbersSuffice, Sane, Listed
  <2>. QED
    BY <2>2, <2>3, <2>4 DEF StreamerConsistent
<1>. QED
  BY <1>1, AlwaysStreamerInvariant, PTL

\* Streaming never makes a pointer between players and vehicles dangle: only the
\* deletion of an object that is still in use does (CClientPlayer::ExitVehicle,
\* CClientVehicle::Destroy).
THEOREM PointersAlwaysLive == Spec => []PointersLive
<1>1. StreamerInvariant => PointersLive
  BY DEF StreamerInvariant, PointersLive, Live
<1>. QED
  BY <1>1, AlwaysStreamerInvariant, PTL

\* After every pass the closest entities in reach are streamed in, as many as the limits
\* allow, in whatever order they came (CStreamer::Process).
THEOREM AlwaysClosestIn == Spec => ClosestIn
<1> DEFINE Closest(t) ==
             LET near == {e \in OfType(t) \cap ToSet(entities) : InReach(e)}
                 list == ToSet(streamed'[t])
             IN /\ list \subseteq near
                /\ Len(streamed'[t]) = IF Cardinality(near) < Limit(t) THEN Cardinality(near)
                                       ELSE Limit(t)
                /\ \A e \in list, f \in near \ list : at[e] <= at[f]
<1>1. StreamerInvariant /\ [Next]_vars => [Pass => \A t \in Types : Closest(t)]_vars
  <2> SUFFICES ASSUME StreamerInvariant, Pass, NEW t \in Types PROVE Closest(t)
    OBVIOUS
  <2>1. Nearest(Near(t), t, streamed'[t])
    BY PassIs
  <2>. QED
    BY <2>1 DEF Nearest, Near
<1>. QED
  BY <1>1, AlwaysStreamerInvariant, PTL DEF Spec, ClosestIn
=============================================================================
