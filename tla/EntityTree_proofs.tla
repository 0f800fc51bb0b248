------------------------- MODULE EntityTree_proofs -------------------------
(***************************************************************************)
(* Theorems about EntityTree: ids, parents and children agree whatever     *)
(* scripts create, move, delete and stop; CEntityIDs implements the pool of*)
(* ids; the stop of a resource leaves nothing that was not moved; what     *)
(* goes wrong under an event was taken away from it by a script or by the  *)
(* stop of a failing start; and an event that does not go wrong calls      *)
(* every handler that was left alone, and none of them twice.              *)
(***************************************************************************)
EXTENDS EntityTree, FiniteSetTheorems, FunctionTheorems, SequenceTheorems,
  WellFoundedInduction, TLAPS

\* The pool holds each id that is not in use, in one place.
FreeOnce ==
  /\ \A k \in DOMAIN free : free[k] \notin Live
  /\ \A i \in Id \ Live : \E k \in DOMAIN free : free[k] = i
  /\ \A k, l \in DOMAIN free : free[k] = free[l] => k = l

\* Entities that exist have been born, scripts create custom ones and timers, and
\* resources are never deleted.
Identified ==
  /\ \A i \in Id : ent[i].type = "none" <=> ent[i].born = 0
  /\ \A i \in Id : ent[i].creator # 0 => ent[i].type \in {"custom", "timer"}
  /\ \A r \in Resources : ent[r].type = "resource"
  /\ moved \subseteq Live

\* What has not been moved is where it was made.
Unmoved ==
  \A i \in Live \ moved :
    /\ ent[i].type = "root" => ent[i].parent = 0
    /\ ent[i].type = "resource" => ent[i].parent \in Id /\ ent[ent[i].parent].type = "root"
    /\ ent[i].type \in {"custom", "timer"} =>
         ent[i].parent = ent[i].creator /\ ent[i].creator \in Resources

\* Between events no handler is expected to be called.
Quiet == stack = <<>> => expected = {}

\* All calls but the last are at their children, and one that is at its handlers is for
\* an entity that exists.  A start is under the handler of the last, if there is a call.
Calls ==
  /\ \A k \in DOMAIN stack :
       /\ k < Len(stack) => stack[k].phase = "children"
       /\ stack[k].phase = "handlers" => stack[k].entity \in Live
  /\ starting # 0 /\ stack # <<>> => Last(stack).phase = "call"

Faults == {"none", "dangling", "recursion", "iterator", "vm", "source"}

\* The inductive invariant.
EntityInvariant ==
  TypeOK /\ TreeConsistent /\ FreeOnce /\ Identified /\ Unmoved /\ Quiet /\ Calls

-----------------------------------------------------------------------------
(* Ids and sequences *)

\* What is used of the constants.
LEMMA IdFacts ==
  /\ 0 \notin Id /\ Id \subseteq 0 .. MaxIds /\ 0 \in 0 .. MaxIds /\ IsFiniteSet(Id)
  /\ Resources \subseteq Id /\ Root \in Id /\ Root \notin Resources
<1>1. MaxIds \in Nat /\ Resources \subseteq Id /\ 1 \in Id
  BY EntityTreeAssumption
<1>2. IsFiniteSet(Id)
  BY <1>1, FS_Interval DEF Id
<1>3. 1 \notin Resources
  <2>1. Cardinality(Resources) \in Nat
    BY <1>1, <1>2, FS_Subset, FS_CardinalityType
  <2> QED BY <2>1, EntityTreeAssumption
<1> QED BY <1>1, <1>2, <1>3 DEF Id, Root

\* The parts of a sequence without its last element, and with another one.
LEMMA SequenceParts ==
  ASSUME NEW S, NEW s \in Seq(S), s # <<>>
  PROVE  /\ Last(s) \in S /\ Front(s) \in Seq(S)
         /\ Len(Front(s)) = Len(s) - 1 /\ Len(s) \in Nat \ {0}
         /\ \A k \in 1 .. Len(s) - 1 : Front(s)[k] = s[k]
         /\ \A x \in S :
              /\ Append(Front(s), x) \in Seq(S) /\ Len(Append(Front(s), x)) = Len(s)
              /\ \A k \in 1 .. Len(s) :
                   Append(Front(s), x)[k] = IF k = Len(s) THEN x ELSE s[k]
<1>1. Len(s) \in Nat \ {0} /\ \A k \in 1 .. Len(s) : s[k] \in S
  OBVIOUS
<1>2. \A k \in 1 .. Len(s) - 1 : s[k] \in S
  BY <1>1
<1>3. 1 \in Int /\ Len(s) - 1 \in Int
  BY <1>1
<1>4. /\ SubSeq(s, 1, Len(s) - 1) \in Seq(S)
      /\ Len(SubSeq(s, 1, Len(s) - 1)) = IF 1 <= Len(s) - 1 THEN Len(s) - 1 - 1 + 1 ELSE 0
      /\ \A k \in 1 .. Len(s) - 1 - 1 + 1 : SubSeq(s, 1, Len(s) - 1)[k] = s[1 + k - 1]
  BY <1>2, <1>3, SubSeqProperties
<1>5. Front(s) \in Seq(S) /\ Len(Front(s)) = Len(s) - 1
  <2>1. Front(s) = SubSeq(s, 1, Len(s) - 1)
    BY DEF Front
  <2>2. \A n \in Nat \ {0} : (IF 1 <= n - 1 THEN n - 1 - 1 + 1 ELSE 0) = n - 1
    OBVIOUS
  <2> QED BY <1>1, <1>4, <2>1, <2>2
<1>6. \A k \in 1 .. Len(s) - 1 : Front(s)[k] = s[k]
  BY <1>1, <1>4 DEF Front
<1>7. Last(s) \in S
  BY <1>1 DEF Last
<1>8. ASSUME NEW x \in S
      PROVE  /\ Append(Front(s), x) \in Seq(S) /\ Len(Append(Front(s), x)) = Len(s)
             /\ \A k \in 1 .. Len(s) : Append(Front(s), x)[k] = IF k = Len(s) THEN x ELSE s[k]
  <2> DEFINE f == Front(s)
  <2>1. f \in Seq(S) /\ Len(f) = Len(s) - 1 /\ \A k \in 1 .. Len(s) - 1 : f[k] = s[k]
    BY <1>5, <1>6
  <2> HIDE DEF f
  <2>2. Append(f, x) \in Seq(S) /\ Len(Append(f, x)) = Len(s)
    BY <1>1, <2>1
  <2>3. \A k \in 1 .. Len(s) : Append(f, x)[k] = IF k = Len(s) THEN x ELSE s[k]
    BY <1>1, <2>1
  <2> QED BY <2>2, <2>3 DEF f
<1> QED BY <1>1, <1>5, <1>6, <1>7, <1>8

\* A sequence with its last element replaced by two.
WithTwo(t, s, x, y, S) ==
  /\ t \in Seq(S) /\ Len(t) = Len(s) + 1
  /\ \A k \in 1 .. Len(s) + 1 :
       t[k] = IF k = Len(s) THEN x ELSE IF k = Len(s) + 1 THEN y ELSE s[k]

\* Front and \o make such a sequence.
LEMMA SequenceAndTwo ==
  ASSUME NEW S, NEW s \in Seq(S), s # <<>>, NEW x \in S, NEW y \in S
  PROVE  WithTwo(Front(s) \o <<x, y>>, s, x, y, S)
<1>0. Len(s) \in Nat \ {0}
  BY SequenceParts
<1> DEFINE f == Front(s)
           g == <<x, y>>
<1>1. f \in Seq(S) /\ Len(f) = Len(s) - 1 /\ \A k \in 1 .. Len(s) - 1 : f[k] = s[k]
  BY SequenceParts
<1>2. g \in Seq(S) /\ Len(g) = 2 /\ g[1] = x /\ g[2] = y
  OBVIOUS
<1> HIDE DEF f, g
<1>3. /\ f \o g \in Seq(S) /\ Len(f \o g) = Len(f) + Len(g)
      /\ \A k \in 1 .. Len(f) + Len(g) : (f \o g)[k] = IF k <= Len(f) THEN f[k]
                                                     ELSE g[k - Len(f)]
  BY <1>1, <1>2, ConcatProperties
<1>4. Len(f \o g) = Len(s) + 1
  BY <1>0, <1>1, <1>2, <1>3
<1>5. ASSUME NEW k \in 1 .. Len(s) + 1
      PROVE  (f \o g)[k] = IF k = Len(s) THEN x ELSE IF k = Len(s) + 1 THEN y ELSE s[k]
  <2>1. k \in 1 .. Len(f) + Len(g)
    BY <1>0, <1>1, <1>2
  <2>2. CASE k = Len(s)
    <3>1. ~(k <= Len(f)) /\ k - Len(f) = 1
      BY <1>0, <1>1, <2>2
    <3> QED BY <1>2, <1>3, <2>1, <2>2, <3>1
  <2>3. CASE k = Len(s) + 1
    <3>1. ~(k <= Len(f)) /\ k - Len(f) = 2 /\ k # Len(s)
      BY <1>0, <1>1, <2>3
    <3> QED BY <1>2, <1>3, <2>1, <2>3, <3>1
  <2>4. CASE k # Len(s) /\ k # Len(s) + 1
    <3>1. k <= Len(f) /\ k \in 1 .. Len(s) - 1
      BY <1>0, <1>1, <2>4
    <3> QED BY <1>1, <1>3, <2>1, <2>4, <3>1
  <2> QED BY <2>2, <2>3, <2>4
<1>6. WithTwo(f \o g, s, x, y, S)
  BY <1>3, <1>4, <1>5 DEF WithTwo
<1> QED BY <1>6 DEF f, g

-----------------------------------------------------------------------------
(* Branches *)

\* A branch holds its entity and is closed, and it is the least set that is.
LEMMA BelowIs ==
  ASSUME TypeOK, NEW e \in Id
  PROVE  /\ e \in Below(e) /\ Below(e) \subseteq Id /\ Closed(Below(e))
         /\ \A S \in SUBSET Id : e \in S /\ Closed(S) => Below(e) \subseteq S
<1>1. e \in Below(e) /\ Below(e) \subseteq Id
  BY DEF Below
<1>2. ASSUME NEW i \in Below(e), NEW c \in ent[i].children
      PROVE  c \in Below(e)
  <2>1. c \in Id
    BY <1>1 DEF TypeOK, Entity
  <2>2. \A S \in SUBSET Id : e \in S /\ Closed(S) => c \in S
    BY <1>2 DEF Below, Closed
  <2> QED BY <2>1, <2>2 DEF Below
<1>3. Closed(Below(e))
  BY <1>2 DEF Closed
<1>4. \A S \in SUBSET Id : e \in S /\ Closed(S) => Below(e) \subseteq S
  BY DEF Below
<1> QED BY <1>1, <1>3, <1>4

\* What is below an entity that exists exists.
LEMMA BelowLive ==
  ASSUME TypeOK, TreeConsistent, NEW e \in Live
  PROVE  Below(e) \subseteq Live
<1>1. Live \subseteq Id
  BY DEF Live
<1>2. ASSUME NEW i \in Live, NEW c \in ent[i].children
      PROVE  c \in Live
  <2>1. c \in Id /\ i \in Id
    BY <1>1 DEF TypeOK, Entity
  <2>2. ent[c].parent = i
    BY <2>1, <1>2 DEF TreeConsistent
  <2>3. ent[c].parent # 0
    BY <2>1, <2>2, IdFacts
  <2> QED BY <2>1, <2>3 DEF TreeConsistent, Live
<1>3. Closed(Live)
  BY <1>2 DEF Closed
<1> QED BY <1>1, <1>3, BelowIs

\* What is below an entity that is not above itself is a branch of its own.
LEMMA BelowWithout ==
  ASSUME TypeOK, NEW r \in Id, ~Cyclic(r)
  PROVE  Closed(Below(r) \ {r})
<1> DEFINE S == {r} \cup UNION {Below(c) : c \in ent[r].children}
<1>1. ent[r].children \subseteq Id
  BY DEF TypeOK, Entity
<1>2. S \subseteq Id
  BY <1>1 DEF Below
<1>3. Closed(S)
  <2> SUFFICES ASSUME NEW i \in S, NEW d \in ent[i].children PROVE d \in S
    BY DEF Closed
  <2>1. CASE i = r
    BY <1>1, <2>1, BelowIs
  <2>2. CASE i # r
    <3>1. PICK c \in ent[r].children : i \in Below(c)
      BY <2>2
    <3>2. d \in Below(c)
      BY <1>1, <3>1, BelowIs DEF Closed
    <3> QED BY <3>2
  <2> QED BY <2>1, <2>2
<1>4. Below(r) \subseteq S
  BY <1>2, <1>3, BelowIs
<1>5. ASSUME NEW i \in Below(r) \ {r}, NEW d \in ent[i].children
      PROVE  d \in Below(r) \ {r}
  <2>1. d \in Below(r)
    BY BelowIs DEF Closed
  <2>2. PICK c \in ent[r].children : i \in Below(c)
    BY <1>4
  <2>3. d \in Below(c)
    BY <1>1, <2>2, BelowIs DEF Closed
  <2>4. d # r
    BY <2>2, <2>3 DEF Cyclic
  <2> QED BY <2>1, <2>4
<1> QED BY <1>5 DEF Closed

-----------------------------------------------------------------------------
(* Ids that are given back *)

\* An order of the ids of a branch has each of them once.
LEMMA OrderIs ==
  ASSUME TypeOK, NEW D \in SUBSET Id, NEW s \in Orders(D)
  PROVE  /\ s \in Seq(D) /\ s \in Seq(Id)
         /\ \A k, l \in DOMAIN s : s[k] = s[l] => k = l
         /\ \A i \in D : \E k \in DOMAIN s : s[k] = i
<1> DEFINE n == Cardinality(D)
<1>1. IsFiniteSet(D) /\ n \in Nat
  BY IdFacts, FS_Subset, FS_CardinalityType
<1>2. s \in [1 .. n -> D] /\ \A i, j \in 1 .. n : i < j => s[i] # s[j]
  BY DEF Orders
<1> HIDE DEF n
<1>3. s \in Seq(D) /\ DOMAIN s = 1 .. n
  BY <1>1, <1>2
<1>4. \A k, l \in 1 .. n : s[k] = s[l] => k = l
  BY <1>1, <1>2
<1>5. s \in Injection(1 .. n, D)
  BY <1>2, <1>4, Fun_IsInj
<1>6. IsFiniteSet(1 .. n) /\ Cardinality(1 .. n) = n
  BY <1>1, FS_Interval
<1>7. s \in Surjection(1 .. n, D)
  BY <1>1, <1>5, <1>6, FS_Injection DEF n
<1>8. \A i \in D : \E k \in 1 .. n : s[k] = i
  BY <1>7 DEF Surjection
<1>9. s \in Seq(Id)
  BY <1>1, <1>2
<1> QED BY <1>3, <1>4, <1>8, <1>9

\* Ids of entities that go are pushed back, each once, and to nowhere else.
LEMMA FreePushed ==
  ASSUME TypeOK, FreeOnce, NEW D \in SUBSET Live, PushIds(D), ent' = Without(D)
  PROVE  free' \in Seq(Id) /\ FreeOnce'
<1>1. PICK s \in Orders(D) : free' = free \o s
  BY DEF PushIds
<1>2. D \in SUBSET Id /\ Live' = Live \ D
  <2>1. \A i \in Id : ent'[i].type = IF i \in D THEN "none" ELSE ent[i].type
    BY DEF Without, NoEntity, TypeOK, Entity
  <2> QED BY <2>1 DEF Live
<1>3. /\ s \in Seq(D) /\ s \in Seq(Id)
      /\ \A k, l \in DOMAIN s : s[k] = s[l] => k = l
      /\ \A i \in D : \E k \in DOMAIN s : s[k] = i
  BY <1>2, OrderIs
<1>4. free \in Seq(Id)
  BY DEF TypeOK
<1> DEFINE n == Len(free)
           m == Len(s)
<1>5. n \in Nat /\ m \in Nat /\ DOMAIN free = 1 .. n /\ DOMAIN s = 1 .. m
  BY <1>3, <1>4
<1>6. /\ free' \in Seq(Id) /\ DOMAIN free' = 1 .. n + m
      /\ \A k \in 1 .. n : free'[k] = free[k]
      /\ \A k \in 1 .. m : free'[n + k] = s[k]
      /\ \A k \in 1 .. n + m : k <= n \/ (k - n \in 1 .. m /\ free'[k] = s[k - n])
  <2>1. /\ free \o s \in Seq(Id) /\ Len(free \o s) = n + m
        /\ \A k \in 1 .. n + m : (free \o s)[k] = IF k <= n THEN free[k] ELSE s[k - n]
    BY <1>3, <1>4, ConcatProperties
  <2> HIDE DEF n, m
  <2> QED BY <1>1, <1>5, <2>1
<1>7. \A k \in 1 .. m : s[k] \in D
  BY <1>3, <1>5
<1> HIDE DEF n, m
<1>8. \A k \in DOMAIN free' : free'[k] \notin Live'
  <2> SUFFICES ASSUME NEW k \in 1 .. n + m PROVE free'[k] \notin Live'
    BY <1>6
  <2>1. CASE k <= n
    <3>1. k \in 1 .. n
      BY <1>5, <2>1
    <3> QED BY <1>2, <1>5, <1>6, <3>1 DEF FreeOnce
  <2>2. CASE ~(k <= n)
    BY <1>2, <1>6, <1>7, <2>2
  <2> QED BY <2>1, <2>2
<1>9. \A i \in Id \ Live' : \E k \in DOMAIN free' : free'[k] = i
  <2> SUFFICES ASSUME NEW i \in Id \ Live' PROVE \E k \in 1 .. n + m : free'[k] = i
    BY <1>6
  <2>1. CASE i \in D
    <3>1. PICK k \in 1 .. m : s[k] = i
      BY <1>3, <1>5, <2>1
    <3>2. n + k \in 1 .. n + m
      BY <1>5
    <3> QED BY <1>6, <3>1, <3>2
  <2>2. CASE i \notin D
    <3>1. PICK k \in 1 .. n : free[k] = i
      BY <1>2, <1>5, <2>2 DEF FreeOnce
    <3>2. k \in 1 .. n + m
      BY <1>5
    <3> QED BY <1>6, <3>1, <3>2
  <2> QED BY <2>1, <2>2
<1>10. \A k, l \in DOMAIN free' : free'[k] = free'[l] => k = l
  <2> SUFFICES ASSUME NEW k \in 1 .. n + m, NEW l \in 1 .. n + m, free'[k] = free'[l]
               PROVE  k = l
    BY <1>6
  <2>a. \A j \in 1 .. n : free[j] \notin D
    BY <1>5 DEF FreeOnce
  <2>1. CASE k <= n /\ l <= n
    <3>1. k \in 1 .. n /\ l \in 1 .. n
      BY <1>5, <2>1
    <3> QED BY <1>5, <1>6, <3>1 DEF FreeOnce
  <2>2. CASE ~(k <= n) /\ ~(l <= n)
    <3>1. k - n \in 1 .. m /\ l - n \in 1 .. m /\ s[k - n] = s[l - n]
      BY <1>6, <2>2
    <3>2. k - n = l - n
      BY <1>3, <1>5, <3>1
    <3> QED BY <1>5, <3>2
  <2>3. CASE k <= n /\ ~(l <= n)
    <3>1. k \in 1 .. n
      BY <1>5, <2>3
    <3>2. free'[k] \notin D
      BY <1>6, <2>a, <3>1
    <3>3. free'[l] \in D
      BY <1>6, <1>7, <2>3
    <3> QED BY <3>2, <3>3
  <2>4. CASE ~(k <= n) /\ l <= n
    <3>1. l \in 1 .. n
      BY <1>5, <2>4
    <3>2. free'[l] \notin D
      BY <1>6, <2>a, <3>1
    <3>3. free'[k] \in D
      BY <1>6, <1>7, <2>4
    <3> QED BY <3>2, <3>3
  <2> QED BY <2>1, <2>2, <2>3, <2>4
<1> QED BY <1>6, <1>8, <1>9, <1>10 DEF FreeOnce

\* Entities that go leave no trace, and the others have no children but their own.
LEMMA WithoutIs ==
  ASSUME TypeOK, NEW D, ent' = Without(D)
  PROVE  /\ \A i \in Id : ent'[i].born \in {ent[i].born, 0}
         /\ \A i \in Id : ent'[i].children \subseteq ent[i].children
         /\ \A i \in Id \cap D : ent'[i].type = "none" /\ ent'[i].creator = 0
         /\ \A i \in Id \ D :
              /\ ent'[i].type = ent[i].type /\ ent'[i].creator = ent[i].creator
              /\ ent'[i].parent = ent[i].parent /\ ent'[i].stamp = ent[i].stamp
              /\ ent'[i].children = ent[i].children \ D
<1>1. /\ NoEntity.type = "none" /\ NoEntity.children = {} /\ NoEntity.born = 0
      /\ NoEntity.creator = 0
  BY DEF NoEntity
<1>2. ASSUME NEW i \in Id
      PROVE  LET e == [ent[i] EXCEPT !.children = @ \ D]
             IN /\ e.children = ent[i].children \ D /\ e.born = ent[i].born
                /\ e.type = ent[i].type /\ e.creator = ent[i].creator
                /\ e.parent = ent[i].parent /\ e.stamp = ent[i].stamp
  BY DEF TypeOK, Entity
<1> QED BY <1>1, <1>2 DEF Without

\* With a branch that holds no resource gone, what is left agrees as before.
LEMMA DestroyFits ==
  ASSUME EntityInvariant, NEW D \in SUBSET Live, Closed(D), D \cap Resources = {}, Destroy(D)
  PROVE  /\ free' \in Seq(Id) /\ ent' \in [Id -> Entity] /\ moved' \subseteq Id
         /\ FreeOnce' /\ Identified' /\ Unmoved'
         /\ Live' = Live \ D
         /\ \A i \in Id \ D : /\ ent'[i].type = ent[i].type /\ ent'[i].parent = ent[i].parent
                              /\ ent'[i].creator = ent[i].creator
         /\ \A c \in Id, p \in Id : c \in ent'[p].children <=> ent'[c].parent = p
         /\ \A i \in Id : ent'[i].type = "none" => ent'[i].parent = 0 /\ ent'[i].children = {}
         /\ \A i \in Live' \ {Root} : ent'[i].parent \in Live'
         /\ Resources \subseteq Live'
<1> USE DEF EntityInvariant
<1>1. D \in SUBSET Id /\ ent \in [Id -> Entity]
  BY DEF Live, TypeOK
<1>2. ent' = Without(D) /\ moved' = moved \ D
  BY DEF Destroy
<1>3. /\ ent' \in [Id -> Entity]
      /\ \A i \in D : /\ ent'[i].type = "none" /\ ent'[i].parent = 0 /\ ent'[i].children = {}
                      /\ ent'[i].born = 0 /\ ent'[i].creator = 0
      /\ \A i \in Id \ D : /\ ent'[i].type = ent[i].type /\ ent'[i].parent = ent[i].parent
                           /\ ent'[i].children = ent[i].children \ D
                           /\ ent'[i].creator = ent[i].creator /\ ent'[i].born = ent[i].born
  <2>1. /\ NoEntity \in Entity /\ NoEntity.type = "none" /\ NoEntity.parent = 0
        /\ NoEntity.children = {} /\ NoEntity.born = 0 /\ NoEntity.creator = 0
    BY IdFacts DEF NoEntity, Entity
  <2>2. ASSUME NEW i \in Id
        PROVE  LET e == [ent[i] EXCEPT !.children = @ \ D]
               IN /\ e \in Entity /\ e.type = ent[i].type /\ e.parent = ent[i].parent
                  /\ e.children = ent[i].children \ D /\ e.creator = ent[i].creator
                  /\ e.born = ent[i].born
    BY <1>1 DEF Entity
  <2> QED BY <1>1, <1>2, <2>1, <2>2 DEF Without
<1>4. Live' = Live \ D
  BY <1>1, <1>3 DEF Live
<1>5. free' \in Seq(Id) /\ FreeOnce'
  BY <1>2, FreePushed DEF Destroy
<1>6. ASSUME NEW c \in Id \ D
      PROVE  ent[c].parent \notin D
  <2>1. \A p \in D : c \notin ent[p].children
    BY DEF Closed
  <2> QED BY <1>1, <2>1 DEF TreeConsistent
<1>7. \A c \in Id, p \in Id : c \in ent'[p].children <=> ent'[c].parent = p
  <2> SUFFICES ASSUME NEW c \in Id, NEW p \in Id
               PROVE  c \in ent'[p].children <=> ent'[c].parent = p
    OBVIOUS
  <2>1. c \in ent[p].children <=> ent[c].parent = p
    BY DEF TreeConsistent
  <2>a. p # 0
    BY IdFacts
  <2>2. CASE p \in D
    <3>1. ent'[p].children = {}
      BY <1>3, <2>2
    <3>2. ent'[c].parent # p
      BY <1>3, <1>6, <2>2, <2>a
    <3> QED BY <3>1, <3>2
  <2>3. CASE p \notin D
    <3>1. ent'[p].children = ent[p].children \ D
      BY <1>3, <2>3
    <3>2. CASE c \in D
      BY <1>3, <2>a, <3>1, <3>2
    <3>3. CASE c \notin D
      BY <1>3, <2>1, <3>1, <3>3
    <3> QED BY <3>2, <3>3
  <2> QED BY <2>2, <2>3
<1>8. \A i \in Id : ent'[i].type = "none" => ent'[i].parent = 0 /\ ent'[i].children = {}
  BY <1>3 DEF TreeConsistent
<1>9. \A i \in Live' \ {Root} : ent'[i].parent \in Live'
  BY <1>3, <1>4, <1>6 DEF TreeConsistent, Live
<1>10. Resources \subseteq Live'
  BY <1>4 DEF TreeConsistent
<1>11. Identified' /\ moved' \subseteq Id
  <2>1. \A i \in Id : ent'[i].type = "none" <=> ent'[i].born = 0
    BY <1>3 DEF Identified
  <2>2. \A r \in Resources : ent'[r].type = "resource"
    BY <1>3, IdFacts DEF Identified
  <2>3. \A i \in Id : ent'[i].creator # 0 => ent'[i].type \in {"custom", "timer"}
    BY <1>3 DEF Identified
  <2> QED BY <1>2, <1>4, <2>1, <2>2, <2>3 DEF Identified, Live
<1>12. Unmoved'
  <2> SUFFICES ASSUME NEW i \in Live' \ moved'
               PROVE  /\ ent'[i].type = "root" => ent'[i].parent = 0
                      /\ ent'[i].type = "resource" =>
                           ent'[i].parent \in Id /\ ent'[ent'[i].parent].type = "root"
                      /\ ent'[i].type \in {"custom", "timer"} =>
                           ent'[i].parent = ent'[i].creator /\ ent'[i].creator \in Resources
    BY DEF Unmoved
  <2>1. i \in Live \ moved /\ i \in Id \ D
    BY <1>2, <1>4 DEF Live
  <2>2. ent[i].parent \notin D
    BY <1>6, <2>1
  <2> QED BY <1>3, <2>1, <2>2 DEF Unmoved
<1> QED BY <1>3, <1>4, <1>5, <1>7, <1>8, <1>9, <1>10, <1>11, <1>12

-----------------------------------------------------------------------------
(* The invariant *)

\* The root and the resources are there at first, and all other ids are in the pool.
LEMMA InitInvariant == Init => EntityInvariant
<1> SUFFICES ASSUME Init PROVE EntityInvariant
  OBVIOUS
<1> DEFINE c == Cardinality(Resources)
<1>1. c \in Nat /\ MaxIds \in Nat /\ Resources = 2 .. c + 1 /\ c + 1 <= MaxIds /\ MaxActs \in Nat
  <2>1. c \in Nat
    BY IdFacts, FS_Subset, FS_CardinalityType
  <2> QED BY <2>1, EntityTreeAssumption DEF Id
<1> HIDE DEF c
<1>2. /\ ent \in [Id -> Entity]
      /\ ent[Root].type = "root" /\ ent[Root].children = Resources /\ ent[Root].parent = 0
      /\ ent[Root].born = 1 /\ ent[Root].creator = 0
      /\ \A r \in Resources : /\ ent[r].type = "resource" /\ ent[r].parent = Root
                              /\ ent[r].children = {} /\ ent[r].born = r
                              /\ ent[r].creator = 0
      /\ \A i \in Id \ (Resources \cup {Root}) : ent[i] = NoEntity
  <2>1. NoEntity \in Entity /\ \A r \in Resources : r \in Nat
    BY <1>1, IdFacts DEF NoEntity, Entity
  <2>2. LET e == [NoEntity EXCEPT !.type = "root", !.children = Resources, !.born = 1]
        IN /\ e \in Entity /\ e.type = "root" /\ e.children = Resources /\ e.parent = 0
           /\ e.born = 1 /\ e.creator = 0
    BY IdFacts DEF NoEntity, Entity
  <2>3. ASSUME NEW r \in Resources
        PROVE  LET e == [NoEntity EXCEPT !.type = "resource", !.parent = Root, !.stamp = r,
                                         !.born = r]
               IN /\ e \in Entity /\ e.type = "resource" /\ e.parent = Root /\ e.children = {}
                  /\ e.born = r /\ e.creator = 0
    BY <2>1, IdFacts DEF NoEntity, Entity
  <2> QED BY <2>1, <2>2, <2>3, IdFacts DEF Init
<1>3. Live = Resources \cup {Root}
  <2>1. Resources \cup {Root} \subseteq Id
    BY IdFacts
  <2>2. \A i \in Resources \cup {Root} : ent[i].type # "none"
    BY <1>2
  <2>3. \A i \in Id \ (Resources \cup {Root}) : ent[i].type = "none"
    BY <1>2 DEF NoEntity
  <2> QED BY <2>1, <2>2, <2>3 DEF Live
<1>4. Live = 1 .. c + 1 /\ Id = 1 .. MaxIds
  BY <1>1, <1>3 DEF Root, Id
<1>5. /\ free = [n \in 1 .. MaxIds - 1 - c |-> MaxIds + 1 - n]
      /\ DOMAIN free = 1 .. MaxIds - 1 - c
  BY DEF Init, InitialFree, c
<1>6. free \in Seq(Id)
  <2>1. \A n \in 1 .. MaxIds - 1 - c : MaxIds + 1 - n \in Id
    BY <1>1, <1>4
  <2>2. MaxIds - 1 - c \in Nat
    BY <1>1
  <2> QED BY <1>5, <2>1, <2>2
<1>7. FreeOnce
  <2>1. \A k \in DOMAIN free : free[k] = MaxIds + 1 - k /\ k \in Int
    BY <1>5
  <2>2. \A k \in DOMAIN free : free[k] \notin Live
    BY <1>1, <1>4, <1>5
  <2>3. ASSUME NEW i \in Id \ Live
        PROVE  \E k \in DOMAIN free : free[k] = i
    <3>1. MaxIds + 1 - i \in DOMAIN free /\ i \in Int
      BY <1>1, <1>4, <1>5
    <3>2. free[MaxIds + 1 - i] = i
      BY <1>1, <1>5, <3>1
    <3> QED BY <3>1, <3>2
  <2>4. \A k, l \in DOMAIN free : free[k] = free[l] => k = l
    BY <1>1, <2>1
  <2> QED BY <2>2, <2>3, <2>4 DEF FreeOnce
<1>8. TypeOK
  <2>1. stack \in Seq(Call) /\ now \in Nat /\ acts \in 0 .. MaxActs
    <3>1. <<>> \in Seq(Call)
      OBVIOUS
    <3>2. stack = <<>> /\ now = c + 1 /\ acts = 0
      BY DEF Init, c
    <3> QED BY <1>1, <3>1, <3>2
  <2>2. /\ listed = {} /\ running \subseteq Resources /\ handlers = {} /\ fault = "none"
        /\ moved = {} /\ expected = {} /\ cut = FALSE /\ starting = 0
    BY DEF Init
  <2>3. since \in [Resources -> Nat]
    BY DEF Init
  <2> QED BY <1>2, <1>6, <2>1, <2>2, <2>3 DEF TypeOK
<1>9. TreeConsistent
  <2>1. ASSUME NEW a \in Id, NEW p \in Id
        PROVE  a \in ent[p].children <=> ent[a].parent = p
    BY <1>2, IdFacts DEF NoEntity
  <2>2. \A i \in Id : ent[i].type = "none" => ent[i].parent = 0 /\ ent[i].children = {}
    BY <1>2 DEF NoEntity
  <2>3. \A i \in Live \ {Root} : ent[i].parent \in Live
    BY <1>2, <1>3
  <2> QED BY <1>3, <2>1, <2>2, <2>3 DEF Init, TreeConsistent
<1>10. Identified
  <2>1. \A i \in Id : ent[i].type = "none" <=> ent[i].born = 0
    BY <1>1, <1>2 DEF NoEntity
  <2>2. \A i \in Id : ent[i].creator = 0
    BY <1>2 DEF NoEntity
  <2> QED BY <1>2, <2>1, <2>2 DEF Init, Identified
<1>11. Unmoved
  <2> SUFFICES ASSUME NEW i \in Resources \cup {Root}
               PROVE  /\ ent[i].type = "root" => ent[i].parent = 0
                      /\ ent[i].type = "resource" =>
                           ent[i].parent \in Id /\ ent[ent[i].parent].type = "root"
                      /\ ent[i].type \in {"custom", "timer"} =>
                           ent[i].parent = ent[i].creator /\ ent[i].creator \in Resources
    BY <1>3 DEF Unmoved
  <2>1. CASE i = Root
    BY <1>2, <2>1
  <2>2. CASE i \in Resources
    BY <1>2, <2>2, IdFacts
  <2> QED BY <2>1, <2>2
<1>12. Quiet /\ Calls
  <2>1. stack = <<>> /\ expected = {}
    BY DEF Init
  <2>2. DOMAIN <<>> = {}
    OBVIOUS
  <2>3. DOMAIN stack = {}
    BY <2>1, <2>2
  <2> QED BY <2>1, <2>3 DEF Quiet, Calls
<1> QED BY <1>7, <1>8, <1>9, <1>10, <1>11, <1>12 DEF EntityInvariant

\* Of a new entity i of type, a child of r: it takes the last id of the pool, which names
\* no other, and the others stay as they are.
Created(i, r, type) ==
  /\ i \in Id /\ free' \in Seq(Id) /\ Len(free') = Len(free) - 1
  /\ Len(free) \in Nat \ {0} /\ i = free[Len(free)]
  /\ \A k \in 1 .. Len(free) - 1 : free'[k] = free[k]
  /\ i \notin Live /\ i # r /\ ent' \in [Id -> Entity]
  /\ ent'[i].type = type /\ ent'[i].parent = r /\ ent'[i].children = {}
  /\ ent'[i].creator = r /\ ent'[i].born = now + 1 /\ ent'[i].stamp = now + 1
  /\ \A j \in Id \ {i} :
       /\ ent'[j].type = ent[j].type /\ ent'[j].parent = ent[j].parent
       /\ ent'[j].creator = ent[j].creator /\ ent'[j].born = ent[j].born
       /\ ent'[j].stamp = ent[j].stamp
       /\ ent'[j].children = IF j = r THEN ent[j].children \cup {i} ELSE ent[j].children

\* A new entity takes the last id of the pool, which names no other.
LEMMA CreatedIs ==
  ASSUME EntityInvariant, NEW r \in Resources, NEW type \in {"custom", "timer"},
         CreateEntity(r, type)
  PROVE  Created(Last(free), r, type)
<1> USE DEF EntityInvariant
<1> DEFINE i == Last(free)
           e == [type |-> type, parent |-> r, children |-> {}, stamp |-> now', creator |-> r,
                 born |-> now']
           f == [ent[r] EXCEPT !.children = @ \cup {i}]
<1>a. /\ r \in running /\ fault = "none" /\ free # <<>> /\ free' = Front(free)
      /\ now' = now + 1
      /\ acts < MaxActs /\ acts' = acts + 1
      /\ ent' = [ent EXCEPT ![i] = e, ![r].children = @ \cup {i}]
      /\ listed' = IF type = "timer" THEN listed \cup {i} ELSE listed
      /\ UNCHANGED <<running, starting, since, handlers, stack, expected, called, cut, fault,
                     moved>>
  BY DEF CreateEntity, Script, Act, PopId, event, resources
<1>b. /\ free \in Seq(Id) /\ ent \in [Id -> Entity] /\ now \in Nat /\ r \in Id /\ r \in Live
      /\ r # 0
  BY IdFacts DEF TypeOK, TreeConsistent
<1>c. /\ i \in Id /\ free' \in Seq(Id) /\ Len(free') = Len(free) - 1 /\ Len(free) \in Nat \ {0}
      /\ \A k \in 1 .. Len(free) - 1 : free'[k] = free[k]
      /\ i = free[Len(free)]
  BY <1>a, <1>b, SequenceParts DEF Last
<1> HIDE DEF i
<1>d. i \notin Live /\ i # r
  BY <1>b, <1>c DEF FreeOnce
<1>e. e \in Entity
  <2>1. now' \in Nat /\ r \in 0 .. MaxIds /\ {} \in SUBSET Id
    BY <1>a, <1>b, IdFacts
  <2>2. type \in {"none", "root", "resource", "custom", "timer"}
    OBVIOUS
  <2> QED BY <2>1, <2>2 DEF Entity
<1>f. /\ f \in Entity /\ f.type = ent[r].type /\ f.parent = ent[r].parent
      /\ f.children = ent[r].children \cup {i} /\ f.creator = ent[r].creator
      /\ f.born = ent[r].born /\ f.stamp = ent[r].stamp
  <2>1. ent[r] \in Entity /\ {i} \in SUBSET Id
    BY <1>b, <1>c
  <2> QED BY <2>1 DEF Entity
<1>g. /\ ent' \in [Id -> Entity] /\ ent'[i] = e /\ ent'[r] = f
      /\ \A j \in Id \ {i, r} : ent'[j] = ent[j]
  <2>1. ent' = [[ent EXCEPT ![i] = e] EXCEPT ![r] = f]
    BY <1>a, <1>b, <1>c, <1>d
  <2> HIDE DEF e, f
  <2> QED BY <1>b, <1>c, <1>d, <1>e, <1>f, <2>1
<1>h. /\ ent'[i].type = type /\ type # "none" /\ ent'[i].parent = r /\ ent'[i].children = {}
      /\ ent'[i].creator = r /\ ent'[i].born = now + 1 /\ ent'[i].stamp = now + 1
  <2>1. /\ e.type = type /\ e.parent = r /\ e.children = {} /\ e.creator = r
        /\ e.born = now + 1 /\ e.stamp = now + 1
    BY <1>a
  <2>2. type # "none"
    OBVIOUS
  <2> QED BY <1>g, <2>1, <2>2
<1> HIDE DEF e, f
<1>i. \A j \in Id \ {i} : /\ ent'[j].type = ent[j].type /\ ent'[j].parent = ent[j].parent
                          /\ ent'[j].creator = ent[j].creator /\ ent'[j].born = ent[j].born
                          /\ ent'[j].stamp = ent[j].stamp
                          /\ ent'[j].children = IF j = r THEN ent[j].children \cup {i}
                                                ELSE ent[j].children
  BY <1>f, <1>g
<1> QED BY <1>c, <1>d, <1>g, <1>h, <1>i DEF Created, i

\* Once it has its id a new entity is a child of its resource, and of no other.
LEMMA CreateInvariant ==
  ASSUME EntityInvariant, NEW r \in Resources, NEW type \in {"custom", "timer"},
         CreateEntity(r, type)
  PROVE  EntityInvariant'
<1> USE DEF EntityInvariant
<1> DEFINE i == Last(free)
<1>a. /\ r \in running /\ fault = "none" /\ free # <<>> /\ free' = Front(free)
      /\ now' = now + 1
      /\ acts < MaxActs /\ acts' = acts + 1
      /\ listed' = IF type = "timer" THEN listed \cup {i} ELSE listed
      /\ UNCHANGED <<running, starting, since, handlers, stack, expected, called, cut, fault,
                     moved>>
  BY DEF CreateEntity, Script, Act, PopId, event, resources
<1>b. /\ free \in Seq(Id) /\ ent \in [Id -> Entity] /\ now \in Nat /\ r \in Id /\ r \in Live
      /\ r # 0
  BY IdFacts DEF TypeOK, TreeConsistent
<1>0. Created(i, r, type)
  BY CreatedIs
<1> HIDE DEF i
<1>c. /\ i \in Id /\ free' \in Seq(Id) /\ Len(free') = Len(free) - 1 /\ Len(free) \in Nat \ {0}
      /\ \A k \in 1 .. Len(free) - 1 : free'[k] = free[k]
      /\ i = free[Len(free)]
  BY <1>0 DEF Created
<1>d. i \notin Live /\ i # r
  BY <1>0 DEF Created
<1>g. ent' \in [Id -> Entity]
  BY <1>0 DEF Created
<1>h. /\ ent'[i].type = type /\ type # "none" /\ ent'[i].parent = r /\ ent'[i].children = {}
      /\ ent'[i].creator = r /\ ent'[i].born = now + 1
  BY <1>0 DEF Created
<1>i. \A j \in Id \ {i} : /\ ent'[j].type = ent[j].type /\ ent'[j].parent = ent[j].parent
                          /\ ent'[j].creator = ent[j].creator /\ ent'[j].born = ent[j].born
                          /\ ent'[j].stamp = ent[j].stamp
                          /\ ent'[j].children = IF j = r THEN ent[j].children \cup {i}
                                                ELSE ent[j].children
  BY <1>0 DEF Created
<1>j. Live' = Live \cup {i}
  <2>1. \A j \in Id : ent'[j].type # "none" <=> (ent[j].type # "none" \/ j = i)
    BY <1>h, <1>i
  <2> QED BY <1>c, <2>1 DEF Live
<1>k. ent[i].parent = 0 /\ ent[i].children = {} /\ ent[i].type = "none"
  BY <1>c, <1>d DEF TreeConsistent, Live
<1>1. TypeOK'
  <2>1. now' \in Nat /\ acts' \in 0 .. MaxActs /\ listed' \subseteq Id
    <3>1. acts' \in 0 .. MaxActs
      BY <1>a, EntityTreeAssumption DEF TypeOK
    <3>2. listed' \subseteq Id
      BY <1>a, <1>c DEF TypeOK, i
    <3> QED BY <1>a, <1>b, <3>1, <3>2
  <2> QED BY <1>a, <1>c, <1>g, <2>1 DEF TypeOK
<1>2. TreeConsistent'
  <2>1. ASSUME NEW c \in Id, NEW p \in Id
        PROVE  c \in ent'[p].children <=> ent'[c].parent = p
    <3>1. CASE c = i
      <4>1. \A q \in Id : i \notin ent[q].children
        BY SMTT(30), <1>c, <1>k, IdFacts DEF TreeConsistent
      <4>2. i \in ent'[p].children <=> p = r
        BY <1>b, <1>d, <1>h, <1>i, <4>1
      <4> QED BY <1>h, <3>1, <4>2
    <3>2. CASE c # i /\ p = i
      <4>1. ent'[c].parent = ent[c].parent /\ ent[c].parent # i
        BY <1>c, <1>i, <1>k, <3>2 DEF TreeConsistent
      <4> QED BY <1>h, <3>2, <4>1
    <3>3. CASE c # i /\ p # i
      <4>1. c \in ent'[p].children <=> c \in ent[p].children
        BY <1>i, <3>3
      <4>2. ent'[c].parent = ent[c].parent
        BY <1>i, <3>3
      <4> QED BY <4>1, <4>2 DEF TreeConsistent
    <3> QED BY <3>1, <3>2, <3>3
  <2>2. \A j \in Id : ent'[j].type = "none" => ent'[j].parent = 0 /\ ent'[j].children = {}
    <3> SUFFICES ASSUME NEW j \in Id, ent'[j].type = "none"
                 PROVE  ent'[j].parent = 0 /\ ent'[j].children = {}
      OBVIOUS
    <3>1. j # i
      BY <1>h
    <3>2. ent[j].type = "none" /\ j # r
      BY <1>b, <1>i, <3>1 DEF Live
    <3>3. ent'[j].parent = ent[j].parent /\ ent'[j].children = ent[j].children
      BY <1>i, <3>1, <3>2
    <3> QED BY <3>2, <3>3 DEF TreeConsistent
  <2>3. \A j \in Live' \ {Root} : ent'[j].parent \in Live'
    <3> SUFFICES ASSUME NEW j \in Live' \ {Root} PROVE ent'[j].parent \in Live'
      OBVIOUS
    <3>1. CASE j = i
      BY <1>b, <1>h, <1>j, <3>1
    <3>2. CASE j # i
      BY <1>i, <1>j, <3>2 DEF TreeConsistent, Live
    <3> QED BY <3>1, <3>2
  <2>4. \A t \in listed' : ent'[t].type = "timer" /\ ent'[t].creator \in running'
    <3> SUFFICES ASSUME NEW t \in listed'
                 PROVE  ent'[t].type = "timer" /\ ent'[t].creator \in running
      BY <1>a
    <3>1. CASE t = i /\ type = "timer"
      BY <1>a, <1>h, <3>1
    <3>2. CASE t \in listed
      <4>1. ent[t].type = "timer" /\ ent[t].creator \in running /\ t \in Id
        BY <3>2 DEF TreeConsistent, TypeOK
      <4>2. t # i
        BY <1>k, <4>1
      <4> QED BY <1>i, <4>1, <4>2
    <3> QED BY <1>a, <3>1, <3>2 DEF i
  <2>5. Resources \subseteq Live' /\ \A h \in handlers' : h.at \in Live'
    BY <1>a, <1>j DEF TreeConsistent
  <2> QED BY <2>1, <2>2, <2>3, <2>4, <2>5 DEF TreeConsistent
<1>3. FreeOnce'
  <2> DEFINE n == Len(free)
  <2>1. n \in Nat \ {0} /\ DOMAIN free = 1 .. n /\ DOMAIN free' = 1 .. n - 1
    BY <1>b, <1>c
  <2>2. \A k \in 1 .. n - 1 : k \in 1 .. n /\ k # n /\ free'[k] = free[k]
    BY <1>c, <2>1
  <2>a. i = free[n]
    BY <1>c
  <2> HIDE DEF n
  <2>3. \A k, l \in 1 .. n : free[k] = free[l] => k = l
    BY <2>1 DEF FreeOnce
  <2>4. \A k \in DOMAIN free' : free'[k] \notin Live'
    <3> SUFFICES ASSUME NEW k \in 1 .. n - 1 PROVE free'[k] \notin Live'
      BY <2>1
    <3>1. free[k] # i
      BY <2>1, <2>2, <2>3, <2>a
    <3>2. free[k] \notin Live
      BY <2>1, <2>2 DEF FreeOnce
    <3> QED BY <1>j, <2>2, <3>1, <3>2
  <2>5. \A j \in Id \ Live' : \E k \in DOMAIN free' : free'[k] = j
    <3> SUFFICES ASSUME NEW j \in Id \ Live' PROVE \E k \in 1 .. n - 1 : free'[k] = j
      BY <2>1
    <3>1. PICK k \in 1 .. n : free[k] = j
      BY <1>j, <2>1 DEF FreeOnce
    <3>2. k # n
      BY <1>j, <2>a, <3>1
    <3>3. k \in 1 .. n - 1
      BY <2>1, <3>2
    <3> QED BY <2>2, <3>1, <3>3
  <2>6. \A k, l \in DOMAIN free' : free'[k] = free'[l] => k = l
    BY <2>1, <2>2, <2>3
  <2> QED BY <2>4, <2>5, <2>6 DEF FreeOnce
<1>4. Identified'
  <2>1. \A j \in Id : ent'[j].type = "none" <=> ent'[j].born = 0
    <3> SUFFICES ASSUME NEW j \in Id PROVE ent'[j].type = "none" <=> ent'[j].born = 0
      OBVIOUS
    <3>1. CASE j = i
      <4>1. ent'[i].born # 0
        BY <1>b, <1>h
      <4> QED BY <1>h, <3>1, <4>1
    <3>2. CASE j # i
      <4>1. ent[j].type = "none" <=> ent[j].born = 0
        BY DEF Identified
      <4> QED BY <1>i, <3>2, <4>1, Zenon
    <3> QED BY <3>1, <3>2
  <2>2. \A s \in Resources : ent'[s].type = "resource"
    <3> SUFFICES ASSUME NEW s \in Resources PROVE ent'[s].type = "resource"
      OBVIOUS
    <3>1. s \in Id \ {i}
      BY <1>d, IdFacts DEF TreeConsistent
    <3> QED BY <1>i, <3>1 DEF Identified
  <2>3. \A j \in Id : ent'[j].creator # 0 => ent'[j].type \in {"custom", "timer"}
    <3> SUFFICES ASSUME NEW j \in Id, ent'[j].creator # 0
                 PROVE  ent'[j].type \in {"custom", "timer"}
      OBVIOUS
    <3>1. CASE j = i
      BY <1>h, <3>1
    <3>2. CASE j # i
      <4>1. ent[j].creator # 0 => ent[j].type \in {"custom", "timer"}
        BY DEF Identified
      <4> QED BY <1>i, <3>2, <4>1, Zenon
    <3> QED BY <3>1, <3>2
  <2> QED BY <1>a, <1>j, <2>1, <2>2, <2>3 DEF Identified
<1>5. Unmoved'
  <2> SUFFICES ASSUME NEW j \in Live' \ moved
               PROVE  /\ ent'[j].type = "root" => ent'[j].parent = 0
                      /\ ent'[j].type = "resource" =>
                           ent'[j].parent \in Id /\ ent'[ent'[j].parent].type = "root"
                      /\ ent'[j].type \in {"custom", "timer"} =>
                           ent'[j].parent = ent'[j].creator /\ ent'[j].creator \in Resources
    BY <1>a DEF Unmoved
  <2>1. CASE j = i
    BY <1>h, <2>1
  <2>2. CASE j # i
    <3>1. j \in Live \ moved /\ j \in Id \ {i}
      BY <1>j, <2>2 DEF Live
    <3>2. /\ ent'[j].type = ent[j].type /\ ent'[j].parent = ent[j].parent
          /\ ent'[j].creator = ent[j].creator
      BY <1>i, <3>1
    <3>3. /\ ent[j].type = "root" => ent[j].parent = 0
          /\ ent[j].type = "resource" => ent[j].parent \in Id /\ ent[ent[j].parent].type = "root"
          /\ ent[j].type \in {"custom", "timer"} =>
               ent[j].parent = ent[j].creator /\ ent[j].creator \in Resources
      BY <3>1 DEF Unmoved
    <3>4. ent[j].type = "resource" => ent[j].parent \in Id \ {i}
      BY <1>k, <3>3
    <3>5. ent[j].type = "resource" => ent'[ent[j].parent].type = "root"
      BY <1>i, <3>3, <3>4
    <3> QED BY <3>2, <3>3, <3>5
  <2> QED BY <2>1, <2>2
<1>6. Quiet' /\ Calls'
  BY <1>a, <1>j DEF Quiet, Calls
<1> QED BY <1>1, <1>2, <1>3, <1>4, <1>5, <1>6

\* A branch goes, with the timers that are in it; resources that run are fewer, if at all.
BranchGoes(D, H) ==
  /\ DestroyBranch(D, H)
  /\ H \subseteq handlers
  /\ listed' \subseteq listed \ D
  /\ running' \subseteq running /\ since' = since
  /\ \A t \in listed' : ent[t].creator \in running'
  /\ starting' = 0 \/ (starting' = starting /\ running' = running)

\* When it holds no resource, what is left agrees as before.
LEMMA DestroyBranchInvariant ==
  ASSUME EntityInvariant, NEW D \in SUBSET Live, Closed(D), D \cap Resources = {}, NEW H,
         stack # <<>> => Last(stack).phase = "call", acts' \in 0 .. MaxActs,
         BranchGoes(D, H)
  PROVE  EntityInvariant'
<1> USE DEF EntityInvariant
<1>1. D \subseteq Live /\ Closed(D) /\ Live \subseteq Id
  BY DEF Live
<1>2. /\ Destroy(D) /\ listed' \subseteq listed \ D
      /\ handlers' = {h \in H : h.at \notin D} /\ H \subseteq handlers
      /\ stack' = [k \in DOMAIN stack |->
           IF stack[k].entity \in D THEN [stack[k] EXCEPT !.entity = 0] ELSE stack[k]]
      /\ expected' = {h \in expected \cap H : h.at \notin D}
      /\ cut' \in BOOLEAN
      /\ UNCHANGED <<since, now, called, fault>>
      /\ running' \subseteq running
      /\ \A t \in listed' : ent[t].creator \in running'
      /\ starting' = 0 \/ (starting' = starting /\ running' = running)
  BY DEF BranchGoes, DestroyBranch, TypeOK
<1>3. /\ free' \in Seq(Id) /\ ent' \in [Id -> Entity] /\ moved' \subseteq Id
      /\ FreeOnce' /\ Identified' /\ Unmoved'
      /\ Live' = Live \ D
      /\ \A i \in Id \ D : ent'[i].type = ent[i].type /\ ent'[i].creator = ent[i].creator
      /\ \A c \in Id, p \in Id : c \in ent'[p].children <=> ent'[c].parent = p
      /\ \A i \in Id : ent'[i].type = "none" => ent'[i].parent = 0 /\ ent'[i].children = {}
      /\ \A i \in Live' \ {Root} : ent'[i].parent \in Live'
      /\ Resources \subseteq Live'
  BY <1>1, <1>2, DestroyFits
<1>4. stack' \in Seq(Call)
  <2>1. \A k \in DOMAIN stack : stack[k] \in Call
    BY DEF TypeOK
  <2>2. \A c \in Call : [c EXCEPT !.entity = 0] \in Call
    BY IdFacts DEF Call
  <2>3. DOMAIN stack = 1 .. Len(stack) /\ Len(stack) \in Nat
    BY DEF TypeOK
  <2> QED BY <1>2, <2>1, <2>2, <2>3
<1>5. /\ listed' \subseteq Id /\ handlers' \subseteq Handler /\ expected' \subseteq handlers'
      /\ running' \subseteq Resources /\ starting' \in {0} \cup running'
  BY <1>2 DEF TypeOK
<1>6. TypeOK'
  BY <1>2, <1>3, <1>4, <1>5 DEF TypeOK
<1>7. \A t \in listed' : ent'[t].type = "timer" /\ ent'[t].creator \in running'
  BY <1>2, <1>3 DEF TypeOK, TreeConsistent
<1>8. \A h \in handlers' : h.at \in Live'
  BY <1>2, <1>3 DEF TreeConsistent
<1>9. TreeConsistent'
  BY <1>3, <1>7, <1>8 DEF TreeConsistent
<1>a. stack \in Seq(Call) /\ DOMAIN stack = 1 .. Len(stack) /\ Len(stack) \in Nat
  BY DEF TypeOK
<1>b. DOMAIN stack' = DOMAIN stack /\ Len(stack') = Len(stack)
  BY <1>2, <1>4, <1>a
<1>c. stack' = <<>> <=> stack = <<>>
  BY <1>4, <1>a, <1>b
<1>10. Quiet'
  BY <1>2, <1>c DEF Quiet
<1>11. Calls'
  <2>3. \A k \in DOMAIN stack : stack[k].phase # "handlers"
    BY <1>a DEF Calls, Last
  <2>4. \A c \in Call : [c EXCEPT !.entity = 0].phase = c.phase
    BY DEF Call
  <2>5. \A k \in DOMAIN stack : stack'[k].phase = stack[k].phase
    BY <1>2, <1>a, <2>4
  <2>6. stack' # <<>> => Last(stack').phase = "call"
    <3> SUFFICES ASSUME stack # <<>> PROVE stack'[Len(stack)].phase = "call"
      BY <1>b, <1>c DEF Last
    <3>1. Len(stack) \in DOMAIN stack
      BY <1>a
    <3> QED BY <2>5, <3>1 DEF Last
  <2> QED BY <1>b, <2>3, <2>5, <2>6 DEF Calls
<1> QED BY <1>3, <1>6, <1>9, <1>10, <1>11

\* An act that fails changes nothing but that.
LEMMA FailsInvariant ==
  ASSUME EntityInvariant, NEW f \in {"dangling", "recursion"}, Fails(f),
         acts' \in 0 .. MaxActs
  PROVE  EntityInvariant'
<1> USE DEF EntityInvariant
<1>1. /\ fault' = f
      /\ UNCHANGED <<free, ent, listed, running, starting, since, handlers, now, stack, expected,
                     called, cut, moved>>
  BY DEF Fails, tree, event, resources
<1>2. Live' = Live
  BY <1>1 DEF Live
<1>3. f \in Faults
  BY DEF Faults
<1>4. TypeOK'
  BY <1>1, <1>3 DEF TypeOK, Faults
<1>5. TreeConsistent' /\ FreeOnce' /\ Identified' /\ Unmoved' /\ Quiet' /\ Calls'
  BY <1>1, <1>2 DEF TreeConsistent, FreeOnce, Identified, Unmoved, Quiet, Calls
<1> QED BY <1>4, <1>5

\* deleteEntity and killTimer, with everything below.
LEMMA DeleteInvariant ==
  ASSUME EntityInvariant, NEW r \in Resources, NEW e \in Id,
         DeleteEntity(r, e) \/ KillTimer(r, e)
  PROVE  EntityInvariant'
<1>1. (stack # <<>> => Last(stack).phase = "call") /\ acts' \in 0 .. MaxActs
  BY EntityTreeAssumption DEF DeleteEntity, KillTimer, Script, Act, EntityInvariant, TypeOK
<1>2. e \in Live
  <2>1. CASE DeleteEntity(r, e)
    BY <2>1 DEF DeleteEntity, Deletable, Live
  <2>2. CASE KillTimer(r, e)
    BY <2>2 DEF KillTimer, EntityInvariant, TreeConsistent, Live
  <2> QED BY <2>1, <2>2
<1>3. CASE Fails("recursion")
  BY <1>1, <1>3, FailsInvariant
<1>4. CASE Fails("dangling")
  BY <1>1, <1>4, FailsInvariant
<1>5. ASSUME ScriptDeletes(Below(e)), Below(e) \cap Resources = {}
      PROVE  EntityInvariant'
  <2> DEFINE D == Below(e)
  <2>1. D \in SUBSET Live /\ Closed(D)
    BY <1>2, BelowLive, BelowIs DEF EntityInvariant, Live
  <2>2. BranchGoes(D, handlers)
    BY <1>5 DEF BranchGoes, ScriptDeletes, resources, EntityInvariant, TreeConsistent
  <2> QED BY <1>1, <1>5, <2>1, <2>2, DestroyBranchInvariant
<1>6. Below(e) \cap Managed \subseteq {e} /\ e \notin Resources => Below(e) \cap Resources = {}
  BY DEF Managed
<1>7. e \notin Resources
  <2>1. CASE DeleteEntity(r, e)
    BY <2>1 DEF DeleteEntity, Deletable, EntityInvariant, Identified
  <2>2. CASE KillTimer(r, e)
    BY <2>2 DEF KillTimer, EntityInvariant, TreeConsistent, Identified
  <2> QED BY <2>1, <2>2
<1>8. \/ Fails("recursion") \/ Fails("dangling")
      \/ ScriptDeletes(Below(e)) /\ Below(e) \cap Managed \subseteq {e}
  BY DEF DeleteEntity, KillTimer
<1> QED BY <1>3, <1>4, <1>5, <1>6, <1>7, <1>8

\* Of an entity e that gets the parent p: a parent and a stamp, and the children of two
\* entities change.
Reparented(e, p) ==
  /\ ent' \in [Id -> Entity]
  /\ \A i \in Id :
       /\ ent'[i].type = ent[i].type /\ ent'[i].creator = ent[i].creator
       /\ ent'[i].born = ent[i].born
       /\ ent'[i].stamp = IF i = e THEN now' ELSE ent[i].stamp
       /\ ent'[i].parent = IF i = e THEN p ELSE ent[i].parent
       /\ ent'[i].children = IF i = p THEN ent[i].children \cup {e} ELSE ent[i].children \ {e}

\* setEntityParent does no more than that.
LEMMA ReparentedIs ==
  ASSUME EntityInvariant, NEW r \in Resources, NEW e \in Id, NEW p \in Id, SetParent(r, e, p)
  PROVE  Reparented(e, p)
<1> USE DEF EntityInvariant
<1>a. ent' = [i \in Id |-> [ent[i] EXCEPT
         !.parent = IF i = e THEN p ELSE ent[i].parent,
         !.stamp = IF i = e THEN now' ELSE ent[i].stamp,
         !.children = IF i = p THEN ent[i].children \cup {e} ELSE ent[i].children \ {e}]]
  BY DEF SetParent
<1>b. now' \in Nat
  <2>1. now' = now + 1 /\ now \in Nat
    BY DEF SetParent, TypeOK
  <2> QED BY <2>1
<1> DEFINE Q(i) == IF i = e THEN p ELSE ent[i].parent
           S(i) == IF i = e THEN now' ELSE ent[i].stamp
           C(i) == IF i = p THEN ent[i].children \cup {e} ELSE ent[i].children \ {e}
<1>1. \A i \in Id : ent[i] \in Entity
  BY DEF TypeOK
<1>2. \A i \in Id : /\ ent[i].parent \in 0 .. MaxIds /\ ent[i].stamp \in Nat
                    /\ ent[i].children \in SUBSET Id
  BY <1>1 DEF Entity
<1>3. \A i \in Id : Q(i) \in 0 .. MaxIds /\ S(i) \in Nat /\ C(i) \in SUBSET Id
  BY <1>b, <1>2, IdFacts
<1>4. ent' = [i \in Id |-> [ent[i] EXCEPT !.parent = Q(i), !.stamp = S(i), !.children = C(i)]]
  BY <1>a
<1>5. \A i \in Id : Q(i) = IF i = e THEN p ELSE ent[i].parent
  OBVIOUS
<1>6. \A i \in Id : /\ C(i) = IF i = p THEN ent[i].children \cup {e} ELSE ent[i].children \ {e}
                   /\ S(i) = IF i = e THEN now' ELSE ent[i].stamp
  OBVIOUS
<1> HIDE DEF Q, S, C
<1>7. ASSUME NEW i \in Id
      PROVE  /\ ent'[i] \in Entity /\ ent'[i].type = ent[i].type /\ ent'[i].stamp = S(i)
             /\ ent'[i].creator = ent[i].creator /\ ent'[i].born = ent[i].born
             /\ ent'[i].parent = Q(i) /\ ent'[i].children = C(i)
  <2> DEFINE m == ent[i]
             q == Q(i)
             s == S(i)
             T == C(i)
             n == ent'[i]
  <2>1. n = [m EXCEPT !.parent = q, !.stamp = s, !.children = T]
    BY <1>4
  <2>2. m \in Entity /\ q \in 0 .. MaxIds /\ s \in Nat /\ T \in SUBSET Id
    BY <1>1, <1>3
  <2> HIDE DEF m, q, s, T, n
  <2>3. /\ n \in Entity /\ n.type = m.type /\ n.creator = m.creator /\ n.born = m.born
        /\ n.parent = q /\ n.children = T /\ n.stamp = s
    BY <2>1, <2>2 DEF Entity
  <2> QED BY <2>3 DEF m, n, q, s, T
<1>8. ent' \in [Id -> Entity]
  BY <1>4, <1>7
<1> QED BY <1>5, <1>6, <1>7, <1>8 DEF Reparented

\* An entity that is given another parent is a child of that one alone.
LEMMA SetParentInvariant ==
  ASSUME EntityInvariant, NEW r \in Resources, NEW e \in Id, NEW p \in Id, SetParent(r, e, p)
  PROVE  EntityInvariant'
<1>0. Reparented(e, p)
  BY ReparentedIs
<1>d. /\ ent' \in [Id -> Entity]
      /\ \A i \in Id : /\ ent'[i].type = ent[i].type /\ ent'[i].creator = ent[i].creator
                       /\ ent'[i].born = ent[i].born
                       /\ ent'[i].parent = IF i = e THEN p ELSE ent[i].parent
                       /\ ent'[i].children = IF i = p THEN ent[i].children \cup {e}
                                             ELSE ent[i].children \ {e}
  BY <1>0 DEF Reparented
<1> USE DEF EntityInvariant
<1>a. /\ e \in Live /\ p \in Live /\ now' = now + 1 /\ acts < MaxActs /\ acts' = acts + 1
      /\ moved' = moved \cup {e}
      /\ expected' \subseteq expected
      /\ cut' = (cut \/ e \in Passing)
      /\ UNCHANGED <<free, listed, running, starting, since, handlers, stack, called, fault>>
  BY DEF SetParent, Script, Act, resources
<1>b. acts' \in 0 .. MaxActs
  BY <1>a, EntityTreeAssumption DEF TypeOK
<1>c. now' \in Nat
  BY <1>a DEF TypeOK
<1>e. Live' = Live
  <2>1. \A i \in Id : ent'[i].type # "none" <=> ent[i].type # "none"
    BY <1>d
  <2> QED BY <2>1 DEF Live
<1>1. TypeOK'
  <2>1. moved' \subseteq Id /\ expected' \subseteq handlers' /\ cut' \in BOOLEAN
    BY <1>a DEF TypeOK
  <2> QED BY <1>a, <1>b, <1>c, <1>d, <2>1 DEF TypeOK
<1>2. TreeConsistent'
  <2>1. ASSUME NEW c \in Id, NEW q \in Id
        PROVE  c \in ent'[q].children <=> ent'[c].parent = q
    <3>1. c \in ent[q].children <=> ent[c].parent = q
      BY DEF TreeConsistent
    <3>2. CASE c = e
      BY <1>d, <3>2, ZenonT(60)
    <3>3. CASE c # e
      BY <1>d, <3>1, <3>3
    <3> QED BY <3>2, <3>3
  <2>2. ASSUME NEW i \in Id, ent'[i].type = "none"
        PROVE  ent'[i].parent = 0 /\ ent'[i].children = {}
    <3>1. ent[i].type = "none"
      BY <1>d, <2>2
    <3>2. i # e /\ i # p
      BY <1>a, <3>1 DEF Live
    <3>3. ent[i].parent = 0 /\ ent[i].children = {}
      BY <3>1 DEF TreeConsistent
    <3> QED BY <1>d, <3>2, <3>3
  <2>3. \A i \in Live' \ {Root} : ent'[i].parent \in Live'
    BY <1>a, <1>d, <1>e DEF TreeConsistent, Live
  <2>4. \A t \in listed' : ent'[t].type = "timer" /\ ent'[t].creator \in running'
    BY <1>a, <1>d DEF TreeConsistent, TypeOK
  <2>5. Resources \subseteq Live' /\ \A h \in handlers' : h.at \in Live'
    BY <1>a, <1>e DEF TreeConsistent
  <2> QED BY <2>1, <2>2, <2>3, <2>4, <2>5 DEF TreeConsistent
<1>3. FreeOnce'
  BY <1>a, <1>e DEF FreeOnce
<1>4. Identified'
  <2>1. \A i \in Id : ent'[i].type = "none" <=> ent'[i].born = 0
    BY <1>d, ZenonT(60) DEF Identified
  <2>2. \A i \in Id : ent'[i].creator # 0 => ent'[i].type \in {"custom", "timer"}
    BY <1>d, Zenon DEF Identified
  <2>3. \A s \in Resources : ent'[s].type = "resource"
    BY <1>d, IdFacts, Zenon DEF Identified
  <2>4. moved' \subseteq Live'
    BY <1>a, <1>e DEF Identified
  <2> QED BY <2>1, <2>2, <2>3, <2>4 DEF Identified
<1>5. Unmoved'
  <2> SUFFICES ASSUME NEW i \in Live \ moved, i # e
               PROVE  /\ ent'[i].type = "root" => ent'[i].parent = 0
                      /\ ent'[i].type = "resource" =>
                           ent'[i].parent \in Id /\ ent'[ent'[i].parent].type = "root"
                      /\ ent'[i].type \in {"custom", "timer"} =>
                           ent'[i].parent = ent'[i].creator /\ ent'[i].creator \in Resources
    BY <1>a, <1>e DEF Unmoved
  <2>1. i \in Id
    BY DEF Live
  <2>2. /\ ent'[i].type = ent[i].type /\ ent'[i].parent = ent[i].parent
        /\ ent'[i].creator = ent[i].creator
    BY <1>d, <2>1
  <2>3. /\ ent[i].type = "root" => ent[i].parent = 0
        /\ ent[i].type = "resource" => ent[i].parent \in Id /\ ent[ent[i].parent].type = "root"
        /\ ent[i].type \in {"custom", "timer"} =>
             ent[i].parent = ent[i].creator /\ ent[i].creator \in Resources
    BY DEF Unmoved
  <2>4. ent[i].type = "resource" => ent'[ent[i].parent].type = "root"
    BY <1>d, <2>3
  <2> QED BY <2>2, <2>3, <2>4
<1>6. Quiet' /\ Calls'
  BY <1>a, <1>e DEF Quiet, Calls
<1> QED BY <1>1, <1>2, <1>3, <1>4, <1>5, <1>6

\* Handlers are added to entities that exist, and taken away.
LEMMA EventsInvariant ==
  ASSUME EntityInvariant,
         \E r \in Resources :
           \/ \E e \in Id, f \in Functions : AddEvent(r, e, f)
           \/ \E h \in handlers : RemoveEvent(r, h)
  PROVE  EntityInvariant'
<1> USE DEF EntityInvariant
<1>1. PICK r \in Resources : \/ \E e \in Id, f \in Functions : AddEvent(r, e, f)
                             \/ \E h \in handlers : RemoveEvent(r, h)
  OBVIOUS
<1>2. acts < MaxActs /\ acts' = acts + 1
  BY <1>1 DEF AddEvent, RemoveEvent, Script, Act
<1>3. UNCHANGED <<free, ent, listed, running, starting, since, stack, fault, moved>>
  BY <1>1 DEF AddEvent, RemoveEvent, event, resources
<1>4. /\ handlers' \subseteq Handler /\ \A h \in handlers' : h.at \in Live
      /\ now' \in Nat /\ expected' \subseteq handlers' /\ expected' \subseteq expected
      /\ cut' \in BOOLEAN
  <2>1. CASE \E e \in Id, f \in Functions : AddEvent(r, e, f)
    <3>1. PICK e \in Id, f \in Functions : AddEvent(r, e, f)
      BY <2>1
    <3> DEFINE h == [at |-> e, by |-> r, function |-> f, stamp |-> now']
    <3>2. /\ now' = now + 1 /\ e \in Live /\ handlers' = handlers \cup {h}
          /\ expected' = expected /\ cut' = cut
      BY <3>1 DEF AddEvent, event
    <3>3. now' \in Nat
      BY <3>2 DEF TypeOK
    <3>4. h \in Handler /\ h.at \in Live
      BY <3>2, <3>3 DEF Handler
    <3> HIDE DEF h
    <3> QED BY <3>2, <3>3, <3>4 DEF TypeOK, TreeConsistent
  <2>2. CASE \E h \in handlers : RemoveEvent(r, h)
    <3>1. PICK h \in handlers : RemoveEvent(r, h)
      BY <2>2
    <3>2. /\ handlers' = handlers \ {h} /\ expected' = expected \ {h} /\ now' = now
          /\ cut' \in BOOLEAN
      BY <3>1 DEF RemoveEvent, TypeOK
    <3> QED BY <3>2 DEF TypeOK, TreeConsistent
  <2> QED BY <1>1, <2>1, <2>2
<1>5. Live' = Live
  BY <1>3 DEF Live
<1>6. TypeOK'
  <2>1. acts' \in 0 .. MaxActs
    BY <1>2, EntityTreeAssumption DEF TypeOK
  <2> QED BY <1>3, <1>4, <2>1 DEF TypeOK
<1>7. TreeConsistent' /\ FreeOnce' /\ Identified' /\ Unmoved' /\ Quiet' /\ Calls'
  BY <1>3, <1>4, <1>5 DEF TreeConsistent, FreeOnce, Identified, Unmoved, Quiet, Calls
<1> QED BY <1>6, <1>7

\* Resources stop between events, and under the handler that has started them in vain.
LEMMA WhoStops ==
  ASSUME EntityInvariant, \/ \E r \in Resources : StopResource(r)
                          \/ StartFails
  PROVE  /\ \E r \in Resources : Stop(r)
         /\ fault = "none" /\ acts' \in 0 .. MaxActs
         /\ stack # <<>> => Last(stack).phase = "call"
<1> USE DEF EntityInvariant
<1>1. CASE \E r \in Resources : StopResource(r)
  <2>1. acts < MaxActs /\ acts' = acts + 1
    BY <1>1 DEF StopResource, Act
  <2>2. acts' \in 0 .. MaxActs
    BY <2>1, EntityTreeAssumption DEF TypeOK
  <2> QED BY <1>1, <2>2 DEF StopResource, Act
<1>2. CASE StartFails
  BY <1>2 DEF StartFails, TypeOK, Calls
<1> QED BY <1>1, <1>2

\* A resource that stops takes what is below it, and its own timers from the lists.
LEMMA StopGoes ==
  ASSUME EntityInvariant, NEW r \in Resources, Stop(r),
         ~(Fails("recursion") \/ Fails("dangling"))
  PROVE  LET D == Below(r) \ {r}
         IN /\ D \in SUBSET Live /\ Closed(D) /\ D \cap Resources = {}
            /\ BranchGoes(D, RemoveEvents(r)) /\ running' = running \ {r}
<1> USE DEF EntityInvariant
<1> DEFINE D == Below(r) \ {r}
           own == {t \in listed : ent[t].creator = r}
<1>1. /\ ~Cyclic(r) /\ D \cap (Managed \ own) = {} /\ listed' = listed \ own
      /\ DestroyBranch(D, RemoveEvents(r)) /\ running' = running \ {r}
      /\ starting' = 0 /\ since' = since
  BY DEF Stop
<1>2. r \in Id /\ r \in Live /\ D \subseteq Live
  BY IdFacts, BelowLive DEF TreeConsistent
<1>3. Closed(D)
  BY <1>1, <1>2, BelowWithout
<1>4. \A s \in Resources : s \notin own
  BY DEF TreeConsistent, Identified
<1>5. D \cap Resources = {} /\ listed' \subseteq listed \ D
  BY <1>1, <1>4 DEF Managed
<1>6. RemoveEvents(r) \subseteq handlers
  BY DEF RemoveEvents
<1>7. \A t \in listed' : ent[t].creator \in running'
  BY <1>1 DEF TreeConsistent
<1> HIDE DEF D, own
<1>8. BranchGoes(D, RemoveEvents(r))
  BY <1>1, <1>5, <1>6, <1>7 DEF BranchGoes
<1> QED BY <1>1, <1>2, <1>3, <1>5, <1>8 DEF D

\* What the stop of a resource leaves agrees as before.
LEMMA StopInvariant ==
  ASSUME EntityInvariant, \/ \E r \in Resources : StopResource(r)
                          \/ StartFails
  PROVE  EntityInvariant'
<1>1. PICK r \in Resources : Stop(r)
  BY WhoStops
<1>2. acts' \in 0 .. MaxActs /\ (stack # <<>> => Last(stack).phase = "call")
  BY WhoStops
<1>3. CASE Fails("recursion") \/ Fails("dangling")
  BY <1>2, <1>3, FailsInvariant
<1>4. CASE ~(Fails("recursion") \/ Fails("dangling"))
  <2> DEFINE D == Below(r) \ {r}
  <2>1. /\ D \in SUBSET Live /\ Closed(D) /\ D \cap Resources = {}
        /\ BranchGoes(D, RemoveEvents(r))
    BY <1>1, <1>4, StopGoes
  <2> HIDE DEF D
  <2> QED BY <1>2, <2>1, DestroyBranchInvariant
<1> QED BY <1>3, <1>4

\* A start changes what its resource is, and nothing else but the stamp that is next.
LEMMA StartStep ==
  ASSUME EntityInvariant, \/ \E q, r \in Resources : StartResource(q, r)
                          \/ StartReturns
  PROVE  /\ UNCHANGED <<free, ent, listed, handlers, stack, expected, called, cut, fault, moved>>
         /\ fault = "none" /\ running \subseteq running' /\ now' \in {now, now + 1}
         /\ (stack # <<>> => Last(stack).phase = "call") \/ starting' = 0
         /\ acts' \in 0 .. MaxActs /\ since' \in [Resources -> Nat]
         /\ running' \subseteq Resources /\ starting' \in {0} \cup running'
         /\ \A r \in Resources : \/ since'[r] = since[r]
                               \/ /\ r \notin running /\ since'[r] = now'
                                  /\ now' = now + 1
<1> USE DEF EntityInvariant
<1>1. CASE StartReturns
  <2>1. /\ UNCHANGED <<free, ent, listed, handlers, stack, expected, called, cut, fault, moved>>
        /\ fault = "none" /\ running' = running /\ now' = now /\ since' = since
        /\ acts' = acts /\ starting' = 0
    BY <1>1 DEF StartReturns, event
  <2>2. acts \in 0 .. MaxActs /\ since \in [Resources -> Nat] /\ running \subseteq Resources
    BY DEF TypeOK
  <2> QED BY <2>1, <2>2
<1>2. ASSUME NEW q \in Resources, NEW r \in Resources, StartResource(q, r)
      PROVE  /\ UNCHANGED <<free, ent, listed, handlers, stack, expected, called, cut, fault,
                            moved>>
             /\ fault = "none" /\ running' = running \cup {r} /\ now' = now + 1
             /\ stack # <<>> => Last(stack).phase = "call"
             /\ acts < MaxActs /\ acts' = acts + 1 /\ since' = [since EXCEPT ![r] = now']
             /\ starting' = r /\ r \notin running
  BY <1>2 DEF StartResource, Script, Act, event
<1>3. ASSUME NEW q \in Resources, NEW r \in Resources, StartResource(q, r)
      PROVE  /\ acts' \in 0 .. MaxActs /\ since' \in [Resources -> Nat]
             /\ running' \subseteq Resources
             /\ \A x \in Resources : \/ since'[x] = since[x]
                                   \/ (x \notin running /\ since'[x] = now')
  <2>1. now' \in Nat
    BY <1>2, <1>3 DEF TypeOK
  <2>2. acts' \in 0 .. MaxActs
    BY <1>2, <1>3, EntityTreeAssumption DEF TypeOK
  <2>3. since \in [Resources -> Nat] /\ running \subseteq Resources
    BY DEF TypeOK
  <2>4. since' \in [Resources -> Nat]
    BY <1>2, <1>3, <2>1, <2>3
  <2>5. \A x \in Resources : since'[x] = IF x = r THEN now' ELSE since[x]
    BY <1>2, <1>3, <2>3
  <2>6. running' \subseteq Resources /\ r \notin running
    BY <1>2, <1>3, <2>3
  <2> QED BY <2>2, <2>4, <2>5, <2>6
<1> QED BY <1>1, <1>2, <1>3

\* A start, and the return of one, disturb nothing.
LEMMA StartInvariant ==
  ASSUME EntityInvariant, \/ \E q, r \in Resources : StartResource(q, r)
                          \/ StartReturns
  PROVE  EntityInvariant'
<1> USE DEF EntityInvariant
<1>1. /\ UNCHANGED <<free, ent, listed, handlers, stack, expected, called, cut, fault, moved>>
      /\ running \subseteq running' /\ now' \in {now, now + 1}
      /\ (stack # <<>> => Last(stack).phase = "call") \/ starting' = 0
      /\ acts' \in 0 .. MaxActs /\ since' \in [Resources -> Nat]
      /\ running' \subseteq Resources /\ starting' \in {0} \cup running'
  BY StartStep
<1>2. Live' = Live
  BY <1>1 DEF Live
<1>3. now' \in Nat
  BY <1>1 DEF TypeOK
<1>4. TypeOK'
  BY <1>1, <1>3 DEF TypeOK
<1>5. TreeConsistent'
  BY <1>1, <1>2 DEF TreeConsistent
<1>6. FreeOnce' /\ Identified' /\ Unmoved' /\ Quiet' /\ Calls'
  BY <1>1, <1>2 DEF FreeOnce, Identified, Unmoved, Quiet, Calls
<1> QED BY <1>4, <1>5, <1>6

\* Steps of an event change its calls alone.
LEMMA EventStep ==
  ASSUME EntityInvariant, starting = 0, UNCHANGED <<free, ent, listed, handlers, now, moved>>,
         UNCHANGED <<running, starting, since>>,
         acts' \in 0 .. MaxActs, stack' \in Seq(Call), expected' \subseteq handlers,
         fault' \in Faults, cut' \in BOOLEAN,
         stack' = <<>> => expected' = {},
         \A k \in 1 .. Len(stack') :
           /\ k < Len(stack') => stack'[k].phase = "children"
           /\ stack'[k].phase = "handlers" => stack'[k].entity \in Live
  PROVE  EntityInvariant'
<1> USE DEF EntityInvariant
<1>1. Live' = Live
  BY DEF Live
<1>2. TypeOK'
  BY DEF TypeOK, Faults
<1>3. TreeConsistent' /\ FreeOnce' /\ Identified' /\ Unmoved'
  BY <1>1 DEF TreeConsistent, FreeOnce, Identified, Unmoved
<1>4. DOMAIN stack' = 1 .. Len(stack')
  OBVIOUS
<1>5. Quiet' /\ Calls'
  BY <1>1, <1>4 DEF Quiet, Calls
<1> QED BY <1>2, <1>3, <1>5

\* What is known of the calls of an event under way.
LEMMA UnderWay ==
  ASSUME EntityInvariant, stack # <<>>
  PROVE  /\ Top \in Call /\ Front(stack) \in Seq(Call) /\ Len(stack) \in Nat \ {0}
         /\ Len(Front(stack)) = Len(stack) - 1
         /\ \A k \in 1 .. Len(stack) - 1 :
              Front(stack)[k] = stack[k] /\ stack[k].phase = "children"
         /\ Top.phase = "handlers" => Top.entity \in Live
<1>1. stack \in Seq(Call) /\ Calls
  BY DEF EntityInvariant, TypeOK
<1>2. /\ Last(stack) \in Call /\ Front(stack) \in Seq(Call) /\ Len(stack) \in Nat \ {0}
      /\ Len(Front(stack)) = Len(stack) - 1
      /\ \A k \in 1 .. Len(stack) - 1 : Front(stack)[k] = stack[k]
  BY <1>1, SequenceParts
<1>3. \A k \in 1 .. Len(stack) - 1 : k \in DOMAIN stack /\ k < Len(stack)
  BY <1>1, <1>2
<1>4. Len(stack) \in DOMAIN stack /\ Last(stack) = stack[Len(stack)]
  BY <1>1, <1>2 DEF Last
<1> QED BY <1>1, <1>2, <1>3, <1>4 DEF Calls, Top

\* The last call is replaced.
LEMMA ReplacedCall ==
  ASSUME EntityInvariant, stack # <<>>, NEW f \in Call, f.phase = "handlers" => f.entity \in Live,
         stack' = Append(Front(stack), f)
  PROVE  /\ stack' \in Seq(Call) /\ stack' # <<>>
         /\ \A k \in 1 .. Len(stack') :
              /\ k < Len(stack') => stack'[k].phase = "children"
              /\ stack'[k].phase = "handlers" => stack'[k].entity \in Live
<1>1. stack \in Seq(Call)
  BY DEF EntityInvariant, TypeOK
<1>2. /\ stack' \in Seq(Call) /\ Len(stack') = Len(stack) /\ Len(stack) \in Nat \ {0}
      /\ \A k \in 1 .. Len(stack) : stack'[k] = IF k = Len(stack) THEN f ELSE stack[k]
  BY <1>1, SequenceParts
<1>3. \A k \in 1 .. Len(stack) - 1 : stack[k].phase = "children"
  BY UnderWay
<1>4. stack' # <<>>
  BY <1>2
<1>5. ASSUME NEW k \in 1 .. Len(stack')
      PROVE  /\ k < Len(stack') => stack'[k].phase = "children"
             /\ stack'[k].phase = "handlers" => stack'[k].entity \in Live
  <2>1. CASE k = Len(stack)
    BY <1>2, <2>1
  <2>2. CASE k # Len(stack)
    <3>1. k \in 1 .. Len(stack) - 1
      BY <1>2, <2>2
    <3>2. stack'[k] = stack[k]
      BY <1>2, <2>2
    <3> QED BY <1>3, <3>1, <3>2
  <2> QED BY <2>1, <2>2
<1> QED BY <1>2, <1>4, <1>5

\* The last call, which goes on with its children, makes another.
LEMMA PushedCall ==
  ASSUME EntityInvariant, stack # <<>>, NEW f \in Call, NEW g \in Call,
         f.phase = "children", g.phase = "handlers" => g.entity \in Live,
         stack' = Front(stack) \o <<f, g>>
  PROVE  /\ stack' \in Seq(Call) /\ stack' # <<>>
         /\ \A k \in 1 .. Len(stack') :
              /\ k < Len(stack') => stack'[k].phase = "children"
              /\ stack'[k].phase = "handlers" => stack'[k].entity \in Live
<1>1. stack \in Seq(Call)
  BY DEF EntityInvariant, TypeOK
<1>2. /\ stack' \in Seq(Call) /\ Len(stack') = Len(stack) + 1 /\ Len(stack) \in Nat \ {0}
      /\ \A k \in 1 .. Len(stack) + 1 :
           stack'[k] = IF k = Len(stack) THEN f
                       ELSE IF k = Len(stack) + 1 THEN g ELSE stack[k]
  <2>1. Len(stack) \in Nat \ {0}
    BY <1>1, SequenceParts
  <2> DEFINE t == Front(stack) \o <<f, g>>
  <2>2. WithTwo(t, stack, f, g, Call)
    BY <1>1, SequenceAndTwo, Zenon
  <2>3. stack' = t
    OBVIOUS
  <2> HIDE DEF t
  <2> QED BY <2>1, <2>2, <2>3 DEF WithTwo
<1>3. \A k \in 1 .. Len(stack) - 1 : stack[k].phase = "children"
  BY UnderWay
<1>4. stack' # <<>>
  BY <1>2
<1>5. ASSUME NEW k \in 1 .. Len(stack')
      PROVE  /\ k < Len(stack') => stack'[k].phase = "children"
             /\ stack'[k].phase = "handlers" => stack'[k].entity \in Live
  <2>1. CASE k = Len(stack)
    BY <1>2, <2>1
  <2>2. CASE k = Len(stack) + 1
    <3>1. k # Len(stack) /\ ~(k < Len(stack'))
      BY <1>2, <2>2
    <3> QED BY <1>2, <2>2, <3>1
  <2>3. CASE k # Len(stack) /\ k # Len(stack) + 1
    <3>1. k \in 1 .. Len(stack) - 1 /\ k \in 1 .. Len(stack) + 1
      BY <1>2, <2>3
    <3>2. stack'[k] = stack[k]
      BY <1>2, <2>3, <3>1
    <3> QED BY <1>3, <3>1, <3>2
  <2> QED BY <2>1, <2>2, <2>3
<1> QED BY <1>2, <1>4, <1>5

\* An event that breaks leaves its calls as they were.
LEMMA SameCalls ==
  ASSUME EntityInvariant, stack' = stack
  PROVE  /\ stack' \in Seq(Call)
         /\ \A k \in 1 .. Len(stack') :
              /\ k < Len(stack') => stack'[k].phase = "children"
              /\ stack'[k].phase = "handlers" => stack'[k].entity \in Live
<1>1. stack \in Seq(Call) /\ Calls
  BY DEF EntityInvariant, TypeOK
<1>2. DOMAIN stack = 1 .. Len(stack)
  BY <1>1
<1> QED BY <1>1, <1>2 DEF Calls

\* A call for an entity that exists.
LEMMA FrameIs ==
  ASSUME EntityInvariant, NEW e \in Live, NEW up \in BOOLEAN, NEW down \in BOOLEAN
  PROVE  /\ Frame(e, up, down) \in Call /\ Frame(e, up, down).phase = "handlers"
         /\ Frame(e, up, down).entity = e
<1>1. e \in 0 .. MaxIds
  BY IdFacts DEF Live
<1> QED BY <1>1 DEF Frame, Call

\* Parents and children of entities exist.
LEMMA Relatives ==
  ASSUME EntityInvariant, NEW i \in Id
  PROVE  /\ ent[i].parent # 0 => ent[i].parent \in Live
         /\ \A c \in ent[i].children : c \in Live /\ ent[c].stamp \in Nat
<1> USE DEF EntityInvariant
<1>1. /\ ent[i].parent \in 0 .. MaxIds /\ ent[i].children \subseteq Id
      /\ \A c \in Id : ent[c].stamp \in Nat
  BY DEF TypeOK, Entity
<1>2. ASSUME ent[i].parent # 0
      PROVE  ent[i].parent \in Live
  <2>1. ent[i].parent \in Id
    BY <1>1, <1>2, EntityTreeAssumption DEF Id
  <2>2. i \in ent[ent[i].parent].children
    BY <2>1 DEF TreeConsistent
  <2> QED BY <2>1, <2>2 DEF TreeConsistent, Live
<1>3. ASSUME NEW c \in ent[i].children
      PROVE  c \in Live
  <2>1. c \in Id
    BY <1>1
  <2>2. ent[c].parent = i /\ i # 0
    BY <2>1, IdFacts DEF TreeConsistent
  <2> QED BY <2>1, <2>2 DEF TreeConsistent, Live
<1> QED BY <1>1, <1>2, <1>3

\* An event begins at an entity that exists.
LEMMA CallEventInvariant ==
  ASSUME EntityInvariant, NEW e \in Id, CallEvent(e)
  PROVE  EntityInvariant'
<1>1. /\ acts < MaxActs /\ acts' = acts + 1 /\ e \in Live /\ stack' = <<Frame(e, TRUE, TRUE)>>
      /\ expected' \subseteq handlers /\ cut' = FALSE /\ fault' = "none" /\ starting = 0
      /\ UNCHANGED <<free, ent, listed, running, starting, since, handlers, now, moved>>
  BY DEF CallEvent, Act, tree, resources
<1>2. acts' \in 0 .. MaxActs /\ fault' \in Faults
  BY <1>1, EntityTreeAssumption DEF EntityInvariant, TypeOK, Faults
<1> DEFINE f == Frame(e, TRUE, TRUE)
<1>3. f \in Call /\ f.entity \in Live
  BY <1>1, FrameIs
<1> HIDE DEF f
<1>4. stack' = <<f>>
  BY <1>1 DEF f
<1>5. stack' \in Seq(Call) /\ Len(stack') = 1 /\ stack' # <<>> /\ stack'[1] = f
  BY <1>3, <1>4
<1>6. \A k \in 1 .. Len(stack') :
           /\ k < Len(stack') => stack'[k].phase = "children"
           /\ stack'[k].phase = "handlers" => stack'[k].entity \in Live
  BY <1>3, <1>5
<1> QED BY <1>1, <1>2, <1>5, <1>6, EventStep

\* The next handler is called, or the event goes on to the parent.
LEMMA NextHandlerInvariant ==
  ASSUME EntityInvariant, NextHandler
  PROVE  EntityInvariant'
<1> DEFINE S == After(HandlersOf(Top.entity), Top.pos)
           n == IF Len(stack) > MaxIds + 1 THEN "recursion" ELSE "none"
<1>1. /\ stack # <<>> /\ Top.phase = "handlers" /\ expected' = expected /\ cut' = cut
      /\ UNCHANGED <<free, ent, listed, running, starting, since, handlers, now, moved, acts>>
  BY DEF NextHandler, Running, tree, resources
<1>2. Top \in Call /\ Top.entity \in Live
  BY <1>1, UnderWay
<1>3. /\ acts' \in 0 .. MaxActs /\ expected' \subseteq handlers /\ cut' \in BOOLEAN
      /\ starting = 0
  BY <1>1 DEF EntityInvariant, TypeOK, Calls, Top
<1>4. CASE S # {}
  <2>1. PICK h \in S : /\ Replace([Top EXCEPT !.phase = "call", !.pos = h.stamp])
                       /\ fault' = FaultOfCall(h)
    BY <1>4 DEF NextHandler
  <2>2. h.stamp \in Nat
    BY DEF After, HandlersOf, EntityInvariant, TypeOK, Handler
  <2> DEFINE t == Top
             f == [t EXCEPT !.phase = "call", !.pos = h.stamp]
  <2>3. t \in Call
    BY <1>2
  <2>4. stack' = Append(Front(stack), f)
    BY <2>1 DEF Replace
  <2> HIDE DEF t
  <2>5. f \in Call /\ f.phase = "call"
    BY <2>2, <2>3 DEF Call
  <2> HIDE DEF f
  <2>6. /\ stack' \in Seq(Call) /\ stack' # <<>>
        /\ \A k \in 1 .. Len(stack') :
             /\ k < Len(stack') => stack'[k].phase = "children"
             /\ stack'[k].phase = "handlers" => stack'[k].entity \in Live
    BY <1>1, <2>4, <2>5, ReplacedCall
  <2>7. fault' \in Faults
    BY <2>1 DEF FaultOfCall, Faults
  <2> QED BY <1>1, <1>3, <2>6, <2>7, EventStep
<1>5. CASE S = {}
  <2> DEFINE t == Top
             f == [t EXCEPT !.phase = "children", !.pos = 0]
             g == Frame(ent[Top.entity].parent, TRUE, FALSE)
  <2>1. /\ stack' = IF GoesUp(Top) THEN Front(stack) \o <<f, g>> ELSE Append(Front(stack), f)
        /\ fault' = n
    BY <1>5 DEF NextHandler
  <2>2. fault' \in Faults
    BY <2>1 DEF Faults
  <2>3. t \in Call
    BY <1>2
  <2>4. GoesUp(Top) => g \in Call /\ g.entity \in Live
    <3>1. SUFFICES ASSUME GoesUp(Top) PROVE g \in Call /\ g.entity \in Live
      OBVIOUS
    <3>2. ent[Top.entity].parent \in Live
      BY <1>2, <3>1, Relatives DEF GoesUp, Live
    <3> QED BY <3>2, FrameIs
  <2> HIDE DEF t, g
  <2>5. f \in Call /\ f.phase = "children"
    BY <2>3 DEF Call
  <2> HIDE DEF f
  <2>6. /\ stack' \in Seq(Call) /\ stack' # <<>>
        /\ \A k \in 1 .. Len(stack') :
             /\ k < Len(stack') => stack'[k].phase = "children"
             /\ stack'[k].phase = "handlers" => stack'[k].entity \in Live
    <3>1. CASE GoesUp(Top)
      <4>1. stack' = Front(stack) \o <<f, g>>
        BY <2>1, <3>1
      <4> QED BY <1>1, <2>4, <2>5, <3>1, <4>1, PushedCall
    <3>2. CASE ~GoesUp(Top)
      <4>1. stack' = Append(Front(stack), f)
        BY <2>1, <3>2
      <4> QED BY <1>1, <2>5, <4>1, ReplacedCall
    <3> QED BY <3>1, <3>2
  <2> QED BY <1>1, <1>3, <2>2, <2>6, EventStep
<1> QED BY <1>4, <1>5

\* A handler returns to the list it was called from.
LEMMA HandlerReturnsInvariant ==
  ASSUME EntityInvariant, HandlerReturns
  PROVE  EntityInvariant'
<1>1. /\ stack # <<>> /\ expected' = expected /\ cut' = cut /\ starting = 0
      /\ UNCHANGED <<free, ent, listed, running, starting, since, handlers, now, moved, acts>>
  BY DEF HandlerReturns, Running, tree, resources
<1>2. /\ acts' \in 0 .. MaxActs /\ expected' \subseteq handlers /\ cut' \in BOOLEAN
      /\ fault \in Faults /\ "iterator" \in Faults
  BY <1>1 DEF EntityInvariant, TypeOK, Faults
<1>3. CASE \E h \in handlers : h.at = Top.entity /\ h.stamp = Top.pos
  <2> DEFINE t == Top
             f == [t EXCEPT !.phase = "handlers"]
  <2>1. stack' = Append(Front(stack), f) /\ fault' = fault
    BY <1>3 DEF HandlerReturns, Replace
  <2>2. t \in Call /\ t.entity \in Live
    BY <1>1, <1>3, UnderWay DEF EntityInvariant, TreeConsistent
  <2> HIDE DEF t
  <2>3. f \in Call /\ f.entity \in Live
    BY <2>2 DEF Call
  <2> HIDE DEF f
  <2>4. /\ stack' \in Seq(Call) /\ stack' # <<>>
        /\ \A k \in 1 .. Len(stack') :
             /\ k < Len(stack') => stack'[k].phase = "children"
             /\ stack'[k].phase = "handlers" => stack'[k].entity \in Live
    BY <1>1, <2>1, <2>3, ReplacedCall
  <2> QED BY <1>1, <1>2, <2>1, <2>4, EventStep
<1>4. CASE ~\E h \in handlers : h.at = Top.entity /\ h.stamp = Top.pos
  <2>1. fault' = "iterator" /\ stack' = stack
    BY <1>4 DEF HandlerReturns
  <2> QED BY <1>1, <1>2, <2>1, SameCalls, EventStep
<1> QED BY <1>3, <1>4

\* The next child, or the end of a call.
LEMMA NextChildInvariant ==
  ASSUME EntityInvariant, NextChild
  PROVE  EntityInvariant'
<1> DEFINE S == After(ChildrenOf(Top.entity), Top.pos)
<1>1. /\ stack # <<>> /\ Top.phase = "children"
      /\ UNCHANGED <<free, ent, listed, running, starting, since, handlers, now, moved, acts>>
  BY DEF NextChild, Running, tree, resources
<1>2. /\ acts' \in 0 .. MaxActs /\ expected \subseteq handlers /\ cut \in BOOLEAN
      /\ fault \in Faults /\ "iterator" \in Faults /\ starting = 0
  BY <1>1 DEF EntityInvariant, TypeOK, Faults, Calls, Top
<1>3. CASE Return
  <2>1. /\ stack' = Front(stack) /\ fault' = fault
        /\ IF Len(stack) = 1 THEN expected' = {} /\ cut' = FALSE
           ELSE expected' = expected /\ cut' = cut
    BY <1>3 DEF Return
  <2>2. /\ stack' \in Seq(Call) /\ Len(stack') = Len(stack) - 1 /\ Len(stack) \in Nat \ {0}
        /\ \A k \in 1 .. Len(stack) - 1 : stack'[k] = stack[k] /\ stack[k].phase = "children"
    BY <1>1, <2>1, UnderWay
  <2>3. stack' = <<>> => expected' = {}
    BY <2>1, <2>2
  <2>4. \A k \in 1 .. Len(stack') :
           /\ k < Len(stack') => stack'[k].phase = "children"
           /\ stack'[k].phase = "handlers" => stack'[k].entity \in Live
    BY <2>2
  <2>5. expected' \subseteq handlers /\ cut' \in BOOLEAN
    BY <1>2, <2>1
  <2> QED BY <1>1, <1>2, <2>1, <2>2, <2>3, <2>4, <2>5, EventStep
<1>4. CASE fault' = "iterator" /\ UNCHANGED event
  <2>1. stack' = stack /\ expected' = expected /\ cut' = cut
    BY <1>4 DEF event
  <2> QED BY <1>1, <1>2, <1>4, <2>1, SameCalls, EventStep
<1>5. CASE ~Return /\ ~(fault' = "iterator" /\ UNCHANGED event)
  <2>1. /\ Top.entity # 0
        /\ \E c \in S : stack' = Front(stack) \o <<[Top EXCEPT !.pos = c.stamp],
                                                  Frame(c.id, FALSE, TRUE)>>
        /\ fault' = IF Len(stack) > MaxIds + 1 THEN "recursion" ELSE "none"
        /\ expected' = expected /\ cut' = cut
    BY <1>5 DEF NextChild
  <2>2. PICK c \in S : stack' = Front(stack) \o <<[Top EXCEPT !.pos = c.stamp],
                                                 Frame(c.id, FALSE, TRUE)>>
    BY <2>1
  <2>3. Top \in Call
    BY <1>1, UnderWay
  <2>4. Top.entity \in Id
    <3>1. Top.entity \in 0 .. MaxIds
      BY <2>3 DEF Call
    <3> QED BY <2>1, <3>1, EntityTreeAssumption DEF Id
  <2>5. c.id \in Live /\ c.stamp \in Nat
    <3>1. PICK d \in ent[Top.entity].children : c = [id |-> d, stamp |-> ent[d].stamp]
      BY DEF After, ChildrenOf
    <3>2. c.id = d /\ c.stamp = ent[d].stamp
      BY <3>1
    <3> QED BY <2>4, <3>2, Relatives
  <2> DEFINE t == Top
             f == [t EXCEPT !.pos = c.stamp]
             g == Frame(c.id, FALSE, TRUE)
  <2>6. stack' = Front(stack) \o <<f, g>> /\ t \in Call /\ t.phase = "children"
    BY <1>1, <2>2, <2>3
  <2>7. g \in Call /\ g.entity \in Live
    BY <2>5, FrameIs
  <2> HIDE DEF t, g
  <2>8. f \in Call /\ f.phase = "children"
    BY <2>5, <2>6 DEF Call
  <2> HIDE DEF f
  <2>9. /\ stack' \in Seq(Call) /\ stack' # <<>>
        /\ \A k \in 1 .. Len(stack') :
             /\ k < Len(stack') => stack'[k].phase = "children"
             /\ stack'[k].phase = "handlers" => stack'[k].entity \in Live
    BY <1>1, <2>6, <2>7, <2>8, PushedCall
  <2>10. fault' \in Faults
    BY <2>1 DEF Faults
  <2> QED BY <1>1, <1>2, <2>1, <2>9, <2>10, EventStep
<1> QED BY <1>3, <1>4, <1>5

-----------------------------------------------------------------------------
(* Theorems *)

\* Every step keeps the invariant.
LEMMA StepInvariant == EntityInvariant /\ [Next]_vars => EntityInvariant'
<1> SUFFICES ASSUME EntityInvariant, [Next]_vars PROVE EntityInvariant'
  OBVIOUS
<1>1. CASE \E r \in Resources, type \in {"custom", "timer"} : CreateEntity(r, type)
  BY <1>1, CreateInvariant
<1>2. CASE \E r \in Resources, e \in Id : DeleteEntity(r, e) \/ KillTimer(r, e)
  BY <1>2, DeleteInvariant
<1>3. CASE \E r \in Resources, e \in Id, p \in Id : SetParent(r, e, p)
  BY <1>3, SetParentInvariant
<1>4. CASE \E r \in Resources :
             \/ \E e \in Id, f \in Functions : AddEvent(r, e, f)
             \/ \E h \in handlers : RemoveEvent(r, h)
  BY <1>4, EventsInvariant
<1>5. CASE \/ \E r \in Resources : StopResource(r)
           \/ StartFails
  BY <1>5, StopInvariant
<1>a. CASE \/ \E q, r \in Resources : StartResource(q, r)
           \/ StartReturns
  BY <1>a, StartInvariant
<1>6. CASE \E e \in Id : CallEvent(e)
  BY <1>6, CallEventInvariant
<1>7. CASE NextHandler
  BY <1>7, NextHandlerInvariant
<1>8. CASE HandlerReturns
  BY <1>8, HandlerReturnsInvariant
<1>9. CASE NextChild
  BY <1>9, NextChildInvariant
<1>10. CASE UNCHANGED vars
  <2>1. UNCHANGED <<free, ent, listed, running, starting, since, handlers, now, stack, expected,
                    called, cut, acts, fault, moved>>
    BY <1>10 DEF vars, tree, event, resources
  <2>2. Live' = Live
    BY <2>1 DEF Live
  <2> QED BY <2>1, <2>2 DEF EntityInvariant, TypeOK, TreeConsistent, FreeOnce, Identified,
             Unmoved, Quiet, Calls
<1> QED BY <1>1, <1>2, <1>3, <1>4, <1>5, <1>6, <1>7, <1>8, <1>9, <1>10, <1>a DEF Next

\* The invariant holds of every state.
LEMMA AlwaysInvariant == Spec => []EntityInvariant
BY InitInvariant, StepInvariant, PTL DEF Spec

\* Only the native that creates an entity lets an id name another.
LEMMA NobodyBorn ==
  ASSUME EntityInvariant, [Next]_vars,
         ~\E r \in Resources, type \in {"custom", "timer"} : CreateEntity(r, type)
  PROVE  \A i \in Id : ent'[i].born \in {ent[i].born, 0}
<1>1. ASSUME NEW D, ent' = Without(D)
      PROVE  \A i \in Id : ent'[i].born \in {ent[i].born, 0}
  BY <1>1, WithoutIs DEF EntityInvariant
<1>2. ASSUME NEW r \in Resources, NEW e \in Id, NEW p \in Id, SetParent(r, e, p)
      PROVE  \A i \in Id : ent'[i].born = ent[i].born
  <2> SUFFICES ASSUME NEW i \in Id PROVE ent'[i].born = ent[i].born
    OBVIOUS
  <2> DEFINE m == ent[i]
             n == ent'[i]
             q == IF i = e THEN p ELSE m.parent
             s == IF i = e THEN now' ELSE m.stamp
             T == IF i = p THEN m.children \cup {e} ELSE m.children \ {e}
  <2>1. n = [m EXCEPT !.parent = q, !.stamp = s, !.children = T] /\ m \in Entity
    BY <1>2 DEF SetParent, EntityInvariant, TypeOK
  <2> HIDE DEF m, n, q, s, T
  <2>2. n.born = m.born
    BY <2>1 DEF Entity
  <2> QED BY <2>2 DEF m, n
<1>3. CASE UNCHANGED ent
  BY <1>3
<1>4. CASE \E r \in Resources, e \in Id : DeleteEntity(r, e) \/ KillTimer(r, e)
  BY <1>1, <1>3, <1>4 DEF DeleteEntity, KillTimer, ScriptDeletes, DestroyBranch, Destroy, Fails,
     tree
<1>5. CASE \E r \in Resources, e \in Id, p \in Id : SetParent(r, e, p)
  BY <1>2, <1>5
<1>6. CASE \/ \E r \in Resources : StopResource(r)
           \/ StartFails
  <2>1. PICK r \in Resources : Stop(r)
    BY <1>6, WhoStops
  <2> QED BY SMTT(30), <1>1, <1>3, <2>1 DEF Stop, DestroyBranch, Destroy, Fails, tree
<1>7. CASE \/ \E r \in Resources :
                \/ \E e \in Id, f \in Functions : AddEvent(r, e, f)
                \/ \E h \in handlers : RemoveEvent(r, h)
                \/ \E q \in Resources : StartResource(q, r)
           \/ \E e \in Id : CallEvent(e)
           \/ StartReturns \/ NextHandler \/ HandlerReturns \/ NextChild \/ UNCHANGED vars
  BY <1>3, <1>7 DEF AddEvent, RemoveEvent, StartResource, StartReturns, CallEvent, NextHandler,
     HandlerReturns, NextChild, tree, vars
<1> QED BY <1>4, <1>5, <1>6, <1>7 DEF Next

\* Ids, parents and children (CEntityIDs, CEntity::SetParent and ~CEntity) agree with
\* one another, whatever scripts create, move, delete and stop.
THEOREM EntitiesAlwaysConsistent == Spec => []EntitiesConsistent
<1>1. EntityInvariant => EntitiesConsistent
  <2> SUFFICES ASSUME EntityInvariant PROVE EntitiesConsistent
    OBVIOUS
  <2> DEFINE At(i) == {k \in DOMAIN free : free[k] = i}
  <2>1. ASSUME NEW i \in Live
        PROVE  Cardinality(At(i)) = 0
    <3>1. At(i) = {}
      BY DEF EntityInvariant, FreeOnce
    <3> QED BY <3>1, FS_EmptySet
  <2>2. ASSUME NEW i \in Id \ Live
        PROVE  Cardinality(At(i)) = 1
    <3>1. PICK k \in DOMAIN free : free[k] = i
      BY DEF EntityInvariant, FreeOnce
    <3>2. At(i) = {k}
      BY <3>1 DEF EntityInvariant, FreeOnce
    <3> QED BY <3>2, FS_Singleton
  <2>3. \A i \in Id : Cardinality(At(i)) = IF i \in Live THEN 0 ELSE 1
    BY <2>1, <2>2
  <2>4. FreeIds
    BY <2>3 DEF FreeIds
  <2> QED BY <2>4 DEF EntitiesConsistent, EntityInvariant
<1> QED BY <1>1, AlwaysInvariant, PTL

\* A step pops an id that names nothing, or pushes ids.
LEMMA StepOfPool ==
  ASSUME EntityInvariant, [Next]_vars,
         NEW names, names = [i \in Id |-> ent[i].born],
         NEW then, then = [i \in Id |-> ent'[i].born]
  PROVE  \/ \E i \in Id : /\ names[i] = 0 /\ then[i] # 0
                           /\ \A j \in Id \ {i} : then[j] = names[j]
         \/ \A i \in Id : then[i] \in {names[i], 0}
<1>a. \A i \in Id : names[i] = ent[i].born /\ then[i] = ent'[i].born
  OBVIOUS
<1>1. CASE \E r \in Resources, type \in {"custom", "timer"} : CreateEntity(r, type)
  <2>1. PICK r \in Resources, type \in {"custom", "timer"} : CreateEntity(r, type)
    BY <1>1
  <2> DEFINE i == Last(free)
  <2>a. Created(i, r, type)
    BY <2>1, CreatedIs
  <2> HIDE DEF i
  <2>2. /\ i \in Id /\ i \notin Live /\ ent'[i].born = now + 1
    BY <2>a DEF Created
  <2>3. \A j \in Id \ {i} : ent'[j].born = ent[j].born
    BY <2>a DEF Created
  <2>4. ent[i].born = 0
    BY <2>2 DEF EntityInvariant, Identified, Live
  <2>5. ent'[i].born # 0
    BY <2>2 DEF EntityInvariant, TypeOK
  <2> QED BY <1>a, <2>2, <2>3, <2>4, <2>5
<1>2. CASE ~\E r \in Resources, type \in {"custom", "timer"} : CreateEntity(r, type)
  <2>1. \A i \in Id : ent'[i].born \in {ent[i].born, 0}
    BY <1>2, NobodyBorn
  <2> QED BY <1>a, <2>1
<1> QED BY <1>1, <1>2

\* From its creation to its deletion an entity is the only one with its id: CEntityIDs
\* implements the pool of ids.
THEOREM IdsAlwaysImplementPool == Spec => IdsImplementPool
<1>1. EntityInvariant /\ [Next]_vars => [Pool!Pop \/ Pool!Push]_([i \in Id |-> ent[i].born])
  BY StepOfPool DEF Pool!Pop, Pool!Push
<1> QED BY <1>1, AlwaysInvariant, PTL DEF Spec, IdsImplementPool, Pool!Spec

\* A resource that is not running any more has been stopped, and what it made is gone.
LEMMA StoppedIsGone ==
  ASSUME EntityInvariant, Next, NEW r \in running \ running'
  PROVE  /\ \A e \in Live : ent[e].creator = r /\ moved \cap Above(e) = {}
                             => ent'[e].type = "none"
         /\ \A h \in handlers' : h.by = r => h.at \notin Below(Root)'
<1> USE DEF EntityInvariant
<1> DEFINE D == Below(r) \ {r}
<1>1. PICK q \in Resources : Stop(q)
  <2>1. ASSUME NEW E, ScriptDeletes(E)
        PROVE  UNCHANGED running
    BY <2>1 DEF ScriptDeletes, resources
  <2>2. \A f : Fails(f) => UNCHANGED running
    BY DEF Fails, tree, resources
  <2>3. \A x, e : DeleteEntity(x, e) \/ KillTimer(x, e) => UNCHANGED running
    BY <2>1, <2>2 DEF DeleteEntity, KillTimer
  <2>4. (\E x, y \in Resources : StartResource(x, y)) \/ StartReturns => running \subseteq running'
    BY StartStep
  <2>5. CASE \/ \E x \in Resources : StopResource(x)
             \/ StartFails
    BY <2>5, WhoStops
  <2> QED BY <2>3, <2>4, <2>5, ZenonT(60) DEF Next, CreateEntity, SetParent, AddEvent,
             RemoveEvent, CallEvent, NextHandler, HandlerReturns, NextChild, tree, resources
<1>2. /\ ent' = Without(D)
      /\ handlers' = {h \in RemoveEvents(r) : h.at \notin D}
  <2>1. ~Fails("recursion") /\ ~Fails("dangling")
    BY DEF Fails, tree, resources
  <2>2. DestroyBranch(Below(q) \ {q}, RemoveEvents(q)) /\ running' = running \ {q}
    BY <1>1, <2>1 DEF Stop
  <2>3. q = r
    BY <2>2
  <2> QED BY <2>2, <2>3 DEF DestroyBranch, Destroy
<1>3. r \in Resources /\ r \in Id /\ r # 0 /\ ent[r].type = "resource"
  BY IdFacts DEF TypeOK, Identified
<1>4. ASSUME NEW e \in Live, ent[e].creator = r, moved \cap Above(e) = {}
      PROVE  ent'[e].type = "none"
  <2>1. e \in Id /\ e \in Above(e)
    BY BelowIs DEF Live, Above
  <2>2. ent[e].type \in {"custom", "timer"} /\ e # r
    BY <1>3, <1>4, <2>1 DEF Identified
  <2>3. ent[e].parent = r
    BY <1>4, <2>1, <2>2 DEF Unmoved
  <2>4. e \in ent[r].children
    BY <1>3, <2>1, <2>3 DEF TreeConsistent
  <2>5. e \in Below(r)
    BY <1>3, <2>4, BelowIs DEF Closed
  <2> QED BY <1>2, <2>1, <2>2, <2>5, WithoutIs, ZenonT(60)
<1>5. Below(Root)' \subseteq Below(Root)
  <2> DEFINE S == Below(Root)
  <2>1. S \in SUBSET Id /\ Root \in S /\ Closed(S)
    BY IdFacts, BelowIs
  <2>2. \A i \in Id : ent'[i].children \subseteq ent[i].children
    BY <1>2, WithoutIs
  <2> HIDE DEF S
  <2>3. \A i \in S : ent'[i].children \subseteq S
    BY <2>1, <2>2 DEF Closed
  <2>4. Below(Root)' \subseteq S
    BY <2>1, <2>3 DEF Below, Closed
  <2> QED BY <2>4 DEF S
<1>6. \A h \in handlers' : h.by = r => h.at \notin Below(Root)'
  BY <1>2, <1>5 DEF RemoveEvents
<1> QED BY <1>4, <1>6

\* The stop of a resource (CResource::Stop) leaves nothing of what it made, handlers
\* included, but for what was moved away.
THEOREM StopAlwaysLeavesNothing == Spec => StopLeavesNothing
<1>1. EntityInvariant /\ [Next]_vars =>
        [\A r \in running \ running' :
           /\ \A e \in Live : ent[e].creator = r /\ moved \cap Above(e) = {}
                                => ent'[e].type = "none"
           /\ \A h \in handlers' : h.by = r => h.at \notin Below(Root)']_vars
  BY StoppedIsGone
<1> QED BY <1>1, AlwaysInvariant, PTL DEF Spec, StopLeavesNothing

-----------------------------------------------------------------------------
(* Going up the numbers *)

\* A set of numbers has a least element.
LEMMA LeastNumber ==
  ASSUME NEW T \in SUBSET Nat, T # {}
  PROVE  \E x \in T : \A y \in T : x <= y
<1>1. PICK x \in T : \A y \in T : ~(<<y, x>> \in OpToRel(<, Nat))
  BY NatLessThanWellFounded, WFMin, Zenon
<1>2. \A y \in T : ~(y < x)
  <2> SUFFICES ASSUME NEW y \in T, y < x PROVE FALSE
    OBVIOUS
  <2>1. <<y, x>> \in Nat \X Nat
    OBVIOUS
  <2>2. <<y, x>> \in OpToRel(<, Nat)
    BY <2>1, Zenon DEF OpToRel
  <2> QED BY <1>1, <2>2, Zenon
<1> QED BY <1>2

\* What holds of i, and of each number that follows one of which it holds, holds of j.
LEMMA Climb ==
  ASSUME NEW T, NEW i \in Nat, NEW j \in Nat, i <= j, i \in T,
         \A k \in i .. j - 1 : k \in T => k + 1 \in T
  PROVE  j \in T
<1> DEFINE F == {k \in i .. j : k \notin T}
<1>1. SUFFICES ASSUME F # {} PROVE FALSE
  OBVIOUS
<1>2. PICK x \in F : \A y \in F : x <= y
  <2>1. F \in SUBSET Nat
    OBVIOUS
  <2> QED BY <1>1, <2>1, LeastNumber
<1>3. x # i /\ x \in i .. j
  BY <1>2
<1>4. x - 1 \in i .. j - 1 /\ x - 1 \notin F /\ (x - 1) + 1 = x
  BY <1>2, <1>3
<1>5. x - 1 \in T
  BY <1>4
<1> QED BY <1>2, <1>4, <1>5

-----------------------------------------------------------------------------
(* What an event passes through *)

\* Scripts make entities for the resource they run for, and no root.
Made ==
  \A i \in Id : ent[i].creator \in Resources \cup {0} /\ (ent[i].type = "root" => i = Root)

\* A handler without a VM has been moved, or what it was below has.
Retained ==
  /\ \A h \in handlers : HasVM(h) \/ moved \cap {h.at, ent[h.at].creator} # {}
  /\ \A r \in Resources : since[r] <= now

\* c is the child of e where the walk over its children has come to stamp n.
ChildAt(e, c, n) == c \in ent[e].children /\ ent[c].stamp = n

\* Call g was made by call f, for a parent or for a child.
Link(f, g) ==
  IF f.pos = 0
  THEN f.up /\ ent[f.entity].parent = g.entity /\ g.up /\ ~g.down
  ELSE f.down /\ ChildAt(f.entity, g.entity, f.pos) /\ ~g.up /\ g.down

\* Where nothing was cut, the calls of an event are for entities that exist, each the
\* parent or a child of the last, and what the lists are walked from is still there.
Linked ==
  \A k \in DOMAIN stack :
    /\ stack[k].entity \in Live
    /\ k + 1 \in DOMAIN stack => Link(stack[k], stack[k + 1])
AtHandler ==
  stack # <<>> /\ Top.phase = "call" =>
    \E h \in handlers : h.at = Top.entity /\ h.stamp = Top.pos
AtChild ==
  stack # <<>> /\ Top.phase = "children" /\ Top.pos # 0 =>
    \E c \in Id : ChildAt(Top.entity, c, Top.pos)
Passes == ~cut => Linked /\ AtHandler /\ AtChild

FaultInvariant == Made /\ Retained /\ Passes /\ FaultsExplained

\* Calls that are more than there are ids go round in a circle.
LEMMA LongIsCyclic ==
  ASSUME EntityInvariant, Linked, Len(stack) > MaxIds + 1
  PROVE  \E e \in Id : Cyclic(e)
<1> DEFINE n == Len(stack)
           e(k) == stack[k].entity
<1>1. n \in Nat /\ MaxIds \in Nat /\ DOMAIN stack = 1 .. n /\ MaxIds + 1 < n
  BY EntityTreeAssumption DEF EntityInvariant, TypeOK
<1>2. \A k \in 1 .. n : e(k) \in Live /\ e(k) \in Id
  BY <1>1 DEF Linked, Live
<1>3. \A k \in 1 .. n - 1 : Link(stack[k], stack[k + 1])
  BY <1>1 DEF Linked
<1>4. PICK i \in 2 .. n, j \in 2 .. n : i < j /\ e(i) = e(j)
  <2> DEFINE f == [k \in 2 .. n |-> e(k)]
  <2>1. f \in [2 .. n -> Id]
    BY <1>1, <1>2
  <2>2. IsFiniteSet(2 .. n) /\ Cardinality(2 .. n) = n - 1
    BY <1>1, FS_Interval
  <2>3. IsFiniteSet(Id) /\ Cardinality(Id) = MaxIds
    <3>1. Cardinality(1 .. MaxIds) = IF 1 > MaxIds THEN 0 ELSE MaxIds - 1 + 1
      BY <1>1, FS_Interval
    <3> QED BY <1>1, <3>1, IdFacts DEF Id
  <2>4. Cardinality(Id) < Cardinality(2 .. n)
    BY <1>1, <2>2, <2>3
  <2> HIDE DEF f
  <2>5. PICK x \in 2 .. n, y \in 2 .. n : x # y /\ f[x] = f[y]
    BY <2>1, <2>2, <2>3, <2>4, FS_PigeonHole
  <2>6. e(x) = e(y) /\ (x < y \/ y < x)
    BY <1>1, <2>5 DEF f
  <2> QED BY <2>5, <2>6
<1> HIDE DEF n
<1>5. i \in Nat /\ j \in Nat /\ i + 1 <= j /\ i <= j - 1 /\ j - 1 \in Nat /\ i - 1 \in 1 .. n - 1
  BY <1>1, <1>4
<1>6. Link(stack[i - 1], stack[i])
  <2>1. (i - 1) + 1 = i
    BY <1>5
  <2> QED BY <1>3, <1>5, <2>1
<1>7. CASE ~stack[i].up /\ stack[i].down
  <2> DEFINE T == {k \in 1 .. n : ~stack[k].up /\ stack[k].down}
  <2>1. \A k \in i .. j - 1 : k \in 1 .. n - 1 /\ k \in 1 .. n /\ k + 1 \in 1 .. n
    BY <1>1, <1>4, <1>5
  <2>2. \A k \in i .. j - 1 : k \in T => k + 1 \in T
    BY <1>3, <2>1 DEF Link
  <2>3. i \in T
    BY <1>1, <1>4, <1>7
  <2>4. ASSUME NEW k \in i .. j - 1
        PROVE  e(k + 1) \in ent[e(k)].children
    <3>1. k \in Nat /\ i <= k /\ \A l \in i .. k - 1 : l \in i .. j - 1
      BY <1>5
    <3>2. k \in T
      <4> HIDE DEF T
      <4> QED BY <1>5, <2>2, <2>3, <3>1, Climb
    <3> QED BY <1>3, <2>1, <3>2 DEF Link, ChildAt
  <2> DEFINE c == e(i + 1)
             U == {k \in 1 .. n : e(k) \in Below(c)}
  <2>5. c \in ent[e(i)].children /\ c \in Id /\ i + 1 \in 1 .. n
    BY <1>1, <1>2, <1>5, <2>1, <2>4
  <2>6. i + 1 \in U
    BY <2>5, BelowIs DEF EntityInvariant
  <2>7. \A k \in i + 1 .. j - 1 : k \in U => k + 1 \in U
    <3>1. Closed(Below(c)) /\ Below(c) \subseteq Id
      BY <2>5, BelowIs DEF EntityInvariant
    <3>2. \A k \in i + 1 .. j - 1 : k \in i .. j - 1
      BY <1>5
    <3> QED BY <2>1, <2>4, <3>1, <3>2 DEF Closed
  <2>8. j \in U
    <3>1. i + 1 \in Nat
      BY <1>5
    <3> HIDE DEF U
    <3> QED BY <1>5, <2>6, <2>7, <3>1, Climb
  <2>9. e(i) \in Below(c)
    BY <1>4, <2>8
  <2> QED BY <1>1, <1>2, <1>4, <2>5, <2>9 DEF Cyclic
<1>8. CASE stack[i].up /\ ~stack[i].down
  <2> DEFINE T == {k \in 1 .. n : stack[k].up /\ ~stack[k].down}
  <2>1. \A k \in i .. j - 1 : k \in 1 .. n - 1 /\ k \in 1 .. n /\ k + 1 \in 1 .. n
    BY <1>1, <1>4, <1>5
  <2>2. \A k \in i .. j - 1 : k \in T => k + 1 \in T
    BY <1>3, <2>1 DEF Link
  <2>3. i \in T
    BY <1>1, <1>4, <1>8
  <2>4. ASSUME NEW k \in i .. j - 1
        PROVE  e(k) \in ent[e(k + 1)].children
    <3>1. k \in Nat /\ i <= k /\ \A l \in i .. k - 1 : l \in i .. j - 1
      BY <1>5
    <3>2. k \in T
      <4> HIDE DEF T
      <4> QED BY <1>5, <2>2, <2>3, <3>1, Climb
    <3>3. ent[e(k)].parent = e(k + 1)
      BY <1>3, <2>1, <3>2 DEF Link
    <3> QED BY <1>2, <2>1, <3>3 DEF EntityInvariant, TreeConsistent
  <2> DEFINE U == {k \in 1 .. n : e(i) \in Below(e(k))}
  <2>5. i \in U
    BY <1>1, <1>2, <1>4, BelowIs DEF EntityInvariant
  <2>6. \A k \in i .. (j - 1) - 1 : k \in U => k + 1 \in U
    <3> SUFFICES ASSUME NEW k \in i .. (j - 1) - 1, k \in U PROVE k + 1 \in U
      OBVIOUS
    <3>1. k \in i .. j - 1
      BY <1>5
    <3>2. e(k) \in ent[e(k + 1)].children /\ e(k) \in Id /\ e(k + 1) \in Id
      BY <1>2, <2>1, <2>4, <3>1
    <3>3. e(k) \in Below(e(k + 1))
      BY <3>2, BelowIs DEF EntityInvariant, Closed
    <3>4. Below(e(k)) \subseteq Below(e(k + 1))
      <4>1. Below(e(k + 1)) \in SUBSET Id /\ Closed(Below(e(k + 1)))
        BY <3>2, BelowIs DEF EntityInvariant
      <4> QED BY <3>2, <3>3, <4>1, BelowIs DEF EntityInvariant
    <3> QED BY <2>1, <3>1, <3>4
  <2>7. j - 1 \in U
    <3> HIDE DEF U
    <3> QED BY <1>5, <2>5, <2>6, Climb
  <2>8. e(j - 1) \in ent[e(j)].children
    <3>1. j - 1 \in i .. j - 1 /\ (j - 1) + 1 = j
      BY <1>5
    <3> QED BY <2>4, <3>1
  <2> QED BY <1>1, <1>2, <1>4, <2>7, <2>8 DEF Cyclic
<1> QED BY <1>6, <1>7, <1>8 DEF Link

\* Handlers and entities that are there before stay with what they had been made by.
LEMMA MadeKept ==
  ASSUME EntityInvariant, Made, [Next]_vars
  PROVE  Made'
<1>1. ASSUME NEW D, ent' = Without(D)
      PROVE  Made'
  BY <1>1, WithoutIs DEF EntityInvariant, Made
<1>2. ASSUME NEW r \in Resources, NEW type \in {"custom", "timer"}, CreateEntity(r, type)
      PROVE  Made'
  <2> DEFINE i == Last(free)
  <2>1. Created(i, r, type)
    BY <1>2, CreatedIs
  <2> HIDE DEF i
  <2>2. ent'[i].type = type /\ ent'[i].creator = r
    BY <2>1 DEF Created
  <2>3. \A j \in Id \ {i} : ent'[j].type = ent[j].type /\ ent'[j].creator = ent[j].creator
    BY <2>1 DEF Created
  <2>4. ASSUME NEW j \in Id
        PROVE  ent'[j].creator \in Resources \cup {0} /\ (ent'[j].type = "root" => j = Root)
    <3>1. CASE j = i
      BY <2>2, <3>1
    <3>2. CASE j # i
      BY <2>3, <3>2 DEF Made
    <3> QED BY <3>1, <3>2
  <2> QED BY <2>4 DEF Made
<1>3. ASSUME NEW r \in Resources, NEW e \in Id, NEW p \in Id, SetParent(r, e, p)
      PROVE  Made'
  <2>1. Reparented(e, p)
    BY <1>3, ReparentedIs
  <2> QED BY <2>1 DEF Reparented, Made
<1>4. CASE UNCHANGED ent
  BY <1>4 DEF Made
<1>5. CASE \E r \in Resources, e \in Id : DeleteEntity(r, e) \/ KillTimer(r, e)
  BY <1>1, <1>4, <1>5 DEF DeleteEntity, KillTimer, ScriptDeletes, DestroyBranch, Destroy, Fails,
     tree
<1>6. CASE \/ \E r \in Resources : StopResource(r)
           \/ StartFails
  <2>1. PICK r \in Resources : Stop(r)
    BY <1>6, WhoStops
  <2> QED BY SMTT(30), <1>1, <1>4, <2>1 DEF Stop, DestroyBranch, Destroy, Fails, tree
<1>7. CASE \/ \E r \in Resources :
                \/ \E e \in Id, f \in Functions : AddEvent(r, e, f)
                \/ \E h \in handlers : RemoveEvent(r, h)
                \/ \E q \in Resources : StartResource(q, r)
           \/ \E e \in Id : CallEvent(e)
           \/ StartReturns \/ NextHandler \/ HandlerReturns \/ NextChild \/ UNCHANGED vars
  BY <1>4, <1>7 DEF AddEvent, RemoveEvent, StartResource, StartReturns, CallEvent, NextHandler,
     HandlerReturns, NextChild, tree, vars
<1> QED BY <1>2, <1>3, <1>5, <1>6, <1>7 DEF Next

\* Of what an event passes through, what stays as it was does not break it.
LEMMA StaysLinked ==
  ASSUME EntityInvariant, Linked, stack' = stack,
         \A i \in Passing : /\ i \in Live' /\ ent'[i].parent = ent[i].parent
                            /\ ent'[i].stamp = ent[i].stamp
                            /\ ent[i].children \cap Passing \subseteq ent'[i].children
  PROVE  Linked'
<1>1. stack \in Seq(Call)
  BY DEF EntityInvariant, TypeOK
<1>2. \A k \in DOMAIN stack : stack[k].entity \in Passing
  BY DEF Passing
<1>3. ASSUME NEW k \in DOMAIN stack, k + 1 \in DOMAIN stack
      PROVE  Link(stack[k], stack[k + 1])'
  BY <1>2, <1>3 DEF Linked, Link, ChildAt
<1> QED BY <1>2, <1>3 DEF Linked

\* An entity that is made is nothing that was passed through.
LEMMA CreatePasses ==
  ASSUME EntityInvariant, FaultInvariant, NEW r \in Resources,
         NEW type \in {"custom", "timer"}, CreateEntity(r, type)
  PROVE  Retained' /\ Passes' /\ FaultsExplained'
<1> DEFINE i == Last(free)
<1>1. Created(i, r, type)
  BY CreatedIs
<1> HIDE DEF i
<1>2. /\ fault = "none" /\ (stack # <<>> => Top.phase = "call")
      /\ UNCHANGED <<running, starting, since, handlers, stack, expected, called, cut, fault,
                     moved>>
  BY DEF CreateEntity, Script, Act, event, resources, Top
<1>3. Live \subseteq Live' /\ i \notin Live /\ Live \subseteq Id
  BY <1>1 DEF Created, Live
<1>4. Retained'
  <2>1. \A h \in handlers : h.at \in Live
    BY DEF EntityInvariant, TreeConsistent
  <2>2. \A h \in handlers : ent'[h.at].creator = ent[h.at].creator
    BY <1>1, <1>3, <2>1 DEF Created
  <2>3. now' = now + 1 /\ now \in Nat /\ since \in [Resources -> Nat]
    BY DEF CreateEntity, EntityInvariant, TypeOK
  <2>4. \A s \in Resources : since'[s] <= now'
    BY <1>2, <2>3 DEF FaultInvariant, Retained
  <2> QED BY <1>2, <2>2, <2>4 DEF FaultInvariant, Retained, HasVM
<1>5. Passes'
  <2> SUFFICES ASSUME ~cut' PROVE Linked' /\ AtHandler' /\ AtChild'
    BY DEF Passes
  <2>1. Linked /\ AtHandler /\ Passing \subseteq Live
    BY <1>2 DEF FaultInvariant, Passes, Linked, Passing
  <2>2. \A j \in Passing : /\ j \in Live' /\ ent'[j].parent = ent[j].parent
                           /\ ent'[j].stamp = ent[j].stamp
                           /\ ent[j].children \cap Passing \subseteq ent'[j].children
    BY ZenonT(60), <1>1, <1>3, <2>1 DEF Created
  <2>3. Linked'
    BY <1>2, <2>1, <2>2, StaysLinked
  <2>4. AtHandler' /\ AtChild'
    BY <1>2, <2>1 DEF AtHandler, AtChild, Top
  <2> QED BY <2>3, <2>4
<1>6. FaultsExplained'
  BY <1>2 DEF FaultsExplained
<1> QED BY <1>4, <1>5, <1>6

\* A branch that goes takes its handlers with it, and nothing that is passed through
\* unless it cuts the event.
LEMMA BranchPasses ==
  ASSUME EntityInvariant, FaultInvariant, NEW D \in SUBSET Live, D \cap Resources = {}, NEW H,
         fault = "none", stack # <<>> => Top.phase = "call", BranchGoes(D, H),
         \A h \in H : HasVM(h)' \/ moved \cap {h.at, ent[h.at].creator} # {}
  PROVE  Retained' /\ Passes' /\ FaultsExplained'
<1>1. /\ ent' = Without(D) /\ moved' = moved \ D
      /\ handlers' = {h \in H : h.at \notin D} /\ H \subseteq handlers
      /\ stack' = [k \in DOMAIN stack |->
           IF stack[k].entity \in D THEN [stack[k] EXCEPT !.entity = 0] ELSE stack[k]]
      /\ cut' = (cut \/ D \cap Passing # {} \/ ~(UnderCall \subseteq H))
      /\ fault' = fault /\ since' = since /\ now' = now
  BY DEF BranchGoes, DestroyBranch, Destroy
<1>2. D \subseteq Id /\ Live \subseteq Id
  BY DEF Live
<1>3. \A i \in Id \ D :
        /\ ent'[i].type = ent[i].type /\ ent'[i].creator = ent[i].creator
        /\ ent'[i].parent = ent[i].parent /\ ent'[i].stamp = ent[i].stamp
        /\ ent'[i].children = ent[i].children \ D
  BY <1>1, WithoutIs DEF EntityInvariant
<1>4. Live \ D \subseteq Live'
  BY <1>2, <1>3 DEF Live
<1>5. Retained'
  <2> SUFFICES ASSUME NEW h \in H, h \in handlers, h.at \notin D, ~HasVM(h)'
               PROVE  moved' \cap {h.at, ent'[h.at].creator} # {}
    BY <1>1 DEF FaultInvariant, Retained, HasVM
  <2>1. h.at \in Live /\ h.at \in Id
    BY <1>2 DEF EntityInvariant, TreeConsistent
  <2>2. ent[h.at].creator \in Resources \cup {0} /\ 0 \notin D
    BY <1>2, <2>1, IdFacts DEF FaultInvariant, Made
  <2>3. moved \cap {h.at, ent[h.at].creator} # {}
    OBVIOUS
  <2>4. ent'[h.at].creator = ent[h.at].creator
    BY <1>3, <2>1
  <2> QED BY <1>1, <2>2, <2>3, <2>4
<1>6. Passes'
  <2> SUFFICES ASSUME ~cut' PROVE Linked' /\ AtHandler' /\ AtChild'
    BY DEF Passes
  <2>1. /\ Linked /\ AtHandler /\ Passing \subseteq Live /\ D \cap Passing = {}
        /\ UnderCall \subseteq H
    BY <1>1 DEF FaultInvariant, Passes, Linked, Passing
  <2>2. stack' = stack
    <3>1. \A k \in DOMAIN stack : stack[k].entity \notin D
      BY <2>1 DEF Passing
    <3>2. stack' = [k \in DOMAIN stack |-> stack[k]]
      BY <1>1, <3>1
    <3>3. stack \in Seq(Call)
      BY DEF EntityInvariant, TypeOK
    <3> QED BY <3>2, <3>3
  <2>3. \A j \in Passing : /\ j \in Live' /\ ent'[j].parent = ent[j].parent
                           /\ ent'[j].stamp = ent[j].stamp
                           /\ ent[j].children \cap Passing \subseteq ent'[j].children
    BY <1>2, <1>3, <1>4, <2>1
  <2>4. Linked'
    BY <2>1, <2>2, <2>3, StaysLinked
  <2>5. AtHandler' /\ AtChild'
    <3> SUFFICES ASSUME stack # <<>> PROVE AtHandler' /\ AtChild'
      BY <2>2 DEF AtHandler, AtChild
    <3>1. Top' = Top /\ Top.phase = "call"
      BY <2>2 DEF Top
    <3>2. Top.entity \in Passing
      <4>1. Len(stack) \in DOMAIN stack
        BY DEF EntityInvariant, TypeOK
      <4> QED BY <4>1 DEF Passing, Top, Last
    <3>3. PICK h \in handlers : h.at = Top.entity /\ h.stamp = Top.pos
      BY <2>1, <3>1 DEF AtHandler
    <3>4. h \in H
      BY <2>1, <3>3 DEF UnderCall, Top
    <3>5. h \in handlers'
      BY <1>1, <2>1, <3>2, <3>3, <3>4
    <3> QED BY <3>1, <3>3, <3>5 DEF AtHandler, AtChild
  <2> QED BY <2>4, <2>5
<1>7. FaultsExplained'
  BY <1>1 DEF FaultsExplained
<1> QED BY <1>5, <1>6, <1>7

\* An act that fails has met a cycle, or what a manager points at.
LEMMA FailsExplained ==
  ASSUME EntityInvariant, FaultInvariant, NEW f \in {"dangling", "recursion"}, Fails(f),
         f = "recursion" => \E e \in Id : Cyclic(e)
  PROVE  Retained' /\ Passes' /\ FaultsExplained'
<1>1. fault' = f
  BY DEF Fails
<1>2. UNCHANGED <<free, ent, listed, running, starting, since, handlers, now, stack, expected,
                  called, cut, moved>>
  BY DEF Fails, tree, event, resources
<1>3. Retained' /\ Passes'
  BY <1>2 DEF FaultInvariant, Retained, HasVM, Passes, Linked, Link, ChildAt, AtHandler, AtChild, Top,
     Live
<1>4. ASSUME NEW e \in Id, Cyclic(e)
      PROVE  Cyclic(e)'
  BY <1>2, <1>4 DEF Cyclic, Below, Closed
<1>5. FaultsExplained'
  BY <1>1, <1>4 DEF FaultsExplained
<1> QED BY <1>3, <1>5

\* deleteEntity and killTimer.
LEMMA DeletePasses ==
  ASSUME EntityInvariant, FaultInvariant, NEW r \in Resources, NEW e \in Id,
         DeleteEntity(r, e) \/ KillTimer(r, e)
  PROVE  Retained' /\ Passes' /\ FaultsExplained'
<1>1. fault = "none" /\ (stack # <<>> => Top.phase = "call")
  BY DEF DeleteEntity, KillTimer, Script, Act, Top
<1>2. e \in Live /\ e \notin Resources
  <2>1. CASE DeleteEntity(r, e)
    BY <2>1 DEF DeleteEntity, Deletable, EntityInvariant, Identified, Live
  <2>2. CASE KillTimer(r, e)
    BY <2>2 DEF KillTimer, EntityInvariant, TreeConsistent, Identified, Live
  <2> QED BY <2>1, <2>2
<1>3. \/ Cyclic(e) /\ Fails("recursion")
      \/ Fails("dangling")
      \/ ScriptDeletes(Below(e)) /\ Below(e) \cap Managed \subseteq {e}
  BY DEF DeleteEntity, KillTimer
<1>4. CASE Cyclic(e) /\ Fails("recursion")
  BY <1>4, FailsExplained
<1>5. CASE Fails("dangling")
  BY <1>5, FailsExplained
<1>6. CASE ScriptDeletes(Below(e)) /\ Below(e) \cap Managed \subseteq {e}
  <2> DEFINE D == Below(e)
  <2>1. D \in SUBSET Live /\ D \cap Resources = {}
    BY <1>2, <1>6, BelowLive DEF Managed, EntityInvariant
  <2>2. BranchGoes(D, handlers)
    BY <1>6 DEF BranchGoes, ScriptDeletes, resources, EntityInvariant, TreeConsistent
  <2>3. UNCHANGED <<running, since>>
    BY <1>6 DEF ScriptDeletes, resources
  <2>4. \A h \in handlers : HasVM(h)' \/ moved \cap {h.at, ent[h.at].creator} # {}
    BY <2>3 DEF FaultInvariant, Retained, HasVM
  <2> HIDE DEF D
  <2> QED BY <1>1, <2>1, <2>2, <2>4, BranchPasses
<1> QED BY <1>3, <1>4, <1>5, <1>6

\* setEntityParent of what is passed through cuts the event.
LEMMA SetParentPasses ==
  ASSUME EntityInvariant, FaultInvariant, NEW r \in Resources, NEW e \in Id, NEW p \in Id,
         SetParent(r, e, p)
  PROVE  Retained' /\ Passes' /\ FaultsExplained'
<1>1. Reparented(e, p)
  BY ReparentedIs
<1>2. /\ fault = "none" /\ (stack # <<>> => Top.phase = "call")
      /\ moved' = moved \cup {e} /\ cut' = (cut \/ e \in Passing)
      /\ UNCHANGED <<running, starting, since, handlers, stack, fault>>
      /\ now' = now + 1
  BY DEF SetParent, Script, Act, Top, resources
<1>3. Live' = Live /\ Live \subseteq Id
  <2>1. \A i \in Id : ent'[i].type = ent[i].type
    BY <1>1 DEF Reparented
  <2> QED BY <2>1 DEF Live
<1>4. Retained'
  <2>1. \A h \in handlers : h.at \in Live
    BY DEF EntityInvariant, TreeConsistent
  <2>2. \A h \in handlers : ent'[h.at].creator = ent[h.at].creator
    BY <1>1, <1>3, <2>1 DEF Reparented
  <2>3. \A s \in Resources : since'[s] <= now'
    BY <1>2 DEF FaultInvariant, Retained, EntityInvariant, TypeOK
  <2> QED BY <1>2, <2>2, <2>3 DEF FaultInvariant, Retained, HasVM
<1>5. Passes'
  <2> SUFFICES ASSUME ~cut' PROVE Linked' /\ AtHandler' /\ AtChild'
    BY DEF Passes
  <2>1. Linked /\ AtHandler /\ Passing \subseteq Live /\ e \notin Passing
    BY <1>2 DEF FaultInvariant, Passes, Linked, Passing
  <2>2. \A j \in Passing : /\ j \in Live' /\ ent'[j].parent = ent[j].parent
                           /\ ent'[j].stamp = ent[j].stamp
                           /\ ent[j].children \cap Passing \subseteq ent'[j].children
    BY <1>1, <1>3, <2>1 DEF Reparented
  <2>3. Linked'
    BY <1>2, <2>1, <2>2, StaysLinked
  <2>4. AtHandler' /\ AtChild'
    BY <1>2, <2>1 DEF AtHandler, AtChild, Top
  <2> QED BY <2>3, <2>4
<1>6. FaultsExplained'
  BY <1>2 DEF FaultsExplained
<1> QED BY <1>4, <1>5, <1>6

\* A handler is added by a resource that runs; one that is removed cuts the event if it
\* is under call.
LEMMA EventsPasses ==
  ASSUME EntityInvariant, FaultInvariant, NEW r \in Resources,
         \/ \E e \in Id, f \in Functions : AddEvent(r, e, f)
         \/ \E h \in handlers : RemoveEvent(r, h)
  PROVE  Retained' /\ Passes' /\ FaultsExplained'
<1>1. /\ fault = "none" /\ (stack # <<>> => Top.phase = "call")
      /\ UNCHANGED <<ent, running, starting, since, stack, fault, moved>>
  BY DEF AddEvent, RemoveEvent, Script, Act, Top, event, resources
<1>2. FaultsExplained'
  BY <1>1 DEF FaultsExplained
<1>3. ASSUME Linked
      PROVE  Linked' /\ AtChild'
  BY <1>1, <1>3 DEF Linked, Link, ChildAt, AtChild, Live, Top
<1>4. CASE \E e \in Id, f \in Functions : AddEvent(r, e, f)
  <2>1. PICK e \in Id, f \in Functions : AddEvent(r, e, f)
    BY <1>4
  <2>a. PICK h : h = [at |-> e, by |-> r, function |-> f, stamp |-> now']
    OBVIOUS
  <2>2. handlers' = handlers \cup {h} /\ r \in running /\ cut' = cut /\ now' = now + 1
    BY <2>1, <2>a DEF AddEvent, Script, event
  <2>3. h.by = r /\ h.stamp = now'
    BY <2>a
  <2>4. Retained'
    <3>1. now \in Nat /\ \A s \in Resources : since[s] \in Nat /\ since[s] <= now
      BY DEF FaultInvariant, Retained, EntityInvariant, TypeOK
    <3>2. since[r] < now' /\ \A s \in Resources : since[s] <= now'
      BY <2>2, <3>1
    <3>3. HasVM(h)'
      BY <1>1, <2>2, <2>3, <3>2 DEF HasVM
    <3> QED BY <1>1, <2>2, <3>2, <3>3 DEF FaultInvariant, Retained, HasVM
  <2>5. AtHandler => AtHandler'
    BY <1>1, <2>2 DEF AtHandler, Top
  <2> QED BY <1>2, <1>3, <2>2, <2>4, <2>5 DEF FaultInvariant, Passes
<1>5. CASE \E h \in handlers : RemoveEvent(r, h)
  <2>1. PICK h \in handlers : RemoveEvent(r, h)
    BY <1>5
  <2>2. /\ handlers' = handlers \ {h}
        /\ cut' = (cut \/ h \in UnderCall) /\ now' = now
    BY <2>1 DEF RemoveEvent
  <2>3. Retained'
    BY <1>1, <2>2 DEF FaultInvariant, Retained, HasVM
  <2>4. AtHandler /\ ~cut' => AtHandler'
    BY <1>1, <2>2 DEF AtHandler, UnderCall, Top
  <2> QED BY <1>2, <1>3, <2>2, <2>3, <2>4 DEF FaultInvariant, Passes
<1> QED BY <1>4, <1>5

\* A handler that the stop of its resource does not find is at an entity that, or whose
\* resource, has been moved.
LEMMA MissedIsMoved ==
  ASSUME EntityInvariant, Made, NEW i \in Live, i \notin Below(Root), i \notin moved
  PROVE  ent[i].creator \in moved /\ ent[i].creator \in Resources
<1> USE DEF EntityInvariant
<1>1. i \in Id /\ ent[i].type \in {"root", "resource", "custom", "timer"} /\ Root \in Id
  BY IdFacts DEF Live, TypeOK, Entity
<1>2. Root \in Below(Root) /\ Closed(Below(Root)) /\ Below(Root) \subseteq Id
  BY <1>1, BelowIs
<1>3. ASSUME NEW j \in Id, NEW p \in Below(Root), ent[j].parent = p
      PROVE  j \in Below(Root)
  BY <1>2, <1>3 DEF TreeConsistent, Closed
<1>4. ent[i].type # "root"
  BY <1>1, <1>2 DEF Made
<1>5. ASSUME NEW j \in Live \ moved, ent[j].type = "resource"
      PROVE  j \in Below(Root)
  <2>1. ent[j].parent \in Id /\ ent[ent[j].parent].type = "root" /\ j \in Id
    BY <1>5 DEF Unmoved, Live
  <2>2. ent[j].parent = Root
    BY <2>1 DEF Made
  <2> QED BY <1>2, <1>3, <2>1, <2>2
<1>6. ent[i].parent = ent[i].creator /\ ent[i].creator \in Resources
  BY <1>1, <1>4, <1>5 DEF Unmoved
<1>7. ent[i].creator \in Live /\ ent[ent[i].creator].type = "resource"
  BY <1>6 DEF TreeConsistent, Identified
<1> QED BY <1>1, <1>3, <1>5, <1>6, <1>7

\* A stop takes the handlers of its resource from everything below the root, and from an
\* event what it was passing through.
LEMMA StopPasses ==
  ASSUME EntityInvariant, FaultInvariant, \/ \E r \in Resources : StopResource(r)
                                          \/ StartFails
  PROVE  Retained' /\ Passes' /\ FaultsExplained'
<1>1. PICK r \in Resources : Stop(r)
  BY WhoStops
<1>2. fault = "none" /\ (stack # <<>> => Top.phase = "call")
  BY WhoStops DEF Top
<1>3. r \in Id /\ Root \in Id
  BY IdFacts
<1>4. CASE Fails("recursion") /\ (Cyclic(Root) \/ Cyclic(r))
  BY <1>3, <1>4, FailsExplained
<1>5. CASE Fails("dangling")
  BY <1>5, FailsExplained
<1>6. CASE ~Fails("recursion") /\ ~Fails("dangling")
  <2> DEFINE D == Below(r) \ {r}
  <2>1. /\ D \in SUBSET Live /\ D \cap Resources = {}
        /\ BranchGoes(D, RemoveEvents(r)) /\ running' = running \ {r}
    BY <1>1, <1>6, StopGoes
  <2>2. since' = since
    BY <2>1 DEF BranchGoes
  <2>3. ASSUME NEW h \in RemoveEvents(r)
        PROVE  HasVM(h)' \/ moved \cap {h.at, ent[h.at].creator} # {}
    <3>1. h \in handlers /\ (h.by = r => h.at \notin Below(Root)) /\ h.at \in Live
      BY DEF RemoveEvents, EntityInvariant, TreeConsistent
    <3>2. CASE h.by = r
      BY <3>1, <3>2, MissedIsMoved DEF FaultInvariant
    <3>3. CASE h.by # r
      BY <2>1, <2>2, <3>1, <3>3 DEF FaultInvariant, Retained, HasVM
    <3> QED BY <3>2, <3>3
  <2> HIDE DEF D
  <2> QED BY <1>2, <2>1, <2>3, BranchPasses
<1>7. CASE Fails("recursion") /\ ~(Cyclic(Root) \/ Cyclic(r))
  <2>1. fault' = "recursion"
    BY <1>7 DEF Fails
  <2>2. Fails("dangling") \/ UNCHANGED fault
    BY <1>1, <1>7, ZenonT(60) DEF Stop, DestroyBranch
  <2> QED BY <1>2, <2>1, <2>2 DEF Fails
<1> QED BY <1>4, <1>5, <1>6, <1>7

\* A resource that starts has no handlers yet, but for what its last stop has missed.
LEMMA StartPasses ==
  ASSUME EntityInvariant, FaultInvariant, \/ \E q, r \in Resources : StartResource(q, r)
                                          \/ StartReturns
  PROVE  Retained' /\ Passes' /\ FaultsExplained'
<1>1. /\ UNCHANGED <<ent, handlers, stack, cut, fault, moved>>
      /\ fault = "none" /\ running \subseteq running' /\ now' \in {now, now + 1}
      /\ \A r \in Resources : \/ since'[r] = since[r]
                            \/ /\ r \notin running /\ since'[r] = now'
                               /\ now' = now + 1
  BY StartStep
<1>2. now \in Nat /\ \A r \in Resources : since[r] \in Nat /\ since[r] <= now
  BY DEF FaultInvariant, Retained, EntityInvariant, TypeOK
<1>3. \A h \in handlers : h.by \in Resources
  BY DEF EntityInvariant, TypeOK, Handler
<1>4. \A h \in handlers : HasVM(h) => HasVM(h)'
  BY <1>1, <1>3 DEF HasVM
<1>5. \A r \in Resources : since'[r] <= now'
  BY <1>1, <1>2
<1>6. Retained'
  BY <1>1, <1>4, <1>5 DEF FaultInvariant, Retained
<1>7. Passes' /\ FaultsExplained'
  BY <1>1 DEF FaultInvariant, Passes, Linked, Link, ChildAt, AtHandler, AtChild, Top, Live,
     FaultsExplained
<1> QED BY <1>6, <1>7

\* A call that is replaced by one for the same entity leaves the others as they were.
LEMMA TopReplaced ==
  ASSUME EntityInvariant, Linked, stack # <<>>, NEW f \in Call, f.entity = Top.entity,
         f.up = Top.up, f.down = Top.down, stack' = Append(Front(stack), f), ent' = ent
  PROVE  Linked' /\ Top' = f
<1>1. stack \in Seq(Call)
  BY DEF EntityInvariant, TypeOK
<1>2. /\ stack' \in Seq(Call) /\ Len(stack') = Len(stack) /\ Len(stack) \in Nat \ {0}
      /\ \A k \in 1 .. Len(stack) : stack'[k] = IF k = Len(stack) THEN f ELSE stack[k]
  BY SMTT(30), <1>1, SequenceParts
<1>3. DOMAIN stack = 1 .. Len(stack) /\ DOMAIN stack' = 1 .. Len(stack) /\ Live' = Live
  BY <1>1, <1>2 DEF Live
<1>4. Top = stack[Len(stack)] /\ Top' = f
  BY <1>2 DEF Top, Last
<1>5. ASSUME NEW k \in 1 .. Len(stack)
      PROVE  /\ stack'[k].entity = stack[k].entity
             /\ stack'[k].up = stack[k].up /\ stack'[k].down = stack[k].down
             /\ k # Len(stack) => stack'[k] = stack[k]
  BY <1>2, <1>4
<1>6. ASSUME NEW k \in 1 .. Len(stack), k + 1 \in 1 .. Len(stack)
      PROVE  Link(stack[k], stack[k + 1])'
  <2>1. Link(stack[k], stack[k + 1]) /\ stack'[k] = stack[k]
    BY <1>2, <1>3, <1>5, <1>6 DEF Linked
  <2> QED BY <1>5, <1>6, <2>1, Zenon DEF Link, ChildAt
<1> QED BY ZenonT(60), <1>3, <1>4, <1>5, <1>6 DEF Linked

\* So does one that makes another.
LEMMA TopPushed ==
  ASSUME EntityInvariant, Linked, stack # <<>>, NEW f \in Call, f.entity = Top.entity,
         f.up = Top.up, f.down = Top.down, NEW g \in Call, g.entity \in Live, Link(f, g),
         stack' = Front(stack) \o <<f, g>>, ent' = ent
  PROVE  Linked' /\ Top' = g
<1>1. stack \in Seq(Call)
  BY DEF EntityInvariant, TypeOK
<1>2. /\ stack' \in Seq(Call) /\ Len(stack') = Len(stack) + 1 /\ Len(stack) \in Nat \ {0}
      /\ \A k \in 1 .. Len(stack) + 1 :
           stack'[k] = IF k = Len(stack) THEN f
                       ELSE IF k = Len(stack) + 1 THEN g ELSE stack[k]
  <2>1. Len(stack) \in Nat \ {0}
    BY <1>1, SequenceParts
  <2> DEFINE t == Front(stack) \o <<f, g>>
  <2>2. WithTwo(t, stack, f, g, Call)
    BY <1>1, SequenceAndTwo, Zenon
  <2>3. stack' = t
    OBVIOUS
  <2> HIDE DEF t
  <2> QED BY <2>1, <2>2, <2>3 DEF WithTwo
<1>3. DOMAIN stack = 1 .. Len(stack) /\ DOMAIN stack' = 1 .. Len(stack) + 1 /\ Live' = Live
  BY <1>1, <1>2 DEF Live
<1>a. /\ Len(stack) + 1 \in 1 .. Len(stack) + 1 /\ Len(stack) + 1 # Len(stack)
      /\ \A k \in 1 .. Len(stack) : k \in 1 .. Len(stack) + 1 /\ k # Len(stack) + 1
  BY <1>2
<1>b. Top = stack[Len(stack)]
  BY DEF Top, Last
<1>c. Len(stack) \in 1 .. Len(stack)
  BY <1>2
<1>4. Top' = g /\ stack'[Len(stack)] = f /\ stack'[Len(stack) + 1] = g
  <2>1. stack'[Len(stack) + 1] = g /\ stack'[Len(stack)] = f
    BY <1>2, <1>a, <1>c
  <2> QED BY <1>2, <2>1 DEF Top, Last
<1>5. ASSUME NEW k \in 1 .. Len(stack)
      PROVE  /\ stack'[k].entity = stack[k].entity
             /\ stack'[k].up = stack[k].up /\ stack'[k].down = stack[k].down
             /\ k # Len(stack) => stack'[k] = stack[k]
  <2>1. stack'[k] = IF k = Len(stack) THEN f ELSE stack[k]
    BY <1>2, <1>a
  <2> QED BY <2>1, <1>b
<1>6. ASSUME NEW k \in 1 .. Len(stack)
      PROVE  Link(stack'[k], stack'[k + 1])
  <2>1. CASE k = Len(stack)
    BY <1>4, <2>1
  <2>2. CASE k # Len(stack)
    <3>1. k + 1 \in 1 .. Len(stack)
      BY <1>2, <2>2
    <3>2. Link(stack[k], stack[k + 1])
      BY <1>3, <3>1, Zenon DEF Linked
    <3>3. /\ stack'[k] = stack[k] /\ stack'[k + 1].entity = stack[k + 1].entity
          /\ stack'[k + 1].up = stack[k + 1].up /\ stack'[k + 1].down = stack[k + 1].down
      BY <1>5, <2>2, <3>1
    <3> QED BY <3>2, <3>3, Zenon DEF Link
  <2> QED BY <2>1, <2>2
<1>7. ASSUME NEW k \in 1 .. Len(stack)
      PROVE  Link(stack[k], stack[k + 1])'
  BY <1>6 DEF Link, ChildAt
<1>8. \A k \in 1 .. Len(stack) + 1 : stack'[k].entity \in Live
  <2> SUFFICES ASSUME NEW k \in 1 .. Len(stack) + 1 PROVE stack'[k].entity \in Live
    OBVIOUS
  <2>1. CASE k = Len(stack) + 1
    BY <1>4, <2>1
  <2>2. CASE k # Len(stack) + 1
    <3>1. k \in 1 .. Len(stack)
      <4>1. Len(stack) \in Nat
        BY <1>2
      <4> QED BY <2>2, <4>1
    <3>2. stack[k].entity \in Live
      BY <1>3, <3>1 DEF Linked
    <3> QED BY <1>5, <3>1, <3>2
  <2> QED BY <2>1, <2>2
<1>9. \A k \in 1 .. Len(stack) + 1 : k + 1 \in 1 .. Len(stack) + 1 => k \in 1 .. Len(stack)
  BY <1>2
<1> QED BY <1>3, <1>4, <1>7, <1>8, <1>9 DEF Linked

\* An event begins where nothing has been passed through.
LEMMA CallEventPasses ==
  ASSUME EntityInvariant, FaultInvariant, NEW e \in Id, CallEvent(e)
  PROVE  Retained' /\ Passes' /\ FaultsExplained'
<1>1. /\ e \in Live /\ stack' = <<Frame(e, TRUE, TRUE)>> /\ fault' = "none"
      /\ UNCHANGED <<ent, running, starting, since, handlers, moved, now>>
  BY DEF CallEvent, Act, tree, resources
<1>2. Retained' /\ FaultsExplained' /\ Live' = Live
  BY <1>1 DEF FaultInvariant, Retained, HasVM, FaultsExplained, Live
<1>3. Top' = Frame(e, TRUE, TRUE) /\ DOMAIN stack' = {1} /\ stack'[1] = Frame(e, TRUE, TRUE)
  BY <1>1 DEF Top, Last
<1>4. Frame(e, TRUE, TRUE).entity = e /\ Frame(e, TRUE, TRUE).phase = "handlers"
  BY DEF Frame
<1>5. Linked'
  <2>1. \A k \in DOMAIN stack' : k = 1 /\ k + 1 \notin DOMAIN stack'
    BY <1>3
  <2>2. stack'[1].entity \in Live'
    BY <1>1, <1>2, <1>3, <1>4
  <2> QED BY <2>1, <2>2 DEF Linked
<1>6. AtHandler' /\ AtChild'
  BY <1>3, <1>4 DEF AtHandler, AtChild
<1> QED BY <1>2, <1>5, <1>6 DEF Passes

\* A long event has met a cycle, or was cut.
LEMMA LongExplained ==
  ASSUME EntityInvariant, FaultInvariant, Len(stack) > MaxIds + 1, ent' = ent, cut' = cut
  PROVE  (cut \/ \E e \in Id : Cyclic(e))'
<1>1. cut \/ \E e \in Id : Cyclic(e)
  BY LongIsCyclic DEF FaultInvariant, Passes
<1>2. \A e \in Id : Cyclic(e)' <=> Cyclic(e)
  BY DEF Cyclic, Below, Closed
<1> QED BY <1>1, <1>2

\* The next handler is there to return to; after the last the event goes up.
LEMMA NextHandlerPasses ==
  ASSUME EntityInvariant, FaultInvariant, NextHandler
  PROVE  Retained' /\ Passes' /\ FaultsExplained'
<1> DEFINE S == After(HandlersOf(Top.entity), Top.pos)
<1>1. /\ stack # <<>> /\ Top.phase = "handlers" /\ fault = "none"
      /\ UNCHANGED <<ent, running, starting, since, handlers, moved, cut, now>>
  BY DEF NextHandler, Running, tree, resources
<1>2. Top \in Call /\ Top.entity \in Live
  BY <1>1, UnderWay
<1>3. Retained' /\ Live' = Live
  BY <1>1 DEF FaultInvariant, Retained, HasVM, Live
<1>4. ~cut => Linked
  BY DEF FaultInvariant, Passes
<1> DEFINE t == Top
<1>5. CASE S # {}
  <2>1. PICK h \in S : /\ Replace([Top EXCEPT !.phase = "call", !.pos = h.stamp])
                       /\ fault' = FaultOfCall(h)
    BY <1>5 DEF NextHandler
  <2>2. h \in handlers /\ h.at = Top.entity /\ h.stamp \in Nat
    BY DEF After, HandlersOf, EntityInvariant, TypeOK, Handler
  <2> DEFINE f == [t EXCEPT !.phase = "call", !.pos = h.stamp]
  <2>3. stack' = Append(Front(stack), f) /\ t \in Call
    BY <1>2, <2>1 DEF Replace
  <2> HIDE DEF t
  <2>4. /\ f \in Call /\ f.phase = "call" /\ f.pos = h.stamp /\ f.entity = t.entity
        /\ f.up = t.up /\ f.down = t.down
    BY <2>2, <2>3 DEF Call
  <2> HIDE DEF f
  <2>5. Top' = f
    <3>1. stack \in Seq(Call)
      BY DEF EntityInvariant, TypeOK
    <3>2. Len(stack') = Len(stack) /\ stack'[Len(stack)] = f
      BY SMTT(30), <1>1, <2>3, <2>4, <3>1, SequenceParts
    <3> QED BY <3>2 DEF Top, Last
  <2>6. ASSUME ~cut
        PROVE  Linked' /\ AtHandler' /\ AtChild'
    <3>1. Linked'
      BY <1>1, <1>4, <2>3, <2>4, <2>6, TopReplaced DEF t
    <3>2. AtHandler' /\ AtChild'
      BY <1>1, <2>2, <2>4, <2>5 DEF AtHandler, AtChild, t
    <3> QED BY <3>1, <3>2
  <2>7. FaultsExplained'
    <3>1. ~HasVM(h) => moved \cap {h.at, ent[h.at].creator} # {}
      BY <2>2 DEF FaultInvariant, Retained
    <3>2. Top'.entity = h.at
      BY <2>2, <2>4, <2>5 DEF t
    <3>3. Source = 0 => cut
      <4> SUFFICES ASSUME ~cut PROVE Source # 0
        OBVIOUS
      <4>1. 1 \in DOMAIN stack /\ Source = stack[1].entity
        BY <1>1, UnderWay DEF Source, EntityInvariant, TypeOK
      <4>2. Source \in Live
        BY <1>4, <4>1 DEF Linked
      <4> QED BY <4>2, IdFacts DEF Live
    <3>4. /\ fault' \in {"none", "vm", "source"} /\ (fault' = "vm" => ~HasVM(h))
          /\ fault' = "source" => Source = 0
      BY <2>1 DEF FaultOfCall
    <3> QED BY <1>1, <3>1, <3>2, <3>3, <3>4 DEF FaultsExplained
  <2> QED BY <1>1, <1>3, <2>6, <2>7 DEF Passes
<1>6. CASE S = {}
  <2> DEFINE f == [t EXCEPT !.phase = "children", !.pos = 0]
             g == Frame(ent[Top.entity].parent, TRUE, FALSE)
  <2>1. /\ stack' = IF GoesUp(Top) THEN Front(stack) \o <<f, g>> ELSE Append(Front(stack), f)
        /\ fault' = IF Len(stack) > MaxIds + 1 THEN "recursion" ELSE "none"
    BY <1>6 DEF NextHandler
  <2>2. GoesUp(Top) => /\ g \in Call /\ g.entity \in Live /\ g.phase = "handlers" /\ t.up
                       /\ ent[t.entity].parent = g.entity /\ g.up /\ ~g.down
    <3> SUFFICES ASSUME GoesUp(Top)
                 PROVE /\ g \in Call /\ g.entity \in Live /\ g.phase = "handlers" /\ t.up
                       /\ ent[t.entity].parent = g.entity /\ g.up /\ ~g.down
      OBVIOUS
    <3>1. ent[Top.entity].parent \in Live /\ Top.up
      BY <1>2, Relatives DEF GoesUp, Live
    <3>2. g.entity = ent[Top.entity].parent /\ g.up = TRUE /\ g.down = FALSE
      BY DEF Frame
    <3> QED BY <3>1, <3>2, FrameIs
  <2>3. t \in Call
    BY <1>2
  <2> HIDE DEF t, g
  <2>4. /\ f \in Call /\ f.phase = "children" /\ f.pos = 0 /\ f.entity = t.entity
        /\ f.up = t.up /\ f.down = t.down
    BY <2>3 DEF Call
  <2> HIDE DEF f
  <2>5. ASSUME ~cut
        PROVE  Linked' /\ AtHandler' /\ AtChild'
    <3>1. CASE GoesUp(Top)
      <4>1. stack' = Front(stack) \o <<f, g>> /\ g \in Call /\ g.entity \in Live
            /\ g.phase = "handlers"
        BY <2>1, <2>2, <3>1
      <4>2. Link(f, g)
        BY <2>2, <2>4, <3>1 DEF Link
      <4>3. Linked' /\ Top' = g
        BY <1>1, <1>4, <2>4, <2>5, <4>1, <4>2, TopPushed DEF t
      <4> QED BY <4>1, <4>3 DEF AtHandler, AtChild
    <3>2. CASE ~GoesUp(Top)
      <4>1. stack' = Append(Front(stack), f)
        BY <2>1, <3>2
      <4>2. Linked' /\ Top' = f
        BY <1>1, <1>4, <2>4, <2>5, <4>1, TopReplaced DEF t
      <4> QED BY <2>4, <4>2 DEF AtHandler, AtChild
    <3> QED BY <3>1, <3>2
  <2>6. FaultsExplained'
    BY <1>1, <2>1, LongExplained DEF FaultsExplained
  <2> QED BY <1>1, <1>3, <2>5, <2>6 DEF Passes
<1> QED BY <1>5, <1>6

\* A handler returns to its place in the list, unless the event was cut.
LEMMA HandlerReturnsPasses ==
  ASSUME EntityInvariant, FaultInvariant, HandlerReturns
  PROVE  Retained' /\ Passes' /\ FaultsExplained'
<1>1. /\ stack # <<>> /\ Top.phase = "call" /\ fault = "none"
      /\ UNCHANGED <<ent, running, starting, since, handlers, moved, cut, now>>
  BY DEF HandlerReturns, Running, tree, resources
<1>2. Retained'
  BY <1>1 DEF FaultInvariant, Retained, HasVM
<1>3. CASE \E h \in handlers : h.at = Top.entity /\ h.stamp = Top.pos
  <2> DEFINE t == Top
             f == [t EXCEPT !.phase = "handlers"]
  <2>1. stack' = Append(Front(stack), f) /\ t \in Call /\ fault' = "none"
    BY <1>1, <1>3, UnderWay DEF HandlerReturns, Replace
  <2> HIDE DEF t
  <2>2. /\ f \in Call /\ f.phase = "handlers" /\ f.entity = t.entity
        /\ f.up = t.up /\ f.down = t.down
    BY <2>1 DEF Call
  <2> HIDE DEF f
  <2>3. ASSUME ~cut
        PROVE  Linked' /\ AtHandler' /\ AtChild'
    <3>1. Linked
      BY <2>3 DEF FaultInvariant, Passes
    <3>2. Linked' /\ Top' = f
      BY <1>1, <2>1, <2>2, <3>1, TopReplaced DEF t
    <3> QED BY <2>2, <3>2 DEF AtHandler, AtChild
  <2>4. FaultsExplained'
    BY <2>1 DEF FaultsExplained
  <2> QED BY <1>1, <1>2, <2>3, <2>4 DEF Passes
<1>4. CASE ~\E h \in handlers : h.at = Top.entity /\ h.stamp = Top.pos
  <2>1. fault' = "iterator" /\ cut
    BY <1>1, <1>4 DEF HandlerReturns, FaultInvariant, Passes, AtHandler
  <2> QED BY <1>1, <1>2, <2>1 DEF Passes, FaultsExplained
<1> QED BY <1>3, <1>4

\* A call that is over leaves the one that made it.
LEMMA ReturnPasses ==
  ASSUME EntityInvariant, FaultInvariant, stack # <<>>, fault = "none", Return, ent' = ent
  PROVE  Passes' /\ FaultsExplained'
<1>1. stack' = Front(stack) /\ fault' = "none" /\ (Len(stack) # 1 => cut' = cut)
  BY DEF Return
<1>2. /\ stack' \in Seq(Call) /\ Len(stack') = Len(stack) - 1 /\ Len(stack) \in Nat \ {0}
      /\ \A k \in 1 .. Len(stack) - 1 : stack'[k] = stack[k] /\ stack[k].phase = "children"
      /\ stack \in Seq(Call)
  BY <1>1, UnderWay DEF EntityInvariant, TypeOK
<1>3. CASE Len(stack) = 1
  <2>1. stack' = <<>>
    BY <1>2, <1>3
  <2> QED BY <1>1, <2>1 DEF Passes, Linked, AtHandler, AtChild, FaultsExplained
<1>4. CASE Len(stack) # 1
  <2> SUFFICES ASSUME ~cut PROVE Linked' /\ AtHandler' /\ AtChild'
    BY <1>1, <1>4 DEF Passes, FaultsExplained
  <2> DEFINE n == Len(stack) - 1
  <2>1. n \in Nat \ {0} /\ Len(stack') = n /\ DOMAIN stack' = 1 .. n
        /\ DOMAIN stack = 1 .. n + 1 /\ n \in 1 .. n /\ n \in DOMAIN stack
        /\ n + 1 \in DOMAIN stack
    BY <1>2, <1>4
  <2>2. Linked /\ \A k \in 1 .. n : stack'[k] = stack[k] /\ stack[k].phase = "children"
    BY <1>2 DEF FaultInvariant, Passes
  <2> HIDE DEF n
  <2>3. Top' = stack[n] /\ stack[n].phase = "children"
    BY <2>1, <2>2 DEF Top, Last
  <2>4. Linked'
    <3>1. Live' = Live
      BY DEF Live
    <3>2. \A k \in 1 .. n : k \in DOMAIN stack
      BY <2>1
    <3>3. ASSUME NEW k \in 1 .. n, k + 1 \in 1 .. n
          PROVE  Link(stack[k], stack[k + 1])'
      <4>1. Link(stack[k], stack[k + 1])
        BY <2>2, <3>2, <3>3 DEF Linked
      <4> QED BY <2>2, <3>3, <4>1 DEF Link, ChildAt
    <3> QED BY <2>1, <2>2, <3>1, <3>2, <3>3 DEF Linked
  <2>5. AtChild'
    <3>1. Link(stack[n], stack[n + 1]) /\ stack[n + 1].entity \in Live
      BY <2>1, <2>2 DEF Linked
    <3>2. stack[n].pos # 0 => \E c \in Id : ChildAt(stack[n].entity, c, stack[n].pos)
      BY <3>1 DEF Link, Live
    <3> QED BY <2>3, <3>2 DEF AtChild, ChildAt
  <2> QED BY <2>3, <2>4, <2>5 DEF AtHandler
<1> QED BY <1>3, <1>4

\* The next child is a child, and the last is there to go on from, unless the event was
\* cut.
LEMMA NextChildPasses ==
  ASSUME EntityInvariant, FaultInvariant, NextChild
  PROVE  Retained' /\ Passes' /\ FaultsExplained'
<1> DEFINE S == After(ChildrenOf(Top.entity), Top.pos)
           breaks == \/ Top.entity = 0
                     \/ Top.pos # 0 /\ ~\E c \in ChildrenOf(Top.entity) : c.stamp = Top.pos
<1>1. /\ stack # <<>> /\ Top.phase = "children" /\ fault = "none"
      /\ UNCHANGED <<ent, running, starting, since, handlers, moved, now>>
  BY DEF NextChild, Running, tree, resources
<1>2. Top \in Call
  BY <1>1, UnderWay
<1>3. Retained'
  BY <1>1 DEF FaultInvariant, Retained, HasVM
<1>4. CASE Return
  BY <1>1, <1>3, <1>4, ReturnPasses
<1>5. CASE ~Return /\ breaks
  <2>1. fault' = "iterator" /\ stack' = stack /\ cut' = cut
    BY <1>5 DEF NextChild, event
  <2>2. cut
    <3> SUFFICES ASSUME ~cut PROVE FALSE
      OBVIOUS
    <3>1. Linked /\ AtChild
      BY DEF FaultInvariant, Passes
    <3>2. Top.entity # 0
      <4>1. Len(stack) \in DOMAIN stack
        BY <1>1 DEF EntityInvariant, TypeOK
      <4>2. Top.entity \in Live
        BY <3>1, <4>1 DEF Linked, Top, Last
      <4> QED BY <4>2, IdFacts DEF Live
    <3>3. Top.pos # 0
      BY <1>5, <3>2
    <3>4. PICK c \in Id : ChildAt(Top.entity, c, Top.pos)
      BY <1>1, <3>1, <3>3 DEF AtChild
    <3>5. [id |-> c, stamp |-> ent[c].stamp] \in ChildrenOf(Top.entity)
      BY <3>4 DEF ChildAt, ChildrenOf
    <3> QED BY <1>5, <3>2, <3>4, <3>5 DEF ChildAt
  <2> QED BY <1>3, <2>1, <2>2 DEF Passes, FaultsExplained
<1>6. CASE ~Return /\ ~breaks
  <2>1. /\ \E c \in S : stack' = Front(stack) \o <<[Top EXCEPT !.pos = c.stamp],
                                                  Frame(c.id, FALSE, TRUE)>>
        /\ fault' = IF Len(stack) > MaxIds + 1 THEN "recursion" ELSE "none"
        /\ cut' = cut /\ Top.down
    BY <1>6 DEF NextChild
  <2>2. PICK c \in S : stack' = Front(stack) \o <<[Top EXCEPT !.pos = c.stamp],
                                                 Frame(c.id, FALSE, TRUE)>>
    BY <2>1
  <2>3. Top.entity \in Id
    <3>1. Top.entity \in 0 .. MaxIds
      BY <1>2 DEF Call
    <3> QED BY <1>6, <3>1, EntityTreeAssumption DEF Id
  <2>4. c.id \in Live /\ c.stamp \in Nat /\ c.stamp # 0 /\ ChildAt(Top.entity, c.id, c.stamp)
    <3>1. PICK d \in ent[Top.entity].children : c = [id |-> d, stamp |-> ent[d].stamp]
      BY DEF After, ChildrenOf
    <3>2. c.id = d /\ c.stamp = ent[d].stamp
      BY <3>1
    <3>3. c.stamp > Top.pos /\ Top.pos \in Nat
      BY <1>2 DEF After, Call
    <3>4. c.id \in Live /\ c.stamp \in Nat
      BY <2>3, <3>2, Relatives
    <3> QED BY <3>2, <3>3, <3>4 DEF ChildAt
  <2> DEFINE t == Top
             f == [t EXCEPT !.pos = c.stamp]
             g == Frame(c.id, FALSE, TRUE)
  <2>5. stack' = Front(stack) \o <<f, g>> /\ t \in Call /\ t.phase = "children" /\ t.down
    BY <1>1, <1>2, <2>1, <2>2
  <2>6. /\ g \in Call /\ g.entity = c.id /\ g.phase = "handlers" /\ g.up = FALSE
        /\ g.down = TRUE
    BY <2>4, FrameIs DEF Frame
  <2> HIDE DEF t, g
  <2>7. /\ f \in Call /\ f.phase = "children" /\ f.pos = c.stamp /\ f.entity = t.entity
        /\ f.up = t.up /\ f.down = t.down
    BY <2>4, <2>5 DEF Call
  <2> HIDE DEF f
  <2>8. ASSUME ~cut
        PROVE  Linked' /\ AtHandler' /\ AtChild'
    <3>1. Linked
      BY <2>8 DEF FaultInvariant, Passes
    <3>2. Link(f, g)
      BY <2>4, <2>5, <2>6, <2>7 DEF Link, ChildAt, t
    <3>3. Linked' /\ Top' = g
      BY <1>1, <2>4, <2>5, <2>6, <2>7, <3>1, <3>2, TopPushed DEF t
    <3> QED BY <2>6, <3>3 DEF AtHandler, AtChild
  <2>9. FaultsExplained'
    BY <1>1, <2>1, LongExplained DEF FaultsExplained
  <2> QED BY <1>3, <2>1, <2>8, <2>9 DEF Passes
<1> QED BY <1>4, <1>5, <1>6

\* Every step keeps what explains a fault.
LEMMA FaultStep == EntityInvariant /\ FaultInvariant /\ [Next]_vars => FaultInvariant'
<1> SUFFICES ASSUME EntityInvariant, FaultInvariant, [Next]_vars PROVE FaultInvariant'
  OBVIOUS
<1>1. Made'
  BY MadeKept DEF FaultInvariant
<1>2. CASE UNCHANGED vars
  BY <1>1, <1>2 DEF vars, tree, event, resources, FaultInvariant, Retained, HasVM, Passes,
     Linked, Link, ChildAt, AtHandler, AtChild, Top, Live, FaultsExplained, Cyclic, Below, Closed
<1>3. CASE Next
  <2>1. CASE \E r \in Resources, type \in {"custom", "timer"} : CreateEntity(r, type)
    BY <1>1, <2>1, CreatePasses DEF FaultInvariant
  <2>2. CASE \E r \in Resources, e \in Id : DeleteEntity(r, e) \/ KillTimer(r, e)
    BY <1>1, <2>2, DeletePasses DEF FaultInvariant
  <2>3. CASE \E r \in Resources, e \in Id, p \in Id : SetParent(r, e, p)
    BY <1>1, <2>3, SetParentPasses DEF FaultInvariant
  <2>4. CASE \E r \in Resources : \/ \E e \in Id, f \in Functions : AddEvent(r, e, f)
                                  \/ \E h \in handlers : RemoveEvent(r, h)
    BY <1>1, <2>4, EventsPasses DEF FaultInvariant
  <2>5. CASE \/ \E r \in Resources : StopResource(r)
             \/ StartFails
    BY <1>1, <2>5, StopPasses DEF FaultInvariant
  <2>a. CASE \/ \E q, r \in Resources : StartResource(q, r)
             \/ StartReturns
    BY <1>1, <2>a, StartPasses DEF FaultInvariant
  <2>6. CASE \E e \in Id : CallEvent(e)
    BY <1>1, <2>6, CallEventPasses DEF FaultInvariant
  <2>7. CASE NextHandler
    BY <1>1, <2>7, NextHandlerPasses DEF FaultInvariant
  <2>8. CASE HandlerReturns
    BY <1>1, <2>8, HandlerReturnsPasses DEF FaultInvariant
  <2>9. CASE NextChild
    BY <1>1, <2>9, NextChildPasses DEF FaultInvariant
  <2> QED BY <1>3, <2>1, <2>2, <2>3, <2>4, <2>5, <2>6, <2>7, <2>8, <2>9, <2>a DEF Next
<1> QED BY <1>2, <1>3

\* A walk over a list breaks, and a handler gets an entity that is gone, only when a script
\* or the stop of a failing start has taken away what the event was passing through, calls
\* without an end need that or a cycle of parents, and a handler without a VM has been
\* moved, or what it was below (CEvents::Call, CEntity::CallEvent, CResource::Start).
THEOREM FaultsAlwaysExplained == Spec => []FaultsExplained
<1>1. Init => FaultInvariant
  <2> SUFFICES ASSUME Init PROVE FaultInvariant
    OBVIOUS
  <2>0. handlers = {} /\ stack = <<>> /\ fault = "none"
    BY DEF Init
  <2>1. ent = [i \in Id |->
          IF i = Root
          THEN [NoEntity EXCEPT !.type = "root", !.children = Resources, !.born = 1]
          ELSE IF i \in Resources
          THEN [NoEntity EXCEPT !.type = "resource", !.parent = Root, !.stamp = i, !.born = i]
          ELSE NoEntity]
    BY DEF Init
  <2>2. \A i \in Id : ent[i].creator = 0 /\ (ent[i].type = "root" => i = Root)
    BY <2>1 DEF NoEntity
  <2>3. Made /\ Retained /\ FaultsExplained
    <3>1. \A r \in Resources : since[r] <= now
      <4>1. Cardinality(Resources) \in Nat
        BY IdFacts, FS_Subset, FS_CardinalityType
      <4>2. now = Cardinality(Resources) + 1 /\ since = [r \in Resources |-> 0]
        BY DEF Init
      <4> QED BY <4>1, <4>2
    <3> QED BY <2>0, <2>2, <3>1 DEF Made, Retained, FaultsExplained
  <2>4. Linked /\ AtHandler /\ AtChild
    <3>1. DOMAIN stack = {}
      BY <2>0
    <3> QED BY <2>0, <3>1 DEF Linked, AtHandler, AtChild
  <2> QED BY <2>3, <2>4 DEF FaultInvariant, Passes
<1>2. FaultInvariant => FaultsExplained
  BY DEF FaultInvariant
<1> QED BY <1>1, <1>2, FaultStep, AlwaysInvariant, PTL DEF Spec

-----------------------------------------------------------------------------
(* Which handlers an event calls *)

\* Stamps are given once: to handlers, and to children when they get their parent.
Stamped ==
  /\ now > 0
  /\ \A h \in handlers : h.stamp > 0 /\ h.stamp <= now
  /\ \A g, h \in handlers : g.stamp = h.stamp => g = h
  /\ \A c \in Id : ent[c].parent # 0 => ent[c].stamp > 0 /\ ent[c].stamp <= now
  /\ \A c, d \in Id :
       ent[c].parent # 0 /\ ent[d].parent # 0 /\ ent[c].stamp = ent[d].stamp => c = d

\* The first call of an event is for the source, and then come calls up or calls down.
Frames ==
  \A k \in DOMAIN stack :
    /\ stack[k].entity \in Live \cup {0}
    /\ k = 1 => stack[k].up /\ stack[k].down
    /\ k > 1 => stack[k].up = ~stack[k].down
    /\ stack[k].up => \A j \in 1..k : stack[j].up

\* A handler may still be called because the last call has not come to it, because it
\* is above the entity of that call, or because it is below a child that a call has not
\* come to.
AtHandlers == Top.phase # "children" /\ Top.entity # 0
OwnToCome(h) == AtHandlers /\ Top.entity = h.at /\ h.stamp > Top.pos
UpToCome(h) ==
  AtHandlers /\ Top.up /\ ent[Top.entity].parent # 0 /\ ent[Top.entity].parent \in Below(h.at)
ChildToCome(f, c) ==
  /\ f.down /\ f.entity # 0
  /\ c \in ent[f.entity].children /\ (f.phase = "children" => ent[c].stamp > f.pos)
DownToCome(h, k) == \E c \in Id : ChildToCome(stack[k], c) /\ h.at \in Below(c)

\* The event will break when it comes back to what was deleted.
Doomed == Source = 0 \/ (Top.phase = "call" /\ Top.entity = 0)

\* What is expected has been called, or is to come.
AllToCome ==
  ~Doomed => \A h \in expected : 
     h \in called \/ OwnToCome(h) \/ UpToCome(h) \/ \E k \in DOMAIN stack : DownToCome(h, k)

\* On the way up the source is below, and so is what was called.
Rising ==
  AtHandlers /\ Top.up =>
    /\ expected # {} /\ Source # 0 => Source \in Below(Top.entity)
    /\ \A h \in expected \cap called : h.at \in Below(Top.entity)

\* No entity above the handler is above itself.
Clear(h) == \A x \in Above(h.at) : ~Cyclic(x)

\* What is expected and not below a circle is to come once, if it has not been called.
OnceToCome ==
  \A h \in expected : Clear(h) =>
    /\ h \in called => ~OwnToCome(h) /\ \A k \in DOMAIN stack : ~DownToCome(h, k)
    /\ OwnToCome(h) => \A k \in DOMAIN stack : ~DownToCome(h, k)
    /\ \A k, l \in DOMAIN stack : DownToCome(h, k) /\ DownToCome(h, l) => k = l

WhileCalled == stack # <<>> /\ fault = "none" => AllToCome /\ Rising /\ OnceToCome

CallInvariant == Stamped /\ Frames /\ WhileCalled

-----------------------------------------------------------------------------
(* Branches and circles *)

\* A branch of a branch is a part of it.
LEMMA BelowBelow ==
  ASSUME TypeOK, NEW a \in Id, NEW b \in Below(a)
  PROVE  b \in Id /\ Below(b) \subseteq Below(a)
  BY BelowIs DEF Below

\* So is the branch of a child, and there is nothing else in it.
LEMMA BelowChildren ==
  ASSUME TypeOK, NEW a \in Id
  PROVE  /\ ent[a].children \subseteq Id
         /\ \A c \in ent[a].children : c \in Below(a) /\ Below(c) \subseteq Below(a)
         /\ \A x \in Below(a) : x = a \/ \E c \in ent[a].children : x \in Below(c)
<1> DEFINE S == {a} \cup UNION {Below(c) : c \in ent[a].children}
<1>1. ent[a].children \subseteq Id
  BY DEF TypeOK, Entity
<1>2. \A c \in ent[a].children : c \in Below(a) /\ Below(c) \subseteq Below(a)
  BY BelowIs, BelowBelow DEF Closed
<1>3. S \in SUBSET Id /\ a \in S
  BY <1>1 DEF Below
<1>4. ASSUME NEW i \in S, NEW d \in ent[i].children
      PROVE  d \in S
  <2>1. CASE i = a
    BY <1>1, <2>1, BelowIs
  <2>2. CASE i # a
    <3>1. PICK c \in ent[a].children : i \in Below(c)
      BY <2>2
    <3>2. d \in Below(c)
      BY <1>1, <3>1, BelowIs DEF Closed
    <3> QED BY <3>2
  <2> QED BY <2>1, <2>2
<1>5. Below(a) \subseteq S
  BY <1>3, <1>4, BelowIs DEF Closed
<1> QED BY <1>1, <1>2, <1>5

\* What is below an entity and is not that one has a parent there.
LEMMA ParentBelow ==
  ASSUME TypeOK, TreeConsistent, NEW a \in Id, NEW x \in Below(a), x # a
  PROVE  /\ ent[x].parent # 0 /\ ent[x].parent \in Below(a)
         /\ x \in ent[ent[x].parent].children
<1>1. a \in Below(a) /\ Below(a) \subseteq Id /\ Closed(Below(a))
  BY BelowIs
<1>2. \E p \in Below(a) : x \in ent[p].children
  <2> SUFFICES ASSUME \A p \in Below(a) : x \notin ent[p].children PROVE FALSE
    OBVIOUS
  <2>1. Closed(Below(a) \ {x})
    BY <1>1 DEF Closed
  <2>2. Below(a) \subseteq Below(a) \ {x}
    BY <1>1, <2>1, BelowIs
  <2> QED BY <2>2
<1>3. PICK p \in Below(a) : x \in ent[p].children
  BY <1>2
<1>4. ent[x].parent = p
  BY <1>1, <1>3 DEF TreeConsistent
<1> QED BY <1>1, <1>3, <1>4, IdFacts

\* Of two entities that are above a third, one is above the other.
LEMMA OneAbove ==
  ASSUME TypeOK, TreeConsistent, NEW a \in Id, NEW b \in Id, NEW x \in Below(a), x \in Below(b)
  PROVE  a \in Below(b) \/ b \in Below(a)
<1> SUFFICES ASSUME a \notin Below(b), b \notin Below(a) PROVE FALSE
  OBVIOUS
<1> DEFINE S == Below(a) \ Below(b)
<1>1. a \in Below(a) /\ Below(a) \subseteq Id /\ Closed(Below(a))
  BY BelowIs
<1>2. ASSUME NEW i \in S, NEW k \in ent[i].children
      PROVE  k \in S
  <2>1. k \in Below(a) /\ i \in Id /\ k \in Id
    BY <1>1 DEF Closed
  <2>2. ASSUME k \in Below(b) PROVE FALSE
    <3>1. ent[k].parent = i
      BY <2>1 DEF TreeConsistent
    <3>2. k # b
      BY <2>1
    <3> QED BY <2>2, <3>1, <3>2, ParentBelow
  <2> QED BY <2>1, <2>2
<1>3. Closed(S)
  BY <1>2 DEF Closed
<1>4. Below(a) \subseteq S
  BY <1>1, <1>3, BelowIs
<1> QED BY <1>4

\* An entity that is below its child goes round in a circle, and so does one with
\* a child of which another child is a part.
LEMMA ParentCyclic ==
  ASSUME TypeOK, TreeConsistent, NEW g \in Id, ent[g].parent # 0, ent[g].parent \in Below(g)
  PROVE  /\ ent[g].parent \in Id /\ g \in ent[ent[g].parent].children
         /\ Cyclic(ent[g].parent)
<1>1. ent[g].parent \in Id
  BY DEF Below
<1>2. g \in ent[ent[g].parent].children
  BY <1>1 DEF TreeConsistent
<1> QED BY <1>1, <1>2 DEF Cyclic

\* What is below two children of an entity is below a circle.
LEMMA Siblings ==
  ASSUME TypeOK, TreeConsistent, NEW g \in Id, NEW c \in ent[g].children,
         NEW d \in ent[g].children, c # d, NEW x \in Below(c), x \in Below(d)
  PROVE  Cyclic(g) /\ x \in Below(g)
<1>1. c \in Id /\ d \in Id /\ x \in Below(g)
  BY BelowChildren
<1>2. ent[c].parent = g /\ ent[d].parent = g
  BY <1>1 DEF TreeConsistent
<1>3. c \in Below(d) \/ d \in Below(c)
  BY <1>1, OneAbove
<1>4. g \in Below(c) \/ g \in Below(d)
  BY <1>1, <1>2, <1>3, ParentBelow
<1> QED BY <1>1, <1>4 DEF Cyclic

-----------------------------------------------------------------------------
(* What scripts do to branches *)

\* A step touches the branch D alone, which stays one; what is not in it has the same
\* children outside of it.
Touches(D) ==
  /\ D \subseteq Id
  /\ \A i \in D : ent[i].children \subseteq D /\ ent'[i].children \subseteq D
  /\ \A i \in Id \ D :
       /\ ent'[i].children \ D = ent[i].children \ D
       /\ ent'[i].stamp = ent[i].stamp /\ ent'[i].parent = ent[i].parent

\* Outside of it, what was above an entity is, and what was not is not.
LEMMA TouchedBelow ==
  ASSUME TypeOK, TypeOK', NEW D, Touches(D), NEW a \in Id, NEW x \in Id \ D
  PROVE  x \in Below(a) <=> x \in Below(a)'
<1>1. \A i \in Id : ent[i].children \subseteq Id /\ ent'[i].children \subseteq Id
  BY DEF TypeOK, Entity
<1>2. ASSUME x \in Below(a), NEW S \in SUBSET Id, a \in S, Closed(S)'
      PROVE  x \in S
  <2>1. \A i \in S : ent'[i].children \subseteq S
    BY <1>2 DEF Closed
  <2>2. Closed(S \cup D)
    BY <2>1 DEF Closed, Touches
  <2>3. S \cup D \in SUBSET Id
    BY DEF Touches
  <2>4. x \in S \cup D
    BY <1>2, <2>2, <2>3 DEF Below
  <2> QED BY <2>4
<1>3. ASSUME x \in Below(a)', NEW S \in SUBSET Id, a \in S, Closed(S)
      PROVE  x \in S
  <2>1. \A i \in S : ent[i].children \subseteq S
    BY <1>3 DEF Closed
  <2>2. \A i \in S \cup D : ent'[i].children \subseteq S \cup D
    BY <2>1 DEF Touches
  <2>3. Closed(S \cup D)'
    BY <2>2 DEF Closed
  <2>4. S \cup D \in SUBSET Id
    BY DEF Touches
  <2>5. x \in S \cup D
    BY <1>3, <2>3, <2>4 DEF Below
  <2> QED BY <2>5
<1>4. x \in Below(a) => x \in Below(a)'
  BY <1>2 DEF Below
<1>5. x \in Below(a)' => x \in Below(a)
  BY <1>3 DEF Below
<1> QED BY <1>4, <1>5

\* What is touched is below no entity outside of it that a circle would go through.
LEMMA TouchedClear ==
  ASSUME TypeOK, TypeOK', NEW D, Touches(D), NEW h \in Handler, h.at \notin D, Clear(h)'
  PROVE  Clear(h)
<1>1. h.at \in Id
  BY DEF Handler
<1> SUFFICES ASSUME NEW x \in Id, h.at \in Below(x), Cyclic(x)
             PROVE  FALSE
  BY DEF Clear, Above
<1>2. PICK c \in ent[x].children : x \in Below(c)
  BY DEF Cyclic
<1>3. c \in Id
  BY BelowChildren
<1>4. Closed(D) /\ D \in SUBSET Id
  BY DEF Touches, Closed
<1>5. x \notin D
  <2>1. x \in D => Below(x) \subseteq D
    BY <1>4, BelowIs
  <2> QED BY <2>1
<1>6. c \notin D
  <2>1. c \in D => Below(c) \subseteq D
    BY <1>3, <1>4, BelowIs
  <2> QED BY <1>2, <1>5, <2>1
<1>7. c \in ent'[x].children
  BY <1>2, <1>5, <1>6 DEF Touches
<1>8. x \in Below(c)' /\ h.at \in Below(x)'
  BY <1>1, <1>2, <1>3, <1>5, TouchedBelow
<1>9. Cyclic(x)'
  BY <1>7, <1>8 DEF Cyclic
<1> QED BY <1>8, <1>9 DEF Clear, Above

\* Calls stay as they are, but for what is gone with the branch D.
Leaves(D) ==
  /\ DOMAIN stack' = DOMAIN stack
  /\ \A k \in DOMAIN stack :
       /\ stack'[k].up = stack[k].up /\ stack'[k].down = stack[k].down
       /\ stack'[k].phase = stack[k].phase /\ stack'[k].pos = stack[k].pos
       /\ \/ stack'[k].entity = stack[k].entity
          \/ stack[k].entity \in D /\ stack'[k].entity = 0

\* The first and the last call.
LEMMA FirstAndLast ==
  ASSUME stack \in Seq(Call), stack # <<>>
  PROVE  /\ Len(stack) \in Nat \ {0} /\ DOMAIN stack = 1 .. Len(stack)
         /\ 1 \in DOMAIN stack /\ Len(stack) \in DOMAIN stack
         /\ Source = stack[1].entity /\ Top = stack[Len(stack)] /\ Top \in Call
  BY SequenceParts DEF Source, Top, Last

\* The calls are still those of an event.
LEMMA LeavesFrames ==
  ASSUME TypeOK, Frames, NEW D, Leaves(D), \A k \in DOMAIN stack : stack'[k].entity \in Live' \cup {0}
  PROVE  Frames'
<1>1. \A k \in DOMAIN stack : stack[k].up => \A j \in 1..k : stack'[j].up = stack[j].up
  <2> SUFFICES ASSUME NEW k \in DOMAIN stack, NEW j \in 1..k, stack[k].up
               PROVE  stack'[j].up = stack[j].up
    OBVIOUS
  <2>1. j \in DOMAIN stack
    BY DEF TypeOK
  <2> QED BY <2>1 DEF Leaves
<1> QED BY <1>1 DEF Frames, Leaves

\* What a script does to a branch that is not the source's leaves the other handlers that
\* are expected where they are to come from.
LEMMA TouchedCalls ==
  ASSUME EntityInvariant, EntityInvariant', CallInvariant, stack # <<>>, fault = "none",
         Top.phase = "call", NEW D, Touches(D), Leaves(D), called' = called,
         expected' \subseteq {h \in expected : h.at \notin D},
         expected' # {} => Source \notin D \/ Source' = 0
  PROVE  WhileCalled'
<1>1. /\ TypeOK /\ TypeOK' /\ TreeConsistent
      /\ AllToCome /\ Rising /\ OnceToCome /\ Frames
  BY DEF EntityInvariant, CallInvariant, WhileCalled
<1>2. stack \in Seq(Call) /\ stack' \in Seq(Call)
  BY <1>1 DEF TypeOK
<1>3. stack' # <<>> /\ Len(stack') = Len(stack)
  <2>1. DOMAIN stack = 1 .. Len(stack) /\ DOMAIN stack' = 1 .. Len(stack')
    BY <1>2
  <2> QED BY <1>2, <2>1, FirstAndLast DEF Leaves
<1>4. /\ 1 \in DOMAIN stack /\ Len(stack) \in DOMAIN stack
      /\ Source = stack[1].entity /\ Top = stack[Len(stack)]
  BY <1>2, FirstAndLast
<1>5. Source' = stack'[1].entity /\ Top' = stack'[Len(stack)]
  BY <1>2, <1>3 DEF Source, Top, Last
<1>6. /\ Top'.phase = "call" /\ Top'.up = Top.up /\ Top'.pos = Top.pos
      /\ Top'.entity = Top.entity \/ (Top.entity \in D /\ Top'.entity = 0)
      /\ Source' = Source \/ (Source \in D /\ Source' = 0)
  BY <1>4, <1>5 DEF Leaves
<1>7. 0 \notin Id /\ D \subseteq Id /\ Closed(D) /\ Closed(D)'
  BY IdFacts DEF Touches, Closed
<1>8. \A k \in DOMAIN stack : stack[k].entity \in Id \cup {0}
  BY <1>1 DEF Frames, Live
<1>9. \A d \in D : Below(d) \subseteq D /\ Below(d)' \subseteq D
  <2>1. \A d \in D : Below(d) \subseteq D
    BY <1>1, <1>7, BelowIs
  <2>2. ASSUME NEW d \in D, NEW x \in Below(d)' PROVE x \in D
    BY <1>7, <2>2 DEF Below
  <2> QED BY <2>1, <2>2
<1>10. ASSUME NEW h \in expected'
       PROVE  /\ h \in expected /\ h \in Handler /\ h.at \in Id \ D
              /\ \A a \in Id : h.at \in Below(a) <=> h.at \in Below(a)'
              /\ Clear(h)' => Clear(h)
  <2>1. h \in expected /\ h.at \notin D
    OBVIOUS
  <2>2. h \in Handler
    BY <1>1, <2>1 DEF TypeOK
  <2>3. h.at \in Id
    BY <2>2 DEF Handler
  <2> QED BY <1>1, <2>1, <2>2, <2>3, TouchedBelow, TouchedClear
<1>11. ASSUME NEW h \in expected', NEW k \in DOMAIN stack
       PROVE  DownToCome(h, k) <=> DownToCome(h, k)'
  <2> DEFINE g == stack[k].entity
  <2>1. ASSUME NEW c \in Id, h.at \in Below(c)
        PROVE  c \notin D /\ h.at \in Below(c)'
    BY <1>9, <1>10, <2>1
  <2>2. ASSUME NEW c \in Id, h.at \in Below(c)'
        PROVE  c \notin D /\ h.at \in Below(c)
    BY <1>9, <1>10, <2>2
  <2>3. ASSUME NEW c \in Id \ D
        PROVE  ChildToCome(stack[k], c) <=> ChildToCome(stack[k], c)'
    <3>1. CASE g \in D
      <4>1. ~ChildToCome(stack[k], c)
        BY <2>3, <3>1 DEF ChildToCome, Touches
      <4>2. ~ChildToCome(stack[k], c)'
        BY <2>3, <3>1 DEF ChildToCome, Touches, Leaves
      <4> QED BY <4>1, <4>2
    <3>2. CASE g \notin D
      <4>1. stack'[k].entity = g
        BY <3>2 DEF Leaves
      <4>2. g # 0 => (c \in ent[g].children <=> c \in ent'[g].children)
        BY <1>8, <3>2 DEF Touches
      <4>3. ent'[c].stamp = ent[c].stamp
        BY DEF Touches
      <4> QED BY <4>1, <4>2, <4>3 DEF ChildToCome, Leaves
    <3> QED BY <3>1, <3>2
  <2> QED BY <2>1, <2>2, <2>3 DEF DownToCome
<1>12. AllToCome'
  <2> SUFFICES ASSUME ~Doomed', NEW h \in expected', h \notin called
               PROVE  OwnToCome(h)' \/ UpToCome(h)' \/ \E k \in DOMAIN stack : DownToCome(h, k)'
    BY DEF AllToCome, Leaves
  <2>1. Source' = Source /\ Source # 0 /\ Top'.entity = Top.entity /\ Top.entity # 0
    BY <1>6 DEF Doomed
  <2>2. Source \notin D /\ ~Doomed
    BY <2>1 DEF Doomed
  <2>3. OwnToCome(h) \/ UpToCome(h) \/ \E k \in DOMAIN stack : DownToCome(h, k)
    BY <1>1, <1>10, <2>2 DEF AllToCome
  <2>4. OwnToCome(h) => OwnToCome(h)'
    BY <1>6, <2>1 DEF OwnToCome, AtHandlers
  <2>5. ASSUME UpToCome(h)
        PROVE  UpToCome(h)'
    <3>1. Top.entity \in Id
      BY <1>4, <1>8, <2>1
    <3>2. Source \in Below(Top.entity)
      BY <1>1, <1>10, <2>1, <2>5 DEF UpToCome, Rising
    <3>3. Top.entity \notin D
      BY <1>9, <2>2, <3>2
    <3> DEFINE p == ent[Top.entity].parent
    <3>4. p # 0 /\ p \in Below(h.at) /\ p \in Id
      BY <2>5 DEF UpToCome, Below
    <3>5. Top.entity \in ent[p].children
      BY <1>1, <3>1, <3>4 DEF TreeConsistent
    <3>6. p \notin D
      BY <3>3, <3>5 DEF Touches
    <3>7. p \in Below(h.at)'
      BY <1>1, <1>10, <3>4, <3>6, TouchedBelow
    <3>8. ent'[Top.entity].parent = p
      BY <3>1, <3>3 DEF Touches
    <3> QED BY <1>6, <2>1, <2>5, <3>4, <3>7, <3>8 DEF UpToCome, AtHandlers
  <2> QED BY <1>11, <2>3, <2>4, <2>5
<1>13. Rising'
  <2> SUFFICES ASSUME AtHandlers', Top'.up PROVE Rising'
    BY DEF Rising
  <2>1. PICK g \in Id : g = Top.entity /\ g = Top'.entity
    BY <1>4, <1>6, <1>8 DEF AtHandlers
  <2>2. /\ expected # {} /\ Source # 0 => Source \in Below(g)
        /\ \A h \in expected \cap called : h.at \in Below(g)
    BY <1>1, <1>6, <1>7, <2>1 DEF Rising, AtHandlers
  <2>3. ASSUME expected' # {}, Source' # 0
        PROVE  Source' \in Below(g)'
    <3>1. PICK s \in Id \ D : s = Source' /\ s = Source
      BY <1>4, <1>6, <1>8, <2>3
    <3>2. expected # {} /\ s # 0
      BY <1>7, <2>3
    <3>3. s \in Below(g)
      BY <2>2, <3>1, <3>2
    <3>4. s \in Below(g)'
      BY <1>1, <3>3, TouchedBelow
    <3> QED BY <3>1, <3>4
  <2>4. \A h \in expected' \cap called : h.at \in Below(g)'
    BY <1>10, <2>2
  <2>5. Below(Top.entity)' = Below(g)'
    BY <2>1 DEF Below
  <2> QED BY <2>3, <2>4, <2>5 DEF Rising
<1>14. OnceToCome'
  <2> SUFFICES ASSUME NEW h \in expected', Clear(h)'
               PROVE  /\ h \in called =>
                           ~OwnToCome(h)' /\ \A k \in DOMAIN stack : ~DownToCome(h, k)'
                      /\ OwnToCome(h)' => \A k \in DOMAIN stack : ~DownToCome(h, k)'
                      /\ \A k, l \in DOMAIN stack :
                           DownToCome(h, k)' /\ DownToCome(h, l)' => k = l
    BY DEF OnceToCome, Leaves
  <2>1. OwnToCome(h)' => OwnToCome(h)
    BY <1>6 DEF OwnToCome, AtHandlers
  <2>2. Clear(h) /\ h \in expected
    BY <1>10
  <2> QED BY <1>1, <1>11, <2>1, <2>2 DEF OnceToCome
<1> QED BY <1>12, <1>13, <1>14 DEF WhileCalled

-----------------------------------------------------------------------------
(* Scripts and the calls of an event *)

\* A stamp that is given is a new one.
LEMMA StampsGiven ==
  ASSUME TypeOK, Stamped, now' \in {now, now + 1}, NEW i, NEW x,
         \A c \in Id : ent'[c].parent # 0 =>
           /\ c # i => ent[c].parent # 0 /\ ent'[c].stamp = ent[c].stamp
           /\ c = i => now' = now + 1 /\ ent'[c].stamp = now',
         \A h \in handlers' : h \in handlers \/ (h = x /\ now' = now + 1 /\ h.stamp = now')
  PROVE  Stamped'
<1>1. now \in Nat /\ now > 0 /\ now' \in Nat /\ now' > 0 /\ now <= now'
  BY DEF TypeOK, Stamped
<1>2. \A h \in handlers' : h.stamp > 0 /\ h.stamp <= now'
  BY <1>1 DEF Stamped, TypeOK, Handler
<1>3. \A g, h \in handlers' : g.stamp = h.stamp => g = h
  <2> SUFFICES ASSUME NEW g \in handlers', NEW h \in handlers', g.stamp = h.stamp, g # h
               PROVE  FALSE
    OBVIOUS
  <2>1. \A y \in handlers : y.stamp \in Nat /\ y.stamp <= now
    BY DEF Stamped, TypeOK, Handler
  <2>2. CASE g \in handlers /\ h \in handlers
    BY <2>2 DEF Stamped
  <2>3. CASE g \in handlers /\ h \notin handlers
    BY <1>1, <2>1, <2>3
  <2>4. CASE g \notin handlers /\ h \in handlers
    BY <1>1, <2>1, <2>4
  <2>5. CASE g \notin handlers /\ h \notin handlers
    BY <2>5
  <2> QED BY <2>2, <2>3, <2>4, <2>5
<1>4. \A c \in Id : ent[c].stamp \in Nat
  BY DEF TypeOK, Entity
<1>5. \A c \in Id : ent'[c].parent # 0 => ent'[c].stamp > 0 /\ ent'[c].stamp <= now'
  BY <1>1, <1>4 DEF Stamped
<1>6. \A c, d \in Id :
        ent'[c].parent # 0 /\ ent'[d].parent # 0 /\ ent'[c].stamp = ent'[d].stamp => c = d
  <2> SUFFICES ASSUME NEW c \in Id, NEW d \in Id, ent'[c].parent # 0, ent'[d].parent # 0,
                      ent'[c].stamp = ent'[d].stamp, c # d
               PROVE  FALSE
    OBVIOUS
  <2>1. \A y \in Id : ent[y].parent # 0 => ent[y].stamp <= now
    BY DEF Stamped
  <2>2. CASE c # i /\ d # i
    BY <2>2 DEF Stamped
  <2>3. CASE c # i /\ d = i
    BY <1>1, <1>4, <2>1, <2>3
  <2>4. CASE c = i /\ d # i
    BY <1>1, <1>4, <2>1, <2>4
  <2> QED BY <2>2, <2>3, <2>4
<1> QED BY <1>1, <1>2, <1>3, <1>5, <1>6 DEF Stamped

\* A script acts between events, or under the last call of one, which it leaves.
LEMMA ScriptCalls ==
  ASSUME EntityInvariant, EntityInvariant', CallInvariant, NEW D, Touches(D), Leaves(D),
         stack # <<>> => Top.phase = "call" /\ fault = "none", called' = called,
         expected' \subseteq {h \in expected : h.at \notin D},
         stack # <<>> /\ expected' # {} => Source \notin D \/ Source' = 0,
         \A k \in DOMAIN stack : stack'[k].entity \in Live' \cup {0}
  PROVE  Frames' /\ WhileCalled'
<1>1. Frames'
  BY LeavesFrames DEF EntityInvariant, CallInvariant
<1>2. CASE stack = <<>>
  <2>1. stack' = <<>>
    <3>1. stack' \in Seq(Call) /\ DOMAIN stack' = {}
      BY <1>2 DEF EntityInvariant, TypeOK, Leaves
    <3> QED BY <3>1
  <2> QED BY <1>1, <2>1 DEF WhileCalled
<1>3. CASE stack # <<>>
  BY <1>1, <1>3, TouchedCalls
<1> QED BY <1>2, <1>3

\* Calls that stay leave what they were.
LEMMA SameLeaves ==
  ASSUME CallInvariant, stack' = stack, Live \subseteq Live', NEW D
  PROVE  Leaves(D) /\ \A k \in DOMAIN stack : stack'[k].entity \in Live' \cup {0}
  BY DEF CallInvariant, Frames, Leaves

\* What is new is not expected, and nothing comes before what is to come.
LEMMA CreateCalls ==
  ASSUME EntityInvariant, EntityInvariant', CallInvariant, NEW r \in Resources,
         NEW type \in {"custom", "timer"}, CreateEntity(r, type)
  PROVE  CallInvariant'
<1> DEFINE i == Last(free)
<1>1. Created(i, r, type)
  BY CreatedIs
<1> HIDE DEF i
<1>2. /\ fault = "none" /\ (stack # <<>> => Top.phase = "call") /\ now' = now + 1
      /\ UNCHANGED <<running, starting, since, handlers, stack, expected, called, cut, fault,
                     moved>>
  BY DEF CreateEntity, Script, Act, event, resources, Top
<1>3. Live \subseteq Live' /\ i \notin Live /\ Live \subseteq Id /\ i # 0
  BY <1>1, IdFacts DEF Created, Live
<1>4. Stamped'
  <2>1. \A c \in Id : ent'[c].parent # 0 =>
           /\ c # i => ent[c].parent # 0 /\ ent'[c].stamp = ent[c].stamp
           /\ c = i => now' = now + 1 /\ ent'[c].stamp = now'
    BY <1>1, <1>2 DEF Created
  <2> QED BY <1>2, <2>1, StampsGiven DEF EntityInvariant, CallInvariant
<1>5. Touches({i})
  <2>1. ent[i].children = {}
    BY <1>1, <1>3 DEF EntityInvariant, TreeConsistent, Created, Live
  <2> QED BY <1>1, <2>1 DEF Touches, Created
<1>6. Leaves({i}) /\ \A k \in DOMAIN stack : stack'[k].entity \in Live' \cup {0}
  BY <1>2, <1>3, SameLeaves
<1>7. \A h \in expected : h.at # i
  BY <1>3 DEF EntityInvariant, TypeOK, TreeConsistent
<1>8. stack # <<>> => Source # i
  <2> SUFFICES ASSUME stack # <<>> PROVE Source # i
    OBVIOUS
  <2>1. 1 \in DOMAIN stack /\ Source = stack[1].entity
    BY FirstAndLast DEF EntityInvariant, TypeOK
  <2> QED BY <1>3, <2>1 DEF CallInvariant, Frames
<1>9. Frames' /\ WhileCalled'
  BY <1>2, <1>5, <1>6, <1>7, <1>8, ScriptCalls
<1> QED BY <1>4, <1>9 DEF CallInvariant

\* An act that fails leaves the calls, and breaks the event.
LEMMA FailsCalls ==
  ASSUME CallInvariant, NEW f \in {"dangling", "recursion"}, Fails(f)
  PROVE  CallInvariant'
<1>1. UNCHANGED <<ent, handlers, now, stack>> /\ fault' # "none"
  BY DEF Fails, tree, event, resources
<1>2. Live' = Live
  BY <1>1 DEF Live
<1> QED BY <1>1, <1>2 DEF CallInvariant, Stamped, Frames, WhileCalled

\* What is deleted is not expected any more, and the way to what is left stays.
LEMMA BranchCalls ==
  ASSUME EntityInvariant, EntityInvariant', CallInvariant, NEW D \in SUBSET Live, Closed(D),
         NEW H, fault = "none", stack # <<>> => Top.phase = "call", BranchGoes(D, H)
  PROVE  CallInvariant'
<1>0. D \subseteq Live /\ Closed(D)
  OBVIOUS
<1>1. /\ ent' = Without(D) /\ handlers' \subseteq handlers
      /\ stack' = [k \in DOMAIN stack |->
           IF stack[k].entity \in D THEN [stack[k] EXCEPT !.entity = 0] ELSE stack[k]]
      /\ expected' \subseteq {h \in expected : h.at \notin D}
      /\ now' = now /\ called' = called /\ fault' = fault
  BY DEF BranchGoes, DestroyBranch, Destroy
<1>2. D \subseteq Id /\ Live \subseteq Id /\ 0 \notin D
  BY <1>0, IdFacts DEF Live
<1>3. /\ \A i \in Id \ D : /\ ent'[i].type = ent[i].type /\ ent'[i].parent = ent[i].parent
                           /\ ent'[i].stamp = ent[i].stamp
                           /\ ent'[i].children = ent[i].children \ D
      /\ \A i \in D : ent'[i].parent = 0 /\ ent'[i].children = {}
  <2>1. \A i \in D : ent'[i] = NoEntity
    BY <1>1, <1>2 DEF Without
  <2> QED BY <1>1, <1>2, <2>1, WithoutIs DEF EntityInvariant, NoEntity
<1>4. Live \ D \subseteq Live'
  BY <1>2, <1>3 DEF Live
<1>5. Stamped'
  <2>1. \A c \in Id : ent'[c].parent # 0 =>
           /\ c # 0 => ent[c].parent # 0 /\ ent'[c].stamp = ent[c].stamp
           /\ c = 0 => now' = now + 1 /\ ent'[c].stamp = now'
    BY <1>3, IdFacts
  <2> QED BY <1>1, <2>1, StampsGiven DEF EntityInvariant, CallInvariant
<1>6. Touches(D)
  BY <1>0, <1>2, <1>3 DEF Touches, Closed
<1>7. \A k \in DOMAIN stack : stack[k] \in Call
  BY DEF EntityInvariant, TypeOK
<1>8. Leaves(D) /\ \A k \in DOMAIN stack : stack'[k].entity \in Live' \cup {0}
  <2>1. \A f \in Call : LET z == [f EXCEPT !.entity = 0] IN
          /\ z.up = f.up /\ z.down = f.down /\ z.phase = f.phase /\ z.pos = f.pos
          /\ z.entity = 0
    BY DEF Call
  <2>2. DOMAIN stack' = DOMAIN stack
    BY <1>1
  <2>3. ASSUME NEW k \in DOMAIN stack
        PROVE  /\ stack'[k].up = stack[k].up /\ stack'[k].down = stack[k].down
               /\ stack'[k].phase = stack[k].phase /\ stack'[k].pos = stack[k].pos
               /\ IF stack[k].entity \in D THEN stack'[k].entity = 0
                  ELSE stack'[k].entity = stack[k].entity
    <3>1. CASE stack[k].entity \in D
      <4>1. stack'[k] = [stack[k] EXCEPT !.entity = 0]
        BY <1>1, <3>1
      <4> QED BY <1>7, <2>1, <3>1, <4>1
    <3>2. CASE stack[k].entity \notin D
      BY <1>1, <3>2
    <3> QED BY <3>1, <3>2
  <2>4. \A k \in DOMAIN stack : stack[k].entity \in Live \cup {0}
    BY DEF CallInvariant, Frames
  <2> QED BY <1>4, <2>2, <2>3, <2>4 DEF Leaves
<1>9. stack # <<>> => Source \notin D \/ Source' = 0
  <2> SUFFICES ASSUME stack # <<>>, Source \in D PROVE Source' = 0
    OBVIOUS
  <2>1. 1 \in DOMAIN stack /\ Source = stack[1].entity /\ stack[1] \in Call
    BY <1>7, FirstAndLast DEF EntityInvariant, TypeOK
  <2>2. stack'[1] = [stack[1] EXCEPT !.entity = 0]
    BY <1>1, <2>1
  <2>3. stack'[1].entity = 0
    BY <2>1, <2>2 DEF Call
  <2> QED BY <2>3 DEF Source
<1>10. Frames' /\ WhileCalled'
  BY <1>1, <1>6, <1>8, <1>9, ScriptCalls
<1> QED BY <1>5, <1>10 DEF CallInvariant

\* So it is for both natives that delete, and for what they break.
LEMMA DeleteCalls ==
  ASSUME EntityInvariant, EntityInvariant', CallInvariant, NEW r \in Resources, NEW e \in Id,
         DeleteEntity(r, e) \/ KillTimer(r, e)
  PROVE  CallInvariant'
<1>1. fault = "none" /\ (stack # <<>> => Top.phase = "call")
  BY DEF DeleteEntity, KillTimer, Script, Act, Top
<1>2. e \in Live
  <2>1. CASE DeleteEntity(r, e)
    BY <2>1 DEF DeleteEntity, Deletable, Live
  <2>2. CASE KillTimer(r, e)
    BY <2>2 DEF KillTimer, EntityInvariant, TreeConsistent, Live
  <2> QED BY <2>1, <2>2
<1>3. CASE Fails("recursion") \/ Fails("dangling")
  BY <1>3, FailsCalls
<1>4. CASE ScriptDeletes(Below(e))
  <2>1. Below(e) \in SUBSET Live /\ Closed(Below(e))
    BY <1>2, BelowLive, BelowIs DEF EntityInvariant, Live
  <2>2. BranchGoes(Below(e), handlers)
    BY <1>4 DEF BranchGoes, ScriptDeletes, resources, EntityInvariant, TreeConsistent
  <2> QED BY <1>1, <2>1, <2>2, BranchCalls
<1> QED BY <1>3, <1>4 DEF DeleteEntity, KillTimer

\* What is moved is not expected any more, nor is anything where the source is.
LEMMA SetParentCalls ==
  ASSUME EntityInvariant, EntityInvariant', CallInvariant, NEW r \in Resources,
         NEW e \in Id, NEW p \in Id, SetParent(r, e, p)
  PROVE  CallInvariant'
<1> DEFINE D == Below(e)
<1>1. Reparented(e, p)
  BY ReparentedIs
<1>2. /\ fault = "none" /\ (stack # <<>> => Top.phase = "call") /\ now' = now + 1
      /\ expected' = IF stack # <<>> /\ Source \in D THEN {} ELSE {h \in expected : h.at \notin D}
      /\ UNCHANGED <<handlers, stack, called>>
  BY DEF SetParent, Script, Act, Top
<1>3. D \subseteq Id /\ e \in D /\ Closed(D)
  BY BelowIs DEF EntityInvariant
<1> HIDE DEF D
<1>4. Live' = Live
  <2>1. \A i \in Id : ent'[i].type = ent[i].type
    BY <1>1 DEF Reparented
  <2> QED BY <2>1 DEF Live
<1>5. Stamped'
  <2>1. \A c \in Id : ent'[c].parent # 0 =>
           /\ c # e => ent[c].parent # 0 /\ ent'[c].stamp = ent[c].stamp
           /\ c = e => now' = now + 1 /\ ent'[c].stamp = now'
    BY <1>1, <1>2 DEF Reparented
  <2> QED BY <1>2, <2>1, StampsGiven DEF EntityInvariant, CallInvariant
<1>6. Touches(D)
  <2>1. \A i \in Id : ent'[i].children \subseteq ent[i].children \cup {e}
    BY <1>1 DEF Reparented
  <2>2. \A i \in Id : ent[i].children \subseteq ent'[i].children \cup {e}
    BY <1>1 DEF Reparented
  <2>3. \A i \in Id \ D : ent'[i].stamp = ent[i].stamp /\ ent'[i].parent = ent[i].parent
    BY <1>1, <1>3 DEF Reparented
  <2> QED BY <1>3, <2>1, <2>2, <2>3 DEF Touches, Closed
<1>7. Leaves(D) /\ \A k \in DOMAIN stack : stack'[k].entity \in Live' \cup {0}
  BY <1>2, <1>4, SameLeaves
<1>8. expected' \subseteq {h \in expected : h.at \notin D}
  BY <1>2
<1>9. stack # <<>> /\ expected' # {} => Source \notin D
  BY <1>2
<1>10. Frames' /\ WhileCalled'
  BY <1>2, <1>6, <1>7, <1>8, <1>9, ScriptCalls
<1> QED BY <1>5, <1>10 DEF CallInvariant

\* A new handler is not expected, and one that is taken away is no more.
LEMMA EventsCalls ==
  ASSUME EntityInvariant, EntityInvariant', CallInvariant, NEW r \in Resources,
         \/ \E e \in Id, f \in Functions : AddEvent(r, e, f)
         \/ \E h \in handlers : RemoveEvent(r, h)
  PROVE  CallInvariant'
<1>1. /\ fault = "none" /\ (stack # <<>> => Top.phase = "call") /\ expected' \subseteq expected
      /\ UNCHANGED <<ent, stack, called>>
  BY DEF AddEvent, RemoveEvent, Script, Act, Top, event, resources
<1>2. Live' = Live
  BY <1>1 DEF Live
<1>3. \A c \in Id : ent'[c].parent # 0 =>
           /\ c # 0 => ent[c].parent # 0 /\ ent'[c].stamp = ent[c].stamp
           /\ c = 0 => now' = now + 1 /\ ent'[c].stamp = now'
  BY <1>1, IdFacts
<1>4. Stamped'
  <2>1. CASE \E e \in Id, f \in Functions : AddEvent(r, e, f)
    <3>1. PICK e \in Id, f \in Functions : AddEvent(r, e, f)
      BY <2>1
    <3>2. PICK x : x = [at |-> e, by |-> r, function |-> f, stamp |-> now']
      OBVIOUS
    <3>3. now' = now + 1 /\ handlers' = handlers \cup {x} /\ x.stamp = now'
      BY <3>1, <3>2 DEF AddEvent
    <3> QED BY <1>3, <3>3, StampsGiven DEF EntityInvariant, CallInvariant
  <2>2. CASE \E h \in handlers : RemoveEvent(r, h)
    <3>1. now' = now /\ handlers' \subseteq handlers
      BY <2>2 DEF RemoveEvent
    <3> QED BY <1>3, <3>1, StampsGiven DEF EntityInvariant, CallInvariant
  <2> QED BY <2>1, <2>2
<1>5. Touches({})
  BY <1>1 DEF Touches
<1>6. Leaves({}) /\ \A k \in DOMAIN stack : stack'[k].entity \in Live' \cup {0}
  BY <1>1, <1>2, SameLeaves
<1>7. Frames' /\ WhileCalled'
  BY <1>1, <1>5, <1>6, ScriptCalls
<1> QED BY <1>4, <1>7 DEF CallInvariant

\* A resource that stops deletes a branch, between events or under one.
LEMMA StopCalls ==
  ASSUME EntityInvariant, EntityInvariant', CallInvariant,
         \/ \E r \in Resources : StopResource(r)
         \/ StartFails
  PROVE  CallInvariant'
<1>1. PICK r \in Resources : Stop(r)
  BY WhoStops
<1>2. fault = "none" /\ (stack # <<>> => Top.phase = "call")
  BY WhoStops DEF Top
<1>3. CASE Fails("recursion") \/ Fails("dangling")
  BY <1>3, FailsCalls
<1>4. CASE ~(Fails("recursion") \/ Fails("dangling"))
  <2> DEFINE D == Below(r) \ {r}
  <2>1. D \in SUBSET Live /\ Closed(D) /\ BranchGoes(D, RemoveEvents(r))
    BY <1>1, <1>4, StopGoes
  <2> HIDE DEF D
  <2> QED BY <1>2, <2>1, BranchCalls
<1> QED BY <1>3, <1>4

\* A start, and the return of one, leave the tree and the calls.
LEMMA StartCalls ==
  ASSUME EntityInvariant, EntityInvariant', CallInvariant,
         \/ \E q, r \in Resources : StartResource(q, r)
         \/ StartReturns
  PROVE  CallInvariant'
<1>1. /\ UNCHANGED <<ent, handlers, stack, expected, called>>
      /\ fault = "none" /\ now' \in {now, now + 1}
  BY StartStep
<1>2. stack # <<>> => Top.phase = "call"
  <2>1. CASE \E q, r \in Resources : StartResource(q, r)
    BY <2>1 DEF StartResource, Script, Top
  <2>2. CASE StartReturns
    BY <2>2 DEF StartReturns, EntityInvariant, Calls, Top
  <2> QED BY <2>1, <2>2
<1>3. Live' = Live
  BY <1>1 DEF Live
<1>4. Stamped'
  <2>1. \A c \in Id : ent'[c].parent # 0 =>
           /\ c # 0 => ent[c].parent # 0 /\ ent'[c].stamp = ent[c].stamp
           /\ c = 0 => now' = now + 1 /\ ent'[c].stamp = now'
    BY <1>1, IdFacts
  <2> QED BY <1>1, <2>1, StampsGiven DEF EntityInvariant, CallInvariant
<1>5. Touches({})
  BY <1>1 DEF Touches
<1>6. Leaves({}) /\ \A k \in DOMAIN stack : stack'[k].entity \in Live' \cup {0}
  BY <1>1, <1>3, SameLeaves
<1>7. Frames' /\ WhileCalled'
  BY <1>1, <1>2, <1>5, <1>6, ScriptCalls
<1> QED BY <1>4, <1>7 DEF CallInvariant

-----------------------------------------------------------------------------
(* The event goes on *)

\* The tree does not change under an event.
LEMMA SameTree ==
  ASSUME ent' = ent
  PROVE  /\ Live' = Live
         /\ \A e : Below(e)' = Below(e)
         /\ \A h : Clear(h)' <=> Clear(h)
<1>1. \A e : Below(e)' = Below(e)
  BY DEF Below, Closed
<1>2. \A e \in Id : Cyclic(e)' <=> Cyclic(e)
  BY DEF Cyclic, Below, Closed
<1>3. \A h : Above(h.at)' = Above(h.at) /\ Above(h.at) \subseteq Id
  BY DEF Above, Below, Closed
<1>4. \A h : Clear(h)' <=> Clear(h)
  BY <1>2, <1>3 DEF Clear
<1> QED BY <1>1, <1>4 DEF Live

\* A walk over a list ends behind its last element.
LEMMA AfterNone ==
  ASSUME NEW X, NEW n \in Nat, \A x \in X : x.stamp \in Nat, After(X, n) = {}
  PROVE  \A x \in X : ~(x.stamp > n)
<1> SUFFICES ASSUME NEW z \in X, z.stamp > n PROVE FALSE
  OBVIOUS
<1> DEFINE T == {x.stamp : x \in {y \in X : y.stamp > n}}
<1>1. T \in SUBSET Nat /\ z.stamp \in T
  OBVIOUS
<1>2. PICK m \in T : \A k \in T : m <= k
  BY <1>1, LeastNumber
<1>3. PICK x \in X : x.stamp > n /\ x.stamp = m
  OBVIOUS
<1>4. x \in After(X, n)
  BY <1>2, <1>3 DEF After
<1> QED BY <1>4

\* The call that is replaced is the last, and the others stay.
LEMMA CallReplaced ==
  ASSUME EntityInvariant, Frames, stack # <<>>, NEW f \in Call, f.entity = Top.entity,
         f.up = Top.up, f.down = Top.down, stack' = Append(Front(stack), f), ent' = ent
  PROVE  /\ stack' # <<>> /\ DOMAIN stack' = DOMAIN stack
         /\ DOMAIN stack = 1 .. Len(stack) /\ Len(stack) \in Nat \ {0}
         /\ Top = stack[Len(stack)] /\ Top' = f /\ stack'[Len(stack)] = f
         /\ \A k \in 1 .. Len(stack) - 1 : stack'[k] = stack[k]
         /\ Source' = Source /\ Source = stack[1].entity
         /\ Frames'
<1>1. stack \in Seq(Call)
  BY DEF EntityInvariant, TypeOK
<1>2. /\ stack' \in Seq(Call) /\ Len(stack') = Len(stack) /\ Len(stack) \in Nat \ {0}
      /\ \A k \in 1 .. Len(stack) : stack'[k] = IF k = Len(stack) THEN f ELSE stack[k]
  BY <1>1, SequenceParts
<1>3. DOMAIN stack = 1 .. Len(stack) /\ DOMAIN stack' = 1 .. Len(stack) /\ stack' # <<>>
  BY <1>1, <1>2
<1>4. Top = stack[Len(stack)] /\ Top' = f /\ stack'[Len(stack)] = f
  BY <1>2 DEF Top, Last
<1>5. \A k \in 1 .. Len(stack) - 1 : stack'[k] = stack[k]
  BY <1>2
<1> DEFINE n == Len(stack)
<1>6. ASSUME NEW k \in 1 .. n
      PROVE  /\ stack'[k].entity = stack[k].entity
             /\ stack'[k].up = stack[k].up /\ stack'[k].down = stack[k].down
  BY <1>2, <1>4
<1>7. Source' = Source /\ Source = stack[1].entity
  <2>1. 1 \in 1 .. Len(stack)
    BY <1>2
  <2>2. Source' = stack'[1].entity /\ Source = stack[1].entity
    BY <1>1, <1>2, <1>3 DEF Source
  <2> QED BY <1>6, <2>1, <2>2
<1>8. Frames'
  <2>1. Live' = Live
    BY SameTree
  <2>2. \A k \in 1 .. n : \A j \in 1 .. k : j \in 1 .. n
    <3>1. n \in Nat
      BY SMTT(30), <1>2
    <3> HIDE DEF n
    <3> QED BY <3>1
  <2>3. DOMAIN stack = 1 .. n /\ DOMAIN stack' = 1 .. n
    BY ZenonT(60), <1>3
  <2> HIDE DEF n
  <2>4. ASSUME NEW k \in 1 .. n
        PROVE  /\ stack'[k].entity \in Live \cup {0}
               /\ k = 1 => stack'[k].up /\ stack'[k].down
               /\ k > 1 => stack'[k].up = ~stack'[k].down
               /\ stack'[k].up => \A j \in 1 .. k : stack'[j].up
    BY <1>6, <2>2, <2>3, ZenonT(60) DEF Frames
  <2> QED BY <2>1, <2>3, <2>4 DEF Frames
<1> QED BY <1>2, <1>3, <1>4, <1>5, <1>7, <1>8

\* A call that is made is the last, behind the one that made it.
LEMMA CallPushed ==
  ASSUME EntityInvariant, Frames, stack # <<>>, NEW f \in Call, f.entity = Top.entity,
         f.up = Top.up, f.down = Top.down, NEW g \in Call, g.entity \in Live,
         g.up = ~g.down, g.up => Top.up,
         stack' = Front(stack) \o <<f, g>>, ent' = ent
  PROVE  /\ stack' # <<>> /\ DOMAIN stack' = 1 .. Len(stack) + 1
         /\ DOMAIN stack = 1 .. Len(stack) /\ Len(stack) \in Nat \ {0}
         /\ Top = stack[Len(stack)] /\ Top' = g
         /\ stack'[Len(stack)] = f /\ stack'[Len(stack) + 1] = g
         /\ \A k \in 1 .. Len(stack) - 1 : stack'[k] = stack[k]
         /\ Source' = Source /\ Source = stack[1].entity
         /\ Frames'
<1>1. stack \in Seq(Call)
  BY DEF EntityInvariant, TypeOK
<1>2. /\ stack' \in Seq(Call) /\ Len(stack') = Len(stack) + 1 /\ Len(stack) \in Nat \ {0}
      /\ \A k \in 1 .. Len(stack) + 1 :
           stack'[k] = IF k = Len(stack) THEN f
                       ELSE IF k = Len(stack) + 1 THEN g ELSE stack[k]
  <2>1. Len(stack) \in Nat \ {0}
    BY <1>1, SequenceParts
  <2> DEFINE t == Front(stack) \o <<f, g>>
  <2>2. WithTwo(t, stack, f, g, Call)
    BY <1>1, SequenceAndTwo, Zenon
  <2>3. stack' = t
    OBVIOUS
  <2> HIDE DEF t
  <2> QED BY <2>1, <2>2, <2>3 DEF WithTwo
<1> DEFINE n == Len(stack)
<1>3. /\ n \in Nat \ {0} /\ n + 1 \in 1 .. n + 1 /\ n \in 1 .. n + 1 /\ n + 1 # n /\ n \in 1 .. n
      /\ \A k \in 1 .. n - 1 : k \in 1 .. n + 1 /\ k # n /\ k # n + 1
      /\ \A k \in 1 .. n + 1 : k = n + 1 \/ k = n \/ k \in 1 .. n - 1
      /\ 1 \in 1 .. n
  BY <1>2
<1>4. DOMAIN stack = 1 .. n /\ DOMAIN stack' = 1 .. n + 1 /\ stack' # <<>>
  BY <1>1, <1>2
<1>5. /\ stack'[n] = f /\ stack'[n + 1] = g /\ Top = stack[n] /\ Top' = g
      /\ \A k \in 1 .. n - 1 : stack'[k] = stack[k]
  <2>1. stack'[n] = f /\ stack'[n + 1] = g
    BY <1>2, <1>3
  <2>2. Top = stack[n] /\ Top' = stack'[n + 1]
    BY <1>2 DEF Top, Last
  <2>3. \A k \in 1 .. n - 1 : stack'[k] = stack[k]
    BY <1>2, <1>3
  <2> QED BY <2>1, <2>2, <2>3
<1> HIDE DEF n
<1>6. ASSUME NEW k \in 1 .. n
      PROVE  /\ stack'[k].entity = stack[k].entity
             /\ stack'[k].up = stack[k].up /\ stack'[k].down = stack[k].down
  <2>1. CASE k = n
    BY <1>5, <2>1
  <2>2. CASE k # n
    <3>1. k \in 1 .. n - 1
      BY <1>3, <2>2
    <3> QED BY <1>5, <3>1
  <2> QED BY <2>1, <2>2
<1>7. Source' = Source /\ Source = stack[1].entity
  <2>1. Source' = stack'[1].entity /\ Source = stack[1].entity
    BY <1>1, <1>2, <1>4 DEF Source
  <2> QED BY <1>3, <1>6, <2>1
<1>8. Frames'
  <2>1. Live' = Live
    BY SameTree
  <2>2. \A k \in 1 .. n : \A j \in 1 .. k : j \in 1 .. n /\ stack'[j].up = stack[j].up
    <3>1. n \in Nat
      BY <1>3
    <3>2. \A k \in 1 .. n : \A j \in 1 .. k : j \in 1 .. n
      BY <3>1
    <3> QED BY <1>6, <3>2
  <2>3. ASSUME NEW k \in 1 .. n
        PROVE  /\ stack'[k].entity \in Live \cup {0}
               /\ k = 1 => stack'[k].up /\ stack'[k].down
               /\ k > 1 => stack'[k].up = ~stack'[k].down
               /\ stack'[k].up => \A j \in 1 .. k : stack'[j].up
    BY <1>4, <1>6, <2>2 DEF Frames
  <2>4. g.up => \A j \in 1 .. n + 1 : stack'[j].up
    <3> SUFFICES ASSUME g.up, NEW j \in 1 .. n + 1 PROVE stack'[j].up
      OBVIOUS
    <3>1. CASE j = n + 1
      BY <1>5, <3>1
    <3>2. CASE j # n + 1
      <4>1. j \in 1 .. n
        BY <1>3, <3>2
      <4>2. stack'[n].up
        BY <1>5
      <4> QED BY <1>3, <2>3, <4>1, <4>2
    <3> QED BY <3>1, <3>2
  <2>5. n + 1 # 1
    BY <1>3
  <2>6. ASSUME NEW k \in 1 .. n + 1
        PROVE  /\ stack'[k].entity \in Live \cup {0}
               /\ k = 1 => stack'[k].up /\ stack'[k].down
               /\ k > 1 => stack'[k].up = ~stack'[k].down
               /\ stack'[k].up => \A j \in 1 .. k : stack'[j].up
    <3>1. CASE k = n + 1
      BY <1>5, <2>4, <2>5, <3>1
    <3>2. CASE k # n + 1
      <4>1. k \in 1 .. n
        BY <1>3, <3>2
      <4> QED BY <2>3, <4>1
    <3> QED BY <3>1, <3>2
  <2> QED BY <1>4, <2>1, <2>6 DEF Frames
<1> QED BY <1>2, <1>4, <1>5, <1>7, <1>8 DEF n

\* An event begins with all of its handlers to come.
LEMMA CallEventCalls ==
  ASSUME EntityInvariant, EntityInvariant', CallInvariant, NEW e \in Id, CallEvent(e)
  PROVE  CallInvariant'
<1>1. /\ e \in Live /\ stack' = <<Frame(e, TRUE, TRUE)>> /\ called' = {}
      /\ expected' = {h \in handlers : h.at \in Below(e) \cup Above(e)}
      /\ UNCHANGED <<ent, handlers, now>>
  BY DEF CallEvent, tree, resources
<1>2. /\ TypeOK /\ TreeConsistent /\ Live' = Live
      /\ \A a : Below(a)' = Below(a)
      /\ \A h : Clear(h)' <=> Clear(h)
  BY <1>1, SameTree DEF EntityInvariant
<1> DEFINE f == Frame(e, TRUE, TRUE)
<1>3. /\ Top' = f /\ DOMAIN stack' = {1} /\ stack'[1] = f /\ stack' # <<>> /\ Source' = f.entity
  BY <1>1 DEF Top, Last, Source
<1>4. /\ f.entity = e /\ f.phase = "handlers" /\ f.up /\ f.down /\ f.pos = 0 /\ e # 0
  BY IdFacts DEF Frame
<1> HIDE DEF f
<1>5. Stamped'
  BY <1>1 DEF CallInvariant, Stamped
<1>6. Frames'
  <2>1. \A k \in DOMAIN stack' : k = 1 /\ ~(k > 1) /\ \A j \in 1 .. k : j = 1
    BY <1>3
  <2>2. stack'[1].up /\ stack'[1].down /\ stack'[1].entity \in Live'
    BY <1>1, <1>2, <1>3, <1>4
  <2> QED BY <2>1, <2>2 DEF Frames
<1>7. ASSUME NEW h \in expected'
      PROVE  /\ h.at \in Id /\ h.stamp > 0
             /\ OwnToCome(h)' <=> e = h.at
             /\ UpToCome(h)' <=> ent[e].parent # 0 /\ ent[e].parent \in Below(h.at)
             /\ DownToCome(h, 1)' <=> \E c \in ent[e].children : h.at \in Below(c)
  <2>1. h \in handlers /\ h.at \in Id /\ h.stamp > 0 /\ h.stamp \in Nat
    BY <1>1, <1>2 DEF TypeOK, Handler, CallInvariant, Stamped
  <2>2. OwnToCome(h)' <=> e = h.at
    BY <1>3, <1>4, <2>1 DEF OwnToCome, AtHandlers
  <2>3. UpToCome(h)' <=> ent[e].parent # 0 /\ ent[e].parent \in Below(h.at)
    BY <1>1, <1>2, <1>3, <1>4 DEF UpToCome, AtHandlers
  <2>4. \A c \in Id : ChildToCome(stack[1], c)' <=> c \in ent[e].children
    BY <1>1, <1>3, <1>4 DEF ChildToCome
  <2>5. DownToCome(h, 1)' <=> \E c \in ent[e].children : h.at \in Below(c)
    BY <1>2, <2>4, BelowChildren DEF DownToCome
  <2> QED BY <2>1, <2>2, <2>3, <2>5
<1>8. AllToCome'
  <2> SUFFICES ASSUME NEW h \in expected'
               PROVE  OwnToCome(h)' \/ UpToCome(h)' \/ DownToCome(h, 1)'
    BY <1>3 DEF AllToCome
  <2>1. CASE h.at \in Below(e)
    <3>1. h.at = e \/ \E c \in ent[e].children : h.at \in Below(c)
      BY <1>2, <2>1, BelowChildren
    <3> QED BY <1>7, <3>1
  <2>2. CASE e \in Below(h.at)
    <3>1. h.at \in Id
      BY <1>7
    <3>2. e # h.at => ent[e].parent # 0 /\ ent[e].parent \in Below(h.at)
      BY <1>2, <2>2, <3>1, ParentBelow
    <3> QED BY <1>7, <3>2
  <2> QED BY <1>1, <2>1, <2>2 DEF Above
<1>9. Rising'
  <2>1. e \in Below(e)
    BY <1>2, BelowIs
  <2>2. Source' = e /\ Top'.entity = e
    BY <1>3, <1>4
  <2>3. Below(Top.entity)' = Below(e)
    BY <1>1, <2>2 DEF Below, Closed
  <2> QED BY <1>1, <2>1, <2>2, <2>3 DEF Rising
<1>10. OnceToCome'
  <2> SUFFICES ASSUME NEW h \in expected', Clear(h), OwnToCome(h)', DownToCome(h, 1)'
               PROVE  FALSE
    BY <1>1, <1>2, <1>3 DEF OnceToCome
  <2>1. PICK c \in ent[e].children : h.at \in Below(c)
    BY <1>7
  <2>2. Cyclic(e) /\ h.at = e
    BY <1>7, <2>1 DEF Cyclic
  <2>3. e \in Above(h.at)
    BY <1>2, <2>2, BelowIs DEF Above
  <2> QED BY <2>2, <2>3 DEF Clear
<1> QED BY <1>5, <1>6, <1>8, <1>9, <1>10 DEF CallInvariant, WhileCalled

\* What changes in a step of an event that does not end it.
GoesOn ==
  /\ UNCHANGED <<ent, handlers, now, expected>>
  /\ stack # <<>> /\ fault = "none"

\* It gives no stamps.
LEMMA GoesOnStamped ==
  ASSUME CallInvariant, GoesOn
  PROVE  Stamped'
  BY DEF CallInvariant, GoesOn, Stamped

\* A handler is called: it is no longer to come, and all others are.
LEMMA HandlerCalled ==
  ASSUME EntityInvariant, CallInvariant, GoesOn, Top.phase = "handlers",
         NEW x \in After(HandlersOf(Top.entity), Top.pos), called' = called \cup {x},
         Replace([Top EXCEPT !.phase = "call", !.pos = x.stamp])
  PROVE  CallInvariant'
<1>1. /\ TypeOK /\ TreeConsistent /\ Frames /\ AllToCome /\ Rising /\ OnceToCome
      /\ ent' = ent /\ expected' = expected /\ stack # <<>>
  BY DEF EntityInvariant, CallInvariant, WhileCalled, GoesOn
<1>2. /\ Live' = Live
      /\ \A a : Below(a)' = Below(a)
      /\ \A h : Clear(h)' <=> Clear(h)
  BY <1>1, SameTree
<1>3. Top \in Call /\ Top.entity \in Live /\ Top.entity # 0
  BY <1>1, UnderWay, IdFacts DEF Live
<1>4. /\ x \in handlers /\ x.at = Top.entity /\ x.stamp > Top.pos /\ x.stamp \in Nat
      /\ \A h \in handlers : h.at = Top.entity /\ h.stamp > Top.pos => x.stamp <= h.stamp
  BY <1>1 DEF After, HandlersOf, TypeOK, Handler
<1> DEFINE t == Top
           f == [t EXCEPT !.phase = "call", !.pos = x.stamp]
           n == Len(stack)
<1>5. stack' = Append(Front(stack), f) /\ t \in Call
  BY <1>3 DEF Replace
<1> HIDE DEF t
<1>6. /\ f \in Call /\ f.phase = "call" /\ f.pos = x.stamp /\ f.entity = t.entity
      /\ f.up = t.up /\ f.down = t.down
  BY <1>4, <1>5 DEF Call
<1> HIDE DEF f
<1>7. /\ stack' # <<>> /\ DOMAIN stack' = DOMAIN stack /\ DOMAIN stack = 1 .. n
      /\ n \in Nat \ {0} /\ Top = stack[n] /\ Top' = f /\ stack'[n] = f
      /\ \A k \in 1 .. n - 1 : stack'[k] = stack[k]
      /\ Source' = Source /\ Source = stack[1].entity
      /\ Frames'
  BY <1>1, <1>5, <1>6, CallReplaced DEF t
<1>8. ASSUME NEW h, NEW k \in 1 .. n
      PROVE  DownToCome(h, k)' <=> DownToCome(h, k)
  <2>1. CASE k = n
    BY <1>1, <1>2, <1>6, <1>7, <2>1 DEF DownToCome, ChildToCome, t
  <2>2. CASE k # n
    <3>1. stack'[k] = stack[k]
      BY <1>7, <2>2
    <3> QED BY <1>1, <1>2, <3>1 DEF DownToCome, ChildToCome
  <2> QED BY <2>1, <2>2
<1>9. \A h : UpToCome(h)' <=> UpToCome(h)
  BY <1>1, <1>2, <1>6, <1>7 DEF UpToCome, AtHandlers, t
<1>10. \A h : OwnToCome(h)' <=> h.at = Top.entity /\ h.stamp > x.stamp
  BY <1>3, <1>6, <1>7 DEF OwnToCome, AtHandlers, t
<1>11. \A h : OwnToCome(h) <=> h.at = Top.entity /\ h.stamp > Top.pos
  BY <1>3 DEF OwnToCome, AtHandlers
<1>12. \A h \in expected : h \in handlers /\ h.stamp \in Nat
  BY <1>1 DEF TypeOK, Handler
<1>13. Top.pos \in Nat
  BY <1>3 DEF Call
<1>14. AllToCome'
  <2> SUFFICES ASSUME ~Doomed', NEW h \in expected, h \notin called, h # x
               PROVE  OwnToCome(h)' \/ UpToCome(h)' \/ \E k \in 1 .. n : DownToCome(h, k)'
    BY <1>1, <1>7 DEF AllToCome
  <2>1. ~Doomed
    BY <1>3, <1>7 DEF Doomed
  <2>2. OwnToCome(h) \/ UpToCome(h) \/ \E k \in 1 .. n : DownToCome(h, k)
    BY <1>1, <1>7, <2>1 DEF AllToCome
  <2>3. OwnToCome(h) => h.stamp # x.stamp
    BY <1>4, <1>12 DEF CallInvariant, Stamped
  <2>4. OwnToCome(h) => OwnToCome(h)'
    BY <1>4, <1>10, <1>11, <1>12, <2>3
  <2> QED BY <1>8, <1>9, <2>2, <2>4
<1>15. Rising'
  <2>1. Below(Top.entity)' = Below(Top.entity) /\ Top'.entity = Top.entity
    BY <1>1, <1>6, <1>7 DEF Below, Closed, t
  <2>2. x.at \in Below(Top.entity)
    <3>1. Top.entity \in Id
      BY <1>3 DEF Live
    <3> QED BY <1>1, <1>4, <3>1, BelowIs
  <2>3. AtHandlers /\ (AtHandlers /\ Top.up)' => Top.up
    BY <1>3, <1>6, <1>7 DEF AtHandlers, t
  <2>4. AtHandlers
    BY <1>3 DEF AtHandlers
  <2> QED BY <1>1, <1>7, <2>1, <2>2, <2>3, <2>4 DEF Rising
<1>16. OnceToCome'
  <2> SUFFICES ASSUME NEW h \in expected, Clear(h)
               PROVE  /\ h \in called \cup {x} =>
                           ~OwnToCome(h)' /\ \A k \in 1 .. n : ~DownToCome(h, k)'
                      /\ OwnToCome(h)' => \A k \in 1 .. n : ~DownToCome(h, k)'
                      /\ \A k, l \in 1 .. n : DownToCome(h, k)' /\ DownToCome(h, l)' => k = l
    BY <1>1, <1>2, <1>7 DEF OnceToCome
  <2>1. OwnToCome(h)' => OwnToCome(h)
    BY <1>4, <1>10, <1>11, <1>12, <1>13
  <2>2. h = x => OwnToCome(h) /\ ~OwnToCome(h)'
    BY <1>4, <1>10, <1>11
  <2>3. /\ h \in called => ~OwnToCome(h) /\ \A k \in 1 .. n : ~DownToCome(h, k)
        /\ OwnToCome(h) => \A k \in 1 .. n : ~DownToCome(h, k)
        /\ \A k, l \in 1 .. n : DownToCome(h, k) /\ DownToCome(h, l) => k = l
    BY <1>1, <1>7 DEF OnceToCome
  <2> QED BY <1>8, <2>1, <2>2, <2>3
<1> QED BY <1>7, <1>14, <1>15, <1>16, GoesOnStamped DEF CallInvariant, WhileCalled

\* A handler returns: what is to come stays.
LEMMA HandlerReturned ==
  ASSUME EntityInvariant, CallInvariant, GoesOn, Top.phase = "call", called' = called,
         NEW x \in handlers, x.at = Top.entity, Replace([Top EXCEPT !.phase = "handlers"])
  PROVE  CallInvariant'
<1>1. /\ TypeOK /\ TreeConsistent /\ Frames /\ AllToCome /\ Rising /\ OnceToCome
      /\ ent' = ent /\ expected' = expected /\ stack # <<>>
  BY DEF EntityInvariant, CallInvariant, WhileCalled, GoesOn
<1>2. /\ Live' = Live
      /\ \A a : Below(a)' = Below(a)
      /\ \A h : Clear(h)' <=> Clear(h)
  BY <1>1, SameTree
<1>3. Top \in Call /\ Top.entity \in Live /\ Top.entity # 0
  BY <1>1, UnderWay, IdFacts DEF TreeConsistent, Live
<1> DEFINE t == Top
           f == [t EXCEPT !.phase = "handlers"]
           n == Len(stack)
<1>4. stack' = Append(Front(stack), f) /\ t \in Call
  BY <1>3 DEF Replace
<1> HIDE DEF t
<1>5. /\ f \in Call /\ f.phase = "handlers" /\ f.pos = t.pos /\ f.entity = t.entity
      /\ f.up = t.up /\ f.down = t.down
  BY <1>4 DEF Call
<1> HIDE DEF f
<1>6. /\ stack' # <<>> /\ DOMAIN stack' = DOMAIN stack /\ DOMAIN stack = 1 .. n
      /\ n \in Nat \ {0} /\ Top = stack[n] /\ Top' = f /\ stack'[n] = f
      /\ \A k \in 1 .. n - 1 : stack'[k] = stack[k]
      /\ Source' = Source /\ Source = stack[1].entity
      /\ Frames'
  BY <1>1, <1>4, <1>5, CallReplaced DEF t
<1>7. ASSUME NEW h, NEW k \in 1 .. n
      PROVE  DownToCome(h, k)' <=> DownToCome(h, k)
  <2>1. CASE k = n
    BY <1>1, <1>2, <1>5, <1>6, <2>1 DEF DownToCome, ChildToCome, t
  <2>2. CASE k # n
    <3>1. stack'[k] = stack[k]
      BY <1>6, <2>2
    <3> QED BY <1>1, <1>2, <3>1 DEF DownToCome, ChildToCome
  <2> QED BY <2>1, <2>2
<1>8. \A h : /\ UpToCome(h)' <=> UpToCome(h)
             /\ OwnToCome(h)' <=> OwnToCome(h)
  BY <1>1, <1>2, <1>5, <1>6 DEF UpToCome, OwnToCome, AtHandlers, t
<1>9. Doomed' <=> Doomed
  BY <1>3, <1>5, <1>6 DEF Doomed, t
<1>10. AllToCome'
  BY <1>1, <1>6, <1>7, <1>8, <1>9 DEF AllToCome
<1>11. Rising'
  <2>1. Below(Top.entity)' = Below(Top.entity) /\ Top'.entity = Top.entity
    BY <1>1, <1>5, <1>6 DEF Below, Closed, t
  <2>2. (AtHandlers /\ Top.up)' => AtHandlers /\ Top.up
    BY <1>3, <1>5, <1>6 DEF AtHandlers, t
  <2> QED BY <1>1, <1>6, <2>1, <2>2 DEF Rising
<1>12. OnceToCome'
  BY <1>1, <1>2, <1>6, <1>7, <1>8 DEF OnceToCome
<1> QED BY <1>6, <1>10, <1>11, <1>12, GoesOnStamped DEF CallInvariant, WhileCalled

\* A circle above a handler is not clear.
LEMMA NotClear ==
  ASSUME NEW h, NEW x \in Id, h.at \in Below(x), Cyclic(x)
  PROVE  ~Clear(h)
  BY DEF Clear, Above

\* What comes to the same children comes to the same handlers.
LEMMA SameToCome ==
  ASSUME ent' = ent, NEW h, NEW k,
         \A c \in Id : ChildToCome(stack'[k], c) <=> ChildToCome(stack[k], c)
  PROVE  DownToCome(h, k)' <=> DownToCome(h, k)
<1>1. \A c \in Id : ChildToCome(stack[k], c)' <=> ChildToCome(stack[k], c)
  BY DEF ChildToCome
<1>2. \A c : Below(c)' = Below(c)
  BY SameTree
<1> QED BY <1>1, <1>2 DEF DownToCome

\* After the last handler the children are to come, all of them.
LEMMA ChildrenToCome ==
  ASSUME TypeOK, TreeConsistent, Stamped, ent' = ent, NEW f \in Call, NEW g \in Call,
         f.phase = "handlers", g.phase = "children", g.pos = 0,
         g.entity = f.entity, g.down = f.down, f.entity \in Live, NEW c \in Id
  PROVE  ChildToCome(f, c) <=> ChildToCome(g, c)
<1>1. f.entity \in Id
  BY DEF Live
<1>2. c \in ent[f.entity].children => ent[c].parent # 0
  <2>1. f.entity # 0
    BY <1>1, IdFacts
  <2> QED BY <1>1, <2>1 DEF TreeConsistent
<1>3. c \in ent[f.entity].children => ent[c].stamp > 0
  BY <1>2 DEF Stamped
<1> QED BY <1>3 DEF ChildToCome

\* After the last handler of an entity the event goes on with its parent.
LEMMA GoneUp ==
  ASSUME EntityInvariant, CallInvariant, GoesOn, Top.phase = "handlers", called' = called,
         After(HandlersOf(Top.entity), Top.pos) = {}, GoesUp(Top),
         stack' = Front(stack) \o <<[Top EXCEPT !.phase = "children", !.pos = 0],
                                    Frame(ent[Top.entity].parent, TRUE, FALSE)>>
  PROVE  CallInvariant'
<1>1. /\ TypeOK /\ TreeConsistent /\ Stamped /\ Frames /\ AllToCome /\ Rising /\ OnceToCome
      /\ ent' = ent /\ expected' = expected /\ stack # <<>>
  BY DEF EntityInvariant, CallInvariant, WhileCalled, GoesOn
<1>2. /\ Live' = Live
      /\ \A a : Below(a)' = Below(a)
      /\ \A h : Clear(h)' <=> Clear(h)
  BY <1>1, SameTree
<1> DEFINE t == Top
           e == Top.entity
           p == ent[e].parent
           f == [t EXCEPT !.phase = "children", !.pos = 0]
           g == Frame(p, TRUE, FALSE)
           n == Len(stack)
<1>3. /\ t \in Call /\ e \in Live /\ e \in Id /\ e # 0 /\ t.up /\ p # 0 /\ t.pos \in Nat
      /\ t.phase = "handlers"
  BY <1>1, UnderWay, IdFacts DEF Live, GoesUp, Call
<1>4. p \in Live /\ p \in Id /\ e \in ent[p].children
  <2>1. p \in Live
    BY <1>3, Relatives
  <2> QED BY <1>1, <1>3, <2>1 DEF TreeConsistent, Live
<1>5. /\ g \in Call /\ g.entity = p /\ g.up = TRUE /\ g.down = FALSE /\ g.phase = "handlers"
      /\ g.pos = 0
  BY <1>4, FrameIs DEF Frame
<1>6. stack' = Front(stack) \o <<f, g>> /\ t.entity = e /\ t = Top
  OBVIOUS
<1> HIDE DEF t, g
<1>7. /\ f \in Call /\ f.phase = "children" /\ f.pos = 0 /\ f.entity = t.entity
      /\ f.up = t.up /\ f.down = t.down
  BY <1>3 DEF Call
<1> HIDE DEF f
<1>8. /\ stack' # <<>> /\ DOMAIN stack' = 1 .. n + 1 /\ DOMAIN stack = 1 .. n
      /\ n \in Nat \ {0} /\ Top = stack[n] /\ Top' = g /\ stack'[n] = f /\ stack'[n + 1] = g
      /\ \A k \in 1 .. n - 1 : stack'[k] = stack[k]
      /\ Source' = Source /\ Source = stack[1].entity
      /\ Frames'
  BY <1>1, <1>3, <1>4, <1>5, <1>6, <1>7, CallPushed
<1>9. ASSUME NEW h, NEW k \in 1 .. n
      PROVE  DownToCome(h, k)' <=> DownToCome(h, k)
  <2>1. CASE k = n
    <3>1. \A c \in Id : ChildToCome(t, c) <=> ChildToCome(f, c)
      BY <1>1, <1>3, <1>6, <1>7, ChildrenToCome
    <3>2. stack[k] = t /\ stack'[k] = f
      BY <1>6, <1>8, <2>1
    <3> QED BY <1>1, <3>1, <3>2, SameToCome
  <2>2. CASE k # n
    <3>1. stack'[k] = stack[k]
      <4>1. n \in Nat \ {0}
        BY <1>8
      <4>2. k \in 1 .. n - 1
        BY <2>2, <4>1
      <4> QED BY <1>8, <4>2
    <3>2. \A c \in Id : ChildToCome(stack'[k], c) <=> ChildToCome(stack[k], c)
      BY <3>1
    <3> QED BY <1>1, <3>2, SameToCome
  <2> QED BY <2>1, <2>2
<1>10. ASSUME NEW h, NEW k, k = n + 1
       PROVE  ~DownToCome(h, k)'
  <2>1. ~stack'[k].down
    BY <1>5, <1>8, <1>10
  <2> QED BY <2>1 DEF DownToCome, ChildToCome
<1>11. \A h \in expected : h \in handlers /\ h.stamp \in Nat /\ h.stamp > 0 /\ h.at \in Id
  BY <1>1 DEF TypeOK, Handler, Stamped
<1>12. \A h \in expected : ~OwnToCome(h)
  <2>1. \A h \in HandlersOf(e) : h.stamp \in Nat
    BY <1>1 DEF HandlersOf, TypeOK, Handler
  <2>2. \A h \in HandlersOf(e) : ~(h.stamp > t.pos)
    BY <1>3, <1>6, <2>1, AfterNone
  <2> QED BY <1>6, <1>11, <2>2 DEF OwnToCome, HandlersOf
<1>13. ASSUME NEW h \in expected
       PROVE  /\ OwnToCome(h)' <=> h.at = p
              /\ UpToCome(h)' <=> ent[p].parent # 0 /\ ent[p].parent \in Below(h.at)
  <2>1. OwnToCome(h)' <=> h.at = p
    BY <1>3, <1>5, <1>8, <1>11 DEF OwnToCome, AtHandlers
  <2>2. UpToCome(h)' <=> ent[p].parent # 0 /\ ent[p].parent \in Below(h.at)
    BY <1>1, <1>2, <1>3, <1>5, <1>8 DEF UpToCome, AtHandlers
  <2> QED BY <2>1, <2>2
<1>14. AtHandlers
  BY <1>3, <1>6 DEF AtHandlers
<1>15. \A k \in 1 .. n : k \in 1 .. n + 1
  BY <1>8
<1>16. /\ expected # {} /\ Source # 0 => Source \in Below(p)
       /\ \A h \in expected \cap called : h.at \in Below(e) /\ h.at \in Below(p)
  <2>1. Below(e) \subseteq Below(p)
    BY <1>1, <1>4, BelowChildren
  <2> QED BY <1>1, <1>3, <1>6, <1>14, <2>1 DEF Rising
<1>17. AllToCome'
  <2> SUFFICES ASSUME ~Doomed', NEW h \in expected, h \notin called
               PROVE  OwnToCome(h)' \/ UpToCome(h)' \/ \E k \in 1 .. n + 1 : DownToCome(h, k)'
    BY <1>1, <1>8 DEF AllToCome
  <2>1. ~Doomed
    BY <1>3, <1>6, <1>8 DEF Doomed
  <2>2. UpToCome(h) \/ \E k \in 1 .. n : DownToCome(h, k)
    BY <1>1, <1>8, <1>12, <2>1 DEF AllToCome
  <2>3. CASE UpToCome(h)
    <3>1. p \in Below(h.at)
      BY <1>6, <2>3 DEF UpToCome
    <3>2. p # h.at => ent[p].parent # 0 /\ ent[p].parent \in Below(h.at)
      BY <1>1, <1>11, <3>1, ParentBelow
    <3> QED BY <1>13, <3>2
  <2>4. CASE \E k \in 1 .. n : DownToCome(h, k)
    BY <1>9, <1>15, <2>4
  <2> QED BY <2>2, <2>3, <2>4
<1>18. Rising'
  <2>1. Below(Top.entity)' = Below(p) /\ Top'.entity = p
    BY <1>1, <1>5, <1>8 DEF Below, Closed
  <2> QED BY <1>1, <1>8, <1>16, <2>1 DEF Rising
<1>19. \A k \in 1 .. n : stack[k].down => k = 1
  <2>1. Top.up
    BY <1>3, <1>6
  <2>2. n \in DOMAIN stack /\ Top = stack[n] /\ \A j \in 1 .. n : j \in DOMAIN stack /\ (j = 1 \/ j > 1)
    BY <1>8
  <2>3. \A j \in 1 .. n : stack[j].up
    BY <1>1, <2>1, <2>2 DEF Frames
  <2> QED BY <1>1, <2>2, <2>3 DEF Frames
<1>20. ASSUME NEW h \in expected, Clear(h), h.at = p
       PROVE  h \notin called /\ \A k \in 1 .. n : ~DownToCome(h, k)
  <2>1. ASSUME h \in called PROVE FALSE
    <3>1. p \in Below(e)
      BY <1>16, <1>20, <2>1
    <3>2. Cyclic(p)
      BY <1>4, <3>1 DEF Cyclic
    <3>3. p \in Below(p)
      BY <1>1, <1>4, BelowIs
    <3> QED BY <1>4, <1>20, <3>2, <3>3, NotClear
  <2>2. ASSUME NEW k \in 1 .. n, DownToCome(h, k) PROVE FALSE
    <3>1. PICK c \in Id : ChildToCome(stack[k], c) /\ h.at \in Below(c)
      BY <2>2 DEF DownToCome
    <3>2. stack[k].down
      BY <3>1 DEF ChildToCome
    <3>3. k = 1
      BY <1>19, <3>2
    <3>4. Source # 0 /\ c \in ent[Source].children
      BY <1>8, <3>1, <3>3 DEF ChildToCome
    <3>5. Source \in Below(p) /\ Source \in Id
      BY <1>16, <3>4 DEF Below
    <3>6. Source \in Below(c)
      BY <1>1, <1>20, <3>1, <3>5, BelowBelow
    <3>7. Cyclic(Source)
      BY <3>4, <3>6 DEF Cyclic
    <3>8. h.at \in Below(Source)
      BY <1>1, <3>1, <3>4, <3>5, BelowChildren
    <3> QED BY <1>20, <3>5, <3>7, <3>8, NotClear
  <2> QED BY <2>1, <2>2
<1>21. OnceToCome'
  <2> SUFFICES ASSUME NEW h \in expected, Clear(h)
               PROVE  /\ h \in called =>
                           ~OwnToCome(h)' /\ \A k \in 1 .. n + 1 : ~DownToCome(h, k)'
                      /\ OwnToCome(h)' => \A k \in 1 .. n + 1 : ~DownToCome(h, k)'
                      /\ \A k, l \in 1 .. n + 1 : DownToCome(h, k)' /\ DownToCome(h, l)' => k = l
    BY <1>1, <1>2, <1>8 DEF OnceToCome
  <2>1. /\ h \in called => \A k \in 1 .. n : ~DownToCome(h, k)
        /\ \A k, l \in 1 .. n : DownToCome(h, k) /\ DownToCome(h, l) => k = l
    BY <1>1, <1>8 DEF OnceToCome
  <2>2. OwnToCome(h)' => h \notin called /\ \A k \in 1 .. n : ~DownToCome(h, k)
    BY <1>13, <1>20
  <2>3. \A k \in 1 .. n + 1 : DownToCome(h, k)' => k \in 1 .. n /\ DownToCome(h, k)
    <3> SUFFICES ASSUME NEW k \in 1 .. n + 1, DownToCome(h, k)'
                 PROVE  k \in 1 .. n /\ DownToCome(h, k)
      OBVIOUS
    <3>1. k # n + 1
      BY <1>10
    <3>2. k \in 1 .. n
      BY <1>8, <3>1
    <3> QED BY <1>9, <3>2
  <2> QED BY <2>1, <2>2, <2>3
<1> QED BY <1>8, <1>17, <1>18, <1>21, GoesOnStamped DEF CallInvariant, WhileCalled

\* The entity had no parent, or the call was for a child.
LEMMA StaysThere ==
  ASSUME EntityInvariant, CallInvariant, GoesOn, Top.phase = "handlers", called' = called,
         After(HandlersOf(Top.entity), Top.pos) = {}, ~GoesUp(Top),
         NEW f \in Call, f.phase = "children", f.pos = 0, f.entity = Top.entity,
         f.up = Top.up, f.down = Top.down, stack' = Append(Front(stack), f)
  PROVE  CallInvariant'
<1>1. /\ TypeOK /\ TreeConsistent /\ Stamped /\ Frames /\ AllToCome /\ Rising /\ OnceToCome
      /\ ent' = ent /\ expected' = expected /\ stack # <<>>
  BY DEF EntityInvariant, CallInvariant, WhileCalled, GoesOn
<1>2. /\ Live' = Live
      /\ \A a : Below(a)' = Below(a)
      /\ \A h : Clear(h)' <=> Clear(h)
  BY <1>1, SameTree
<1> DEFINE t == Top
           n == Len(stack)
<1>3. t \in Call /\ t.entity \in Live /\ t.entity # 0 /\ t.pos \in Nat /\ t.phase = "handlers"
  BY <1>1, UnderWay, IdFacts DEF Live, Call
<1>4. t = Top
  OBVIOUS
<1>5. /\ f.phase = "children" /\ f.pos = 0 /\ f.entity = t.entity
      /\ f.up = t.up /\ f.down = t.down
  OBVIOUS
<1> HIDE DEF t
<1>6. /\ stack' # <<>> /\ DOMAIN stack' = DOMAIN stack /\ DOMAIN stack = 1 .. n
      /\ n \in Nat \ {0} /\ Top = stack[n] /\ Top' = f /\ stack'[n] = f
      /\ \A k \in 1 .. n - 1 : stack'[k] = stack[k]
      /\ Source' = Source /\ Source = stack[1].entity
      /\ Frames'
  BY <1>1, CallReplaced
<1> HIDE DEF n
<1>7. ASSUME NEW h, NEW k \in 1 .. n
      PROVE  DownToCome(h, k)' <=> DownToCome(h, k)
  <2>1. CASE k = n
    <3>1. \A c \in Id : ChildToCome(t, c) <=> ChildToCome(f, c)
      BY <1>1, <1>3, <1>5, ChildrenToCome
    <3>2. stack[k] = t /\ stack'[k] = f
      BY <1>4, <1>6, <2>1
    <3> QED BY <1>1, <3>1, <3>2, SameToCome
  <2>2. CASE k # n
    <3>1. stack'[k] = stack[k]
      <4>1. n \in Nat \ {0}
        BY <1>6
      <4>2. k \in 1 .. n - 1
        BY <2>2, <4>1
      <4> QED BY <1>6, <4>2
    <3>2. \A c \in Id : ChildToCome(stack'[k], c) <=> ChildToCome(stack[k], c)
      BY <3>1
    <3> QED BY <1>1, <3>2, SameToCome
  <2> QED BY <2>1, <2>2
<1>8. \A h \in expected : ~OwnToCome(h) /\ ~UpToCome(h)
  <2>1. \A h \in HandlersOf(t.entity) : h.stamp \in Nat
    BY <1>1 DEF HandlersOf, TypeOK, Handler
  <2>2. \A h \in HandlersOf(t.entity) : ~(h.stamp > t.pos)
    BY <1>3, <1>4, <2>1, AfterNone
  <2>3. \A h \in expected : h \in handlers
    BY <1>1 DEF TypeOK
  <2> QED BY <1>4, <2>2, <2>3 DEF OwnToCome, HandlersOf, UpToCome, GoesUp
<1>9. \A h : ~OwnToCome(h)' /\ ~UpToCome(h)'
  BY <1>5, <1>6 DEF OwnToCome, UpToCome, AtHandlers
<1>10. AllToCome'
  <2>1. ~Doomed' => ~Doomed
    BY <1>3, <1>4, <1>6 DEF Doomed
  <2> QED BY <1>1, <1>6, <1>7, <1>8, <2>1 DEF AllToCome
<1>11. Rising'
  BY <1>5, <1>6 DEF Rising, AtHandlers
<1>12. OnceToCome'
  BY <1>1, <1>2, <1>6, <1>7, <1>9 DEF OnceToCome
<1> QED BY <1>6, <1>10, <1>11, <1>12, GoesOnStamped DEF CallInvariant, WhileCalled

\* A call returns when nothing is to come from it.
LEMMA Returned ==
  ASSUME EntityInvariant, CallInvariant, ent' = ent, handlers' = handlers, now' = now,
         stack # <<>>, fault = "none", Top.phase = "children", Return,
         ~Top.down \/ Top.entity # 0,
         \A c \in Id : ~ChildToCome(Top, c)
  PROVE  /\ CallInvariant'
         /\ stack' = <<>> => expected \subseteq called
<1>1. /\ TypeOK /\ TreeConsistent /\ Frames /\ AllToCome /\ Rising /\ OnceToCome
      /\ ent' = ent
  BY DEF EntityInvariant, CallInvariant, WhileCalled
<1>2. /\ Live' = Live
      /\ \A a : Below(a)' = Below(a)
      /\ \A h : Clear(h)' <=> Clear(h)
  BY <1>1, SameTree
<1>3. Stamped'
  BY <1>1 DEF CallInvariant, Stamped
<1> DEFINE n == Len(stack)
<1>4. /\ stack' = Front(stack) /\ stack \in Seq(Call)
      /\ n # 1 => expected' = expected /\ called' = called
  BY <1>1 DEF Return, TypeOK
<1>5. /\ stack' \in Seq(Call) /\ Len(stack') = n - 1 /\ n \in Nat \ {0}
      /\ \A k \in 1 .. n - 1 : stack'[k] = stack[k] /\ stack[k].phase = "children"
  BY <1>4, UnderWay
<1>6. DOMAIN stack' = 1 .. n - 1 /\ DOMAIN stack = 1 .. n
  BY <1>4, <1>5
<1>7. Top = stack[n] /\ Source = stack[1].entity
  BY <1>4, FirstAndLast
<1> HIDE DEF n
<1>8. /\ \A h : ~OwnToCome(h) /\ ~UpToCome(h) /\ ~DownToCome(h, n)
  BY <1>7 DEF OwnToCome, UpToCome, AtHandlers, DownToCome
<1>9. Frames'
  <2>1. \A k \in 1 .. n - 1 : k \in 1 .. n /\ \A j \in 1 .. k : j \in 1 .. n - 1 /\ j \in 1 .. n
    BY <1>5
  <2> QED BY <1>1, <1>2, <1>5, <1>6, <2>1 DEF Frames
<1>10. CASE n = 1
  <2>1. stack' = <<>>
    BY <1>5, <1>10
  <2>2. ~Doomed
    <3>1. stack[1].down /\ Top = stack[1]
      BY <1>1, <1>6, <1>7, <1>10 DEF Frames
    <3> QED BY <1>7, <3>1 DEF Doomed
  <2>3. \A k \in DOMAIN stack : k = n
    BY <1>6, <1>10
  <2>4. expected \subseteq called
    BY <1>1, <1>8, <2>2, <2>3 DEF AllToCome
  <2> QED BY <1>3, <1>9, <2>1, <2>4 DEF CallInvariant, WhileCalled
<1>11. CASE n # 1
  <2>1. /\ stack' # <<>> /\ n - 1 \in 1 .. n - 1 /\ 1 \in 1 .. n - 1
        /\ \A k \in 1 .. n - 1 : k \in 1 .. n
        /\ \A k \in 1 .. n : k = n \/ k \in 1 .. n - 1
    BY <1>5, <1>6, <1>11
  <2>2. Top' = stack[n - 1] /\ Top'.phase = "children" /\ Source' = Source
    BY <1>5, <1>7, <2>1 DEF Top, Last, Source
  <2>3. \A h : \A k \in 1 .. n - 1 : DownToCome(h, k)' <=> DownToCome(h, k)
    BY <1>1, <1>2, <1>5 DEF DownToCome, ChildToCome
  <2>4. \A h : ~OwnToCome(h)' /\ ~UpToCome(h)'
    BY <2>2 DEF OwnToCome, UpToCome, AtHandlers
  <2>5. AllToCome'
    <3>1. ~Doomed' => ~Doomed
      BY <2>2 DEF Doomed
    <3> QED BY <1>1, <1>4, <1>6, <1>8, <1>11, <2>1, <2>3, <3>1 DEF AllToCome
  <2>6. Rising'
    BY <2>2 DEF Rising, AtHandlers
  <2>7. OnceToCome'
    BY <1>1, <1>2, <1>4, <1>6, <1>11, <2>1, <2>3, <2>4 DEF OnceToCome
  <2> QED BY <1>3, <1>9, <2>1, <2>5, <2>6, <2>7 DEF CallInvariant, WhileCalled
<1> QED BY <1>10, <1>11

\* The event goes on with the next child, and what is below that one is now to come there.
LEMMA ChildCalled ==
  ASSUME EntityInvariant, CallInvariant, GoesOn, Top.phase = "children", called' = called,
         Top.down, Top.entity # 0, NEW x \in After(ChildrenOf(Top.entity), Top.pos),
         stack' = Front(stack) \o <<[Top EXCEPT !.pos = x.stamp], Frame(x.id, FALSE, TRUE)>>
  PROVE  CallInvariant' /\ stack' # <<>>
<1>1. /\ TypeOK /\ TreeConsistent /\ Stamped /\ Frames /\ AllToCome /\ Rising /\ OnceToCome
      /\ ent' = ent /\ expected' = expected /\ stack # <<>> /\ stack \in Seq(Call)
  BY DEF EntityInvariant, CallInvariant, WhileCalled, GoesOn, TypeOK
<1>2. /\ Live' = Live
      /\ \A a : Below(a)' = Below(a)
      /\ \A h : Clear(h)' <=> Clear(h)
  BY <1>1, SameTree
<1> DEFINE t == Top
           e == Top.entity
           d == x.id
           f == [t EXCEPT !.pos = x.stamp]
           g == Frame(d, FALSE, TRUE)
           n == Len(stack)
<1>3. t \in Call /\ e \in Live /\ e \in Id /\ t.pos \in Nat
  <2>1. e \in Live \cup {0}
    BY <1>1, FirstAndLast DEF Frames
  <2> QED BY <1>1, <2>1, FirstAndLast DEF Live, Call
<1>4. /\ d \in ent[e].children /\ d \in Live /\ d \in Id
      /\ x.stamp = ent[d].stamp /\ x.stamp \in Nat /\ x.stamp > t.pos
      /\ \A c \in ent[e].children : ent[c].stamp > t.pos => x.stamp <= ent[c].stamp
  <2>1. x \in ChildrenOf(e) /\ x.stamp > t.pos
        /\ \A y \in ChildrenOf(e) : y.stamp > t.pos => x.stamp <= y.stamp
    BY DEF After
  <2>2. PICK c \in ent[e].children : x = [id |-> c, stamp |-> ent[c].stamp]
    BY <2>1 DEF ChildrenOf
  <2>3. d = c /\ x.stamp = ent[c].stamp /\ c \in Live /\ ent[c].stamp \in Nat
    BY <1>3, <2>2, Relatives
  <2>4. \A y \in ent[e].children : ent[y].stamp > t.pos => x.stamp <= ent[y].stamp
    <3> TAKE y \in ent[e].children
    <3> DEFINE z == [id |-> y, stamp |-> ent[y].stamp]
    <3>1. z \in ChildrenOf(e)
      BY DEF ChildrenOf
    <3>2. z.stamp = ent[y].stamp
      OBVIOUS
    <3> HIDE DEF z
    <3>3. z.stamp > t.pos => x.stamp <= z.stamp
      BY <2>1, <3>1
    <3> QED BY <3>2, <3>3
  <2> QED BY <2>1, <2>2, <2>3, <2>4 DEF Live
<1>5. /\ g \in Call /\ g.entity = d /\ g.up = FALSE /\ g.down = TRUE /\ g.phase = "handlers"
      /\ g.pos = 0
  BY <1>4, FrameIs DEF Frame
<1>6. /\ stack' = Front(stack) \o <<f, g>> /\ t.entity = e /\ t = Top /\ t.down
      /\ t.phase = "children"
  OBVIOUS
<1> HIDE DEF t, g
<1>7. /\ f \in Call /\ f.phase = "children" /\ f.pos = x.stamp /\ f.entity = t.entity
      /\ f.up = t.up /\ f.down = t.down
  BY <1>3, <1>4, <1>6 DEF Call
<1> HIDE DEF f
<1>8. /\ stack' # <<>> /\ DOMAIN stack' = 1 .. n + 1 /\ DOMAIN stack = 1 .. n
      /\ n \in Nat \ {0} /\ Top = stack[n] /\ Top' = g /\ stack'[n] = f /\ stack'[n + 1] = g
      /\ \A k \in 1 .. n - 1 : stack'[k] = stack[k]
      /\ Source' = Source /\ Source = stack[1].entity
      /\ Frames'
  BY ZenonT(60), <1>1, <1>3, <1>4, <1>5, <1>6, <1>7, CallPushed
<1>9. n \in Nat \ {0}
  BY <1>8
<1> HIDE DEF n
<1>a. \A k \in 1 .. n + 1 : k \in 1 .. n - 1 \/ k = n \/ k = n + 1
  BY <1>9
<1>10. PICK last \in 1 .. n + 1 : last = n
  BY <1>9
<1>11. PICK next \in 1 .. n + 1 : next = n + 1
  BY <1>9
<1>b. /\ \A k \in 1 .. n + 1 : k \in 1 .. n - 1 \/ k = last \/ k = next
      /\ \A k \in 1 .. n - 1 : k # last /\ k # next /\ k \in 1 .. n /\ k \in 1 .. n + 1
      /\ \A k \in 1 .. n : k \in 1 .. n - 1 \/ k = last
      /\ last # next /\ last \in 1 .. n
  BY <1>9, <1>10, <1>11
<1>12. /\ stack[last] = t /\ stack'[last] = f /\ stack'[next] = g
       /\ DOMAIN stack = 1 .. n /\ DOMAIN stack' = 1 .. n + 1
  BY <1>6, <1>8, <1>10, <1>11
\* What is to come from the calls.
<1>13. ASSUME NEW h, NEW k \in 1 .. n - 1
       PROVE  DownToCome(h, k)' <=> DownToCome(h, k)
  <2>1. \A c \in Id : ChildToCome(stack'[k], c) <=> ChildToCome(stack[k], c)
    BY <1>8
  <2> QED BY <1>1, <2>1, SameToCome
<1>14. ASSUME NEW c \in Id
       PROVE  /\ ChildToCome(f, c) => c # d /\ c \in ent[e].children /\ ChildToCome(t, c)
              /\ ChildToCome(t, c) => c = d \/ ChildToCome(f, c)
              /\ ChildToCome(t, d)
  <2>1. t.entity = e /\ f.entity = e /\ e # 0 /\ t.down /\ f.down
    BY <1>6, <1>7
  <2>2. ent[c].stamp \in Nat
    BY <1>1 DEF TypeOK, Entity
  <2>3. ChildToCome(t, d)
    BY <1>4, <1>6, <2>1 DEF ChildToCome
  <2>4. ChildToCome(f, c) => c # d /\ c \in ent[e].children /\ ChildToCome(t, c)
    BY <1>3, <1>4, <1>6, <1>7, <2>1, <2>2 DEF ChildToCome
  <2>5. ASSUME ChildToCome(t, c), c # d PROVE ChildToCome(f, c)
    <3>1. c \in ent[e].children /\ ent[c].stamp > t.pos
      BY <1>6, <2>1, <2>5 DEF ChildToCome
    <3>2. ent[c].parent = e /\ ent[d].parent = e
      BY <1>1, <1>3, <1>4, <3>1 DEF TreeConsistent
    <3>3. ent[c].stamp # ent[d].stamp
      BY <1>1, <1>4, <2>1, <2>5, <3>2 DEF Stamped
    <3>4. x.stamp <= ent[c].stamp
      BY <1>4, <3>1
    <3>5. ent[c].stamp > x.stamp
      BY <1>4, <2>2, <3>3, <3>4
    <3> QED BY <1>7, <2>1, <3>1, <3>5 DEF ChildToCome
  <2> QED BY <2>3, <2>4, <2>5
<1>15. \A c \in Id : ChildToCome(stack[last], c)' <=> ChildToCome(f, c)
  BY <1>1, <1>12, <1>b DEF ChildToCome
<1>16. \A c \in Id : ChildToCome(stack[next], c)' <=> c \in ent[d].children
  <2>1. d # 0
    BY <1>4, IdFacts
  <2> QED BY <1>1, <1>5, <1>12, <2>1 DEF ChildToCome
<1>17. ASSUME NEW h, DownToCome(h, last)'
       PROVE  DownToCome(h, last) /\ \E c \in ent[e].children : c # d /\ h.at \in Below(c)
  <2>1. PICK c \in Id : ChildToCome(stack[last], c)' /\ h.at \in Below(c)
    BY <1>2, <1>17 DEF DownToCome
  <2>2. c # d /\ c \in ent[e].children /\ ChildToCome(stack[last], c)
    BY <1>12, <1>14, <1>15, <2>1
  <2> QED BY <2>1, <2>2 DEF DownToCome
<1>18. ASSUME NEW h, h.at \in Below(d)
       PROVE  DownToCome(h, last)
  BY <1>4, <1>12, <1>14, <1>18 DEF DownToCome
<1>19. ASSUME NEW h
       PROVE  DownToCome(h, next)' <=> \E c \in ent[d].children : h.at \in Below(c)
  BY <1>1, <1>2, <1>4, <1>16, BelowChildren DEF DownToCome
<1>20. \A h \in expected : h.stamp \in Nat /\ h.stamp > 0 /\ h.at \in Id
  BY <1>1 DEF TypeOK, Handler, Stamped
<1>21. ASSUME NEW h \in expected
       PROVE  /\ OwnToCome(h)' <=> h.at = d
              /\ ~UpToCome(h)' /\ ~OwnToCome(h) /\ ~UpToCome(h)
  <2>1. d # 0
    BY <1>4, IdFacts
  <2>2. OwnToCome(h)' <=> h.at = d
    BY <1>5, <1>8, <1>20, <2>1 DEF OwnToCome, AtHandlers
  <2> QED BY <1>5, <1>6, <1>8, <2>2 DEF OwnToCome, UpToCome, AtHandlers
<1>22. \A h : h.at = d \/ (\E c \in ent[d].children : h.at \in Below(c)) <=> h.at \in Below(d)
  BY <1>1, <1>4, BelowIs, BelowChildren
<1>23. AllToCome'
  <2> SUFFICES ASSUME ~Doomed', NEW h \in expected, h \notin called
               PROVE  OwnToCome(h)' \/ \E k \in 1 .. n + 1 : DownToCome(h, k)'
    BY <1>1, <1>12, <1>b DEF AllToCome
  <2>1. ~Doomed
    BY <1>6, <1>8 DEF Doomed
  <2>2. PICK k \in DOMAIN stack : DownToCome(h, k)
    BY <1>1, <1>21, <2>1 DEF AllToCome
  <2>3. CASE k \in 1 .. n - 1
    BY <1>12, <1>13, <1>b, <2>2, <2>3
  <2>4. CASE k = last
    <3>1. PICK c \in Id : ChildToCome(t, c) /\ h.at \in Below(c)
      BY <1>12, <2>2, <2>4 DEF DownToCome
    <3>2. CASE c = d
      BY <1>12, <1>b, <1>19, <1>21, <1>22, <3>1, <3>2
    <3>3. CASE c # d
      <4>1. ChildToCome(stack[last], c)'
        BY <1>14, <1>15, <3>1, <3>3
      <4> QED BY <1>2, <1>12, <3>1, <4>1 DEF DownToCome
    <3> QED BY <3>2, <3>3
  <2> QED BY <1>12, <1>b, <2>2, <2>3, <2>4
<1>24. Rising'
  BY <1>5, <1>8 DEF Rising, AtHandlers
<1>25. OnceToCome'
  <2> SUFFICES ASSUME NEW h \in expected, Clear(h)
               PROVE  /\ h \in called =>
                           ~OwnToCome(h)' /\ \A k \in 1 .. n + 1 : ~DownToCome(h, k)'
                      /\ OwnToCome(h)' => \A k \in 1 .. n + 1 : ~DownToCome(h, k)'
                      /\ \A k, l \in 1 .. n + 1 : DownToCome(h, k)' /\ DownToCome(h, l)' => k = l
    BY <1>1, <1>2, <1>12, <1>b DEF OnceToCome
  <2>1. /\ h \in called => \A k \in DOMAIN stack : ~DownToCome(h, k)
        /\ \A k, l \in DOMAIN stack : DownToCome(h, k) /\ DownToCome(h, l) => k = l
    BY <1>1 DEF OnceToCome
  <2>2. DownToCome(h, last)' => h.at \notin Below(d)
    <3> SUFFICES ASSUME DownToCome(h, last)', h.at \in Below(d) PROVE FALSE
      OBVIOUS
    <3>1. PICK c \in ent[e].children : c # d /\ h.at \in Below(c)
      BY <1>17
    <3>2. Cyclic(e) /\ h.at \in Below(e)
      BY <1>1, <1>3, <1>4, <3>1, Siblings
    <3> QED BY <1>3, <3>2, NotClear
  <2>3. OwnToCome(h)' => ~DownToCome(h, next)'
    <3> SUFFICES ASSUME h.at = d, NEW c \in ent[d].children, h.at \in Below(c) PROVE FALSE
      BY <1>19, <1>21
    <3>1. Cyclic(d) /\ h.at \in Below(d)
      BY <1>22 DEF Cyclic
    <3> QED BY <1>4, <3>1, NotClear
  <2>4. /\ OwnToCome(h)' \/ DownToCome(h, next)' => DownToCome(h, last) /\ h.at \in Below(d)
        /\ DownToCome(h, last)' => DownToCome(h, last)
    BY <1>17, <1>18, <1>19, <1>21, <1>22
  <2>5. \A k \in 1 .. n - 1 : DownToCome(h, k)' <=> DownToCome(h, k)
    BY <1>13
  <2>6. h \in called => ~OwnToCome(h)' /\ \A k \in 1 .. n + 1 : ~DownToCome(h, k)'
    BY <1>12, <1>b, <2>1, <2>4, <2>5
  <2>7. OwnToCome(h)' => \A k \in 1 .. n + 1 : ~DownToCome(h, k)'
    BY <1>12, <1>b, <2>1, <2>2, <2>3, <2>4, <2>5
  <2>8. \A k, l \in 1 .. n + 1 : DownToCome(h, k)' /\ DownToCome(h, l)' => k = l
    BY <1>12, <1>b, <2>1, <2>2, <2>4, <2>5
  <2> QED BY <2>6, <2>7, <2>8
<1> QED BY <1>8, <1>23, <1>24, <1>25, GoesOnStamped DEF CallInvariant, WhileCalled

\* A handler is called, or after the last of them the call goes on.
LEMMA NextHandlerCalls ==
  ASSUME EntityInvariant, CallInvariant, NextHandler
  PROVE  CallInvariant'
<1> DEFINE S == After(HandlersOf(Top.entity), Top.pos)
<1>1. GoesOn /\ Top.phase = "handlers"
  BY DEF NextHandler, Running, GoesOn, tree, resources
<1>2. CASE S # {}
  <2>1. PICK h \in S : /\ Replace([Top EXCEPT !.phase = "call", !.pos = h.stamp])
                       /\ called' = called \cup {h}
    BY <1>2 DEF NextHandler
  <2> QED BY <1>1, <2>1, HandlerCalled
<1>3. CASE S = {} /\ GoesUp(Top)
  <2>1. /\ stack' = Front(stack) \o <<[Top EXCEPT !.phase = "children", !.pos = 0],
                                      Frame(ent[Top.entity].parent, TRUE, FALSE)>>
        /\ called' = called
    BY <1>3 DEF NextHandler
  <2> QED BY <1>1, <1>3, <2>1, GoneUp
<1>4. CASE S = {} /\ ~GoesUp(Top)
  <2> DEFINE t == Top
             f == [t EXCEPT !.phase = "children", !.pos = 0]
  <2>1. stack' = Append(Front(stack), f) /\ called' = called
    BY <1>4 DEF NextHandler
  <2>2. t \in Call /\ t = Top
    BY <1>1, UnderWay DEF GoesOn
  <2> HIDE DEF t
  <2>3. /\ f \in Call /\ f.phase = "children" /\ f.pos = 0 /\ f.entity = t.entity
        /\ f.up = t.up /\ f.down = t.down
    BY <2>2 DEF Call
  <2> HIDE DEF f
  <2> QED BY <1>1, <1>4, <2>1, <2>2, <2>3, StaysThere
<1> QED BY <1>2, <1>3, <1>4

\* Where an event breaks nothing is to come any more.
LEMMA BrokenCalls ==
  ASSUME CallInvariant, GoesOn, stack' = stack, fault' = "iterator"
  PROVE  CallInvariant'
<1>1. Frames'
  <2>1. Live' = Live
    BY DEF GoesOn, Live
  <2> QED BY <2>1 DEF CallInvariant, Frames
<1> QED BY <1>1, GoesOnStamped DEF CallInvariant, WhileCalled

\* A handler returns, or its list is gone.
LEMMA HandlerReturnsCalls ==
  ASSUME EntityInvariant, CallInvariant, HandlerReturns
  PROVE  CallInvariant'
<1>1. GoesOn /\ Top.phase = "call" /\ called' = called
  BY DEF HandlerReturns, Running, GoesOn, tree, resources
<1>2. CASE \E h \in handlers : h.at = Top.entity /\ h.stamp = Top.pos
  <2>1. Replace([Top EXCEPT !.phase = "handlers"])
    BY <1>2 DEF HandlerReturns
  <2> QED BY <1>1, <1>2, <2>1, HandlerReturned
<1>3. CASE ~\E h \in handlers : h.at = Top.entity /\ h.stamp = Top.pos
  BY <1>1, <1>3, BrokenCalls DEF HandlerReturns
<1> QED BY <1>2, <1>3

\* The next child has its call, or the call returns, and the event ends with the last.
LEMMA NextChildCalls ==
  ASSUME EntityInvariant, CallInvariant, NextChild
  PROVE  /\ CallInvariant'
         /\ stack' = <<>> => expected \subseteq called
<1> DEFINE e == Top.entity
           S == After(ChildrenOf(e), Top.pos)
           broken == e = 0 \/ (Top.pos # 0 /\ ~\E c \in ChildrenOf(e) : c.stamp = Top.pos)
<1>1. /\ fault = "none" /\ stack # <<>> /\ Top.phase = "children"
      /\ UNCHANGED <<ent, handlers, now>>
  BY DEF NextChild, Running, tree, resources
<1>2. CASE ~Top.down
  <2>1. Return
    BY <1>2 DEF NextChild
  <2>2. \A c \in Id : ~ChildToCome(Top, c)
    BY <1>2 DEF ChildToCome
  <2> QED BY <1>1, <1>2, <2>1, <2>2, Returned
<1>3. CASE Top.down /\ broken
  <2>1. GoesOn /\ stack' = stack /\ fault' = "iterator"
    BY <1>1, <1>3 DEF NextChild, GoesOn, event
  <2> QED BY <1>1, <2>1, BrokenCalls
<1>4. CASE Top.down /\ ~broken /\ S = {}
  <2>1. Return /\ e # 0
    BY <1>4 DEF NextChild
  <2>2. \A c \in Id : ~ChildToCome(Top, c)
    <3> SUFFICES ASSUME NEW c \in ent[e].children, c \in Id, ent[c].stamp > Top.pos PROVE FALSE
      BY <1>1 DEF ChildToCome
    <3> DEFINE y == [id |-> c, stamp |-> ent[c].stamp]
    <3>1. y \in ChildrenOf(e) /\ y.stamp = ent[c].stamp
      BY DEF ChildrenOf
    <3>2. \A z \in ChildrenOf(e) : z.stamp \in Nat
      <4>1. e \in Id
        <5>1. e \in Live \cup {0}
          BY <1>1, FirstAndLast DEF EntityInvariant, TypeOK, CallInvariant, Frames
        <5> QED BY <2>1, <5>1 DEF Live
      <4> QED BY <4>1, Relatives DEF ChildrenOf
    <3>3. Top.pos \in Nat
      BY <1>1, UnderWay DEF Call
    <3> HIDE DEF y
    <3>4. \A z \in ChildrenOf(e) : ~(z.stamp > Top.pos)
      BY <1>4, <3>2, <3>3, AfterNone
    <3> QED BY <3>1, <3>4
  <2> QED BY <1>1, <2>1, <2>2, Returned
<1>5. CASE Top.down /\ ~broken /\ S # {}
  <2>1. PICK c \in S : stack' = Front(stack) \o <<[Top EXCEPT !.pos = c.stamp],
                                                  Frame(c.id, FALSE, TRUE)>>
    BY <1>5 DEF NextChild
  <2>2. GoesOn /\ called' = called /\ e # 0
    BY <1>1, <1>5 DEF NextChild, GoesOn
  <2> QED BY <1>1, <1>5, <2>1, <2>2, ChildCalled
<1> QED BY <1>2, <1>3, <1>4, <1>5

-----------------------------------------------------------------------------
(* Every handler, and once *)

\* Only a call that returns ends an event.
LEMMA OnlyReturnsEnd ==
  ASSUME EntityInvariant, CallInvariant, Next, stack # <<>>, stack' = <<>>
  PROVE  NextChild
<1>1. Front(stack) \in Seq(Call) /\ stack \in Seq(Call)
  BY UnderWay DEF EntityInvariant, TypeOK
<1>2. \A f : Append(Front(stack), f) # <<>>
  BY <1>1
<1>3. ASSUME NextHandler PROVE FALSE
  <2>1. \A f, g : Front(stack) \o <<f, g>> # <<>>
    BY <1>1
  <2>2. GoesUp(Top) => stack' # <<>>
    BY <1>2, <1>3, <2>1 DEF NextHandler, Replace
  <2>3. ~GoesUp(Top) => stack' # <<>>
    BY <1>2, <1>3 DEF NextHandler, Replace
  <2> QED BY <2>2, <2>3
<1>4. ~HandlerReturns
  BY <1>2 DEF HandlerReturns, Replace
<1>5. ASSUME NEW D, NEW H, DestroyBranch(D, H) PROVE FALSE
  BY <1>1, <1>5 DEF DestroyBranch
<1>6. \A f : ~Fails(f)
  BY DEF Fails, event
<1>7. /\ \A r, e : ~DeleteEntity(r, e) /\ ~KillTimer(r, e)
      /\ \A r : ~Stop(r)
  BY <1>5, <1>6 DEF DeleteEntity, KillTimer, ScriptDeletes, Stop
<1>8. /\ \A q, r : ~StartResource(q, r)
      /\ ~StartReturns
  BY DEF StartResource, StartReturns, event
<1> QED BY <1>3, <1>4, <1>7, <1>8 DEF Next, CreateEntity, SetParent, AddEvent, RemoveEvent,
     StopResource, StartFails, CallEvent, event

\* A handler that is called has not been, while no entity is above itself.
LEMMA CalledIsNew ==
  ASSUME EntityInvariant, CallInvariant, Next, Running("handlers"), Len(stack') = Len(stack),
         Last(stack').phase = "call", \A e \in Id : ~Cyclic(e), NEW h \in expected,
         h.at = Top.entity, h.stamp = Last(stack').pos
  PROVE  h \notin called
<1> DEFINE S == After(HandlersOf(Top.entity), Top.pos)
<1>1. NextHandler
  <2>1. starting = 0
    BY DEF Running, Top, EntityInvariant, Calls
  <2> QED BY <2>1 DEF Next, CreateEntity, DeleteEntity, KillTimer, SetParent, AddEvent,
       RemoveEvent, StartResource, StartReturns, StartFails, StopResource, CallEvent,
       HandlerReturns, NextChild, Script, Running, Top
<1>2. /\ stack # <<>> /\ Top.phase = "handlers" /\ ent' = ent /\ Frames /\ OnceToCome
      /\ fault = "none" /\ stack \in Seq(Call)
  BY <1>1 DEF NextHandler, Running, CallInvariant, WhileCalled, EntityInvariant, TypeOK, tree
<1>3. Top \in Call /\ Top.entity # 0 /\ Front(stack) \in Seq(Call)
      /\ Len(Front(stack)) = Len(stack) - 1 /\ Len(stack) \in Nat
  BY <1>2, UnderWay, IdFacts DEF Live
<1> DEFINE t == Top
<1>4. S # {}
  <2> SUFFICES ASSUME S = {} PROVE FALSE
    OBVIOUS
  <2> DEFINE f == [t EXCEPT !.phase = "children", !.pos = 0]
             g == Frame(ent[Top.entity].parent, TRUE, FALSE)
  <2>1. stack' = IF GoesUp(Top) THEN Front(stack) \o <<f, g>> ELSE Append(Front(stack), f)
    BY <1>1 DEF NextHandler
  <2>2. t \in Call
    BY <1>3
  <2> HIDE DEF t
  <2>3. /\ f \in Call /\ f.phase = "children" /\ f.entity = t.entity
        /\ f.up = t.up /\ f.down = t.down
    BY <2>2 DEF Call
  <2> HIDE DEF f, g
  <2>4. CASE GoesUp(Top)
    <3>1. Len(stack') = Len(stack) + 1
      BY <1>3, <2>1, <2>4
    <3> QED BY <1>3, <3>1
  <2>5. CASE ~GoesUp(Top)
    <3>1. Top' = f
      BY <1>2, <2>1, <2>3, <2>5, CallReplaced DEF t
    <3> QED BY <2>3, <3>1 DEF Top
  <2> QED BY <2>4, <2>5
<1>5. PICK x \in S : Replace([t EXCEPT !.phase = "call", !.pos = x.stamp])
  BY <1>1, <1>4 DEF NextHandler
<1>6. x.stamp > Top.pos /\ x.stamp \in Nat
  BY DEF After, HandlersOf, EntityInvariant, TypeOK, Handler
<1>7. Last(stack').pos = x.stamp
  <2> DEFINE f == [t EXCEPT !.phase = "call", !.pos = x.stamp]
  <2>1. stack' = Append(Front(stack), f) /\ t \in Call
    BY <1>3, <1>5 DEF Replace
  <2> HIDE DEF t
  <2>2. /\ f \in Call /\ f.pos = x.stamp /\ f.entity = t.entity
        /\ f.up = t.up /\ f.down = t.down
    BY <1>6, <2>1 DEF Call
  <2> HIDE DEF f
  <2>3. Top' = f
    BY <1>2, <2>1, <2>2, CallReplaced DEF t
  <2> QED BY <2>2, <2>3 DEF Top
<1>8. OwnToCome(h)
  BY <1>2, <1>3, <1>6, <1>7 DEF OwnToCome, AtHandlers
<1>9. Clear(h)
  BY DEF Clear, Above
<1> QED BY <1>2, <1>8, <1>9 DEF OnceToCome

\* The first entities have their numbers for stamps.
LEMMA InitCalls == Init => CallInvariant
<1> SUFFICES ASSUME Init PROVE CallInvariant
  OBVIOUS
<1> DEFINE c == Cardinality(Resources)
<1>1. c \in Nat /\ Resources = 2 .. c + 1
  <2>1. c \in Nat
    BY IdFacts, FS_Subset, FS_CardinalityType
  <2> QED BY <2>1, EntityTreeAssumption
<1>2. handlers = {} /\ stack = <<>> /\ now = c + 1
  BY DEF Init
<1> HIDE DEF c
<1>3. ent = [i \in Id |->
        IF i = Root
        THEN [NoEntity EXCEPT !.type = "root", !.children = Resources, !.born = 1]
        ELSE IF i \in Resources
        THEN [NoEntity EXCEPT !.type = "resource", !.parent = Root, !.stamp = i, !.born = i]
        ELSE NoEntity]
  BY DEF Init
<1>4. ASSUME NEW i \in Id, ent[i].parent # 0
      PROVE  i \in Resources /\ ent[i].stamp = i
  BY <1>3, <1>4 DEF NoEntity
<1>5. Stamped
  BY <1>1, <1>2, <1>4 DEF Stamped
<1>6. DOMAIN stack = {}
  BY <1>2
<1> QED BY <1>2, <1>5, <1>6 DEF CallInvariant, Frames, WhileCalled

\* No step changes what is to come but as the list of calls says.
LEMMA CallStep ==
  ASSUME EntityInvariant, EntityInvariant', CallInvariant, [Next]_vars
  PROVE  CallInvariant'
<1>1. CASE UNCHANGED vars
  <2>1. UNCHANGED <<ent, handlers, now, stack, fault, expected, called>>
    BY <1>1 DEF vars, tree, event
  <2>2. /\ Live' = Live
        /\ \A e : Below(e)' = Below(e)
        /\ \A h : Clear(h)' <=> Clear(h)
    BY <2>1, SameTree
  <2>3. Stamped' /\ Frames'
    BY <2>1, <2>2 DEF CallInvariant, Stamped, Frames
  <2>4. /\ \A h : UpToCome(h)' <=> UpToCome(h)
        /\ \A h : OwnToCome(h)' <=> OwnToCome(h)
        /\ \A h, k : DownToCome(h, k)' <=> DownToCome(h, k)
    BY <2>1, <2>2 DEF UpToCome, OwnToCome, DownToCome, ChildToCome, AtHandlers, Top
  <2>5. (Doomed' <=> Doomed) /\ (AtHandlers' <=> AtHandlers) /\ Source' = Source /\ Top' = Top
    BY <2>1 DEF Doomed, AtHandlers, Source, Top
  <2>6. AllToCome => AllToCome'
    BY <2>1, <2>4, <2>5 DEF AllToCome
  <2>7. Rising => Rising'
    <3>1. Below(Top.entity)' = Below(Top.entity)
      BY <2>1 DEF Below, Closed, Top
    <3> QED BY <2>1, <2>5, <3>1 DEF Rising
  <2>8. OnceToCome => OnceToCome'
    BY <2>1, <2>2, <2>4 DEF OnceToCome
  <2> QED BY <2>1, <2>3, <2>6, <2>7, <2>8 DEF CallInvariant, WhileCalled
<1>2. CASE Next
  <2>1. CASE \E r \in Resources, type \in {"custom", "timer"} : CreateEntity(r, type)
    BY <2>1, CreateCalls
  <2>2. CASE \E r \in Resources, e \in Id : DeleteEntity(r, e) \/ KillTimer(r, e)
    BY <2>2, DeleteCalls
  <2>3. CASE \E r \in Resources, e \in Id, p \in Id : SetParent(r, e, p)
    BY <2>3, SetParentCalls
  <2>4. CASE \E r \in Resources : \/ \E e \in Id, f \in Functions : AddEvent(r, e, f)
                                  \/ \E h \in handlers : RemoveEvent(r, h)
    BY <2>4, EventsCalls
  <2>5. CASE \/ \E r \in Resources : StopResource(r)
             \/ StartFails
    BY <2>5, StopCalls
  <2>a. CASE \/ \E q, r \in Resources : StartResource(q, r)
             \/ StartReturns
    BY <2>a, StartCalls
  <2>6. CASE \E e \in Id : CallEvent(e)
    BY <2>6, CallEventCalls
  <2>7. CASE NextHandler
    BY <2>7, NextHandlerCalls
  <2>8. CASE HandlerReturns
    BY <2>8, HandlerReturnsCalls
  <2>9. CASE NextChild
    BY <2>9, NextChildCalls
  <2> QED BY <1>2, <2>1, <2>2, <2>3, <2>4, <2>5, <2>6, <2>7, <2>8, <2>9, <2>a DEF Next
<1> QED BY <1>1, <1>2

\* An event that ends without a fault has called every handler that was there when it
\* began and was left alone, at the entity, above it and below it, whatever scripts did
\* meanwhile, and none of them twice while no entity was above itself (CEntity::CallEvent,
\* CEvents::Call).
THEOREM EveryHandlerCalledOnce == Spec => CallsEachOnce
<1> DEFINE Ended == fault = "none" /\ stack # <<>> /\ stack' = <<>> => expected \subseteq called
           Once ==
             Running("handlers") /\ Len(stack') = Len(stack) /\ Last(stack').phase = "call"
               => \/ \E e \in Id : Cyclic(e)
                  \/ \A h \in expected : h.at = Top.entity /\ h.stamp = Last(stack').pos
                                          => h \notin called
<1>1. EntityInvariant /\ EntityInvariant' /\ CallInvariant /\ [Next]_vars => CallInvariant'
  BY CallStep
<1>2. EntityInvariant /\ CallInvariant /\ [Next]_vars => [Ended]_vars
  <2> SUFFICES ASSUME EntityInvariant, CallInvariant, Next, stack # <<>>, stack' = <<>>
               PROVE  expected \subseteq called
    OBVIOUS
  <2> QED BY OnlyReturnsEnd, NextChildCalls
<1>3. EntityInvariant /\ CallInvariant /\ [Next]_vars => [Once]_vars
  <2> SUFFICES ASSUME EntityInvariant, CallInvariant, Next, Running("handlers"),
                      Len(stack') = Len(stack), Last(stack').phase = "call",
                      \A e \in Id : ~Cyclic(e), NEW h \in expected,
                      h.at = Top.entity, h.stamp = Last(stack').pos
               PROVE  h \notin called
    OBVIOUS
  <2> QED BY CalledIsNew
<1> QED BY <1>1, <1>2, <1>3, InitCalls, AlwaysInvariant, PTL DEF Spec, CallsEachOnce
=============================================================================
