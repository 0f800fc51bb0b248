--------------------------- MODULE Timers_proofs ---------------------------
(***************************************************************************)
(* Theorems about Timers: whatever scripts do to timers while the walk is  *)
(* under way, the lists hold the timers that exist, each runs as often as  *)
(* it was asked to, once in a walk, and not before its interval is over.   *)
(***************************************************************************)
EXTENDS Timers, FiniteSetTheorems, TLAPS

\* A timer that was not made has not run, and only one that has no end has no
\* number of runs left to go.
Counted ==
  fault = "none" => \A t \in Timer :
    /\ state[t] = "none" => runs[t] = 0
    /\ state[t] = "live" => (timer[t].repeat = 0 <=> timer[t].asked = 0)

\* The timers the walk has come to are behind it.
Behind ==
  fault = "none" =>
    /\ walk.pc = "idle" => visited = {}
    /\ \A t \in visited : state[t] # "none"
    /\ \A t \in visited \cap listed :
         \/ timer[t].owner < walk.resource
         \/ timer[t].owner = walk.resource /\ walk.pc = "timer" /\ t < walk.timer
         \/ timer[t].owner = walk.resource /\ walk.pc = "call" /\ t <= walk.timer

\* The time of the next run is as far ahead as the timer has still to wait, unless
\* the sum has started over.
TimesAhead ==
  \A t \in Live :
    \/ waited[t] >= timer[t].interval
    \/ clock + timer[t].interval <= timer[t].next + waited[t]
    \/ ~wide /\ timer[t].next < timer[t].interval

\* Timers are leaked only where there are fewer ids than timers.
LeaksExplained == leaked # {} => ids < MaxTimers

\* No start is under way between the calls of a walk, and none of the resource whose
\* timer is under call.
StartsApart ==
  fault = "none" =>
    /\ walk.pc \in {"resource", "timer"} => starting = 0
    /\ walk.pc = "call" =>
         /\ walk.timer \in Timer
         /\ starting = 0 \/ walk.resource # starting \/ state[walk.timer] = "killed"

\* The inductive invariant.
TimersInvariant ==
  /\ TimersConsistent /\ Counted /\ Behind /\ TimesAhead /\ LeaksExplained
  /\ FaultsExplained /\ StartsApart

States == {"none", "live", "leaked", "done", "killed", "stopped", "deleted"}

USE TimersAssumption DEF Timer, Resource

-----------------------------------------------------------------------------
(* The walk *)

\* The iterator goes to a timer behind t in the list of r, or on to the next resource.
LEMMA AdvanceIs ==
  ASSUME NEW r, NEW t
  PROVE  \/ Advance(r, t) = AtResource(r + 1)
         \/ \E u \in After(r, t) : Advance(r, t) = [pc |-> "timer", resource |-> r, timer |-> u]
<1>1. CASE After(r, t) = {}
  BY <1>1 DEF Advance
<1>2. CASE After(r, t) # {}
  <2>1. (CHOOSE u \in After(r, t) : TRUE) \in After(r, t)
    BY <1>2
  <2>2. Advance(r, t) = [pc |-> "timer", resource |-> r,
                         timer |-> CHOOSE u \in After(r, t) : TRUE]
    BY <1>2 DEF Advance
  <2> QED BY <2>1, <2>2
<1> QED BY <1>1, <1>2

\* While a timer is looked at or under call, its resource is in the table; and while
\* its function is under call, nothing has been done to another timer's place.
LEMMA WalkIsAt ==
  ASSUME TypeOK, ListsHoldLive, fault = "none"
  PROVE  /\ walk.pc = "timer" =>
              /\ walk.timer \in listed /\ walk.timer \in Timer
              /\ timer[walk.timer].owner = walk.resource
              /\ walk.resource \in Resource /\ walk.resource \in running
              /\ walk.timer \in Live \/ walk.timer \in moved
         /\ walk.pc = "call" =>
              \/ /\ walk.timer \in listed /\ walk.timer \in Timer
                 /\ timer[walk.timer].owner = walk.resource
                 /\ walk.resource \in Resource /\ walk.resource \in running
                 /\ walk.timer \in Live \/ walk.timer \in moved
              \/ state[walk.timer] = "killed"
<1>1. listed \subseteq Timer /\ running \subseteq Resource
  BY DEF TypeOK
<1>2. \A t \in listed : /\ timer[t].owner \in running
                        /\ t \in Live \/ t \in moved
  BY <1>1 DEF ListsHoldLive
<1>3. walk.pc = "timer" => walk.timer \in Of(walk.resource)
  BY DEF ListsHoldLive
<1>4. walk.pc = "call" => walk.timer \in Of(walk.resource) \/ state[walk.timer] = "killed"
  BY DEF ListsHoldLive
<1> QED BY <1>1, <1>2, <1>3, <1>4 DEF Of

\* A timer that is below another entity, or that no list holds, has been moved.
LEMMA MovedAway ==
  ASSUME TypeOK, ListsHoldLive, fault = "none"
  PROVE  Below \subseteq moved /\ Live \ listed \subseteq moved
<1>1. ASSUME NEW t \in Live, t \notin moved
      PROVE  t \in listed /\ timer[t].parent # 0
  <2>1. t \in Timer \ moved
    BY <1>1 DEF Live
  <2>2. t \in listed /\ timer[t].parent = timer[t].owner
    BY <1>1, <2>1 DEF ListsHoldLive
  <2>3. timer[t].owner \in Resource
    BY <2>2 DEF ListsHoldLive, TypeOK
  <2> QED BY <2>2, <2>3
<1> QED BY <1>1 DEF Below, Elsewhere

\* A walk that goes on from r and t is in the table, and stands on a timer of the lists.
LEMMA AdvanceFits ==
  ASSUME TypeOK, ListsHoldLive, fault = "none", NEW r \in Resource, NEW t \in 0 .. MaxTimers
  PROVE  /\ Advance(r, t) \in Place
         /\ Advance(r, t).pc \in {"resource", "timer"}
         /\ Advance(r, t).pc = "resource" => Advance(r, t).resource = r + 1
         /\ Advance(r, t).pc = "timer" =>
              /\ Advance(r, t).resource = r
              /\ Advance(r, t).timer \in Of(r) /\ Advance(r, t).timer > t
<1>1. CASE Advance(r, t) = AtResource(r + 1)
  BY <1>1 DEF AtResource, Place
<1>2. ASSUME NEW u \in After(r, t),
             Advance(r, t) = [pc |-> "timer", resource |-> r, timer |-> u]
      PROVE  /\ u \in 1 .. MaxTimers /\ u \in Of(r) /\ u > t
  BY <1>2 DEF After, Of, TypeOK
<1> QED BY <1>1, <1>2, AdvanceIs DEF Place

-----------------------------------------------------------------------------
(* The clock *)

\* The remainder of a sum of two numbers that are not above the divisor.
LEMMA RemainderOfSum ==
  ASSUME NEW w \in Nat \ {0}, NEW c \in 0 .. w - 1, NEW i \in 1 .. w
  PROVE  (c + i) % w = IF c + i < w THEN c + i ELSE c + i - w
  OBVIOUS

\* The time Reset sets is one of its type, and an interval ahead of the clock unless
\* the sum starts over.
LEMMA NextFits ==
  ASSUME TypeOK, NEW i \in 1 .. Wrap
  PROVE  /\ NextExecution(i) \in 0 .. (IF wide THEN 2 * Wrap ELSE Wrap - 1)
         /\ clock + i <= NextExecution(i) \/ (~wide /\ NextExecution(i) < i)
<1>1. clock \in 0 .. Wrap - 1 /\ Wrap \in Nat \ {0}
  BY DEF TypeOK
<1>2. CASE wide
  BY <1>1, <1>2 DEF NextExecution
<1>3. CASE ~wide
  <2>2. (clock + i) % Wrap = IF clock + i < Wrap THEN clock + i ELSE clock + i - Wrap
    BY <1>1, RemainderOfSum, Zenon
  <2>3. NextExecution(i) = (clock + i) % Wrap
    BY <1>3 DEF NextExecution
  <2> QED BY <1>1, <1>3, <2>2, <2>3
<1> QED BY <1>2, <1>3

\* Reset, and one run less to go, leave the other members as they are.
LEMMA AfterRunFits ==
  ASSUME TypeOK, NEW t \in Timer
  PROVE  /\ AfterRun(t) \in Members
         /\ AfterRun(t).owner = timer[t].owner /\ AfterRun(t).asked = timer[t].asked
         /\ AfterRun(t).parent = timer[t].parent
         /\ AfterRun(t).interval = timer[t].interval
         /\ AfterRun(t).next = NextExecution(timer[t].interval)
         /\ AfterRun(t).repeat = IF timer[t].repeat > 1 THEN timer[t].repeat - 1
                                 ELSE timer[t].repeat
<1> DEFINE m == timer[t]
           n == NextExecution(m.interval)
           k == IF m.repeat > 1 THEN m.repeat - 1 ELSE m.repeat
<1>1. m \in Members
  BY DEF TypeOK
<1>2. m.interval \in 1 .. Wrap /\ m.repeat \in Nat
  BY <1>1 DEF Members
<1>3. n \in 0 .. (IF wide THEN 2 * Wrap ELSE Wrap - 1)
  BY <1>2, NextFits
<1>4. k \in Nat
  BY <1>2
<1>5. AfterRun(t) = [m EXCEPT !.next = n, !.repeat = k]
  BY DEF AfterRun
<1> HIDE DEF m, n, k
<1>6. /\ [m EXCEPT !.next = n, !.repeat = k] \in Members
      /\ [m EXCEPT !.next = n, !.repeat = k].owner = m.owner
      /\ [m EXCEPT !.next = n, !.repeat = k].asked = m.asked
      /\ [m EXCEPT !.next = n, !.repeat = k].parent = m.parent
      /\ [m EXCEPT !.next = n, !.repeat = k].interval = m.interval
      /\ [m EXCEPT !.next = n, !.repeat = k].next = n
      /\ [m EXCEPT !.next = n, !.repeat = k].repeat = k
  BY <1>1, <1>3, <1>4 DEF Members
<1> QED BY <1>5, <1>6 DEF m, n, k

\* A deleted timer keeps what it was asked for, and by whom.
LEMMA DeletedFits ==
  ASSUME TypeOK, NEW T \in SUBSET Timer
  PROVE  /\ Deleted(T) \in [Timer -> Members]
         /\ \A t \in Timer : /\ Deleted(T)[t].asked = timer[t].asked
                            /\ Deleted(T)[t].owner = timer[t].owner
         /\ \A t \in Timer \ T : Deleted(T)[t] = timer[t]
<1>1. \A t \in Timer : /\ timer[t] \in Members /\ timer[t].asked \in Nat
                      /\ timer[t].owner \in 0 .. MaxResources
  BY DEF TypeOK, Members
<1>2. ASSUME NEW t \in Timer, NEW k \in Nat, NEW r \in 0 .. MaxResources
      PROVE  /\ [NoTimer EXCEPT !.owner = r, !.asked = k] \in Members
             /\ [NoTimer EXCEPT !.owner = r, !.asked = k].asked = k
             /\ [NoTimer EXCEPT !.owner = r, !.asked = k].owner = r
  <2>1. PICK m : m = NoTimer
    OBVIOUS
  <2>2. m \in Members
    <3>1. 0 \in 0 .. (IF wide THEN 2 * Wrap ELSE Wrap - 1) /\ 0 \in 0 .. MaxResources
      OBVIOUS
    <3> QED BY <2>1, <3>1 DEF NoTimer, Members
  <2>3. /\ [m EXCEPT !.owner = r, !.asked = k] \in Members
        /\ [m EXCEPT !.owner = r, !.asked = k].asked = k
        /\ [m EXCEPT !.owner = r, !.asked = k].owner = r
    BY <2>2 DEF Members
  <2> QED BY <2>1, <2>3
<1> QED BY <1>1, <1>2 DEF Deleted

\* What Delete makes of the timers it is about, and that it leaves the others alone.
LEMMA DeleteFits ==
  ASSUME TypeOK, NEW S \in SUBSET Live, NEW T \in SUBSET Live,
         NEW how \in {"done", "killed", "stopped"}, Delete(S, how, T)
  PROVE  /\ state' \in [Timer -> States] /\ timer' \in [Timer -> Members]
         /\ waited' \in [Timer -> 0 .. Wrap]
         /\ \A t \in S : state'[t] = how
         /\ \A t \in T : t \notin S => state'[t] = "deleted"
         /\ \A t \in Timer : t \notin S /\ t \notin T =>
               state'[t] = state[t] /\ timer'[t] = timer[t] /\ waited'[t] = waited[t]
         /\ \A t \in Timer : /\ timer'[t].asked = timer[t].asked
                            /\ timer'[t].owner = timer[t].owner
<1>1. S \subseteq Timer /\ T \subseteq Timer /\ S \cup T \in SUBSET Timer
  BY DEF Live
<1>2. timer' = Deleted(S \cup T)
  BY DEF Delete
<1>3. state' = [t \in Timer |-> IF t \in S THEN how ELSE IF t \in T THEN "deleted"
                                ELSE state[t]]
  BY DEF Delete
<1>4. waited' = [t \in Timer |-> IF t \in S \cup T THEN 0 ELSE waited[t]]
  BY DEF Delete
<1>5. /\ timer' \in [Timer -> Members]
      /\ \A t \in Timer : timer'[t].asked = timer[t].asked /\ timer'[t].owner = timer[t].owner
      /\ \A t \in Timer : t \notin S /\ t \notin T => timer'[t] = timer[t]
  BY <1>1, <1>2, DeletedFits
<1>6. /\ state' \in [Timer -> States]
      /\ \A t \in S : state'[t] = how
      /\ \A t \in T : t \notin S => state'[t] = "deleted"
      /\ \A t \in Timer : t \notin S /\ t \notin T => state'[t] = state[t]
  BY <1>1, <1>3 DEF TypeOK, States
<1>7. /\ waited' \in [Timer -> 0 .. Wrap]
      /\ \A t \in Timer : t \notin S /\ t \notin T => waited'[t] = waited[t]
  <2>1. waited \in [Timer -> 0 .. Wrap] /\ 0 \in 0 .. Wrap
    BY DEF TypeOK
  <2> QED BY <1>4, <2>1
<1> QED BY <1>5, <1>6, <1>7

\* A frame brings the clock some ticks further, or past zero.
LEMMA TickFits ==
  ASSUME TypeOK, NEW d \in 1 .. MaxStep
  PROVE  /\ (clock + d) % Wrap \in 0 .. Wrap - 1 /\ (clock + d) % Wrap <= clock + d
         /\ d \in Nat
<1>1. clock \in 0 .. Wrap - 1 /\ Wrap \in Nat \ {0} /\ d \in 1 .. Wrap
  BY DEF TypeOK
<1>2. (clock + d) % Wrap = IF clock + d < Wrap THEN clock + d ELSE clock + d - Wrap
  BY <1>1, RemainderOfSum, Zenon
<1> QED BY <1>1, <1>2

-----------------------------------------------------------------------------
(* The invariant *)

\* Before the first frame there are no timers.
LEMMA InitInvariant == Init => TimersInvariant
<1> SUFFICES ASSUME Init PROVE TimersInvariant
  OBVIOUS
<1>1. TypeOK
  <2>1. walk \in Place
    BY DEF Init, Idle, Place
  <2>2. NoTimer \in Members
    BY DEF Init, NoTimer, Members
  <2>3. timer \in [Timer -> Members]
    BY <2>2 DEF Init
  <2>4. /\ ulTime \in 0 .. Wrap - 1 /\ acts \in 0 .. MaxActs
        /\ runs \in [Timer -> Nat] /\ waited \in [Timer -> 0 .. Wrap]
        /\ starting \in 0 .. MaxResources
    BY DEF Init
  <2>5. state \in [Timer -> States]
    BY DEF Init, States
  <2> QED BY <2>1, <2>3, <2>4, <2>5 DEF Init, TypeOK, States
<1>2. ListsHoldLive /\ RunsAsAsked
  BY DEF Init, ListsHoldLive, RunsAsAsked, Live, Idle
<1>3. Counted /\ Behind /\ TimesAhead
  BY DEF Init, Counted, Behind, TimesAhead, Live, Idle
<1>4. LeaksExplained /\ FaultsExplained /\ StartsApart
  BY DEF Init, LeaksExplained, FaultsExplained, StartsApart, Idle
<1> QED BY <1>1, <1>2, <1>3, <1>4 DEF TimersInvariant, TimersConsistent

\* A frame lets every timer wait for as many ticks as the clock moves.
LEMMA TickInvariant ==
  ASSUME TimersInvariant, Tick
  PROVE  TimersInvariant'
<1> USE DEF TimersInvariant, TimersConsistent
<1>a. PICK d \in 1 .. MaxStep : /\ clock' = (clock + d) % Wrap
                               /\ waited' = [t \in Timer |-> Waited(t, d)]
  BY DEF Tick
<1>b. /\ fault = "none"
      /\ UNCHANGED <<wide, ids, ulTime, running, starting, state, timer, listed, leaked, walk,
                     acts, fault, visited, runs, moved>>
      /\ ticked' \in BOOLEAN
  BY DEF Tick, scripts
<1>0. (clock + d) % Wrap \in 0 .. Wrap - 1 /\ (clock + d) % Wrap <= clock + d /\ d \in Nat
  BY TickFits
<1>1. TypeOK'
  <2>1. Members' = Members
    BY <1>b DEF Members
  <2>2. ASSUME NEW t \in Timer
        PROVE  Waited(t, d) \in 0 .. Wrap
    <3>1. waited[t] \in 0 .. Wrap /\ timer[t].interval \in 1 .. Wrap
      BY DEF TypeOK, Members
    <3> QED BY <1>0, <3>1 DEF Waited
  <2>3. waited' \in [Timer -> 0 .. Wrap]
    BY <1>a, <2>2
  <2> QED BY <1>a, <1>b, <1>0, <2>1, <2>3 DEF TypeOK
<1>2. ListsHoldLive' /\ RunsAsAsked' /\ StartsApart'
  BY <1>b DEF ListsHoldLive, RunsAsAsked, Live, Of, Calling, StartsApart
<1>3. Counted' /\ Behind'
  BY <1>b DEF Counted, Behind
<1>4. TimesAhead'
  <2> SUFFICES ASSUME NEW t \in Live
               PROVE  \/ waited'[t] >= timer[t].interval
                      \/ clock' + timer[t].interval <= timer[t].next + waited'[t]
                      \/ ~wide /\ timer[t].next < timer[t].interval
    BY <1>b DEF TimesAhead, Live
  <2>1. /\ waited[t] \in Nat /\ timer[t].interval \in Nat /\ timer[t].next \in Int
        /\ clock \in Nat
    BY DEF TypeOK, Members, Live
  <2>2. /\ clock' \in Nat /\ clock' <= clock + d
        /\ waited'[t] = IF waited[t] + d < timer[t].interval THEN waited[t] + d
                        ELSE timer[t].interval
    BY <1>a, <1>0 DEF Waited, Live
  <2>3. \/ waited[t] >= timer[t].interval
        \/ clock + timer[t].interval <= timer[t].next + waited[t]
        \/ ~wide /\ timer[t].next < timer[t].interval
    BY DEF TimesAhead
  <2> QED BY <1>0, <2>1, <2>2, <2>3
<1>5. LeaksExplained' /\ FaultsExplained'
  BY <1>b DEF LeaksExplained, FaultsExplained
<1> QED BY <1>1, <1>2, <1>3, <1>4, <1>5

\* A walk begins with no timer visited.
LEMMA BeginPassInvariant ==
  ASSUME TimersInvariant, BeginPass
  PROVE  TimersInvariant'
<1> USE DEF TimersInvariant, TimersConsistent
<1>1. TypeOK'
  <2>1. Members' = Members
    BY DEF BeginPass, Members
  <2>2. walk' \in Place
    BY DEF BeginPass, AtResource, Place
  <2> QED BY <2>1, <2>2 DEF BeginPass, TypeOK, scripts, history
<1>2. ListsHoldLive' /\ RunsAsAsked'
  BY DEF BeginPass, scripts, history, ListsHoldLive, RunsAsAsked, Live, Of, Calling, AtResource
<1>3. Counted' /\ Behind'
  BY DEF BeginPass, scripts, history, Counted, Behind, AtResource
<1>4. TimesAhead'
  BY DEF BeginPass, scripts, history, TimesAhead, Live, TypeOK
<1>5. LeaksExplained' /\ FaultsExplained'
  BY DEF BeginPass, scripts, history, LeaksExplained, FaultsExplained
<1>6. StartsApart'
  BY DEF BeginPass, scripts, StartsApart, AtResource
<1> QED BY <1>1, <1>2, <1>3, <1>4, <1>5, <1>6

\* A walk ends behind the last resource.
LEMMA EndPassInvariant ==
  ASSUME TimersInvariant, EndPass
  PROVE  TimersInvariant'
<1> USE DEF TimersInvariant, TimersConsistent
<1>1. TypeOK'
  <2>1. Members' = Members
    BY DEF EndPass, clockVars, Members
  <2>2. walk' \in Place
    BY DEF EndPass, Idle, Place
  <2> QED BY <2>1, <2>2 DEF EndPass, TypeOK, clockVars, scripts
<1>2. ListsHoldLive' /\ RunsAsAsked'
  BY DEF EndPass, scripts, ListsHoldLive, RunsAsAsked, Live, Of, Calling, AtResource, Idle
<1>3. Counted' /\ Behind'
  BY DEF EndPass, scripts, Counted, Behind, Idle
<1>4. TimesAhead'
  BY DEF EndPass, clockVars, scripts, TimesAhead, Live, TypeOK
<1>5. LeaksExplained' /\ FaultsExplained'
  BY DEF EndPass, clockVars, scripts, LeaksExplained, FaultsExplained
<1>6. StartsApart'
  BY DEF EndPass, scripts, StartsApart, Idle
<1> QED BY <1>1, <1>2, <1>3, <1>4, <1>5, <1>6

\* The walk comes to a resource, and to the first timer of its list.
LEMMA EnterResourceInvariant ==
  ASSUME TimersInvariant, EnterResource
  PROVE  TimersInvariant'
<1> USE DEF TimersInvariant, TimersConsistent
<1> DEFINE r == walk.resource
<1>a. r \in Resource /\ fault = "none"
  BY DEF EnterResource
<1>b. 0 \in 0 .. MaxTimers
  OBVIOUS
<1>c. /\ walk' \in Place
      /\ walk'.pc \in {"resource", "timer"}
      /\ walk'.pc = "resource" => walk'.resource = r + 1
      /\ walk'.pc = "timer" => walk'.resource = r /\ walk'.timer \in Of(r)
  <2>1. CASE walk' = AtResource(r + 1)
    BY <2>1, <1>a DEF AtResource, Place
  <2>2. CASE walk' = Advance(r, 0)
    BY <2>2, <1>a, <1>b, AdvanceFits
  <2> QED BY <2>1, <2>2 DEF EnterResource
<1> HIDE DEF r
<1>1. TypeOK'
  <2>1. Members' = Members
    BY DEF EnterResource, clockVars, Members
  <2> QED BY <1>c, <2>1 DEF EnterResource, TypeOK, clockVars, scripts, history
<1>2. ListsHoldLive'
  BY <1>c DEF EnterResource, scripts, history, ListsHoldLive, Live, Of
<1>3. RunsAsAsked'
  BY <1>c DEF EnterResource, scripts, history, RunsAsAsked, Calling
<1>4. Counted'
  BY DEF EnterResource, scripts, history, Counted
<1>5. Behind'
  <2>1. walk'.pc # "idle" /\ UNCHANGED <<state, timer, listed, visited, fault>>
    BY <1>c DEF EnterResource, scripts, history
  <2>2. \A t \in visited : state[t] # "none"
    BY <1>a DEF Behind
  <2>3. ASSUME NEW t \in visited \cap listed
        PROVE  timer[t].owner < walk'.resource
    <3>1. timer[t].owner < r
      BY <1>a DEF EnterResource, Behind, r
    <3>2. timer[t].owner \in Nat
      BY DEF TypeOK, Members
    <3> QED BY <1>a, <1>c, <3>1, <3>2
  <2> QED BY <2>1, <2>2, <2>3 DEF Behind
<1>6. TimesAhead' /\ LeaksExplained' /\ FaultsExplained'
  BY DEF EnterResource, clockVars, scripts, history, TimesAhead, Live, LeaksExplained,
         FaultsExplained
<1>7. StartsApart'
  <2>1. starting = 0 /\ starting' = starting
    BY <1>a DEF EnterResource, StartsApart, scripts
  <2> QED BY <1>c, <2>1 DEF StartsApart
<1> QED BY <1>1, <1>2, <1>3, <1>4, <1>5, <1>6, <1>7

\* The walk uses a deleted timer, or a parent that is no resource, only of a timer that
\* was moved.
LEMMA VisitFaults ==
  ASSUME TimersInvariant, Visit, fault' # "none"
  PROVE  TimersInvariant'
<1> USE DEF TimersInvariant, TimersConsistent
<1>a. fault = "none" /\ walk.pc = "timer"
  BY DEF Visit
<1>b. PICK t : t = walk.timer
  OBVIOUS
<1>c. /\ t \in listed /\ t \in Timer /\ timer[t].owner \in running
      /\ t \in Live \/ t \in moved
  BY <1>a, <1>b, WalkIsAt
<1>d. /\ fault' \in {"object", "parent"} /\ visited' = visited \cup {t}
      /\ state[t] # "live" \/ timer[t].parent \notin running
      /\ UNCHANGED <<wide, ids, clock, ticked, ulTime, running, starting, state, timer, listed,
                     leaked, walk, acts, runs, waited, moved>>
  BY <1>a, <1>b DEF Visit, clockVars, scripts
<1>e. t \in moved
  <2> SUFFICES ASSUME t \notin moved PROVE FALSE
    OBVIOUS
  <2>1. t \in Timer \ moved /\ t \in Live
    BY <1>c
  <2>2. timer[t].parent = timer[t].owner
    BY <1>a, <2>1 DEF ListsHoldLive
  <2> QED BY <1>c, <1>d, <2>1, <2>2 DEF Live
<1>1. TypeOK'
  <2>1. Members' = Members /\ visited' \subseteq Timer
    BY <1>c, <1>d DEF Members, TypeOK
  <2> QED BY <1>d, <2>1 DEF TypeOK
<1>2. ListsHoldLive' /\ RunsAsAsked' /\ Counted' /\ Behind' /\ StartsApart'
  BY <1>d DEF ListsHoldLive, RunsAsAsked, Counted, Behind, StartsApart
<1>3. TimesAhead' /\ LeaksExplained'
  BY <1>d DEF TimesAhead, Live, LeaksExplained
<1>4. FaultsExplained'
  BY <1>a, <1>b, <1>d, <1>e DEF FaultsExplained
<1> QED BY <1>1, <1>2, <1>3, <1>4

\* A timer that is due is called; the walk goes on from one that is not.
LEMMA VisitInvariant ==
  ASSUME TimersInvariant, Visit, fault' = "none"
  PROVE  TimersInvariant'
<1> USE DEF TimersInvariant, TimersConsistent
<1> DEFINE r == walk.resource
           t == walk.timer
<1>a. fault = "none" /\ walk.pc = "timer"
  BY DEF Visit
<1>b. /\ r \in Resource /\ t \in Timer /\ t \in 0 .. MaxTimers /\ t \in Of(r)
      /\ state[t] = "live" /\ timer[t].owner = r
  BY <1>a, WalkIsAt DEF ListsHoldLive, Visit
<1>c. /\ walk' \in Place
      /\ walk'.pc \in {"resource", "timer", "call"}
      /\ walk'.pc = "resource" => walk'.resource = r + 1
      /\ walk'.pc = "timer" => walk'.resource = r /\ walk'.timer \in Of(r) /\ walk'.timer > t
      /\ walk'.pc = "call" => walk'.resource = r /\ walk'.timer = t
  <2>1. CASE Due(t)
    <3>1. walk' = [walk EXCEPT !.pc = "call"]
      BY <2>1 DEF Visit, t
    <3> QED BY <3>1 DEF Place, TypeOK, r, t
  <2>2. CASE ~Due(t)
    <3>1. walk' = Advance(r, t)
      BY <2>2 DEF Visit, r, t
    <3> QED BY <3>1, <1>a, <1>b, AdvanceFits
  <2> QED BY <2>1, <2>2
<1>d. /\ UNCHANGED <<wide, ids, clock, ticked, ulTime, running, starting, state, timer, listed,
                     leaked, acts, fault, waited, moved>>
      /\ visited' = visited \cup {t}
      /\ walk'.pc # "call" => runs' = runs
      /\ walk'.pc = "call" =>
           runs' = [runs EXCEPT ![t] = IF @ <= timer[t].asked THEN @ + 1 ELSE @]
  <2>1. CASE Due(t)
    <3>1. walk'.pc = "call"
      BY <2>1 DEF Visit, TypeOK, Place, t
    <3> QED BY <2>1, <3>1, <1>a DEF Visit, clockVars, scripts, t
  <2>2. CASE ~Due(t)
    <3>1. walk' = Advance(r, t) /\ Advance(r, t).pc # "call"
      BY <2>2, <1>a, <1>b, AdvanceFits DEF Visit, r, t
    <3> QED BY <2>2, <3>1, <1>a DEF Visit, clockVars, scripts, t
  <2> QED BY <2>1, <2>2
<1> HIDE DEF r, t
<1>1. TypeOK'
  <2>1. Members' = Members
    BY <1>d DEF Members
  <2>2. runs \in [Timer -> Nat] /\ runs[t] \in Nat
    BY <1>b DEF TypeOK
  <2>3. runs' = [runs EXCEPT ![t] = IF @ <= timer[t].asked THEN @ + 1 ELSE @] =>
          runs' \in [Timer -> Nat]
    <3> DEFINE n == IF runs[t] <= timer[t].asked THEN runs[t] + 1 ELSE runs[t]
    <3>1. n \in Nat
      BY <2>2
    <3> HIDE DEF n
    <3>2. [runs EXCEPT ![t] = n] \in [Timer -> Nat]
      BY <2>2, <3>1
    <3> QED BY <3>2 DEF n
  <2>4. runs' \in [Timer -> Nat]
    BY <1>d, <2>2, <2>3
  <2> QED BY <1>b, <1>c, <1>d, <2>1, <2>4 DEF TypeOK
<1>2. ListsHoldLive'
  BY <1>a, <1>b, <1>c, <1>d DEF ListsHoldLive, Live, Of
<1>3. RunsAsAsked'
  <2> SUFFICES ASSUME NEW u \in Timer
               PROVE  /\ state[u] = "done" => runs'[u] = timer[u].asked
                      /\ state[u] = "live" /\ timer[u].asked > 0 =>
                           runs'[u] + timer[u].repeat =
                             timer[u].asked + (IF Calling(u)' THEN 1 ELSE 0)
    BY <1>d DEF RunsAsAsked
  <2>1. /\ runs[u] \in Nat /\ timer[u].asked \in Nat /\ timer[u].repeat \in Nat
    BY DEF TypeOK, Members
  <2>0. ~Calling(u)
    BY <1>a DEF Calling
  <2>2. /\ state[u] = "done" => runs[u] = timer[u].asked
        /\ state[u] = "live" /\ timer[u].asked > 0 => runs[u] + timer[u].repeat = timer[u].asked
    BY <1>a, <2>0, <2>1 DEF RunsAsAsked
  <2>3. CASE u = t /\ walk'.pc = "call"
    <3>1. Calling(u)'
      BY <1>c, <2>3 DEF Calling
    <3>2. runs'[u] = IF runs[u] <= timer[u].asked THEN runs[u] + 1 ELSE runs[u]
      BY <1>d, <2>3 DEF TypeOK
    <3>3. state[u] = "live"
      BY <1>b, <2>3
    <3> QED BY <2>1, <2>2, <3>1, <3>2, <3>3
  <2>4. CASE ~(u = t /\ walk'.pc = "call")
    <3>1. ~Calling(u)'
      BY <1>c, <2>4 DEF Calling
    <3>2. runs'[u] = runs[u]
      BY <1>d, <2>4 DEF TypeOK
    <3> QED BY <2>1, <2>2, <3>1, <3>2
  <2> QED BY <2>3, <2>4
<1>4. Counted'
  <2>1. \A u \in Timer : state[u] = "none" => runs'[u] = runs[u]
    BY <1>b, <1>d DEF TypeOK
  <2> QED BY <1>d, <2>1 DEF Counted
<1>5. Behind'
  <2>1. walk'.pc # "idle" /\ \A u \in visited' : state[u] # "none"
    BY <1>a, <1>b, <1>c, <1>d DEF Behind
  <2>2. ASSUME NEW u \in visited' \cap listed
        PROVE  \/ timer[u].owner < walk'.resource
               \/ timer[u].owner = walk'.resource /\ walk'.pc = "timer" /\ u < walk'.timer
               \/ timer[u].owner = walk'.resource /\ walk'.pc = "call" /\ u <= walk'.timer
    <3>1. u \in Nat /\ timer[u].owner \in Nat /\ r \in Nat /\ t \in Nat
      BY <1>b, <1>d DEF TypeOK, Members
    <3>2. timer[u].owner < r \/ (timer[u].owner = r /\ u <= t)
      BY <1>a, <1>b, <1>d, <3>1 DEF Behind, r, t
    <3>3. walk'.timer \in Nat
      BY <1>c DEF Place
    <3> QED BY <1>c, <3>1, <3>2, <3>3
  <2> QED BY <1>d, <2>1, <2>2 DEF Behind
<1>6. TimesAhead' /\ LeaksExplained' /\ FaultsExplained'
  BY <1>a, <1>d DEF TimesAhead, Live, LeaksExplained, FaultsExplained
<1>7. StartsApart'
  <2>1. starting = 0
    BY <1>a DEF StartsApart
  <2> QED BY <1>b, <1>c, <1>d, <2>1 DEF StartsApart
<1> QED BY <1>1, <1>2, <1>3, <1>4, <1>5, <1>6, <1>7

-----------------------------------------------------------------------------
(* Deletions *)

\* What the steps that delete timers have in common: those of S leave their lists, those
\* of T were moved and stay, and the walk stays on a timer of a list or one just killed.
Removal(S, how, T) ==
  /\ fault = "none"
  /\ S \subseteq Live /\ T \subseteq Live \cap moved
  /\ how \in {"done", "killed", "stopped"}
  /\ Delete(S, how, T)
  /\ UNCHANGED <<wide, ids, clock, ticked, ulTime, leaked, visited, runs, moved>>
  /\ acts' \in 0 .. MaxActs /\ running' \subseteq Resource
  /\ starting' = starting \/ starting' = 0
  /\ fault' \in {"none", "function", "arguments"}
  /\ fault' = "function" => moved # {}
  /\ fault' = "arguments" => leaked # {}
  /\ listed' \subseteq listed \ S
  /\ \A u \in Timer \ moved : u \in listed \ S => u \in listed'
  /\ \A u \in listed' : timer[u].owner \in running'
  /\ how = "done" => \A u \in S : runs[u] = timer[u].asked

\* The walk goes on to another timer or resource.
WalksOn ==
  /\ walk' \in Place /\ walk'.pc \in {"resource", "timer"} /\ starting = 0
  /\ walk'.pc = "timer" => walk'.timer \in listed' /\ timer[walk'.timer].owner = walk'.resource
  /\ \A u \in Timer : state'[u] = "live" => ~Calling(u)
  /\ \A u \in visited \cap listed' :
       \/ timer[u].owner < walk'.resource
       \/ timer[u].owner = walk'.resource /\ walk'.pc = "timer" /\ u < walk'.timer

\* The walk stays where it is, and its timer too or it is killed.
WalkStays(S, how) ==
  /\ walk' = walk /\ walk.pc \in {"idle", "call"}
  /\ walk.pc = "call" /\ walk.timer \in Of(walk.resource) =>
       walk.timer \in listed' \/ (walk.timer \in S /\ how = "killed")

\* Deleting timers preserves the invariant.
LEMMA RemovalInvariant ==
  ASSUME TimersInvariant, NEW S, NEW T, NEW how, Removal(S, how, T),
         WalksOn \/ WalkStays(S, how)
  PROVE  TimersInvariant'
<1> USE DEF TimersInvariant, TimersConsistent
<1>a. /\ fault = "none"
      /\ UNCHANGED <<wide, ids, clock, ticked, ulTime, leaked, visited, runs, moved>>
      /\ acts' \in 0 .. MaxActs /\ running' \subseteq Resource
      /\ starting' = starting \/ starting' = 0
      /\ fault' \in {"none", "function", "arguments"}
      /\ fault' = "function" => moved # {}
      /\ fault' = "arguments" => leaked # {}
      /\ how \in {"done", "killed", "stopped"}
  BY DEF Removal
<1>b. /\ S \subseteq Live /\ T \subseteq Live /\ T \subseteq moved /\ S \subseteq Timer
      /\ T \subseteq Timer
  BY DEF Removal, Live
<1>c. /\ listed' \subseteq listed /\ listed' \cap S = {} /\ listed \subseteq Timer
      /\ \A u \in Timer \ moved : u \in listed /\ u \notin S => u \in listed'
      /\ \A u \in listed' : timer[u].owner \in running'
  BY DEF Removal, TypeOK
<1>d. /\ state' \in [Timer -> States] /\ timer' \in [Timer -> Members]
      /\ waited' \in [Timer -> 0 .. Wrap]
      /\ \A t \in S : state'[t] = how
      /\ \A t \in T : t \notin S => state'[t] = "deleted"
      /\ \A t \in Timer : t \notin S /\ t \notin T =>
           state'[t] = state[t] /\ timer'[t] = timer[t] /\ waited'[t] = waited[t]
      /\ \A t \in Timer : /\ timer'[t].asked = timer[t].asked
                          /\ timer'[t].owner = timer[t].owner
  <2>1. Delete(S, how, T)
    BY DEF Removal
  <2> QED BY <1>a, <1>b, <2>1, DeleteFits
<1>e. \A t \in Timer : state'[t] = "live" =>
        /\ t \notin S /\ t \notin T /\ state[t] = "live"
        /\ timer'[t] = timer[t] /\ waited'[t] = waited[t]
  BY <1>a, <1>d
<1>f. walk' \in Place
  BY DEF WalksOn, WalkStays, TypeOK
<1>1. TypeOK'
  <2>1. Members' = Members
    BY <1>a DEF Members
  <2>2. listed' \subseteq Timer /\ leaked' \subseteq Timer /\ starting' \in 0 .. MaxResources
    BY <1>a, <1>c DEF TypeOK
  <2> QED BY <1>a, <1>d, <1>f, <2>1, <2>2 DEF TypeOK, States
<1>2. ListsHoldLive'
  <2> SUFFICES ASSUME fault' = "none" PROVE ListsHoldLive'
    BY DEF ListsHoldLive
  <2>1. ASSUME NEW t \in Timer \ moved
        PROVE  /\ t \in listed' <=> state'[t] = "live"
               /\ state'[t] = "live" => timer'[t].parent = timer'[t].owner
    <3>1. /\ t \in listed <=> state[t] = "live"
          /\ state[t] = "live" => timer[t].parent = timer[t].owner
      BY <1>a DEF ListsHoldLive, Live
    <3>2. t \notin T
      BY <1>b
    <3>3. CASE t \in S
      BY <1>a, <1>c, <1>d, <3>3
    <3>4. CASE t \notin S
      <4>1. state'[t] = state[t] /\ timer'[t] = timer[t]
        BY <1>d, <3>2, <3>4
      <4>2. t \in listed' <=> t \in listed
        BY <1>c, <3>4
      <4> QED BY <3>1, <4>1, <4>2
    <3> QED BY <3>3, <3>4
  <2>2. ASSUME NEW t \in listed'
        PROVE  timer'[t].owner \in running' /\ state'[t] \in {"live", "deleted"}
    <3>1. t \in listed /\ t \in Timer /\ t \notin S /\ timer[t].owner \in running'
      BY <1>c
    <3>2. state[t] \in {"live", "deleted"} /\ timer'[t].owner = timer[t].owner
      BY <1>a, <1>d, <3>1 DEF ListsHoldLive
    <3>3. state'[t] = "deleted" \/ state'[t] = state[t]
      BY <1>d, <3>1
    <3> QED BY <3>1, <3>2, <3>3
  <2>3. walk'.pc = "timer" => (walk.timer \in Of(walk.resource))'
    <3> SUFFICES ASSUME walk'.pc = "timer" PROVE (walk.timer \in Of(walk.resource))'
      OBVIOUS
    <3>1. walk'.timer \in listed' /\ timer[walk'.timer].owner = walk'.resource
      BY DEF WalksOn, WalkStays
    <3>2. timer'[walk'.timer].owner = timer[walk'.timer].owner
      BY <1>c, <1>d, <3>1
    <3> QED BY <3>1, <3>2 DEF Of
  <2>4. walk'.pc = "call" =>
          (walk.timer \in Of(walk.resource))' \/ state'[walk'.timer] = "killed"
    <3> SUFFICES ASSUME walk'.pc = "call"
                 PROVE  (walk.timer \in Of(walk.resource))' \/ state'[walk'.timer] = "killed"
      OBVIOUS
    <3>1. /\ walk' = walk /\ walk.pc = "call"
          /\ walk.timer \in Of(walk.resource) =>
               walk.timer \in listed' \/ (walk.timer \in S /\ how = "killed")
      BY DEF WalksOn, WalkStays
    <3>2. walk.timer \in Of(walk.resource) \/ state[walk.timer] = "killed"
      BY <1>a, <3>1 DEF ListsHoldLive
    <3>3. CASE walk.timer \in listed' /\ walk.timer \in Of(walk.resource)
      <4>1. timer'[walk.timer].owner = timer[walk.timer].owner
        BY <1>c, <1>d, <3>3
      <4> QED BY <3>1, <3>3, <4>1 DEF Of
    <3>4. CASE walk.timer \in S /\ how = "killed"
      BY <1>d, <3>1, <3>4
    <3>5. CASE state[walk.timer] = "killed"
      <4>1. walk.timer \in Timer
        BY <1>a, <3>1 DEF StartsApart
      <4>2. walk.timer \notin S /\ walk.timer \notin T
        BY <1>b, <3>5 DEF Live
      <4> QED BY <1>d, <3>1, <3>5, <4>1, <4>2
    <3> QED BY <3>1, <3>2, <3>3, <3>4, <3>5
  <2> QED BY <1>a, <2>1, <2>2, <2>3, <2>4 DEF ListsHoldLive, Live
<1>3. RunsAsAsked'
  <2> SUFFICES ASSUME NEW u \in Timer
               PROVE  /\ state'[u] = "done" => runs[u] = timer'[u].asked
                      /\ state'[u] = "live" /\ timer'[u].asked > 0 =>
                           runs[u] + timer'[u].repeat =
                             timer'[u].asked + (IF Calling(u)' THEN 1 ELSE 0)
    BY <1>a DEF RunsAsAsked
  <2>1. ASSUME state'[u] = "done" PROVE runs[u] = timer'[u].asked
    <3>1. CASE u \in S
      <4>1. how = "done"
        BY <1>d, <2>1, <3>1
      <4>2. runs[u] = timer[u].asked
        BY <3>1, <4>1 DEF Removal
      <4> QED BY <1>d, <4>2
    <3>2. CASE u \notin S
      <4>1. u \notin T
        BY <1>d, <2>1, <3>2
      <4>2. state[u] = "done"
        BY <1>d, <2>1, <3>2, <4>1
      <4> QED BY <1>a, <1>d, <4>2 DEF RunsAsAsked
    <3> QED BY <3>1, <3>2
  <2>2. ASSUME state'[u] = "live", timer'[u].asked > 0
        PROVE  runs[u] + timer'[u].repeat =
                 timer'[u].asked + (IF Calling(u)' THEN 1 ELSE 0)
    <3>1. state[u] = "live" /\ timer'[u] = timer[u]
      BY <1>e, <2>2
    <3>2. runs[u] + timer[u].repeat = timer[u].asked + (IF Calling(u) THEN 1 ELSE 0)
      BY <1>a, <2>2, <3>1 DEF RunsAsAsked
    <3>3. Calling(u)' <=> Calling(u)
      <4>1. CASE WalksOn
        BY <2>2, <4>1 DEF WalksOn, Calling
      <4>2. CASE WalkStays(S, how)
        BY <4>2 DEF WalkStays, Calling
      <4> QED BY <4>1, <4>2
    <3>4. timer[u].asked \in Nat
      BY DEF TypeOK, Members
    <3> QED BY <3>1, <3>2, <3>3, <3>4
  <2> QED BY <2>1, <2>2
<1>4. Counted'
  <2>1. \A u \in Timer : state'[u] = "none" => state[u] = "none"
    BY <1>a, <1>d
  <2> QED BY <1>a, <1>e, <2>1 DEF Counted
<1>5. Behind'
  <2>1. \A u \in visited : state'[u] # "none"
    <3>1. \A u \in visited : u \in Timer /\ state[u] # "none"
      BY <1>a DEF Behind, TypeOK
    <3> QED BY <1>a, <1>d, <3>1
  <2>2. \A u \in listed' : timer'[u].owner = timer[u].owner
    BY <1>c, <1>d
  <2>3. CASE WalksOn
    BY <1>a, <2>1, <2>2, <2>3 DEF WalksOn, Behind
  <2>4. CASE WalkStays(S, how)
    BY <1>a, <1>c, <2>1, <2>2, <2>4 DEF WalkStays, Behind
  <2> QED BY <2>3, <2>4
<1>6. TimesAhead'
  <2> SUFFICES ASSUME NEW u \in Timer, state'[u] = "live"
               PROVE  \/ waited'[u] >= timer'[u].interval
                      \/ clock + timer'[u].interval <= timer'[u].next + waited'[u]
                      \/ ~wide /\ timer'[u].next < timer'[u].interval
    BY <1>a DEF TimesAhead, Live
  <2>1. state[u] = "live" /\ timer'[u] = timer[u] /\ waited'[u] = waited[u]
    BY <1>e
  <2> QED BY <2>1 DEF TimesAhead, Live
<1>7. LeaksExplained' /\ FaultsExplained'
  BY <1>a DEF LeaksExplained, FaultsExplained
<1>8. StartsApart'
  <2>1. CASE WalksOn
    BY <1>a, <2>1 DEF WalksOn, StartsApart
  <2>2. CASE WalkStays(S, how)
    <3> SUFFICES ASSUME walk.pc = "call"
                 PROVE  /\ walk.timer \in Timer
                        /\ \/ starting' = 0 \/ walk.resource # starting'
                           \/ state'[walk.timer] = "killed"
      BY <2>2 DEF WalkStays, StartsApart
    <3>1. /\ walk.timer \in Timer
          /\ starting = 0 \/ walk.resource # starting \/ state[walk.timer] = "killed"
      BY <1>a DEF StartsApart
    <3>2. state[walk.timer] = "killed" => state'[walk.timer] = "killed"
      BY <1>b, <1>d, <3>1 DEF Live
    <3> QED BY <1>a, <3>1, <3>2
  <2> QED BY <2>1, <2>2
<1> QED BY <1>1, <1>2, <1>3, <1>4, <1>5, <1>6, <1>7, <1>8

\* The timers below an entity that is deleted were moved, and no list is told; what
\* FaultOf says of them is explained.
LEMMA BelowIsMoved ==
  ASSUME TypeOK, ListsHoldLive, fault = "none", NEW T \in SUBSET Below
  PROVE  /\ T \subseteq Live \cap moved
         /\ FaultOf(T) \in {"none", "function"}
         /\ FaultOf(T) = "function" => moved # {}
<1>1. T \subseteq Live \cap moved
  BY MovedAway DEF Below
<1>2. T \subseteq listed \/ moved # {}
  BY <1>1
<1> QED BY <1>1, <1>2 DEF FaultOf

-----------------------------------------------------------------------------
(* Calls that return, natives and resources *)

\* A function returns, and its timer has been deleted: it killed it or it was moved.
LEMMA ReturnFaults ==
  ASSUME TimersInvariant, Return, state[walk.timer] # "live"
  PROVE  TimersInvariant'
<1> USE DEF TimersInvariant, TimersConsistent
<1>1. fault = "none" /\ walk.pc = "call"
  BY DEF Return
<1>2. /\ fault' = "iterator"
      /\ UNCHANGED <<wide, ids, clock, ticked, ulTime, running, starting, state, timer, listed,
                     leaked, walk, acts, visited, runs, waited, moved>>
  BY DEF Return, scripts, clockVars
<1>3. state[walk.timer] = "killed" \/ walk.timer \in moved
  BY <1>1, WalkIsAt DEF Live
<1>4. TypeOK'
  <2>1. Members' = Members
    BY <1>2 DEF Members
  <2> QED BY <1>2, <2>1 DEF TypeOK
<1>5. ListsHoldLive' /\ RunsAsAsked' /\ Counted' /\ Behind' /\ StartsApart'
  BY <1>2 DEF ListsHoldLive, RunsAsAsked, Counted, Behind, StartsApart
<1>6. TimesAhead' /\ LeaksExplained' /\ FaultsExplained'
  BY <1>1, <1>2, <1>3 DEF TimesAhead, Live, LeaksExplained, FaultsExplained
<1> QED BY <1>4, <1>5, <1>6

\* While its function was called, the walk stood on the timer; it goes on from it.
LEMMA ReturnWalks ==
  ASSUME TimersInvariant, Return, state[walk.timer] = "live"
  PROVE  /\ fault = "none" /\ walk.pc = "call" /\ starting = 0
         /\ walk.resource \in Resource /\ walk.timer \in Timer
         /\ walk.timer \in listed /\ timer[walk.timer].owner = walk.resource
         /\ timer[walk.timer].owner \in running
         /\ walk' \in Place /\ walk'.pc \in {"resource", "timer"}
         /\ walk'.pc = "timer" =>
              /\ walk'.timer \in listed /\ walk'.timer > walk.timer
              /\ walk'.resource = walk.resource /\ timer[walk'.timer].owner = walk.resource
         /\ \A u \in visited \cap listed :
              \/ timer[u].owner < walk'.resource
              \/ timer[u].owner = walk'.resource /\ walk'.pc = "timer" /\ u < walk'.timer
<1> USE DEF TimersInvariant, TimersConsistent
<1> DEFINE r == walk.resource
           t == walk.timer
<1>1. fault = "none" /\ walk.pc = "call" /\ starting = 0
  BY DEF Return
<1>2. /\ r \in Resource /\ t \in Timer /\ t \in listed
      /\ timer[t].owner = r /\ r \in running
  BY <1>1, WalkIsAt
<1>3. walk' = Advance(r, t)
  BY DEF Return
<1>4. /\ walk' \in Place
      /\ walk'.pc \in {"resource", "timer"}
      /\ walk'.pc = "resource" => walk'.resource = r + 1
      /\ walk'.pc = "timer" => walk'.resource = r /\ walk'.timer \in Of(r) /\ walk'.timer > t
  <2>1. t \in 0 .. MaxTimers
    BY <1>2
  <2> QED BY <1>1, <1>2, <1>3, <2>1, AdvanceFits
<1>5. ASSUME NEW u \in visited \cap listed
      PROVE  \/ timer[u].owner < walk'.resource
             \/ timer[u].owner = walk'.resource /\ walk'.pc = "timer" /\ u < walk'.timer
  <2>1. /\ u \in Nat /\ r \in Nat /\ t \in Nat /\ walk'.timer \in Nat
        /\ timer[u].owner \in Nat
    <3>1. u \in Timer
      BY DEF TypeOK
    <3>2. timer[u].owner \in Nat
      BY <3>1 DEF TypeOK, Members
    <3> QED BY <1>2, <1>4, <3>1, <3>2 DEF Place
  <2>2. timer[u].owner < r \/ (timer[u].owner = r /\ u <= t)
    BY <1>1, <2>1 DEF Behind
  <2> QED BY <1>4, <2>1, <2>2
<1> QED BY <1>1, <1>2, <1>4, <1>5 DEF Of

\* A function returns, and its timer is gone after its last run.
LEMMA LastReturnInvariant ==
  ASSUME TimersInvariant, Return, state[walk.timer] = "live", LastRun(walk.timer)
  PROVE  TimersInvariant'
<1> USE DEF TimersInvariant, TimersConsistent
<1>1. PICK t : t = walk.timer
  OBVIOUS
<1>2. /\ fault = "none" /\ walk.pc = "call" /\ starting = 0
      /\ t \in Timer /\ t \in listed /\ timer[t].owner \in running
  BY <1>1, ReturnWalks
<1>3. PICK T \in SUBSET (Below \ {t}) : Delete({t}, "done", T) /\ fault' = FaultOf(T)
  BY <1>1 DEF Return
<1>4. /\ listed' = listed \ {t}
      /\ UNCHANGED <<wide, ids, clock, ticked, ulTime, running, starting, leaked, acts, visited,
                     runs, moved>>
  BY <1>1 DEF Return, clockVars
<1>5. /\ T \in SUBSET Below /\ T \subseteq Live \cap moved
      /\ FaultOf(T) \in {"none", "function"} /\ (FaultOf(T) = "function" => moved # {})
  BY <1>2, BelowIsMoved
<1>6. runs[t] = timer[t].asked
  <2>1. /\ runs[t] \in Nat /\ timer[t].asked \in Nat /\ timer[t].repeat = 1
        /\ (timer[t].repeat = 0 <=> timer[t].asked = 0)
    BY <1>1, <1>2 DEF TypeOK, Members, Counted, LastRun
  <2>2. timer[t].asked > 0 => runs[t] + timer[t].repeat = timer[t].asked + 1
    BY <1>1, <1>2 DEF RunsAsAsked, Calling
  <2> QED BY <2>1, <2>2
<1>7. \A u \in listed' : timer[u].owner \in running'
  BY <1>2, <1>4 DEF ListsHoldLive
<1>8. Removal({t}, "done", T)
  <2>1. {t} \subseteq Live
    BY <1>1, <1>2 DEF Live
  <2>2. acts' \in 0 .. MaxActs /\ running' \subseteq Resource
    BY <1>4 DEF TypeOK
  <2> QED BY <1>2, <1>3, <1>4, <1>5, <1>6, <1>7, <2>1, <2>2 DEF Removal
<1>9. WalksOn
  <2>1. \A u \in Timer : u # t => ~Calling(u)
    BY <1>1 DEF Calling
  <2>2. state'[t] = "done"
    BY <1>2, <1>3 DEF Delete
  <2>3. walk'.pc = "timer" => walk'.timer \in listed'
    <3>1. walk'.pc = "timer" => walk'.timer \in listed /\ walk'.timer > t
      BY <1>1, ReturnWalks
    <3> QED BY <1>2, <1>4, <3>1
  <2>4. \A u \in visited \cap listed' : u \in visited \cap listed
    BY <1>4
  <2> QED BY <1>1, <2>1, <2>2, <2>3, <2>4, ReturnWalks DEF WalksOn
<1> QED BY <1>8, <1>9, RemovalInvariant

\* A function returns, and its timer waits for its next run.
LEMMA ReturnInvariant ==
  ASSUME TimersInvariant, Return, state[walk.timer] = "live", ~LastRun(walk.timer)
  PROVE  TimersInvariant'
<1> USE DEF TimersInvariant, TimersConsistent
<1>a. PICK t : t = walk.timer
  OBVIOUS
<1>b. /\ fault = "none" /\ walk.pc = "call" /\ starting = 0 /\ state[t] = "live"
      /\ t \in Timer /\ t \in listed
  BY <1>a, ReturnWalks
<1>c. /\ timer' = [timer EXCEPT ![t] = AfterRun(t)]
      /\ waited' = [waited EXCEPT ![t] = 0]
      /\ UNCHANGED <<wide, ids, clock, ticked, ulTime, running, starting, state, listed, leaked,
                     fault, acts, visited, runs, moved>>
  BY <1>a DEF Return, clockVars
<1>d. /\ timer[t].interval \in 1 .. Wrap /\ timer[t].repeat \in Nat /\ timer[t].asked \in Nat
  BY <1>b DEF TypeOK, Members
<1>e. /\ NextExecution(timer[t].interval) \in 0 .. (IF wide THEN 2 * Wrap ELSE Wrap - 1)
      /\ \/ clock + timer[t].interval <= NextExecution(timer[t].interval)
         \/ ~wide /\ NextExecution(timer[t].interval) < timer[t].interval
  BY <1>d, NextFits
<1>f. /\ timer' \in [Timer -> Members]
      /\ \A u \in Timer \ {t} : timer'[u] = timer[u]
      /\ timer'[t].asked = timer[t].asked /\ timer'[t].owner = timer[t].owner
      /\ timer'[t].parent = timer[t].parent /\ timer'[t].interval = timer[t].interval
      /\ timer'[t].next = NextExecution(timer[t].interval)
      /\ timer'[t].repeat = IF timer[t].repeat > 1 THEN timer[t].repeat - 1
                            ELSE timer[t].repeat
  <2>1. timer \in [Timer -> Members]
    BY DEF TypeOK
  <2>2. AfterRun(t) \in Members
    BY <1>b, AfterRunFits
  <2>3. timer' \in [Timer -> Members] /\ timer'[t] = AfterRun(t)
        /\ \A u \in Timer \ {t} : timer'[u] = timer[u]
    BY <1>b, <1>c, <2>1, <2>2
  <2> QED BY <1>b, <2>3, AfterRunFits
<1>g. /\ waited' \in [Timer -> 0 .. Wrap] /\ waited'[t] = 0
      /\ \A u \in Timer \ {t} : waited'[u] = waited[u]
  BY <1>b, <1>c DEF TypeOK
<1>h. \A u \in Timer : /\ timer'[u].owner = timer[u].owner
                       /\ timer'[u].parent = timer[u].parent
  BY <1>f
<1>i. \A u \in Timer : ~Calling(u)'
  BY ReturnWalks DEF Calling
<1>1. TypeOK'
  <2>1. Members' = Members /\ walk' \in Place
    BY <1>c, ReturnWalks DEF Members
  <2> QED BY <1>c, <1>f, <1>g, <2>1 DEF TypeOK
<1>2. ListsHoldLive'
  <2>1. ASSUME NEW u \in Timer \ moved
        PROVE  /\ u \in listed <=> state[u] = "live"
               /\ state[u] = "live" => timer'[u].parent = timer'[u].owner
    BY <1>b, <1>h DEF ListsHoldLive, Live
  <2>2. ASSUME NEW u \in listed
        PROVE  timer'[u].owner \in running /\ state[u] \in {"live", "deleted"}
    BY <1>b, <1>h DEF ListsHoldLive, TypeOK
  <2>3. walk'.pc = "timer" => (walk.timer \in Of(walk.resource))'
    <3> SUFFICES ASSUME walk'.pc = "timer" PROVE (walk.timer \in Of(walk.resource))'
      OBVIOUS
    <3>1. walk'.timer \in listed /\ timer[walk'.timer].owner = walk'.resource
      BY ReturnWalks
    <3>2. walk'.timer \in Timer
      BY <3>1 DEF TypeOK
    <3> QED BY <1>c, <1>h, <3>1, <3>2 DEF Of
  <2>4. walk'.pc # "call"
    BY ReturnWalks
  <2> QED BY <1>c, <2>1, <2>2, <2>3, <2>4 DEF ListsHoldLive, Live
<1>3. RunsAsAsked'
  <2> SUFFICES ASSUME NEW u \in Timer
               PROVE  /\ state[u] = "done" => runs[u] = timer'[u].asked
                      /\ state[u] = "live" /\ timer'[u].asked > 0 =>
                           runs[u] + timer'[u].repeat = timer'[u].asked
    <3>1. \A u \in Timer : timer'[u].asked \in Nat
      BY <1>f DEF Members
    <3> QED BY <1>c, <1>i, <3>1 DEF RunsAsAsked
  <2>1. CASE u # t
    <3>1. ~Calling(u) /\ timer[u].asked \in Nat
      BY <1>a, <2>1 DEF Calling, TypeOK, Members
    <3> QED BY <1>b, <1>f, <2>1, <3>1 DEF RunsAsAsked
  <2>2. CASE u = t
    <3>1. Calling(t)
      BY <1>a, <1>b DEF Calling
    <3>2. timer[t].asked > 0 => runs[t] + timer[t].repeat = timer[t].asked + 1
      BY <1>b, <3>1 DEF RunsAsAsked
    <3>3. runs[t] \in Nat /\ (timer[t].repeat = 0 <=> timer[t].asked = 0)
      BY <1>b DEF TypeOK, Counted
    <3>4. timer[t].asked > 0 => timer[t].repeat > 1
      BY <1>a, <1>d, <3>3 DEF LastRun
    <3>5. timer[t].asked > 0 => runs[t] + timer'[t].repeat = timer[t].asked
      BY <1>d, <1>f, <3>2, <3>3, <3>4
    <3> QED BY <1>b, <1>f, <2>2, <3>5
  <2> QED BY <2>1, <2>2
<1>4. Counted'
  <2> SUFFICES ASSUME NEW u \in Timer
               PROVE  /\ state[u] = "none" => runs[u] = 0
                      /\ state[u] = "live" => (timer'[u].repeat = 0 <=> timer'[u].asked = 0)
    BY <1>c DEF Counted
  <2>1. CASE u # t
    BY <2>1, <1>b, <1>f DEF Counted
  <2>2. CASE u = t
    <3>1. timer[t].repeat = 0 <=> timer[t].asked = 0
      BY <1>b DEF Counted
    <3> QED BY <1>b, <1>d, <1>f, <2>2, <3>1
  <2> QED BY <2>1, <2>2
<1>5. Behind'
  <2>1. walk'.pc # "idle" /\ \A u \in visited : state[u] # "none"
    BY <1>b, ReturnWalks DEF Behind
  <2>2. \A u \in visited \cap listed : timer'[u].owner = timer[u].owner
    BY <1>h DEF TypeOK
  <2>3. \A u \in visited \cap listed :
          \/ timer[u].owner < walk'.resource
          \/ timer[u].owner = walk'.resource /\ walk'.pc = "timer" /\ u < walk'.timer
    BY ReturnWalks
  <2> QED BY <1>c, <2>1, <2>2, <2>3 DEF Behind
<1>6. TimesAhead'
  <2> SUFFICES ASSUME NEW u \in Timer, state[u] = "live"
               PROVE  \/ waited'[u] >= timer'[u].interval
                      \/ clock + timer'[u].interval <= timer'[u].next + waited'[u]
                      \/ ~wide /\ timer'[u].next < timer'[u].interval
    BY <1>c DEF TimesAhead, Live
  <2>1. CASE u # t
    BY <2>1, <1>f, <1>g DEF TimesAhead, Live
  <2>2. CASE u = t
    <3>1. NextExecution(timer[t].interval) \in Nat
      BY <1>e
    <3> QED BY <1>e, <1>f, <1>g, <2>2, <3>1
  <2> QED BY <2>1, <2>2
<1>7. LeaksExplained' /\ FaultsExplained'
  BY <1>b, <1>c DEF LeaksExplained, FaultsExplained
<1>8. StartsApart'
  BY <1>b, <1>c, ReturnWalks DEF StartsApart
<1> QED BY <1>1, <1>2, <1>3, <1>4, <1>5, <1>6, <1>7, <1>8

\* A new timer has not run and is not visited; without an id there are fewer ids than
\* timers.
LEMMA SetTimerInvariant ==
  ASSUME TimersInvariant, NEW r \in Resource, NEW t \in Timer, NEW i \in Intervals,
         NEW n \in Repeats, SetTimer(r, t, i, n)
  PROVE  TimersInvariant'
<1> USE DEF TimersInvariant, TimersConsistent
<1> DEFINE m == [owner |-> r, parent |-> r, interval |-> i, repeat |-> n, asked |-> n,
                 next |-> NextExecution(i)]
<1>a. /\ fault = "none" /\ walk.pc \in {"idle", "call"} /\ r \in running /\ acts < MaxActs
      /\ acts' = acts + 1 /\ state[t] = "none"
      /\ UNCHANGED <<wide, ids, clock, ticked, ulTime, running, starting, walk, fault, visited,
                     runs, moved>>
  BY DEF SetTimer, Script, clockVars
<1>b. i \in 1 .. Wrap /\ n \in Nat /\ r \in 0 .. MaxResources
  OBVIOUS
<1>c. /\ NextExecution(i) \in 0 .. (IF wide THEN 2 * Wrap ELSE Wrap - 1)
      /\ clock + i <= NextExecution(i) \/ (~wide /\ NextExecution(i) < i)
  BY <1>b, NextFits
<1>d. m \in Members
  BY <1>b, <1>c DEF Members
<1>e. /\ timer' \in [Timer -> Members] /\ timer'[t] = m
      /\ \A u \in Timer \ {t} : timer'[u] = timer[u]
  <2>1. timer' = [timer EXCEPT ![t] = m]
    BY DEF SetTimer
  <2> HIDE DEF m
  <2> QED BY <1>d, <2>1 DEF TypeOK
<1>f. /\ waited' \in [Timer -> 0 .. Wrap] /\ waited'[t] = 0
      /\ \A u \in Timer \ {t} : waited'[u] = waited[u]
  BY DEF SetTimer, TypeOK
<1>g. /\ state' \in [Timer -> States]
      /\ listed' \subseteq Timer /\ leaked' \subseteq Timer
      /\ \A u \in Timer \ {t} : state'[u] = state[u] /\ (u \in listed' <=> u \in listed)
      /\ \/ Cardinality(Live) < ids /\ state'[t] = "live" /\ t \in listed' /\ leaked' = leaked
         \/ ~(Cardinality(Live) < ids) /\ state'[t] = "leaked" /\ listed' = listed
  <2>1. CASE Cardinality(Live) < ids
    <3>1. state' = [state EXCEPT ![t] = "live"] /\ listed' = listed \cup {t} /\ leaked' = leaked
      BY <2>1 DEF SetTimer
    <3> QED BY <2>1, <3>1 DEF TypeOK, States
  <2>2. CASE ~(Cardinality(Live) < ids)
    <3>1. /\ state' = [state EXCEPT ![t] = "leaked"] /\ leaked' = leaked \cup {t}
          /\ listed' = listed
      BY <2>2 DEF SetTimer
    <3> QED BY <2>2, <3>1 DEF TypeOK, States
  <2> QED BY <2>1, <2>2
<1>h. t \notin listed /\ ~Calling(t)
  <2>1. t \notin listed
    BY <1>a DEF ListsHoldLive
  <2> QED BY <1>a, <2>1 DEF ListsHoldLive, Calling, Of
<1>1. TypeOK'
  <2>1. Members' = Members
    BY <1>a DEF Members
  <2>2. acts' \in 0 .. MaxActs
    BY <1>a DEF TypeOK
  <2> QED BY <1>a, <1>e, <1>f, <1>g, <2>1, <2>2 DEF TypeOK, States
<1>2. ListsHoldLive'
  <2>0. timer'[t].owner = r /\ timer'[t].parent = r
    BY <1>e
  <2>1. ASSUME NEW u \in Timer \ moved
        PROVE  /\ u \in listed' <=> state'[u] = "live"
               /\ state'[u] = "live" => timer'[u].parent = timer'[u].owner
    <3>1. CASE u = t
      BY <1>g, <1>h, <2>0, <3>1
    <3>2. CASE u # t
      BY <1>a, <1>e, <1>g, <3>2 DEF ListsHoldLive, Live
    <3> QED BY <3>1, <3>2
  <2>2. ASSUME NEW u \in listed'
        PROVE  timer'[u].owner \in running /\ state'[u] \in {"live", "deleted"}
    <3>1. CASE u = t
      BY <1>a, <1>g, <1>h, <2>0, <2>2, <3>1
    <3>2. CASE u # t
      <4>1. u \in Timer /\ u \in listed
        BY <1>g, <2>2, <3>2
      <4> QED BY <1>a, <1>e, <1>g, <3>2, <4>1 DEF ListsHoldLive
    <3> QED BY <3>1, <3>2
  <2>3. walk.pc = "call" => (walk.timer \in Of(walk.resource))' \/ state'[walk.timer] = "killed"
    <3> SUFFICES ASSUME walk.pc = "call"
                 PROVE  (walk.timer \in Of(walk.resource))' \/ state'[walk.timer] = "killed"
      OBVIOUS
    <3>1. walk.timer # t
      BY <1>h DEF Calling
    <3>2. CASE walk.timer \in Of(walk.resource)
      <4>1. /\ walk.timer \in Timer \ {t} /\ walk.timer \in listed
            /\ timer[walk.timer].owner = walk.resource
        BY <3>1, <3>2 DEF Of, TypeOK
      <4> QED BY <1>a, <1>e, <1>g, <4>1 DEF Of
    <3>3. CASE walk.timer \notin Of(walk.resource)
      <4>1. state[walk.timer] = "killed"
        BY <1>a, <3>3 DEF ListsHoldLive
      <4>2. CASE Cardinality(Live) < ids
        <5>1. state' = [state EXCEPT ![t] = "live"]
          BY <4>2 DEF SetTimer
        <5> QED BY <3>1, <4>1, <5>1 DEF TypeOK
      <4>3. CASE ~(Cardinality(Live) < ids)
        <5>1. state' = [state EXCEPT ![t] = "leaked"]
          BY <4>3 DEF SetTimer
        <5> QED BY <3>1, <4>1, <5>1 DEF TypeOK
      <4> QED BY <4>2, <4>3
    <3> QED BY <3>2, <3>3
  <2> QED BY <1>a, <2>1, <2>2, <2>3 DEF ListsHoldLive, Live
<1>3. RunsAsAsked'
  <2> SUFFICES ASSUME NEW u \in Timer
               PROVE  /\ state'[u] = "done" => runs[u] = timer'[u].asked
                      /\ state'[u] = "live" /\ timer'[u].asked > 0 =>
                           runs[u] + timer'[u].repeat =
                             timer'[u].asked + (IF Calling(u) THEN 1 ELSE 0)
    BY <1>a DEF RunsAsAsked, Calling
  <2>1. CASE u # t
    BY <1>a, <1>e, <1>g, <2>1 DEF RunsAsAsked
  <2>2. CASE u = t
    <3>1. runs[t] = 0
      BY <1>a DEF Counted
    <3>2. timer'[t].repeat = n /\ timer'[t].asked = n /\ state'[t] # "done"
      BY <1>e, <1>g
    <3>3. ~Calling(u)
      BY <1>h, <2>2
    <3> QED BY <1>b, <2>2, <3>1, <3>2, <3>3
  <2> QED BY <2>1, <2>2
<1>4. Counted'
  BY SMTT(30), <1>a, <1>e, <1>g DEF Counted
<1>5. Behind'
  <2>1. \A u \in visited : u # t /\ state'[u] # "none"
    BY <1>a, <1>g DEF Behind, TypeOK
  <2>2. \A u \in visited \cap listed' : u \in visited \cap listed /\ timer'[u] = timer[u]
    BY <1>e, <1>g, <2>1 DEF TypeOK
  <2> QED BY <1>a, <2>1, <2>2 DEF Behind
<1>6. TimesAhead'
  <2> SUFFICES ASSUME NEW u \in Timer, state'[u] = "live"
               PROVE  \/ waited'[u] >= timer'[u].interval
                      \/ clock + timer'[u].interval <= timer'[u].next + waited'[u]
                      \/ ~wide /\ timer'[u].next < timer'[u].interval
    BY <1>a DEF TimesAhead, Live
  <2>1. CASE u # t
    BY <1>e, <1>f, <1>g, <2>1 DEF TimesAhead, Live
  <2>2. CASE u = t
    <3>1. timer'[t].interval = i /\ timer'[t].next = NextExecution(i) /\ waited'[t] = 0
      BY <1>e, <1>f
    <3>2. NextExecution(i) \in Nat
      BY <1>c
    <3> QED BY <1>b, <1>c, <2>2, <3>1, <3>2
  <2> QED BY <2>1, <2>2
<1>7. LeaksExplained'
  <2>1. CASE Cardinality(Live) < ids
    <3>1. leaked' = leaked
      BY <2>1, <1>g
    <3> QED BY <1>a, <3>1 DEF LeaksExplained
  <2>2. CASE ~(Cardinality(Live) < ids)
    <3>1. IsFiniteSet(Timer) /\ Cardinality(Timer) = MaxTimers
      BY FS_Interval
    <3>2. /\ IsFiniteSet(Timer \ {t})
          /\ Cardinality(Timer \ {t}) = Cardinality(Timer) - 1
      BY <3>1, FS_RemoveElement
    <3>3. Live \subseteq Timer \ {t}
      BY <1>a DEF Live
    <3>4. Cardinality(Live) <= Cardinality(Timer \ {t}) /\ IsFiniteSet(Live)
      BY <3>2, <3>3, FS_Subset
    <3>5. Cardinality(Live) \in Nat
      BY <3>4, FS_CardinalityType
    <3>6. ids \in Nat
      BY DEF TypeOK
    <3>7. ids < MaxTimers
      BY <2>2, <3>1, <3>2, <3>4, <3>5, <3>6
    <3> QED BY <1>a, <3>7 DEF LeaksExplained
  <2> QED BY <2>1, <2>2
<1>8. FaultsExplained'
  BY <1>a DEF FaultsExplained
<1>9. StartsApart'
  <2>1. walk.pc = "call" => walk.timer \in Timer \ {t}
    BY <1>a, <1>h DEF StartsApart, Calling
  <2>2. walk.pc = "call" => state'[walk.timer] = state[walk.timer]
    BY <1>g, <2>1
  <2> QED BY <1>a, <2>2 DEF StartsApart
<1> QED BY <1>1, <1>2, <1>3, <1>4, <1>5, <1>6, <1>7, <1>8, <1>9

\* A reset timer has its whole interval before it.
LEMMA ResetTimerInvariant ==
  ASSUME TimersInvariant, NEW r \in Resource, NEW t \in Timer, ResetTimer(r, t)
  PROVE  TimersInvariant'
<1> USE DEF TimersInvariant, TimersConsistent
<1> DEFINE n == NextExecution(timer[t].interval)
<1>a. /\ fault = "none" /\ acts < MaxActs /\ acts' = acts + 1 /\ state[t] = "live"
      /\ timer' = [timer EXCEPT ![t].next = n]
      /\ waited' = [waited EXCEPT ![t] = 0]
      /\ UNCHANGED <<wide, ids, clock, ticked, ulTime, running, starting, state, listed, leaked,
                     walk, fault, visited, runs, moved>>
  BY DEF ResetTimer, Script, clockVars, Live
<1>b. timer[t] \in Members /\ timer[t].interval \in 1 .. Wrap
  BY DEF TypeOK, Members
<1>c. /\ n \in 0 .. (IF wide THEN 2 * Wrap ELSE Wrap - 1)
      /\ clock + timer[t].interval <= n \/ (~wide /\ n < timer[t].interval)
  BY <1>b, NextFits
<1> HIDE DEF n
<1>d. /\ timer' \in [Timer -> Members] /\ timer'[t].next = n
      /\ \A u \in Timer : /\ timer'[u].owner = timer[u].owner
                          /\ timer'[u].interval = timer[u].interval
                          /\ timer'[u].repeat = timer[u].repeat
                          /\ timer'[u].asked = timer[u].asked
                          /\ timer'[u].parent = timer[u].parent
      /\ \A u \in Timer \ {t} : timer'[u] = timer[u]
  <2>1. /\ [timer[t] EXCEPT !.next = n] \in Members
        /\ [timer[t] EXCEPT !.next = n].next = n
        /\ [timer[t] EXCEPT !.next = n].owner = timer[t].owner
        /\ [timer[t] EXCEPT !.next = n].interval = timer[t].interval
        /\ [timer[t] EXCEPT !.next = n].repeat = timer[t].repeat
        /\ [timer[t] EXCEPT !.next = n].asked = timer[t].asked
        /\ [timer[t] EXCEPT !.next = n].parent = timer[t].parent
    BY <1>b, <1>c DEF Members
  <2>2. /\ timer \in [Timer -> Members]
        /\ timer' = [timer EXCEPT ![t] = [timer[t] EXCEPT !.next = n]]
    BY <1>a DEF TypeOK
  <2>3. timer'[t] = [timer[t] EXCEPT !.next = n] /\ \A u \in Timer \ {t} : timer'[u] = timer[u]
    BY <2>2
  <2>4. timer' \in [Timer -> Members]
    BY <2>1, <2>2
  <2> QED BY <2>1, <2>3, <2>4
<1>1. TypeOK'
  <2>1. Members' = Members
    BY <1>a DEF Members
  <2>2. acts' \in 0 .. MaxActs /\ waited' \in [Timer -> 0 .. Wrap]
    BY SMTT(30), <1>a DEF TypeOK
  <2> QED BY <1>a, <1>d, <2>1, <2>2 DEF TypeOK
<1>2. ListsHoldLive'
  <2>1. \A u \in listed : timer'[u].owner = timer[u].owner
    BY <1>d DEF TypeOK
  <2> QED BY <1>a, <1>d, <2>1 DEF ListsHoldLive, Live, Of
<1>3. RunsAsAsked' /\ Counted'
  BY <1>a, <1>d DEF RunsAsAsked, Counted, Calling
<1>4. Behind'
  <2>1. \A u \in listed : timer'[u].owner = timer[u].owner
    BY <1>d DEF TypeOK
  <2> QED BY <1>a, <2>1 DEF Behind
<1>5. TimesAhead'
  <2> SUFFICES ASSUME NEW u \in Timer, state[u] = "live"
               PROVE  \/ waited'[u] >= timer'[u].interval
                      \/ clock + timer'[u].interval <= timer'[u].next + waited'[u]
                      \/ ~wide /\ timer'[u].next < timer'[u].interval
    BY <1>a DEF TimesAhead, Live
  <2>1. CASE u # t
    <3>1. timer'[u] = timer[u] /\ waited'[u] = waited[u]
      BY <1>a, <1>d, <2>1 DEF TypeOK
    <3> QED BY <3>1 DEF TimesAhead, Live
  <2>2. CASE u = t
    <3>1. waited'[t] = 0 /\ n \in Nat
      BY <1>a, <1>c DEF TypeOK
    <3> QED BY <1>b, <1>c, <1>d, <2>2, <3>1
  <2> QED BY <2>1, <2>2
<1>6. LeaksExplained' /\ FaultsExplained' /\ StartsApart'
  BY <1>a DEF LeaksExplained, FaultsExplained, StartsApart
<1> QED BY <1>1, <1>2, <1>3, <1>4, <1>5, <1>6

\* A killed timer leaves the list; the walk may go on standing on it.
LEMMA KillTimerInvariant ==
  ASSUME TimersInvariant, NEW r \in Resource, NEW t \in Timer, KillTimer(r, t)
  PROVE  TimersInvariant'
<1> USE DEF TimersInvariant, TimersConsistent
<1>a. /\ fault = "none" /\ acts < MaxActs /\ acts' = acts + 1 /\ state[t] = "live"
      /\ walk.pc \in {"idle", "call"}
      /\ UNCHANGED <<wide, ids, clock, ticked, ulTime, running, starting, leaked, walk, visited,
                     runs, moved>>
  BY DEF KillTimer, Script, clockVars, Live
<1>b. acts' \in 0 .. MaxActs /\ Members' = Members
  BY <1>a DEF TypeOK, Members
<1>c. CASE t \in Of(r)
  <2>1. PICK T \in SUBSET (Below \ {t}) : Delete({t}, "killed", T) /\ fault' = FaultOf(T)
    BY <1>c DEF KillTimer
  <2>2. listed' = listed \ {t}
    BY <1>c DEF KillTimer
  <2>3. /\ T \subseteq Live \cap moved
        /\ FaultOf(T) \in {"none", "function"} /\ (FaultOf(T) = "function" => moved # {})
    <3>1. T \in SUBSET Below
      OBVIOUS
    <3> QED BY <1>a, <3>1, BelowIsMoved
  <2>4. Removal({t}, "killed", T)
    <3>1. {t} \subseteq Live /\ running' \subseteq Resource
      BY <1>a DEF Live, TypeOK
    <3>2. \A u \in listed' : timer[u].owner \in running'
      BY <1>a, <2>2 DEF ListsHoldLive
    <3> QED BY <1>a, <1>b, <2>1, <2>2, <2>3, <3>1, <3>2 DEF Removal
  <2>5. WalkStays({t}, "killed")
    BY <1>a, <2>2 DEF WalkStays, Of
  <2> QED BY <2>4, <2>5, RemovalInvariant
<1>d. CASE t \notin Of(r)
  <2>1. UNCHANGED <<state, listed, timer, waited, fault>>
    BY <1>d DEF KillTimer
  <2>2. TypeOK'
    BY <1>a, <1>b, <2>1 DEF TypeOK
  <2>3. ListsHoldLive' /\ RunsAsAsked' /\ Counted' /\ Behind' /\ StartsApart'
    BY <1>a, <2>1 DEF ListsHoldLive, RunsAsAsked, Counted, Behind, Live, Of, Calling,
                      StartsApart
  <2>4. TimesAhead' /\ LeaksExplained' /\ FaultsExplained'
    BY <1>a, <2>1 DEF TimesAhead, Live, LeaksExplained, FaultsExplained
  <2> QED BY <2>2, <2>3, <2>4
<1> QED BY <1>c, <1>d

\* A timer that is given another parent is a moved one.
LEMMA SetParentInvariant ==
  ASSUME TimersInvariant, NEW r \in Resource, NEW t \in Timer,
         NEW p \in Resource \cup {Elsewhere}, SetParent(r, t, p)
  PROVE  TimersInvariant'
<1> USE DEF TimersInvariant, TimersConsistent
<1>a. /\ fault = "none" /\ acts < MaxActs /\ acts' = acts + 1
      /\ timer' = [timer EXCEPT ![t].parent = p]
      /\ moved' = moved \cup {t}
      /\ UNCHANGED <<wide, ids, clock, ticked, ulTime, running, starting, state, listed, leaked,
                     walk, fault, visited, runs, waited>>
  BY DEF SetParent, Script, clockVars
<1>b. /\ timer' \in [Timer -> Members]
      /\ \A u \in Timer : /\ timer'[u].owner = timer[u].owner
                          /\ timer'[u].interval = timer[u].interval
                          /\ timer'[u].repeat = timer[u].repeat
                          /\ timer'[u].asked = timer[u].asked
                          /\ timer'[u].next = timer[u].next
      /\ \A u \in Timer \ {t} : timer'[u] = timer[u]
  <2>1. timer \in [Timer -> Members] /\ timer[t] \in Members /\ p \in 0 .. MaxResources
    BY DEF TypeOK, Elsewhere
  <2>2. /\ [timer[t] EXCEPT !.parent = p] \in Members
        /\ [timer[t] EXCEPT !.parent = p].owner = timer[t].owner
        /\ [timer[t] EXCEPT !.parent = p].interval = timer[t].interval
        /\ [timer[t] EXCEPT !.parent = p].repeat = timer[t].repeat
        /\ [timer[t] EXCEPT !.parent = p].asked = timer[t].asked
        /\ [timer[t] EXCEPT !.parent = p].next = timer[t].next
    BY <2>1 DEF Members
  <2>3. timer' = [timer EXCEPT ![t] = [timer[t] EXCEPT !.parent = p]]
    BY <1>a
  <2>4. /\ timer'[t] = [timer[t] EXCEPT !.parent = p]
        /\ \A u \in Timer \ {t} : timer'[u] = timer[u]
    BY <2>1, <2>3
  <2>5. timer' \in [Timer -> Members]
    BY <2>1, <2>2, <2>3
  <2> QED BY <2>2, <2>4, <2>5
<1>1. TypeOK'
  <2>1. acts' \in 0 .. MaxActs /\ moved' \subseteq Timer
    <3>1. acts \in 0 .. MaxActs /\ moved \subseteq Timer
      BY DEF TypeOK
    <3> QED BY <1>a, <3>1
  <2>2. Members' = Members
    BY <1>a DEF Members
  <2> QED BY <1>a, <1>b, <2>1, <2>2 DEF TypeOK
<1>2. ListsHoldLive'
  <2>1. \A u \in listed : timer'[u].owner = timer[u].owner
    BY <1>b DEF TypeOK
  <2>2. ASSUME NEW u \in Timer \ moved'
        PROVE  /\ u \in listed <=> state[u] = "live"
               /\ state[u] = "live" => timer'[u].parent = timer'[u].owner
    <3>1. u \in Timer \ moved /\ u # t
      BY <1>a
    <3> QED BY <1>a, <1>b, <3>1 DEF ListsHoldLive, Live
  <2> QED BY <1>a, <2>1, <2>2 DEF ListsHoldLive, Live, Of
<1>3. RunsAsAsked' /\ Counted'
  BY <1>a, <1>b DEF RunsAsAsked, Counted, Calling
<1>4. Behind'
  <2>1. \A u \in listed : timer'[u].owner = timer[u].owner
    BY <1>b DEF TypeOK
  <2> QED BY <1>a, <2>1 DEF Behind
<1>5. TimesAhead'
  BY <1>a, <1>b DEF TimesAhead, Live
<1>6. LeaksExplained' /\ FaultsExplained' /\ StartsApart'
  BY <1>a DEF LeaksExplained, FaultsExplained, StartsApart
<1> QED BY <1>1, <1>2, <1>3, <1>4, <1>5, <1>6

\* With an entity go the timers that were moved below it.
LEMMA DeleteEntityInvariant ==
  ASSUME TimersInvariant, NEW r \in Resource, NEW T \in SUBSET Below, DeleteEntity(r, T)
  PROVE  TimersInvariant'
<1> USE DEF TimersInvariant, TimersConsistent
<1>1. /\ fault = "none" /\ walk.pc \in {"idle", "call"}
      /\ Delete({}, "deleted", T) /\ fault' = FaultOf(T)
      /\ UNCHANGED <<wide, ids, clock, ticked, ulTime, running, starting, listed, leaked, walk,
                     acts, visited, runs, moved>>
  BY DEF DeleteEntity, clockVars
<1>2. Delete({}, "stopped", T)
  BY <1>1 DEF Delete
<1>3. /\ T \subseteq Live \cap moved
      /\ FaultOf(T) \in {"none", "function"} /\ (FaultOf(T) = "function" => moved # {})
  BY <1>1, BelowIsMoved
<1>4. Removal({}, "stopped", T)
  <2>1. acts' \in 0 .. MaxActs /\ running' \subseteq Resource
    BY <1>1 DEF TypeOK
  <2>2. \A u \in listed' : timer[u].owner \in running'
    BY <1>1 DEF ListsHoldLive
  <2> QED BY <1>1, <1>2, <1>3, <2>1, <2>2 DEF Removal
<1>5. WalkStays({}, "stopped")
  BY <1>1 DEF WalkStays, Of
<1> QED BY <1>4, <1>5, RemovalInvariant

\* A resource that starts has no timers yet.
LEMMA StartResourceInvariant ==
  ASSUME TimersInvariant, NEW r \in Resource, StartResource(r)
  PROVE  TimersInvariant'
<1> USE DEF TimersInvariant, TimersConsistent
<1>a. /\ fault = "none" /\ acts < MaxActs /\ acts' = acts + 1 /\ running' = running \cup {r}
      /\ walk.pc \in {"idle", "call"} /\ r \notin running /\ starting' = r
      /\ UNCHANGED <<wide, ids, clock, ticked, ulTime, state, timer, listed, leaked, walk,
                     fault, visited, runs, waited, moved>>
  BY DEF StartResource, Acts, clockVars, history
<1>b. acts' \in 0 .. MaxActs /\ Members' = Members /\ r \in 0 .. MaxResources
  BY <1>a DEF TypeOK, Members
<1>1. TypeOK'
  BY <1>a, <1>b DEF TypeOK
<1>2. ListsHoldLive' /\ RunsAsAsked' /\ Counted' /\ Behind'
  BY <1>a DEF ListsHoldLive, RunsAsAsked, Counted, Behind, Live, Of, Calling
<1>3. TimesAhead' /\ LeaksExplained' /\ FaultsExplained'
  BY <1>a DEF TimesAhead, Live, LeaksExplained, FaultsExplained
<1>4. StartsApart'
  <2>1. walk.pc = "call" => walk.resource # r \/ state[walk.timer] = "killed"
    BY <1>a, WalkIsAt
  <2> QED BY <1>a, <2>1 DEF StartsApart
<1> QED BY <1>1, <1>2, <1>3, <1>4

\* A start that returns changes nothing about timers.
LEMMA StartReturnsInvariant ==
  ASSUME TimersInvariant, StartReturns
  PROVE  TimersInvariant'
<1> USE DEF TimersInvariant, TimersConsistent
<1>a. /\ fault = "none" /\ starting' = 0
      /\ UNCHANGED <<wide, ids, clock, ticked, ulTime, running, state, timer, listed, leaked,
                     walk, acts, fault, visited, runs, waited, moved>>
  BY DEF StartReturns, clockVars, history
<1>1. TypeOK'
  <2>1. Members' = Members /\ starting' \in 0 .. MaxResources
    BY <1>a DEF TypeOK, Members
  <2> QED BY <1>a, <2>1 DEF TypeOK
<1>2. ListsHoldLive' /\ RunsAsAsked' /\ Counted' /\ Behind' /\ StartsApart'
  BY <1>a DEF ListsHoldLive, RunsAsAsked, Counted, Behind, Live, Of, Calling, StartsApart
<1>3. TimesAhead' /\ LeaksExplained' /\ FaultsExplained'
  BY <1>a DEF TimesAhead, Live, LeaksExplained, FaultsExplained
<1> QED BY <1>1, <1>2, <1>3

\* With a resource go its timers: between two walks, or when its start fails.
LEMMA StopInvariant ==
  ASSUME TimersInvariant, NEW r \in Resource, NEW T \in SUBSET Below, Stop(r, T),
         fault = "none", acts' \in 0 .. MaxActs, starting' = starting \/ starting' = 0,
         walk.pc \in {"idle", "call"},
         walk.pc = "call" => walk.resource # r \/ state[walk.timer] = "killed"
  PROVE  TimersInvariant'
<1> USE DEF TimersInvariant, TimersConsistent
<1>1. PICK S : S = {t \in Live : timer[t].parent = r}
  OBVIOUS
<1>2. PICK U : U = S \cap Of(r)
  OBVIOUS
<1>3. PICK V : V = (S \ Of(r)) \cup T
  OBVIOUS
<1>4. /\ running' = running \ {r} /\ listed' = listed \ Of(r)
      /\ Delete(U, "stopped", V)
      /\ fault' = IF \E t \in leaked : timer[t].owner = r THEN "arguments" ELSE FaultOf(S \cup T)
      /\ UNCHANGED <<wide, ids, clock, ticked, ulTime, leaked, walk, visited, runs, moved>>
  BY <1>1, <1>2, <1>3 DEF Stop, clockVars
<1>5. T \subseteq Live \cap moved
  BY BelowIsMoved
<1>6. V \subseteq Live \cap moved
  <2>1. ASSUME NEW t \in S, t \notin Of(r)
        PROVE  t \in Live \cap moved
    <3>1. t \in Live /\ timer[t].parent = r /\ t \in Timer
      BY <1>1, <2>1 DEF Live
    <3>2. CASE t \in moved
      BY <3>1, <3>2
    <3>3. CASE t \notin moved
      <4>1. t \in listed /\ timer[t].parent = timer[t].owner
        BY <3>1, <3>3 DEF ListsHoldLive
      <4> QED BY <2>1, <3>1, <4>1 DEF Of
    <3> QED BY <3>2, <3>3
  <2> QED BY <1>3, <1>5, <2>1
<1>7. /\ fault' \in {"none", "function", "arguments"}
      /\ fault' = "function" => moved # {}
      /\ fault' = "arguments" => leaked # {}
  <2>1. S \cup T \subseteq listed \/ moved # {}
    <3>1. S \cup T \subseteq Live
      BY <1>1, <1>5
    <3> QED BY <3>1, MovedAway
  <2> QED BY <1>4, <2>1 DEF FaultOf
<1>8. \A u \in Timer \ moved : u \in listed \ U => u \in listed'
  <2> SUFFICES ASSUME NEW u \in Timer \ moved, u \in listed, u \in Of(r) PROVE u \in U
    BY <1>4
  <2>1. u \in Live /\ timer[u].parent = timer[u].owner
    BY DEF ListsHoldLive
  <2>2. timer[u].owner = r
    BY DEF Of
  <2> QED BY <1>1, <1>2, <2>1, <2>2
<1>9. \A u \in listed' : timer[u].owner \in running'
  BY <1>4 DEF ListsHoldLive, Of
<1>10. Removal(U, "stopped", V)
  <2>1. U \subseteq Live /\ running' \subseteq Resource
    BY <1>1, <1>2, <1>4 DEF TypeOK
  <2>2. listed' \subseteq listed \ U
    BY <1>2, <1>4
  <2> QED BY <1>4, <1>6, <1>7, <1>8, <1>9, <2>1, <2>2 DEF Removal
<1>11. WalkStays(U, "stopped")
  <2> SUFFICES ASSUME walk.pc = "call", walk.timer \in Of(walk.resource)
               PROVE  walk.timer \in listed'
    BY <1>4 DEF WalkStays
  <2>1. walk.timer \in listed /\ timer[walk.timer].owner = walk.resource
    BY DEF Of
  <2>2. state[walk.timer] \in {"live", "deleted"}
    BY <2>1 DEF ListsHoldLive
  <2> QED BY <1>4, <2>1, <2>2 DEF Of
<1> QED BY <1>10, <1>11, RemovalInvariant

\* A start that fails stops its resource at once, be it under a call of a timer.
LEMMA StartFailsInvariant ==
  ASSUME TimersInvariant, StartFails
  PROVE  TimersInvariant'
<1> USE DEF TimersInvariant, TimersConsistent
<1>1. PICK T \in SUBSET Below : Stop(starting, T)
  BY DEF StartFails
<1>2. PICK r : r = starting
  OBVIOUS
<1>3. /\ fault = "none" /\ r # 0 /\ r \in Resource /\ starting' = 0 /\ acts' \in 0 .. MaxActs
  BY <1>2 DEF StartFails, TypeOK
<1>4. /\ walk.pc \in {"idle", "call"}
      /\ walk.pc = "call" => walk.resource # r \/ state[walk.timer] = "killed"
  BY <1>2, <1>3 DEF StartsApart, TypeOK, Place
<1> QED BY <1>1, <1>2, <1>3, <1>4, StopInvariant

\* Other stops come between two walks.
LEMMA StopResourceInvariant ==
  ASSUME TimersInvariant, NEW r \in Resource, StopResource(r)
  PROVE  TimersInvariant'
<1> USE DEF TimersInvariant, TimersConsistent
<1>1. PICK T \in SUBSET Below : Stop(r, T)
  BY DEF StopResource
<1>2. /\ fault = "none" /\ walk.pc = "idle" /\ starting' = starting /\ acts' \in 0 .. MaxActs
  BY DEF StopResource, Acts, BetweenWalks, TypeOK
<1> QED BY <1>1, <1>2, StopInvariant

-----------------------------------------------------------------------------
(* Theorems *)

\* Every step preserves the invariant.
LEMMA StepInvariant == TimersInvariant /\ [Next]_vars => TimersInvariant'
<1> SUFFICES ASSUME TimersInvariant, [Next]_vars PROVE TimersInvariant'
  OBVIOUS
<1>1. CASE Tick
  BY <1>1, TickInvariant
<1>2. CASE BeginPass \/ EndPass \/ EnterResource
  BY <1>2, BeginPassInvariant, EndPassInvariant, EnterResourceInvariant
<1>3. CASE Visit
  BY <1>3, VisitInvariant, VisitFaults
<1>4. CASE Return
  BY <1>4, ReturnInvariant, LastReturnInvariant, ReturnFaults
<1>5. ASSUME NEW r \in Resource, NEW t \in Timer,
             \/ \E i \in Intervals, n \in Repeats : SetTimer(r, t, i, n)
             \/ ResetTimer(r, t)
             \/ KillTimer(r, t)
             \/ \E p \in Resource \cup {Elsewhere} : SetParent(r, t, p)
      PROVE  TimersInvariant'
  BY <1>5, SetTimerInvariant, ResetTimerInvariant, KillTimerInvariant, SetParentInvariant
<1>6. ASSUME NEW r \in Resource,
             \/ \E T \in SUBSET Below : DeleteEntity(r, T)
             \/ StartResource(r)
             \/ StopResource(r)
      PROVE  TimersInvariant'
  BY <1>6, DeleteEntityInvariant, StartResourceInvariant, StopResourceInvariant
<1>8. CASE StartReturns \/ StartFails
  BY <1>8, StartReturnsInvariant, StartFailsInvariant
<1>7. CASE UNCHANGED vars
  <2>1. UNCHANGED <<wide, ids, clock, ticked, ulTime, running, starting, state, timer, listed,
                    leaked, walk, acts, fault, visited, runs, waited, moved>>
    BY <1>7 DEF vars, clockVars, scripts, history
  <2>2. TypeOK' /\ ListsHoldLive' /\ RunsAsAsked'
    <3>1. Members' = Members
      BY <2>1 DEF Members
    <3> QED BY <2>1, <3>1 DEF TimersInvariant, TimersConsistent, TypeOK, ListsHoldLive,
                              RunsAsAsked, Live, Of, Calling
  <2>3. /\ Counted' /\ Behind' /\ TimesAhead' /\ LeaksExplained' /\ FaultsExplained'
        /\ StartsApart'
    BY <2>1 DEF TimersInvariant, Counted, Behind, TimesAhead, Live, LeaksExplained,
                FaultsExplained, StartsApart
  <2> QED BY <2>2, <2>3 DEF TimersInvariant, TimersConsistent
<1> QED BY <1>1, <1>2, <1>3, <1>4, <1>5, <1>6, <1>7, <1>8 DEF Next

\* The inductive invariant holds in every state.
LEMMA AlwaysTimersInvariant == Spec => []TimersInvariant
  BY InitInvariant, StepInvariant, PTL DEF Spec

\* Whatever scripts do to timers while CTimers::Process walks over them, the lists hold the
\* timers that exist, but for those a script has moved, and the runs of each and what is
\* left make up what was asked for.
THEOREM TimersAlwaysConsistent == Spec => []TimersConsistent
<1>1. TimersInvariant => TimersConsistent
  BY DEF TimersInvariant
<1> QED BY <1>1, AlwaysTimersInvariant, PTL

\* CTimers uses what it had deleted for no other reason than a function that kills its own
\* timer, a timer set without an id left, or one whose parent a script has set.
THEOREM TimersFaultsExplained == Spec => []FaultsExplained
<1>1. TimersInvariant => FaultsExplained
  BY DEF TimersInvariant
<1> QED BY <1>1, AlwaysTimersInvariant, PTL

\* Only the walk calls functions, and only of the timer it stands on, when that is due.
LEMMA VisitCalls ==
  ASSUME TimersInvariant, Next, NEW t \in Timer, ~Calling(t), Calling(t)'
  PROVE  /\ fault = "none" /\ walk.pc = "timer" /\ walk.timer = t /\ Due(t)
         /\ state[t] = "live" /\ timer[t].owner = walk.resource /\ walk.resource \in running
         /\ t \in listed
<1> USE DEF TimersInvariant, TimersConsistent
<1>1. walk' # walk
  BY DEF Calling
<1>2. walk'.pc = "call" /\ walk'.timer = t
  BY DEF Calling
<1>3. ~BeginPass /\ ~EndPass
  BY <1>2 DEF BeginPass, EndPass, AtResource, Idle
<1>4. ~EnterResource
  <2> SUFFICES ASSUME EnterResource PROVE FALSE
    OBVIOUS
  <2>1. walk.resource \in Resource /\ 0 \in 0 .. MaxTimers /\ fault = "none"
    BY DEF EnterResource
  <2>2. Advance(walk.resource, 0).pc # "call"
    BY <2>1, AdvanceFits
  <2> QED BY <1>2, <2>2 DEF EnterResource, AtResource
<1>5. ~Return
  <2> SUFFICES ASSUME Return PROVE FALSE
    OBVIOUS
  <2>1. fault = "none" /\ walk.pc = "call" /\ state[walk.timer] = "live"
    BY <1>1 DEF Return
  <2>2. walk.resource \in Resource /\ walk.timer \in 0 .. MaxTimers
    BY <2>1, WalkIsAt
  <2>3. walk' = Advance(walk.resource, walk.timer)
    BY <2>1 DEF Return
  <2>4. Advance(walk.resource, walk.timer).pc # "call"
    BY <2>1, <2>2, AdvanceFits
  <2> QED BY <1>2, <2>3, <2>4
<1>6. Visit
  <2>1. ASSUME NEW r, NEW T, DeleteEntity(r, T) PROVE FALSE
    BY <1>1, <2>1 DEF DeleteEntity
  <2>2. ASSUME NEW r, NEW u, NEW p, SetParent(r, u, p) PROVE FALSE
    BY <1>1, <2>2 DEF SetParent
  <2>3. ASSUME NEW r, NEW T, Stop(r, T) PROVE FALSE
    BY <1>1, <2>3 DEF Stop
  <2>4. ASSUME NEW r, NEW u, NEW i, NEW n, SetTimer(r, u, i, n) PROVE FALSE
    BY <1>1, <2>4 DEF SetTimer
  <2>5. ASSUME NEW r, NEW u, KillTimer(r, u) \/ ResetTimer(r, u) PROVE FALSE
    BY <1>1, <2>5 DEF KillTimer, ResetTimer
  <2>6. ASSUME NEW r, StartResource(r) \/ StopResource(r) PROVE FALSE
    BY <1>1, <2>3, <2>6 DEF StartResource, StopResource
  <2>7. ~StartReturns /\ ~StartFails /\ ~Tick
    BY <1>1, <2>3 DEF StartReturns, StartFails, Tick
  <2> QED BY <1>3, <1>4, <1>5, <2>1, <2>2, <2>4, <2>5, <2>6, <2>7 DEF Next
<1>7. fault = "none" /\ walk.pc = "timer"
  BY <1>6 DEF Visit
<1>8. /\ walk.resource \in Resource /\ walk.timer \in 0 .. MaxTimers
      /\ walk.timer \in Of(walk.resource) /\ timer[walk.timer].owner = walk.resource
      /\ walk.resource \in running
  BY <1>7, WalkIsAt DEF Of
<1>9. walk' # Advance(walk.resource, walk.timer)
  <2>1. Advance(walk.resource, walk.timer).pc # "call"
    BY <1>7, <1>8, AdvanceFits
  <2> QED BY <1>2, <2>1
<1>10. /\ state[walk.timer] = "live" /\ Due(walk.timer)
       /\ walk' = [walk EXCEPT !.pc = "call"]
  BY <1>1, <1>6, <1>9 DEF Visit
<1>11. walk'.timer = walk.timer
  BY <1>10 DEF TypeOK, Place
<1> QED BY <1>2, <1>7, <1>8, <1>10, <1>11 DEF Of

\* CTimers::Process runs a timer while it exists and its resource runs, and once in a walk.
THEOREM TimersRunLiveOnce == Spec => RunsLiveOnce
<1>1. ASSUME TimersInvariant, [Next]_vars, NEW t \in Timer, ~Calling(t), Calling(t)'
      PROVE  /\ state[t] = "live" /\ timer[t].owner = walk.resource
             /\ walk.resource \in running /\ t \notin visited
  <2>1. Next
    BY <1>1 DEF vars, Calling
  <2>2. /\ fault = "none" /\ walk.pc = "timer" /\ walk.timer = t
        /\ state[t] = "live" /\ timer[t].owner = walk.resource /\ walk.resource \in running
        /\ t \in listed
    BY <1>1, <2>1, VisitCalls
  <2>3. t \in listed /\ t \in Nat /\ timer[t].owner \in Nat
    <3>1. TypeOK
      BY <1>1 DEF TimersInvariant, TimersConsistent
    <3>2. timer[t] \in Members
      BY <3>1 DEF TypeOK
    <3>3. timer[t].owner \in Nat
      BY <3>2 DEF Members
    <3> QED BY <2>2, <3>1, <3>3 DEF Live
  <2>4. t \notin visited
    BY <1>1, <2>2, <2>3 DEF TimersInvariant, Behind
  <2> QED BY <2>2, <2>4
<1>2. TimersInvariant /\ [Next]_vars =>
        [\A t \in Timer : ~Calling(t) /\ Calling(t)' =>
           /\ state[t] = "live" /\ timer[t].owner = walk.resource /\ walk.resource \in running
           /\ t \notin visited]_vars
  BY <1>1
<1> QED BY <1>2, AlwaysTimersInvariant, PTL DEF Spec, RunsLiveOnce

\* CTimer::Process lets the interval of a timer pass between two runs, and after a reset, in
\* both builds, but for what happens when the clock starts over.
THEOREM TimersIntervalPasses == Spec => IntervalPasses
<1>1. ASSUME TimersInvariant, [Next]_vars, NEW t \in Timer, ~Calling(t), Calling(t)'
      PROVE  \/ waited[t] >= timer[t].interval
             \/ clock < ulTime
             \/ ~wide /\ timer[t].next < timer[t].interval
  <2>1. Next
    BY <1>1 DEF vars, Calling
  <2>2. state[t] = "live" /\ ulTime >= timer[t].next
    BY <1>1, <2>1, VisitCalls DEF Due
  <2>3. \/ waited[t] >= timer[t].interval
        \/ clock + timer[t].interval <= timer[t].next + waited[t]
        \/ ~wide /\ timer[t].next < timer[t].interval
    BY <1>1, <2>2 DEF TimersInvariant, TimesAhead, Live
  <2>4. /\ clock \in Int /\ ulTime \in Int /\ waited[t] \in Int
        /\ timer[t].interval \in Int /\ timer[t].next \in Int
    BY <1>1 DEF TimersInvariant, TimersConsistent, TypeOK, Members
  <2> QED BY <2>2, <2>3, <2>4
<1>2. TimersInvariant /\ [Next]_vars =>
        [\A t \in Timer : ~Calling(t) /\ Calling(t)' =>
           \/ waited[t] >= timer[t].interval
           \/ clock < ulTime
           \/ ~wide /\ timer[t].next < timer[t].interval]_vars
  BY <1>1
<1> QED BY <1>2, AlwaysTimersInvariant, PTL DEF Spec, IntervalPasses
=============================================================================
