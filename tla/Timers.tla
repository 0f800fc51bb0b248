------------------------------- MODULE Timers -------------------------------
(***************************************************************************)
(* The timers of script resources.  Once a frame the resource manager walks*)
(* over the resources and CTimers::Process over the list of each, calling  *)
(* the function of every timer that is due; that function, and the scripts *)
(* it calls, may set, reset, kill and move timers, and start resources,    *)
(* while the walk is under way.                                            *)
(*                                                                         *)
(* Timers are numbered in the order they are made, the order of the lists  *)
(* they are pushed to the back of.  The clock counts modulo Wrap (2^32 ms).*)
(***************************************************************************)
EXTENDS Integers, FiniteSets

CONSTANTS
  MaxResources,  \* resources, numbered in the order of m_pResources
  MaxTimers,     \* bound: timers made in a behaviour
  Ids,           \* the numbers of entity ids there may be for timers
  Intervals,     \* the intervals scripts ask for, in ticks; none is zero (50 ms)
  Repeats,       \* the numbers of runs scripts ask for; 0 for no end
  Wrap,          \* the value the clock does not reach
  MaxStep,       \* the longest frame, in ticks
  Builds,        \* TRUE where unsigned long is wider than the clock, FALSE where not
  MaxActs        \* bound: calls of natives, starts and stops in a behaviour

ASSUME TimersAssumption ==
  /\ MaxResources \in Nat /\ MaxTimers \in Nat /\ Ids \subseteq Nat /\ MaxActs \in Nat
  /\ Wrap \in Nat \ {0} /\ MaxStep \in 1 .. Wrap - 1
  /\ Intervals \subseteq 1 .. Wrap
  /\ Repeats \subseteq Nat
  /\ Builds \subseteq BOOLEAN

Resource == 1 .. MaxResources
Timer    == 1 .. MaxTimers

VARIABLES
  wide,     \* which build runs; it never changes
  ids,      \* how many ids there are for timers; it never changes
  clock,    \* SharedUtility::GetTime
  ticked,   \* the clock has moved on since the last walk began
  ulTime,   \* the time Process was called with; 0 outside of a walk
  running,  \* the resources in STATE_RUNNING
  starting, \* the resource whose Start has not returned; 0 for none
  state,    \* of each timer object: not made yet, live, or how it was deleted
  timer,    \* the members of each timer
  listed,   \* the timers in a m_pTimers; owner says in whose
  leaked,   \* timers without an id, that only the tree of entities knows
  walk,     \* where the walk over resources and timers is
  acts,     \* calls of natives, starts and stops so far
  fault,    \* the code has used what it had deleted: undefined from here on
  visited,  \* history: the timers the walk has come to
  runs,     \* history: how often each was run, up to one more than asked
  waited,   \* history: ticks since the last Reset of each, up to its interval
  moved     \* history: the timers a script has given another parent

clockVars == <<wide, ids, clock, ticked>>
scripts   == <<running, starting, state, timer, listed, leaked>>
history   == <<visited, runs, waited, moved>>
vars == <<clockVars, ulTime, scripts, walk, acts, fault, history>>

Live == {t \in Timer : state[t] = "live"}
Of(r) == {t \in listed : timer[t].owner = r}

\* The timer after t in the list of r, or the first one for t = 0.
After(r, t) == {u \in Of(r) : u > t /\ \A v \in Of(r) : v > t => u <= v}

Idle        == [pc |-> "idle", resource |-> 0, timer |-> 0]
AtResource(r) == [pc |-> "resource", resource |-> r, timer |-> 0]
\* iter++, or the iterator past the end and on to the next resource.
Advance_FromBegin(r, t) ==
  IF Of(r) = {} THEN AtResource(r + 1)
  ELSE [pc |-> "timer", resource |-> r, timer |-> CHOOSE u \in After(r, 0) : TRUE]
Advance(r, t) ==
  IF After(r, t) = {} THEN AtResource(r + 1)
  ELSE [pc |-> "timer", resource |-> r, timer |-> CHOOSE u \in After(r, t) : TRUE]
Calling(t) == walk.pc = "call" /\ walk.timer = t

\* The parent of a timer: a resource, or Elsewhere for any other entity.
Elsewhere == 0

\* A deleted timer is no more than what it had been asked for, and by whom.
NoTimer == [owner |-> 0, parent |-> 0, interval |-> 1, repeat |-> 0, asked |-> 0,
            next |-> 0]
Deleted(T) ==
  [t \in Timer |-> IF t \in T THEN [NoTimer EXCEPT !.owner = timer[t].owner,
                                                !.asked = timer[t].asked]
                  ELSE timer[t]]

\* Timers that may be below an entity that is deleted.
Below == {t \in Live : timer[t].parent = Elsewhere}

\* The timers of S are deleted, and those of T with the entities they are below;
\* no list is told of the latter.
Delete(S, how, T) ==
  /\ state' = [t \in Timer |-> IF t \in S THEN how ELSE IF t \in T THEN "deleted"
                              ELSE state[t]]
  /\ timer' = Deleted(S \cup T)
  /\ waited' = [t \in Timer |-> IF t \in S \cup T THEN 0 ELSE waited[t]]

\* A timer in no list is one whose resource has stopped since: its function belongs
\* to a VM that is closed.
FaultOf(T) == IF T \subseteq listed THEN "none" ELSE "function"

Init ==
  /\ wide \in Builds /\ ids \in Ids
  /\ clock \in 0 .. Wrap - 1
  /\ ticked = FALSE
  /\ ulTime = 0
  /\ running \in SUBSET Resource
  /\ starting = 0
  /\ state = [t \in Timer |-> "none"]
  /\ timer = [t \in Timer |-> NoTimer]
  /\ listed = {}
  /\ leaked = {}
  /\ walk = Idle
  /\ acts = 0
  /\ fault = "none"
  /\ visited = {}
  /\ runs = [t \in Timer |-> 0]
  /\ waited = [t \in Timer |-> 0]
  /\ moved = {}

-----------------------------------------------------------------------------
(* The clock *)

\* A frame takes some ticks of the clock: the main loop sleeps, and scripts take
\* their time.
Waited(t, d) ==
  IF t \notin Live THEN waited[t]
  ELSE IF waited[t] + d < timer[t].interval THEN waited[t] + d ELSE timer[t].interval
Tick ==
  /\ fault = "none"
  /\ ~ticked
  /\ walk.pc \in {"idle", "call"}
  /\ ticked' = TRUE
  /\ \E d \in 1 .. MaxStep :
       /\ clock' = (clock + d) % Wrap
       /\ waited' = [t \in Timer |-> Waited(t, d)]
  /\ UNCHANGED <<wide, ids, ulTime, scripts, walk, acts, fault, visited, runs, moved>>

\* CTimer::Reset: m_ulNextExecution is an unsigned long, the clock a DWORD.
NextExecution(i) == IF wide THEN clock + i ELSE (clock + i) % Wrap

-----------------------------------------------------------------------------
(* The walk: CResourceManager::Process, CResource::Process, CTimers::Process *)

BeginPass ==
  /\ fault = "none"
  /\ walk.pc = "idle" /\ starting = 0
  /\ ulTime' = clock
  /\ ticked' = FALSE
  /\ walk' = AtResource(1)
  /\ UNCHANGED <<wide, ids, clock, scripts, acts, fault, history>>

\* A resource that does not run is passed over.
EnterResource_StopsAtStopped ==
  /\ fault = "none"
  /\ walk.pc = "resource"
  /\ walk.resource \in Resource
  /\ walk' = IF walk.resource \in running THEN Advance(walk.resource, 0)
             ELSE AtResource(MaxResources + 1)
  /\ UNCHANGED <<clockVars, ulTime, scripts, acts, fault, history>>
EnterResource ==
  /\ fault = "none"
  /\ walk.pc = "resource"
  /\ walk.resource \in Resource
  /\ walk' = IF walk.resource \in running THEN Advance(walk.resource, 0)
             ELSE AtResource(walk.resource + 1)
  /\ UNCHANGED <<clockVars, ulTime, scripts, acts, fault, history>>

EndPass ==
  /\ fault = "none"
  /\ walk = AtResource(MaxResources + 1)
  /\ walk' = Idle
  /\ ulTime' = 0
  /\ visited' = {}
  /\ UNCHANGED <<clockVars, scripts, acts, fault, runs, waited, moved>>

\* CTimer::Process up to the call of the function, in the VM of the parent.  A timer
\* that was deleted with what it was below is used, and so is a parent that is no
\* resource or has no VM.
Due(t) == ulTime >= timer[t].next
Visit ==
  /\ fault = "none"
  /\ walk.pc = "timer"
  /\ visited' = visited \cup {walk.timer}
  /\ LET t == walk.timer
     IN \/ /\ state[t] # "live"
           /\ fault' = "object"
           /\ UNCHANGED <<walk, runs>>
        \/ /\ state[t] = "live" /\ ~Due(t)
           /\ walk' = Advance(walk.resource, t)
           /\ UNCHANGED <<runs, fault>>
        \/ /\ state[t] = "live" /\ Due(t) /\ timer[t].parent \notin running
           /\ fault' = "parent"
           /\ UNCHANGED <<walk, runs>>
        \/ /\ state[t] = "live" /\ Due(t) /\ timer[t].parent \in running
           /\ walk' = [walk EXCEPT !.pc = "call"]
           /\ runs' = [runs EXCEPT ![t] = IF @ <= timer[t].asked THEN @ + 1 ELSE @]
           /\ UNCHANGED fault
  /\ UNCHANGED <<clockVars, ulTime, scripts, acts, waited, moved>>

\* What CTimer::Process does after the call: Reset, and one run less to go.
AfterRun_NoReset(t) == [timer[t] EXCEPT !.repeat = IF @ > 1 THEN @ - 1 ELSE @]
AfterRun(t) == [timer[t] EXCEPT !.next = NextExecution(timer[t].interval),
                                !.repeat = IF @ > 1 THEN @ - 1 ELSE @]
LastRun_AtZero(t) == timer[t].repeat = 0
LastRun(t) == timer[t].repeat = 1

\* The function returns, and the timer is deleted and erased after its last run.
\* A timer that was killed or deleted meanwhile is used, and its place in the list.
Return ==
  /\ fault = "none"
  /\ walk.pc = "call" /\ starting = 0
  /\ LET t == walk.timer
     IN \/ /\ state[t] # "live"
           /\ fault' = "iterator"
           /\ UNCHANGED <<scripts, walk, waited>>
        \/ /\ state[t] = "live" /\ ~LastRun(t)
           /\ timer' = [timer EXCEPT ![t] = AfterRun(t)]
           /\ waited' = [waited EXCEPT ![t] = 0]
           /\ walk' = Advance(walk.resource, t)
           /\ UNCHANGED <<running, starting, state, listed, leaked, fault>>
        \/ /\ state[t] = "live" /\ LastRun(t)
           /\ \E T \in SUBSET (Below \ {t}) :
                Delete({t}, "done", T) /\ fault' = FaultOf(T)
           /\ listed' = listed \ {t}
           /\ walk' = Advance(walk.resource, t)
           /\ UNCHANGED <<running, starting, leaked>>
  /\ UNCHANGED <<clockVars, ulTime, acts, visited, runs, moved>>

-----------------------------------------------------------------------------
(* Natives: called by the function of a timer, or by a handler between frames *)

Script(r) ==
  /\ fault = "none"
  /\ walk.pc \in {"idle", "call"}
  /\ r \in running
  /\ acts < MaxActs
  /\ acts' = acts + 1

\* setTimer.  Without an id CTimers::Add returns NULL: the timer stays below its
\* resource, and the native deletes the arguments it points at.
SetTimer(r, t, i, n) ==
  /\ Script(r)
  /\ state[t] = "none" /\ \A u \in Timer : u < t => state[u] # "none"
  /\ timer' = [timer EXCEPT ![t] =
       [owner |-> r, parent |-> r, interval |-> i, repeat |-> n, asked |-> n,
        next |-> NextExecution(i)]]
  /\ waited' = [waited EXCEPT ![t] = 0]
  /\ IF Cardinality(Live) < ids
     THEN /\ state' = [state EXCEPT ![t] = "live"]
          /\ listed' = listed \cup {t}
          /\ UNCHANGED leaked
     ELSE /\ state' = [state EXCEPT ![t] = "leaked"]
          /\ leaked' = leaked \cup {t}
          /\ UNCHANGED listed
  /\ UNCHANGED <<clockVars, ulTime, running, starting, walk, fault, visited, runs, moved>>

\* resetTimer: of any resource, by any script.
ResetTimer(r, t) ==
  /\ Script(r)
  /\ t \in Live
  /\ timer' = [timer EXCEPT ![t].next = NextExecution(timer[t].interval)]
  /\ waited' = [waited EXCEPT ![t] = 0]
  /\ UNCHANGED <<clockVars, ulTime, running, starting, state, listed, leaked, walk, fault,
                 visited, runs, moved>>

\* killTimer: CTimers::Remove looks in the list of the calling resource alone.
KillTimer(r, t) ==
  /\ Script(r)
  /\ t \in Live
  /\ IF t \in Of(r)
     THEN /\ \E T \in SUBSET (Below \ {t}) :
               Delete({t}, "killed", T) /\ fault' = FaultOf(T)
          /\ listed' = listed \ {t}
     ELSE UNCHANGED <<state, listed, timer, waited, fault>>
  /\ UNCHANGED <<clockVars, ulTime, running, starting, leaked, walk, visited, runs, moved>>

\* setEntityParent: CTimer::SetParent would refuse, but CEntity's is not virtual.
SetParent(r, t, p) ==
  /\ Script(r)
  /\ t \in Live /\ p # timer[t].parent
  /\ timer' = [timer EXCEPT ![t].parent = p]
  /\ moved' = moved \cup {t}
  /\ UNCHANGED <<clockVars, ulTime, running, starting, state, listed, leaked, walk, fault,
                 visited, runs, waited>>

\* deleteEntity, of an entity with the timers T below it; or its like for a player
\* or a vehicle.
DeleteEntity(r, T) ==
  /\ fault = "none"
  /\ walk.pc \in {"idle", "call"}
  /\ r \in running /\ T # {}
  /\ Delete({}, "deleted", T)
  /\ fault' = FaultOf(T)
  /\ UNCHANGED <<clockVars, ulTime, running, starting, listed, leaked, walk, acts, visited,
                 runs, moved>>

-----------------------------------------------------------------------------
(* Resources *)

Acts == fault = "none" /\ acts < MaxActs /\ acts' = acts + 1

\* CResource::Start up to its scripts.  One start at a time: what starts do to one
\* another is the subject of ResourceManager.
StartResource(r) ==
  /\ Acts
  /\ walk.pc \in {"idle", "call"}
  /\ r \notin running /\ starting = 0
  /\ running' = running \cup {r}
  /\ starting' = r
  /\ UNCHANGED <<clockVars, ulTime, state, timer, listed, leaked, walk, fault, history>>

StartReturns ==
  /\ fault = "none"
  /\ starting # 0
  /\ starting' = 0
  /\ UNCHANGED <<clockVars, ulTime, running, state, timer, listed, leaked, walk, acts, fault,
                 history>>

\* CResource::Stop: the list goes, and DeleteAllChildren deletes the timers below the
\* resource, T those below other entities of it.  A leaked one deletes the arguments
\* that were deleted when it was set.
Stop(r, T) ==
  LET S == {t \in Live : timer[t].parent = r}
  IN /\ running' = running \ {r}
     /\ listed' = listed \ Of(r)
     /\ Delete(S \cap Of(r), "stopped", (S \ Of(r)) \cup T)
     /\ fault' = IF \E t \in leaked : timer[t].owner = r THEN "arguments"
                 ELSE FaultOf(S \cup T)
     /\ UNCHANGED <<clockVars, ulTime, leaked, walk, visited, runs, moved>>

\* A script or resourceStart fails, and Start calls Stop at once.
StartFails ==
  /\ fault = "none"
  /\ starting # 0
  /\ starting' = 0
  /\ \E T \in SUBSET Below : Stop(starting, T)
  /\ UNCHANGED acts

\* Other stops are queued and carried out after the walk.
BetweenWalks_OrAtOnce == walk.pc \in {"idle", "call"}
BetweenWalks == walk.pc = "idle"

StopResource(r) ==
  /\ Acts
  /\ BetweenWalks
  /\ r \in running /\ starting = 0
  /\ \E T \in SUBSET Below : Stop(r, T)
  /\ UNCHANGED starting

Next ==
  \/ Tick
  \/ BeginPass
  \/ EnterResource
  \/ EndPass
  \/ Visit
  \/ Return
  \/ \E r \in Resource, t \in Timer :
       \/ \E i \in Intervals, n \in Repeats : SetTimer(r, t, i, n)
       \/ ResetTimer(r, t)
       \/ KillTimer(r, t)
       \/ \E p \in Resource \cup {Elsewhere} : SetParent(r, t, p)
  \/ \E r \in Resource :
       \/ \E T \in SUBSET Below : DeleteEntity(r, T)
       \/ StartResource(r)
       \/ StopResource(r)
  \/ StartReturns
  \/ StartFails

Spec == Init /\ [][Next]_vars

\* The main loop goes on, functions and scripts return, and the clock does not stand
\* still.
FairSpec == Spec /\ SF_vars(Tick) /\ WF_vars(BeginPass) /\ WF_vars(EnterResource)
                 /\ WF_vars(Visit) /\ WF_vars(Return) /\ WF_vars(EndPass)
                 /\ WF_vars(StartReturns \/ StartFails)

-----------------------------------------------------------------------------
(* Properties *)

Place == [pc : {"idle", "resource", "timer", "call"},
          resource : 0 .. MaxResources + 1, timer : 0 .. MaxTimers]
Members == [owner : 0 .. MaxResources, parent : 0 .. MaxResources, interval : 1 .. Wrap,
            repeat : Nat, asked : Nat,
            next : 0 .. (IF wide THEN 2 * Wrap ELSE Wrap - 1)]

\* The clock and the times stay in their types, and the walk inside the tables.
TypeOK ==
  /\ wide \in Builds /\ ids \in Ids
  /\ clock \in 0 .. Wrap - 1 /\ ulTime \in 0 .. Wrap - 1
  /\ ticked \in BOOLEAN
  /\ running \subseteq Resource
  /\ starting \in 0 .. MaxResources
  /\ state \in [Timer -> {"none", "live", "leaked", "done", "killed", "stopped", "deleted"}]
  /\ timer \in [Timer -> Members]
  /\ listed \subseteq Timer /\ leaked \subseteq Timer
  /\ walk \in Place
  /\ acts \in 0 .. MaxActs
  /\ fault \in {"none", "iterator", "object", "parent", "function", "arguments"}
  /\ visited \subseteq Timer
  /\ runs \in [Timer -> Nat]
  /\ waited \in [Timer -> 0 .. Wrap]
  /\ moved \subseteq Timer

\* The lists hold the timers that exist and no other, of running resources, but for
\* timers whose parent a script has set; and the walk stands on one of them, unless its
\* own function has just killed it.
ListsHoldLive ==
  fault = "none" =>
    /\ \A t \in Timer \ moved :
         /\ t \in listed <=> t \in Live
         /\ t \in Live => timer[t].parent = timer[t].owner
    /\ \A t \in listed : timer[t].owner \in running /\ state[t] \in {"live", "deleted"}
    /\ walk.pc = "timer" => walk.timer \in Of(walk.resource)
    /\ walk.pc = "call" =>
         \/ walk.timer \in Of(walk.resource)
         \/ state[walk.timer] = "killed"

\* A timer runs as often as it was asked to, however it is reset and whatever else is
\* removed around it: the runs and what is left make up what was asked for.
RunsAsAsked ==
  fault = "none" => \A t \in Timer :
    /\ state[t] = "done" => runs[t] = timer[t].asked
    /\ state[t] = "live" /\ timer[t].asked > 0 =>
         runs[t] + timer[t].repeat = timer[t].asked + (IF Calling(t) THEN 1 ELSE 0)

\* Whatever scripts do to timers during a walk, the lists, the objects and the runs
\* that are left go together (CTimers::Process, Add and Remove, CTimer::Process).
TimersConsistent == TypeOK /\ ListsHoldLive /\ RunsAsAsked

\* What goes wrong goes wrong for one of three reasons: a function that kills its own
\* timer, a timer that was set when there were no ids left, or a timer whose parent a
\* script has set, which CTimer::SetParent was to refuse.
FaultsExplained ==
  /\ fault = "iterator" =>
       walk.pc = "call" /\ (state[walk.timer] = "killed" \/ walk.timer \in moved)
  /\ fault \in {"object", "parent"} => walk.pc = "timer" /\ walk.timer \in moved
  /\ fault = "function" => moved # {}
  /\ fault = "arguments" => leaked # {} /\ ids < MaxTimers

\* A timer that is due is run while it exists, its resource runs, and it has not been
\* come to in this frame.
RunsLiveOnce ==
  [][\A t \in Timer : ~Calling(t) /\ Calling(t)' =>
       /\ state[t] = "live" /\ timer[t].owner = walk.resource /\ walk.resource \in running
       /\ t \notin visited]_vars

\* Between two runs, or after a reset, the interval passes; but not when the clock
\* starts over: then the sum is smaller than the clock, or the time of the walk larger.
IntervalPasses ==
  [][\A t \in Timer : ~Calling(t) /\ Calling(t)' =>
       \/ waited[t] >= timer[t].interval
       \/ clock < ulTime
       \/ ~wide /\ timer[t].next < timer[t].interval]_vars

\* A timer in a list whose time the clock reaches runs, unless it is removed or reset.
\* With a wide unsigned long a time can be past the end of the clock; that timer never
\* runs.  Nor does one whose time is less than a frame from the end: a frame can begin
\* before that time and the next one after the clock has started over.
InReach(t) == t \in listed /\ state[t] = "live" /\ timer[t].next + MaxStep <= Wrap
TimersRun ==
  \A t \in Timer : InReach(t) ~> (Calling(t) \/ ~InReach(t) \/ fault # "none")
=============================================================================
