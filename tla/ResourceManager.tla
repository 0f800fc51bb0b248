--------------------------- MODULE ResourceManager ---------------------------
(***************************************************************************)
(* Script resources: how they are loaded, started, stopped and restarted   *)
(* while scripts run, and why stops are put off.                           *)
(*                                                                         *)
(* Everything runs on the main thread, but scripts call natives and natives*)
(* run scripts, so what interleaves is the call stack.  A resource's       *)
(* Squirrel VM, its timers and its event handlers come and go together;    *)
(* what scripts do with them is left open.                                 *)
(***************************************************************************)
EXTENDS Integers, Sequences, FiniteSets

CONSTANTS
  Resource,  \* resources that have a directory and a valid meta.xml
  Boot,      \* the ones Server.conf names
  MaxDepth   \* bound: calls nested in one another

ASSUME ResourceManagerAssumption ==
  /\ Boot \subseteq Resource
  /\ MaxDepth \in Nat \ {0}

\* STATE_STARTUP_CANCELLED only lasts from a failed start to its Stop, in one step.
State == {"unknown", "loaded", "running"}

\* What is on the call stack: a script of a resource run by a timer or an event,
\* its script files being loaded, the events of its start and of its stop.
Frame == [kind : {"script", "loading", "starting", "stopping"}, res : Resource,
          ok : BOOLEAN]
Call(kind, r) == [kind |-> kind, res |-> r, ok |-> TRUE]

Item == [res : Resource, type : {"stop", "restart"}]

VARIABLES
  state,     \* m_eState; "unknown" without an object in m_pResources
  vm,        \* resources whose m_pVM and m_pTimers exist
  handlers,  \* resources with an event handler below the root entity
  stack,     \* the calls under way, innermost first
  queue,     \* m_pResourceQueue
  pos,       \* the item Process is at, 0 while it is not at the queue
  boot       \* resources OnLoad has yet to load

vars == <<state, vm, handlers, stack, queue, pos, boot>>

Init ==
  /\ state = [r \in Resource |-> "unknown"]
  /\ vm = {}
  /\ handlers = {}
  /\ stack = <<>>
  /\ queue = <<>>
  /\ pos = 0
  /\ boot = Boot

-----------------------------------------------------------------------------
(* Helpers *)

Top == Head(stack)
Below == Tail(stack)
Running(kinds) == stack # <<>> /\ Top.kind \in kinds
Scheduled(r) == \E i \in DOMAIN queue : queue[i].res = r

\* CResource::Start up to the loading of the scripts, on top of the calls s.
BeginStart(r, s) ==
  /\ state' = [state EXCEPT ![r] = "running"]
  /\ vm' = vm \cup {r}
  /\ stack' = <<Call("loading", r)>> \o s
  /\ UNCHANGED handlers

\* CResource::Stop after its event: handlers, timers, entities and VM are gone.
Teardown_KeepsHandlers(r, s) ==
  /\ state' = [state EXCEPT ![r] = s]
  /\ vm' = vm \ {r}
  /\ UNCHANGED handlers
Teardown(r, s) ==
  /\ state' = [state EXCEPT ![r] = s]
  /\ vm' = vm \ {r}
  /\ handlers' = handlers \ {r}

-----------------------------------------------------------------------------
(* Loading at startup: CServer::OnLoad, CResourceManager::Load(name, true) *)

BootLoad(r) ==
  /\ stack = <<>>
  /\ r \in boot
  /\ IF state[r] = "unknown" THEN BeginStart(r, <<>>)
     ELSE UNCHANGED <<state, vm, handlers, stack>>
  /\ boot' = IF state[r] = "unknown" THEN boot ELSE boot \ {r}
  /\ UNCHANGED <<queue, pos>>

\* The start of r is the one Load has called for.
BootStart(r) == r \in boot /\ Below = <<>>

-----------------------------------------------------------------------------
(* Scripts and natives *)

\* CTimers::Process of a running resource, or a handler of an event of the
\* server: a player joins, speaks, enters a vehicle, ...
RunScript(r) ==
  /\ stack = <<>> /\ boot = {} /\ pos = 0
  /\ state[r] = "running" \/ r \in handlers
  /\ stack' = <<Call("script", r)>>
  /\ UNCHANGED <<state, vm, handlers, queue, pos, boot>>

\* An event, one of a start or a stop or one called by a script, runs a handler.
CallHandler(r) ==
  /\ stack # <<>>
  /\ Len(stack) < MaxDepth
  /\ r \in handlers
  /\ stack' = <<Call("script", r)>> \o stack
  /\ UNCHANGED <<state, vm, handlers, queue, pos, boot>>

\* A script returns.  A handler that returns false, or fails, cancels the start
\* it is run for; to the other calls the result makes no difference.
ScriptReturns(result) ==
  /\ Running({"script"})
  /\ stack' = IF ~result /\ Below # <<>> /\ Head(Below).kind = "starting"
              THEN [Below EXCEPT ![1].ok = FALSE] ELSE Below
  /\ UNCHANGED <<state, vm, handlers, queue, pos, boot>>

\* addEventHandler
AddHandler ==
  /\ Running({"script", "loading"})
  /\ handlers' = handlers \cup {Top.res}
  /\ UNCHANGED <<state, vm, stack, queue, pos, boot>>

\* removeEventHandler, of the last handler the resource has
RemoveHandler ==
  /\ Running({"script", "loading"})
  /\ handlers' = handlers \ {Top.res}
  /\ UNCHANGED <<state, vm, stack, queue, pos, boot>>

\* getResourceFromName loads what it does not know.
GetFromName(r) ==
  /\ Running({"script", "loading"})
  /\ state[r] = "unknown"
  /\ state' = [state EXCEPT ![r] = "loaded"]
  /\ UNCHANGED <<vm, handlers, stack, queue, pos, boot>>

\* startResource: at once, in the middle of the script that calls it.
Start(r) ==
  /\ Running({"script", "loading"})
  /\ Len(stack) < MaxDepth
  /\ ~Scheduled(r)
  /\ state[r] = "loaded"
  /\ BeginStart(r, stack)
  /\ UNCHANGED <<queue, pos, boot>>

\* stopResource and restartResource put the resource into the queue.
StopOrRestart_AtOnce(r, type) ==
  /\ Running({"script", "loading"})
  /\ state[r] = "running"
  /\ Teardown(r, "loaded")
  /\ UNCHANGED <<stack, queue, pos, boot>>
StopOrRestart(r, type) ==
  /\ Running({"script", "loading"})
  /\ state[r] = "running"
  /\ ~Scheduled(r)
  /\ queue' = Append(queue, [res |-> r, type |-> type])
  /\ UNCHANGED <<state, vm, handlers, stack, pos, boot>>

-----------------------------------------------------------------------------
(* The rest of CResource::Start *)

\* The scripts are loaded: the resourceStart event.
ScriptsLoaded ==
  /\ Running({"loading"})
  /\ stack' = <<Call("starting", Top.res)>> \o Below
  /\ UNCHANGED <<state, vm, handlers, queue, pos, boot>>

\* A script fails to load, or the event is cancelled: Stop() at once, and Load
\* deletes the resource it has just made.
StartFails ==
  /\ Running({"loading", "starting"})
  /\ Top.kind = "starting" => ~Top.ok
  /\ Teardown(Top.res, IF BootStart(Top.res) THEN "unknown" ELSE "loaded")
  /\ stack' = Below
  /\ boot' = IF BootStart(Top.res) THEN boot \ {Top.res} ELSE boot
  /\ UNCHANGED <<queue, pos>>

Started ==
  /\ Running({"starting"})
  /\ Top.ok
  /\ stack' = Below
  /\ boot' = IF BootStart(Top.res) THEN boot \ {Top.res} ELSE boot
  /\ UNCHANGED <<state, vm, handlers, queue, pos>>

-----------------------------------------------------------------------------
(* CResourceManager::Process, the queue *)

AtQueue == stack = <<>> /\ boot = {}

BeginQueue ==
  /\ AtQueue
  /\ pos = 0 /\ queue # <<>>
  /\ pos' = 1
  /\ UNCHANGED <<state, vm, handlers, stack, queue, boot>>

\* The item at pos: CResource::Stop with its event; a resource that is not
\* running any more is passed over.  So is one that Load has deleted: its memory
\* still says STATE_LOADED (see QueuedExist).
BeginStop_TakesItem ==
  /\ AtQueue
  /\ pos \in DOMAIN queue
  /\ queue' = SubSeq(queue, 1, pos - 1) \o SubSeq(queue, pos + 1, Len(queue))
  /\ stack' = IF state[queue[pos].res] = "running"
              THEN <<Call("stopping", queue[pos].res)>> ELSE stack
  /\ UNCHANGED <<state, vm, handlers, pos, boot>>
BeginStop ==
  /\ AtQueue
  /\ pos \in DOMAIN queue
  /\ IF state[queue[pos].res] = "running"
     THEN stack' = <<Call("stopping", queue[pos].res)>> /\ UNCHANGED pos
     ELSE pos' = pos + 1 /\ UNCHANGED stack
  /\ UNCHANGED <<state, vm, handlers, queue, boot>>

\* The event is over; a restart starts the resource again.
Stopped ==
  /\ Running({"stopping"})
  /\ IF queue[pos].type = "restart"
     THEN /\ vm' = vm
          /\ state' = state
          /\ handlers' = handlers \ {Top.res}
          /\ stack' = <<Call("loading", Top.res)>>
     ELSE /\ Teardown(Top.res, "loaded")
          /\ stack' = <<>>
  /\ pos' = pos + 1
  /\ UNCHANGED <<queue, boot>>

\* Items added by the events above are handled in the same pass.
ClearQueue_Early ==
  /\ AtQueue
  /\ pos > 1
  /\ queue' = <<>>
  /\ pos' = 0
  /\ UNCHANGED <<state, vm, handlers, stack, boot>>
ClearQueue ==
  /\ AtQueue
  /\ pos > Len(queue)
  /\ pos > 0
  /\ queue' = <<>>
  /\ pos' = 0
  /\ UNCHANGED <<state, vm, handlers, stack, boot>>

-----------------------------------------------------------------------------
Next ==
  \/ \E r \in Resource :
       \/ BootLoad(r) \/ RunScript(r) \/ CallHandler(r) \/ GetFromName(r) \/ Start(r)
       \/ StopOrRestart(r, "stop") \/ StopOrRestart(r, "restart")
  \/ \E result \in BOOLEAN : ScriptReturns(result)
  \/ AddHandler \/ RemoveHandler \/ ScriptsLoaded \/ StartFails \/ Started
  \/ BeginQueue \/ BeginStop \/ Stopped \/ ClearQueue

Spec == Init /\ [][Next]_vars

\* Every frame of the main loop comes to the queue, and works it off.  Scripts
\* return, the calls they make inside one another as well.
Ends == (\E result \in BOOLEAN : ScriptReturns(result)) \/ ScriptsLoaded \/ StartFails
        \/ Started \/ Stopped
Fairness ==
  /\ SF_vars(BeginQueue) /\ SF_vars(BeginStop) /\ SF_vars(ClearQueue)
  /\ WF_vars(\E r \in Resource : BootLoad(r))
  /\ \A d \in 1 .. MaxDepth : SF_vars(Len(stack) = d /\ Ends)

FairSpec == Spec /\ Fairness

-----------------------------------------------------------------------------
(* Properties *)

\* States, calls and queue entries are ones the code has, and the queue is only
\* worked on from its first entry to one past its last.
TypeOK ==
  /\ state \in [Resource -> State]
  /\ vm \in SUBSET Resource
  /\ handlers \in SUBSET Resource
  /\ stack \in Seq(Frame)
  /\ queue \in Seq(Item)
  /\ pos \in 0 .. Len(queue) + 1
  /\ boot \in SUBSET Boot

\* "calling stopResource(getThisResource()) would delete the Squirrel VM while
\* being used": no resource with a call under way loses its VM, however starts,
\* failing starts, stops and restarts nest.
VMInUse == \A i \in DOMAIN stack : stack[i].res \in vm

\* CEntity::CallEvent and CResource::Process use the VM and the timers without a
\* test: every handler belongs to a resource with a VM, and the running resources
\* are the ones that have one.
ReachableHaveVM ==
  /\ handlers \subseteq vm
  /\ \A r \in Resource : r \in vm <=> state[r] = "running"

\* CResource::Start is not entered twice: below a start there is no other call of
\* the resource, whichever handlers and natives it was reached through, so that
\* Stop may delete the VM when the start fails.
StartAlone ==
  \A i, j \in DOMAIN stack :
    i < j /\ stack[i].kind \in {"loading", "starting"} => stack[j].res # stack[i].res

\* CResourceManager::Process holds an iterator into the queue while a stop runs its
\* event: the entry is still there, and still the one of that resource, whatever
\* the handlers put into the queue.
StopAtItem ==
  \A i \in DOMAIN stack :
    stack[i].kind = "stopping" =>
      pos \in DOMAIN queue /\ queue[pos].res = stack[i].res

\* A stop that was accepted is carried out, also one that a resourceStop handler
\* asks for while the queue is worked off.
StopsHappen ==
  \A r \in Resource :
    (\E i \in DOMAIN queue : queue[i] = [res |-> r, type |-> "stop"])
      ~> state[r] # "running"

\* "at this time, we shouldn't really be in any kind of resource stuff so
\* deleting should be fine": the resources in the queue exist.
QueuedExist == \A i \in DOMAIN queue : state[queue[i].res] # "unknown"
=============================================================================
