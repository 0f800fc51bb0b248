----------------------------- MODULE EntityTree -----------------------------
(***************************************************************************)
(* The tree of entities that scripts act on: ids, parents and children,    *)
(* event handlers, and an event that calls the handlers of an entity, of   *)
(* those above it and of those below it while scripts change all of these. *)
(*                                                                         *)
(* Scripts hold ids, so a native gets any id that is in the table.  Lists  *)
(* that are pushed to the back of are ordered by stamps.                   *)
(***************************************************************************)
EXTENDS Integers, Sequences, FiniteSets, SequencesExt

CONSTANTS
  MaxIds,     \* ids are 1 .. MaxIds (MAX_ENTITIES - 1)
  Resources,  \* the ids of the resources loaded at startup, after the root entity
  Functions,  \* functions a script may make a handler
  MaxActs     \* bound: calls of natives, events, starts and stops in a behaviour

Id   == 1 .. MaxIds
Root == 1

ASSUME EntityTreeAssumption ==
  /\ MaxIds \in Nat /\ MaxActs \in Nat
  /\ Resources = 2 .. Cardinality(Resources) + 1
  /\ Resources \subseteq Id
  /\ 1 \in Id

VARIABLES
  free,      \* CEntityIDs::m_EntityIDs; ids are pushed to and popped from the back
  ent,       \* the entity of each id
  listed,    \* the timers in the m_pTimers of their resource
  running,   \* the resources in STATE_RUNNING
  starting,  \* the resource whose Start has not returned; 0 for none
  since,     \* the stamp at which each resource got its VM
  handlers,  \* m_pEvents of all entities
  stack,     \* the calls of CallEvent for the event under way
  now,       \* the last stamp given
  acts,      \* calls of natives, events, starts and stops so far
  fault,     \* what the code has used after deleting it, or run into without end
  moved,     \* history: entities that scripts have given another parent
  expected,  \* history: handlers there when the event began, not touched since
  called,    \* history: handlers the event has called
  cut        \* history: what the event was passing through has been taken away

resources == <<running, starting, since>>
tree   == <<free, ent, listed, resources, handlers, now>>
event  == <<stack, expected, called, cut>>
vars   == <<tree, event, acts, fault, moved>>

NoEntity == [type |-> "none", parent |-> 0, children |-> {}, stamp |-> 0, creator |-> 0,
             born |-> 0]
Live     == {i \in Id : ent[i].type # "none"}

\* What the managers of resources and timers point at.
Managed == Resources \cup listed

\* e and everything below it: the least set that holds e and the children of its own.
Closed(S) == \A i \in S : ent[i].children \subseteq S
Below(e)  == {i \in Id : \A S \in SUBSET Id : e \in S /\ Closed(S) => i \in S}
Above(e)  == {i \in Id : e \in Below(i)}
Cyclic(e) == \E c \in ent[e].children : e \in Below(c)

\* CEntityIDs::Initalize, after the root and the resources have taken theirs.
InitialFree ==
  [n \in 1 .. MaxIds - 1 - Cardinality(Resources) |-> MaxIds + 1 - n]

Init ==
  /\ free = InitialFree
  /\ ent = [i \in Id |->
       IF i = Root
       THEN [NoEntity EXCEPT !.type = "root", !.children = Resources, !.born = 1]
       ELSE IF i \in Resources
       THEN [NoEntity EXCEPT !.type = "resource", !.parent = Root, !.stamp = i, !.born = i]
       ELSE NoEntity]
  /\ listed = {}
  /\ running \in SUBSET Resources
  /\ starting = 0
  /\ since = [r \in Resources |-> 0]
  /\ handlers = {}
  /\ stack = <<>>
  /\ now = Cardinality(Resources) + 1
  /\ acts = 0
  /\ fault = "none"
  /\ moved = {}
  /\ expected = {} /\ called = {} /\ cut = FALSE

-----------------------------------------------------------------------------
(* Natives of a script of a running resource, between events or in a handler *)

Act == fault = "none" /\ acts < MaxActs /\ acts' = acts + 1
Script(r) ==
  /\ Act
  /\ r \in running
  /\ stack # <<>> => Last(stack).phase = "call"
Fails(f) == fault' = f /\ UNCHANGED <<tree, event, moved>>

Source == Head(stack).entity
Passing == {stack[k].entity : k \in DOMAIN stack}

\* The handler iter2 of CallEvent is at.
UnderCall ==
  {h \in handlers : stack # <<>> /\ h.at = Last(stack).entity /\ h.stamp = Last(stack).pos}

\* A function belongs to the VM it was compiled in, which a stop closes.
HasVM(h) == h.by \in running /\ h.stamp > since[h.by]

\* CEntityIDs::Pop and the constructor.  Without an id the native deletes the
\* entity again; Timers has what becomes of such a timer.
PopId_Kept == free' = free
PopId == free' = Front(free)
CreateEntity(r, type) ==
  /\ Script(r)
  /\ free # <<>>
  /\ PopId
  /\ now' = now + 1
  /\ LET i == Last(free) IN
     /\ ent' = [ent EXCEPT ![i] = [type |-> type, parent |-> r, children |-> {},
                                   stamp |-> now', creator |-> r, born |-> now'],
                           ![r].children = @ \cup {i}]
     /\ listed' = IF type = "timer" THEN listed \cup {i} ELSE listed
  /\ UNCHANGED <<resources, handlers, event, fault, moved>>

\* The orders destructors may end in: children before their parent.
Orders(D) ==
  {s \in [1 .. Cardinality(D) -> D] :
     \A i, j \in DOMAIN s : i < j => s[i] # s[j] /\ s[j] \notin Below(s[i])}
PushIds(D) == \E s \in Orders(D) : free' = free \o s

\* ~CEntity of each entity in D, a branch or what is below an entity.
Without_KeepsChild(D) == [i \in Id |-> IF i \in D THEN NoEntity ELSE ent[i]]
Without(D) ==
  [i \in Id |-> IF i \in D THEN NoEntity ELSE [ent[i] EXCEPT !.children = @ \ D]]
Destroy(D) ==
  /\ PushIds(D)
  /\ ent' = Without(D)
  /\ moved' = moved \ D

\* A branch is deleted, perhaps under an event that is passing through it, and of the
\* handlers elsewhere those of H stay.
DestroyBranch(D, H) ==
  /\ Destroy(D)
  /\ handlers' = {h \in H : h.at \notin D}
  /\ stack' = [k \in DOMAIN stack |->
       IF stack[k].entity \in D THEN [stack[k] EXCEPT !.entity = 0] ELSE stack[k]]
  /\ expected' = {h \in expected \cap H : h.at \notin D}
  /\ cut' = (cut \/ D \cap Passing # {} \/ ~(UnderCall \subseteq H))
  /\ UNCHANGED <<now, called, fault>>

\* What a script may delete of the tree itself.
ScriptDeletes(D) ==
  /\ DestroyBranch(D, handlers)
  /\ listed' = listed \ D
  /\ UNCHANGED resources

\* deleteEntity, for entities of a script's own making alone.
Deletable(e) == ent[e].type = "custom"
DeleteEntity(r, e) ==
  /\ Script(r)
  /\ Deletable(e)
  /\ IF Cyclic(e) THEN Fails("recursion")
     ELSE IF Below(e) \cap Managed # {} THEN Fails("dangling")
     ELSE ScriptDeletes(Below(e))

\* killTimer: the timers of the resource itself.
KillTimer(r, e) ==
  /\ Script(r)
  /\ e \in listed /\ ent[e].creator = r
  /\ IF Cyclic(e) THEN Fails("recursion")
     ELSE IF Below(e) \cap Managed # {e} THEN Fails("dangling")
     ELSE ScriptDeletes(Below(e))

\* setEntityParent calls CEntity::SetParent, which is not virtual, for any entity.
SetParent(r, e, p) ==
  /\ Script(r)
  /\ e \in Live /\ p \in Live
  /\ ent[e].parent # p
  /\ now' = now + 1
  /\ ent' = [i \in Id |-> [ent[i] EXCEPT
       !.parent = IF i = e THEN p ELSE @,
       !.stamp = IF i = e THEN now' ELSE @,
       !.children = IF i = p THEN @ \cup {e} ELSE @ \ {e}]]
  /\ moved' = moved \cup {e}
  /\ expected' = IF stack # <<>> /\ Source \in Below(e) THEN {}
                 ELSE {h \in expected : h.at \notin Below(e)}
  /\ cut' = (cut \/ e \in Passing)
  /\ UNCHANGED <<free, listed, resources, handlers, stack, called, fault>>

\* addEventHandler: not twice the same function of the same resource.
AddEvent(r, e, f) ==
  /\ Script(r)
  /\ e \in Live
  /\ ~\E h \in handlers : h.at = e /\ h.by = r /\ h.function = f /\ HasVM(h)
  /\ now' = now + 1
  /\ handlers' = handlers \cup {[at |-> e, by |-> r, function |-> f, stamp |-> now']}
  /\ UNCHANGED <<free, ent, listed, resources, event, fault, moved>>

\* removeEventHandler; with the last handler of the event the list goes as well.
RemoveEvent(r, h) ==
  /\ Script(r)
  /\ h.by = r /\ HasVM(h)
  /\ handlers' = handlers \ {h}
  /\ expected' = expected \ {h}
  /\ cut' = (cut \/ h \in UnderCall)
  /\ UNCHANGED <<free, ent, listed, resources, stack, now, called, fault, moved>>

-----------------------------------------------------------------------------
(* Resources *)

\* CResource::Start up to its scripts, which may be under the handler of an event.  One
\* start at a time, and no event in it: ResourceManager nests them.
StartResource(q, r) ==
  /\ Script(q)
  /\ r \notin running /\ starting = 0
  /\ running' = running \cup {r}
  /\ starting' = r
  /\ now' = now + 1
  /\ since' = [since EXCEPT ![r] = now']
  /\ UNCHANGED <<free, ent, listed, handlers, event, fault, moved>>

StartReturns ==
  /\ fault = "none"
  /\ starting # 0
  /\ starting' = 0
  /\ UNCHANGED <<free, ent, listed, running, since, handlers, now, event, acts, fault, moved>>

\* CResource::Stop: RemoveEvents from the root down, and DeleteAllChildren; its own
\* timers are not looked at any more.
RemoveEvents_OfItself(r) == {h \in handlers : ~(h.by = r /\ h.at \in Below(r))}
RemoveEvents(r) == {h \in handlers : ~(h.by = r /\ h.at \in Below(Root))}
Stop(r) ==
  LET D   == Below(r) \ {r}
      own == {t \in listed : ent[t].creator = r}
  IN IF Cyclic(Root) \/ Cyclic(r) THEN Fails("recursion")
     ELSE IF D \cap (Managed \ own) # {} THEN Fails("dangling")
     ELSE /\ DestroyBranch(D, RemoveEvents(r))
          /\ listed' = listed \ own
          /\ running' = running \ {r}
          /\ starting' = 0
          /\ UNCHANGED since

\* A script or resourceStart fails, and Start calls Stop at once, be it under an event.
StartFails ==
  /\ fault = "none"
  /\ starting # 0
  /\ Stop(starting)
  /\ UNCHANGED acts

\* Other stops are queued and carried out between events.
StopResource(r) ==
  /\ Act
  /\ stack = <<>> /\ starting = 0
  /\ r \in running
  /\ Stop(r)

-----------------------------------------------------------------------------
(* CallEvent *)

Frame(e, up, down) ==
  [entity |-> e, up |-> up, down |-> down, phase |-> "handlers", pos |-> 0]

\* The first of the list elements S whose stamp comes after n.
After(S, n) == {x \in S : x.stamp > n /\ \A y \in S : y.stamp > n => x.stamp <= y.stamp}
HandlersOf(e) == {h \in handlers : h.at = e}
ChildrenOf(e) == {[id |-> c, stamp |-> ent[c].stamp] : c \in ent[e].children}

Top == Last(stack)
Replace(f) == stack' = Append(Front(stack), f)

CallEvent(e) ==
  /\ Act
  /\ stack = <<>> /\ starting = 0
  /\ e \in Live
  /\ stack' = <<Frame(e, TRUE, TRUE)>>
  /\ expected' = {h \in handlers : h.at \in Below(e) \cup Above(e)}
  /\ called' = {}
  /\ cut' = FALSE
  /\ UNCHANGED <<tree, fault, moved>>

Running(phase) == fault = "none" /\ stack # <<>> /\ Top.phase = phase

\* bCallForParent.
GoesUp_Always(f) == ent[f.entity].parent # 0
GoesUp(f) == f.up /\ ent[f.entity].parent # 0

\* Every handler gets the id of the entity the event was called for.
FaultOfCall(h) ==
  IF ~HasVM(h) THEN "vm" ELSE IF Source = 0 THEN "source" ELSE "none"

\* The next handler, called in the VM of its resource; after the last the call for
\* the parent, and then the children.
NextHandler ==
  /\ Running("handlers")
  /\ LET S == After(HandlersOf(Top.entity), Top.pos) IN
     IF S # {}
     THEN \E h \in S :
            /\ Replace([Top EXCEPT !.phase = "call", !.pos = h.stamp])
            /\ called' = called \cup {h}
            /\ fault' = FaultOfCall(h)
     ELSE LET f == [Top EXCEPT !.phase = "children", !.pos = 0] IN
             /\ stack' = IF GoesUp(Top)
                         THEN Front(stack) \o <<f, Frame(ent[Top.entity].parent, TRUE, FALSE)>>
                         ELSE Append(Front(stack), f)
             /\ fault' = IF Len(stack) > MaxIds + 1 THEN "recursion" ELSE "none"
             /\ UNCHANGED called
  /\ UNCHANGED <<tree, acts, moved, expected, cut>>

\* A handler returns, and iter2 goes on from its place in the list.
HandlerReturns ==
  /\ Running("call") /\ starting = 0
  /\ IF \E h \in handlers : h.at = Top.entity /\ h.stamp = Top.pos
     THEN Replace([Top EXCEPT !.phase = "handlers"]) /\ UNCHANGED fault
     ELSE fault' = "iterator" /\ UNCHANGED stack
  /\ UNCHANGED <<tree, acts, moved, expected, called, cut>>

\* The next child, and the end of a call after the last; with the outermost call
\* the event is over.
Return ==
  /\ stack' = Front(stack)
  /\ IF Len(stack) = 1 THEN expected' = {} /\ called' = {} /\ cut' = FALSE
     ELSE UNCHANGED <<expected, called, cut>>
  /\ UNCHANGED fault
NextChild ==
  /\ Running("children")
  /\ LET e == Top.entity
         S == After(ChildrenOf(e), Top.pos)
     IN IF ~Top.down THEN Return
        ELSE IF e = 0 \/ (Top.pos # 0 /\ ~\E c \in ChildrenOf(e) : c.stamp = Top.pos)
        THEN fault' = "iterator" /\ UNCHANGED event
        ELSE IF S = {} THEN Return
        ELSE /\ \E c \in S :
                  stack' = Front(stack) \o <<[Top EXCEPT !.pos = c.stamp],
                                             Frame(c.id, FALSE, TRUE)>>
             /\ fault' = IF Len(stack) > MaxIds + 1 THEN "recursion" ELSE "none"
             /\ UNCHANGED <<expected, called, cut>>
  /\ UNCHANGED <<tree, acts, moved>>

Next ==
  \/ \E r \in Resources :
       \/ \E type \in {"custom", "timer"} : CreateEntity(r, type)
       \/ \E e \in Id : DeleteEntity(r, e) \/ KillTimer(r, e)
       \/ \E e \in Id, p \in Id : SetParent(r, e, p)
       \/ \E e \in Id, f \in Functions : AddEvent(r, e, f)
       \/ \E h \in handlers : RemoveEvent(r, h)
       \/ \E q \in Resources : StartResource(q, r)
       \/ StopResource(r)
  \/ StartReturns
  \/ StartFails
  \/ \E e \in Id : CallEvent(e)
  \/ NextHandler
  \/ HandlerReturns
  \/ NextChild

Spec == Init /\ [][Next]_vars

-----------------------------------------------------------------------------
(* Properties *)

Entity  == [type : {"none", "root", "resource", "custom", "timer"}, parent : 0 .. MaxIds,
            children : SUBSET Id, stamp : Nat, creator : 0 .. MaxIds, born : Nat]
Handler == [at : Id, by : Resources, function : Functions, stamp : Nat]
Call    == [entity : 0 .. MaxIds, up : BOOLEAN, down : BOOLEAN,
            phase : {"handlers", "call", "children"}, pos : Nat]

\* Ids, parents and calls stay within the table.
TypeOK ==
  /\ free \in Seq(Id)
  /\ ent \in [Id -> Entity]
  /\ listed \subseteq Id /\ running \subseteq Resources
  /\ starting \in {0} \cup running /\ since \in [Resources -> Nat]
  /\ handlers \subseteq Handler
  /\ stack \in Seq(Call)
  /\ now \in Nat /\ acts \in 0 .. MaxActs
  /\ fault \in {"none", "dangling", "recursion", "iterator", "vm", "source"}
  /\ moved \subseteq Id
  /\ expected \subseteq handlers
  /\ cut \in BOOLEAN

\* Parents and children agree, only entities that exist have either, and each
\* timer in a list exists, for whatever scripts do with the tree.
TreeConsistent ==
  /\ \A c \in Id, p \in Id : c \in ent[p].children <=> ent[c].parent = p
  /\ \A i \in Id : ent[i].type = "none" => ent[i].parent = 0 /\ ent[i].children = {}
  /\ \A i \in Live \ {Root} : ent[i].parent \in Live
  /\ Resources \subseteq Live
  /\ \A t \in listed : ent[t].type = "timer" /\ ent[t].creator \in running
  /\ \A h \in handlers : h.at \in Live

\* An id is in use or in the pool, once, and never both.
FreeIds == \A i \in Id : Cardinality({k \in DOMAIN free : free[k] = i})
                           = (IF i \in Live THEN 0 ELSE 1)

\* Whatever scripts create, move, delete and stop, ids, parents and children
\* (CEntityIDs, CEntity::SetParent and ~CEntity) agree with one another.
EntitiesConsistent == TypeOK /\ TreeConsistent /\ FreeIds

\* From its creation to its deletion an entity is the only one with its id:
\* CEntityIDs implements the pool of ids.
Pool == INSTANCE IdPool WITH Nobody <- 0, names <- [i \in Id |-> ent[i].born]
IdsImplementPool == Pool!Spec

\* "We won't allow anyone to set our parent element": a resource, or a timer in the list
\* of its resource, keeps the parent it was made with (CResource and CTimer::SetParent).
ParentsFixed ==
  [][\A e \in Managed :
       ent'[e].born = ent[e].born => ent'[e].parent = ent[e].parent]_vars

\* The stop of a resource leaves nothing of what it made, handlers included, but for
\* what was moved away.
StopLeavesNothing ==
  [][\A r \in running \ running' :
       /\ \A e \in Live : ent[e].creator = r /\ moved \cap Above(e) = {}
                            => ent'[e].type = "none"
       /\ \A h \in handlers' : h.by = r => h.at \notin Below(Root)']_vars

\* An event calls every handler that was there when it began and was left alone, at
\* the entity, above it and below it, and none of them twice, while no entity is above
\* itself.
CallsEachOnce ==
  /\ [][fault = "none" /\ stack # <<>> /\ stack' = <<>> => expected \subseteq called]_vars
  /\ [][Running("handlers") /\ Len(stack') = Len(stack) /\ Last(stack').phase = "call"
          => \/ \E e \in Id : Cyclic(e)
             \/ \A h \in expected : h.at = Top.entity /\ h.stamp = Last(stack').pos
                                     => h \notin called]_vars

\* A walk over a list breaks, and a handler gets an entity that is gone, only when a
\* script or the stop of a failing start has taken away the handler under call or an
\* entity the event was passing through; a call without an end needs that or a cycle of
\* parents; and a handler without a VM is at an entity that, or whose resource, a script
\* has given another parent before the stop.
FaultsExplained ==
  /\ fault \in {"iterator", "source"} => cut
  /\ fault = "recursion" => cut \/ \E e \in Id : Cyclic(e)
  /\ fault = "vm" => moved \cap {Top.entity, ent[Top.entity].creator} # {}
=============================================================================
