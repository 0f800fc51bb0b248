----------------------- MODULE ResourceManager_proofs ------------------------
(***************************************************************************)
(* Proofs about ResourceManager: no VM is deleted while a call of its      *)
(* resource is under way, however deep starts and scripts nest.            *)
(***************************************************************************)
EXTENDS ResourceManager, TLAPS

Starts == {"loading", "starting"}

-----------------------------------------------------------------------------
(* Call stacks *)

\* VMInUse, StartAlone and StopAtItem of a stack s, the VMs v, the position p and
\* the queue q, and a stack of which all three hold.
InUse(s, v) == \A i \in DOMAIN s : s[i].res \in v
Alone(s) == \A i, j \in DOMAIN s : i < j /\ s[i].kind \in Starts => s[j].res # s[i].res
AtItem(s, p, q) ==
  \A i \in DOMAIN s : s[i].kind = "stopping" => p \in DOMAIN q /\ q[p].res = s[i].res
Sound(s, v, p, q) == s \in Seq(Frame) /\ InUse(s, v) /\ Alone(s) /\ AtItem(s, p, q)

\* A call pushed on a stack is its first entry and moves the others by one.
LEMMA PushEntries ==
  ASSUME NEW s \in Seq(Frame), NEW c \in Frame
  PROVE  /\ <<c>> \o s \in Seq(Frame)
         /\ DOMAIN (<<c>> \o s) = 1 .. Len(s) + 1
         /\ (<<c>> \o s)[1] = c
         /\ \A i \in 2 .. Len(s) + 1 : i - 1 \in DOMAIN s /\ (<<c>> \o s)[i] = s[i - 1]
  OBVIOUS

\* A call that is returned from leaves the others, each one place further up.
LEMMA PopEntries ==
  ASSUME NEW s \in Seq(Frame), s # <<>>
  PROVE  /\ Tail(s) \in Seq(Frame)
         /\ Head(s) \in Frame /\ Head(s) = s[1] /\ 1 \in DOMAIN s
         /\ \A i \in DOMAIN Tail(s) : i + 1 \in DOMAIN s /\ Tail(s)[i] = s[i + 1]
  OBVIOUS

\* A call of a resource with a VM may be pushed; a start only if no call of the
\* resource is below.
LEMMA PushKeeps ==
  ASSUME NEW s, NEW c \in Frame, NEW v, NEW p, NEW q, Sound(s, v, p, q),
         c.res \in v, c.kind # "stopping",
         c.kind \in Starts => \A j \in DOMAIN s : s[j].res # c.res
  PROVE  Sound(<<c>> \o s, v, p, q)
<1> DEFINE t == <<c>> \o s
<1>1. /\ t \in Seq(Frame)
      /\ DOMAIN t = 1 .. Len(s) + 1
      /\ t[1] = c
      /\ \A i \in 2 .. Len(s) + 1 : i - 1 \in DOMAIN s /\ t[i] = s[i - 1]
  BY PushEntries DEF Sound
<1> HIDE DEF t
<1>2. Len(s) \in Nat
  BY DEF Sound
<1>3. \A i \in DOMAIN t : i \in Nat /\ (i = 1 \/ i \in 2 .. Len(s) + 1)
  BY <1>1, <1>2
<1>4. InUse(t, v)
  BY <1>1, <1>3 DEF Sound, InUse
<1>5. AtItem(t, p, q)
  BY <1>1, <1>3 DEF Sound, AtItem
<1>6. ASSUME NEW i \in DOMAIN t, NEW j \in DOMAIN t, i < j, t[i].kind \in Starts
      PROVE  t[j].res # t[i].res
  <2>1. j \in 2 .. Len(s) + 1 /\ j - 1 \in DOMAIN s /\ t[j] = s[j - 1]
    BY <1>1, <1>3, <1>6
  <2>2. CASE i = 1
    BY <2>1, <2>2, <1>1, <1>6
  <2>3. CASE i \in 2 .. Len(s) + 1
    <3>1. i - 1 \in DOMAIN s /\ t[i] = s[i - 1] /\ i - 1 < j - 1
      BY <2>1, <2>3, <1>1, <1>6
    <3> QED BY <3>1, <2>1, <1>6 DEF Sound, Alone
  <2> QED BY <2>2, <2>3, <1>3
<1> QED BY <1>1, <1>4, <1>5, <1>6 DEF Sound, Alone, t

\* Returning from a call keeps a stack sound, and what is below a start is of
\* other resources.
LEMMA PopKeeps ==
  ASSUME NEW s, s # <<>>, NEW v, NEW p, NEW q, Sound(s, v, p, q)
  PROVE  /\ Sound(Tail(s), v, p, q)
         /\ Head(s) \in Frame /\ Head(s).res \in v
         /\ Head(s).kind \in Starts =>
              \A j \in DOMAIN Tail(s) : Tail(s)[j].res # Head(s).res
         /\ Head(s).kind = "stopping" => p \in DOMAIN q /\ q[p].res = Head(s).res
<1> DEFINE t == Tail(s)
<1>1. /\ t \in Seq(Frame)
      /\ Head(s) \in Frame /\ Head(s) = s[1] /\ 1 \in DOMAIN s
      /\ \A i \in DOMAIN t : i + 1 \in DOMAIN s /\ t[i] = s[i + 1]
  BY PopEntries DEF Sound
<1>2. DOMAIN t \subseteq Nat \ {0}
  BY <1>1
<1> HIDE DEF t
<1>3. InUse(t, v) /\ Head(s).res \in v
  BY <1>1 DEF Sound, InUse
<1>4. Alone(t)
  <2> SUFFICES ASSUME NEW i \in DOMAIN t, NEW j \in DOMAIN t, i < j, t[i].kind \in Starts
               PROVE  t[j].res # t[i].res
    BY DEF Alone
  <2>1. i + 1 < j + 1
    BY <1>2
  <2> QED BY <2>1, <1>1 DEF Sound, Alone
<1>5. ASSUME Head(s).kind \in Starts, NEW j \in DOMAIN t
      PROVE  t[j].res # Head(s).res
  <2>1. 1 < j + 1
    BY <1>2
  <2> QED BY <2>1, <1>1, <1>5 DEF Sound, Alone
<1>6. /\ AtItem(t, p, q)
      /\ Head(s).kind = "stopping" => p \in DOMAIN q /\ q[p].res = Head(s).res
  BY <1>1 DEF Sound, AtItem
<1> QED BY <1>1, <1>3, <1>4, <1>5, <1>6 DEF Sound, t

\* A false result of a handler is noted in the call below it.
LEMMA NoteKeeps ==
  ASSUME NEW s, s # <<>>, NEW v, NEW p, NEW q, Sound(s, v, p, q)
  PROVE  Sound([s EXCEPT ![1].ok = FALSE], v, p, q)
<1> DEFINE c == [s[1] EXCEPT !.ok = FALSE]
           t == [s EXCEPT ![1] = c]
<1>1. 1 \in DOMAIN s /\ s[1] \in Frame
  BY PopEntries DEF Sound
<1>2. c \in Frame /\ c.res = s[1].res /\ c.kind = s[1].kind
  BY <1>1 DEF Frame
<1>3. [s EXCEPT ![1].ok = FALSE] = t
  OBVIOUS
<1> HIDE DEF c
<1>4. t \in Seq(Frame) /\ DOMAIN t = DOMAIN s
  BY <1>1, <1>2 DEF Sound
<1>5. \A i \in DOMAIN s : t[i] = IF i = 1 THEN c ELSE s[i]
  OBVIOUS
<1>6. \A i \in DOMAIN s : t[i].res = s[i].res /\ t[i].kind = s[i].kind
  BY <1>5, <1>2
<1> HIDE DEF t
<1>7. Sound(t, v, p, q)
  BY <1>4, <1>6 DEF Sound, InUse, Alone, AtItem
<1> QED BY <1>3, <1>7

-----------------------------------------------------------------------------
(* The invariant *)

\* TypeOK without the stack.
Fields ==
  /\ state \in [Resource -> State]
  /\ vm \in SUBSET Resource
  /\ handlers \in SUBSET Resource
  /\ queue \in Seq(Item)
  /\ pos \in 0 .. Len(queue) + 1
  /\ boot \in SUBSET Boot

Inv == Fields /\ Sound(stack, vm, pos, queue) /\ ReachableHaveVM

\* Taking the stack for its three properties and the rest, Inv is what the runs
\* check.
LEMMA InvIsChecked ==
  Inv => TypeOK /\ VMInUse /\ ReachableHaveVM /\ StartAlone /\ StopAtItem
  BY DEF Inv, Fields, Sound, InUse, Alone, AtItem, Starts, TypeOK, VMInUse, StartAlone,
         StopAtItem

\* The calls that are made are calls.
LEMMA CallType ==
  ASSUME NEW kind \in {"script", "loading", "starting", "stopping"}, NEW r \in Resource
  PROVE  Call(kind, r) \in Frame /\ Call(kind, r).res = r /\ Call(kind, r).kind = kind
  BY DEF Call, Frame

\* A stack that is sound stays so when the VMs grow and the queue gets longer.
LEMMA SoundGrows ==
  ASSUME NEW s, NEW v, NEW p \in Nat, NEW q \in Seq(Item), Sound(s, v, p, q),
         NEW w, v \subseteq w, NEW x \in Item
  PROVE  Sound(s, w, p, q) /\ Sound(s, w, p, Append(q, x))
<1>1. Sound(s, w, p, q)
  BY DEF Sound, InUse
<1>2. \A i \in DOMAIN q : i \in DOMAIN Append(q, x) /\ Append(q, x)[i] = q[i]
  OBVIOUS
<1> QED BY <1>1, <1>2 DEF Sound, AtItem

\* One call of a resource with a VM.
LEMMA SoundShort ==
  ASSUME NEW v, NEW p, NEW q, NEW c \in Frame, c.res \in v,
         c.kind = "stopping" => p \in DOMAIN q /\ q[p].res = c.res
  PROVE  Sound(<<c>>, v, p, q)
<1>1. <<c>> \in Seq(Frame) /\ DOMAIN <<c>> = {1} /\ <<c>>[1] = c
  OBVIOUS
<1> QED BY <1>1 DEF Sound, InUse, Alone, AtItem

\* With no call under way, nothing is required of the stack.
LEMMA SoundEmpty == \A v, p, q : Sound(<<>>, v, p, q)
  BY DEF Sound, InUse, Alone, AtItem

\* CResource::Start of a resource that is not running keeps the invariant.
LEMMA StartKeeps ==
  ASSUME Inv, NEW r \in Resource, state[r] # "running", BeginStart(r, stack),
         UNCHANGED <<queue, pos>>, boot' \in SUBSET Boot
  PROVE  Inv'
<1>1. r \notin vm /\ vm' = vm \cup {r}
  BY DEF Inv, ReachableHaveVM, BeginStart
<1>2. Sound(stack, vm', pos, queue) /\ \A j \in DOMAIN stack : stack[j].res # r
  BY <1>1 DEF Inv, Sound, InUse
<1>3. Sound(stack', vm', pos, queue)
  BY <1>1, <1>2, CallType, PushKeeps DEF BeginStart
<1>4. ReachableHaveVM'
  BY <1>1 DEF Inv, Fields, ReachableHaveVM, BeginStart
<1>5. Fields'
  BY <1>1 DEF Inv, Fields, BeginStart, State
<1> QED BY <1>3, <1>4, <1>5 DEF Inv

\* Stop keeps it if no call of the resource is left.
LEMMA TeardownKeeps ==
  ASSUME Inv, NEW r \in Resource, NEW x \in State \ {"running"}, Teardown(r, x),
         Sound(stack', vm, pos', queue), \A j \in DOMAIN stack' : stack'[j].res # r,
         UNCHANGED queue, pos' \in 0 .. Len(queue) + 1, boot' \in SUBSET Boot
  PROVE  Inv'
<1>1. vm' = vm \ {r}
  BY DEF Teardown
<1>2. Sound(stack', vm', pos', queue')
  BY <1>1 DEF Sound, InUse
<1>3. ReachableHaveVM'
  BY <1>1 DEF Inv, Fields, ReachableHaveVM, Teardown
<1>4. Fields'
  BY <1>1 DEF Inv, Fields, Teardown
<1> QED BY <1>2, <1>3, <1>4 DEF Inv

\* A step that only changes the calls keeps it if the stack stays sound.
LEMMA CallsKeep ==
  ASSUME Inv, Sound(stack', vm, pos, queue), UNCHANGED <<state, vm, handlers, queue, pos>>,
         boot' \in SUBSET Boot
  PROVE  Inv'
  BY DEF Inv, Fields, ReachableHaveVM

\* What the invariant says of the innermost call and of the ones below it.
LEMMA TopFacts ==
  ASSUME Inv, stack # <<>>
  PROVE  /\ Sound(Below, vm, pos, queue)
         /\ Top \in Frame /\ Top.res \in vm /\ Top.res \in Resource
         /\ Top.kind \in Starts => \A j \in DOMAIN Below : Below[j].res # Top.res
         /\ Top.kind = "stopping" => pos \in DOMAIN queue /\ queue[pos].res = Top.res
  BY PopKeeps DEF Inv, Fields, Top, Below

-----------------------------------------------------------------------------
(* The steps *)

\* Starts, at startup and by scripts.
LEMMA StartSteps ==
  ASSUME Inv, NEW r \in Resource, BootLoad(r) \/ Start(r)
  PROVE  Inv'
<1>1. CASE BootLoad(r)
  <2>1. boot' \in SUBSET Boot
    BY <1>1 DEF BootLoad, Inv, Fields
  <2>2. CASE state[r] = "unknown"
    BY <1>1, <2>1, <2>2, StartKeeps DEF BootLoad
  <2>3. CASE state[r] # "unknown"
    <3>1. UNCHANGED <<state, vm, handlers, stack, queue, pos>>
      BY <1>1, <2>3 DEF BootLoad
    <3>2. Sound(stack', vm, pos, queue)
      BY <3>1 DEF Inv
    <3> QED BY <2>1, <3>1, <3>2, CallsKeep
  <2> QED BY <2>2, <2>3
<1>2. CASE Start(r)
  <2>1. state[r] # "running" /\ BeginStart(r, stack) /\ UNCHANGED <<queue, pos, boot>>
    BY <1>2 DEF Start
  <2>2. boot' \in SUBSET Boot
    BY <2>1 DEF Inv, Fields
  <2> QED BY <2>1, <2>2, StartKeeps
<1> QED BY <1>1, <1>2

\* Timers and event handlers that run, and what scripts do without a call.
LEMMA ScriptSteps ==
  ASSUME Inv,
         \/ \E r \in Resource : RunScript(r) \/ CallHandler(r) \/ GetFromName(r)
         \/ \E result \in BOOLEAN : ScriptReturns(result)
         \/ AddHandler \/ RemoveHandler
  PROVE  Inv'
<1>1. boot \in SUBSET Boot
  BY DEF Inv, Fields
<1>2. ASSUME NEW r \in Resource, RunScript(r) PROVE Inv'
  <2>1. r \in vm
    BY <1>2 DEF RunScript, Inv, ReachableHaveVM
  <2>2. stack' = <<Call("script", r)>> /\ UNCHANGED <<state, vm, handlers, queue, pos, boot>>
    BY <1>2 DEF RunScript
  <2>3. Sound(stack', vm, pos, queue)
    BY <2>1, <2>2, CallType, SoundShort
  <2> QED BY <1>1, <2>2, <2>3, CallsKeep
<1>3. ASSUME NEW r \in Resource, CallHandler(r) PROVE Inv'
  <2>1. r \in vm
    BY <1>3 DEF CallHandler, Inv, ReachableHaveVM
  <2>2. /\ stack' = <<Call("script", r)>> \o stack
        /\ UNCHANGED <<state, vm, handlers, queue, pos, boot>>
    BY <1>3 DEF CallHandler
  <2>3. Sound(stack', vm, pos, queue)
    BY <2>1, <2>2, CallType, PushKeeps DEF Inv, Starts
  <2> QED BY <1>1, <2>2, <2>3, CallsKeep
<1>4. ASSUME NEW r \in Resource, GetFromName(r) PROVE Inv'
  <2>1. Fields' /\ ReachableHaveVM'
    BY <1>4 DEF GetFromName, Inv, Fields, ReachableHaveVM, State
  <2>2. Sound(stack, vm, pos, queue)'
    BY <1>4 DEF GetFromName, Inv
  <2> QED BY <2>1, <2>2 DEF Inv
<1>5. ASSUME NEW result \in BOOLEAN, ScriptReturns(result) PROVE Inv'
  <2>1. stack # <<>> /\ UNCHANGED <<state, vm, handlers, queue, pos, boot>>
    BY <1>5 DEF ScriptReturns, Running
  <2>2. Sound(Below, vm, pos, queue)
    BY <2>1, TopFacts
  <2>3. \/ stack' = Below
        \/ Below # <<>> /\ stack' = [Below EXCEPT ![1].ok = FALSE]
    BY <1>5 DEF ScriptReturns
  <2>4. Sound(stack', vm, pos, queue)
    BY <2>2, <2>3, NoteKeeps
  <2> QED BY <1>1, <2>1, <2>4, CallsKeep
<1>6. CASE AddHandler \/ RemoveHandler
  <2>1. stack # <<>> /\ UNCHANGED <<state, vm, stack, queue, pos, boot>>
    BY <1>6 DEF AddHandler, RemoveHandler, Running
  <2>2. Top.res \in vm
    BY <2>1, TopFacts
  <2>3. handlers' \subseteq vm
    BY <1>6, <2>2 DEF AddHandler, RemoveHandler, Inv, ReachableHaveVM
  <2> QED BY <2>1, <2>3 DEF Inv, Fields, ReachableHaveVM
<1> QED BY <1>2, <1>3, <1>4, <1>5, <1>6

\* The rest of a start: its event, its success, its failure.
LEMMA StartGoesOn ==
  ASSUME Inv, ScriptsLoaded \/ StartFails \/ Started
  PROVE  Inv'
<1>1. stack # <<>> /\ Top.kind \in Starts /\ UNCHANGED <<queue, pos>>
  BY DEF ScriptsLoaded, StartFails, Started, Running, Starts
<1>2. boot' \in SUBSET Boot
  BY DEF ScriptsLoaded, StartFails, Started, Inv, Fields
<1>3. /\ Sound(Below, vm, pos, queue)
      /\ Top.res \in vm /\ Top.res \in Resource
      /\ \A j \in DOMAIN Below : Below[j].res # Top.res
  BY <1>1, TopFacts
<1>4. CASE ScriptsLoaded
  <2>1. /\ stack' = <<Call("starting", Top.res)>> \o Below
        /\ UNCHANGED <<state, vm, handlers, queue, pos, boot>>
    BY <1>4 DEF ScriptsLoaded
  <2>2. Sound(stack', vm, pos, queue)
    BY <2>1, <1>3, CallType, PushKeeps
  <2> QED BY <1>2, <2>1, <2>2, CallsKeep
<1>5. CASE StartFails
  <2>1. stack' = Below
    BY <1>5 DEF StartFails
  <2>2. PICK x \in State \ {"running"} : Teardown(Top.res, x)
    BY <1>5 DEF StartFails, State
  <2>3. pos' \in 0 .. Len(queue) + 1
    BY <1>1 DEF Inv, Fields
  <2>4. Sound(stack', vm, pos', queue)
    BY <1>1, <1>3, <2>1
  <2> QED BY <1>1, <1>2, <1>3, <2>1, <2>2, <2>3, <2>4, TeardownKeeps
<1>6. CASE Started
  <2>1. stack' = Below /\ UNCHANGED <<state, vm, handlers, queue, pos>>
    BY <1>6 DEF Started
  <2> QED BY <1>2, <1>3, <2>1, CallsKeep
<1> QED BY <1>4, <1>5, <1>6

\* The queue: what is put into it, and how Process works it off.
LEMMA QueueSteps ==
  ASSUME Inv,
         \/ \E r \in Resource, type \in {"stop", "restart"} : StopOrRestart(r, type)
         \/ BeginQueue \/ BeginStop \/ ClearQueue
  PROVE  Inv'
<1>1. queue \in Seq(Item) /\ Len(queue) \in Nat /\ pos \in 0 .. Len(queue) + 1
  BY DEF Inv, Fields
<1>2. ASSUME NEW r \in Resource, NEW type \in {"stop", "restart"}, StopOrRestart(r, type)
      PROVE  Inv'
  <2> DEFINE x == [res |-> r, type |-> type]
  <2>1. queue' = Append(queue, x) /\ UNCHANGED <<state, vm, handlers, stack, pos, boot>>
    BY <1>2 DEF StopOrRestart
  <2>2. x \in Item
    BY DEF Item
  <2> HIDE DEF x
  <2>3. queue' \in Seq(Item) /\ Len(queue') = Len(queue) + 1
    BY <1>1, <2>1, <2>2
  <2>4. Sound(stack, vm, pos, queue)'
    BY <1>1, <2>1, <2>2, SoundGrows DEF Inv
  <2>5. ReachableHaveVM'
    BY <2>1 DEF Inv, ReachableHaveVM
  <2>6. Fields'
    BY <1>1, <2>1, <2>3 DEF Inv, Fields
  <2> QED BY <2>4, <2>5, <2>6 DEF Inv
<1>3. CASE BeginQueue
  <2>1. /\ stack' = <<>> /\ pos' = 1 /\ pos' \in 0 .. Len(queue) + 1
        /\ UNCHANGED <<state, vm, handlers, queue, boot>>
    BY <1>1, <1>3 DEF BeginQueue, AtQueue
  <2> QED BY <2>1, SoundEmpty DEF Inv, Fields, ReachableHaveVM
<1>4. CASE BeginStop
  <2> DEFINE r == queue[pos].res
  <2>1. /\ pos \in DOMAIN queue /\ stack = <<>>
        /\ UNCHANGED <<state, vm, handlers, queue, boot>>
    BY <1>4 DEF BeginStop, AtQueue
  <2>2. CASE state[r] = "running"
    <3>1. stack' = <<Call("stopping", r)>> /\ UNCHANGED pos
      BY <1>4, <2>2 DEF BeginStop
    <3>2. r \in Resource
      <4>1. queue[pos] \in Item
        BY <1>1, <2>1
      <4> QED BY <4>1 DEF Item
    <3>3. r \in vm
      BY <2>2, <3>2 DEF Inv, ReachableHaveVM
    <3>4. Sound(stack', vm, pos, queue)
      BY <2>1, <3>1, <3>2, <3>3, CallType, SoundShort
    <3>5. boot' \in SUBSET Boot
      BY <2>1 DEF Inv, Fields
    <3> QED BY <2>1, <3>1, <3>4, <3>5, CallsKeep
  <2>3. CASE state[r] # "running"
    <3>1. stack' = <<>> /\ pos' = pos + 1
      BY <1>4, <2>1, <2>3 DEF BeginStop
    <3>2. pos' \in 0 .. Len(queue) + 1
      BY <1>1, <2>1, <3>1
    <3> QED BY <2>1, <3>1, <3>2, SoundEmpty DEF Inv, Fields, ReachableHaveVM
  <2> QED BY <2>2, <2>3
<1>5. CASE ClearQueue
  <2>1. /\ stack' = <<>> /\ queue' = <<>> /\ pos' = 0
        /\ UNCHANGED <<state, vm, handlers, boot>>
    BY <1>5 DEF ClearQueue, AtQueue
  <2>2. queue' \in Seq(Item) /\ pos' \in 0 .. Len(queue') + 1
    BY <2>1
  <2> QED BY <2>1, <2>2, SoundEmpty DEF Inv, Fields, ReachableHaveVM
<1> QED BY <1>2, <1>3, <1>4, <1>5

\* The end of a stop or of the stop of a restart.
LEMMA StoppedStep ==
  ASSUME Inv, Stopped
  PROVE  Inv'
<1>1. stack # <<>> /\ Top.kind = "stopping" /\ pos' = pos + 1 /\ UNCHANGED <<queue, boot>>
  BY DEF Stopped, Running
<1>2. Top.res \in vm /\ Top.res \in Resource /\ pos \in DOMAIN queue
  BY <1>1, TopFacts
<1>3. pos' \in 0 .. Len(queue) + 1
  BY <1>1, <1>2 DEF Inv, Fields
<1>4. boot' \in SUBSET Boot
  BY <1>1 DEF Inv, Fields
<1>5. CASE queue[pos].type = "restart"
  <2>1. /\ stack' = <<Call("loading", Top.res)>> /\ UNCHANGED <<state, vm>>
        /\ handlers' = handlers \ {Top.res}
    BY <1>5 DEF Stopped
  <2>2. Sound(stack', vm, pos', queue)
    BY <1>2, <2>1, CallType, SoundShort
  <2>3. Fields' /\ ReachableHaveVM'
    BY <1>1, <1>3, <1>4, <2>1 DEF Inv, Fields, ReachableHaveVM
  <2> QED BY <1>1, <2>1, <2>2, <2>3 DEF Inv
<1>6. CASE queue[pos].type # "restart"
  <2>1. Teardown(Top.res, "loaded") /\ stack' = <<>>
    BY <1>6 DEF Stopped
  <2>2. Sound(stack', vm, pos', queue) /\ DOMAIN stack' = {}
    BY <2>1, SoundEmpty
  <2>3. "loaded" \in State \ {"running"}
    BY DEF State
  <2> QED BY <1>1, <1>2, <1>3, <1>4, <2>1, <2>2, <2>3, TeardownKeeps
<1> QED BY <1>5, <1>6

\* The invariant holds throughout, for any resources and any depth of calls.
THEOREM ResourceInvariant == Spec => []Inv
<1>1. Init => Inv
  <2> SUFFICES ASSUME Init PROVE Inv
    OBVIOUS
  <2>1. Sound(stack, vm, pos, queue)
    BY SoundEmpty DEF Init
  <2>2. Fields /\ ReachableHaveVM
    BY DEF Init, Fields, ReachableHaveVM, State
  <2> QED BY <2>1, <2>2 DEF Inv
<1>2. Inv /\ [Next]_vars => Inv'
  <2> SUFFICES ASSUME Inv, [Next]_vars PROVE Inv'
    OBVIOUS
  <2>1. CASE UNCHANGED vars
    BY <2>1 DEF vars, Inv, Fields, ReachableHaveVM
  <2>2. CASE Next
    <3>1. ASSUME NEW r \in Resource,
                 \/ BootLoad(r) \/ RunScript(r) \/ CallHandler(r) \/ GetFromName(r) \/ Start(r)
                 \/ StopOrRestart(r, "stop") \/ StopOrRestart(r, "restart")
          PROVE  Inv'
      BY <3>1, StartSteps, ScriptSteps, QueueSteps
    <3> QED BY <2>2, <3>1, ScriptSteps, StartGoesOn, QueueSteps, StoppedStep DEF Next
  <2> QED BY <2>1, <2>2
<1> QED BY <1>1, <1>2, PTL DEF Spec

\* State, calls and queue are always ones the code has.
THEOREM ResourceTypes == Spec => []TypeOK
  BY ResourceInvariant, InvIsChecked, PTL

\* No VM is deleted while a call of its resource is under way.
THEOREM ResourceVMInUse == Spec => []VMInUse
  BY ResourceInvariant, InvIsChecked, PTL

\* Handlers that can be reached and resources that are run have a VM.
THEOREM ResourceReachable == Spec => []ReachableHaveVM
  BY ResourceInvariant, InvIsChecked, PTL

\* A start is never entered while there is a call of its resource.
THEOREM ResourceStartAlone == Spec => []StartAlone
  BY ResourceInvariant, InvIsChecked, PTL

\* The iterator of CResourceManager::Process stays on the resource it stops.
THEOREM ResourceStopAtItem == Spec => []StopAtItem
  BY ResourceInvariant, InvIsChecked, PTL
=============================================================================
