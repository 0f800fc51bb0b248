-------------------------- MODULE ServerLoop_proofs --------------------------
(***************************************************************************)
(* Proofs about what the main loop of the server does beside its network.  *)
(* Console input (InputQueue): the Windows mutex keeps the threads apart,  *)
(* and no line is lost, doubled or reordered between them.  The server list*)
(* (ServerLister, HttpClient): posts are apart, and the server is listed   *)
(* only if the list has said so.                                           *)
(***************************************************************************)
EXTENDS InputQueue, ServerLister, SequenceTheorems, WellFoundedInduction, TLAPS

-----------------------------------------------------------------------------
(* Type correctness *)

\* What the input thread makes of a line is a line again, in both builds.
LEMMA CutLineType == \A l \in Line : CutLine(l) \in Line
  BY DEF CutLine, Line

\* Text that something is appended to is a line.
LEMMA AppendedType ==
  \A text \in Line \cup {NoText}, l \in Line : Appended(text, l) \in Line
  BY DEF Appended, Line

\* Everything TypeOK says holds throughout, in both builds and however many lines
\* are read.
THEOREM InputQueueTypes == Spec => []TypeOK
<1>1. Init => TypeOK
  BY InputQueueAssumption DEF Init, TypeOK, Line
<1>2. TypeOK /\ [Next]_vars => TypeOK'
  <2> SUFFICES ASSUME TypeOK, [Next]_vars PROVE TypeOK'
    OBVIOUS
  <2>. USE DEF TypeOK
  <2>1. CASE Frame
    BY <2>1 DEF Frame, MainGoes, inputVars
  <2>2. CASE TryLock
    BY <2>2 DEF TryLock, MainGoes, inputVars
  <2>3. CASE TakeLine
    <3>1. Head(queue) \in Line /\ Tail(queue) \in Seq(Line)
      BY <2>3 DEF TakeLine
    <3>2. Append(handled, Head(queue)) \in Seq(Line)
      BY <3>1
    <3>3. queue' \in Seq(Line) /\ handled' \in Seq(Line)
      BY <2>3, <3>1, <3>2 DEF TakeLine
    <3>4. mainPc' \in {"drain", "unlock"} /\ active' \in BOOLEAN
      BY <2>3 DEF TakeLine, MainGoes
    <3>5. UNCHANGED <<linux, inputPc, line, before, typed, owner, running>>
      BY <2>3 DEF TakeLine, inputVars
    <3> QED BY <3>3, <3>4, <3>5
  <2>4. CASE QueueEmpty
    BY <2>4 DEF QueueEmpty, MainGoes, inputVars
  <2>5. CASE MainUnlock
    BY <2>5 DEF MainUnlock, MainGoes, inputVars
  <2>6. CASE StopInput
    BY <2>6 DEF StopInput, MainGoes, inputVars
  <2>7. CASE Unload
    BY <2>7 DEF Unload, MainGoes, inputVars
  <2>8. CASE Exit
    BY <2>8 DEF Exit, MainGoes, inputVars
  <2>9. CASE Signal
    BY <2>9 DEF Signal, inputVars
  <2>10. CASE CheckRunning
    BY <2>10 DEF CheckRunning, InputGoes, mainVars
  <2>11. ASSUME NEW l \in Line, ReadLine(l) PROVE TypeOK'
    <3>1. /\ typed' \in Seq([text : Line, alone : BOOLEAN])
          /\ line' \in Line
      BY <2>11, CutLineType, AppendedType DEF ReadLine, Line
    <3> QED BY <2>11, <3>1 DEF ReadLine, InputGoes, mainVars
  <2>12. CASE ReadPart \/ ReadNewline
    <3>1. Appended(line, "other") \in Line
      BY AppendedType DEF Line
    <3> QED BY <2>12, <3>1 DEF ReadPart, ReadNewline, InputGoes, mainVars
  <2>13. CASE InputLock
    BY <2>13 DEF InputLock, InputGoes, mainVars
  <2>14. CASE Push
    BY <2>14 DEF Push, InputGoes, mainVars
  <2>15. CASE InputUnlock
    BY <2>15 DEF InputUnlock, InputGoes, mainVars
  <2>16. CASE Cancelled
    BY <2>16 DEF Cancelled, InputGoes, mainVars
  <2>17. CASE UNCHANGED vars
    BY <2>17 DEF vars
  <2> QED
    BY <2>1, <2>2, <2>3, <2>4, <2>5, <2>6, <2>7, <2>8, <2>9, <2>10, <2>11, <2>12,
       <2>13, <2>14, <2>15, <2>16, <2>17
    DEF Next, MainStep, InputStep
<1> QED
  BY <1>1, <1>2, PTL DEF Spec

-----------------------------------------------------------------------------
(* The mutex of the Windows build *)

\* One step keeps the discipline; the build does not change.
LEMMA LockDisciplineStep ==
  ASSUME TypeOK, LockDiscipline, [Next]_vars
  PROVE  LockDiscipline'
<1>. USE DEF LockDiscipline, TypeOK
<1>1. CASE MainStep
  <2>1. CASE TryLock
    <3> SUFFICES ASSUME ~linux PROVE LockDiscipline'
      BY <2>1 DEF TryLock, inputVars
    <3>1. (owner = "none") # linux <=> owner = "none"
      OBVIOUS
    <3>2. mainPc = "try" /\ mainPc' = IF owner = "none" THEN "drain" ELSE "frame"
      BY <2>1, <3>1 DEF TryLock, MainGoes
    <3> QED BY <2>1, <3>2 DEF TryLock, inputVars
  <2>2. CASE TakeLine \/ QueueEmpty \/ MainUnlock
    BY <2>2 DEF TakeLine, QueueEmpty, MainUnlock, MainGoes, inputVars
  <2>3. CASE Frame \/ StopInput \/ Unload \/ Exit
    BY <2>3 DEF Frame, StopInput, Unload, Exit, MainGoes, inputVars
  <2> QED BY <1>1, <2>1, <2>2, <2>3 DEF MainStep
<1>2. CASE InputStep
  BY <1>2 DEF InputStep, CheckRunning, ReadPart, ReadNewline, InputLock, Push,
              InputUnlock, Cancelled, InputGoes, mainVars
<1>3. CASE Signal
  BY <1>3 DEF Signal, inputVars
<1>4. ASSUME NEW l \in Line, ReadLine(l) PROVE LockDiscipline'
  BY <1>4 DEF ReadLine, InputGoes, mainVars
<1>5. CASE UNCHANGED vars
  BY <1>5 DEF vars
<1> QED
  BY <1>1, <1>2, <1>3, <1>4, <1>5 DEF Next

\* On Windows a thread holds the mutex exactly between its lock and its unlock.
THEOREM InputQueueDiscipline == Spec => []LockDiscipline
<1>1. Init => LockDiscipline
  BY DEF Init, LockDiscipline
<1>2. TypeOK /\ LockDiscipline /\ [Next]_vars => LockDiscipline'
  BY LockDisciplineStep
<1> QED
  BY <1>1, <1>2, InputQueueTypes, PTL DEF Spec

\* On Windows the main thread and the input thread are never in the queue together.
THEOREM InputQueueExclusion == Spec => []WindowsExclusion
<1>1. LockDiscipline => WindowsExclusion
  BY DEF LockDiscipline, WindowsExclusion, MutualExclusion
<1> QED
  BY <1>1, InputQueueDiscipline, PTL

-----------------------------------------------------------------------------
(* Every line read is handled once and in order *)

\* The line the input thread has read and not queued yet.
Pending == IF inputPc \in {"lock", "push"} THEN <<line>> ELSE <<>>

\* What the lines typed are to be handled as.
AllMade == [i \in DOMAIN typed |-> Made(typed[i])]

\* When there is text of a line the input thread has not read to its end:
\* strInputString is empty but for that text, when the thread has left the queue.
TextKept ==
  IF inputPc \in {"lock", "push", "unlock"} THEN before = "nothing"
  ELSE line = NoText <=> before = "nothing"

\* NoLineLost, with the text that waits for the end of its line.
AllKept ==
  ~linux => /\ (handled \o queue) \o Pending = AllMade
            /\ TextKept

\* The strengthening carries NoLineLost.
LEMMA KeptIsNoLineLost == AllKept => NoLineLost
  BY DEF AllKept, TextKept, NoLineLost, Pending, AllMade

\* What is made of the lines typed, when another is.
LEMMA AllMadeOfMore ==
  ASSUME TypeOK, NEW t \in [text : Line, alone : BOOLEAN], typed' = Append(typed, t),
         linux' = linux
  PROVE  AllMade \in Seq(Line) /\ AllMade' = AllMade \o <<Made(t)>>
<1>1. /\ typed \in Seq([text : Line, alone : BOOLEAN])
      /\ \A u \in [text : Line, alone : BOOLEAN] : Made(u) \in Line
  <2>1. \A u \in [text : Line, alone : BOOLEAN] :
          (IF u.alone THEN u.text ELSE "other") \in Line
    BY DEF Line
  <2> QED BY <2>1, CutLineType DEF TypeOK, Made
<1>2. Len(typed) \in Nat /\ DOMAIN typed = 1 .. Len(typed)
      /\ \A i \in 1 .. Len(typed) : typed[i] \in [text : Line, alone : BOOLEAN]
  <2>1. PICK R : R = [text : Line, alone : BOOLEAN]
    OBVIOUS
  <2>2. typed \in Seq(R)
    BY <1>1, <2>1
  <2>3. Len(typed) \in Nat /\ DOMAIN typed = 1 .. Len(typed)
        /\ \A i \in 1 .. Len(typed) : typed[i] \in R
    BY <2>2
  <2> QED BY <2>1, <2>3
<1>3. AllMade = [i \in 1 .. Len(typed) |-> Made(typed[i])]
  BY <1>2 DEF AllMade
<1>4. AllMade \in Seq(Line) /\ Len(AllMade) = Len(typed)
  BY <1>1, <1>2, <1>3
<1>5. /\ DOMAIN typed' = 1 .. Len(typed) + 1 /\ typed'[Len(typed) + 1] = t
      /\ \A i \in 1 .. Len(typed) : typed'[i] = typed[i]
  BY <1>1, <1>2
<1>7. AllMade' = [i \in 1 .. Len(typed) + 1 |-> CutLine(IF typed'[i].alone
                                                   THEN typed'[i].text ELSE "other")]
  BY <1>5 DEF AllMade, Made, CutLine
<1>8. AllMade' = [i \in 1 .. Len(typed) + 1 |-> IF i = Len(typed) + 1 THEN Made(t)
                                               ELSE AllMade[i]]
  BY <1>2, <1>3, <1>5, <1>7 DEF Made
<1>9. AllMade \o <<Made(t)>> = [i \in 1 .. Len(typed) + 1 |->
        IF i = Len(typed) + 1 THEN Made(t) ELSE AllMade[i]]
  BY <1>1, <1>2, <1>4
<1> QED BY <1>4, <1>8, <1>9

\* Taking the first line off the queue moves the border between what was handled
\* and what is queued.
LEMMA BorderMoves ==
  ASSUME NEW h \in Seq(Line), NEW q \in Seq(Line), q # <<>>
  PROVE  Append(h, Head(q)) \o Tail(q) = h \o q
<1>1. Head(q) \in Line /\ Tail(q) \in Seq(Line) /\ Len(Tail(q)) = Len(q) - 1
      /\ \A i \in 1 .. Len(Tail(q)) : Tail(q)[i] = q[i + 1]
  BY HeadTailProperties
<1>2. q = <<Head(q)>> \o Tail(q)
  BY <1>1
<1>3. Append(h, Head(q)) = h \o <<Head(q)>>
  BY <1>1
<1>4. (h \o <<Head(q)>>) \o Tail(q) = h \o (<<Head(q)>> \o Tail(q))
  BY <1>1, ConcatAssociative
<1> QED BY <1>2, <1>3, <1>4

\* Every step keeps all lines in order.
LEMMA AllKeptStep == TypeOK /\ AllKept /\ [Next]_vars => AllKept'
<1> SUFFICES ASSUME TypeOK, AllKept, [Next]_vars, ~linux
             PROVE  /\ (handled' \o queue') \o Pending' = AllMade'
                    /\ TextKept'
  <2>1. [Next]_vars => linux' = linux
    BY DEF Next, MainStep, InputStep, vars, mainVars, inputVars, Frame, TryLock,
           TakeLine, QueueEmpty, MainUnlock, StopInput, Unload, Exit, Signal,
           CheckRunning, ReadLine, ReadPart, ReadNewline, InputLock, Push, InputUnlock,
           Cancelled
  <2> QED BY <2>1 DEF AllKept
<1>0. linux' = linux
  BY DEF Next, MainStep, InputStep, vars, mainVars, inputVars, Frame, TryLock,
         TakeLine, QueueEmpty, MainUnlock, StopInput, Unload, Exit, Signal,
         CheckRunning, ReadLine, ReadPart, ReadNewline, InputLock, Push, InputUnlock,
         Cancelled
<1>1. /\ handled \in Seq(Line) /\ queue \in Seq(Line) /\ line \in Line \cup {NoText}
      /\ handled \o queue \in Seq(Line)
  BY ConcatProperties DEF TypeOK
<1>2. /\ (handled \o queue) \o Pending = AllMade
      /\ TextKept
  BY DEF AllKept
<1>3. CASE UNCHANGED <<handled, queue, typed, Pending>> /\ UNCHANGED <<inputPc, line, before>>
  BY <1>0, <1>2, <1>3 DEF AllMade, Made, CutLine, TextKept
<1>4. CASE TakeLine
  <2>1. queue # <<>> /\ handled' = Append(handled, Head(queue)) /\ queue' = Tail(queue)
    BY <1>4 DEF TakeLine
  <2>2. UNCHANGED <<typed, Pending, inputPc, line, before>>
    BY <1>4 DEF TakeLine, inputVars, Pending
  <2>3. handled' \o queue' = handled \o queue
    BY <1>1, <2>1, BorderMoves
  <2>4. AllMade' = AllMade
    BY <1>0, <2>2 DEF AllMade, Made, CutLine
  <2> QED BY <1>2, <2>2, <2>3, <2>4 DEF TextKept
<1>5. ASSUME NEW l \in Line, ReadLine(l)
      PROVE  /\ (handled' \o queue') \o Pending' = AllMade'
             /\ TextKept'
  <2>1. Pending = <<>> /\ Pending' = <<line'>> /\ inputPc = "read" /\ inputPc' = "lock"
    BY <1>5 DEF ReadLine, InputGoes, Pending
  <2>2. PICK t : t = [text |-> IF before = "part" THEN "other" ELSE l,
                      alone |-> before # "filled"]
    OBVIOUS
  <2>3. /\ t \in [text : Line, alone : BOOLEAN] /\ typed' = Append(typed, t)
        /\ handled' = handled /\ queue' = queue
    BY <1>5, <2>2 DEF ReadLine, mainVars, Line
  <2>4. line' = Made(t)
    <3>1. line' = Appended(line, l)
      BY <1>5 DEF ReadLine, CutLine
    <3>2. line = NoText <=> before = "nothing"
      BY <1>2, <2>1 DEF TextKept
    <3>3. Made(t) = IF before = "nothing" THEN l ELSE "other"
      BY <2>2 DEF Made, CutLine, TypeOK
    <3> QED BY <3>1, <3>2, <3>3 DEF Appended
  <2>5. AllMade' = AllMade \o <<Made(t)>>
    BY <1>0, <2>3, AllMadeOfMore
  <2>6. handled \o queue = AllMade
    BY <1>1, <1>2, <2>1, ConcatEmptySeq
  <2>7. before' = "nothing"
    BY <1>5 DEF ReadLine
  <2> QED BY <2>1, <2>3, <2>4, <2>5, <2>6, <2>7 DEF TextKept
<1>6. CASE Push
  <2>1. Pending = <<line>> /\ Pending' = <<>> /\ inputPc' = "unlock"
    BY <1>6 DEF Push, InputGoes, Pending
  <2>2. UNCHANGED typed /\ handled' = handled /\ queue' = Append(queue, line)
    BY <1>6 DEF Push, mainVars
  <2>3. PICK S : S = Line \cup {NoText}
    OBVIOUS
  <2>4. handled \in Seq(S) /\ queue \in Seq(S) /\ <<line>> \in Seq(S)
    BY <1>1, <2>3
  <2>5. queue' = queue \o <<line>> /\ queue' \in Seq(S)
    BY <2>2, <2>4
  <2>6. handled \o (queue \o <<line>>) = (handled \o queue) \o <<line>>
    BY <2>4, ConcatAssociative
  <2>7. AllMade' = AllMade
    BY <1>0, <2>2 DEF AllMade, Made, CutLine
  <2>8. handled' \o queue' = AllMade
    BY <1>2, <2>1, <2>2, <2>5, <2>6
  <2>9. handled' \o queue' \in Seq(S)
    BY <2>2, <2>4, <2>5, ConcatProperties
  <2>10. (handled' \o queue') \o <<>> = handled' \o queue'
    BY <2>9, ConcatEmptySeq
  <2>11. TextKept'
    BY <1>2, <1>6 DEF Push, InputGoes, TextKept
  <2> QED BY <2>1, <2>7, <2>8, <2>10, <2>11
<1>7. CASE CheckRunning \/ InputLock \/ Cancelled
  <2>1. UNCHANGED <<handled, queue, typed, Pending, line, before>>
    BY <1>7 DEF CheckRunning, InputLock, Cancelled, InputGoes, mainVars, Pending
  <2>2. AllMade' = AllMade
    BY <1>0, <2>1 DEF AllMade, Made, CutLine
  <2>3. TextKept'
    BY <1>2, <1>7, <2>1 DEF CheckRunning, InputLock, Cancelled, InputGoes, TextKept
  <2> QED BY <1>2, <2>1, <2>2, <2>3
<1>8. CASE ReadPart \/ ReadNewline \/ InputUnlock
  <2>1. UNCHANGED <<handled, queue, typed, Pending>>
    BY <1>8 DEF ReadPart, ReadNewline, InputUnlock, InputGoes, mainVars, Pending
  <2>2. AllMade' = AllMade
    BY <1>0, <2>1 DEF AllMade, Made, CutLine
  <2>3. ASSUME ReadPart
       PROVE  TextKept'
    BY <2>3, <1>2 DEF ReadPart, InputGoes, Appended, NoText, TextKept, TypeOK
  <2>4. ASSUME ReadNewline
       PROVE  TextKept'
    BY <2>4, <1>2 DEF ReadNewline, InputGoes, NoText, TextKept, TypeOK
  <2>5. ASSUME InputUnlock
       PROVE  TextKept'
    BY <2>5, <1>2 DEF InputUnlock, InputGoes, NoText, TextKept, TypeOK
  <2> QED BY <1>2, <1>8, <2>1, <2>2, <2>3, <2>4, <2>5
<1>9. CASE Frame \/ TryLock \/ QueueEmpty \/ MainUnlock \/ StopInput \/ Unload \/ Exit
           \/ Signal
  BY <1>3, <1>9 DEF Frame, TryLock, QueueEmpty, MainUnlock, StopInput, Unload, Exit,
                    Signal, inputVars, MainGoes, Pending
<1>10. CASE UNCHANGED vars
  BY <1>3, <1>10 DEF vars, Pending
<1> QED
  BY <1>4, <1>5, <1>6, <1>7, <1>8, <1>9, <1>10 DEF Next, MainStep, InputStep

\* In the Windows build every line read to its end is handled once and in the order
\* typed, however many lines are read and whatever the threads do between them; only
\* one that fills the buffer is joined to the next.
THEOREM InputQueueNoLineLost == Spec => []NoLineLost
<1>1. Init => AllKept
  BY DEF Init, AllKept, TextKept, Pending, AllMade
<1>2. TypeOK /\ AllKept /\ [Next]_vars => AllKept'
  BY AllKeptStep
<1> QED
  BY <1>1, <1>2, KeptIsNoLineLost, InputQueueTypes, PTL DEF Spec

-----------------------------------------------------------------------------
(* The server list: posts are apart *)

\* since counts the ticks that have passed by the clock since the last post, up to Wrap.
ListerTime ==
  /\ clock \in 0 .. Wrap - 1 /\ ulLastUpdate \in 0 .. Wrap - 1 /\ since \in 0 .. Wrap
  /\ since < Wrap =>
       since = IF clock >= ulLastUpdate THEN clock - ulLastUpdate
               ELSE clock + Wrap - ulLastUpdate

\* The clock starts over behind its last value.
LEMMA ClockStartsOver ==
  ASSUME NEW c \in 0 .. Wrap - 1
  PROVE  (c + 1) % Wrap = IF c + 1 = Wrap THEN 0 ELSE c + 1
  BY ServerListerAssumption

\* What counts the time holds at the start.
LEMMA InitTime == ListerInit => ListerTime
  BY ServerListerAssumption DEF ListerInit, ListerTime

\* A frame that posts sets the time of the last post to the clock, and no other does.
LEMMA ProcessTime ==
  ASSUME ListerTime, Process
  PROVE  ListerTime'
<1>1. /\ clock' = clock
      /\ since' = IF Due THEN 0 ELSE since
      /\ ulLastUpdate' = IF Due THEN clock ELSE ulLastUpdate
  BY DEF Process, LastUpdate
<1> QED BY <1>1, ServerListerAssumption DEF ListerTime

\* A tick goes on counting.
LEMMA TickTime ==
  ASSUME ListerTime, Tick
  PROVE  ListerTime'
<1>1. /\ clock' = IF clock + 1 = Wrap THEN 0 ELSE clock + 1
      /\ since' = IF since < Wrap THEN since + 1 ELSE since
      /\ ulLastUpdate' = ulLastUpdate
  BY ClockStartsOver DEF Tick, ListerTime
<1> QED BY <1>1, ServerListerAssumption DEF ListerTime

\* Every step counts the time.
LEMMA NextTime == ListerTime /\ [ListerNext]_listerVars => ListerTime'
<1> SUFFICES ASSUME ListerTime, [ListerNext]_listerVars
             PROVE  ListerTime'
  OBVIOUS
<1>1. CASE Process
  BY <1>1, ProcessTime
<1>2. CASE Tick
  BY <1>2, TickTime
<1>3. CASE BecomeHealthy \/ OnUnload \/ UNCHANGED listerVars
  BY <1>3 DEF BecomeHealthy, OnUnload, listerVars, ListerTime
<1> QED BY <1>1, <1>2, <1>3 DEF ListerNext

\* Posts are at least SERVER_LIST_TIMEOUT apart, failed ones as well, in every
\* behaviour and for any timeout, but where the clock has started over and
\* unsigned long is wider than it (CServerLister::Process).
THEOREM AlwaysPostsApart == ListerSpec => []PostsApart
<1>1. ListerTime => PostsApart
  BY ServerListerAssumption DEF ListerTime, PostsApart, Due
<1> QED BY InitTime, NextTime, <1>1, PTL DEF ListerSpec

-----------------------------------------------------------------------------
(* The server list: listed by the list *)

\* The tokens of the answers, and what the client can be while it is in use or deleted.
Token == UNION {{a[i] : i \in DOMAIN a} : a \in Answers}
Client ==
  [socket : {"none", "open", "connected"}, connected : BOOLEAN,
   status : {"NONE", "GET_DATA", "GOT_DATA", "INVALID", "DELETED"},
   header : Seq(Token), data : Seq(Token), ok : BOOLEAN, free : Int, unread : Seq(Token)]

\* If what is to come of the answer makes an "Added", the list has said so: before
\* its header, in the answer as a whole, and behind it, in what is read and unread.
Coming(h) == h.data \o h.unread
Honest(h, said) ==
  /\ h.status = "GET_DATA" /\ h.header = <<>> =>
       /\ h.data = <<>>
       /\ h.unread = <<>> \/ h.unread \in Answers
       /\ h.unread \in Answers /\ Says(h.unread, Added) => said
  /\ h.status = "GET_DATA" /\ h.header # <<>> /\ IsPrefix(Added, Coming(h)) => said

\* What the lister knows, and what it can still learn, the list has said.
ListerInvariant ==
  /\ http \in Client /\ bWaitingForData \in BOOLEAN /\ added \in BOOLEAN
  /\ bWaitingForData => http.status # "GOT_DATA"
  /\ Honest(http, added)
  /\ ListedByTheList

\* Answers are sequences of tokens.
LEMMA AnswersType == ASSUME NEW a \in Answers PROVE a \in Seq(Token)
<1>1. a \in Seq({a[i] : i \in DOMAIN a})
  BY ServerListerAssumption
<1>2. {a[i] : i \in DOMAIN a} \subseteq Token
  BY DEF Token
<1>3. Len(a) \in Nat /\ DOMAIN a = 1 .. Len(a) /\ a = [i \in 1 .. Len(a) |-> a[i]]
  BY <1>1
<1>4. \A i \in 1 .. Len(a) : a[i] \in Token
  BY <1>2, <1>3
<1> QED BY <1>3, <1>4

\* A client of a new process.
LEMMA NewClientType == H!NewClient \in Client
<1>1. MaxSockets \in Int
  BY ServerListerAssumption
<1> QED BY <1>1 DEF H!NewClient, Client

\* A client that gives up its socket keeps the rest.
LEMMA DisconnectType ==
  ASSUME NEW h \in Client
  PROVE  /\ H!Disconnect(h) \in Client
         /\ H!Disconnect(h).status = h.status /\ H!Disconnect(h).header = h.header
         /\ H!Disconnect(h).data = h.data /\ H!Disconnect(h).unread = h.unread
         /\ H!Disconnect(h).ok = h.ok
<1> DEFINE n == IF h.socket = "none" THEN h.free ELSE h.free + 1
<1>1. H!Disconnect(h) = [h EXCEPT !.socket = "none", !.connected = FALSE, !.free = n]
  BY DEF H!Disconnect, Client
<1>2. n \in Int
  BY DEF Client
<1> HIDE DEF n
<1> QED BY <1>1, <1>2 DEF Client

\* Connecting changes the socket and what the client returns.
LEMMA ConnectType ==
  ASSUME NEW h \in Client, NEW net \in H!Network
  PROVE  /\ H!Connect(h, net) \in Client
         /\ H!Connect(h, net).status = h.status /\ H!Connect(h, net).header = h.header
         /\ H!Connect(h, net).data = h.data /\ H!Connect(h, net).unread = h.unread
         /\ H!Connect(h, net).ok => net \in {"unsent", "sent"}
<1> DEFINE s == [h EXCEPT !.socket = "open", !.free = @ - 1]
<1>1. /\ s \in Client /\ s.status = h.status /\ s.header = h.header
      /\ s.data = h.data /\ s.unread = h.unread
  <2>1. h.free - 1 \in Int
    BY DEF Client
  <2> QED BY <2>1 DEF Client
<1>2. CASE h.free = 0
  BY <1>1, <1>2 DEF H!Connect, H!Failed, Client
<1>3. CASE h.free # 0 /\ net = "unresolved"
  <2>1. H!Connect(h, net) = [s EXCEPT !.ok = FALSE]
    BY <1>3 DEF H!Connect, H!Failed
  <2> QED BY <1>1, <2>1 DEF Client
<1>4. CASE h.free # 0 /\ net = "refused"
  <2>1. H!Connect(h, net) = [H!Disconnect(s) EXCEPT !.ok = FALSE]
    BY <1>4 DEF H!Connect, H!Failed
  <2> HIDE DEF s
  <2> DEFINE d == H!Disconnect(s)
  <2>2. /\ d \in Client /\ d.status = h.status /\ d.header = h.header
        /\ d.data = h.data /\ d.unread = h.unread
    BY <1>1, DisconnectType
  <2>3. H!Connect(h, net) = [d EXCEPT !.ok = FALSE]
    BY <2>1
  <2> HIDE DEF d
  <2> QED BY <2>2, <2>3 DEF Client
<1>5. CASE h.free # 0 /\ net \notin {"unresolved", "refused"}
  <2>1. H!Connect(h, net) = [s EXCEPT !.socket = "connected", !.connected = TRUE, !.ok = TRUE]
    BY <1>5 DEF H!Connect
  <2> QED BY <1>1, <1>5, <2>1 DEF Client, H!Network
<1> QED BY <1>2, <1>3, <1>4, <1>5

\* A post that fails leaves the client what it had of the last answer, or nothing;
\* one that does not, has the new answer before it, and nothing of another.
LEMMA PostedIs ==
  ASSUME NEW h \in Client, NEW net \in H!Network,
         NEW a \in Seq(Token), net = "sent" \/ a = <<>>
  PROVE  LET q == H!Request(h, net, a, TRUE)
         IN /\ q \in Client
            /\ q.ok => /\ net = "sent" /\ q.status = "GET_DATA"
                       /\ q.header = <<>> /\ q.data = <<>> /\ q.unread = a
            /\ ~q.ok => /\ q.status = h.status
                        /\ \/ q.header = h.header /\ q.data = h.data /\ q.unread = h.unread
                           \/ q.header = <<>> /\ q.data = <<>> /\ q.unread = <<>>
<1> DEFINE c == H!Connect(h, net)
           q == H!Request(h, net, a, TRUE)
<1>1. /\ c \in Client /\ c.status = h.status /\ c.header = h.header
      /\ c.data = h.data /\ c.unread = h.unread
      /\ c.ok => net \in {"unsent", "sent"}
  BY ConnectType
<1>2. c.ok \in BOOLEAN
  BY <1>1 DEF Client
<1> HIDE DEF c
<1>3. CASE ~c.ok
  <2>1. q = c
    BY <1>3 DEF H!Request, c
  <2> QED BY <1>1, <1>3, <2>1
<1>4. CASE c.ok /\ net = "unsent"
  <2>1. q = [c EXCEPT !.header = <<>>, !.data = <<>>, !.unread = <<>>, !.ok = FALSE]
    BY <1>1, <1>4 DEF H!Request, H!Failed, H!Cleared, Client, c
  <2>2. <<>> \in Seq(Token)
    OBVIOUS
  <2> QED BY <1>1, <2>1, <2>2 DEF Client
<1>5. CASE c.ok /\ net = "sent"
  <2>1. q = [c EXCEPT !.header = <<>>, !.data = <<>>, !.unread = a, !.status = "GET_DATA"]
    BY <1>1, <1>5 DEF H!Request, H!Sent, H!Cleared, Client, c
  <2>2. <<>> \in Seq(Token)
    OBVIOUS
  <2>3. /\ q \in Client /\ q.status = "GET_DATA" /\ q.ok
        /\ q.header = <<>> /\ q.data = <<>> /\ q.unread = a
    BY ZenonT(60), <1>1, <1>5, <2>1, <2>2 DEF Client
  <2> QED BY <1>5, <2>3
<1> QED BY <1>1, <1>2, <1>3, <1>4, <1>5

\* A blank line of a piece of an answer is one of the answer.
LEMMA BlankLineOf ==
  ASSUME NEW a \in Answers, NEW n \in 0 .. Len(a),
         NEW i \in H!BlankLines(SubSeq(a, 1, n))
  PROVE  i \in H!BlankLines(a) /\ i > 1 /\ i + 1 <= n
<1>1. a \in Seq(Token) /\ Len(a) \in Nat
  BY AnswersType
<1>2. /\ Len(SubSeq(a, 1, n)) = n
      /\ \A j \in 1 .. n : SubSeq(a, 1, n)[j] = a[j]
  BY <1>1
<1>3. i \in 1 .. n - 1 /\ a[i] = LineEnd /\ a[i + 1] = LineEnd
  BY <1>1, <1>2 DEF H!BlankLines
<1>4. i \in H!BlankLines(a)
  BY <1>1, <1>3 DEF H!BlankLines
<1>5. i # 1
  BY <1>1, <1>3, ServerListerAssumption
<1> QED BY <1>3, <1>4, <1>5

\* The last blank line is one of them.
LEMMA HeaderEndIs ==
  ASSUME NEW s \in Seq(Token), H!BlankLines(s) # {}
  PROVE  H!HeaderEnd(s) \in H!BlankLines(s)
<1> DEFINE B == H!BlankLines(s)
           T == {k \in Nat : Len(s) - k \in B}
<1>1. Len(s) \in Nat /\ B \subseteq 1 .. Len(s) - 1
  BY DEF H!BlankLines
<1> HIDE DEF B
<1>2. PICK b \in B : TRUE
  BY DEF B
<1>3. Len(s) - b \in T
  BY <1>1
<1>4. PICK k \in T : \A l \in T : ~(<<l, k>> \in OpToRel(<, Nat))
  BY <1>3, NatLessThanWellFounded, WFMin, Zenon
<1>5. ASSUME NEW y \in B
      PROVE  Len(s) - k >= y
  <2> SUFFICES ASSUME Len(s) - k < y PROVE FALSE
    BY <1>1
  <2>1. /\ Len(s) - y \in T /\ Len(s) - y < k
        /\ <<Len(s) - y, k>> \in Nat \X Nat
    BY <1>1
  <2>2. <<Len(s) - y, k>> \in OpToRel(<, Nat)
    BY <2>1, Zenon DEF OpToRel
  <2> QED BY <1>4, <2>1, <2>2, Zenon
<1>6. Len(s) - k \in B
  OBVIOUS
<1> QED BY <1>5, <1>6 DEF H!HeaderEnd, H!Max, B

\* What is joined to the first of two parts and then to the second, is joined to the whole.
Joins(x, p, e, a) == a = p \o e /\ \E d \in Seq(Token) : d = x \o p /\ d \o e = x \o a

\* Sequences can be joined in either order.
LEMMA Joined ==
  ASSUME NEW x \in Seq(Token), NEW p \in Seq(Token), NEW e \in Seq(Token)
  PROVE  Joins(x, p, e, p \o e)
<1> DEFINE d == x \o p
<1>1. d \in Seq(Token)
  BY ConcatProperties
<1>2. d \o e = x \o (p \o e)
  <2>1. (x \o p) \o e = x \o (p \o e)
    BY ConcatAssociative
  <2> QED BY <2>1
<1> QED BY <1>1, <1>2 DEF Joins

\* A sequence is its beginning and its end.
LEMMA Cut ==
  ASSUME NEW a \in Seq(Token), NEW m \in 1 .. Len(a) + 1, NEW n \in m - 1 .. Len(a)
  PROVE  SubSeq(a, m, n) \o SubSeq(a, n + 1, Len(a)) = SubSeq(a, m, Len(a))
<1>1. Len(a) \in n .. Len(a)
  OBVIOUS
<1> QED BY <1>1, ConcatAdjacentSubSeq
\* What is left of the answer is behind its header.
LEMMA FirstPieceIs ==
  ASSUME NEW h \in Client, h.status = "GET_DATA", h.header = <<>>, h.data = <<>>,
         h.unread \in Answers, NEW n \in 1 .. Len(h.unread),
         H!BlankLines(SubSeq(h.unread, 1, n)) # {}
  PROVE  LET q == H!Receive(h, n)
         IN /\ q \in Client /\ q.status = "GET_DATA" /\ q.header # <<>>
            /\ \E i \in H!BlankLines(h.unread) :
                 Coming(q) = SubSeq(h.unread, i + 2, Len(h.unread))
<1> DEFINE a == h.unread
           L == Len(a)
           piece == SubSeq(a, 1, n)
           i == H!HeaderEnd(piece)
           d == SubSeq(piece, i + 2, Len(piece))
           e == SubSeq(a, n + 1, L)
           q == H!Receive(h, n)
<1>1. a \in Seq(Token) /\ L \in Nat /\ n \in 1 .. L
  BY AnswersType
<1>2. /\ piece \in Seq(Token) /\ Len(piece) = n
      /\ \A j \in 1 .. n : piece[j] = a[j]
  BY <1>1
<1>3. i \in H!BlankLines(piece)
  BY <1>2, HeaderEndIs
<1>4. i \in H!BlankLines(a) /\ i > 1 /\ i + 1 <= n
  BY <1>3, BlankLineOf
<1>5. i \in Nat
  BY <1>4 DEF H!BlankLines
<1> HIDE DEF i, piece
<1>6. q = [h EXCEPT !.unread = e, !.header = SubSeq(piece, 1, i - 1), !.data = <<>> \o d]
  <2>1. ~(n = 0)
    OBVIOUS
  <2>2. H!Receive(h, n) = H!FirstPiece([h EXCEPT !.unread = e], piece)
    BY <2>1 DEF H!Receive, piece, Client
  <2> QED BY <2>2 DEF H!FirstPiece, Client, i, piece
<1>7. /\ SubSeq(piece, 1, i - 1) \in Seq(Token) /\ Len(SubSeq(piece, 1, i - 1)) = i - 1
      /\ e \in Seq(Token) /\ Len(e) = L - n /\ \A j \in 1 .. L - n : e[j] = a[n + j]
  BY <1>1, <1>2, <1>4, <1>5
<1>8. /\ d \in Seq(Token) /\ Len(d) = n - i - 1 /\ \A j \in 1 .. n - i - 1 : d[j] = a[i + 1 + j]
  BY <1>2, <1>4, <1>5
<1> DEFINE b == SubSeq(piece, 1, i - 1)
<1> HIDE DEF b
<1>9. b \in Seq(Token) /\ b # <<>>
  <2>1. b \in Seq(Token) /\ Len(b) = i - 1
    BY <1>7 DEF b
  <2>2. i - 1 > 0
    BY <1>4, <1>5
  <2> QED BY <2>1, <2>2
<1> HIDE DEF d, e
<1>10. <<>> \o d = d
  BY <1>8
<1>11. /\ q \in Client /\ q.status = "GET_DATA" /\ q.header # <<>>
       /\ q.data = d /\ q.unread = e
  <2>1. q = [h EXCEPT !.unread = e, !.header = b, !.data = d]
    BY <1>6, <1>10 DEF b
  <2>2. d \in Seq(Token) /\ e \in Seq(Token)
    BY <1>7, <1>8
  <2> QED BY <1>9, <2>1, <2>2 DEF Client
<1>12. d \o e = SubSeq(a, i + 2, L)
  <2>1. SubSeq(a, i + 2, n) \o e = SubSeq(a, i + 2, L)
    <3>1. i + 2 \in 1 .. L + 1 /\ n \in (i + 2) - 1 .. L
      BY <1>1, <1>4, <1>5
    <3> HIDE DEF a
    <3> QED BY <1>1, <3>1, Cut DEF e
  <2>2. /\ SubSeq(a, i + 2, n) \in Seq(Token) /\ Len(SubSeq(a, i + 2, n)) = n - i - 1
        /\ \A j \in 1 .. n - i - 1 : SubSeq(a, i + 2, n)[j] = a[i + 1 + j]
    BY <1>1, <1>4, <1>5
  <2>3. d = SubSeq(a, i + 2, n)
    BY <1>8, <2>2, SeqEqual
  <2> QED BY <2>1, <2>3
<1>13. Coming(q) = d \o e
  BY <1>11 DEF Coming
<1> QED BY <1>4, <1>11, <1>12, <1>13

\* A later piece goes from what is unread to the data.
LEMMA NextPieceIs ==
  ASSUME NEW h \in Client, h.status = "GET_DATA", h.header # <<>>,
         NEW n \in 1 .. Len(h.unread)
  PROVE  LET q == H!Receive(h, n)
         IN /\ q \in Client /\ q.status = "GET_DATA" /\ q.header # <<>>
            /\ Coming(q) = Coming(h)
<1>1. PICK a \in Seq(Token), x \in Seq(Token) : a = h.unread /\ x = h.data
  BY DEF Client
<1> DEFINE p == SubSeq(a, 1, n)
           e == SubSeq(a, n + 1, Len(a))
<1>2. p \in Seq(Token) /\ e \in Seq(Token)
  BY <1>1
<1>3. a = p \o e
  <2>1. p \o e = SubSeq(a, 1, Len(a))
    BY <1>1, Cut
  <2>2. SubSeq(a, 1, Len(a)) = a
    BY <1>1
  <2> QED BY <2>1, <2>2, Zenon
<1>4. H!Receive(h, n) = [h EXCEPT !.unread = e, !.data = x \o p]
  BY <1>1 DEF H!Receive, H!NextPiece, Client
<1> HIDE DEF p, e
<1>5. Joins(x, p, e, p \o e)
  BY <1>1, <1>2, Joined
<1>6. Joins(x, p, e, a)
  BY <1>3, <1>5, Zenon
<1>7. PICK d \in Seq(Token) : d = x \o p /\ d \o e = x \o a
  BY <1>6, Zenon DEF Joins
<1>8. H!Receive(h, n) = [h EXCEPT !.unread = e, !.data = d]
  BY <1>4, <1>7, Zenon
<1> DEFINE q == [h EXCEPT !.unread = e, !.data = d]
<1>9. /\ q \in Client /\ q.status = "GET_DATA" /\ q.header = h.header
      /\ q.data = d /\ q.unread = e
  BY <1>2 DEF Client
<1> HIDE DEF q
<1>10. Coming(q) = x \o a /\ Coming(h) = x \o a
  BY <1>1, <1>7, <1>9, Zenon DEF Coming
<1>11. H!Receive(h, n) = q
  BY <1>8 DEF q
<1> QED BY <1>9, <1>10, <1>11, Zenon

\* What is read of an answer that is honest is honest, and if it is an "Added" when
\* it ends, the list has said it.
LEMMA ReceiveHonest ==
  ASSUME NEW h \in Client, NEW said \in BOOLEAN, Honest(h, said),
         NEW n \in 0 .. Len(h.unread)
  PROVE  LET q == H!Receive(h, n)
         IN /\ q \in Client /\ Honest(q, said)
            /\ q.status = "GOT_DATA" /\ h.status # "GOT_DATA" /\ q.data = Added => said
<1> DEFINE q == H!Receive(h, n)
<1>1. CASE h.status # "GET_DATA"
  <2>1. q = h
    BY <1>1 DEF H!Receive
  <2> QED BY <1>1, <2>1
<1>2. CASE h.status = "GET_DATA" /\ n = 0
  <2>1. q = [H!Disconnect(h) EXCEPT !.status = "GOT_DATA"]
    BY <1>2 DEF H!Receive
  <2>2. q \in Client /\ q.status = "GOT_DATA" /\ q.data = h.data
    <3> DEFINE d == H!Disconnect(h)
    <3>1. d \in Client /\ d.data = h.data
      BY DisconnectType
    <3> HIDE DEF d
    <3>2. q = [d EXCEPT !.status = "GOT_DATA"]
      BY <2>1 DEF d
    <3> QED BY <3>1, <3>2 DEF Client
  <2>3. ASSUME h.data = Added PROVE said
    <3>1. h.header # <<>>
      BY <1>2, <2>3, ServerListerAssumption, Zenon DEF Honest
    <3>2. IsPrefix(h.data, Coming(h)) => said
      BY <1>2, <2>3, <3>1, Zenon DEF Honest
    <3>3. IsPrefix(h.data, Coming(h))
      <4>1. PICK x \in Seq(Token), y \in Seq(Token) : x = h.data /\ y = h.unread
        BY DEF Client
      <4>2. IsPrefix(x, x \o y)
        BY DEF IsPrefix
      <4> QED BY <4>1, <4>2, Zenon DEF Coming
    <3> QED BY <3>2, <3>3
  <2> QED BY <2>2, <2>3, Zenon DEF Honest
<1>3. CASE h.status = "GET_DATA" /\ n # 0 /\ h.header = <<>>
  <2>1. n \in 1 .. Len(h.unread) /\ h.unread # <<>>
    BY <1>3 DEF Client
  <2>2. h.data = <<>> /\ h.unread \in Answers /\ (Says(h.unread, Added) => said)
    BY <1>3, <2>1, Zenon DEF Honest
  <2>3. CASE H!BlankLines(SubSeq(h.unread, 1, n)) = {}
    <3> DEFINE s == [h EXCEPT !.unread = SubSeq(@, n + 1, Len(@))]
    <3>1. s \in Client
      <4>1. SubSeq(h.unread, n + 1, Len(h.unread)) \in Seq(Token)
        BY DEF Client
      <4> QED BY <4>1 DEF Client
    <3>2. q = [H!Disconnect(s) EXCEPT !.status = "INVALID"]
      BY <1>3, <2>3 DEF H!Receive, H!FirstPiece
    <3> HIDE DEF s
    <3> DEFINE d == H!Disconnect(s)
    <3>3. d \in Client
      BY <3>1, DisconnectType
    <3> HIDE DEF d
    <3>4. q = [d EXCEPT !.status = "INVALID"]
      BY <3>2 DEF d
    <3>5. q \in Client /\ q.status = "INVALID"
      BY <3>3, <3>4 DEF Client
    <3> QED BY <3>5, Zenon DEF Honest
  <2>4. CASE H!BlankLines(SubSeq(h.unread, 1, n)) # {}
    <3>1. q \in Client /\ q.status = "GET_DATA" /\ q.header # <<>>
      BY <1>3, <2>1, <2>2, <2>4, FirstPieceIs
    <3>2. PICK i \in H!BlankLines(h.unread) :
            Coming(q) = SubSeq(h.unread, i + 2, Len(h.unread))
      BY <1>3, <2>1, <2>2, <2>4, FirstPieceIs
    <3> HIDE DEF q
    <3>3. IsPrefix(Added, Coming(q)) => said
      BY <2>2, <3>2, Zenon DEF Says
    <3>4. Honest(q, said)
      BY <3>1, <3>3, Zenon DEF Honest
    <3> QED BY <3>1, <3>4 DEF q
  <2> QED BY <2>3, <2>4
<1>4. CASE h.status = "GET_DATA" /\ n # 0 /\ h.header # <<>>
  <2>1. n \in 1 .. Len(h.unread)
    BY <1>4 DEF Client
  <2>2. /\ q \in Client /\ q.status = "GET_DATA" /\ q.header # <<>>
        /\ Coming(q) = Coming(h)
    BY <1>4, <2>1, NextPieceIs
  <2> HIDE DEF q
  <2>3. IsPrefix(Added, Coming(h)) => said
    BY <1>4, Zenon DEF Honest
  <2>4. IsPrefix(Added, Coming(q)) => said
    BY <2>2, <2>3, Zenon
  <2>5. Honest(q, said)
    BY <2>2, <2>4, Zenon DEF Honest
  <2> QED BY <2>2, <2>5 DEF q
<1> QED BY <1>1, <1>2, <1>3, <1>4

\* The message the operator reads: listed only of an "Added".
LEMMA HeardIs ==
  ASSUME NEW data, NEW known, "listed" \in Heard(data, known)
  PROVE  data = Added \/ "listed" \in known
  BY DEF Heard, Hear, Others
\* A client after a post, if one is due.
LEMMA PostHonest ==
  ASSUME ListerInvariant, Due, NEW r \in Replies,
         NEW said \in BOOLEAN,
         said <=> (added \/ (Posted(r).ok /\ Says(r.answer, Added)))
  PROVE  LET p == Posted(r)
         IN /\ p \in Client /\ Honest(p, said)
            /\ p.ok => p.status = "GET_DATA"
            /\ ~p.ok => p.status = http.status
<1> DEFINE p == Posted(r)
<1>1. /\ r.net \in H!Network /\ r.answer \in Seq(Token)
      /\ r.net = "sent" => r.answer \in Answers
      /\ r.net # "sent" => r.answer = <<>>
  <2>1. \A a \in Answers : Reply("sent", a).net \in H!Network
    BY DEF Reply, H!Network
  <2>2. Good \in Answers
    BY ServerListerAssumption
  <2>3. \/ \E a \in Answers : r = Reply("sent", a)
        \/ \E m \in H!Network \ {"sent"} : r = Reply(m, <<>>)
    BY <2>2 DEF Replies
  <2>4. <<>> \in Seq(Token)
    OBVIOUS
  <2>5. CASE \E a \in Answers : r = Reply("sent", a)
    BY <2>1, <2>5, AnswersType DEF Reply
  <2>6. CASE \E m \in H!Network \ {"sent"} : r = Reply(m, <<>>)
    BY <2>4, <2>6 DEF Reply
  <2> QED BY <2>3, <2>5, <2>6
<1>2. /\ p \in Client
      /\ p.ok => /\ r.net = "sent" /\ p.status = "GET_DATA"
                 /\ p.header = <<>> /\ p.data = <<>> /\ p.unread = r.answer
      /\ ~p.ok => /\ p.status = http.status
                  /\ \/ p.header = http.header /\ p.data = http.data /\ p.unread = http.unread
                     \/ p.header = <<>> /\ p.data = <<>> /\ p.unread = <<>>
  <2>1. http \in Client
    BY DEF ListerInvariant
  <2> HIDE DEF p
  <2>2. p = H!Request(http, r.net, r.answer, TRUE)
    BY DEF p, Posted
  <2> DEFINE q == H!Request(http, r.net, r.answer, TRUE)
  <2>3. /\ q \in Client
        /\ q.ok => /\ r.net = "sent" /\ q.status = "GET_DATA"
                   /\ q.header = <<>> /\ q.data = <<>> /\ q.unread = r.answer
        /\ ~q.ok => /\ q.status = http.status
                    /\ \/ q.header = http.header /\ q.data = http.data /\ q.unread = http.unread
                       \/ q.header = <<>> /\ q.data = <<>> /\ q.unread = <<>>
    <3>1. PICK net \in H!Network, a \in Seq(Token), h \in Client :
            net = r.net /\ a = r.answer /\ h = http
      BY <1>1, <2>1
    <3>2. net = "sent" \/ a = <<>>
      BY <1>1, <3>1
    <3> DEFINE s == H!Request(h, net, a, TRUE)
    <3>3. /\ s \in Client
          /\ s.ok => /\ net = "sent" /\ s.status = "GET_DATA"
                     /\ s.header = <<>> /\ s.data = <<>> /\ s.unread = a
          /\ ~s.ok => /\ s.status = h.status
                      /\ \/ s.header = h.header /\ s.data = h.data /\ s.unread = h.unread
                         \/ s.header = <<>> /\ s.data = <<>> /\ s.unread = <<>>
      BY <3>2, PostedIs
    <3> HIDE DEF s, q
    <3>4. q = s
      BY <3>1 DEF s, q
    <3> QED BY <3>1, <3>3, <3>4
  <2> HIDE DEF q
  <2>4. p = q
    BY <2>2 DEF q
  <2> QED BY <2>3, <2>4, Zenon
<1>3. Honest(http, added) /\ added \in BOOLEAN
  BY DEF ListerInvariant
<1>4. said <=> (added \/ (p.ok /\ Says(r.answer, Added)))
  OBVIOUS
<1> HIDE DEF p
<1>5. ASSUME p.ok PROVE Honest(p, said)
  <2>1. p.header = <<>> /\ p.data = <<>> /\ p.unread \in Answers
    BY <1>1, <1>2, <1>5
  <2>2. Says(p.unread, Added) => said
    BY <1>2, <1>4, <1>5, Zenon
  <2> QED BY <2>1, <2>2, Zenon DEF Honest
<1>6. ASSUME ~p.ok PROVE Honest(p, said)
  <2>1. said <=> added
    BY <1>4, <1>6
  <2>2. p.status = http.status
    BY <1>2, <1>6
  <2>3. CASE p.header = http.header /\ p.data = http.data /\ p.unread = http.unread
    <3>1. Coming(p) = Coming(http)
      BY <2>3 DEF Coming
    <3> QED BY <3>1, <1>3, <2>1, <2>2, <2>3, Zenon DEF Honest
  <2>4. CASE p.header = <<>> /\ p.data = <<>> /\ p.unread = <<>>
    <3>1. ~Says(<<>>, Added)
      BY DEF Says, H!BlankLines
    <3> QED BY <2>4, <3>1, Zenon DEF Honest
  <2> QED BY <1>2, <1>6, <2>3, <2>4
<1>7. p \in Client /\ Honest(p, said) /\ (p.ok => p.status = "GET_DATA")
      /\ (~p.ok => p.status = http.status)
  BY <1>2, <1>5, <1>6
<1> QED BY <1>7 DEF p

\* What the lister knows holds at the start.
LEMMA InitListed == ListerInit => ListerInvariant
<1> SUFFICES ASSUME ListerInit PROVE ListerInvariant
  OBVIOUS
<1>1. http = H!NewClient /\ http.status = "NONE"
  BY DEF ListerInit, H!Init, H!NewClient
<1>2. http \in Client
  BY <1>1, NewClientType
<1> QED BY <1>1, <1>2 DEF ListerInit, ListerInvariant, Honest, ListedByTheList

\* A frame: what is heard of a client that has read another piece, the list has said.
LEMMA ProcessListed ==
  ASSUME ListerInvariant, Process
  PROVE  ListerInvariant'
<1>1. PICK r \in IF Due THEN Replies ELSE {Reply("sent", <<>>)} :
        LET p     == IF Due THEN Posted(r) ELSE http
            waits == bWaitingForData \/ (Due /\ p.ok)
            known == IF Due /\ ~p.ok THEN sent \cup {"failed"} ELSE sent
            ends  == waits /\ http'.status = "GOT_DATA"
        IN /\ added' = (added \/ (Due /\ p.ok /\ Says(r.answer, Added)))
           /\ IF waits THEN \E n \in Pieces(p) : http' = H!Receive(p, n) ELSE http' = p
           /\ bWaitingForData' = (waits /\ ~ends)
           /\ sent' = IF ends THEN Heard(http'.data, known) ELSE known
  BY DEF Process
<1> DEFINE p     == IF Due THEN Posted(r) ELSE http
           waits == bWaitingForData \/ (Due /\ p.ok)
           known == IF Due /\ ~p.ok THEN sent \cup {"failed"} ELSE sent
           ends  == waits /\ http'.status = "GOT_DATA"
<1>2. /\ http \in Client /\ bWaitingForData \in BOOLEAN /\ added \in BOOLEAN
      /\ bWaitingForData => http.status # "GOT_DATA"
      /\ Honest(http, added) /\ ListedByTheList
  BY DEF ListerInvariant
<1>3. PICK said \in BOOLEAN : said <=> (added \/ (Due /\ p.ok /\ Says(r.answer, Added)))
  <2>1. \A b : \E s \in BOOLEAN : s <=> b
    OBVIOUS
  <2> QED BY <2>1
<1>4. added' = said /\ (added => said)
  <2>1. added' = (added \/ (Due /\ p.ok /\ Says(r.answer, Added)))
    BY <1>1
  <2> QED BY <1>3, <2>1
<1>5. p \in Client /\ Honest(p, said) /\ (waits => p.status # "GOT_DATA")
  <2>1. CASE Due
    <3>1. /\ Posted(r) \in Client /\ Honest(Posted(r), said)
          /\ Posted(r).ok => Posted(r).status = "GET_DATA"
          /\ ~Posted(r).ok => Posted(r).status = http.status
      <4>1. said <=> (added \/ (Posted(r).ok /\ Says(r.answer, Added)))
        BY <1>3, <2>1
      <4>2. r \in Replies
        BY <2>1
      <4> QED BY <2>1, <4>1, <4>2, PostHonest
    <3> QED BY <1>2, <2>1, <3>1
  <2>2. CASE ~Due
    <3>1. said <=> added
      BY <1>3, <2>2
    <3>2. p = http
      BY <2>2
    <3>3. said = added
      BY <1>2, <3>1
    <3> QED BY <1>2, <2>2, <3>2, <3>3, Zenon
  <2> QED BY <2>1, <2>2
<1>6. ("listed" \in known <=> "listed" \in sent)
  OBVIOUS
<1>7. /\ IF waits THEN \E n \in Pieces(p) : http' = H!Receive(p, n) ELSE http' = p
      /\ bWaitingForData' = (waits /\ ~ends)
      /\ sent' = IF ends THEN Heard(http'.data, known) ELSE known
  BY <1>1
<1> HIDE DEF p, waits, known
<1>8. http' \in Client /\ Honest(http', said) /\ (ends /\ http'.data = Added => said)
  <2>1. CASE waits
    <3>1. PICK n \in Pieces(p) : http' = H!Receive(p, n)
      BY <1>7, <2>1
    <3>2. n \in 0 .. Len(p.unread)
      <4>1. Len(p.unread) \in Nat
        BY <1>5 DEF Client
      <4> QED BY <4>1 DEF Pieces, H!Pieces
    <3>3. LET q == H!Receive(p, n)
          IN /\ q \in Client /\ Honest(q, said)
             /\ q.status = "GOT_DATA" /\ p.status # "GOT_DATA" /\ q.data = Added => said
      BY <1>5, <3>2, ReceiveHonest
    <3> QED BY <1>5, <2>1, <3>1, <3>3
  <2>2. CASE ~waits
    <3>1. http' = p
      BY <1>7, <2>2
    <3> QED BY <1>5, <2>2, <3>1
  <2> QED BY <2>1, <2>2
<1>9. ASSUME "listed" \in sent' PROVE said
  <2>1. CASE ends
    <3>1. http'.data = Added \/ "listed" \in known
      BY <1>7, <1>9, <2>1, HeardIs
    <3> QED BY <1>2, <1>4, <1>6, <1>8, <2>1, <3>1 DEF ListedByTheList
  <2>2. CASE ~ends
    <3>1. "listed" \in known
      BY <1>7, <1>9, <2>2
    <3> QED BY <1>2, <1>4, <1>6, <3>1 DEF ListedByTheList
  <2> QED BY <2>1, <2>2
<1>10. /\ bWaitingForData' \in BOOLEAN /\ added' \in BOOLEAN
       /\ bWaitingForData' => http'.status # "GOT_DATA"
  BY <1>4, <1>7
<1>11. Honest(http, added)' /\ ListedByTheList'
  <2>1. Honest(http', added')
    BY <1>4, <1>8
  <2>2. "listed" \in sent' => added'
    BY <1>4, <1>9
  <2> QED BY <2>1, <2>2 DEF Honest, ListedByTheList, Coming, Says, H!BlankLines
<1> QED BY <1>8, <1>10, <1>11 DEF ListerInvariant, Client, Token

\* Whoever deletes the client takes what it has read with it.
LEMMA OnUnloadListed ==
  ASSUME ListerInvariant, OnUnload
  PROVE  ListerInvariant'
<1>1. /\ http' = H!Delete(http)
      /\ UNCHANGED <<bWaitingForData, sent, added>>
      /\ http \in Client
  BY DEF OnUnload, H!Destroy, ListerInvariant
<1> DEFINE n == IF http.connected THEN H!Disconnect(http).free ELSE http.free
<1>2. n \in Int
  BY <1>1, DisconnectType DEF Client
<1>3. http' = [H!NewClient EXCEPT !.status = "DELETED", !.free = n]
  BY <1>1 DEF H!Delete
<1> HIDE DEF n
<1>4. http' \in Client /\ http'.status = "DELETED"
  BY <1>2, <1>3, NewClientType DEF Client
<1> QED BY <1>1, <1>4 DEF ListerInvariant, Honest, ListedByTheList, Client, Token

\* Every step keeps what the lister knows to what the list has said.
LEMMA NextListed == ListerInvariant /\ [ListerNext]_listerVars => ListerInvariant'
<1> SUFFICES ASSUME ListerInvariant, [ListerNext]_listerVars
             PROVE  ListerInvariant'
  OBVIOUS
<1>1. CASE Process
  BY <1>1, ProcessListed
<1>2. CASE OnUnload
  BY <1>2, OnUnloadListed
<1>3. CASE Tick \/ BecomeHealthy \/ UNCHANGED listerVars
  <2>1. UNCHANGED <<http, bWaitingForData, sent, added>>
    BY <1>3 DEF Tick, BecomeHealthy, listerVars
  <2> QED BY <2>1 DEF ListerInvariant, ListedByTheList, Honest, Client, Token,
             Coming, Says, H!BlankLines
<1> QED BY <1>1, <1>2, <1>3 DEF ListerNext

\* The server takes itself for listed only if the list has said so, in what follows a
\* blank line of one of its answers, in every behaviour and for any answers that begin
\* with a status line (CServerLister::Process, CHttpClient::Process).
THEOREM AlwaysListedByTheList == ListerSpec => []ListedByTheList
<1>1. ListerInvariant => ListedByTheList
  BY DEF ListerInvariant
<1> QED BY InitListed, NextListed, <1>1, PTL DEF ListerSpec
=============================================================================
