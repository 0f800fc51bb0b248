----------------------------- MODULE InputQueue -----------------------------
(***************************************************************************)
(* The console input of the server: the input thread of the launcher reads *)
(* lines and adds them to a queue, the main thread takes them off between  *)
(* two frames, and the main thread shuts the server down.  CMutex guards   *)
(* the queue; its Windows and its pthread build differ.                    *)
(***************************************************************************)
EXTENDS Integers, Sequences

CONSTANTS
  Builds,   \* the builds considered: TRUE for pthreads, FALSE for the Windows API
  MaxLines  \* bound: lines read to their end in a behaviour

ASSUME InputQueueAssumption == Builds \subseteq BOOLEAN /\ MaxLines \in Nat

\* Lines as typed: a shutdown command, one with a character after it, another.
Line == {"quit", "quit.", "other"}
NoText == "none"   \* the empty string

VARIABLES
  linux,    \* which build runs; it never changes
  mainPc,   \* where the main thread is
  inputPc,  \* where the input thread is
  owner,    \* the thread that holds m_inputQueueMutex, or "none"
  queue,    \* m_inputQueue
  line,     \* strInputString of the input thread
  before,   \* what fgets has given since the last line that was read to its end:
            \* nothing, a part of the same line, or a line that filled the buffer
  active,   \* m_bActive
  running,  \* the user data of the input thread: go on
  typed,    \* history: the lines read to their end, as typed, and whether a line
            \* that filled the buffer was read just before
  handled   \* history: the lines taken off the queue

mainVars == <<linux, mainPc, active, running, handled>>
inputVars == <<linux, inputPc, line, before, typed>>
vars == <<linux, mainPc, inputPc, owner, queue, line, before, active, running, typed,
          handled>>

\* strInputString += szInputBuffer: no line is left of two put together.
Appended(text, l) == IF text = NoText THEN l ELSE "other"

\* What is left of a line.  Windows cuts off its \n; Linux the two characters
\* of an \r\n, although a terminal ends a line with \n alone.
CutLine(l) ==
  CASE ~linux               -> l
    [] linux /\ l = "quit." -> "quit"
    [] OTHER                 -> "other"

Init ==
  /\ linux \in Builds
  /\ mainPc = "frame"
  /\ inputPc = "check"
  /\ owner = "none"
  /\ queue = <<>>
  /\ line = NoText
  /\ before = "nothing"
  /\ active = TRUE
  /\ running = TRUE
  /\ typed = <<>>
  /\ handled = <<>>

-----------------------------------------------------------------------------
(* The main thread: the loop of main(), CServer::ProcessInputQueue *)

MainGoes(from, to) == mainPc = from /\ mainPc' = to

\* The loop of main() tests IsActive once a frame.
Frame ==
  /\ MainGoes("frame", IF active THEN "try" ELSE "stop")
  /\ UNCHANGED <<inputVars, owner, queue, active, running, handled>>

\* CMutex::TryLock(0).  pthread_mutex_trylock returns 0 when it got the mutex
\* and EBUSY when it did not; the code takes the result for a boolean.
TryLock_Unchecked ==
  /\ MainGoes("try", "drain")
  /\ owner' = IF owner = "none" THEN "main" ELSE owner
  /\ UNCHANGED <<inputVars, queue, active, running, handled>>
TryLock ==
  /\ MainGoes("try", IF (owner = "none") # linux THEN "drain" ELSE "frame")
  /\ owner' = IF owner = "none" THEN "main" ELSE owner
  /\ UNCHANGED <<inputVars, queue, active, running, handled>>

\* One line off the queue.  A shutdown command ends the loop.
TakeLine_LeavesIt ==
  /\ queue # <<>>
  /\ handled' = Append(handled, Head(queue))
  /\ IF Head(queue) = "quit"
     THEN MainGoes("drain", "unlock") /\ active' = FALSE /\ UNCHANGED queue
     ELSE MainGoes("drain", "drain") /\ queue' = Tail(queue) /\ UNCHANGED active
  /\ UNCHANGED <<inputVars, owner, running>>
TakeLine ==
  /\ queue # <<>>
  /\ handled' = Append(handled, Head(queue))
  /\ queue' = Tail(queue)
  /\ IF Head(queue) = "quit"
     THEN MainGoes("drain", "unlock") /\ active' = FALSE
     ELSE MainGoes("drain", "drain") /\ UNCHANGED active
  /\ UNCHANGED <<inputVars, owner, running>>

QueueEmpty ==
  /\ queue = <<>>
  /\ MainGoes("drain", "unlock")
  /\ UNCHANGED <<inputVars, owner, queue, active, running, handled>>

\* CMutex::Unlock; a pthread mutex is released whichever thread unlocks it.
MainUnlock ==
  /\ MainGoes("unlock", "frame")
  /\ owner' = "none"
  /\ UNCHANGED <<inputVars, queue, active, running, handled>>

\* SetUserData(false), Stop(false): the thread is not waited for.
StopInput ==
  /\ MainGoes("stop", "unload")
  /\ running' = FALSE
  /\ UNCHANGED <<inputVars, owner, queue, active, handled>>

\* OnUnload and DestroyServerInterface: the queue and its mutex are gone.
Unload_Waits ==
  /\ inputPc = "done"
  /\ MainGoes("unload", "exit")
  /\ UNCHANGED <<inputVars, owner, queue, active, running, handled>>
Unload ==
  /\ MainGoes("unload", "exit")
  /\ UNCHANGED <<inputVars, owner, queue, active, running, handled>>

\* main() returns and ends the process.
Exit ==
  /\ MainGoes("exit", "gone")
  /\ UNCHANGED <<inputVars, owner, queue, active, running, handled>>

\* The signal or console handler: SetActive(false).
Signal ==
  /\ active
  /\ active' = FALSE
  /\ UNCHANGED <<inputVars, mainPc, owner, queue, running, handled>>

-----------------------------------------------------------------------------
(* The input thread: InputThread, CServer::AddToInputQueue *)

InputGoes(from, to) == mainPc # "gone" /\ inputPc = from /\ inputPc' = to

CheckRunning ==
  /\ InputGoes("check", IF running THEN "read" ELSE "done")
  /\ UNCHANGED <<mainVars, owner, queue, line, before, typed>>

\* fgets returns a line, or the rest of one, with its newline.  At the end of the
\* file it leaves the buffer as it was, and what is there is taken for a new line.
ReadLine(l) ==
  /\ Len(typed) < MaxLines
  /\ InputGoes("read", "lock")
  /\ line' = CutLine(Appended(line, l))
  /\ before' = "nothing"
  /\ typed' = Append(typed, [text  |-> IF before = "part" THEN "other" ELSE l,
                             alone |-> before # "filled"])
  /\ UNCHANGED <<mainVars, owner, queue>>

\* fgets fills the buffer with a part of a line.
ReadPart ==
  /\ InputGoes("read", "check")
  /\ line' = Appended(line, "other")
  /\ before' = IF before = "filled" THEN "filled" ELSE "part"
  /\ UNCHANGED <<mainVars, owner, queue, typed>>

\* fgets returns a newline alone: an empty line, or the end of one whose text filled
\* the buffer.  It is skipped, and the text read before it stays where it is.
ReadNewline ==
  /\ InputGoes("read", "check")
  /\ before' = IF before = "part" THEN "filled" ELSE before
  /\ UNCHANGED <<mainVars, owner, queue, line, typed>>

InputLock ==
  /\ InputGoes("lock", "push")
  /\ owner = "none"
  /\ owner' = "input"
  /\ UNCHANGED <<mainVars, queue, line, before, typed>>

Push ==
  /\ InputGoes("push", "unlock")
  /\ queue' = Append(queue, line)
  /\ UNCHANGED <<mainVars, owner, line, before, typed>>

\* And strInputString.Clear().
InputUnlock_KeepsText ==
  /\ InputGoes("unlock", "check")
  /\ owner' = "none"
  /\ UNCHANGED <<mainVars, queue, line, before, typed>>
InputUnlock ==
  /\ InputGoes("unlock", "check")
  /\ owner' = "none"
  /\ line' = NoText
  /\ UNCHANGED <<mainVars, queue, before, typed>>

\* pthread_cancel takes effect where the thread waits: in fgets and in Sleep.
Cancelled ==
  /\ linux
  /\ ~running
  /\ InputGoes(inputPc, "done")
  /\ inputPc \in {"read", "check"}
  /\ UNCHANGED <<mainVars, owner, queue, line, before, typed>>

-----------------------------------------------------------------------------
MainStep ==
  Frame \/ TryLock \/ TakeLine \/ QueueEmpty \/ MainUnlock \/ StopInput \/ Unload
  \/ Exit

InputStep ==
  CheckRunning \/ ReadPart \/ ReadNewline \/ InputLock \/ Push \/ InputUnlock
  \/ Cancelled

Next == MainStep \/ InputStep \/ Signal \/ \E l \in Line : ReadLine(l)

Spec == Init /\ [][Next]_vars

\* The scheduler runs both threads.  The main thread sleeps between the release
\* of the mutex and its next attempt, which lets a waiting thread have it.
\* Nobody has to type anything.
Fairness ==
  /\ WF_vars(MainStep)
  /\ WF_vars(CheckRunning) /\ WF_vars(Push) /\ WF_vars(InputUnlock)
  /\ SF_vars(InputLock)

FairSpec == Spec /\ Fairness

-----------------------------------------------------------------------------
(* Properties *)

\* Threads, mutex and queue are in states the code has, and the queue holds
\* what a read line was cut to.
TypeOK ==
  /\ linux \in BOOLEAN
  /\ mainPc \in {"frame", "try", "drain", "unlock", "stop", "unload", "exit", "gone"}
  /\ inputPc \in {"check", "read", "lock", "push", "unlock", "done"}
  /\ owner \in {"none", "main", "input"}
  /\ queue \in Seq(Line)
  /\ line \in Line \cup {NoText}
  /\ inputPc \in {"lock", "push"} => line \in Line
  /\ before \in {"nothing", "part", "filled"}
  /\ active \in BOOLEAN
  /\ running \in BOOLEAN
  /\ typed \in Seq([text : Line, alone : BOOLEAN])
  /\ handled \in Seq(Line)

\* On Windows a thread holds the mutex exactly while it is between its lock and
\* its unlock: the strengthening that carries WindowsExclusion.
LockDiscipline ==
  ~linux => /\ owner = "main" <=> mainPc \in {"drain", "unlock"}
            /\ owner = "input" <=> inputPc \in {"push", "unlock"}

\* "Did the mutex lock successfully?": the two threads are never in the queue,
\* a std::queue without any locking of its own, at the same time.
MutualExclusion ==
  ~(mainPc \in {"drain", "unlock"} /\ inputPc \in {"push", "unlock"})

\* The Windows build keeps to MutualExclusion.
WindowsExclusion == ~linux => MutualExclusion

\* What comes of a line: its text, but for one typed after a line that filled the
\* buffer; the two are joined.
Made(t) == CutLine(IF t.alone THEN t.text ELSE "other")

\* In the Windows build every line read to its end is handled once and in order: what
\* was handled, what is queued and what the input thread is about to queue make up
\* what was typed, but for a line that fills the buffer.  That one is not handled
\* until another is typed, and joined to it.
NoLineLost ==
  ~linux =>
    /\ handled \o queue \o (IF inputPc \in {"lock", "push"} THEN <<line>> ELSE <<>>)
         = [i \in DOMAIN typed |-> Made(typed[i])]
    /\ inputPc = "read" => (line = NoText <=> before = "nothing")

\* "Shutdown command, set the active flag to false": in the Windows build a
\* shutdown command ends the server, unless the line typed before it filled the
\* buffer.
ShutdownCommandWorks ==
  (~linux /\ \E i \in DOMAIN typed : typed[i].text = "quit" /\ typed[i].alone)
    ~> ~active

\* A server that is no longer active comes to its end: nothing the input thread
\* does, blocked in fgets above all, keeps the main thread from leaving.
ShutdownCompletes == ~active ~> mainPc = "gone"
=============================================================================
