---------------------------- MODULE ProcessTasks ----------------------------
(***************************************************************************)
(* The programs that fork children and handle signals, of which one is     *)
(* started: 3-Process (ForkWait), 5-Signal task1 to task4 (SigintCount,    *)
(* AlarmClock, Usr1Count, SignalFd) and 8-Pipe (Pipeline).  They share     *)
(* only the library; the programs not started stay in their initial state. *)
(***************************************************************************)
EXTENDS Naturals

CONSTANTS
  MaxKilled,                              \* 3-Process
  MaxSigint, Limit, Late, Times,          \* 5-Signal task1, task2, task3
  MaxLines, MaxSignals,                   \* 5-Signal task4
  NumLines, Capacity, MaxFail, MaxKill    \* 8-Pipe

VARIABLES
  started,
  program, argv1, env, dumpcore, main, kid, ppid, status, logged, killed,
  signal_count, action, raised, sigints, loop,
  seconds, timer, handled, clock,
  count, pending, installed, parent, child, report, hurried,
  signals, sent, lines, buffer, tail, eof, entered, echoed, readfds, at,
  open, std, pfd, pc, data, written, counted, fails, kills

Proc3 == INSTANCE ForkWait
Sig1 == INSTANCE SigintCount
Sig2 == INSTANCE AlarmClock
Sig3 == INSTANCE Usr1Count
Sig4 == INSTANCE SignalFd
Pipe8 == INSTANCE Pipeline

ASSUME ProcessAssumption ==
  /\ Pipe8!PipeAssumption
  /\ {MaxKilled, MaxSigint, Limit, Late, Times, MaxLines, MaxSignals} \subseteq Nat

proc3 == <<program, argv1, env, dumpcore, main, kid, ppid, status, logged, killed>>
sig1 == <<signal_count, action, raised, sigints, loop>>
sig2 == <<seconds, timer, handled, clock>>
sig3 == <<count, pending, installed, parent, child, report, hurried>>
sig4 == <<signals, sent, lines, buffer, tail, eof, entered, echoed, readfds, at>>
pipe8 == <<open, std, pfd, pc, data, written, counted, fails, kills>>
vars == <<started, proc3, sig1, sig2, sig3, sig4, pipe8>>

Init ==
  /\ started \in {"3-Process", "task1", "task2", "task3", "task4", "8-Pipe"}
  /\ Proc3!Init /\ Sig1!Init /\ Sig2!Init /\ Sig3!Init /\ Sig4!Init /\ Pipe8!Init
  /\ started # "3-Process" => program = 1 /\ argv1 = "" /\ env = "unset" /\ ~dumpcore
  /\ started # "8-Pipe" => std = {}

RunProc3(A) == started = "3-Process" /\ A /\ UNCHANGED <<started, sig1, sig2, sig3, sig4, pipe8>>
RunSig1(A) == started = "task1" /\ A /\ UNCHANGED <<started, proc3, sig2, sig3, sig4, pipe8>>
RunSig2(A) == started = "task2" /\ A /\ UNCHANGED <<started, proc3, sig1, sig3, sig4, pipe8>>
RunSig3(A) == started = "task3" /\ A /\ UNCHANGED <<started, proc3, sig1, sig2, sig4, pipe8>>
RunSig4(A) == started = "task4" /\ A /\ UNCHANGED <<started, proc3, sig1, sig2, sig3, pipe8>>
RunPipe8(A) == started = "8-Pipe" /\ A /\ UNCHANGED <<started, proc3, sig1, sig2, sig3, sig4>>

Next ==
  \/ RunProc3(Proc3!Next) \/ RunSig1(Sig1!Next) \/ RunSig2(Sig2!Next)
  \/ RunSig3(Sig3!Next) \/ RunSig4(Sig4!Next) \/ RunPipe8(Pipe8!Next)

Spec == Init /\ [][Next]_vars

(***************************************************************************)
(* Every process that can go on is scheduled, a pending signal is          *)
(* delivered and an alarm that is set expires.  Nobody has to send a       *)
(* signal, to type, to kill a process or to make a call fail.              *)
(***************************************************************************)
FairSpec ==
  /\ Spec
  /\ WF_vars(RunProc3(Proc3!MainStep)) /\ WF_vars(RunProc3(Proc3!KidStep))
  /\ WF_vars(RunSig2(Sig2!Next))
  /\ WF_vars(RunSig2(Sig2!Leave))
  /\ WF_vars(RunSig3(Sig3!ParentStep)) /\ WF_vars(RunSig3(Sig3!ChildStep))
  /\ WF_vars(RunSig4(Sig4!Main))
  /\ WF_vars(RunPipe8(Pipe8!MainStep))
  /\ \A c \in Pipe8!Child : WF_vars(RunPipe8(Pipe8!ChildStep(c)))
  /\ WF_vars(RunPipe8(Pipe8!LsWrite \/ Pipe8!LsEnds))
  /\ WF_vars(RunPipe8(Pipe8!WcRead \/ Pipe8!WcEnds))

----------------------------------------------------------------------------
\* 8-Pipe: a command runs with its end of the pipe and no other descriptor of it,
\* or with none if the program was started without the streams of CutOff.
CommandConnected == Pipe8!CommandConnected

\* 8-Pipe: wc prints a count only when ls has ended and all it wrote was read.
CountComplete == Pipe8!CountComplete

(***************************************************************************)
(* 8-Pipe, 3-Process, 5-Signal task2: every process ends, whatever is      *)
(* killed, fails or was closed at the start.  No process of the pipe waits *)
(* for an end that a waiting process keeps open; no child stays a zombie   *)
(* or an orphan for ever; the handler sets the alarm again each time.      *)
(***************************************************************************)
EveryoneEnds ==
  <>(CASE started = "8-Pipe" -> \A p \in Pipe8!Proc : ~Pipe8!Living(p)
       [] started = "3-Process" -> Proc3!Gone
       [] started = "task2" -> Sig2!Ended
       [] OTHER -> TRUE)

(***************************************************************************)
(* 3-Process, 5-Signal task3: what a parent logs about its child is true.  *)
(* A normal exit of task3's child means that it counted every one of the   *)
(* signals sent, though signals merge, come early or are lost.             *)
(***************************************************************************)
ReportsTrue == Proc3!LogsChildStatus /\ Sig3!NormalMeansAllCounted

(***************************************************************************)
(* 5-Signal task3: if every signal finds the child in pause, the child     *)
(* counts them all, exits, and the parent's waitpid returns.  Otherwise    *)
(* both may wait for ever: the child in pause for a signal that merged     *)
(* with another or came before pause, the parent for the child.            *)
(***************************************************************************)
EndsUnlessHurried == <>(started = "task3" => Sig3!Settled)

(***************************************************************************)
(* 5-Signal task1: two SIGINTs are survived, and the next one is not.  The *)
(* property after it says what the comment in the code says instead.       *)
(***************************************************************************)
SurvivesTwo == Sig1!SurvivesTwo
SecondRestoredAndReRaised == Sig1!SecondRestoredAndReRaised

(***************************************************************************)
(* 5-Signal task4: SIGTERM ends the program, however much is typed and     *)
(* after the input has ended too, unless fgets waits for the end of a line *)
(* that was begun: then the blocked signal waits with it.                  *)
(***************************************************************************)
SigtermEnds == "SIGTERM" \in signals ~> (Sig4!Stopped \/ Sig4!WaitsForLineEnd)

(***************************************************************************)
(* 5-Signal task4: once the input has ended every line comes out, those    *)
(* included that waited in stdio's buffer where select did not see them.   *)
(***************************************************************************)
EchoedAtEof == eof ~> (Sig4!AllEchoed \/ Sig4!Stopped)
==============================================================================
