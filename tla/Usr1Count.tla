------------------------------ MODULE Usr1Count ------------------------------
(***************************************************************************)
(* 5-Signal/task3.c: a parent sends SIGUSR1 to its child Times times, two  *)
(* seconds apart, and waits for it; the child counts the signals in a      *)
(* handler and exits when it has counted Times.                            *)
(*                                                                         *)
(* The two share no memory: count is the parent's and the child's copy of  *)
(* one global.  Nothing but the sleep keeps a signal from coming before    *)
(* the handler is installed, while another one is pending, or between the  *)
(* child's test of count and its pause.                                    *)
(***************************************************************************)
EXTENDS Naturals

CONSTANT Times   \* 5 in the code

VARIABLES
  count,       \* count.parent, count.child
  pending,     \* a SIGUSR1 waits for the child; a second one merges with it
  installed,   \* the child's handler is installed
  parent,      \* what the parent does next: "fork", "send", "wait", "ended"
  child,       \* the same of the child, or how it ended
  report,      \* what the parent logs about the child
  hurried      \* a signal was sent to a child that was not yet in pause

vars == <<count, pending, installed, parent, child, report, hurried>>

Init ==
  /\ count = [parent |-> 0, child |-> 0]
  /\ pending = FALSE /\ installed = FALSE
  /\ parent = "fork" /\ child = "none"
  /\ report = "nothing" /\ hurried = FALSE

----------------------------------------------------------------------------
Fork ==
  /\ parent = "fork"
  /\ \/ parent' = "send" /\ child' = "start"
     \/ parent' = "ended" /\ UNCHANGED child   \* fork fails
  /\ UNCHANGED <<count, pending, installed, report, hurried>>

\* parent_entry: a round of the loop, or its end.
Send ==
  /\ parent = "send"
  /\ IF count.parent < Times
       THEN /\ count' = [count EXCEPT !.parent = @ + 1]
            /\ pending' = (child \notin {"exited", "killed"})
            /\ hurried' = (hurried \/ child # "paused" \/ pending)
            /\ UNCHANGED parent
       ELSE parent' = "wait" /\ UNCHANGED <<count, pending, hurried>>
  /\ UNCHANGED <<installed, child, report>>

Waitpid ==
  /\ parent = "wait" /\ child \in {"exited", "killed"}
  /\ report' = IF child = "exited" THEN "normally" ELSE "abnormally"
  /\ parent' = "ended"
  /\ UNCHANGED <<count, pending, installed, child, hurried>>

----------------------------------------------------------------------------
\* child_entry: a sigaction that fails is only logged.
Sigaction ==
  /\ child = "start"
  /\ installed' \in BOOLEAN
  /\ child' = "test"
  /\ UNCHANGED <<count, pending, parent, report, hurried>>

\* Mutant of Test: the loop ends one signal early.
TestEarly ==
  /\ child = "test"
  /\ child' = IF count.child + 1 < Times THEN "pause" ELSE "exited"
  /\ UNCHANGED <<count, pending, installed, parent, report, hurried>>

Test ==
  /\ child = "test"
  /\ child' = IF count.child < Times THEN "pause" ELSE "exited"
  /\ UNCHANGED <<count, pending, installed, parent, report, hurried>>

Pause ==
  /\ child = "pause"
  /\ child' = "paused"
  /\ UNCHANGED <<count, pending, installed, parent, report, hurried>>

\* Mutant of AfterHandler: pause is restarted after the handler.
AfterHandlerRestarts == child

\* pause returns after a handler; other code goes on where it was.
AfterHandler == IF child = "paused" THEN "test" ELSE child

\* The pending signal is delivered: handle_signal and handle_usr1, which run with
\* every signal blocked, or the default action.
Deliver ==
  /\ pending /\ child \in {"start", "test", "pause", "paused"}
  /\ pending' = FALSE
  /\ IF installed
       THEN count' = [count EXCEPT !.child = @ + 1] /\ child' = AfterHandler
       ELSE child' = "killed" /\ UNCHANGED count
  /\ UNCHANGED <<installed, parent, report, hurried>>

ParentStep == Fork \/ Send \/ Waitpid
ChildStep == Sigaction \/ Test \/ Pause \/ Deliver
Next == ParentStep \/ ChildStep

Spec == Init /\ [][Next]_vars

----------------------------------------------------------------------------
\* The values the variables range over.
TypeOK ==
  /\ count \in [parent : 0 .. Times, child : 0 .. Times]
  /\ pending \in BOOLEAN /\ installed \in BOOLEAN /\ hurried \in BOOLEAN
  /\ parent \in {"fork", "send", "wait", "ended"}
  /\ child \in {"none", "start", "test", "pause", "paused", "exited", "killed"}
  /\ report \in {"nothing", "normally", "abnormally"}

(***************************************************************************)
(* The parent reports a normal exit only if the child counted every single *)
(* signal: none merged with another, none came too early, none is left.    *)
(***************************************************************************)
NormalMeansAllCounted ==
  report = "normally" => count.child = Times /\ count.parent = Times /\ ~pending

\* The parent ends, if every signal finds the child in pause, as sleep(2) intends.
Settled == parent = "ended" \/ hurried
==============================================================================
