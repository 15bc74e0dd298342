----------------------------- MODULE SigintCount -----------------------------
(***************************************************************************)
(* 5-Signal/task1.c: main logs and sleeps for ever; its handler counts     *)
(* SIGINTs and restores the default action on the second.                  *)
(*                                                                         *)
(* The handler logs too.  If it interrupts main inside log_log, localtime  *)
(* (called by init_event) may find its lock taken by the very thread it    *)
(* runs on, and the process hangs with every signal blocked.               *)
(***************************************************************************)
EXTENDS Naturals

CONSTANT MaxSigint   \* bound: SIGINTs sent

VARIABLES
  signal_count,
  action,      \* of SIGINT: "default" or "handler"
  raised,      \* a SIGINT is pending
  sigints,     \* SIGINTs sent so far
  loop         \* main: "start", "log", "sleep", or how it ended

vars == <<signal_count, action, raised, sigints, loop>>

Init ==
  /\ signal_count = 0 /\ action = "default"
  /\ raised = FALSE /\ sigints = 0 /\ loop = "start"

\* main: sigaction, whose failure ends the program, and the loop.
Main ==
  /\ \/ loop = "start" /\ action' = "handler" /\ loop' = "log"
     \/ loop = "start" /\ loop' = "terminated" /\ UNCHANGED action
     \/ loop = "log" /\ loop' = "sleep" /\ UNCHANGED action
     \/ loop = "sleep" /\ loop' = "log" /\ UNCHANGED action
  /\ UNCHANGED <<signal_count, raised, sigints>>

Sigint ==
  /\ loop \notin {"killed", "terminated"} /\ sigints < MaxSigint
  /\ sigints' = sigints + 1 /\ raised' = TRUE
  /\ UNCHANGED <<signal_count, action, loop>>

\* What log_log in the handler leads to: it may hang if it interrupted log_log.
Logged == IF loop = "log" THEN {"log", "hung"} ELSE {loop}

\* Mutant of Restores: the default action comes back with the first SIGINT.
RestoresAtOnce(n) == n >= 1

\* sigint_handler restores the default action unless it returned before.
Restores(n) == ~(n < 2)

\* handle_signal and sigint_handler, with every signal blocked, or the default action.
\* signal() does not fail for SIGINT.
Deliver ==
  /\ raised /\ loop \in {"start", "log", "sleep"}
  /\ raised' = FALSE
  /\ IF action = "default"
       THEN loop' = "killed" /\ UNCHANGED <<signal_count, action>>
       ELSE /\ signal_count' = signal_count + 1
            /\ loop' \in Logged
            /\ action' = IF loop' # "hung" /\ Restores(signal_count') THEN "default" ELSE action
  /\ UNCHANGED sigints

Next == Main \/ Sigint \/ Deliver

Spec == Init /\ [][Next]_vars

----------------------------------------------------------------------------
\* The values the variables range over.
TypeOK ==
  /\ signal_count \in 0 .. MaxSigint /\ sigints \in 0 .. MaxSigint
  /\ action \in {"default", "handler"} /\ raised \in BOOLEAN
  /\ loop \in {"start", "log", "sleep", "hung", "killed", "terminated"}

(***************************************************************************)
(* Two SIGINTs are survived and a third one is not: once the handler is    *)
(* installed the process is killed only after exactly two were handled,    *)
(* however many merged, and none is handled after that.  This is the code: *)
(* the comment at task1.c:51 speaks of re-raising the second, which would  *)
(* kill (the property below).                                              *)
(***************************************************************************)
SurvivesTwo ==
  /\ signal_count <= 2
  /\ loop = "killed" => signal_count \in {0, 2} /\ sigints > signal_count
  /\ action = "default" /\ loop \in {"log", "sleep"} => signal_count = 2

(***************************************************************************)
(* The comment at task1.c:51: after the second SIGINT was caught the       *)
(* default action is restored and the signal re-raised, so that it is      *)
(* pending again or has killed the process.  The code re-raises nothing,   *)
(* and restores nothing if the handler hangs in its log call.              *)
(***************************************************************************)
SecondRestoredAndReRaised ==
  signal_count = 2 => action = "default" /\ (raised \/ loop = "killed")
==============================================================================
