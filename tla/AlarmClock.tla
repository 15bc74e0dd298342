------------------------------ MODULE AlarmClock ------------------------------
(***************************************************************************)
(* 5-Signal/task2.c: main waits until seconds reaches Limit; each SIGALRM  *)
(* counts one second and its handler sets the next alarm.                  *)
(***************************************************************************)
EXTENDS Naturals

CONSTANTS
  Limit,   \* 10 in the code
  Late     \* bound: seconds that pass before main looks again

VARIABLES
  seconds,
  timer,      \* "off", "set" or "pending" (SIGALRM raised and not yet handled)
  handled,    \* the handler is installed
  clock       \* main: "start", "alarm", "loop", or how it ended

vars == <<seconds, timer, handled, clock>>

Init == seconds = 0 /\ timer = "off" /\ handled = FALSE /\ clock = "start"

\* A sigaction that fails is only logged.
Sigaction ==
  /\ clock = "start"
  /\ handled' \in BOOLEAN
  /\ clock' = "alarm"
  /\ UNCHANGED <<seconds, timer>>

Alarm ==
  /\ clock = "alarm"
  /\ timer' = "set" /\ clock' = "loop"
  /\ UNCHANGED <<seconds, handled>>

Expire ==
  /\ timer = "set" /\ clock = "loop" /\ seconds < Limit + Late
  /\ timer' = "pending"
  /\ UNCHANGED <<seconds, handled, clock>>

\* handle_signal and handle_sigalrm, or the default action.
Deliver ==
  /\ timer = "pending" /\ clock = "loop"
  /\ IF handled
       THEN seconds' = seconds + 1 /\ timer' = "set" /\ UNCHANGED clock
       ELSE clock' = "killed" /\ timer' = "off" /\ UNCHANGED seconds
  /\ UNCHANGED handled

\* The test of the loop; usleep in between is cut short by the handler or not.
Leave ==
  /\ clock = "loop" /\ ~(seconds < Limit)
  /\ clock' = "returned"
  /\ UNCHANGED <<seconds, timer, handled>>

Next == Sigaction \/ Alarm \/ Expire \/ Deliver \/ Leave

Spec == Init /\ [][Next]_vars

----------------------------------------------------------------------------
\* The values the variables range over.
TypeOK ==
  /\ seconds \in 0 .. Limit + Late
  /\ timer \in {"off", "set", "pending"} /\ handled \in BOOLEAN
  /\ clock \in {"start", "alarm", "loop", "returned", "killed"}

\* main returned after Limit seconds, or was killed by the first, unhandled alarm.
Ended ==
  \/ clock = "returned" /\ seconds >= Limit
  \/ clock = "killed" /\ seconds = 0 /\ ~handled
==============================================================================
