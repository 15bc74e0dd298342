------------------------------- MODULE SignalFd -------------------------------
(***************************************************************************)
(* 5-Signal/task4.c: main blocks SIGINT and SIGTERM, reads them from a     *)
(* signalfd, and echoes the lines of its standard input; select() says     *)
(* which of the two descriptors can be read.                               *)
(*                                                                         *)
(* select looks at the descriptor and fgets at stdio's buffer in front of  *)
(* it: lines that one read() brought in with an earlier one are in the     *)
(* buffer only.  And a descriptor is readable when a line has begun, but   *)
(* fgets returns when it has ended.  A line is what one fgets returns.     *)
(***************************************************************************)
EXTENDS Naturals

CONSTANTS
  MaxLines,   \* bound: lines typed
  MaxSignals  \* bound: signals sent

VARIABLES
  signals,   \* the pending ones of SIGINT and SIGTERM
  sent,      \* signals sent so far
  lines,     \* ended lines the kernel holds
  buffer,    \* ended lines stdio's buffer holds
  tail,      \* where the beginning of an unended line is: "none", "kernel", "buffer"
  eof,       \* the input has ended
  entered,   \* lines begun
  echoed,    \* lines echoed
  readfds,   \* what select returned
  at         \* main: "start", "select", "signal", "fgets", or how it ended

input == <<lines, tail, eof, entered>>
vars == <<signals, sent, input, buffer, echoed, readfds, at>>

Init ==
  /\ signals = {} /\ sent = 0
  /\ lines = 0 /\ buffer = 0 /\ tail = "none" /\ eof = FALSE
  /\ entered = 0 /\ echoed = 0
  /\ readfds = {} /\ at = "start"

Stopped == at \in {"returned", "killed", "terminated"}

----------------------------------------------------------------------------
\* A signal comes; before sigprocmask its default action ends the program.
Signal ==
  /\ ~Stopped /\ sent < MaxSignals
  /\ sent' = sent + 1
  /\ IF at = "start"
       THEN at' = "killed" /\ UNCHANGED signals
       ELSE (\E s \in {"SIGINT", "SIGTERM"} : signals' = signals \cup {s}) /\ UNCHANGED at
  /\ UNCHANGED <<input, buffer, echoed, readfds>>

\* Lines are typed, ended or not yet; or the input ends.
Type ==
  /\ ~eof
  /\ \/ /\ entered < MaxLines /\ tail = "none"
        /\ entered' = entered + 1
        /\ \/ lines' = lines + 1 /\ UNCHANGED tail
           \/ tail' = "kernel" /\ UNCHANGED lines
        /\ UNCHANGED eof
     \/ tail # "none" /\ tail' = "none" /\ lines' = lines + 1 /\ UNCHANGED <<eof, entered>>
     \/ eof' = TRUE /\ UNCHANGED <<lines, tail, entered>>
  /\ UNCHANGED <<signals, sent, buffer, echoed, readfds, at>>

----------------------------------------------------------------------------
\* sigprocmask and signalfd, either of which may fail.
Setup ==
  /\ at = "start"
  /\ at' \in {"select", "terminated"}
  /\ UNCHANGED <<signals, sent, input, buffer, echoed, readfds>>

Readable ==
  (IF signals # {} THEN {"sfd"} ELSE {}) \cup
  (IF lines > 0 \/ tail = "kernel" \/ eof THEN {"stdin"} ELSE {})

\* select waits until one of the two can be read.
Select ==
  /\ at = "select" /\ Readable # {}
  /\ readfds' = Readable
  /\ at' = IF "sfd" \in Readable THEN "signal" ELSE "fgets"
  /\ UNCHANGED <<signals, sent, input, buffer, echoed>>

\* read(sfd) takes the pending signal with the lowest number; SIGTERM breaks the loop.
ReadSignal ==
  /\ at = "signal"
  /\ IF "SIGINT" \in signals
       THEN /\ signals' = signals \ {"SIGINT"}
            /\ at' = IF "stdin" \in readfds THEN "fgets" ELSE "select"
       ELSE signals' = signals \ {"SIGTERM"} /\ at' = "returned"
  /\ UNCHANGED <<sent, input, buffer, echoed, readfds>>

\* select or read(sfd) fails and the program terminates.
Fails ==
  /\ at \in {"select", "signal"}
  /\ at' = "terminated"
  /\ UNCHANGED <<signals, sent, input, buffer, echoed, readfds>>

\* fgets returns a line; the echo and the next round follow.
Echo(n) == echoed' = echoed + n /\ at' = "select"

FgetsBuffered ==
  /\ at = "fgets" /\ buffer > 0
  /\ buffer' = buffer - 1 /\ Echo(1)
  /\ UNCHANGED <<signals, sent, input, readfds>>

\* Mutant of Keep: the rest of what read() brought in is thrown away.
KeepNothing(n) == buffer' = 0

\* All but one of the n lines that a read() brought in stay in the buffer.
Keep(n) == buffer' = n - 1

\* The buffer is empty: read() takes some of the lines, with all of them perhaps the
\* beginning of the next.
FgetsRead ==
  /\ at = "fgets" /\ buffer = 0
  /\ \E n \in 1 .. lines :
       /\ lines' = lines - n /\ Keep(n) /\ Echo(1)
       /\ \/ n = lines /\ tail = "kernel" /\ tail' = "buffer"
          \/ UNCHANGED tail
  /\ UNCHANGED <<signals, sent, eof, entered, readfds>>

\* Only the beginning of a line is there: fgets takes it and waits for more.
FgetsPart ==
  /\ at = "fgets" /\ buffer = 0 /\ lines = 0 /\ tail = "kernel"
  /\ tail' = "buffer"
  /\ UNCHANGED <<signals, sent, lines, eof, entered, buffer, echoed, readfds, at>>

\* Mutant of FgetsEof: the end of the input is waited out in fgets.
FgetsEofRetries ==
  /\ at = "fgets" /\ buffer = 0 /\ lines = 0 /\ eof /\ tail = "buffer"
  /\ tail' = "none" /\ Echo(1)
  /\ UNCHANGED <<signals, sent, lines, eof, entered, buffer, readfds>>

\* The input has ended: an unended line is returned, or NULL.
FgetsEof ==
  /\ at = "fgets" /\ buffer = 0 /\ lines = 0 /\ eof /\ tail # "kernel"
  /\ tail' = "none" /\ Echo(IF tail = "buffer" THEN 1 ELSE 0)
  /\ UNCHANGED <<signals, sent, lines, eof, entered, buffer, readfds>>

Main ==
  Setup \/ Select \/ ReadSignal \/ FgetsBuffered \/ FgetsRead \/ FgetsPart \/ FgetsEof

Next == Signal \/ Type \/ Main \/ Fails

Spec == Init /\ [][Next]_vars

----------------------------------------------------------------------------
\* The values the variables range over.
TypeOK ==
  /\ signals \subseteq {"SIGINT", "SIGTERM"} /\ sent \in 0 .. MaxSignals
  /\ lines \in 0 .. MaxLines /\ buffer \in 0 .. MaxLines
  /\ tail \in {"none", "kernel", "buffer"} /\ eof \in BOOLEAN
  /\ entered \in 0 .. MaxLines /\ echoed \in 0 .. MaxLines
  /\ readfds \subseteq {"sfd", "stdin"}
  /\ at \in {"start", "select", "signal", "fgets", "returned", "killed", "terminated"}

\* fgets waits for the end of a line that was begun, deaf to signals.
WaitsForLineEnd ==
  at = "fgets" /\ buffer = 0 /\ lines = 0 /\ tail = "buffer" /\ ~eof

\* Every line was echoed.
AllEchoed == echoed = entered
==============================================================================
