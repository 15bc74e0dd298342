------------------------------- MODULE Pipeline -------------------------------
(***************************************************************************)
(* 8-Pipe/main.c: main creates a pipe, forks a child that becomes ls -l    *)
(* with its output in the pipe and one that becomes wc -l with its input   *)
(* from it, closes its own ends and waits for both.                        *)
(*                                                                         *)
(* File descriptors are numbers, as whether the pipe works depends on      *)
(* them: the reader sees the end of the data only when no process at all   *)
(* has the write end open, and pipe() hands out 0 and 1 if the program was *)
(* started without them.                                                   *)
(***************************************************************************)
EXTENDS Naturals, FiniteSets, FiniteSetsExt

CONSTANTS
  NumLines,   \* lines ls has to say
  Capacity,   \* lines the pipe holds
  MaxFail,    \* bound: failing system calls
  MaxKill     \* bound: children killed from outside

\* What the constants have to be; ProcessTasks assumes it.
PipeAssumption ==
  NumLines \in Nat /\ Capacity \in Nat \ {0} /\ MaxFail \in Nat /\ MaxKill \in Nat

STDIN_FILENO == 0
STDOUT_FILENO == 1

\* handlers[]: the children in the order they are forked.
handlers == <<"ls", "wc">>
Child == {"ls", "wc"}
Proc == {"main"} \cup Child
Fd == 0 .. 4

\* The arguments of executeCommandWithPipe: redirectFd, and pipeEndToUse in pfd.
redirectFd == [c \in Child |-> IF c = "ls" THEN STDOUT_FILENO ELSE STDIN_FILENO]
endToUse == [c \in Child |-> IF c = "ls" THEN 1 ELSE 0]

VARIABLES
  open,     \* open[p][n]: "r", "w" (pipe ends), "other" or "closed"
  std,      \* those of descriptors 0 and 1 the program was started with
  pfd,      \* pfd[0], pfd[1]: the descriptors pipe() returned
  pc,       \* pc[p]: what p does next, or how it ended
  data,     \* lines in the pipe
  written, counted,   \* lines ls wrote and wc read
  fails, kills        \* failed calls and outside kills so far

pipe == <<data, written, counted>>
faults == <<fails, kills>>
vars == <<open, std, pfd, pc, pipe, faults>>

Running == {"pipe", "fork ls", "fork wc", "close r", "close w", "wait ls", "wait wc",
            "close unused", "dup2", "close end", "exec", "run"}
Ended == {"done", "failed", "signalled"}
Living(p) == pc[p] \in Running

Init ==
  /\ std \in SUBSET {STDIN_FILENO, STDOUT_FILENO}
  /\ open = [p \in Proc |-> [n \in Fd |-> IF n \in std \cup {2} THEN "other" ELSE "closed"]]
  /\ pfd = [e \in {0, 1} |-> 0]
  /\ pc = [p \in Proc |-> IF p = "main" THEN "pipe" ELSE "off"]
  /\ data = 0 /\ written = 0 /\ counted = 0
  /\ fails = 0 /\ kills = 0

Goto(p, label) == pc' = [pc EXCEPT ![p] = label]
close(p, n) == open' = [open EXCEPT ![p][n] = "closed"]

\* p ends and the kernel closes what it had open.
Exit(p, how) ==
  /\ Goto(p, how)
  /\ open' = [open EXCEPT ![p] = [n \in Fd |-> "closed"]]

\* Some living process has this end of the pipe open.
HasEnd(end) == \E p \in Proc : Living(p) /\ \E n \in Fd : open[p][n] = end

----------------------------------------------------------------------------
\* initializePipe: pipe() takes the two lowest free descriptors.
initializePipe ==
  LET free == {n \in Fd : open["main"][n] = "closed"}
      r == Min(free)
      w == Min(free \ {r})
  IN /\ pc["main"] = "pipe"
     /\ pfd' = [e \in {0, 1} |-> IF e = 0 THEN r ELSE w]
     /\ open' = [open EXCEPT !["main"][r] = "r", !["main"][w] = "w"]
     /\ Goto("main", "fork ls")
     /\ UNCHANGED <<std, pipe, faults>>

\* spawnChildProcesses: forkWithHandlers for the next entry of handlers[].
Fork(i) ==
  LET c == handlers[i]
  IN /\ pc["main"] = (IF i = 1 THEN "fork ls" ELSE "fork wc")
     /\ pc' = [pc EXCEPT ![c] = "close unused",
                         !["main"] = IF i = 1 THEN "fork wc" ELSE "close r"]
     /\ open' = [open EXCEPT ![c] = open["main"]]
     /\ UNCHANGED <<std, pfd, pipe, faults>>

\* pipe() or fork() fails: main terminates, a child already forked goes on.
MainFails ==
  /\ pc["main"] \in {"pipe", "fork ls", "fork wc"}
  /\ fails < MaxFail
  /\ fails' = fails + 1
  /\ Exit("main", "failed")
  /\ UNCHANGED <<std, pfd, pipe, kills>>

\* Mutant of Cleanup: main keeps its write end open.
CleanupKeepsWriteEnd ==
  /\ pc["main"] = "close r"
  /\ close("main", pfd[0])
  /\ Goto("main", "wait ls")
  /\ UNCHANGED <<std, pfd, pipe, faults>>

\* cleanup: main closes both ends, before it waits.
Cleanup ==
  \/ /\ pc["main"] = "close r"
     /\ close("main", pfd[0])
     /\ Goto("main", "close w")
     /\ UNCHANGED <<std, pfd, pipe, faults>>
  \/ /\ pc["main"] = "close w"
     /\ close("main", pfd[1])
     /\ Goto("main", "wait ls")
     /\ UNCHANGED <<std, pfd, pipe, faults>>

\* waitForChildren: waitpid returns for cid[0], then for cid[1].
waitForChildren ==
  \/ /\ pc["main"] = "wait ls" /\ pc["ls"] \in Ended
     /\ Goto("main", "wait wc")
     /\ UNCHANGED <<open, std, pfd, pipe, faults>>
  \/ /\ pc["main"] = "wait wc" /\ pc["wc"] \in Ended
     /\ Exit("main", "done")
     /\ UNCHANGED <<std, pfd, pipe, faults>>

----------------------------------------------------------------------------
\* executeCommandWithPipe in a child, up to execl.
CloseUnused(c) ==
  /\ pc[c] = "close unused"
  /\ close(c, pfd[IF redirectFd[c] = STDIN_FILENO THEN 1 ELSE 0])
  /\ Goto(c, "dup2")
  /\ UNCHANGED <<std, pfd, pipe, faults>>

\* Mutant of Dup2: only the standard input is redirected.
Dup2StdinOnly(c) ==
  /\ pc[c] = "dup2"
  /\ open' = IF redirectFd[c] = STDIN_FILENO
               THEN [open EXCEPT ![c][redirectFd[c]] = open[c][pfd[endToUse[c]]]]
               ELSE open
  /\ Goto(c, "close end")
  /\ UNCHANGED <<std, pfd, pipe, faults>>

\* dup2(pipeEndToUse, redirectFd), which does nothing if the two are the same.
Dup2(c) ==
  /\ pc[c] = "dup2"
  /\ open' = [open EXCEPT ![c][redirectFd[c]] = open[c][pfd[endToUse[c]]]]
  /\ Goto(c, "close end")
  /\ UNCHANGED <<std, pfd, pipe, faults>>

\* Mutant of CloseEnd: the original descriptor stays open.
CloseEndForgotten(c) ==
  /\ pc[c] = "close end"
  /\ Goto(c, "exec")
  /\ UNCHANGED <<open, std, pfd, pipe, faults>>

CloseEnd(c) ==
  /\ pc[c] = "close end"
  /\ close(c, pfd[endToUse[c]])
  /\ Goto(c, "exec")
  /\ UNCHANGED <<std, pfd, pipe, faults>>

Exec(c) ==
  /\ pc[c] = "exec"
  /\ Goto(c, "run")
  /\ UNCHANGED <<open, std, pfd, pipe, faults>>

\* dup2 or execl fails: the child terminates.
ChildFails(c) ==
  /\ pc[c] \in {"dup2", "exec"}
  /\ fails < MaxFail
  /\ fails' = fails + 1
  /\ Exit(c, "failed")
  /\ UNCHANGED <<std, pfd, pipe, kills>>

----------------------------------------------------------------------------
(***************************************************************************)
(* The commands.  ls writes its lines, blocks while the pipe is full, and  *)
(* dies of SIGPIPE when nobody can read; wc counts until the pipe is empty *)
(* and nobody can write.  Both give up on a closed descriptor.             *)
(***************************************************************************)
LsWrite ==
  /\ pc["ls"] = "run" /\ written < NumLines
  /\ open["ls"][STDOUT_FILENO] = "w" /\ HasEnd("r") /\ data < Capacity
  /\ data' = data + 1 /\ written' = written + 1
  /\ UNCHANGED <<open, std, pfd, pc, counted, faults>>

LsEnds ==
  /\ pc["ls"] = "run"
  /\ \/ written = NumLines /\ Exit("ls", "done")
     \/ /\ written < NumLines /\ open["ls"][STDOUT_FILENO] = "w" /\ ~HasEnd("r")
        /\ Exit("ls", "signalled")
     \/ /\ written < NumLines /\ open["ls"][STDOUT_FILENO] # "w"
        /\ Exit("ls", "failed")
  /\ UNCHANGED <<std, pfd, pipe, faults>>

WcRead ==
  /\ pc["wc"] = "run" /\ open["wc"][STDIN_FILENO] = "r" /\ data > 0
  /\ data' = data - 1 /\ counted' = counted + 1
  /\ UNCHANGED <<open, std, pfd, pc, written, faults>>

WcEnds ==
  /\ pc["wc"] = "run"
  /\ \/ /\ open["wc"][STDIN_FILENO] = "r" /\ data = 0 /\ ~HasEnd("w")
        /\ Exit("wc", "done")
     \/ open["wc"][STDIN_FILENO] # "r" /\ Exit("wc", "failed")
  /\ UNCHANGED <<std, pfd, pipe, faults>>

\* Somebody kills a child.
Killed(c) ==
  /\ Living(c) /\ kills < MaxKill
  /\ kills' = kills + 1
  /\ Exit(c, "signalled")
  /\ UNCHANGED <<std, pfd, pipe, fails>>

MainStep == initializePipe \/ (\E i \in 1 .. 2 : Fork(i)) \/ Cleanup \/ waitForChildren

ChildStep(c) == CloseUnused(c) \/ Dup2(c) \/ CloseEnd(c) \/ Exec(c)

Command == LsWrite \/ LsEnds \/ WcRead \/ WcEnds

Next ==
  \/ MainStep \/ MainFails \/ Command
  \/ \E c \in Child : ChildStep(c) \/ ChildFails(c) \/ Killed(c)

Spec == Init /\ [][Next]_vars

----------------------------------------------------------------------------
\* The values the variables range over.
TypeOK ==
  /\ open \in [Proc -> [Fd -> {"r", "w", "other", "closed"}]]
  /\ std \subseteq {STDIN_FILENO, STDOUT_FILENO}
  /\ pfd \in [{0, 1} -> Fd]
  /\ pc \in [Proc -> Running \cup Ended \cup {"off"}]
  /\ data \in 0 .. Capacity
  /\ written \in 0 .. NumLines /\ counted \in 0 .. NumLines
  /\ fails \in 0 .. MaxFail /\ kills \in 0 .. MaxKill

\* Started without standard input, pipe() returns the descriptor that wc is to get
\* its end as: dup2 does nothing, and the close after it cuts wc off.  The same
\* happens to ls if standard output is missing too, but not if that alone is.
CutOff(c) == STDIN_FILENO \notin std /\ (c = "wc" \/ STDOUT_FILENO \notin std)

(***************************************************************************)
(* A command runs with its end of the pipe as its standard stream and with *)
(* no other descriptor of the pipe, whichever standard streams the program *)
(* was started with, or is cut off from the pipe in the cases of CutOff.   *)
(***************************************************************************)
CommandConnected ==
  \A c \in Child : pc[c] = "run" =>
    \A n \in Fd : open[c][n] \in {"r", "w"} <=> n = redirectFd[c] /\ ~CutOff(c)

(***************************************************************************)
(* wc prints a count only after ls ended and every line it wrote was read: *)
(* the end of the data never comes early, whatever failed, was killed, or  *)
(* was closed at the start, as a write end is open somewhere until then.   *)
(***************************************************************************)
CountComplete ==
  pc["wc"] = "done" => pc["ls"] \in Ended /\ counted = written
==============================================================================
