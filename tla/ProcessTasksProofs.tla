------------------------- MODULE ProcessTasksProofs -------------------------
(***************************************************************************)
(* Proofs about ProcessTasks, for every bound on signals, kills, failures  *)
(* and lines, and for every set of standard descriptors 8-Pipe starts with.*)
(* Each program gets an inductive invariant of its own.  The steps of one  *)
(* program leave the variables of the others alone, so each invariant is   *)
(* kept by every step of the composition.                                  *)
(***************************************************************************)
EXTENDS ProcessTasks, TLAPS

----------------------------------------------------------------------------
(***************************************************************************)
(* 5-Signal task1.  SurvivesTwo by itself is not inductive: what the       *)
(* handler may still do depends on the action installed in each phase of   *)
(* main, and a killing SIGINT was sent beyond the ones counted.            *)
(***************************************************************************)
SigintInv ==
  /\ signal_count \in Nat /\ sigints \in Nat
  /\ action \in {"default", "handler"}
  /\ signal_count <= sigints /\ (raised => signal_count < sigints)
  /\ loop \in {"start", "log", "sleep", "hung", "killed", "terminated"}
  /\ loop = "start" => signal_count = 0 /\ action = "default"
  /\ loop \in {"log", "sleep"} =>
       IF action = "default" THEN signal_count = 2 ELSE signal_count <= 1
  /\ SurvivesTwo

\* Every step of task1 keeps SigintInv: main, a SIGINT sent, a SIGINT delivered.
LEMMA SigintStep == SigintInv /\ [Sig1!Next]_sig1 => SigintInv'
<1> SUFFICES ASSUME SigintInv, [Sig1!Next]_sig1 PROVE SigintInv'
  OBVIOUS
<1> USE DEF SigintInv, SurvivesTwo, Sig1!SurvivesTwo
<1>1. CASE Sig1!Main
  BY <1>1 DEF Sig1!Main
<1>2. CASE Sig1!Sigint
  BY <1>2 DEF Sig1!Sigint
<1>3. CASE Sig1!Deliver
  <2>1. CASE action = "default"
    BY <1>3, <2>1 DEF Sig1!Deliver
  <2>2. CASE action = "handler"
    <3>1. signal_count' = signal_count + 1 /\ raised' = FALSE /\ sigints' = sigints
      BY <1>3, <2>2 DEF Sig1!Deliver
    <3>2. loop \in {"log", "sleep"} /\ signal_count < sigints
      BY <1>3, <2>2 DEF Sig1!Deliver
    <3>3. loop' \in {"log", "sleep", "hung"}
      BY <1>3, <2>2, <3>2 DEF Sig1!Deliver, Sig1!Logged
    <3>4. action' = IF loop' # "hung" /\ ~(signal_count' < 2) THEN "default" ELSE action
      BY <1>3, <2>2 DEF Sig1!Deliver, Sig1!Restores
    <3> QED
      BY <2>2, <3>1, <3>2, <3>3, <3>4
  <2> QED
    BY <2>1, <2>2
<1>4. CASE UNCHANGED sig1
  BY <1>4 DEF sig1
<1> QED
  BY <1>1, <1>2, <1>3, <1>4 DEF Sig1!Next

\* A value of MY_COMMAND that names a command.
IsCommand(e) == e \notin {"", "unset"}

(***************************************************************************)
(* 3-Process.  What was logged is tied to how the child ended by the order *)
(* in which things happen: the command is set before the fork, the status  *)
(* exists once the child has ended, and only waitpid leads to a message.   *)
(***************************************************************************)
ForkInv ==
  /\ program \in 1 .. 4 /\ killed \in Nat
  /\ main \in {"setenv", "fork", "wait", "sleep", "exit", "ended"}
  /\ kid \in {"none", "run", "exec", "zombie", "reaped"}
  /\ status \in Proc3!Exits \cup Proc3!Signals \cup {"none"}
  /\ logged \in Proc3!Exits \cup {"nothing", "abnormally"}
  /\ main \in {"setenv", "fork"} => kid = "none"
  /\ main = "wait" => program \in {1, 2}
  /\ status = "none" <=> kid \in {"none", "run", "exec"}
  /\ kid = "exec" => program = 2 /\ IsCommand(env)
  /\ program = 1 /\ status \in Proc3!Exits => status = "EXIT_VALUE" /\ ~dumpcore
  /\ program = 2 /\ status = "EXIT_SUCCESS" => IsCommand(env)
  /\ status \in Proc3!Signals => dumpcore \/ killed > 0 \/ program = 2
  /\ logged # "nothing" => kid = "reaped" /\ program \in {1, 2}
  /\ logged \in Proc3!Exits => logged = status
  /\ logged = "abnormally" => status \in Proc3!Signals

(***************************************************************************)
(* A running child that ends with a status its program can end with keeps  *)
(* ForkInv.                                                                *)
(***************************************************************************)
LEMMA ChildEnds ==
  ASSUME ForkInv, kid \in {"run", "exec"}, kid' \in {"zombie", "reaped"},
         status' \in Proc3!Exits \cup Proc3!Signals,
         killed' \in Nat, killed' >= killed,
         UNCHANGED <<program, dumpcore, env, main, logged>>,
         program = 1 /\ status' \in Proc3!Exits => status' = "EXIT_VALUE" /\ ~dumpcore,
         program = 2 /\ status' = "EXIT_SUCCESS" => IsCommand(env),
         status' \in Proc3!Signals => dumpcore \/ killed' > 0 \/ program = 2
  PROVE  ForkInv'
  BY DEF ForkInv, Proc3!Exits, Proc3!Signals

\* Every step of 3-Process keeps ForkInv, a kill of either process included.
LEMMA ForkStep == ForkInv /\ [Proc3!Next]_proc3 => ForkInv'
<1> SUFFICES ASSUME ForkInv, [Proc3!Next]_proc3 PROVE ForkInv'
  OBVIOUS
<1> USE DEF ForkInv, Proc3!Exits, Proc3!Signals
<1>1. CASE Proc3!SetCmd
  BY <1>1 DEF Proc3!SetCmd, Proc3!asked
<1>2. CASE Proc3!Fork
  BY <1>2 DEF Proc3!Fork, Proc3!asked
<1>3. CASE Proc3!ForkFails \/ Proc3!Return
  <2>1. /\ main' = "ended" /\ kid' = IF kid = "zombie" THEN "reaped" ELSE kid
        /\ UNCHANGED <<program, dumpcore, env, status, logged, killed>>
    BY <1>3 DEF Proc3!ForkFails, Proc3!Return, Proc3!MainEnds, Proc3!asked
  <2> QED
    BY <2>1
<1>4. CASE Proc3!Wait
  BY <1>4 DEF Proc3!Wait, Proc3!asked
<1>5. CASE Proc3!KidRuns
  <2>1. /\ kid = "run" /\ program # 2 /\ kid' \in {"zombie", "reaped"}
        /\ UNCHANGED <<program, dumpcore, env, main, logged, killed>>
    BY <1>5 DEF Proc3!KidRuns, Proc3!KidEnds, Proc3!asked
  <2>2. \/ status' = "SIGABRT" /\ dumpcore
        \/ program = 1 /\ status' = "EXIT_VALUE" /\ ~dumpcore
        \/ program = 3 /\ status' = "EXIT_FAILURE"
        \/ program = 4 /\ status' = "EXIT_SUCCESS"
    BY <1>5 DEF Proc3!KidRuns, Proc3!KidEnds, Proc3!terminate
  <2> QED
    BY <2>1, <2>2, ChildEnds
<1>6. CASE Proc3!KidExecs
  <2>1. /\ kid = "run" /\ program = 2
        /\ UNCHANGED <<program, dumpcore, env, main, logged, killed>>
    BY <1>6 DEF Proc3!KidExecs, Proc3!asked
  <2>2. CASE Proc3!get_cmd # "" /\ kid' = "exec" /\ UNCHANGED status
    <3>1. IsCommand(env)
      BY <2>2, Zenon DEF Proc3!get_cmd, IsCommand
    <3> QED
      BY <2>1, <2>2, <3>1
  <2>3. CASE Proc3!KidEnds(Proc3!terminate("EXIT_FAILURE"))
    <3>1. kid' \in {"zombie", "reaped"} /\ status' \in {"SIGABRT", "EXIT_FAILURE"}
      BY <2>3 DEF Proc3!KidEnds, Proc3!terminate
    <3> QED
      BY <2>1, <3>1, ChildEnds
  <2> QED
    BY <1>6, <2>2, <2>3 DEF Proc3!KidExecs
<1>7. CASE Proc3!CommandEnds
  <2>1. /\ kid = "exec" /\ kid' \in {"zombie", "reaped"}
        /\ status' \in Proc3!Exits \cup {"SIGABRT"}
        /\ UNCHANGED <<program, dumpcore, env, main, logged, killed>>
    BY <1>7 DEF Proc3!CommandEnds, Proc3!KidEnds, Proc3!asked
  <2> QED
    BY <2>1, ChildEnds
<1>8. CASE Proc3!Kill
  <2>1. killed' = killed + 1 /\ UNCHANGED <<program, dumpcore, env, logged>>
    BY <1>8 DEF Proc3!Kill, Proc3!asked
  <2>2. CASE main # "ended" /\ Proc3!MainEnds /\ UNCHANGED status
    <3>1. main' = "ended" /\ kid' = IF kid = "zombie" THEN "reaped" ELSE kid
      BY <2>2 DEF Proc3!MainEnds
    <3> QED
      BY <2>1, <2>2, <3>1
  <2>3. CASE kid \in {"run", "exec"} /\ Proc3!KidEnds("SIGKILL") /\ UNCHANGED <<main, ppid>>
    <3>1. kid' \in {"zombie", "reaped"} /\ status' = "SIGKILL"
      BY <2>3 DEF Proc3!KidEnds
    <3> QED
      BY <2>1, <2>3, <3>1, ChildEnds
  <2> QED
    BY <1>8, <2>2, <2>3 DEF Proc3!Kill
<1>9. CASE UNCHANGED proc3
  BY <1>9 DEF proc3
<1> QED
  BY <1>1, <1>2, <1>3, <1>4, <1>5, <1>6, <1>7, <1>8, <1>9
     DEF Proc3!Next, Proc3!MainStep, Proc3!KidStep

----------------------------------------------------------------------------
(***************************************************************************)
(* 5-Signal task3.  Signals merge and are lost but never multiply: the     *)
(* child has counted at most as many as were sent, one fewer while one is  *)
(* pending.  So a child that counted Times was sent Times, each delivered. *)
(***************************************************************************)
Usr1Inv ==
  /\ count \in [parent : Nat, child : Nat]
  /\ count.parent <= Times
  /\ count.child <= count.parent
  /\ pending => count.child < count.parent
  /\ child = "exited" => count.child = Times
  /\ report = "normally" => child = "exited" /\ parent = "ended"

\* Every step of 5-Signal task3 keeps Usr1Inv.
LEMMA Usr1Step == Usr1Inv /\ [Sig3!Next]_sig3 => Usr1Inv'
<1> SUFFICES ASSUME Usr1Inv, [Sig3!Next]_sig3 PROVE Usr1Inv'
  OBVIOUS
<1>0. Times \in Nat
  BY ProcessAssumption
<1> USE <1>0 DEF Usr1Inv
<1>1. CASE Sig3!Fork
  BY <1>1 DEF Sig3!Fork
<1>2. CASE Sig3!Send
  BY <1>2 DEF Sig3!Send
<1>3. CASE Sig3!Waitpid
  BY <1>3 DEF Sig3!Waitpid
<1>4. CASE Sig3!Sigaction
  BY <1>4 DEF Sig3!Sigaction
<1>5. CASE Sig3!Test
  BY <1>5 DEF Sig3!Test
<1>6. CASE Sig3!Pause
  BY <1>6 DEF Sig3!Pause
<1>7. CASE Sig3!Deliver
  BY <1>7 DEF Sig3!Deliver, Sig3!AfterHandler
<1>8. CASE UNCHANGED sig3
  BY <1>8 DEF sig3
<1> QED
  BY <1>1, <1>2, <1>3, <1>4, <1>5, <1>6, <1>7, <1>8
     DEF Sig3!Next, Sig3!ParentStep, Sig3!ChildStep

----------------------------------------------------------------------------
(***************************************************************************)
(* 8-Pipe.  The descriptors pipe() returns follow from those the program   *)
(* was started with, and so does the whole descriptor table of a child at  *)
(* each step on its way to the command.                                    *)
(***************************************************************************)
ReadFd == IF 0 \notin std THEN 0 ELSE IF 1 \notin std THEN 1 ELSE 3
WriteFd == IF 0 \notin std /\ 1 \notin std THEN 1 ELSE IF 0 \in std /\ 1 \in std THEN 4 ELSE 3

\* main's table before and after pipe(); a forked child inherits the latter.
Bare == [n \in Pipe8!Fd |-> IF n \in std \cup {2} THEN "other" ELSE "closed"]
Piped == [Bare EXCEPT ![ReadFd] = "r", ![WriteFd] = "w"]

\* The end of the pipe that child c keeps, and the one it closes.
Kept(c) == IF c = "ls" THEN WriteFd ELSE ReadFd
Unneeded(c) == IF c = "ls" THEN ReadFd ELSE WriteFd
Kind(c) == IF c = "ls" THEN "w" ELSE "r"

\* A child's table after its first close, after dup2, and when it executes the command.
Closed1(c) == [Piped EXCEPT ![Unneeded(c)] = "closed"]
Dupped(c) == [Closed1(c) EXCEPT ![Pipe8!redirectFd[c]] = Kind(c)]
Closed2(c) == [Dupped(c) EXCEPT ![Kept(c)] = "closed"]

Ends == {"r", "w", "other", "closed"}
ChildLabels == {"off", "close unused", "dup2", "close end", "exec", "run"} \cup Pipe8!Ended

PipeTypes ==
  /\ std \subseteq {0, 1}
  /\ open \in [Pipe8!Proc -> [Pipe8!Fd -> Ends]]
  /\ pfd \in [{0, 1} -> Pipe8!Fd]
  /\ pc \in [Pipe8!Proc -> Pipe8!Running \cup Pipe8!Ended \cup {"off"}]
  /\ \A c \in Pipe8!Child : pc[c] \in ChildLabels

\* Nothing is forked before the pipe exists, and ls before wc.
ForkOrder ==
  /\ pc["main"] \in {"pipe", "fork ls"} => pc["ls"] = "off"
  /\ pc["main"] \in {"pipe", "fork ls", "fork wc"} => pc["wc"] = "off"
  /\ pc["main"] = "fork wc" \/ pc["wc"] # "off" => pc["ls"] # "off"

\* The table o of child c is the one it has at this label.
Fits(c, label, o) ==
  /\ label = "close unused" => o = Piped
  /\ label = "dup2" => o = Closed1(c)
  /\ label = "close end" => o = Dupped(c)
  /\ label \in {"exec", "run"} => o = Closed2(c)

Descriptors ==
  /\ pc["main"] = "pipe" => open["main"] = Bare
  /\ pc["main"] \in {"fork ls", "fork wc"} => open["main"] = Piped
  /\ pc["main"] \notin {"pipe", "failed"} \/ pc["ls"] # "off" =>
       pfd[0] = ReadFd /\ pfd[1] = WriteFd
  /\ \A c \in Pipe8!Child : Fits(c, pc[c], open[c])

\* Lines are neither lost nor repeated, and wc ends after ls with an empty pipe.
LinesKept ==
  /\ data \in Nat /\ written \in Nat /\ counted \in Nat
  /\ written = counted + data
  /\ pc["wc"] = "done" => pc["ls"] \in Pipe8!Ended /\ data = 0

PipeInv == PipeTypes /\ ForkOrder /\ Descriptors /\ LinesKept

\* The two ends are different descriptors of the table, and neither is stderr.
LEMMA EndsApart ==
  ASSUME std \subseteq {0, 1}
  PROVE  /\ ReadFd \in Pipe8!Fd \ {2} /\ WriteFd \in Pipe8!Fd \ {2}
         /\ ReadFd # WriteFd
         /\ ReadFd \notin std /\ WriteFd \notin std
  BY DEF ReadFd, WriteFd, Pipe8!Fd

\* Min is the element below all the others.
LEMMA MinIs ==
  ASSUME NEW S, S \subseteq Nat, NEW x \in S, \A y \in S : x <= y
  PROVE  Pipe8!Min(S) = x
<1> DEFINE m == CHOOSE z \in S : \A y \in S : z <= y
<1>1. m \in S /\ \A y \in S : m <= y
  OBVIOUS
<1>2. m <= x /\ x <= m
  BY <1>1
<1> HIDE DEF m
<1>3. m = x
  BY <1>1, <1>2
<1> QED
  BY <1>3 DEF Pipe8!Min, m

\* pipe() returns ReadFd and WriteFd, the two lowest descriptors that are free.
LEMMA PipeReturns ==
  ASSUME PipeInv, Pipe8!initializePipe
  PROVE  /\ pfd'[0] = ReadFd /\ pfd'[1] = WriteFd /\ pfd' \in [{0, 1} -> Pipe8!Fd]
         /\ open' = [open EXCEPT !["main"] = Piped]
<1> DEFINE free == {n \in Pipe8!Fd : open["main"][n] = "closed"}
<1> USE DEF PipeInv, PipeTypes
<1>1. /\ pfd' = [e \in {0, 1} |-> IF e = 0 THEN Pipe8!Min(free)
                                          ELSE Pipe8!Min(free \ {Pipe8!Min(free)})]
      /\ open' = [open EXCEPT !["main"][Pipe8!Min(free)] = "r",
                              !["main"][Pipe8!Min(free \ {Pipe8!Min(free)})] = "w"]
      /\ pc["main"] = "pipe"
  BY DEF Pipe8!initializePipe
<1>2. open["main"] = Bare
  BY <1>1 DEF Descriptors
<1>3. \A n : n \in free <=> n \in {0, 1, 3, 4} /\ n \notin std
  BY <1>2 DEF Bare, Pipe8!Fd
<1>4. Pipe8!Min(free) = ReadFd
  <2>1. free \subseteq Nat /\ ReadFd \in free /\ \A y \in free : ReadFd <= y
    BY <1>3 DEF ReadFd
  <2> QED
    BY <2>1, MinIs
<1>5. Pipe8!Min(free \ {ReadFd}) = WriteFd
  <2>1. /\ free \ {ReadFd} \subseteq Nat /\ WriteFd \in free \ {ReadFd}
        /\ \A y \in free \ {ReadFd} : WriteFd <= y
    BY <1>3 DEF ReadFd, WriteFd
  <2> QED
    BY <2>1, MinIs
<1> HIDE DEF free
<1>6. ReadFd \in Pipe8!Fd /\ WriteFd \in Pipe8!Fd
  BY EndsApart
<1>7. open' = [open EXCEPT !["main"][ReadFd] = "r", !["main"][WriteFd] = "w"]
  BY <1>1, <1>4, <1>5
<1>8. open' = [open EXCEPT !["main"] = [open["main"] EXCEPT ![ReadFd] = "r", ![WriteFd] = "w"]]
  <2> DEFINE o == open["main"]
             one == [open EXCEPT !["main"] = [o EXCEPT ![ReadFd] = "r"]]
  <2>1. "main" \in Pipe8!Proc
    BY DEF Pipe8!Proc
  <2>2. open' = [one EXCEPT !["main"] = [one["main"] EXCEPT ![WriteFd] = "w"]]
    BY <1>7
  <2>3. one["main"] = [o EXCEPT ![ReadFd] = "r"]
    BY <2>1
  <2> QED
    BY <2>2, <2>3
<1>9. open' = [open EXCEPT !["main"] = Piped]
  BY <1>2, <1>8 DEF Piped
<1>10. pfd' = [e \in {0, 1} |-> IF e = 0 THEN ReadFd ELSE WriteFd]
  BY <1>1, <1>4, <1>5
<1> QED
  BY <1>6, <1>9, <1>10

\* The tables depend on std alone, which no step changes.
LEMMA TablesStay ==
  ASSUME UNCHANGED std
  PROVE  /\ UNCHANGED <<ReadFd, WriteFd, Bare, Piped>>
         /\ \A c, label, o : Fits(c, label, o)' <=> Fits(c, label, o)
<1>1. UNCHANGED <<ReadFd, WriteFd, Bare>>
  BY DEF ReadFd, WriteFd, Bare
<1>2. UNCHANGED Piped
  BY <1>1 DEF Piped
<1>3. \A c : UNCHANGED <<Closed1(c), Dupped(c), Closed2(c)>>
  BY <1>1, <1>2 DEF Closed1, Dupped, Closed2, Kept, Unneeded, Kind
<1> QED
  BY <1>1, <1>2, <1>3 DEF Fits

(***************************************************************************)
(* A child that was forked goes on to a label with the table of that label,*)
(* or ends with any table.                                                 *)
(***************************************************************************)
LEMMA ChildMoves ==
  ASSUME PipeTypes, ForkOrder, Descriptors, NEW c \in Pipe8!Child, pc[c] # "off",
         NEW label \in ChildLabels \ {"off"}, NEW o \in [Pipe8!Fd -> Ends],
         Fits(c, label, o),
         pc' = [pc EXCEPT ![c] = label], open' = [open EXCEPT ![c] = o],
         UNCHANGED <<std, pfd>>
  PROVE  PipeTypes' /\ ForkOrder' /\ Descriptors'
<1>1. c \in Pipe8!Proc \ {"main"}
  BY DEF Pipe8!Child, Pipe8!Proc
<1>2. PipeTypes'
  BY <1>1 DEF PipeTypes, ChildLabels, Pipe8!Running, Pipe8!Child, Pipe8!Proc
<1>3. ForkOrder'
  BY <1>1 DEF PipeTypes, ForkOrder, Pipe8!Child, Pipe8!Proc
<1>4. Descriptors'
  <2>1. pc'["main"] = pc["main"] /\ open'["main"] = open["main"]
    BY <1>1 DEF PipeTypes, Pipe8!Proc
  <2>2. pc'["ls"] # "off" => pc["ls"] # "off"
    BY DEF PipeTypes, Pipe8!Proc
  <2>3. \A d \in Pipe8!Child : Fits(d, pc'[d], open'[d])
    BY <1>1 DEF PipeTypes, Descriptors, Pipe8!Child, Pipe8!Proc
  <2> QED
    BY <2>1, <2>2, <2>3, TablesStay DEF Descriptors
<1> QED
  BY <1>2, <1>3, <1>4

\* main goes on behind its forks, or ends.
LEMMA MainMoves ==
  ASSUME PipeTypes, ForkOrder, Descriptors,
         NEW label \in (Pipe8!Running \cup Pipe8!Ended) \ {"pipe", "fork ls", "fork wc"},
         NEW o \in [Pipe8!Fd -> Ends],
         pc["main"] \notin {"pipe", "failed"} \/ label = "failed",
         pc' = [pc EXCEPT !["main"] = label], open' = [open EXCEPT !["main"] = o],
         UNCHANGED <<std, pfd>>
  PROVE  PipeTypes' /\ ForkOrder' /\ Descriptors'
<1>1. /\ pc'["main"] = label
      /\ \A c \in Pipe8!Child : pc'[c] = pc[c] /\ open'[c] = open[c]
  BY DEF PipeTypes, Pipe8!Child, Pipe8!Proc
<1>2. PipeTypes'
  BY <1>1 DEF PipeTypes, Pipe8!Child, Pipe8!Proc
<1>3. ForkOrder'
  BY <1>1 DEF ForkOrder, Pipe8!Child
<1>4. Descriptors'
  BY <1>1, TablesStay DEF Descriptors, Pipe8!Child
<1> QED
  BY <1>2, <1>3, <1>4

\* The steps of main.
LEMMA MainKeeps ==
  ASSUME PipeInv, Pipe8!MainStep \/ Pipe8!MainFails
  PROVE  PipeTypes' /\ ForkOrder' /\ Descriptors'
<1> USE DEF PipeInv
<1>0. std \subseteq {0, 1} /\ Pipe8!Proc = {"main", "ls", "wc"} /\ Pipe8!Child = {"ls", "wc"}
  BY DEF PipeTypes, Pipe8!Proc, Pipe8!Child
<1>t. Piped \in [Pipe8!Fd -> Ends]
  BY <1>0, EndsApart DEF Piped, Bare, Ends
<1>1. CASE Pipe8!initializePipe
  <2>1. pc' = [pc EXCEPT !["main"] = "fork ls"] /\ pc["main"] = "pipe" /\ UNCHANGED std
    BY <1>1 DEF Pipe8!initializePipe, Pipe8!Goto
  <2>2. pc["ls"] = "off" /\ pc["wc"] = "off"
    BY <2>1 DEF ForkOrder
  <2>3. pc'["main"] = "fork ls" /\ pc'["ls"] = "off" /\ pc'["wc"] = "off"
    BY <1>0, <2>1, <2>2 DEF PipeTypes
  <2>4. PipeTypes'
    BY <1>0, <1>1, <1>t, <2>1, <2>3, PipeReturns
       DEF PipeTypes, ChildLabels, Pipe8!Running
  <2>5. ForkOrder'
    BY <2>3 DEF ForkOrder
  <2>6. open'["main"] = Piped
    BY <1>0, <1>1, PipeReturns DEF PipeTypes
  <2>7. Descriptors'
    BY <1>0, <1>1, <2>1, <2>3, <2>6, TablesStay, PipeReturns DEF Descriptors, Fits
  <2> QED
    BY <2>4, <2>5, <2>7
<1>2. CASE Pipe8!Fork(1)
  <2>1. /\ pc["main"] = "fork ls"
        /\ pc' = [pc EXCEPT !["ls"] = "close unused", !["main"] = "fork wc"]
        /\ open' = [open EXCEPT !["ls"] = open["main"]]
        /\ UNCHANGED <<std, pfd>>
    BY <1>2 DEF Pipe8!Fork, Pipe8!handlers
  <2>2. open["main"] = Piped /\ pfd[0] = ReadFd /\ pfd[1] = WriteFd
    BY <2>1 DEF Descriptors
  <2>3. /\ pc'["main"] = "fork wc" /\ pc'["ls"] = "close unused" /\ pc'["wc"] = pc["wc"]
        /\ open'["main"] = Piped /\ open'["ls"] = Piped /\ open'["wc"] = open["wc"]
    BY <1>0, <2>1, <2>2 DEF PipeTypes
  <2>4. PipeTypes'
    BY <1>0, <1>t, <2>1, <2>2, <2>3 DEF PipeTypes, ChildLabels, Pipe8!Running
  <2>5. ForkOrder'
    BY <2>1, <2>3 DEF ForkOrder
  <2>6. Descriptors'
    <3>1. Fits("ls", pc'["ls"], open'["ls"])
      BY <2>3 DEF Fits
    <3> QED
      BY <1>0, <2>1, <2>2, <2>3, <3>1, TablesStay DEF Descriptors
  <2> QED
    BY <2>4, <2>5, <2>6
<1>6. CASE Pipe8!Fork(2)
  <2>1. /\ pc["main"] = "fork wc"
        /\ pc' = [pc EXCEPT !["wc"] = "close unused", !["main"] = "close r"]
        /\ open' = [open EXCEPT !["wc"] = open["main"]]
        /\ UNCHANGED <<std, pfd>>
    <3>1. Pipe8!handlers[2] = "wc" /\ 2 # 1
      BY DEF Pipe8!handlers
    <3> QED
      BY <1>6, <3>1 DEF Pipe8!Fork
  <2>2. open["main"] = Piped /\ pfd[0] = ReadFd /\ pfd[1] = WriteFd
    BY <2>1 DEF Descriptors
  <2>3. /\ pc'["main"] = "close r" /\ pc'["wc"] = "close unused" /\ pc'["ls"] = pc["ls"]
        /\ open'["main"] = Piped /\ open'["wc"] = Piped /\ open'["ls"] = open["ls"]
    BY <1>0, <2>1, <2>2 DEF PipeTypes
  <2>4. PipeTypes'
    BY <1>0, <1>t, <2>1, <2>2, <2>3 DEF PipeTypes, ChildLabels, Pipe8!Running
  <2>5. ForkOrder'
    BY <2>1, <2>3 DEF ForkOrder
  <2>6. Descriptors'
    <3>1. Fits("wc", pc'["wc"], open'["wc"])
      BY <2>3 DEF Fits
    <3> QED
      BY <1>0, <2>1, <2>2, <2>3, <3>1, TablesStay DEF Descriptors
  <2> QED
    BY <2>4, <2>5, <2>6
<1>3. CASE Pipe8!MainFails
  <2> DEFINE o == [n \in Pipe8!Fd |-> "closed"]
  <2>1. /\ pc' = [pc EXCEPT !["main"] = "failed"] /\ UNCHANGED <<std, pfd>>
        /\ open' = [open EXCEPT !["main"] = o]
    BY <1>3 DEF Pipe8!MainFails, Pipe8!Exit, Pipe8!Goto
  <2>2. o \in [Pipe8!Fd -> Ends] /\ "failed" \in Pipe8!Ended
    BY DEF Ends, Pipe8!Ended
  <2> QED
    BY <2>1, <2>2, MainMoves
<1>4. CASE Pipe8!Cleanup
  <2> DEFINE n == IF pc["main"] = "close r" THEN pfd[0] ELSE pfd[1]
             o == [open["main"] EXCEPT ![n] = "closed"]
             label == IF pc["main"] = "close r" THEN "close w" ELSE "wait ls"
  <2>1. /\ pc' = [pc EXCEPT !["main"] = label] /\ UNCHANGED <<std, pfd>>
        /\ open' = [open EXCEPT !["main"] = o]
        /\ pc["main"] \in {"close r", "close w"}
    BY <1>4 DEF Pipe8!Cleanup, Pipe8!close, Pipe8!Goto
  <2>2. o \in [Pipe8!Fd -> Ends] /\ label \in Pipe8!Running
    BY <1>0 DEF PipeTypes, Ends, Pipe8!Running
  <2> QED
    BY <2>1, <2>2, MainMoves
<1>5. CASE Pipe8!waitForChildren
  <2>1. CASE pc["main"] = "wait ls"
    <3>1. /\ pc' = [pc EXCEPT !["main"] = "wait wc"] /\ UNCHANGED <<std, pfd, open>>
      BY <1>5, <2>1 DEF Pipe8!waitForChildren, Pipe8!Goto
    <3>2. open' = [open EXCEPT !["main"] = open["main"]] /\ open["main"] \in [Pipe8!Fd -> Ends]
      BY <1>0, <3>1 DEF PipeTypes
    <3> QED
      BY <2>1, <3>1, <3>2, MainMoves DEF Pipe8!Running
  <2>2. CASE pc["main"] = "wait wc"
    <3> DEFINE o == [n \in Pipe8!Fd |-> "closed"]
    <3>1. /\ pc' = [pc EXCEPT !["main"] = "done"] /\ UNCHANGED <<std, pfd>>
          /\ open' = [open EXCEPT !["main"] = o]
      BY <1>5, <2>2 DEF Pipe8!waitForChildren, Pipe8!Exit, Pipe8!Goto
    <3>2. o \in [Pipe8!Fd -> Ends] /\ "done" \in Pipe8!Ended
      BY DEF Ends, Pipe8!Ended
    <3> QED
      BY <2>2, <3>1, <3>2, MainMoves
  <2> QED
    BY <1>5, <2>1, <2>2 DEF Pipe8!waitForChildren
<1> QED
  <2>1. \A k \in 1 .. 2 : k = 1 \/ k = 2
    OBVIOUS
  <2> QED
    BY <1>1, <1>2, <1>3, <1>4, <1>5, <1>6, <2>1 DEF Pipe8!MainStep

\* The descriptors a child names in its steps, in terms of those pipe() returned.
LEMMA ChildFds ==
  ASSUME PipeInv, NEW c \in Pipe8!Child, pc[c] # "off"
  PROVE  /\ Pipe8!redirectFd[c] \in {0, 1}
         /\ pfd[Pipe8!endToUse[c]] = Kept(c)
         /\ pfd[IF Pipe8!redirectFd[c] = Pipe8!STDIN_FILENO THEN 1 ELSE 0] = Unneeded(c)
         /\ Kept(c) \in Pipe8!Fd /\ Unneeded(c) \in Pipe8!Fd /\ Kept(c) # Unneeded(c)
         /\ Piped[Kept(c)] = Kind(c)
<1>1. pfd[0] = ReadFd /\ pfd[1] = WriteFd
  BY DEF PipeInv, ForkOrder, Descriptors, Pipe8!Child
<1>2. /\ ReadFd \in Pipe8!Fd /\ WriteFd \in Pipe8!Fd /\ ReadFd # WriteFd
  BY EndsApart DEF PipeInv, PipeTypes
<1>3. Piped[ReadFd] = "r" /\ Piped[WriteFd] = "w"
  BY <1>2 DEF Piped, Bare
<1>4. CASE c = "ls"
  BY <1>1, <1>2, <1>3, <1>4 DEF Kept, Unneeded, Kind, Pipe8!redirectFd, Pipe8!endToUse,
     Pipe8!Child, Pipe8!STDIN_FILENO, Pipe8!STDOUT_FILENO
<1>5. CASE c = "wc"
  BY <1>1, <1>2, <1>3, <1>5 DEF Kept, Unneeded, Kind, Pipe8!redirectFd, Pipe8!endToUse,
     Pipe8!Child, Pipe8!STDIN_FILENO, Pipe8!STDOUT_FILENO
<1> QED
  BY <1>4, <1>5 DEF Pipe8!Child

\* The steps of a child up to its command, and its end.
LEMMA ChildKeeps ==
  ASSUME PipeInv, NEW c \in Pipe8!Child,
         \/ Pipe8!ChildStep(c)
         \/ /\ pc[c] \notin Pipe8!Ended \cup {"off"}
            /\ \E how \in Pipe8!Ended : Pipe8!Exit(c, how)
            /\ UNCHANGED <<std, pfd>>
  PROVE  PipeTypes' /\ ForkOrder' /\ Descriptors'
<1> USE DEF PipeInv
<1>0. /\ c \in Pipe8!Proc /\ open[c] \in [Pipe8!Fd -> Ends]
      /\ open \in [Pipe8!Proc -> [Pipe8!Fd -> Ends]]
  BY DEF PipeTypes, Pipe8!Proc
<1>1. CASE Pipe8!CloseUnused(c)
  <2> DEFINE o == [open[c] EXCEPT ![Unneeded(c)] = "closed"]
  <2>1. pc[c] = "close unused" /\ pc' = [pc EXCEPT ![c] = "dup2"] /\ UNCHANGED <<std, pfd>>
    BY <1>1 DEF Pipe8!CloseUnused, Pipe8!Goto
  <2>2. open' = [open EXCEPT ![c] = o]
    BY <1>1, <2>1, ChildFds DEF Pipe8!CloseUnused, Pipe8!close
  <2>3. open[c] = Piped
    BY <2>1 DEF Descriptors, Fits
  <2>4. Fits(c, "dup2", o)
    BY <2>3 DEF Fits, Closed1
  <2>5. o \in [Pipe8!Fd -> Ends]
    BY <1>0 DEF Ends
  <2> QED
    BY <2>1, <2>2, <2>4, <2>5, ChildMoves DEF ChildLabels
<1>2. CASE Pipe8!Dup2(c)
  <2> DEFINE o == [open[c] EXCEPT ![Pipe8!redirectFd[c]] = Kind(c)]
  <2>1. pc[c] = "dup2" /\ pc' = [pc EXCEPT ![c] = "close end"] /\ UNCHANGED <<std, pfd>>
    BY <1>2 DEF Pipe8!Dup2, Pipe8!Goto
  <2>2. open[c] = Closed1(c)
    BY <2>1 DEF Descriptors, Fits
  <2>3. open[c][Kept(c)] = Kind(c)
    BY <1>0, <2>1, <2>2, ChildFds DEF Closed1, Piped, Bare
  <2>4. open' = [open EXCEPT ![c] = o]
    BY <1>2, <2>1, <2>3, ChildFds DEF Pipe8!Dup2
  <2>5. Fits(c, "close end", o)
    BY <2>2 DEF Fits, Dupped
  <2>6. o \in [Pipe8!Fd -> Ends]
    BY <1>0 DEF Ends, Kind
  <2> QED
    BY <2>1, <2>4, <2>5, <2>6, ChildMoves DEF ChildLabels
<1>3. CASE Pipe8!CloseEnd(c)
  <2> DEFINE o == [open[c] EXCEPT ![Kept(c)] = "closed"]
  <2>1. pc[c] = "close end" /\ pc' = [pc EXCEPT ![c] = "exec"] /\ UNCHANGED <<std, pfd>>
    BY <1>3 DEF Pipe8!CloseEnd, Pipe8!Goto
  <2>2. open' = [open EXCEPT ![c] = o]
    BY <1>3, <2>1, ChildFds DEF Pipe8!CloseEnd, Pipe8!close
  <2>3. open[c] = Dupped(c)
    BY <2>1 DEF Descriptors, Fits
  <2>4. Fits(c, "exec", o)
    BY <2>3 DEF Fits, Closed2
  <2>5. o \in [Pipe8!Fd -> Ends]
    BY <1>0 DEF Ends
  <2> QED
    BY <2>1, <2>2, <2>4, <2>5, ChildMoves DEF ChildLabels
<1>4. CASE Pipe8!Exec(c)
  <2>1. pc[c] = "exec" /\ pc' = [pc EXCEPT ![c] = "run"] /\ UNCHANGED <<std, pfd, open>>
    BY <1>4 DEF Pipe8!Exec, Pipe8!Goto
  <2>2. open' = [open EXCEPT ![c] = open[c]]
    BY <1>0, <2>1
  <2>3. Fits(c, "run", open[c])
    BY <2>1 DEF Descriptors, Fits
  <2> QED
    BY <1>0, <2>1, <2>2, <2>3, ChildMoves DEF ChildLabels
<1>5. ASSUME pc[c] \notin Pipe8!Ended \cup {"off"}, NEW how \in Pipe8!Ended,
             Pipe8!Exit(c, how), UNCHANGED <<std, pfd>>
      PROVE  PipeTypes' /\ ForkOrder' /\ Descriptors'
  <2> DEFINE o == [n \in Pipe8!Fd |-> "closed"]
  <2>1. pc' = [pc EXCEPT ![c] = how] /\ open' = [open EXCEPT ![c] = o]
    BY <1>5 DEF Pipe8!Exit, Pipe8!Goto
  <2>2. Fits(c, how, o) /\ how \in ChildLabels \ {"off"}
    BY DEF Fits, ChildLabels, Pipe8!Ended
  <2>3. o \in [Pipe8!Fd -> Ends]
    BY DEF Ends
  <2> QED
    BY <1>5, <2>1, <2>2, <2>3, ChildMoves
<1> QED
  BY <1>1, <1>2, <1>3, <1>4, <1>5 DEF Pipe8!ChildStep

(***************************************************************************)
(* wc sees the end of the data only after ls: if its input is the pipe,    *)
(* descriptor 0 was open at the start, so that pipe() did not return 1 as  *)
(* the write end, and ls has a write end open until it ends.               *)
(***************************************************************************)
LEMMA EndOfData ==
  ASSUME PipeInv, pc["wc"] = "run", open["wc"][0] = "r", ~Pipe8!HasEnd("w")
  PROVE  pc["ls"] \in Pipe8!Ended
<1> USE DEF PipeInv
<1>0. /\ ReadFd \in Pipe8!Fd /\ WriteFd \in Pipe8!Fd /\ ReadFd # WriteFd
      /\ {0, 1} \subseteq Pipe8!Fd /\ Pipe8!Child = {"ls", "wc"}
      /\ Pipe8!redirectFd["ls"] = 1 /\ Pipe8!redirectFd["wc"] = 0
  BY EndsApart DEF PipeTypes, Pipe8!Fd, Pipe8!Child, Pipe8!redirectFd,
     Pipe8!STDIN_FILENO, Pipe8!STDOUT_FILENO
<1>1. WriteFd # 1
  <2>1. open["wc"] = Closed2("wc")
    BY <1>0 DEF Descriptors, Fits
  <2>2. Dupped("wc") \in [Pipe8!Fd -> {Dupped("wc")[n] : n \in Pipe8!Fd}]
    BY DEF Dupped, Closed1, Piped, Bare
  <2>3. ReadFd # 0
    BY <1>0, <2>1, <2>2 DEF Closed2, Kept
  <2> QED
    BY <2>3 DEF ReadFd, WriteFd
<1>2. SUFFICES ASSUME pc["ls"] \notin Pipe8!Ended PROVE FALSE
  OBVIOUS
<1>3. pc["ls"] \in {"close unused", "dup2", "close end", "exec", "run"}
  BY <1>0, <1>2 DEF PipeTypes, ForkOrder, ChildLabels
<1>4. Fits("ls", pc["ls"], open["ls"])
  BY <1>0 DEF Descriptors
<1>5. /\ Piped[WriteFd] = "w" /\ Closed1("ls")[WriteFd] = "w"
      /\ Dupped("ls")[1] = "w" /\ Closed2("ls")[1] = "w"
  BY <1>0, <1>1 DEF Piped, Bare, Closed1, Dupped, Closed2, Kept, Unneeded, Kind
<1>6. \E n \in Pipe8!Fd : open["ls"][n] = "w"
  BY <1>0, <1>3, <1>4, <1>5 DEF Fits
<1> QED
  BY <1>3, <1>6 DEF Pipe8!HasEnd, Pipe8!Living, Pipe8!Running, Pipe8!Proc, Pipe8!Child

\* Every step of 8-Pipe keeps PipeInv.
LEMMA PipeStep == PipeInv /\ [Pipe8!Next]_pipe8 => PipeInv'
<1> SUFFICES ASSUME PipeInv, [Pipe8!Next]_pipe8 PROVE PipeInv'
  OBVIOUS
<1>0. /\ pc \in [Pipe8!Proc -> Pipe8!Running \cup Pipe8!Ended \cup {"off"}]
      /\ {"ls", "wc", "main"} \subseteq Pipe8!Proc /\ Pipe8!Child = {"ls", "wc"}
      /\ pc["ls"] = "off" => pc["wc"] # "done"
  BY DEF PipeInv, PipeTypes, ForkOrder, Pipe8!Proc, Pipe8!Child
<1>1. CASE Pipe8!MainStep \/ Pipe8!MainFails
  <2>1. UNCHANGED Pipe8!pipe
    BY <1>1 DEF Pipe8!MainStep, Pipe8!MainFails, Pipe8!initializePipe, Pipe8!Fork,
       Pipe8!Cleanup, Pipe8!waitForChildren
  <2>2. pc'["wc"] = "done" => pc["wc"] = "done" /\ pc'["ls"] = pc["ls"]
    <3>1. \/ \E label : pc' = [pc EXCEPT !["main"] = label]
          \/ Pipe8!Fork(1) \/ Pipe8!Fork(2)
      <4>1. \A k \in 1 .. 2 : k = 1 \/ k = 2
        OBVIOUS
      <4> QED
        BY <1>1, <4>1 DEF Pipe8!MainStep, Pipe8!MainFails, Pipe8!initializePipe,
           Pipe8!Cleanup, Pipe8!waitForChildren, Pipe8!Exit, Pipe8!Goto
    <3>2. CASE \E label : pc' = [pc EXCEPT !["main"] = label]
      BY <1>0, <3>2
    <3>3. CASE Pipe8!Fork(1)
      <4>1. pc["main"] = "fork ls" /\ pc["wc"] = "off"
        BY <3>3 DEF Pipe8!Fork, PipeInv, ForkOrder
      <4>2. pc' = [pc EXCEPT !["ls"] = "close unused", !["main"] = "fork wc"]
        BY <3>3 DEF Pipe8!Fork, Pipe8!handlers
      <4> QED
        BY <1>0, <4>1, <4>2
    <3>4. CASE Pipe8!Fork(2)
      <4>1. Pipe8!handlers[2] = "wc" /\ 2 # 1
        BY DEF Pipe8!handlers
      <4>2. pc' = [pc EXCEPT !["wc"] = "close unused", !["main"] = "close r"]
        BY <3>4, <4>1 DEF Pipe8!Fork
      <4> QED
        BY <1>0, <4>2
    <3> QED
      BY <3>1, <3>2, <3>3, <3>4
  <2>3. LinesKept'
    BY <2>1, <2>2 DEF PipeInv, LinesKept, Pipe8!pipe
  <2> QED
    BY <1>1, <2>3, MainKeeps DEF PipeInv
<1>2. ASSUME NEW c \in Pipe8!Child, Pipe8!ChildStep(c) PROVE PipeInv'
  <2>1. UNCHANGED Pipe8!pipe /\ pc[c] \notin Pipe8!Ended
    BY <1>2 DEF Pipe8!ChildStep, Pipe8!CloseUnused, Pipe8!Dup2, Pipe8!CloseEnd,
       Pipe8!Exec, Pipe8!Ended
  <2>2. PICK label \in {"dup2", "close end", "exec", "run"} : pc' = [pc EXCEPT ![c] = label]
    BY <1>2 DEF Pipe8!ChildStep, Pipe8!CloseUnused, Pipe8!Dup2, Pipe8!CloseEnd,
       Pipe8!Exec, Pipe8!Goto
  <2>3. LinesKept'
    BY <1>0, <2>1, <2>2 DEF PipeInv, LinesKept, Pipe8!pipe, Pipe8!Ended
  <2> QED
    BY <1>2, <2>3, ChildKeeps DEF PipeInv
<1>3. ASSUME NEW c \in Pipe8!Child, pc[c] \notin Pipe8!Ended \cup {"off"},
             NEW how \in Pipe8!Ended, Pipe8!Exit(c, how), UNCHANGED <<std, pfd, Pipe8!pipe>>,
             c = "wc" /\ how = "done" => pc["ls"] \in Pipe8!Ended /\ data = 0
      PROVE  PipeInv'
  <2>1. PipeTypes' /\ ForkOrder' /\ Descriptors'
    BY <1>3, ChildKeeps
  <2>2. pc' = [pc EXCEPT ![c] = how]
    BY <1>3 DEF Pipe8!Exit, Pipe8!Goto
  <2>3. LinesKept'
    BY <1>0, <1>3, <2>2 DEF PipeInv, LinesKept, Pipe8!pipe
  <2> QED
    BY <2>1, <2>3 DEF PipeInv
<1>4. ASSUME NEW c \in Pipe8!Child, Pipe8!ChildFails(c) \/ Pipe8!Killed(c) PROVE PipeInv'
  <2>1. /\ pc[c] \notin Pipe8!Ended \cup {"off"} /\ UNCHANGED <<std, pfd, Pipe8!pipe>>
        /\ Pipe8!Exit(c, "failed") \/ Pipe8!Exit(c, "signalled")
    BY <1>4 DEF Pipe8!ChildFails, Pipe8!Killed, Pipe8!Living, Pipe8!Running, Pipe8!Ended,
       Pipe8!pipe
  <2> QED
    BY <2>1, <1>3 DEF Pipe8!Ended
<1>5. CASE Pipe8!LsWrite \/ Pipe8!WcRead
  <2>1. UNCHANGED <<open, std, pfd, pc>>
    BY <1>5 DEF Pipe8!LsWrite, Pipe8!WcRead
  <2>2. PipeTypes' /\ ForkOrder' /\ Descriptors'
    <3>1. \A c \in Pipe8!Child : Fits(c, pc[c], open[c])
      BY DEF PipeInv, Descriptors
    <3> QED
      BY <2>1, <3>1, TablesStay DEF PipeInv, PipeTypes, ForkOrder, Descriptors
  <2>3. CASE Pipe8!LsWrite
    <3>1. pc["wc"] # "done"
      BY <2>3 DEF Pipe8!LsWrite, PipeInv, LinesKept, Pipe8!Ended
    <3>2. LinesKept'
      BY <2>1, <2>3, <3>1 DEF Pipe8!LsWrite, PipeInv, LinesKept
    <3> QED
      BY <2>2, <3>2 DEF PipeInv
  <2>4. CASE Pipe8!WcRead
    <3>1. LinesKept'
      BY <2>1, <2>4 DEF Pipe8!WcRead, PipeInv, LinesKept
    <3> QED
      BY <2>2, <3>1 DEF PipeInv
  <2> QED
    BY <1>5, <2>3, <2>4
<1>6. CASE Pipe8!LsEnds
  <2>1. pc["ls"] = "run" /\ UNCHANGED <<std, pfd, Pipe8!pipe>>
    BY <1>6 DEF Pipe8!LsEnds
  <2>2. \E how \in Pipe8!Ended : Pipe8!Exit("ls", how)
    BY <1>6 DEF Pipe8!LsEnds, Pipe8!Ended
  <2>3. "run" \notin Pipe8!Ended \cup {"off"}
    BY DEF Pipe8!Ended
  <2> QED
    BY <1>0, <1>3, <2>1, <2>2, <2>3
<1>7. CASE Pipe8!WcEnds
  <2>1. pc["wc"] = "run" /\ UNCHANGED <<std, pfd, Pipe8!pipe>>
    BY <1>7 DEF Pipe8!WcEnds
  <2>2. "run" \notin Pipe8!Ended \cup {"off"} /\ {"done", "failed"} \subseteq Pipe8!Ended
    BY DEF Pipe8!Ended
  <2>3. \/ Pipe8!Exit("wc", "failed")
        \/ Pipe8!Exit("wc", "done") /\ open["wc"][0] = "r" /\ data = 0 /\ ~Pipe8!HasEnd("w")
    BY <1>7 DEF Pipe8!WcEnds, Pipe8!STDIN_FILENO
  <2>4. CASE Pipe8!Exit("wc", "failed")
    BY <1>0, <1>3, <2>1, <2>2, <2>4
  <2>5. CASE /\ Pipe8!Exit("wc", "done")
             /\ open["wc"][0] = "r" /\ data = 0 /\ ~Pipe8!HasEnd("w")
    <3>1. pc["ls"] \in Pipe8!Ended
      BY <2>1, <2>5, EndOfData
    <3> QED
      BY <1>0, <1>3, <2>1, <2>2, <2>5, <3>1
  <2> QED
    BY <2>3, <2>4, <2>5
<1>8. CASE UNCHANGED pipe8
  <2>1. \A c \in Pipe8!Child : Fits(c, pc[c], open[c])
    BY DEF PipeInv, Descriptors
  <2> QED
    BY <1>8, <2>1, TablesStay
       DEF pipe8, PipeInv, PipeTypes, ForkOrder, Descriptors, LinesKept
<1> QED
  BY <1>1, <1>2, <1>4, <1>5, <1>6, <1>7, <1>8 DEF Pipe8!Next, Pipe8!Command

----------------------------------------------------------------------------
\* A step of the composition is a step of one program and none of the others.
LEMMA StepsApart ==
  [Next]_vars => /\ [Proc3!Next]_proc3 /\ [Sig1!Next]_sig1
                 /\ [Sig3!Next]_sig3 /\ [Pipe8!Next]_pipe8
  BY DEF Next, vars, RunProc3, RunSig1, RunSig2, RunSig3, RunSig4, RunPipe8

(***************************************************************************)
(* Two SIGINTs are survived and the third kills (5-Signal/task1.c), for    *)
(* any number of SIGINTs and wherever in the loop they strike.             *)
(***************************************************************************)
THEOREM SigintsSurvived == Spec => []SurvivesTwo
<1>1. Init => SigintInv
  <2> SUFFICES ASSUME Sig1!Init PROVE SigintInv
    BY DEF Init
  <2> QED
    BY DEF Sig1!Init, SigintInv, SurvivesTwo, Sig1!SurvivesTwo
<1>2. SigintInv /\ [Next]_vars => SigintInv'
  BY SigintStep, StepsApart
<1>3. SigintInv => SurvivesTwo
  BY DEF SigintInv
<1> QED
  BY <1>1, <1>2, <1>3, PTL DEF Spec

(***************************************************************************)
(* What the parents of 3-Process and of 5-Signal/task3.c log about their   *)
(* child is how it ended, whoever is killed, and a normal exit in task3    *)
(* means that every signal sent was counted.                               *)
(***************************************************************************)
THEOREM ReportsAreTrue == Spec => []ReportsTrue
<1>1. Init => ForkInv
  <2> SUFFICES ASSUME Proc3!Init PROVE ForkInv
    BY DEF Init
  <2> QED
    BY DEF Proc3!Init, ForkInv, Proc3!Exits, Proc3!Signals
<1>2. Init => Usr1Inv
  <2> SUFFICES ASSUME Sig3!Init PROVE Usr1Inv
    BY DEF Init
  <2> QED
    BY ProcessAssumption DEF Sig3!Init, Usr1Inv
<1>3. ForkInv /\ [Next]_vars => ForkInv'
  BY ForkStep, StepsApart
<1>4. Usr1Inv /\ [Next]_vars => Usr1Inv'
  BY Usr1Step, StepsApart
<1>5. ForkInv => Proc3!LogsChildStatus
  BY Zenon DEF ForkInv, Proc3!LogsChildStatus, IsCommand
<1>6. Usr1Inv => Sig3!NormalMeansAllCounted
  BY ProcessAssumption DEF Usr1Inv, Sig3!NormalMeansAllCounted
<1>7. ForkInv /\ Usr1Inv => ReportsTrue
  BY <1>5, <1>6 DEF ReportsTrue
<1> QED
  BY <1>1, <1>2, <1>3, <1>4, <1>7, PTL DEF Spec

\* PipeInv holds throughout every run of 8-Pipe, whatever fails or is killed.
LEMMA PipeInvariant == Spec => []PipeInv
<1>1. Init => PipeInv
  <2> SUFFICES ASSUME Pipe8!Init PROVE PipeInv
    BY DEF Init
  <2> USE DEF Pipe8!Init, Pipe8!Proc, Pipe8!Child
  <2>1. PipeTypes
    BY DEF PipeTypes, Ends, ChildLabels, Pipe8!Running, Pipe8!Fd, Pipe8!STDIN_FILENO,
       Pipe8!STDOUT_FILENO
  <2>2. ForkOrder
    BY DEF ForkOrder
  <2>3. Descriptors
    BY DEF Descriptors, Fits, Bare
  <2>4. LinesKept
    BY DEF LinesKept
  <2> QED
    BY <2>1, <2>2, <2>3, <2>4 DEF PipeInv
<1>2. PipeInv /\ [Next]_vars => PipeInv'
  BY PipeStep, StepsApart
<1> QED
  BY <1>1, <1>2, PTL DEF Spec

(***************************************************************************)
(* 8-Pipe/main.c, executeCommandWithPipe: whichever of descriptors 0 and 1 *)
(* the program was started with, a command runs with its end of the pipe   *)
(* as its standard stream and no other descriptor of the pipe, unless that *)
(* end already is the descriptor it is to become: dup2 then does nothing,  *)
(* and the close after it leaves the command none.                         *)
(***************************************************************************)
THEOREM CommandsConnected == Spec => []CommandConnected
<1>1. PipeInv => CommandConnected
  <2> SUFFICES ASSUME PipeInv, NEW c \in Pipe8!Child, pc[c] = "run", NEW n \in Pipe8!Fd
               PROVE  open[c][n] \in {"r", "w"} <=> n = Pipe8!redirectFd[c] /\ ~Pipe8!CutOff(c)
    BY DEF CommandConnected, Pipe8!CommandConnected
  <2>1. open[c] = Closed2(c) /\ std \subseteq {0, 1}
    BY DEF PipeInv, PipeTypes, Descriptors, Fits
  <2>2. Pipe8!redirectFd[c] \in Pipe8!Fd /\ Kind(c) \in {"r", "w"}
    BY DEF Pipe8!redirectFd, Pipe8!Child, Pipe8!Fd, Pipe8!STDIN_FILENO, Pipe8!STDOUT_FILENO, Kind
  <2>3. Piped[n] \in {"r", "w"} => n \in {Kept(c), Unneeded(c)}
    BY DEF Piped, Bare, Kept, Unneeded
  <2>4. Closed2(c)[n] = IF n = Kept(c) THEN "closed"
                        ELSE IF n = Pipe8!redirectFd[c] THEN Kind(c)
                        ELSE IF n = Unneeded(c) THEN "closed" ELSE Piped[n]
    BY DEF Closed2, Dupped, Closed1, Piped, Bare
  <2>5. open[c][n] \in {"r", "w"} <=> n = Pipe8!redirectFd[c] /\ n # Kept(c)
    BY <2>1, <2>2, <2>3, <2>4
  <2>6. Pipe8!redirectFd[c] = Kept(c) <=> Pipe8!CutOff(c)
    <3>1. CASE c = "ls"
      BY <2>1, <3>1 DEF Pipe8!CutOff, Kept, WriteFd, Pipe8!redirectFd, Pipe8!Child,
         Pipe8!STDIN_FILENO, Pipe8!STDOUT_FILENO
    <3>2. CASE c = "wc"
      BY <2>1, <3>2 DEF Pipe8!CutOff, Kept, ReadFd, Pipe8!redirectFd, Pipe8!Child,
         Pipe8!STDIN_FILENO, Pipe8!STDOUT_FILENO
    <3> QED
      BY <3>1, <3>2 DEF Pipe8!Child
  <2> QED
    BY <2>5, <2>6
<1> QED
  BY <1>1, PipeInvariant, PTL

(***************************************************************************)
(* 8-Pipe/main.c: wc prints a count only when ls has ended and every line  *)
(* it wrote was counted, for any number of lines, any capacity of the pipe,*)
(* any failures and kills, and any descriptors closed at the start.        *)
(***************************************************************************)
THEOREM CountsComplete == Spec => []CountComplete
<1>1. PipeInv => CountComplete
  BY DEF PipeInv, LinesKept, CountComplete, Pipe8!CountComplete
<1> QED
  BY <1>1, PipeInvariant, PTL
==============================================================================
