------------------------------- MODULE ForkWait -------------------------------
(***************************************************************************)
(* 3-Process/task1.c to task4.c: four programs that fork one child.  task1 *)
(* waits for it; task2 waits for a command it hands over in the            *)
(* environment; task3 sleeps and returns without waiting; task4 ends at    *)
(* once and leaves an orphan that prints its parent's id.                  *)
(***************************************************************************)
EXTENDS Naturals

CONSTANT MaxKilled   \* bound: processes killed from outside

\* Ways to end that the parents tell apart; "other" is any other exit status.
Exits == {"EXIT_VALUE", "EXIT_FAILURE", "EXIT_SUCCESS", "other"}
Signals == {"SIGABRT", "SIGKILL"}

VARIABLES
  program,    \* which of the four was started
  argv1,      \* task2: the command asked for, "" or one too long for CMD_SIZE included
  env,        \* the value of MY_COMMAND, "unset" included
  dumpcore,   \* EF_DUMPCORE is set
  main,       \* the parent: "setenv", "fork", "wait", "sleep", "exit" or "ended"
  kid,        \* the child: "none", "run", "exec", "zombie" or "reaped"
  ppid,       \* the child's parent: "main" or "init"
  status,     \* how the child ended
  logged,     \* what the parent logged about the child, "nothing" included
  killed      \* processes killed from outside

asked == <<program, argv1, dumpcore>>
vars == <<asked, env, main, kid, ppid, status, logged, killed>>

Commands == {"", "ls", "toolong"}

Init ==
  /\ program \in 1 .. 4
  /\ argv1 \in Commands /\ env \in {"unset", "inherited"}
  /\ dumpcore \in BOOLEAN
  /\ main = (IF program = 2 THEN "setenv" ELSE "fork")
  /\ kid = "none" /\ ppid = "main"
  /\ status = "none" /\ logged = "nothing" /\ killed = 0

\* terminate of CmnBase: abort, or exit or _exit with the status.
terminate(s) == IF dumpcore THEN "SIGABRT" ELSE s

\* The parent is gone: init adopts the child and waits for it if it has ended.
MainEnds ==
  /\ main' = "ended"
  /\ ppid' = "init"
  /\ kid' = IF kid = "zombie" THEN "reaped" ELSE kid

\* The child ends and stays a zombie until its parent waits; init does so at once.
KidEnds(s) ==
  /\ status' = s
  /\ kid' = IF ppid = "init" THEN "reaped" ELSE "zombie"

----------------------------------------------------------------------------
\* set_cmd: setenv, which overrides; a failure is only logged.
SetCmd ==
  /\ main = "setenv"
  /\ env' \in {argv1, env}
  /\ main' = "fork"
  /\ UNCHANGED <<asked, kid, ppid, status, logged, killed>>

Fork ==
  /\ main = "fork"
  /\ main' = CASE program \in {1, 2} -> "wait" [] program = 3 -> "sleep" [] OTHER -> "exit"
  /\ kid' = "run"
  /\ UNCHANGED <<asked, env, ppid, status, logged, killed>>

ForkFails ==
  /\ main = "fork"
  /\ MainEnds
  /\ UNCHANGED <<asked, env, status, logged, killed>>

\* waitpid and the message: task1's main and task2's wait_process.
Wait ==
  /\ main = "wait" /\ kid = "zombie"
  /\ main' = "ended" /\ kid' = "reaped"
  /\ logged' = IF status \in Exits THEN status ELSE "abnormally"
  /\ UNCHANGED <<asked, env, ppid, status, killed>>

\* task3 after its sleep, task4 at once.
Return ==
  /\ main \in {"sleep", "exit"}
  /\ MainEnds
  /\ UNCHANGED <<asked, env, status, logged, killed>>

----------------------------------------------------------------------------
\* get_cmd: the command as it fits into CMD_SIZE characters, "" if there is none.
get_cmd == IF env = "unset" THEN "" ELSE IF env = "toolong" THEN "cut" ELSE env

\* The child of task1, task3 and task4 (which prints getppid ten times before it returns).
KidRuns ==
  /\ kid = "run" /\ program # 2
  /\ KidEnds(CASE program = 1 -> terminate("EXIT_VALUE")
               [] program = 3 -> terminate("EXIT_FAILURE")
               [] program = 4 -> "EXIT_SUCCESS")
  /\ UNCHANGED <<asked, env, main, ppid, logged, killed>>

\* The child of task2: execlp replaces it by the command, unless it fails.
KidExecs ==
  /\ kid = "run" /\ program = 2
  /\ \/ get_cmd # "" /\ kid' = "exec" /\ UNCHANGED status
     \/ KidEnds(terminate("EXIT_FAILURE"))
  /\ UNCHANGED <<asked, env, main, ppid, logged, killed>>

\* The command ends with any status of its own.
CommandEnds ==
  /\ kid = "exec"
  /\ \E s \in Exits \cup {"SIGABRT"} : KidEnds(s)
  /\ UNCHANGED <<asked, env, main, ppid, logged, killed>>

\* Somebody kills the parent or the child.
Kill ==
  /\ killed < MaxKilled
  /\ killed' = killed + 1
  /\ \/ main # "ended" /\ MainEnds /\ UNCHANGED status
     \/ kid \in {"run", "exec"} /\ KidEnds("SIGKILL") /\ UNCHANGED <<main, ppid>>
  /\ UNCHANGED <<asked, env, logged>>

MainStep == SetCmd \/ Fork \/ ForkFails \/ Wait \/ Return
KidStep == KidRuns \/ KidExecs \/ CommandEnds
Next == MainStep \/ KidStep \/ Kill

Spec == Init /\ [][Next]_vars

----------------------------------------------------------------------------
\* The values the variables range over.
TypeOK ==
  /\ program \in 1 .. 4 /\ argv1 \in Commands /\ dumpcore \in BOOLEAN
  /\ env \in Commands \cup {"unset", "inherited"}
  /\ main \in {"setenv", "fork", "wait", "sleep", "exit", "ended"}
  /\ kid \in {"none", "run", "exec", "zombie", "reaped"}
  /\ ppid \in {"main", "init"} /\ killed \in 0 .. MaxKilled
  /\ status \in Exits \cup Signals \cup {"none"}
  /\ logged \in Exits \cup {"nothing", "abnormally"}

(***************************************************************************)
(* What a parent logs of its child is how it ended, and the child has been *)
(* reaped by then: EXIT_VALUE in task1 only for a child that reached its   *)
(* own terminate and was not made to abort; success in task2 only if there *)
(* was a command to run.                                                   *)
(***************************************************************************)
LogsChildStatus ==
  /\ logged # "nothing" => kid = "reaped" /\ program \in {1, 2}
  /\ logged \in Exits => logged = status
  /\ logged = "abnormally" => status \in Signals /\ (dumpcore \/ killed > 0 \/ program = 2)
  /\ program = 1 /\ logged \in Exits => logged = "EXIT_VALUE" /\ ~dumpcore
  /\ program = 2 /\ logged = "EXIT_SUCCESS" => env \notin {"", "unset"}

\* Both processes are gone and no zombie is left.
Gone == main = "ended" /\ kid \in {"none", "reaped"}
==============================================================================
