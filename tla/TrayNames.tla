------------------------------ MODULE TrayNames ------------------------------
(***************************************************************************)
(* The life of the named objects of 10-Semaphore/main.c over several runs  *)
(* of the program: shmInit opens or creates a semaphore and a shared       *)
(* memory object per tray, spawnChildProcesses forks the children, which   *)
(* inherit the handles and the SIGINT handler, and handle_sigint unlinks   *)
(* the names in every process it runs in before it kills that process.     *)
(* Names and objects belong to the kernel and outlive a run.               *)
(*                                                                         *)
(* What the children do between sem_wait and sem_post is FoodTrays'.       *)
(***************************************************************************)
EXTENDS Naturals, Sequences, FiniteSets

CONSTANTS
  NumTrays,    \* length of food_shm[] (2 in the code)
  MaxRun,      \* bound: how often the program is started
  Handlers,    \* the handlers[] table: the children in fork order
  Uses,        \* Uses[c]: the trays child c waits for
  MaxFault     \* bound: SIGKILLs and failing system calls together

\* Indices of food_shm: VEGAN_SHM_IDX is 0, NON_VEGAN_SHM_IDX is 1.
Tray == 0 .. NumTrays - 1

Run == 1 .. MaxRun
Child == {Handlers[i] : i \in DOMAIN Handlers}
Role == Child \cup {"main"}
Proc == Run \X Role

ASSUME NamesAssumption ==
  /\ NumTrays \in Nat \ {0}
  /\ MaxRun \in Nat /\ MaxFault \in Nat
  /\ "main" \notin Child
  /\ Uses \in [Child -> SUBSET Tray \ {{}}]

None == 0   \* no object linked under a name, or not opened yet

VARIABLES
  semName,   \* semName[t]: the run that created the linked semaphore
  shmName,   \* shmName[t]: the run that created the linked memory object
  semVal,    \* semVal[t][r]: value of the semaphore created by run r
  semOf,     \* semOf[r][t]: the semaphore run r opened (semaphore.sem)
  shmOf,     \* shmOf[r][t]: the memory object run r mapped (addr)
  named,     \* named[r]: the trays whose semaphore.name is filled in
  pc,        \* pc[p]: what process p does next, or how it ended
  at,        \* at[p]: the tray shmInit or cleanup is working on
  holds,     \* holds[p]: the trays whose semaphore p took and did not post
  isRunning, \* isRunning[p]: is_running in p's memory
  quiet      \* so far no run opened its objects while one was cleaning up

kernel == <<semName, shmName, semVal>>
handles == <<semOf, shmOf, named>>
vars == <<kernel, handles, pc, at, holds, isRunning, quiet>>

Opening == {"name", "sem_open", "shm_open", "map"}
Handling == {"shm_unlink", "sem_unlink"}
Ended == {"reraised", "killed", "failed"}
Living(p) == pc[p] \notin Ended \cup {"off"}

main(r) == <<r, "main">>

Init ==
  /\ semName = [t \in Tray |-> None]
  /\ shmName = [t \in Tray |-> None]
  /\ semVal = [t \in Tray |-> [r \in Run |-> 0]]
  /\ semOf = [r \in Run |-> [t \in Tray |-> None]]
  /\ shmOf = [r \in Run |-> [t \in Tray |-> None]]
  /\ named = [r \in Run |-> {}]
  /\ pc = [p \in Proc |-> "off"]
  /\ at = [p \in Proc |-> 0]
  /\ holds = [p \in Proc |-> {}]
  /\ isRunning = [p \in Proc |-> TRUE]
  /\ quiet = TRUE

Goto(p, label) == pc' = [pc EXCEPT ![p] = label]

Faults == Cardinality({p \in Proc : pc[p] \in {"killed", "failed"}})

----------------------------------------------------------------------------
(***************************************************************************)
(* main: the handler is installed and the shm names are set, then          *)
(* shmInit runs for the vegan and the non-vegan tray in turn.              *)
(***************************************************************************)
Start(r) ==
  /\ pc[main(r)] = "off"
  /\ r > 1 => pc[main(r - 1)] # "off"
  /\ quiet' = (quiet /\ \A p \in Proc : pc[p] \notin Handling)
  /\ Goto(main(r), "name")
  /\ UNCHANGED <<kernel, handles, at, holds, isRunning>>

\* shmInit fills in semaphore.name before it opens the semaphore.
Name(r) ==
  /\ pc[main(r)] = "name"
  /\ named' = [named EXCEPT ![r] = @ \cup {at[main(r)]}]
  /\ Goto(main(r), "sem_open")
  /\ UNCHANGED <<kernel, semOf, shmOf, at, holds, isRunning, quiet>>

\* sem_open(O_CREAT, 1): the linked semaphore as it is, or a new one at 1.
SemOpen(r) ==
  LET t == at[main(r)]
      found == semName[t] # None
      obj == IF found THEN semName[t] ELSE r
  IN /\ pc[main(r)] = "sem_open"
     /\ semName' = [semName EXCEPT ![t] = obj]
     /\ semVal' = IF found THEN semVal ELSE [semVal EXCEPT ![t][r] = 1]
     /\ semOf' = [semOf EXCEPT ![r][t] = obj]
     /\ Goto(main(r), "shm_open")
     /\ UNCHANGED <<shmName, shmOf, named, at, holds, isRunning, quiet>>

\* shm_open(O_CREAT): the linked memory object or a new one.
ShmOpen(r) ==
  LET t == at[main(r)]
      obj == IF shmName[t] # None THEN shmName[t] ELSE r
  IN /\ pc[main(r)] = "shm_open"
     /\ shmName' = [shmName EXCEPT ![t] = obj]
     /\ shmOf' = [shmOf EXCEPT ![r][t] = obj]
     /\ Goto(main(r), "map")
     /\ UNCHANGED <<semName, semVal, semOf, named, at, holds, isRunning, quiet>>

\* ftruncate and mmap, then the next tray or spawnChildProcesses.
Map(r) ==
  /\ pc[main(r)] = "map"
  /\ IF at[main(r)] + 1 \in Tray
       THEN /\ at' = [at EXCEPT ![main(r)] = @ + 1]
            /\ Goto(main(r), "name")
       ELSE /\ at' = [at EXCEPT ![main(r)] = 0]
            /\ Goto(main(r), "fork")
  /\ UNCHANGED <<kernel, handles, holds, isRunning, quiet>>

\* forkWithHandlers for the next entry of handlers[]; after the last, the loop.
Fork(r) ==
  /\ pc[main(r)] = "fork"
  /\ \E i \in DOMAIN Handlers :
       /\ pc[<<r, Handlers[i]>>] = "off"
       /\ \A j \in 1 .. i - 1 : pc[<<r, Handlers[j]>>] # "off"
       /\ pc' = [pc EXCEPT ![<<r, Handlers[i]>>] = "work",
                           ![main(r)] = IF i = Len(Handlers)
                                          THEN "loop" ELSE "fork"]
  /\ UNCHANGED <<kernel, handles, at, holds, isRunning, quiet>>

(***************************************************************************)
(* A system call of shmInit or fork fails: terminate(EXIT_FAILURE, true)   *)
(* ends main.  Nothing is unlinked and the children already forked go on.  *)
(***************************************************************************)
Fail(r) ==
  /\ pc[main(r)] \in (Opening \ {"name"}) \cup {"fork"}
  /\ Faults < MaxFault
  /\ at' = [at EXCEPT ![main(r)] = 0]
  /\ Goto(main(r), "failed")
  /\ UNCHANGED <<kernel, handles, holds, isRunning, quiet>>

----------------------------------------------------------------------------
(***************************************************************************)
(* A child's loop: it waits for its semaphores, vegan before non-vegan,    *)
(* and posts them, all through the handles it inherited.                   *)
(***************************************************************************)
Wait(r, c, t) ==
  /\ pc[<<r, c>>] = "work" /\ isRunning[<<r, c>>]
  /\ t \in Uses[c] \ holds[<<r, c>>]
  /\ \A u \in Uses[c] \ holds[<<r, c>>] : t <= u
  /\ semVal[t][semOf[r][t]] > 0
  /\ semVal' = [semVal EXCEPT ![t][semOf[r][t]] = @ - 1]
  /\ holds' = [holds EXCEPT ![<<r, c>>] = @ \cup {t}]
  /\ Goto(<<r, c>>, IF holds[<<r, c>>] \cup {t} = Uses[c] THEN "post" ELSE "work")
  /\ UNCHANGED <<semName, shmName, handles, at, isRunning, quiet>>

Post(r, c, t) ==
  /\ pc[<<r, c>>] = "post"
  /\ t \in holds[<<r, c>>]
  /\ \A u \in holds[<<r, c>>] : t <= u
  /\ semVal' = [semVal EXCEPT ![t][semOf[r][t]] = @ + 1]
  /\ holds' = [holds EXCEPT ![<<r, c>>] = @ \ {t}]
  /\ Goto(<<r, c>>, IF holds[<<r, c>>] = {t} THEN "work" ELSE "post")
  /\ UNCHANGED <<semName, shmName, handles, at, isRunning, quiet>>

----------------------------------------------------------------------------
(***************************************************************************)
(* SIGINT strikes a set of processes of a run (all of them for Ctrl-C, one *)
(* for kill): each enters handle_sigint, which clears is_running and calls *)
(* cleanup.  SIGINT is blocked in the handler.                             *)
(***************************************************************************)
Sigint(r, S) ==
  /\ S # {}
  /\ \A c \in S : Living(<<r, c>>) /\ pc[<<r, c>>] \notin Handling
  /\ quiet' = (quiet /\ \A q \in Run \ {r} : pc[main(q)] \notin Opening)
  /\ pc' = [p \in Proc |-> IF p[1] = r /\ p[2] \in S THEN "shm_unlink" ELSE pc[p]]
  /\ at' = [p \in Proc |-> IF p[1] = r /\ p[2] \in S THEN 0 ELSE at[p]]
  /\ isRunning' = [p \in Proc |-> isRunning[p] /\ ~(p[1] = r /\ p[2] \in S)]
  /\ UNCHANGED <<kernel, handles, holds>>

\* Mutant of ShmUnlink: the memory object is closed and keeps its name.
ShmUnlinkForgotten(p) ==
  /\ pc[p] = "shm_unlink"
  /\ Goto(p, "sem_unlink")
  /\ UNCHANGED <<kernel, handles, at, holds, isRunning, quiet>>

\* cleanup, first half of a tray: close and shm_unlink.
ShmUnlink(p) ==
  /\ pc[p] = "shm_unlink"
  /\ shmName' = [shmName EXCEPT ![at[p]] = None]
  /\ Goto(p, "sem_unlink")
  /\ UNCHANGED <<semName, semVal, handles, at, holds, isRunning, quiet>>

\* Mutant of SemUnlink: the semaphore is closed and keeps its name.
SemUnlinkForgotten(p) ==
  /\ pc[p] = "sem_unlink"
  /\ IF at[p] + 1 \in Tray
       THEN at' = [at EXCEPT ![p] = @ + 1] /\ Goto(p, "shm_unlink")
       ELSE at' = [at EXCEPT ![p] = 0] /\ Goto(p, "reraised")
  /\ UNCHANGED <<kernel, handles, holds, isRunning, quiet>>

\* Mutant of SemUnlink: the loop over food_shm stops one tray early.
SemUnlinkStopsEarly(p) ==
  /\ pc[p] = "sem_unlink"
  /\ semName' = IF at[p] \in named[p[1]] THEN [semName EXCEPT ![at[p]] = None]
                                         ELSE semName
  /\ Goto(p, "reraised")
  /\ UNCHANGED <<shmName, semVal, handles, at, holds, isRunning, quiet>>

(***************************************************************************)
(* cleanup, second half: sem_close and sem_unlink, which does nothing if   *)
(* the signal came before shmInit filled in the semaphore's name; then the *)
(* next tray.  After the last one the default action is restored and       *)
(* raise(SIGINT) ends the process as the handler returns.                  *)
(***************************************************************************)
SemUnlink(p) ==
  /\ pc[p] = "sem_unlink"
  /\ semName' = IF at[p] \in named[p[1]] THEN [semName EXCEPT ![at[p]] = None]
                                         ELSE semName
  /\ IF at[p] + 1 \in Tray
       THEN at' = [at EXCEPT ![p] = @ + 1] /\ Goto(p, "shm_unlink")
       ELSE at' = [at EXCEPT ![p] = 0] /\ Goto(p, "reraised")
  /\ UNCHANGED <<shmName, semVal, handles, holds, isRunning, quiet>>

\* SIGKILL, at any moment.
Sigkill(p) ==
  /\ Living(p)
  /\ Faults < MaxFault
  /\ at' = [at EXCEPT ![p] = 0]
  /\ Goto(p, "killed")
  /\ UNCHANGED <<kernel, handles, holds, isRunning, quiet>>

Next ==
  \/ \E r \in Run : \/ Start(r) \/ Name(r) \/ SemOpen(r) \/ ShmOpen(r) \/ Map(r)
                    \/ Fork(r) \/ Fail(r)
                    \/ \E S \in SUBSET Role : Sigint(r, S)
                    \/ \E c \in Child, t \in Tray : Wait(r, c, t) \/ Post(r, c, t)
  \/ \E p \in Proc : ShmUnlink(p) \/ SemUnlink(p) \/ Sigkill(p)

Spec == Init /\ [][Next]_vars

----------------------------------------------------------------------------
\* The values the variables range over.
TypeOK ==
  /\ semName \in [Tray -> Run \cup {None}]
  /\ shmName \in [Tray -> Run \cup {None}]
  /\ semVal \in [Tray -> [Run -> {0, 1}]]
  /\ semOf \in [Run -> [Tray -> Run \cup {None}]]
  /\ shmOf \in [Run -> [Tray -> Run \cup {None}]]
  /\ named \in [Run -> SUBSET Tray]
  /\ pc \in [Proc -> Opening \cup Handling \cup Ended
                       \cup {"off", "fork", "loop", "work", "post"}]
  /\ at \in [Proc -> Tray]
  /\ holds \in [Proc -> SUBSET Tray]
  /\ isRunning \in [Proc -> BOOLEAN]
  /\ quiet \in BOOLEAN

(***************************************************************************)
(* Two processes, of one run or of several that overlap, are never inside  *)
(* the same buffer at once: whatever mix of old and new objects a start    *)
(* finds after interrupts, kills and failures, runs that share a buffer    *)
(* share its semaphore.  This rests on cleanup unlinking the memory object *)
(* before the semaphore.  It is claimed as long as no run was opening its  *)
(* objects while another one was in cleanup: those two race.               *)
(***************************************************************************)
OneInsidePerBuffer ==
  quiet => \A p, q \in Proc : \A t \in holds[p] \cap holds[q] :
    p # q => shmOf[p[1]][t] # shmOf[q[1]][t]

(***************************************************************************)
(* Once every process that was started ended in its SIGINT handler, no     *)
(* name is left, at whatever point of shmInit, fork or eating the signals  *)
(* struck and however the handlers of several runs interleaved: the next   *)
(* start creates everything afresh.                                        *)
(***************************************************************************)
InterruptLeavesNoName ==
  (\A p \in Proc : pc[p] \in {"off", "reraised"}) =>
     \A t \in Tray : semName[t] = None /\ shmName[t] = None

(***************************************************************************)
(* A semaphore a new run can find under its name is free, or is held by a  *)
(* process that still runs (its handler included), or was left by SIGKILL. *)
(* An interrupted process never leaves a taken semaphore linked.           *)
(***************************************************************************)
LinkedSemaphoreUsable ==
  \A t \in Tray :
    semName[t] # None /\ semVal[t][semName[t]] = 0 =>
      \E p \in Proc : /\ t \in holds[p] /\ semOf[p[1]][t] = semName[t]
                      /\ Living(p) \/ pc[p] = "killed"
==============================================================================
