----------------------------- MODULE ThreadTasks -----------------------------
(***************************************************************************)
(* The programs of 4-Thread: one of task1 (ThreadResults), task2           *)
(* (SharedCounter), task3 (DataReady) and task4 (RwData) is started.  They *)
(* share the library, its headers and the shape of main, and never run in  *)
(* one process, so the variables of the programs not started stay Unused.  *)
(***************************************************************************)
EXTENDS Naturals

CONSTANTS
  NUM_THREADS, Loops,              \* task1 and task2
  N, Spurious,                     \* task3
  OR_NUM_THREADS, OW_NUM_THREADS,  \* task4
  SUCCESS, MaxFail

VARIABLES
  task,                              \* the program started
  fails,                             \* of all of them
  tpc, mpc, tnum,                    \* of task1, task2 and task4
  thread_num, message,               \* of task1
  logged,                            \* of task1 and task2
  ret,                               \* of task1 and task4
  shared_counter, loaded,            \* of task2
  i,                                 \* of task2, task3 and task4
  lock,                              \* of task2 and task3
  data,                              \* of task3 and task4
  data_ready, asleep, pc, got, overwritten, spurious,  \* of task3
  holders, seen                      \* of task4

Task1 == INSTANCE ThreadResults
Task2 == INSTANCE SharedCounter
Task3 == INSTANCE DataReady
Task4 == INSTANCE RwData

ASSUME ThreadAssumption ==
  Task2!CounterAssumption /\ Task3!ItemsAssumption /\ Task4!RwAssumption

of1 == <<thread_num, message>>
of2 == <<shared_counter, loaded>>
of3 == <<data_ready, asleep, pc, got, overwritten, spurious>>
of4 == <<holders, seen>>
but1 == <<task, i, lock, data, of2, of3, of4>>
but2 == <<task, data, ret, of1, of3, of4>>
but3 == <<task, tpc, mpc, tnum, logged, ret, of1, of2, of4>>
but4 == <<task, lock, logged, of1, of2, of3>>
vars == <<tpc, mpc, tnum, logged, fails, but1, but2>>

Unused == "unused"

Unused1 == thread_num = Unused /\ message = Unused
Unused2 == shared_counter = Unused /\ loaded = Unused
Unused3 ==
  /\ data_ready = Unused /\ asleep = Unused /\ pc = Unused
  /\ got = Unused /\ overwritten = Unused /\ spurious = Unused
Unused4 == holders = Unused /\ seen = Unused

Init ==
  \/ /\ task = 1 /\ Task1!Init /\ Unused2 /\ Unused3 /\ Unused4
     /\ i = Unused /\ lock = Unused /\ data = Unused
  \/ /\ task = 2 /\ Task2!Init /\ Unused1 /\ Unused3 /\ Unused4
     /\ ret = Unused /\ data = Unused
  \/ /\ task = 3 /\ Task3!Init /\ Unused1 /\ Unused2 /\ Unused4
     /\ tpc = Unused /\ mpc = Unused /\ tnum = Unused /\ logged = Unused /\ ret = Unused
  \/ /\ task = 4 /\ Task4!Init /\ Unused1 /\ Unused2 /\ Unused3
     /\ lock = Unused /\ logged = Unused

Run1(A) == task = 1 /\ A /\ UNCHANGED but1
Run2(A) == task = 2 /\ A /\ UNCHANGED but2
Run3(A) == task = 3 /\ A /\ UNCHANGED but3
Run4(A) == task = 4 /\ A /\ UNCHANGED but4

Next == Run1(Task1!Next) \/ Run2(Task2!Next) \/ Run3(Task3!Next) \/ Run4(Task4!Next)

Spec == Init /\ [][Next]_vars

(***************************************************************************)
(* The threads are scheduled, main's too.  A waiting writer is let in,     *)
(* although readers are preferred: there are finitely many and each leaves *)
(* the lock.  No call has to fail and nobody is woken without a signal.    *)
(***************************************************************************)
FairSpec ==
  /\ Spec
  /\ WF_vars(Run1(~Task1!Ended /\ Task1!MainStep))
  /\ \A t \in Task1!Thread : WF_vars(Run1(~Task1!Ended /\ Task1!Entry(t)))
  /\ WF_vars(Run2(~Task2!Ended /\ Task2!MainStep))
  /\ \A t \in Task2!Thread : WF_vars(Run2(~Task2!Ended /\ Task2!ThreadStep(t)))
  /\ WF_vars(Run3(~Task3!Ended /\ Task3!Main))
  /\ WF_vars(Run3(~Task3!Ended /\ Task3!Producer))
  /\ WF_vars(Run3(~Task3!Ended /\ Task3!Customer))
  /\ WF_vars(Run4(~Task4!Ended /\ Task4!MainStep))
  /\ \A t \in Task4!Thread : WF_vars(Run4(~Task4!Ended /\ Task4!ThreadStep(t)))

----------------------------------------------------------------------------
(***************************************************************************)
(* task2: the value main logs at the end counts every increment of every   *)
(* thread, and those the threads log without the mutex include their own.  *)
(***************************************************************************)
CounterExact == task = 2 => Task2!FinalCount /\ Task2!LoggedOwnWork

\* task3: the customer reads every item at most once and in order, and all of them
\* when main returns, unless a thread could not be created.
ItemsReadOnce == task = 3 => Task3!ItemsReadOnce

(***************************************************************************)
(* task3: no wakeup is lost.  Both threads end and main returns, except    *)
(* that the customer waits for ever after an overwrite, as it counts ten   *)
(* reads whatever it saw, and without a producer.  A customer that could   *)
(* not be created keeps nobody: main ends, if only by the crash that its   *)
(* join of an uninitialized pthread_t may be.                              *)
(***************************************************************************)
EndsUnlessOverwritten == <>(task = 3 => Task3!Settled)

\* task4: a reader sees one finished value, never the inside of a writer's loop.
ReadsWholeWrites == task = 4 => Task4!ReadsWholeWrites

(***************************************************************************)
(* task1, task4: every message a thread allocated is freed when main       *)
(* returns, and none that malloc refused; in task1 main has logged them in *)
(* the order of the threads, each with the number of its own thread.       *)
(***************************************************************************)
MessagesFreed == (task = 1 => Task1!MessagesFreed) /\ (task = 4 => Task4!MessagesFreed)

(***************************************************************************)
(* task1, task2, task4: main ends.  Nobody waits for a mutex or the rwlock *)
(* for ever, threads whose malloc failed included.                         *)
(***************************************************************************)
MainEnds == <>(task # 3 => mpc \in {"returned", "terminated"})

(***************************************************************************)
(* task1, task2, task4: main terminates the process with EXIT_FAILURE only *)
(* if a call failed, as its tests for FAILURE say.                         *)
(***************************************************************************)
TerminatesOnlyOnFailure ==
  task # 3 /\ mpc = "terminated" => fails > 0
==============================================================================
