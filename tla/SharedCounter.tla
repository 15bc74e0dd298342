---------------------------- MODULE SharedCounter ----------------------------
(***************************************************************************)
(* 4-Thread/task2.c: threads increment shared_counter under a mutex; main  *)
(* creates them, joins them and logs the final value.                      *)
(*                                                                         *)
(* SUCCESS is a parameter because the headers disagree about it:           *)
(* cmnbase.h defines 1 and then includes strutils.h, which redefines it as *)
(* 0, the value of FAILURE.  main compares the results of create_mutex,    *)
(* create_threads and join_threads with FAILURE.                           *)
(***************************************************************************)
EXTENDS Naturals

CONSTANTS
  NUM_THREADS,  \* 3 in the code
  Loops,        \* increments per thread (1000000 in the code)
  SUCCESS,
  MaxFail       \* bound: failing calls

FAILURE == 0

\* What the constants have to be; ThreadTasks assumes it.
CounterAssumption ==
  /\ NUM_THREADS \in Nat /\ Loops \in Nat \ {0} /\ MaxFail \in Nat
  /\ SUCCESS \in {0, 1}

Thread == 0 .. NUM_THREADS - 1

VARIABLES
  lock,            \* the thread that holds the mutex, or NUM_THREADS
  shared_counter,
  loaded,          \* loaded[t]: shared_counter as t's increment read it
  i,               \* i[t]: increments completed
  logged,          \* logged[t]: the value in t's last message
  tpc,             \* tpc[t]: what t does next
  mpc, tnum,       \* what main does next, and its loop index
  fails

counting == <<lock, shared_counter, loaded, i, logged>>
vars == <<counting, tpc, mpc, tnum, fails>>

Free == NUM_THREADS

Init ==
  /\ lock = Free /\ shared_counter = 0
  /\ loaded = [t \in Thread |-> 0]
  /\ i = [t \in Thread |-> 0]
  /\ logged = [t \in Thread |-> 0]
  /\ tpc = [t \in Thread |-> "off"]
  /\ mpc = "malloc" /\ tnum = 0
  /\ fails = 0

Goto(t, label) == tpc' = [tpc EXCEPT ![t] = label]

----------------------------------------------------------------------------
\* Mutant of Lock: the mutex is not waited for.
LockSkipped(t) ==
  /\ tpc[t] = "lock"
  /\ lock' = t
  /\ Goto(t, "load")
  /\ UNCHANGED <<shared_counter, loaded, i, logged, mpc, tnum, fails>>

\* entry: the loop of one thread, the increment being a load and a store.
Lock(t) ==
  /\ tpc[t] = "lock" /\ lock = Free
  /\ lock' = t
  /\ Goto(t, "load")
  /\ UNCHANGED <<shared_counter, loaded, i, logged, mpc, tnum, fails>>

Load(t) ==
  /\ tpc[t] = "load"
  /\ loaded' = [loaded EXCEPT ![t] = shared_counter]
  /\ Goto(t, "store")
  /\ UNCHANGED <<lock, shared_counter, i, logged, mpc, tnum, fails>>

Store(t) ==
  /\ tpc[t] = "store"
  /\ shared_counter' = loaded[t] + 1
  /\ Goto(t, "unlock")
  /\ UNCHANGED <<lock, loaded, i, logged, mpc, tnum, fails>>

Unlock(t) ==
  /\ tpc[t] = "unlock"
  /\ lock' = Free
  /\ i' = [i EXCEPT ![t] = @ + 1]
  /\ Goto(t, IF i[t] + 1 < Loops THEN "lock" ELSE "log")
  /\ UNCHANGED <<shared_counter, loaded, logged, mpc, tnum, fails>>

\* The last message reads shared_counter without the mutex; the 32-bit load yields
\* a value the variable has.
Log(t) ==
  /\ tpc[t] = "log"
  /\ logged' = [logged EXCEPT ![t] = shared_counter]
  /\ Goto(t, "ended")
  /\ UNCHANGED <<lock, shared_counter, loaded, i, mpc, tnum, fails>>

----------------------------------------------------------------------------
\* main goes on to `next` unless the call it made returned FAILURE.
Check(result, next) == mpc' = IF result = FAILURE THEN "terminated" ELSE next

\* malloc, then create_mutex, which only returns SUCCESS.
CreateMutex ==
  /\ mpc = "malloc"
  /\ Check(SUCCESS, "create")
  /\ UNCHANGED <<counting, tpc, tnum, fails>>

\* create_threads: one pthread_create, or the return after the last.
CreateThreads ==
  /\ mpc = "create"
  /\ IF tnum < NUM_THREADS
       THEN /\ tpc' = [tpc EXCEPT ![tnum] = "lock"]
            /\ tnum' = tnum + 1
            /\ UNCHANGED mpc
       ELSE Check(SUCCESS, "join") /\ tnum' = 0 /\ UNCHANGED tpc
  /\ UNCHANGED <<counting, fails>>

\* join_threads: one pthread_join, or the return after the last.
JoinThreads ==
  /\ mpc = "join"
  /\ IF tnum < NUM_THREADS
       THEN tpc[tnum] = "ended" /\ tnum' = tnum + 1 /\ UNCHANGED mpc
       ELSE Check(SUCCESS, "final") /\ UNCHANGED tnum
  /\ UNCHANGED <<counting, tpc, fails>>

\* destroy_mutex, free, and the final message.
Final ==
  /\ mpc = "final"
  /\ mpc' = "returned"
  /\ UNCHANGED <<counting, tpc, tnum, fails>>

\* malloc, pthread_create or pthread_join fails: main terminates the process.
MainFails ==
  /\ mpc \in {"malloc", "create", "join"}
  /\ mpc # "malloc" => tnum < NUM_THREADS
  /\ fails < MaxFail
  /\ fails' = fails + 1
  /\ Check(FAILURE, mpc)
  /\ UNCHANGED <<counting, tpc, tnum>>

ThreadStep(t) == Lock(t) \/ Load(t) \/ Store(t) \/ Unlock(t) \/ Log(t)
MainStep == CreateMutex \/ CreateThreads \/ JoinThreads \/ Final

Ended == mpc \in {"returned", "terminated"}

\* The threads live as long as the process, which may only stop where main ended.
Next ==
  \/ ~Ended /\ (MainStep \/ MainFails)
  \/ ~Ended /\ \E t \in Thread : ThreadStep(t)
  \/ Ended /\ UNCHANGED vars

Spec == Init /\ [][Next]_vars

----------------------------------------------------------------------------
\* The values the variables range over.
TypeOK ==
  /\ lock \in Thread \cup {Free}
  /\ shared_counter \in 0 .. NUM_THREADS * Loops
  /\ loaded \in [Thread -> 0 .. NUM_THREADS * Loops]
  /\ i \in [Thread -> 0 .. Loops]
  /\ logged \in [Thread -> 0 .. NUM_THREADS * Loops]
  /\ tpc \in [Thread -> {"off", "lock", "load", "store", "unlock", "log", "ended"}]
  /\ mpc \in {"malloc", "create", "join", "final", "returned", "terminated"}
  /\ tnum \in 0 .. NUM_THREADS
  /\ fails \in 0 .. MaxFail

(***************************************************************************)
(* The value main logs at the end counts every increment of every thread:  *)
(* no update is lost and no thread still runs.                             *)
(***************************************************************************)
FinalCount == mpc \in {"final", "returned"} => shared_counter = NUM_THREADS * Loops

(***************************************************************************)
(* The values the threads log without the mutex each include the thread's  *)
(* own work, and the largest one, the last thread's, is the final value.   *)
(***************************************************************************)
LoggedOwnWork ==
  /\ \A t \in Thread : tpc[t] = "ended" => logged[t] >= Loops
  /\ (\A t \in Thread : tpc[t] = "ended") /\ Thread # {} =>
       \E t \in Thread : logged[t] = shared_counter
==============================================================================
