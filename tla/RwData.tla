-------------------------------- MODULE RwData --------------------------------
(***************************************************************************)
(* 4-Thread/task4.c: readers and writers share data under a read-write     *)
(* lock; each thread returns an allocated message that main frees when it  *)
(* joins the thread.  A writer uses data itself as its loop counter.       *)
(*                                                                         *)
(* SUCCESS is a parameter for the reason given in SharedCounter: the       *)
(* headers define it as 1 and then as 0, the value of FAILURE.             *)
(***************************************************************************)
EXTENDS Naturals, FiniteSets

CONSTANTS
  OR_NUM_THREADS, OW_NUM_THREADS,  \* 5 readers and 2 writers in the code
  SUCCESS,
  MaxFail   \* bound: failing calls

FAILURE == 0

\* What the constants have to be; ThreadTasks assumes it.
RwAssumption ==
  /\ OR_NUM_THREADS \in Nat \ {0} /\ OW_NUM_THREADS \in Nat \ {0}
  /\ SUCCESS \in {0, 1} /\ MaxFail \in Nat

Reader == {"read"} \X (0 .. OR_NUM_THREADS - 1)
Writer == {"write"} \X (0 .. OW_NUM_THREADS - 1)
Thread == Reader \cup Writer

VARIABLES
  data,       \* the shared resource
  holders,    \* the threads inside the rwlock
  tpc,        \* tpc[t]: what t does next
  i,          \* i[t]: reads a reader has made
  seen,       \* seen[t]: the values a reader logged
  ret,        \* ret[t]: "none", "NULL", "allocated" or "freed"
  mpc, tnum,  \* what main does next, and its loop index
  fails

shared == <<data, holders>>
main == <<mpc, tnum>>
vars == <<shared, tpc, i, seen, ret, main, fails>>

Init ==
  /\ data = 0 /\ holders = {}
  /\ tpc = [t \in Thread |-> "off"]
  /\ i = [t \in Reader |-> 0]
  /\ seen = [t \in Reader |-> {}]
  /\ ret = [t \in Thread |-> "none"]
  /\ mpc = "create_readers" /\ tnum = 0
  /\ fails = 0

Goto(t, label) == tpc' = [tpc EXCEPT ![t] = label]

----------------------------------------------------------------------------
\* rt_entry and wt_entry start alike: malloc(255), which may fail.
Malloc(t) ==
  /\ tpc[t] = "malloc"
  /\ ret' = [ret EXCEPT ![t] = "allocated"]
  /\ Goto(t, "lock")
  /\ UNCHANGED <<shared, i, seen, main, fails>>

MallocFails(t) ==
  /\ tpc[t] = "malloc" /\ fails < MaxFail
  /\ fails' = fails + 1
  /\ ret' = [ret EXCEPT ![t] = "NULL"]
  /\ Goto(t, "lock")
  /\ UNCHANGED <<shared, i, seen, main>>

\* pthread_rwlock_rdlock, the reads, pthread_rwlock_unlock.
RdLock(t) ==
  /\ t \in Reader /\ tpc[t] = "lock"
  /\ holders \cap Writer = {}
  /\ holders' = holders \cup {t}
  /\ Goto(t, "loop")
  /\ UNCHANGED <<data, i, seen, ret, main, fails>>

\* Mutant of Read: the lock is given up between two reads.
ReadUnlocked(t) ==
  /\ t \in Reader /\ tpc[t] = "loop" /\ i[t] < OR_NUM_THREADS
  /\ seen' = [seen EXCEPT ![t] = @ \cup {data}]
  /\ i' = [i EXCEPT ![t] = @ + 1]
  /\ holders' = holders \ {t}
  /\ Goto(t, "lock")
  /\ UNCHANGED <<data, ret, main, fails>>

Read(t) ==
  /\ t \in Reader /\ tpc[t] = "loop" /\ i[t] < OR_NUM_THREADS
  /\ seen' = [seen EXCEPT ![t] = @ \cup {data}]
  /\ i' = [i EXCEPT ![t] = @ + 1]
  /\ UNCHANGED <<shared, tpc, ret, main, fails>>

\* pthread_rwlock_wrlock and data = 0, then ++data up to OW_NUM_THREADS.
WrLock(t) ==
  /\ t \in Writer /\ tpc[t] = "lock"
  /\ holders = {}
  /\ holders' = {t}
  /\ Goto(t, "reset")
  /\ UNCHANGED <<data, i, seen, ret, main, fails>>

Reset(t) ==
  /\ tpc[t] = "reset"
  /\ data' = 0
  /\ Goto(t, "loop")
  /\ UNCHANGED <<holders, i, seen, ret, main, fails>>

Write(t) ==
  /\ t \in Writer /\ tpc[t] = "loop" /\ data < OW_NUM_THREADS
  /\ data' = data + 1
  /\ UNCHANGED <<holders, tpc, i, seen, ret, main, fails>>

\* Mutant of Unlock: the readers forget to unlock.
UnlockForgotten(t) ==
  /\ tpc[t] = "loop"
  /\ IF t \in Reader THEN i[t] >= OR_NUM_THREADS ELSE data >= OW_NUM_THREADS
  /\ holders' = holders \ ({t} \cap Writer)
  /\ Goto(t, "ended")
  /\ UNCHANGED <<data, i, seen, ret, main, fails>>

\* pthread_rwlock_unlock after either loop, and the return.
Unlock(t) ==
  /\ tpc[t] = "loop"
  /\ IF t \in Reader THEN i[t] >= OR_NUM_THREADS ELSE data >= OW_NUM_THREADS
  /\ holders' = holders \ {t}
  /\ Goto(t, "ended")
  /\ UNCHANGED <<data, i, seen, ret, main, fails>>

----------------------------------------------------------------------------
\* main goes on to `next` unless the call it made returned FAILURE.
Check(result, next) ==
  /\ mpc' = IF result = FAILURE THEN "terminated" ELSE next
  /\ tnum' = 0

Group == IF mpc \in {"create_readers", "join_readers"} THEN "read" ELSE "write"
Num == IF Group = "read" THEN OR_NUM_THREADS ELSE OW_NUM_THREADS

\* create_threads: one pthread_create, or the return after the last.
CreateThreads ==
  /\ mpc \in {"create_readers", "create_writers"}
  /\ IF tnum < Num
       THEN /\ tpc' = [tpc EXCEPT ![<<Group, tnum>>] = "malloc"]
            /\ tnum' = tnum + 1 /\ UNCHANGED mpc
       ELSE /\ Check(SUCCESS, IF Group = "read" THEN "create_writers" ELSE "join_readers")
            /\ UNCHANGED tpc
  /\ UNCHANGED <<shared, i, seen, ret, fails>>

\* Mutant of JoinThreads: the returned message is not freed.
JoinThreadsLeaks ==
  /\ mpc \in {"join_readers", "join_writers"}
  /\ IF tnum < Num
       THEN /\ tpc[<<Group, tnum>>] = "ended"
            /\ tnum' = tnum + 1 /\ UNCHANGED mpc
       ELSE Check(SUCCESS, IF Group = "read" THEN "join_writers" ELSE "destroy")
  /\ UNCHANGED <<shared, tpc, i, seen, ret, fails>>

\* join_threads: one pthread_join, whose message is freed unless it is NULL.
JoinThreads ==
  /\ mpc \in {"join_readers", "join_writers"}
  /\ IF tnum < Num
       THEN /\ tpc[<<Group, tnum>>] = "ended"
            /\ ret' = [ret EXCEPT ![<<Group, tnum>>] = IF @ = "NULL" THEN @ ELSE "freed"]
            /\ tnum' = tnum + 1 /\ UNCHANGED mpc
       ELSE /\ Check(SUCCESS, IF Group = "read" THEN "join_writers" ELSE "destroy")
            /\ UNCHANGED ret
  /\ UNCHANGED <<shared, tpc, i, seen, fails>>

\* malloc, pthread_create or pthread_join fails: main terminates the process.
MainFails ==
  /\ mpc \notin {"destroy", "returned", "terminated"} /\ tnum < Num
  /\ fails < MaxFail
  /\ fails' = fails + 1
  /\ Check(FAILURE, mpc)
  /\ UNCHANGED <<shared, tpc, i, seen, ret>>

\* free(wt_info), free(rt_info), pthread_rwlock_destroy.
Destroy ==
  /\ mpc = "destroy"
  /\ mpc' = "returned"
  /\ UNCHANGED <<shared, tpc, i, seen, ret, tnum, fails>>

ThreadStep(t) ==
  \/ Malloc(t) \/ MallocFails(t) \/ RdLock(t) \/ Read(t)
  \/ WrLock(t) \/ Reset(t) \/ Write(t) \/ Unlock(t)

MainStep == CreateThreads \/ JoinThreads \/ Destroy

Ended == mpc \in {"returned", "terminated"}

\* The threads live as long as the process, which may only stop where main ended.
Next ==
  \/ ~Ended /\ (MainStep \/ MainFails)
  \/ ~Ended /\ \E t \in Thread : ThreadStep(t)
  \/ Ended /\ UNCHANGED vars

Spec == Init /\ [][Next]_vars

----------------------------------------------------------------------------
\* The values the variables range over.
TypeOK ==
  /\ data \in 0 .. OW_NUM_THREADS
  /\ holders \subseteq Thread
  /\ tpc \in [Thread -> {"off", "malloc", "lock", "reset", "loop", "ended"}]
  /\ i \in [Reader -> 0 .. OR_NUM_THREADS]
  /\ seen \in [Reader -> SUBSET (0 .. OW_NUM_THREADS)]
  /\ ret \in [Thread -> {"none", "NULL", "allocated", "freed"}]
  /\ mpc \in {"create_readers", "create_writers", "join_readers", "join_writers",
              "destroy", "returned", "terminated"}
  /\ tnum \in 0 .. OR_NUM_THREADS + OW_NUM_THREADS
  /\ fails \in 0 .. MaxFail

(***************************************************************************)
(* A reader sees one value in all its reads, and that is the initial 0 or  *)
(* the value of a finished writer, never one from inside a writer's loop.  *)
(***************************************************************************)
ReadsWholeWrites ==
  \A t \in Reader : \E v \in {0, OW_NUM_THREADS} : seen[t] \subseteq {v}

\* When main returns, every message that was allocated has been freed.
MessagesFreed ==
  mpc = "returned" => \A t \in Thread : ret[t] \in {"NULL", "freed"}
==============================================================================
