---------------------------- MODULE ThreadResults ----------------------------
(***************************************************************************)
(* 4-Thread/task1.c: each thread returns an allocated message with its     *)
(* number, which main logs and frees when it joins the thread.  A thread   *)
(* takes its number from its own element of tinfo, which main has written  *)
(* before; the thread_id it logs may not be there yet and is left out.     *)
(*                                                                         *)
(* SUCCESS is a parameter for the reason given in SharedCounter.           *)
(***************************************************************************)
EXTENDS Naturals, Sequences

CONSTANTS
  NUM_THREADS,  \* 2 in the code
  SUCCESS,
  MaxFail       \* bound: failing calls

FAILURE == 0
Thread == 0 .. NUM_THREADS - 1

VARIABLES
  thread_num,  \* thread_num[t]: the number in t's element of tinfo
  tpc,         \* tpc[t]: "off", "malloc" or "ended"
  ret,         \* ret[t]: "none", "NULL", "allocated" or "freed"
  message,     \* message[t]: the number in t's message
  logged,      \* the numbers main logged
  mpc, tnum,   \* what main does next, and its loop index
  fails

vars == <<thread_num, tpc, ret, message, logged, mpc, tnum, fails>>

Init ==
  /\ thread_num = [t \in Thread |-> NUM_THREADS]
  /\ tpc = [t \in Thread |-> "off"]
  /\ ret = [t \in Thread |-> "none"]
  /\ message = [t \in Thread |-> NUM_THREADS]
  /\ logged = <<>>
  /\ mpc = "malloc" /\ tnum = 0 /\ fails = 0

----------------------------------------------------------------------------
\* entry: malloc(255), which may fail, sprintf and return.
Entry(t) ==
  /\ tpc[t] = "malloc"
  /\ \/ /\ ret' = [ret EXCEPT ![t] = "allocated"]
        /\ message' = [message EXCEPT ![t] = thread_num[t]]
        /\ UNCHANGED fails
     \/ /\ fails < MaxFail /\ fails' = fails + 1
        /\ ret' = [ret EXCEPT ![t] = "NULL"]
        /\ UNCHANGED message
  /\ tpc' = [tpc EXCEPT ![t] = "ended"]
  /\ UNCHANGED <<thread_num, logged, mpc, tnum>>

\* main goes on to `next` unless the call it made returned FAILURE.
Check(result, next) ==
  /\ mpc' = IF result = FAILURE THEN "terminated" ELSE next
  /\ tnum' = 0

Malloc ==
  /\ mpc = "malloc" /\ mpc' = "create"
  /\ UNCHANGED <<thread_num, tpc, ret, message, logged, tnum, fails>>

\* create_threads: one pthread_create, or the return after the last.
CreateThreads ==
  /\ mpc = "create"
  /\ IF tnum < NUM_THREADS
       THEN /\ thread_num' = [thread_num EXCEPT ![tnum] = tnum]
            /\ tpc' = [tpc EXCEPT ![tnum] = "malloc"]
            /\ tnum' = tnum + 1 /\ UNCHANGED mpc
       ELSE Check(SUCCESS, "join") /\ UNCHANGED <<thread_num, tpc>>
  /\ UNCHANGED <<ret, message, logged, fails>>

\* join_threads: one pthread_join, whose message is logged and freed unless it is NULL.
JoinThreads ==
  /\ mpc = "join"
  /\ IF tnum < NUM_THREADS
       THEN /\ tpc[tnum] = "ended"
            /\ IF ret[tnum] = "NULL"
                 THEN UNCHANGED <<ret, logged>>
                 ELSE /\ ret' = [ret EXCEPT ![tnum] = "freed"]
                      /\ logged' = Append(logged, message[tnum])
            /\ tnum' = tnum + 1 /\ UNCHANGED mpc
       ELSE Check(SUCCESS, "free") /\ UNCHANGED <<ret, logged>>
  /\ UNCHANGED <<thread_num, tpc, message, fails>>

\* The last message, free(tinfo) and return.
Free ==
  /\ mpc = "free" /\ mpc' = "returned"
  /\ UNCHANGED <<thread_num, tpc, ret, message, logged, tnum, fails>>

\* malloc, pthread_create or pthread_join fails: main terminates the process.
MainFails ==
  /\ mpc \in {"malloc", "create", "join"} /\ tnum < NUM_THREADS
  /\ fails < MaxFail /\ fails' = fails + 1
  /\ Check(FAILURE, mpc)
  /\ UNCHANGED <<thread_num, tpc, ret, message, logged>>

MainStep == Malloc \/ CreateThreads \/ JoinThreads \/ Free

Ended == mpc \in {"returned", "terminated"}

Next ==
  \/ ~Ended /\ (MainStep \/ MainFails)
  \/ ~Ended /\ \E t \in Thread : Entry(t)
  \/ Ended /\ UNCHANGED vars

Spec == Init /\ [][Next]_vars

----------------------------------------------------------------------------
(***************************************************************************)
(* When main returns it has logged the messages of the threads that could  *)
(* allocate one, in the order of the threads, and freed them.              *)
(***************************************************************************)
MessagesFreed ==
  mpc = "returned" =>
    /\ \A t \in Thread : ret[t] \in {"NULL", "freed"}
    /\ \A k, l \in DOMAIN logged : k < l => logged[k] < logged[l]
    /\ {logged[k] : k \in DOMAIN logged} = {t \in Thread : ret[t] = "freed"}
==============================================================================
