-------------------------- MODULE ThreadTasksProofs --------------------------
(***************************************************************************)
(* Proofs about ThreadTasks, for every number of threads, iterations and   *)
(* failing calls, and for both values the headers give SUCCESS.            *)
(***************************************************************************)
EXTENDS ThreadTasks, Sequences, FiniteSetTheorems, TLAPS

----------------------------------------------------------------------------
(***************************************************************************)
(* 4-Thread task1.  A message carries the number of its thread, and main   *)
(* has logged and freed those of the threads it joined and no others.      *)
(***************************************************************************)
ResultTypes ==
  /\ thread_num \in [Task1!Thread -> Nat] /\ message \in [Task1!Thread -> Nat]
  /\ tpc \in [Task1!Thread -> {"off", "malloc", "ended"}]
  /\ ret \in [Task1!Thread -> {"none", "NULL", "allocated", "freed"}]
  /\ logged \in Seq(Nat) /\ tnum \in Nat
  /\ mpc \in {"malloc", "create", "join", "free", "returned", "terminated"}

ResultOwn ==
  /\ \A t \in Task1!Thread :
       /\ tpc[t] # "off" => thread_num[t] = t
       /\ ret[t] \in {"allocated", "freed"} => message[t] = t
       /\ tpc[t] = "ended" <=> ret[t] # "none"
  /\ mpc = "malloc" => \A t \in Task1!Thread : tpc[t] = "off"
  /\ mpc = "create" => \A t \in Task1!Thread : t >= tnum => tpc[t] = "off"

\* The threads main has joined.
ResultJoined ==
  {t \in Task1!Thread : (mpc = "join" /\ t < tnum) \/ mpc \in {"free", "returned"}}

ResultFreed ==
  mpc # "terminated" =>
    /\ \A t \in ResultJoined : tpc[t] = "ended" /\ ret[t] \in {"NULL", "freed"}
    /\ \A t \in Task1!Thread :
         ret[t] = "freed" => t \in ResultJoined /\ \E k \in 1 .. Len(logged) : logged[k] = t
    /\ \A k \in 1 .. Len(logged) :
         logged[k] \in Task1!Thread /\ logged[k] \in ResultJoined /\ ret[logged[k]] = "freed"
    /\ \A k, l \in 1 .. Len(logged) : k < l => logged[k] < logged[l]

ResultInv == ResultTypes /\ ResultOwn /\ ResultFreed

\* Threads are numbered from 0.
LEMMA ResultThreads ==
  /\ NUM_THREADS \in Nat
  /\ \A t : t \in Task1!Thread <=> t \in Nat /\ t < NUM_THREADS
  BY ThreadAssumption DEF Task2!CounterAssumption, Task1!Thread

\* Every step of a thread or of main keeps ResultInv.
LEMMA ResultStep == ResultInv /\ [Task1!Next]_(Task1!vars) => ResultInv'
<1> SUFFICES ASSUME ResultInv, [Task1!Next]_(Task1!vars) PROVE ResultInv'
  OBVIOUS
<1> USE DEF ResultInv
<1>1. ASSUME NEW t \in Task1!Thread, Task1!Entry(t) PROVE ResultInv'
  <2>1. /\ tpc[t] = "malloc" /\ tpc' = [tpc EXCEPT ![t] = "ended"]
        /\ UNCHANGED <<thread_num, logged, mpc, tnum>>
        /\ \/ /\ ret' = [ret EXCEPT ![t] = "allocated"]
              /\ message' = [message EXCEPT ![t] = thread_num[t]]
           \/ ret' = [ret EXCEPT ![t] = "NULL"] /\ UNCHANGED message
    BY <1>1 DEF Task1!Entry
  <2>2. ResultTypes'
    BY <2>1 DEF ResultTypes
  <2>3. ResultOwn'
    BY <2>1, ResultThreads DEF ResultTypes, ResultOwn
  <2>4. ResultJoined' = ResultJoined /\ (mpc # "terminated" => t \notin ResultJoined)
    BY <2>1 DEF ResultFreed, ResultJoined
  <2>5. \A u \in Task1!Thread : u # t => tpc'[u] = tpc[u] /\ ret'[u] = ret[u]
    BY <2>1 DEF ResultTypes
  <2>6. ret'[t] # "freed" /\ ret[t] # "freed"
    BY <2>1 DEF ResultTypes, ResultOwn
  <2>7. ResultFreed'
    <3> SUFFICES ASSUME mpc # "terminated" PROVE ResultFreed'
      BY <2>1 DEF ResultFreed
    <3>1. \A u \in ResultJoined : u \in Task1!Thread
      BY DEF ResultJoined
    <3> QED
      BY <2>1, <2>4, <2>5, <2>6, <3>1 DEF ResultFreed
  <2> QED
    BY <2>2, <2>3, <2>7
<1>2. CASE Task1!Malloc
  BY <1>2, ResultThreads DEF ResultTypes, ResultOwn, ResultFreed, ResultJoined, Task1!Malloc
<1>3. CASE Task1!CreateThreads
  <2>1. mpc = "create" /\ UNCHANGED <<ret, message, logged>>
    BY <1>3 DEF Task1!CreateThreads
  <2>2. /\ ResultJoined = {} /\ \A u \in Task1!Thread : ret[u] # "freed"
        /\ \A k \in 1 .. Len(logged) : FALSE
    <3>1. ResultJoined = {}
      BY <2>1 DEF ResultJoined
    <3> QED
      BY <2>1, <3>1 DEF ResultFreed
  <2>3. CASE tnum < NUM_THREADS
    <3>1. /\ thread_num' = [thread_num EXCEPT ![tnum] = tnum]
          /\ tpc' = [tpc EXCEPT ![tnum] = "malloc"] /\ tnum' = tnum + 1 /\ mpc' = mpc
      BY <1>3, <2>3 DEF Task1!CreateThreads
    <3>2. tnum \in Task1!Thread /\ tnum \in Nat /\ tpc[tnum] = "off"
      <4>1. tnum \in Nat
        BY DEF ResultTypes
      <4>2. tnum \in Task1!Thread
        BY <2>3, <4>1, ResultThreads
      <4>3. tnum >= tnum
        BY <4>1
      <4> QED
        BY <2>1, <4>1, <4>2, <4>3 DEF ResultOwn
    <3>3. ResultTypes'
      BY <2>1, <3>1, <3>2 DEF ResultTypes
    <3>4. ResultOwn'
      BY <2>1, <3>1, <3>2, ResultThreads DEF ResultTypes, ResultOwn
    <3>5. ResultFreed'
      BY <2>1, <2>2, <3>1 DEF ResultFreed, ResultJoined
    <3> QED
      BY <3>3, <3>4, <3>5
  <2>4. CASE ~(tnum < NUM_THREADS)
    <3>1. mpc' \in {"terminated", "join"} /\ tnum' = 0 /\ UNCHANGED <<thread_num, tpc>>
      BY <1>3, <2>4 DEF Task1!CreateThreads, Task1!Check
    <3>2. ResultTypes' /\ ResultOwn'
      BY <2>1, <3>1 DEF ResultTypes, ResultOwn
    <3>3. ResultJoined' = {}
      BY <3>1, ResultThreads DEF ResultJoined
    <3>4. ResultFreed'
      BY <2>1, <2>2, <3>3 DEF ResultFreed
    <3> QED
      BY <3>2, <3>4
  <2> QED
    BY <2>3, <2>4
<1>4. CASE Task1!JoinThreads
  <2>1. mpc = "join" /\ UNCHANGED <<thread_num, tpc, message>>
    BY <1>4 DEF Task1!JoinThreads
  <2>2. CASE tnum < NUM_THREADS
    <3>1. /\ tpc[tnum] = "ended" /\ tnum' = tnum + 1 /\ mpc' = mpc
          /\ \/ ret[tnum] = "NULL" /\ UNCHANGED <<ret, logged>>
             \/ /\ ret[tnum] # "NULL" /\ ret' = [ret EXCEPT ![tnum] = "freed"]
                /\ logged' = Append(logged, message[tnum])
      BY <1>4, <2>2 DEF Task1!JoinThreads
    <3>2. tnum \in Task1!Thread /\ tnum \in Nat
      BY <2>2, ResultThreads DEF ResultTypes
    <3>3. tnum \notin ResultJoined /\ ret[tnum] \in {"NULL", "allocated"}
      BY <2>1, <3>1, <3>2 DEF ResultTypes, ResultOwn, ResultFreed, ResultJoined
    <3>4. \A u : u \in ResultJoined' <=> u = tnum \/ u \in ResultJoined
      BY <2>1, <3>1, <3>2, ResultThreads DEF ResultJoined
    <3>5. \A u : u \in ResultJoined => u \in Task1!Thread /\ u \in Nat /\ u < tnum
      BY <2>1, ResultThreads DEF ResultJoined
    <3>6. CASE ret[tnum] = "NULL" /\ UNCHANGED <<ret, logged>>
      <4>1. ResultTypes' /\ ResultOwn'
        BY <2>1, <3>1, <3>2, <3>6 DEF ResultTypes, ResultOwn
      <4>2. ResultFreed'
        BY <2>1, <3>1, <3>4, <3>6 DEF ResultFreed
      <4> QED
        BY <4>1, <4>2
    <3>7. CASE /\ ret[tnum] = "allocated" /\ ret' = [ret EXCEPT ![tnum] = "freed"]
               /\ logged' = Append(logged, message[tnum])
      <4>1. message[tnum] = tnum /\ logged \in Seq(Nat)
        BY <3>2, <3>7 DEF ResultOwn, ResultTypes
      <4>2. /\ logged' \in Seq(Nat) /\ Len(logged') = Len(logged) + 1 /\ Len(logged) \in Nat
            /\ logged'[Len(logged) + 1] = tnum
            /\ \A k \in 1 .. Len(logged) : logged'[k] = logged[k]
        BY <3>2, <3>7, <4>1
      <4>3. ResultTypes'
        BY <2>1, <3>1, <3>2, <3>7, <4>2 DEF ResultTypes
      <4>4. ResultOwn'
        BY <2>1, <3>1, <3>2, <3>7 DEF ResultTypes, ResultOwn
      <4>5. ret'[tnum] = "freed" /\ \A u \in Task1!Thread : u # tnum => ret'[u] = ret[u]
        BY <3>2, <3>7 DEF ResultTypes
      <4>6. \A u \in ResultJoined' : tpc'[u] = "ended" /\ ret'[u] \in {"NULL", "freed"}
        BY <2>1, <3>1, <3>4, <3>5, <4>5 DEF ResultFreed
      <4>7. ASSUME NEW u \in Task1!Thread, ret'[u] = "freed"
            PROVE  u \in ResultJoined' /\ \E k \in 1 .. Len(logged') : logged'[k] = u
        <5>1. CASE u = tnum
          BY <3>4, <4>2, <5>1
        <5>2. CASE u # tnum
          <6>1. PICK k \in 1 .. Len(logged) : logged[k] = u
            BY <2>1, <4>5, <4>7, <5>2 DEF ResultFreed
          <6>2. k \in 1 .. Len(logged') /\ logged'[k] = u
            BY <4>2, <6>1
          <6> QED
            BY <2>1, <3>4, <4>5, <4>7, <5>2, <6>2 DEF ResultFreed
        <5> QED
          BY <5>1, <5>2
      <4>8. ASSUME NEW k \in 1 .. Len(logged')
            PROVE  logged'[k] \in Task1!Thread /\ logged'[k] \in ResultJoined' /\ ret'[logged'[k]] = "freed"
        <5>1. CASE k = Len(logged) + 1
          BY <3>2, <3>4, <4>2, <4>5, <5>1
        <5>2. CASE k \in 1 .. Len(logged)
          <6>1. /\ logged'[k] = logged[k] /\ logged[k] \in ResultJoined
                /\ logged[k] \in Task1!Thread /\ ret[logged[k]] = "freed"
            BY <2>1, <4>2, <5>2 DEF ResultFreed
          <6> QED
            BY <3>3, <3>4, <4>5, <6>1
        <5> QED
          BY <4>2, <5>1, <5>2
      <4>9. ASSUME NEW k \in 1 .. Len(logged'), NEW l \in 1 .. Len(logged'), k < l
            PROVE  logged'[k] < logged'[l]
        <5>1. k \in 1 .. Len(logged) /\ (l = Len(logged) + 1 \/ l \in 1 .. Len(logged))
          BY <4>2, <4>9
        <5>2. logged'[k] = logged[k] /\ logged[k] < tnum
          BY <2>1, <3>5, <4>2, <5>1 DEF ResultFreed
        <5> QED
          BY <2>1, <4>2, <4>9, <5>1, <5>2 DEF ResultFreed
      <4>10. ResultFreed'
        BY <4>6, <4>7, <4>8, <4>9 DEF ResultFreed
      <4> QED
        BY <4>3, <4>4, <4>10
    <3> QED
      BY <3>1, <3>3, <3>6, <3>7
  <2>3. CASE ~(tnum < NUM_THREADS)
    <3>1. mpc' \in {"terminated", "free"} /\ tnum' = 0 /\ UNCHANGED <<ret, logged>>
      BY <1>4, <2>3 DEF Task1!JoinThreads, Task1!Check
    <3>2. ResultTypes' /\ ResultOwn'
      BY <2>1, <3>1 DEF ResultTypes, ResultOwn
    <3>3. mpc' = "free" => ResultJoined' = ResultJoined
      BY <2>1, <2>3, ResultThreads DEF ResultTypes, ResultJoined
    <3>4. ResultFreed'
      BY <2>1, <3>1, <3>3 DEF ResultFreed
    <3> QED
      BY <3>2, <3>4
  <2> QED
    BY <2>2, <2>3
<1>5. CASE Task1!Free
  BY <1>5 DEF ResultTypes, ResultOwn, ResultFreed, ResultJoined, Task1!Free
<1>6. CASE Task1!MainFails
  BY <1>6 DEF ResultTypes, ResultOwn, ResultFreed, Task1!MainFails, Task1!Check
<1>7. CASE UNCHANGED Task1!vars
  BY <1>7 DEF ResultTypes, ResultOwn, ResultFreed, ResultJoined, Task1!vars
<1> QED
  BY <1>1, <1>2, <1>3, <1>4, <1>5, <1>6, <1>7 DEF Task1!Next, Task1!MainStep

----------------------------------------------------------------------------
(***************************************************************************)
(* 4-Thread task2.  The thread that has the mutex is the one between lock  *)
(* and unlock, and what it loaded is still in shared_counter; the counter  *)
(* is the number of increments stored.  They are kept as a set of pairs of *)
(* a thread and an iteration, so that a sum over the threads is not needed.*)
(***************************************************************************)
Stored(t, n) == n <= i[t] \/ (n <= i[t] + 1 /\ tpc[t] = "unlock")
Increments == {p \in Task2!Thread \X (1 .. Loops) : Stored(p[1], p[2])}

CountTypes ==
  /\ shared_counter \in Nat /\ loaded \in [Task2!Thread -> Nat]
  /\ i \in [Task2!Thread -> Nat] /\ logged \in [Task2!Thread -> Nat]
  /\ tpc \in [Task2!Thread -> {"off", "lock", "load", "store", "unlock", "log", "ended"}]
  /\ mpc \in {"malloc", "create", "join", "final", "returned", "terminated"}
  /\ tnum \in Nat

CountControl ==
  /\ \A t \in Task2!Thread :
       /\ tpc[t] \in {"load", "store", "unlock"} <=> lock = t
       /\ tpc[t] = "store" => loaded[t] = shared_counter
       /\ IF tpc[t] \in {"log", "ended"} THEN i[t] = Loops ELSE i[t] < Loops
  /\ mpc = "malloc" => \A t \in Task2!Thread : tpc[t] = "off"
  /\ mpc = "create" => \A t \in Task2!Thread : t >= tnum => tpc[t] = "off"
  /\ mpc = "join" => \A t \in Task2!Thread : t < tnum => tpc[t] = "ended"
  /\ mpc \in {"final", "returned"} => \A t \in Task2!Thread : tpc[t] = "ended"

CountInv ==
  /\ CountTypes /\ CountControl /\ shared_counter = Cardinality(Increments)
  /\ Task2!LoggedOwnWork

\* Threads are numbered from 0, and each makes at least one increment.
LEMMA CountThreads ==
  /\ NUM_THREADS \in Nat /\ Loops \in Nat /\ Loops > 0
  /\ \A t : t \in Task2!Thread <=> t \in Nat /\ t < NUM_THREADS
  BY ThreadAssumption DEF Task2!CounterAssumption, Task2!Thread

\* There are NUM_THREADS * Loops pairs, Loops of them for each thread.
LEMMA CountPairs ==
  /\ IsFiniteSet(Task2!Thread \X (1 .. Loops))
  /\ Cardinality(Task2!Thread \X (1 .. Loops)) = NUM_THREADS * Loops
  /\ \A t \in Task2!Thread : /\ IsFiniteSet({t} \X (1 .. Loops))
                             /\ Cardinality({t} \X (1 .. Loops)) = Loops
<1>1. /\ IsFiniteSet(Task2!Thread) /\ Cardinality(Task2!Thread) = NUM_THREADS
      /\ IsFiniteSet(1 .. Loops) /\ Cardinality(1 .. Loops) = Loops
  <2>1. 0 \in Int /\ NUM_THREADS - 1 \in Int /\ 1 \in Int /\ Loops \in Int
    BY CountThreads
  <2>2. /\ IsFiniteSet(0 .. NUM_THREADS - 1) /\ IsFiniteSet(1 .. Loops)
        /\ Cardinality(0 .. NUM_THREADS - 1) =
             IF 0 > NUM_THREADS - 1 THEN 0 ELSE NUM_THREADS - 1 - 0 + 1
        /\ Cardinality(1 .. Loops) = IF 1 > Loops THEN 0 ELSE Loops - 1 + 1
    BY <2>1, FS_Interval
  <2> QED
    BY <2>2, CountThreads DEF Task2!Thread
<1>2. /\ IsFiniteSet(Task2!Thread \X (1 .. Loops))
      /\ Cardinality(Task2!Thread \X (1 .. Loops)) =
           Cardinality(Task2!Thread) * Cardinality(1 .. Loops)
  BY <1>1, FS_Product
<1>3. ASSUME NEW t \in Task2!Thread
      PROVE  /\ IsFiniteSet({t} \X (1 .. Loops))
             /\ Cardinality({t} \X (1 .. Loops)) = Loops
  <2>1. IsFiniteSet({t}) /\ Cardinality({t}) = 1
    BY FS_Singleton
  <2>2. /\ IsFiniteSet({t} \X (1 .. Loops))
        /\ Cardinality({t} \X (1 .. Loops)) = Cardinality({t}) * Cardinality(1 .. Loops)
    BY <1>1, <2>1, FS_Product
  <2> QED
    BY <1>1, <2>1, <2>2, CountThreads
<1> QED
  BY <1>1, <1>2, <1>3

\* The increments stored are finitely many.
LEMMA IncrementsFinite == IsFiniteSet(Increments) /\ Cardinality(Increments) \in Nat
<1>1. Increments \in SUBSET (Task2!Thread \X (1 .. Loops))
  BY DEF Increments
<1>2. IsFiniteSet(Increments)
  BY <1>1, CountPairs, FS_Subset
<1> QED
  BY <1>2, FS_CardinalityType

\* Steps that store nothing and log nothing keep the counter and what was logged.
LEMMA CountKeeps ==
  ASSUME CountInv, CountTypes', UNCHANGED <<shared_counter, logged>>,
         \A t \in Task2!Thread : /\ \A n \in 1 .. Loops : Stored(t, n)' <=> Stored(t, n)
                                 /\ tpc'[t] = "ended" => tpc[t] = "ended"
  PROVE  shared_counter' = Cardinality(Increments)' /\ Task2!LoggedOwnWork'
<1>1. Increments' = Increments
  BY DEF Increments
<1> QED
  BY <1>1 DEF CountInv, Task2!LoggedOwnWork

\* Every step of a thread keeps CountInv.
LEMMA CountThreadStep ==
  ASSUME CountInv, NEW t \in Task2!Thread, Task2!ThreadStep(t), ~Task2!Ended
  PROVE  CountInv'
<1> USE DEF Task2!Goto
<1>1. /\ CountTypes /\ CountControl /\ Loops \in Nat /\ i[t] \in Nat /\ t # Task2!Free
      /\ \A u \in Task2!Thread : u # Task2!Free
  BY CountThreads DEF CountInv, CountTypes, Task2!Free
<1>2. mpc \in {"malloc", "create", "join", "final"} /\ UNCHANGED <<mpc, tnum>>
  BY DEF CountInv, CountTypes, Task2!Ended, Task2!ThreadStep, Task2!Lock, Task2!Load,
         Task2!Store, Task2!Unlock, Task2!Log
<1>3. CASE Task2!Lock(t)
  <2>1. /\ tpc[t] = "lock" /\ lock = Task2!Free /\ lock' = t
        /\ tpc' = [tpc EXCEPT ![t] = "load"]
        /\ UNCHANGED <<shared_counter, loaded, i, logged>>
    BY <1>3 DEF Task2!Lock
  <2>2. CountTypes'
    BY <1>1, <1>2, <2>1 DEF CountTypes
  <2>3. CountControl'
    BY <1>1, <1>2, <2>1 DEF CountTypes, CountControl
  <2>4. \A u \in Task2!Thread : /\ \A n \in 1 .. Loops : Stored(u, n)' <=> Stored(u, n)
                                /\ tpc'[u] = "ended" => tpc[u] = "ended"
    BY <1>1, <2>1 DEF CountTypes, Stored
  <2> QED
    BY <2>1, <2>2, <2>3, <2>4, CountKeeps DEF CountInv
<1>4. CASE Task2!Load(t)
  <2>1. /\ tpc[t] = "load" /\ loaded' = [loaded EXCEPT ![t] = shared_counter]
        /\ tpc' = [tpc EXCEPT ![t] = "store"]
        /\ UNCHANGED <<lock, shared_counter, i, logged>>
    BY <1>4 DEF Task2!Load
  <2>2. CountTypes'
    BY <1>1, <1>2, <2>1 DEF CountTypes
  <2>3. CountControl'
    BY <1>1, <1>2, <2>1 DEF CountTypes, CountControl
  <2>4. \A u \in Task2!Thread : /\ \A n \in 1 .. Loops : Stored(u, n)' <=> Stored(u, n)
                                /\ tpc'[u] = "ended" => tpc[u] = "ended"
    BY <1>1, <2>1 DEF CountTypes, Stored
  <2> QED
    BY <2>1, <2>2, <2>3, <2>4, CountKeeps DEF CountInv
<1>5. CASE Task2!Store(t)
  <2> DEFINE p == <<t, i[t] + 1>>
  <2>1. /\ tpc[t] = "store" /\ shared_counter' = loaded[t] + 1
        /\ tpc' = [tpc EXCEPT ![t] = "unlock"]
        /\ UNCHANGED <<lock, loaded, i, logged>>
    BY <1>5 DEF Task2!Store
  <2>2. CountTypes'
    BY <1>1, <1>2, <2>1 DEF CountTypes
  <2>3. i[t] < Loops /\ loaded[t] = shared_counter /\ lock = t
    BY <1>1, <2>1 DEF CountControl
  <2>4. CountControl'
    BY <1>1, <1>2, <2>1, <2>3 DEF CountTypes, CountControl
  <2>5. p \in Task2!Thread \X (1 .. Loops) /\ p \notin Increments
    BY <1>1, <2>1, <2>3 DEF Increments, Stored
  <2>6. \A u \in Task2!Thread : \A n \in 1 .. Loops :
          Stored(u, n)' <=> Stored(u, n) \/ <<u, n>> = p
    BY <1>1, <2>1 DEF CountTypes, Stored
  <2>7. Increments' = Increments \cup {p}
    BY <2>5, <2>6 DEF Increments
  <2> HIDE DEF p
  <2>8. Cardinality(Increments') = Cardinality(Increments) + 1
    BY <2>5, <2>7, IncrementsFinite, FS_AddElement
  <2>9. shared_counter' = Cardinality(Increments')
    BY <2>1, <2>3, <2>8 DEF CountInv
  <2>10. tpc'[t] # "ended" /\ \A u \in Task2!Thread : tpc'[u] = "ended" => tpc[u] = "ended"
    BY <1>1, <2>1 DEF CountTypes
  <2>11. Task2!LoggedOwnWork'
    BY <2>1, <2>10 DEF CountInv, Task2!LoggedOwnWork
  <2> QED
    BY <2>2, <2>4, <2>9, <2>11 DEF CountInv
<1>6. CASE Task2!Unlock(t)
  <2>1. /\ tpc[t] = "unlock" /\ lock' = Task2!Free /\ i' = [i EXCEPT ![t] = @ + 1]
        /\ tpc' = [tpc EXCEPT ![t] = IF i[t] + 1 < Loops THEN "lock" ELSE "log"]
        /\ UNCHANGED <<shared_counter, loaded, logged>>
    BY <1>6 DEF Task2!Unlock
  <2>2. CountTypes'
    BY <1>1, <1>2, <2>1 DEF CountTypes
  <2>3. i[t] < Loops /\ lock = t
    BY <1>1, <2>1 DEF CountControl
  <2>4. CountControl'
    BY <1>1, <1>2, <2>1, <2>3 DEF CountTypes, CountControl
  <2>5. \A u \in Task2!Thread : /\ \A n \in 1 .. Loops : Stored(u, n)' <=> Stored(u, n)
                                /\ tpc'[u] = "ended" => tpc[u] = "ended"
    BY <1>1, <2>1 DEF CountTypes, Stored
  <2> QED
    BY <2>1, <2>2, <2>4, <2>5, CountKeeps DEF CountInv
<1>7. CASE Task2!Log(t)
  <2>1. /\ tpc[t] = "log" /\ logged' = [logged EXCEPT ![t] = shared_counter]
        /\ tpc' = [tpc EXCEPT ![t] = "ended"]
        /\ UNCHANGED <<lock, shared_counter, loaded, i>>
    BY <1>7 DEF Task2!Log
  <2>2. CountTypes'
    BY <1>1, <1>2, <2>1 DEF CountTypes
  <2>3. CountControl'
    BY <1>1, <1>2, <2>1 DEF CountTypes, CountControl
  <2>4. \A u \in Task2!Thread : \A n \in 1 .. Loops : Stored(u, n)' <=> Stored(u, n)
    BY <1>1, <2>1 DEF CountTypes, Stored
  <2>5. Increments' = Increments
    BY <2>4 DEF Increments
  <2>6. shared_counter >= Loops
    <3>1. i[t] = Loops
      BY <1>1, <2>1 DEF CountControl
    <3>2. {t} \X (1 .. Loops) \in SUBSET Increments
      BY <1>1, <3>1 DEF Increments, Stored
    <3>3. Cardinality({t} \X (1 .. Loops)) <= Cardinality(Increments)
      BY <3>2, IncrementsFinite, FS_Subset
    <3> QED
      BY <1>1, <3>3, CountPairs, IncrementsFinite DEF CountInv
  <2>7. logged'[t] = shared_counter /\ \A u \in Task2!Thread \ {t} :
          logged'[u] = logged[u] /\ tpc'[u] = tpc[u]
    BY <2>1 DEF CountInv, CountTypes
  <2>8. Task2!LoggedOwnWork'
    BY <2>1, <2>6, <2>7 DEF CountInv, Task2!LoggedOwnWork
  <2> QED
    BY <2>1, <2>2, <2>3, <2>5, <2>8 DEF CountInv
<1> QED
  BY <1>3, <1>4, <1>5, <1>6, <1>7 DEF Task2!ThreadStep

\* Every step of main keeps CountInv.
LEMMA CountMainStep ==
  ASSUME CountInv, Task2!MainStep \/ Task2!MainFails
  PROVE  CountInv'
<1> USE DEF Task2!counting
<1>1. CountTypes /\ CountControl
  BY DEF CountInv
<1>2. UNCHANGED <<lock, shared_counter, loaded, i, logged>>
  BY DEF Task2!MainStep, Task2!MainFails, Task2!CreateMutex, Task2!CreateThreads,
         Task2!JoinThreads, Task2!Final
<1>3. ASSUME UNCHANGED tpc, CountTypes', CountControl' PROVE CountInv'
  BY <1>2, <1>3, CountKeeps DEF CountInv, Stored
<1>4. CASE Task2!CreateMutex
  <2>1. mpc = "malloc" /\ mpc' \in {"terminated", "create"} /\ UNCHANGED <<tpc, tnum>>
    BY <1>4 DEF Task2!CreateMutex, Task2!Check
  <2> QED
    BY <1>1, <1>2, <1>3, <2>1 DEF CountTypes, CountControl
<1>5. CASE Task2!CreateThreads
  <2>1. CASE tnum < NUM_THREADS
    <3>1. /\ mpc = "create" /\ tpc' = [tpc EXCEPT ![tnum] = "lock"] /\ tnum' = tnum + 1
          /\ mpc' = mpc
      BY <1>5, <2>1 DEF Task2!CreateThreads
    <3>2. tnum \in Nat
      BY <1>1 DEF CountTypes
    <3>3. tnum \in Task2!Thread /\ tnum >= tnum
      BY <2>1, <3>2, CountThreads
    <3>4. tpc[tnum] = "off"
      BY <1>1, <3>1, <3>3 DEF CountControl
    <3>5. CountTypes'
      BY <1>1, <1>2, <3>1, <3>2, <3>3 DEF CountTypes
    <3>6. CountControl'
      BY <1>1, <1>2, <3>1, <3>2, <3>3, <3>4, CountThreads DEF CountTypes, CountControl
    <3>7. \A u \in Task2!Thread : /\ \A n \in 1 .. Loops : Stored(u, n)' <=> Stored(u, n)
                                  /\ tpc'[u] = "ended" => tpc[u] = "ended"
      BY <1>1, <1>2, <3>1, <3>4 DEF CountTypes, Stored
    <3> QED
      BY <1>2, <3>5, <3>6, <3>7, CountKeeps DEF CountInv
  <2>2. CASE ~(tnum < NUM_THREADS)
    <3>1. mpc = "create" /\ mpc' \in {"terminated", "join"} /\ tnum' = 0 /\ UNCHANGED tpc
      BY <1>5, <2>2 DEF Task2!CreateThreads, Task2!Check
    <3> QED
      BY <1>1, <1>2, <1>3, <3>1, CountThreads DEF CountTypes, CountControl
  <2> QED
    BY <2>1, <2>2
<1>6. CASE Task2!JoinThreads
  <2>1. mpc = "join" /\ UNCHANGED tpc
    BY <1>6 DEF Task2!JoinThreads
  <2>2. CASE tnum < NUM_THREADS
    <3>1. tpc[tnum] = "ended" /\ tnum' = tnum + 1 /\ mpc' = mpc
      BY <1>6, <2>2 DEF Task2!JoinThreads
    <3>2. \A u \in Task2!Thread : u < tnum + 1 => u = tnum \/ u < tnum
      BY <1>1, CountThreads DEF CountTypes
    <3> QED
      BY <1>1, <1>2, <1>3, <2>1, <3>1, <3>2 DEF CountTypes, CountControl
  <2>3. CASE ~(tnum < NUM_THREADS)
    <3>1. mpc' \in {"terminated", "final"} /\ tnum' = tnum
      BY <1>6, <2>3 DEF Task2!JoinThreads, Task2!Check
    <3>2. \A u \in Task2!Thread : u < tnum
      BY <1>1, <2>3, CountThreads DEF CountTypes
    <3> QED
      BY <1>1, <1>2, <1>3, <2>1, <3>1, <3>2 DEF CountTypes, CountControl
  <2> QED
    BY <2>2, <2>3
<1>7. CASE Task2!Final
  <2>1. mpc = "final" /\ mpc' = "returned" /\ UNCHANGED <<tpc, tnum>>
    BY <1>7 DEF Task2!Final
  <2> QED
    BY <1>1, <1>2, <1>3, <2>1 DEF CountTypes, CountControl
<1>8. CASE Task2!MainFails
  <2>1. mpc' = "terminated" /\ UNCHANGED <<tpc, tnum>>
    BY <1>8 DEF Task2!MainFails, Task2!Check
  <2> QED
    BY <1>1, <1>2, <1>3, <2>1 DEF CountTypes, CountControl
<1> QED
  BY <1>4, <1>5, <1>6, <1>7, <1>8 DEF Task2!MainStep

\* Every step of the program keeps CountInv.
LEMMA CountStep == CountInv /\ [Task2!Next]_(Task2!vars) => CountInv'
<1> SUFFICES ASSUME CountInv, [Task2!Next]_(Task2!vars) PROVE CountInv'
  OBVIOUS
<1>1. CASE UNCHANGED Task2!vars
  <2>1. UNCHANGED <<lock, shared_counter, loaded, i, logged, tpc, mpc, tnum>>
    BY <1>1 DEF Task2!vars, Task2!counting
  <2>2. CountTypes' /\ CountControl'
    BY <2>1 DEF CountInv, CountTypes, CountControl
  <2>3. \A t, n : Stored(t, n)' <=> Stored(t, n)
    BY <2>1 DEF Stored
  <2> QED
    BY <2>1, <2>2, <2>3, CountKeeps DEF CountInv
<1> QED
  BY <1>1, CountThreadStep, CountMainStep DEF Task2!Next

----------------------------------------------------------------------------
(***************************************************************************)
(* 4-Thread task3.  data counts the items made, all items read are older   *)
(* than it, and not the newest while data_ready; a thread between lock and *)
(* unlock has the mutex, so data_ready stays true until the customer       *)
(* resets it.  main has created no thread before it creates it.            *)
(***************************************************************************)
ItemTypes ==
  /\ data \in Nat /\ got \in Seq(Nat) /\ i \in [Task3!Thread -> Nat]
  /\ pc \in [Task3!Thread \cup {"main"} ->
               {"create_customer", "create_producer", "join_producer", "join_customer",
                "returned", "crashed", "off", "lock", "set", "test", "read", "unlock",
                "ended"}]

ItemControl ==
  /\ pc["producer"] \in {"set", "unlock"} => lock = "producer"
  /\ pc["customer"] \in {"test", "read", "unlock"} => lock = "customer"
  /\ pc["main"] = "create_customer" => pc["customer"] = "off" /\ pc["producer"] = "off"
  /\ pc["main"] = "create_producer" => pc["producer"] = "off"
  /\ pc["customer"] = "read" => data_ready = TRUE

ItemOrder ==
  /\ data = IF pc["producer"] = "unlock" THEN i["producer"] + 1 ELSE i["producer"]
  /\ \A a, b \in 1 .. Len(got) : a < b => got[a] < got[b]
  /\ \A a \in 1 .. Len(got) : got[a] <= data
  /\ data_ready = TRUE => \A a \in 1 .. Len(got) : got[a] < data

ItemInv == ItemTypes /\ ItemControl /\ ItemOrder

\* Every step of the three threads keeps ItemInv.
LEMMA ItemStep == ItemInv /\ [Task3!Next]_(Task3!vars) => ItemInv'
<1> SUFFICES ASSUME ItemInv, [Task3!Next]_(Task3!vars) PROVE ItemInv'
  OBVIOUS
<1> USE DEF ItemInv, Task3!shared, Task3!bounds, Task3!Thread, Task3!Goto,
            Task3!pthread_mutex_lock, Task3!pthread_mutex_unlock
<1>1. CASE Task3!ProducerLock
  BY <1>1 DEF ItemTypes, ItemControl, ItemOrder, Task3!ProducerLock
<1>2. CASE Task3!Produce
  <2>1. /\ pc["producer"] = "set" /\ pc' = [pc EXCEPT !["producer"] = "unlock"]
        /\ data' = i["producer"] + 1 /\ data_ready' = TRUE /\ UNCHANGED <<lock, i, got>>
    BY <1>2 DEF Task3!Produce
  <2>2. data = i["producer"] /\ data' = data + 1 /\ data \in Nat
    BY <2>1 DEF ItemTypes, ItemOrder
  <2>3. pc'["producer"] = "unlock"
    BY <2>1 DEF ItemTypes
  <2>6. ItemTypes'
    BY <2>1, <2>2 DEF ItemTypes
  <2>7. ItemControl'
    BY <2>1 DEF ItemTypes, ItemControl
  <2>4. \A a \in 1 .. Len(got) : got[a] \in Nat /\ got[a] < data'
    BY <2>2 DEF ItemTypes, ItemOrder
  <2>5. ItemOrder'
    BY <2>1, <2>2, <2>3, <2>4 DEF ItemOrder
  <2> QED
    BY <2>5, <2>6, <2>7
<1>3. CASE Task3!ProducerUnlock
  BY <1>3 DEF ItemTypes, ItemControl, ItemOrder, Task3!ProducerUnlock
<1>4. CASE Task3!CustomerLock
  BY <1>4 DEF ItemTypes, ItemControl, ItemOrder, Task3!CustomerLock
<1>5. CASE Task3!Test
  BY <1>5 DEF ItemTypes, ItemControl, ItemOrder, Task3!Test
<1>6. CASE Task3!Read
  <2>1. /\ got \in Seq(Nat) /\ data \in Nat /\ got' = Append(got, data)
        /\ data_ready' = FALSE /\ UNCHANGED <<data, i, lock>>
        /\ pc["customer"] = "read" /\ pc' = [pc EXCEPT !["customer"] = "unlock"]
    BY <1>6 DEF ItemTypes, Task3!Read
  <2>2. ItemTypes'
    BY <2>1 DEF ItemTypes
  <2>3. ItemControl'
    BY <2>1 DEF ItemTypes, ItemControl
  <2>4. \A a \in 1 .. Len(got) : got[a] < data
    BY <2>1 DEF ItemControl, ItemOrder
  <2>5. /\ Len(got') = Len(got) + 1 /\ got'[Len(got) + 1] = data
        /\ \A a \in 1 .. Len(got) : got'[a] = got[a] /\ got[a] \in Nat
    BY <2>1
  <2>6. \A a, b \in 1 .. Len(got') : a < b => got'[a] < got'[b]
    BY <2>1, <2>4, <2>5 DEF ItemOrder
  <2>7. \A a \in 1 .. Len(got') : got'[a] <= data
    BY <2>1, <2>4, <2>5
  <2>8. ItemOrder'
    BY <2>1, <2>6, <2>7 DEF ItemOrder, ItemTypes
  <2> QED
    BY <2>2, <2>3, <2>8
<1>7. CASE Task3!CustomerUnlock
  BY <1>7 DEF ItemTypes, ItemControl, ItemOrder, Task3!CustomerUnlock
<1>8. ASSUME NEW t \in Task3!Thread, Task3!Create(t) PROVE ItemInv'
  BY <1>8 DEF ItemTypes, ItemControl, ItemOrder, Task3!Create
<1>9. ASSUME NEW t \in Task3!Thread, Task3!CreateFails(t) PROVE ItemInv'
  BY <1>9 DEF ItemTypes, ItemControl, ItemOrder, Task3!CreateFails
<1>10. ASSUME NEW t \in Task3!Thread, Task3!Join(t) PROVE ItemInv'
  BY <1>10 DEF ItemTypes, ItemControl, ItemOrder, Task3!Join
<1>11. CASE Task3!SpuriousWakeup
  BY <1>11 DEF ItemTypes, ItemControl, ItemOrder, Task3!SpuriousWakeup
<1>12. CASE UNCHANGED Task3!vars
  BY <1>12 DEF ItemTypes, ItemControl, ItemOrder, Task3!vars
<1> QED
  BY <1>1, <1>2, <1>3, <1>4, <1>5, <1>6, <1>7, <1>8, <1>9, <1>10, <1>11, <1>12
  DEF Task3!Next, Task3!Producer, Task3!Customer, Task3!Main

(***************************************************************************)
(* Items read, one that waits unread and one that was overwritten are so   *)
(* many different items; the customer reads one item per iteration, and    *)
(* main returns only after a customer that was created has ended.          *)
(***************************************************************************)
Ready == IF data_ready = TRUE THEN 1 ELSE 0
Missed == IF overwritten = TRUE THEN 1 ELSE 0

ItemLoops ==
  /\ fails \in Nat
  /\ \A t \in Task3!Thread :
       /\ i[t] <= N /\ (pc[t] = "off" => i[t] = 0)
       /\ pc[t] \in {"lock", "set", "test", "read", "unlock"} => i[t] < N
  /\ pc["customer"] = "ended" => i["customer"] = N
  /\ fails = 0 /\ pc["main"] # "create_customer" => pc["customer"] # "off"
  /\ pc["main"] = "returned" => pc["customer"] \in {"off", "ended"}

ItemCount ==
  /\ data_ready \in BOOLEAN /\ overwritten \in BOOLEAN
  /\ Len(got) = IF pc["customer"] = "unlock" THEN i["customer"] + 1 ELSE i["customer"]
  /\ Len(got) + Ready + Missed <= data

\* Every step of the three threads keeps ItemLoops.
LEMMA ItemLoopsStep ==
  ItemInv /\ ItemLoops /\ [Task3!Next]_(Task3!vars) => ItemLoops'
<1> SUFFICES ASSUME ItemInv, ItemLoops, [Task3!Next]_(Task3!vars) PROVE ItemLoops'
  OBVIOUS
<1> USE DEF ItemLoops, Task3!shared, Task3!bounds, Task3!Thread, Task3!Goto,
            Task3!pthread_mutex_lock, Task3!pthread_mutex_unlock
<1>0. /\ N \in Nat /\ N > 0 /\ i \in [Task3!Thread -> Nat]
      /\ DOMAIN pc = Task3!Thread \cup {"main"}
  BY ThreadAssumption DEF Task3!ItemsAssumption, ItemInv, ItemTypes
<1>1. CASE Task3!ProducerLock
  BY <1>0, <1>1 DEF Task3!ProducerLock
<1>2. CASE Task3!Produce
  BY <1>0, <1>2 DEF Task3!Produce
<1>3. CASE Task3!ProducerUnlock
  BY <1>0, <1>3 DEF Task3!ProducerUnlock
<1>4. CASE Task3!CustomerLock
  BY <1>0, <1>4 DEF Task3!CustomerLock
<1>5. CASE Task3!Test
  BY <1>0, <1>5 DEF Task3!Test
<1>6. CASE Task3!Read
  BY <1>0, <1>6 DEF Task3!Read
<1>7. CASE Task3!CustomerUnlock
  BY <1>0, <1>7 DEF Task3!CustomerUnlock
<1>8. ASSUME NEW t \in Task3!Thread, Task3!Create(t) PROVE ItemLoops'
  <2>1. pc[t] = "off"
    BY <1>8 DEF Task3!Create, ItemInv, ItemControl
  <2> QED
    BY <1>0, <1>8, <2>1 DEF Task3!Create
<1>9. ASSUME NEW t \in Task3!Thread, Task3!CreateFails(t) PROVE ItemLoops'
  BY <1>0, <1>9 DEF Task3!CreateFails
<1>10. ASSUME NEW t \in Task3!Thread, Task3!Join(t) PROVE ItemLoops'
  BY <1>0, <1>10 DEF Task3!Join
<1>11. CASE Task3!SpuriousWakeup
  BY <1>0, <1>11 DEF Task3!SpuriousWakeup
<1>12. CASE UNCHANGED Task3!vars
  BY <1>12 DEF Task3!vars
<1> QED
  BY <1>1, <1>2, <1>3, <1>4, <1>5, <1>6, <1>7, <1>8, <1>9, <1>10, <1>11, <1>12
  DEF Task3!Next, Task3!Producer, Task3!Customer, Task3!Main

\* Every step of the three threads keeps ItemCount.
LEMMA ItemCountStep ==
  ItemInv /\ ItemCount /\ [Task3!Next]_(Task3!vars) => ItemCount'
<1> SUFFICES ASSUME ItemInv, ItemCount, [Task3!Next]_(Task3!vars) PROVE ItemCount'
  OBVIOUS
<1> USE DEF Task3!shared, Task3!bounds, Task3!Thread, Task3!Goto,
            Task3!pthread_mutex_lock, Task3!pthread_mutex_unlock
<1>0. /\ data \in Nat /\ got \in Seq(Nat) /\ Len(got) \in Nat
      /\ i \in [Task3!Thread -> Nat] /\ DOMAIN pc = Task3!Thread \cup {"main"}
      /\ Ready \in Nat /\ Missed \in Nat
  BY DEF ItemInv, ItemTypes, Ready, Missed
<1>1. ASSUME UNCHANGED <<data, data_ready, overwritten, i, got>>,
             pc'["customer"] = "unlock" <=> pc["customer"] = "unlock"
      PROVE  ItemCount'
  BY <1>1 DEF ItemCount, Ready, Missed
<1>2. CASE Task3!Produce
  <2>1. /\ pc["producer"] = "set" /\ pc' = [pc EXCEPT !["producer"] = "unlock"]
        /\ data_ready' = TRUE /\ overwritten' = (overwritten \/ data_ready)
        /\ UNCHANGED <<i, got>> /\ data' = data + 1
    BY <1>2 DEF Task3!Produce, ItemInv, ItemOrder
  <2>2. data_ready' \in BOOLEAN /\ overwritten' \in BOOLEAN
    BY <2>1 DEF ItemCount
  <2>3. Ready' = 1 /\ Missed' <= Ready + Missed /\ Missed' \in Nat
    BY <2>1 DEF Ready, Missed, ItemCount
  <2>4. Len(got) + Ready + Missed <= data
    BY DEF ItemCount
  <2>5. Len(got) + 1 + Missed' <= data + 1
    BY <1>0, <2>3, <2>4
  <2>6. Len(got') + Ready' + Missed' <= data'
    BY <2>1, <2>3, <2>5
  <2>7. pc'["customer"] = pc["customer"]
    BY <1>0, <2>1
  <2> QED
    BY <2>1, <2>2, <2>6, <2>7 DEF ItemCount
<1>3. CASE Task3!ProducerUnlock
  <2>1. /\ UNCHANGED <<data, data_ready, overwritten, got>>
        /\ pc'["customer"] = pc["customer"] /\ i'["customer"] = i["customer"]
    BY <1>0, <1>3 DEF Task3!ProducerUnlock
  <2> QED
    BY <2>1 DEF ItemCount, Ready, Missed
<1>4. CASE Task3!Read
  <2>1. /\ data_ready = TRUE /\ pc["customer"] = "read" /\ got' = Append(got, data)
        /\ pc' = [pc EXCEPT !["customer"] = "unlock"] /\ data_ready' = FALSE
        /\ UNCHANGED <<data, overwritten, i>>
    BY <1>4 DEF Task3!Read, ItemInv, ItemControl
  <2>2. Ready = 1 /\ Ready' = 0 /\ Missed' = Missed
    BY <2>1 DEF Ready, Missed
  <2>3. Len(got') = Len(got) + 1 /\ pc'["customer"] = "unlock"
    BY <1>0, <2>1
  <2>4. Len(got) = i["customer"] /\ Len(got) + Ready + Missed <= data
    BY <2>1 DEF ItemCount
  <2>5. Len(got') + Ready' + Missed' <= data'
    BY <1>0, <2>1, <2>2, <2>3, <2>4
  <2>6. Len(got') = i'["customer"] + 1
    BY <2>1, <2>3, <2>4
  <2>7. data_ready' \in BOOLEAN /\ overwritten' \in BOOLEAN
    BY <2>1 DEF ItemCount
  <2> QED
    BY <2>3, <2>5, <2>6, <2>7 DEF ItemCount
<1>5. CASE Task3!CustomerUnlock
  <2>1. /\ UNCHANGED <<data, data_ready, overwritten, got>>
        /\ pc["customer"] = "unlock" /\ pc'["customer"] # "unlock"
        /\ i'["customer"] = i["customer"] + 1
    BY <1>0, <1>5 DEF Task3!CustomerUnlock
  <2> QED
    BY <2>1 DEF ItemCount, Ready, Missed
<1>6. CASE Task3!ProducerLock \/ Task3!CustomerLock \/ Task3!Test \/ Task3!SpuriousWakeup
  BY <1>0, <1>1, <1>6 DEF Task3!ProducerLock, Task3!CustomerLock, Task3!Test,
                          Task3!SpuriousWakeup
<1>7. ASSUME NEW t \in Task3!Thread, Task3!Create(t) PROVE ItemCount'
  <2>1. pc[t] = "off"
    BY <1>7 DEF Task3!Create, ItemInv, ItemControl
  <2> QED
    BY <1>0, <1>1, <1>7, <2>1 DEF Task3!Create
<1>8. ASSUME NEW t \in Task3!Thread, Task3!CreateFails(t) \/ Task3!Join(t) PROVE ItemCount'
  BY <1>0, <1>1, <1>8 DEF Task3!CreateFails, Task3!Join
<1>9. CASE UNCHANGED Task3!vars
  BY <1>1, <1>9 DEF Task3!vars
<1> QED
  BY <1>2, <1>3, <1>4, <1>5, <1>6, <1>7, <1>8, <1>9
  DEF Task3!Next, Task3!Producer, Task3!Customer, Task3!Main

----------------------------------------------------------------------------
(***************************************************************************)
(* 4-Thread task4.  The threads inside the rwlock are those in their loop; *)
(* a writer is alone there, and without one data is whole.  A reader's     *)
(* values are the one data has while it holds the lock.  main creates      *)
(* every thread once and has freed the messages of those it joined.        *)
(***************************************************************************)
RwTypes ==
  /\ data \in Nat /\ data <= OW_NUM_THREADS /\ holders \subseteq Task4!Thread
  /\ tpc \in [Task4!Thread -> {"off", "malloc", "lock", "reset", "loop", "ended"}]
  /\ i \in [Task4!Reader -> Nat] /\ seen \in [Task4!Reader -> SUBSET Nat]
  /\ ret \in [Task4!Thread -> {"none", "NULL", "allocated", "freed"}]
  /\ mpc \in {"create_readers", "create_writers", "join_readers", "join_writers",
              "destroy", "returned", "terminated"}
  /\ tnum \in Nat

RwLocked ==
  /\ \A t \in Task4!Thread : t \in holders <=> tpc[t] \in {"reset", "loop"}
  /\ \A t \in Task4!Thread : tpc[t] = "reset" => t \in Task4!Writer
  /\ \A t \in holders \cap Task4!Writer : holders = {t}

RwValues ==
  /\ holders \cap Task4!Writer = {} => data \in {0, OW_NUM_THREADS}
  /\ \A t \in Task4!Reader :
       /\ tpc[t] \in {"off", "malloc", "lock"} => seen[t] = {}
       /\ t \in holders => seen[t] \subseteq {data}
       /\ seen[t] \subseteq {0} \/ seen[t] \subseteq {OW_NUM_THREADS}

RwCreated ==
  /\ mpc = "create_readers" =>
       \A t \in Task4!Thread : t \in Task4!Writer \/ t[2] >= tnum => tpc[t] = "off"
  /\ mpc = "create_writers" =>
       \A t \in Task4!Writer : t[2] >= tnum => tpc[t] = "off"

\* The threads main has joined.
RwJoined ==
  {t \in Task4!Thread :
     \/ mpc = "join_readers" /\ t \in Task4!Reader /\ t[2] < tnum
     \/ mpc = "join_writers" /\ (t \in Task4!Reader \/ t[2] < tnum)
     \/ mpc \in {"destroy", "returned"}}

RwFreed == \A t \in RwJoined : tpc[t] = "ended" /\ ret[t] \in {"NULL", "freed"}

RwInv == RwTypes /\ RwLocked /\ RwValues /\ RwCreated /\ RwFreed

\* Readers and writers are different threads, numbered from 0.
LEMMA RwThreads ==
  /\ Task4!Thread = Task4!Reader \cup Task4!Writer
  /\ Task4!Reader \cap Task4!Writer = {}
  /\ \A t \in Task4!Thread : t[2] \in Nat
  /\ \A n \in Nat : n < OR_NUM_THREADS => <<"read", n>> \in Task4!Reader /\ <<"read", n>>[2] = n
  /\ \A n \in Nat : n < OW_NUM_THREADS => <<"write", n>> \in Task4!Writer /\ <<"write", n>>[2] = n
  /\ \A t \in Task4!Reader : t = <<"read", t[2]>> /\ t[2] < OR_NUM_THREADS
  /\ \A t \in Task4!Writer : t = <<"write", t[2]>> /\ t[2] < OW_NUM_THREADS
  /\ OR_NUM_THREADS \in Nat /\ OW_NUM_THREADS \in Nat
<1>1. OR_NUM_THREADS \in Nat /\ OW_NUM_THREADS \in Nat
  BY ThreadAssumption DEF Task4!RwAssumption
<1> QED
  BY <1>1 DEF Task4!Thread, Task4!Reader, Task4!Writer

\* Every step of a reader or a writer keeps RwInv.
LEMMA RwThreadStep ==
  ASSUME RwInv, NEW t \in Task4!Thread, Task4!ThreadStep(t), ~Task4!Ended
  PROVE  RwInv'
<1> USE DEF RwInv, Task4!shared, Task4!main, Task4!Goto
<1>1. UNCHANGED <<mpc, tnum>>
  BY DEF Task4!ThreadStep, Task4!Malloc, Task4!MallocFails, Task4!RdLock, Task4!Read,
         Task4!WrLock, Task4!Reset, Task4!Write, Task4!Unlock
<1>2. CASE Task4!Malloc(t) \/ Task4!MallocFails(t)
  <2>1. /\ tpc[t] = "malloc" /\ tpc' = [tpc EXCEPT ![t] = "lock"]
        /\ ret' \in {[ret EXCEPT ![t] = "allocated"], [ret EXCEPT ![t] = "NULL"]}
        /\ UNCHANGED <<data, holders, i, seen, mpc, tnum>>
    BY <1>2 DEF Task4!Malloc, Task4!MallocFails
  <2>2. RwTypes'
    BY <2>1 DEF RwTypes
  <2>3. RwLocked'
    BY <2>1 DEF RwTypes, RwLocked
  <2>4. RwValues'
    BY <2>1, RwThreads DEF RwTypes, RwValues
  <2>5. RwCreated'
    BY <2>1, RwThreads DEF RwTypes, RwCreated
  <2>6. RwFreed'
    BY <2>1 DEF RwTypes, RwFreed, RwJoined
  <2> QED
    BY <2>2, <2>3, <2>4, <2>5, <2>6
<1>3. CASE Task4!RdLock(t)
  <2>1. /\ t \in Task4!Reader /\ tpc[t] = "lock" /\ holders \cap Task4!Writer = {}
        /\ holders' = holders \cup {t} /\ tpc' = [tpc EXCEPT ![t] = "loop"]
        /\ UNCHANGED <<data, i, seen, ret, mpc, tnum>>
    BY <1>3 DEF Task4!RdLock
  <2>2. RwTypes'
    BY <2>1 DEF RwTypes
  <2>3. RwLocked'
    BY <2>1, RwThreads DEF RwTypes, RwLocked
  <2>4. RwValues'
    BY <2>1, RwThreads DEF RwTypes, RwValues
  <2>5. RwCreated'
    BY <2>1, RwThreads DEF RwTypes, RwCreated
  <2>6. RwFreed'
    BY <2>1 DEF RwTypes, RwFreed, RwJoined
  <2> QED
    BY <2>2, <2>3, <2>4, <2>5, <2>6
<1>4. CASE Task4!Read(t)
  <2>1. /\ t \in Task4!Reader /\ tpc[t] = "loop"
        /\ seen' = [seen EXCEPT ![t] = @ \cup {data}] /\ i' = [i EXCEPT ![t] = @ + 1]
        /\ UNCHANGED <<data, holders, tpc, ret, mpc, tnum>>
    BY <1>4 DEF Task4!Read
  <2>2. RwTypes'
    BY <2>1 DEF RwTypes
  <2>3. RwLocked' /\ RwCreated' /\ RwFreed'
    BY <2>1 DEF RwLocked, RwCreated, RwFreed, RwJoined
  <2>4. t \in holders /\ holders \cap Task4!Writer = {}
    BY <2>1, RwThreads DEF RwLocked
  <2>5. RwValues'
    BY <2>1, <2>4, RwThreads DEF RwTypes, RwValues
  <2> QED
    BY <2>2, <2>3, <2>5
<1>5. CASE Task4!WrLock(t)
  <2>1. /\ t \in Task4!Writer /\ tpc[t] = "lock" /\ holders = {}
        /\ holders' = {t} /\ tpc' = [tpc EXCEPT ![t] = "reset"]
        /\ UNCHANGED <<data, i, seen, ret, mpc, tnum>>
    BY <1>5 DEF Task4!WrLock
  <2>2. RwTypes'
    BY <2>1 DEF RwTypes
  <2>3. RwLocked'
    BY <2>1, RwThreads DEF RwTypes, RwLocked
  <2>4. RwValues'
    BY <2>1, RwThreads DEF RwTypes, RwValues
  <2>5. RwCreated'
    BY <2>1, RwThreads DEF RwTypes, RwCreated
  <2>6. RwFreed'
    BY <2>1 DEF RwTypes, RwFreed, RwJoined
  <2> QED
    BY <2>2, <2>3, <2>4, <2>5, <2>6
<1>6. CASE Task4!Reset(t)
  <2>1. /\ tpc[t] = "reset" /\ data' = 0 /\ tpc' = [tpc EXCEPT ![t] = "loop"]
        /\ UNCHANGED <<holders, i, seen, ret, mpc, tnum>>
    BY <1>6 DEF Task4!Reset
  <2>2. t \in Task4!Writer /\ holders = {t}
    BY <2>1 DEF RwLocked
  <2>3. RwTypes'
    BY <2>1, RwThreads DEF RwTypes
  <2>4. RwLocked'
    BY <2>1, <2>2, RwThreads DEF RwTypes, RwLocked
  <2>5. RwValues'
    BY <2>1, <2>2, RwThreads DEF RwTypes, RwValues
  <2>6. RwCreated'
    BY <2>1, RwThreads DEF RwTypes, RwCreated
  <2>7. RwFreed'
    BY <2>1 DEF RwTypes, RwFreed, RwJoined
  <2> QED
    BY <2>3, <2>4, <2>5, <2>6, <2>7
<1>7. CASE Task4!Write(t)
  <2>1. /\ t \in Task4!Writer /\ tpc[t] = "loop" /\ data < OW_NUM_THREADS
        /\ data' = data + 1 /\ UNCHANGED <<holders, tpc, i, seen, ret, mpc, tnum>>
    BY <1>7 DEF Task4!Write
  <2>2. holders = {t}
    BY <2>1 DEF RwLocked
  <2>3. RwTypes'
    BY <2>1, RwThreads DEF RwTypes
  <2>4. RwLocked' /\ RwCreated' /\ RwFreed'
    BY <2>1 DEF RwLocked, RwCreated, RwFreed, RwJoined
  <2>5. RwValues'
    BY <2>1, <2>2, RwThreads DEF RwValues
  <2> QED
    BY <2>3, <2>4, <2>5
<1>8. CASE Task4!Unlock(t)
  <2>1. /\ tpc[t] = "loop" /\ (t \notin Task4!Reader => data >= OW_NUM_THREADS)
        /\ holders' = holders \ {t} /\ tpc' = [tpc EXCEPT ![t] = "ended"]
        /\ UNCHANGED <<data, i, seen, ret, mpc, tnum>>
    BY <1>8 DEF Task4!Unlock
  <2>2. RwTypes'
    BY <2>1 DEF RwTypes
  <2>3. RwLocked'
    BY <2>1, RwThreads DEF RwTypes, RwLocked
  <2>4. holders' \cap Task4!Writer = {} => data \in {0, OW_NUM_THREADS}
    <3>1. CASE t \in Task4!Reader
      BY <2>1, <3>1, RwThreads DEF RwValues
    <3>2. CASE t \notin Task4!Reader
      BY <2>1, <3>2, RwThreads DEF RwTypes
    <3> QED
      BY <3>1, <3>2
  <2>5. RwValues'
    BY <2>1, <2>4, RwThreads DEF RwTypes, RwValues
  <2>6. RwCreated'
    BY <2>1, RwThreads DEF RwTypes, RwCreated
  <2>7. RwFreed'
    BY <2>1 DEF RwTypes, RwFreed, RwJoined
  <2> QED
    BY <2>2, <2>3, <2>5, <2>6, <2>7
<1> QED
  BY <1>2, <1>3, <1>4, <1>5, <1>6, <1>7, <1>8 DEF Task4!ThreadStep

\* Every step of main keeps RwInv, those that end the process included.
LEMMA RwMainStep ==
  ASSUME RwInv, Task4!MainStep \/ Task4!MainFails
  PROVE  RwInv'
<1> USE DEF RwInv, Task4!shared, Task4!main
<1>1. ASSUME UNCHANGED <<data, holders, i, seen, tpc>> PROVE RwLocked' /\ RwValues'
  BY <1>1 DEF RwLocked, RwValues
<1>2. CASE Task4!CreateThreads
  <2>1. UNCHANGED <<data, holders, i, seen, ret>> /\ mpc \in {"create_readers", "create_writers"}
    BY <1>2 DEF Task4!CreateThreads
  <2>2. CASE tnum < Task4!Num
    <3> DEFINE t == <<Task4!Group, tnum>>
    <3>1. tpc' = [tpc EXCEPT ![t] = "malloc"] /\ tnum' = tnum + 1 /\ mpc' = mpc
      BY <1>2, <2>2 DEF Task4!CreateThreads
    <3>2. t \in Task4!Thread /\ tpc[t] = "off" /\ t[2] = tnum
      BY <2>1, <2>2, RwThreads DEF RwTypes, RwCreated, Task4!Group, Task4!Num
    <3>3. /\ mpc = "create_readers" => t \in Task4!Reader
          /\ mpc = "create_writers" => t \in Task4!Writer
      BY <2>1, <2>2, RwThreads DEF RwTypes, Task4!Group, Task4!Num
    <3> HIDE DEF t
    <3>4. RwTypes'
      BY <2>1, <3>1, <3>2 DEF RwTypes
    <3>5. RwLocked'
      BY <2>1, <3>1, <3>2 DEF RwTypes, RwLocked
    <3>6. RwValues'
      BY <2>1, <3>1, <3>2, RwThreads DEF RwTypes, RwValues
    <3>7. RwCreated'
      BY <2>1, <3>1, <3>2, <3>3, RwThreads DEF RwTypes, RwCreated
    <3>8. RwFreed'
      BY <2>1, <3>1 DEF RwFreed, RwJoined
    <3> QED
      BY <3>4, <3>5, <3>6, <3>7, <3>8
  <2>3. CASE ~(tnum < Task4!Num)
    <3>1. /\ mpc' \in {"terminated", "create_writers", "join_readers"} /\ tnum' = 0
          /\ mpc' = "create_writers" => mpc = "create_readers"
          /\ UNCHANGED tpc
      BY <1>2, <2>1, <2>3 DEF Task4!CreateThreads, Task4!Check, Task4!Group
    <3>2. RwTypes'
      BY <2>1, <3>1 DEF RwTypes
    <3>3. RwCreated'
      BY <2>1, <3>1, RwThreads DEF RwTypes, RwCreated
    <3>4. RwFreed'
      BY <2>1, <3>1, RwThreads DEF RwTypes, RwFreed, RwJoined
    <3> QED
      BY <1>1, <2>1, <3>1, <3>2, <3>3, <3>4
  <2> QED
    BY <2>2, <2>3
<1>3. CASE Task4!JoinThreads
  <2>1. UNCHANGED <<data, holders, i, seen, tpc>> /\ mpc \in {"join_readers", "join_writers"}
    BY <1>3 DEF Task4!JoinThreads
  <2>2. CASE tnum < Task4!Num
    <3> DEFINE t == <<Task4!Group, tnum>>
    <3>1. /\ tpc[t] = "ended" /\ tnum' = tnum + 1 /\ mpc' = mpc
          /\ ret' = [ret EXCEPT ![t] = IF @ = "NULL" THEN @ ELSE "freed"]
      BY <1>3, <2>2 DEF Task4!JoinThreads
    <3>2. t \in Task4!Thread /\ t[2] = tnum
      BY <2>1, <2>2, RwThreads DEF RwTypes, Task4!Group, Task4!Num
    <3>3. ASSUME NEW u \in RwJoined' PROVE u = t \/ u \in RwJoined
      <4>1. tnum \in Nat /\ u \in Task4!Thread /\ u[2] \in Nat
        BY RwThreads DEF RwTypes, RwJoined
      <4>2. CASE mpc = "join_readers"
        <5>1. u \in Task4!Reader /\ u[2] < tnum + 1
          BY <3>1, <4>2 DEF RwJoined
        <5>2. u = <<"read", u[2]>> /\ t = <<"read", tnum>>
          BY <4>2, <5>1, RwThreads DEF Task4!Group
        <5>3. u[2] = tnum \/ u[2] < tnum
          BY <4>1, <5>1
        <5> QED
          BY <4>1, <4>2, <5>1, <5>2, <5>3 DEF RwJoined
      <4>3. CASE mpc = "join_writers" /\ u \in Task4!Writer
        <5>1. u[2] < tnum + 1
          BY <3>1, <4>3, RwThreads DEF RwJoined
        <5>2. u = <<"write", u[2]>> /\ t = <<"write", tnum>>
          BY <4>3, RwThreads DEF Task4!Group
        <5>3. u[2] = tnum \/ u[2] < tnum
          BY <4>1, <5>1
        <5> QED
          BY <4>1, <4>3, <5>2, <5>3 DEF RwJoined
      <4>4. CASE mpc = "join_writers" /\ u \in Task4!Reader
        BY <4>1, <4>4 DEF RwJoined
      <4> QED
        BY <2>1, <4>1, <4>2, <4>3, <4>4, RwThreads
    <3> HIDE DEF t
    <3>4. RwTypes'
      BY <2>1, <3>1, <3>2 DEF RwTypes
    <3>5. RwCreated'
      BY <2>1, <3>1 DEF RwCreated
    <3>6. RwFreed'
      BY <2>1, <3>1, <3>2, <3>3 DEF RwTypes, RwFreed
    <3> QED
      BY <1>1, <2>1, <3>4, <3>5, <3>6
  <2>3. CASE ~(tnum < Task4!Num)
    <3>1. /\ mpc' \in {"terminated", "join_writers", "destroy"} /\ tnum' = 0
          /\ mpc' = "join_writers" => mpc = "join_readers"
          /\ mpc' = "destroy" => mpc = "join_writers"
          /\ UNCHANGED ret
      BY <1>3, <2>1, <2>3 DEF Task4!JoinThreads, Task4!Check, Task4!Group
    <3>2. RwTypes'
      BY <2>1, <3>1 DEF RwTypes
    <3>3. RwCreated'
      BY <3>1 DEF RwCreated
    <3>4. RwJoined' \subseteq RwJoined
      BY <2>1, <2>3, <3>1, RwThreads DEF RwTypes, RwJoined, Task4!Group, Task4!Num
    <3>5. RwFreed'
      BY <2>1, <3>1, <3>4 DEF RwFreed
    <3> QED
      BY <1>1, <2>1, <3>2, <3>3, <3>5
  <2> QED
    BY <2>2, <2>3
<1>4. CASE Task4!Destroy
  <2>1. /\ mpc = "destroy" /\ mpc' = "returned"
        /\ UNCHANGED <<data, holders, tpc, i, seen, ret, tnum>>
    BY <1>4 DEF Task4!Destroy
  <2>2. RwTypes' /\ RwCreated' /\ RwFreed'
    BY <2>1 DEF RwTypes, RwCreated, RwFreed, RwJoined
  <2> QED
    BY <1>1, <2>1, <2>2
<1>5. CASE Task4!MainFails
  <2>1. mpc' = "terminated" /\ tnum' = 0 /\ UNCHANGED <<data, holders, tpc, i, seen, ret>>
    BY <1>5 DEF Task4!MainFails, Task4!Check
  <2>2. RwTypes' /\ RwCreated' /\ RwFreed'
    BY <2>1 DEF RwTypes, RwCreated, RwFreed, RwJoined
  <2> QED
    BY <1>1, <2>1, <2>2
<1> QED
  BY <1>2, <1>3, <1>4, <1>5 DEF Task4!MainStep

\* RwInv holds in every state of the program.
LEMMA RwStep == RwInv /\ [Task4!Next]_(Task4!vars) => RwInv'
<1> SUFFICES ASSUME RwInv, [Task4!Next]_(Task4!vars) PROVE RwInv'
  OBVIOUS
<1>1. CASE UNCHANGED Task4!vars
  BY <1>1 DEF Task4!vars, Task4!shared, Task4!main, RwInv, RwTypes, RwLocked, RwValues,
              RwCreated, RwFreed, RwJoined
<1> QED
  BY <1>1, RwThreadStep, RwMainStep DEF Task4!Next

----------------------------------------------------------------------------
\* The program started stays the same, and a step is one of that program.
LEMMA StepsApart ==
  ASSUME [Next]_vars
  PROVE  /\ task' = task
         /\ task = 1 => [Task1!Next]_(Task1!vars)
         /\ task = 2 => [Task2!Next]_(Task2!vars)
         /\ task = 3 => [Task3!Next]_(Task3!vars)
         /\ task = 4 => [Task4!Next]_(Task4!vars)
<1>1. CASE UNCHANGED vars
  BY <1>1 DEF vars, but1, but2, of1, of2, of3, of4, Task1!vars, Task2!vars, Task2!counting,
              Task3!vars, Task3!shared, Task3!bounds, Task4!vars, Task4!shared, Task4!main
<1>2. CASE Next
  <2>1. task' = task
    BY <1>2 DEF Next, Run1, Run2, Run3, Run4, but1, but2, but3, but4
  <2>2. /\ task = 1 => Task1!Next
        /\ task = 2 => Task2!Next
        /\ task = 3 => Task3!Next
        /\ task = 4 => Task4!Next
    BY <1>2 DEF Next, Run1, Run2, Run3, Run4
  <2> QED
    BY <2>1, <2>2
<1> QED
  BY <1>1, <1>2

(***************************************************************************)
(* 4-Thread task2: the value main logs at the end counts every increment   *)
(* of every thread; those the threads log without the mutex include their  *)
(* own, and the largest one is the final value.                            *)
(***************************************************************************)
THEOREM CounterIsExact == Spec => []CounterExact
<1> DEFINE Inv == task = 2 => CountInv
<1>1. Init => Inv
  <2> SUFFICES ASSUME Task2!Init PROVE CountInv
    BY DEF Init
  <2>1. CountTypes /\ CountControl
    BY CountThreads DEF Task2!Init, Task2!Free, CountTypes, CountControl
  <2>2. Increments = {}
    BY CountThreads DEF Task2!Init, Increments, Stored
  <2>3. shared_counter = Cardinality(Increments)
    BY <2>2, FS_EmptySet DEF Task2!Init
  <2>4. Task2!LoggedOwnWork
    BY DEF Task2!Init, Task2!LoggedOwnWork
  <2> QED
    BY <2>1, <2>3, <2>4 DEF CountInv
<1>2. Inv /\ [Next]_vars => Inv'
  BY CountStep, StepsApart
<1>3. Inv => CounterExact
  <2> SUFFICES ASSUME CountInv PROVE Task2!FinalCount /\ Task2!LoggedOwnWork
    BY DEF CounterExact
  <2>1. ASSUME mpc \in {"final", "returned"} PROVE Increments = Task2!Thread \X (1 .. Loops)
    <3>1. \A t \in Task2!Thread : i[t] = Loops
      BY <2>1 DEF CountInv, CountControl
    <3> QED
      BY <3>1, CountThreads DEF Increments, Stored
  <2> QED
    BY <2>1, CountPairs DEF CountInv, Task2!FinalCount
<1> QED
  BY <1>1, <1>2, <1>3, PTL DEF Spec

\* RwInv holds in every state in which task4 was started.
LEMMA RwInvariant == Spec => [](task = 4 => RwInv)
<1>1. Init => (task = 4 => RwInv)
  <2> SUFFICES ASSUME Task4!Init PROVE RwInv
    BY DEF Init
  <2>1. RwTypes
    BY RwThreads DEF Task4!Init, RwTypes
  <2>2. RwLocked /\ RwValues /\ RwCreated /\ RwFreed
    BY RwThreads DEF Task4!Init, RwLocked, RwValues, RwCreated, RwFreed, RwJoined
  <2> QED
    BY <2>1, <2>2 DEF RwInv
<1>2. (task = 4 => RwInv) /\ [Next]_vars => (task = 4 => RwInv)'
  BY RwStep, StepsApart
<1> QED
  BY <1>1, <1>2, PTL DEF Spec

(***************************************************************************)
(* 4-Thread task4: in all its reads a reader sees one value, the initial 0 *)
(* or that of a finished writer, never the inside of a writer's loop.      *)
(***************************************************************************)
THEOREM ReadersSeeWholeWrites == Spec => []ReadsWholeWrites
<1>1. (task = 4 => RwInv) => ReadsWholeWrites
  BY DEF RwInv, RwValues, ReadsWholeWrites, Task4!ReadsWholeWrites
<1> QED
  BY <1>1, RwInvariant, PTL

(***************************************************************************)
(* 4-Thread task1 and task4: when main returns, every message a thread     *)
(* allocated has been freed; in task1 main has logged exactly those, each  *)
(* with the number of its own thread and in the order of the threads.      *)
(***************************************************************************)
THEOREM AllMessagesFreed == Spec => []MessagesFreed
<1> DEFINE Inv == task = 1 => ResultInv
<1>1. Init => Inv
  <2> SUFFICES ASSUME Task1!Init PROVE ResultInv
    BY DEF Init
  <2> QED
    BY ResultThreads
    DEF Task1!Init, ResultInv, ResultTypes, ResultOwn, ResultFreed, ResultJoined
<1>2. Inv /\ [Next]_vars => Inv'
  BY ResultStep, StepsApart
<1>3. Inv => (task = 1 => Task1!MessagesFreed)
  <2> SUFFICES ASSUME ResultInv, mpc = "returned"
               PROVE  /\ \A t \in Task1!Thread : ret[t] \in {"NULL", "freed"}
                      /\ \A k, l \in DOMAIN logged : k < l => logged[k] < logged[l]
                      /\ {logged[k] : k \in DOMAIN logged} = {t \in Task1!Thread : ret[t] = "freed"}
    BY DEF Task1!MessagesFreed
  <2>1. DOMAIN logged = 1 .. Len(logged) /\ ResultJoined = Task1!Thread
    BY DEF ResultInv, ResultTypes, ResultJoined
  <2> QED
    BY <2>1 DEF ResultInv, ResultFreed
<1>4. (task = 4 => RwInv) => (task = 4 => Task4!MessagesFreed)
  BY DEF RwInv, RwFreed, RwJoined, Task4!MessagesFreed
<1>5. (task = 1 => Task1!MessagesFreed) /\ (task = 4 => Task4!MessagesFreed) => MessagesFreed
  BY DEF MessagesFreed
<1> QED
  BY <1>1, <1>2, <1>3, <1>4, <1>5, RwInvariant, PTL DEF Spec

(***************************************************************************)
(* 4-Thread task3: the customer reads every item at most once and in the   *)
(* order they were made, whatever wakes it; and main returns only when it  *)
(* has read them all, unless a thread could not be created.                *)
(***************************************************************************)
THEOREM ItemsInOrder == Spec => []ItemsReadOnce
<1> DEFINE Inv == task = 3 => ItemInv /\ ItemLoops /\ ItemCount
<1>1. Init => Inv
  <2> SUFFICES ASSUME Task3!Init PROVE ItemInv /\ ItemLoops /\ ItemCount
    BY DEF Init
  <2>1. /\ data = 0 /\ i = [t \in Task3!Thread |-> 0] /\ got = <<>>
        /\ data_ready = FALSE /\ overwritten = FALSE /\ fails = 0
        /\ pc = [t \in Task3!Thread \cup {"main"} |->
                   IF t = "main" THEN "create_customer" ELSE "off"]
    BY DEF Task3!Init
  <2>2. pc["producer"] = "off" /\ pc["customer"] = "off" /\ pc["main"] = "create_customer"
    BY <2>1 DEF Task3!Thread
  <2>3. ItemTypes
    BY <2>1 DEF Task3!Thread, ItemTypes
  <2>4. ItemControl
    BY <2>2 DEF ItemControl
  <2>5. ItemOrder
    BY <2>1, <2>2 DEF Task3!Thread, ItemOrder
  <2>6. ItemLoops
    <3>1. N \in Nat
      BY ThreadAssumption DEF Task3!ItemsAssumption
    <3>2. \A t \in Task3!Thread : i[t] = 0 /\ pc[t] = "off"
      BY <2>1, <2>2 DEF Task3!Thread
    <3> QED
      BY <2>1, <2>2, <3>1, <3>2 DEF ItemLoops
  <2>7. ItemCount
    <3>1. Len(got) = 0 /\ i["customer"] = 0 /\ Ready = 0 /\ Missed = 0
      BY <2>1 DEF Ready, Missed, Task3!Thread
    <3>2. data_ready \in BOOLEAN /\ overwritten \in BOOLEAN
      BY <2>1
    <3>3. Len(got) + Ready + Missed <= data
      BY <2>1, <3>1
    <3>4. Len(got) = i["customer"] /\ pc["customer"] # "unlock"
      BY <2>2, <3>1
    <3> QED
      BY <3>2, <3>3, <3>4 DEF ItemCount
  <2> QED
    BY <2>3, <2>4, <2>5, <2>6, <2>7 DEF ItemInv
<1>2. Inv /\ [Next]_vars => Inv'
  BY ItemStep, ItemLoopsStep, ItemCountStep, StepsApart
<1>3. Inv => ItemsReadOnce
  <2> SUFFICES ASSUME ItemInv, ItemLoops, ItemCount PROVE Task3!ItemsReadOnce
    BY DEF ItemsReadOnce
  <2>1. ASSUME pc["main"] = "returned", fails = 0 PROVE Len(got) = N /\ ~overwritten
    <3>1. pc["customer"] = "ended" /\ i["customer"] = N
      BY <2>1 DEF ItemLoops
    <3>2. Len(got) = N /\ Len(got) + Ready + Missed <= data
      BY <3>1 DEF ItemCount
    <3>3. data <= N
      <4>1. i["producer"] <= N /\ (pc["producer"] = "unlock" => i["producer"] < N)
        BY DEF ItemLoops, Task3!Thread
      <4>2. i["producer"] \in Nat /\ N \in Nat
        BY ThreadAssumption DEF ItemInv, ItemTypes, Task3!Thread, Task3!ItemsAssumption
      <4> QED
        BY <4>1, <4>2 DEF ItemInv, ItemOrder
    <3>4. N \in Nat /\ data \in Nat
      BY ThreadAssumption DEF ItemInv, ItemTypes, Task3!ItemsAssumption
    <3>5. Ready \in {0, 1} /\ Missed \in {0, 1}
      BY DEF Ready, Missed
    <3>6. Missed = 0
      BY <3>2, <3>3, <3>4, <3>5
    <3> QED
      BY <3>2, <3>6 DEF Missed
  <2> QED
    BY <2>1 DEF ItemInv, ItemOrder, Task3!ItemsReadOnce
<1> QED
  BY <1>1, <1>2, <1>3, PTL DEF Spec

(***************************************************************************)
(* 4-Thread task1, task2 and task4: with the SUCCESS of cmnbase.h, main    *)
(* terminates the process only if a call failed.  That it does so in the   *)
(* build has no other cause than the SUCCESS of strutils.h.                *)
(***************************************************************************)
THEOREM TerminationExplained ==
  ASSUME SUCCESS = 1
  PROVE  Spec => []TerminatesOnlyOnFailure
<1> DEFINE Inv == /\ task \in {1, 2, 3, 4}
                  /\ task # 3 => fails \in Nat /\ (mpc = "terminated" => fails > 0)
<1>1. Init => Inv
  BY DEF Init, Task1!Init, Task2!Init, Task4!Init
<1>2. Inv /\ [Next]_vars => Inv'
  <2> SUFFICES ASSUME Inv, [Next]_vars, task # 3 PROVE Inv'
    BY StepsApart
  <2>1. ASSUME fails' = fails, mpc' # "terminated" \/ mpc' = mpc PROVE Inv'
    BY <2>1, StepsApart
  <2>2. ASSUME fails' = fails + 1 PROVE Inv'
    BY <2>2, StepsApart
  <2>3. CASE task = 1
    <3>1. [Task1!Next]_(Task1!vars)
      BY <2>3, StepsApart
    <3>2. CASE UNCHANGED Task1!vars
      BY <2>1, <3>2 DEF Task1!vars
    <3>3. CASE Task1!MainStep
      BY <2>1, <3>3 DEF Task1!MainStep, Task1!Malloc, Task1!CreateThreads, Task1!JoinThreads,
                        Task1!Free, Task1!Check, Task1!FAILURE
    <3>4. CASE Task1!MainFails \/ \E t \in Task1!Thread : Task1!Entry(t)
      BY <2>1, <2>2, <3>4 DEF Task1!MainFails, Task1!Entry
    <3> QED
      BY <3>1, <3>2, <3>3, <3>4 DEF Task1!Next
  <2>4. CASE task = 2
    <3>1. [Task2!Next]_(Task2!vars)
      BY <2>4, StepsApart
    <3>2. CASE UNCHANGED Task2!vars
      BY <2>1, <3>2 DEF Task2!vars
    <3>3. CASE Task2!MainStep
      BY <2>1, <3>3 DEF Task2!MainStep, Task2!CreateMutex, Task2!CreateThreads,
                        Task2!JoinThreads, Task2!Final, Task2!Check, Task2!FAILURE
    <3>4. CASE Task2!MainFails \/ \E t \in Task2!Thread : Task2!ThreadStep(t)
      BY <2>1, <2>2, <3>4 DEF Task2!MainFails, Task2!ThreadStep, Task2!Lock, Task2!Load,
                              Task2!Store, Task2!Unlock, Task2!Log
    <3> QED
      BY <3>1, <3>2, <3>3, <3>4 DEF Task2!Next
  <2>5. CASE task = 4
    <3>1. [Task4!Next]_(Task4!vars)
      BY <2>5, StepsApart
    <3>2. CASE UNCHANGED Task4!vars
      BY <2>1, <3>2 DEF Task4!vars, Task4!main
    <3>3. CASE Task4!MainStep
      BY <2>1, <3>3 DEF Task4!MainStep, Task4!CreateThreads, Task4!JoinThreads,
                        Task4!Destroy, Task4!Check, Task4!FAILURE
    <3>4. CASE Task4!MainFails \/ \E t \in Task4!Thread : Task4!ThreadStep(t)
      BY <2>1, <2>2, <3>4 DEF Task4!MainFails, Task4!ThreadStep, Task4!Malloc,
                              Task4!MallocFails, Task4!RdLock, Task4!Read, Task4!WrLock,
                              Task4!Reset, Task4!Write, Task4!Unlock, Task4!main
    <3> QED
      BY <3>1, <3>2, <3>3, <3>4 DEF Task4!Next
  <2> QED
    BY <2>3, <2>4, <2>5
<1>3. Inv => TerminatesOnlyOnFailure
  BY DEF TerminatesOnlyOnFailure
<1> QED
  BY <1>1, <1>2, <1>3, PTL DEF Spec
==============================================================================
