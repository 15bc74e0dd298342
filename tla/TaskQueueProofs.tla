--------------------------- MODULE TaskQueueProofs ---------------------------
(***************************************************************************)
(* Proofs about TaskQueue, for any number of workers and dispatchers, any  *)
(* priorities, any capacity of the queue and any number of failing calls.  *)
(***************************************************************************)
EXTENDS TaskQueue, FiniteSetTheorems, TLAPS

\* What a worker does between mq_open and its end.
Opened == {"attr", "loop", "receive", "process", "close", "unlink"}

QueueTypes ==
  /\ name \in Worker \cup {None}
  /\ msgs \in [Worker -> Seq(Dispatcher)]
  /\ wpc \in [Worker -> Running \cup {"off", "failed", "killed", "exited"}]
  /\ mqd \in [Worker \cup Dispatcher -> Worker \cup {None}]
  /\ buffer \in [Worker -> Dispatcher \cup {None}]
  /\ done \in Seq(Dispatcher)
  /\ dpc \in [Dispatcher -> {"off", "send", "sent", "refused"}]
  /\ caught \in [Worker -> Nat] /\ fails \in Nat

\* A process that uses a queue has opened one, and one that has a task in hand took it.
QueueOpen ==
  /\ \A w \in Worker : wpc[w] \in Opened => mqd[w] \in Worker
  /\ \A w \in Worker : wpc[w] = "process" => buffer[w] \in Dispatcher
  /\ \A d \in Dispatcher : dpc[d] = "send" => mqd[d] \in Worker
  /\ \A q \in Worker : Len(msgs[q]) <= mq_maxmsg

QueueInv == QueueTypes /\ QueueOpen

----------------------------------------------------------------------------
(***************************************************************************)
(* What Insert does to a queue: the new task has one place, the others     *)
(* keep their order.                                                       *)
(***************************************************************************)
LEMMA InsertProperties ==
  ASSUME NEW s \in Seq(Dispatcher), NEW d \in Dispatcher
  PROVE  /\ Insert(s, d) \in Seq(Dispatcher) /\ Len(Insert(s, d)) = Len(s) + 1
         /\ \E k \in 1 .. Len(s) + 1 : \A n \in 1 .. Len(s) + 1 :
              Insert(s, d)[n] = IF n < k THEN s[n] ELSE IF n = k THEN d ELSE s[n - 1]
<1> DEFINE older == {n \in DOMAIN s : Prio[s[n]] >= Prio[d]}
           k == 1 + Cardinality(older)
           a == SubSeq(s, 1, k - 1)
           b == SubSeq(s, k, Len(s))
<1>1. k \in 1 .. Len(s) + 1
  <2>1. older \in SUBSET (1 .. Len(s)) /\ Len(s) \in Nat
    OBVIOUS
  <2>2. IsFiniteSet(1 .. Len(s)) /\ Cardinality(1 .. Len(s)) = Len(s)
    <3>1. 1 \in Int /\ Len(s) \in Int
      BY <2>1
    <3>2. /\ IsFiniteSet(1 .. Len(s))
          /\ Cardinality(1 .. Len(s)) = IF 1 > Len(s) THEN 0 ELSE Len(s) - 1 + 1
      BY <3>1, FS_Interval
    <3> QED
      BY <2>1, <3>2
  <2> HIDE DEF older
  <2>3. IsFiniteSet(older) /\ Cardinality(older) <= Cardinality(1 .. Len(s))
    BY <2>1, <2>2, FS_Subset
  <2>4. Cardinality(older) \in Nat
    BY <2>3, FS_CardinalityType
  <2> QED
    BY <2>1, <2>2, <2>3, <2>4
<1>2. Insert(s, d) = a \o <<d>> \o b
  BY DEF Insert, InsertAt
<1> HIDE DEF k
<1>3. a \in Seq(Dispatcher) /\ Len(a) = k - 1 /\ \A n \in 1 .. k - 1 : a[n] = s[n]
  BY <1>1
<1>4. /\ b \in Seq(Dispatcher) /\ Len(b) = Len(s) - k + 1
      /\ \A n \in 1 .. Len(s) - k + 1 : b[n] = s[n + k - 1]
  BY <1>1
<1> HIDE DEF a, b
<1> DEFINE c == a \o <<d>>
<1>5. /\ c \in Seq(Dispatcher) /\ Len(c) = k /\ c[k] = d
      /\ \A n \in 1 .. k - 1 : c[n] = s[n]
  BY <1>1, <1>3
<1>6. Insert(s, d) = c \o b
  BY <1>2
<1> HIDE DEF c
<1>7. c \o b \in Seq(Dispatcher) /\ Len(c \o b) = Len(s) + 1
  <2>1. c \in Seq(Dispatcher) /\ b \in Seq(Dispatcher)
    BY <1>4, <1>5
  <2>2. c \o b \in Seq(Dispatcher) /\ Len(c \o b) = Len(c) + Len(b)
    BY <2>1
  <2>3. k + (Len(s) - k + 1) = Len(s) + 1
    BY <1>1
  <2> QED
    BY <1>4, <1>5, <2>2, <2>3
<1>8. ASSUME NEW n \in 1 .. Len(s) + 1
      PROVE  (c \o b)[n] = IF n < k THEN s[n] ELSE IF n = k THEN d ELSE s[n - 1]
  <2>1. CASE n <= k
    BY <1>1, <1>4, <1>5, <2>1
  <2>2. CASE n > k
    <3>1. (c \o b)[n] = b[n - k]
      BY <1>1, <1>4, <1>5, <2>2
    <3>2. n - k \in 1 .. Len(s) - k + 1 /\ (n - k) + k - 1 = n - 1
      BY <1>1, <2>2
    <3>3. b[n - k] = s[n - 1]
      BY <1>4, <3>2
    <3> QED
      BY <1>1, <2>2, <3>1, <3>3
  <2>3. n <= k \/ n > k
    BY <1>1
  <2> QED
    BY <2>1, <2>2, <2>3
<1> QED
  BY <1>1, <1>6, <1>7, <1>8

\* What mq_receive leaves in a queue.
LEMMA TailProperties ==
  ASSUME NEW s \in Seq(Dispatcher), s # <<>>
  PROVE  /\ Tail(s) \in Seq(Dispatcher) /\ Len(Tail(s)) = Len(s) - 1 /\ Len(s) > 0
         /\ Head(s) = s[1] /\ s[1] \in Dispatcher
         /\ \A n \in 1 .. Len(s) - 1 : Tail(s)[n] = s[n + 1]
  OBVIOUS

\* Every step of a worker, SIGINT included, keeps QueueInv.
LEMMA QueueWorkerStep ==
  ASSUME QueueInv, NEW w \in Worker,
         StartWorker(w) \/ WorkerStep(w) \/ Fail(w) \/ Sigint(w)
  PROVE  QueueInv'
<1> USE QueueAssumption DEF QueueInv, queues, signals, GotoW
<1>1. ASSUME UNCHANGED <<name, msgs, mqd, buffer, done, dpc>>,
             caught' \in [Worker -> Nat], fails' \in Nat,
             NEW l \in Running \cup {"off", "failed", "killed", "exited"},
             wpc' = [wpc EXCEPT ![w] = l],
             l \in Opened => wpc[w] \in Opened, l # "process"
      PROVE  QueueInv'
  <2>1. QueueTypes'
    BY <1>1 DEF QueueTypes
  <2>2. QueueOpen'
    BY <1>1 DEF QueueTypes, QueueOpen
  <2> QED
    BY <2>1, <2>2
<1>2. caught \in [Worker -> Nat] /\ fails \in Nat
  BY DEF QueueTypes
<1>3. CASE StartWorker(w) \/ Sigaction(w) \/ Attr(w) \/ Loop(w) \/ Close(w)
  <2>1. /\ UNCHANGED <<name, msgs, mqd, buffer, done, dpc, caught, fails>>
        /\ \/ wpc' = [wpc EXCEPT ![w] = "sigaction"]
           \/ wpc' = [wpc EXCEPT ![w] = "open"]
           \/ wpc' = [wpc EXCEPT ![w] = "loop"] /\ wpc[w] = "attr"
           \/ wpc' = [wpc EXCEPT ![w] = "receive"] /\ wpc[w] = "loop"
           \/ wpc' = [wpc EXCEPT ![w] = "close"] /\ wpc[w] = "loop"
           \/ wpc' = [wpc EXCEPT ![w] = "unlink"] /\ wpc[w] = "close"
    BY <1>3 DEF StartWorker, Sigaction, Attr, Loop, Close
  <2> QED
    BY <1>1, <1>2, <2>1 DEF Running, Opened
<1>4. CASE Fail(w)
  <2>1. /\ UNCHANGED <<name, msgs, mqd, buffer, done, dpc, caught>> /\ fails' = fails + 1
        /\ \/ wpc' = [wpc EXCEPT ![w] = "failed"]
           \/ wpc' = [wpc EXCEPT ![w] = "close"] /\ wpc[w] = "receive"
    BY <1>4 DEF Fail
  <2> QED
    BY <1>1, <1>2, <2>1 DEF Running, Opened
<1>5. CASE Sigint(w)
  <2>1. /\ UNCHANGED <<name, msgs, mqd, buffer, done, dpc, fails>>
        /\ caught' = [caught EXCEPT ![w] = @ + 1]
        /\ UNCHANGED wpc \/ wpc' = [wpc EXCEPT ![w] = "killed"]
    BY <1>5 DEF Sigint
  <2>2. caught' \in [Worker -> Nat]
    BY <1>2, <2>1
  <2>3. CASE UNCHANGED wpc
    BY <2>1, <2>2, <2>3 DEF QueueTypes, QueueOpen
  <2> QED
    BY <1>1, <1>2, <2>1, <2>2, <2>3 DEF Running, Opened
<1>6. CASE WorkerOpen(w)
  <2>1. /\ name' = IF name = None THEN w ELSE name
        /\ mqd' = [mqd EXCEPT ![w] = name'] /\ wpc' = [wpc EXCEPT ![w] = "attr"]
        /\ UNCHANGED <<msgs, buffer, done, dpc, caught, fails>>
    BY <1>6 DEF WorkerOpen
  <2>2. name' \in Worker
    BY <2>1 DEF QueueTypes
  <2>3. QueueTypes'
    BY <2>1, <2>2 DEF QueueTypes, Running
  <2>4. \A p \in Worker \cup Dispatcher : mqd'[p] = mqd[p] \/ mqd'[p] \in Worker
    BY <2>1, <2>2 DEF QueueTypes
  <2>5. mqd'[w] \in Worker
    BY <2>1, <2>2 DEF QueueTypes
  <2>6. QueueOpen'
    BY <2>1, <2>4, <2>5 DEF QueueTypes, QueueOpen
  <2> QED
    BY <2>3, <2>6
<1>7. CASE Receive(w)
  <2> DEFINE q == mqd[w]
  <2>1. wpc[w] = "receive" /\ UNCHANGED <<name, mqd, done, dpc, caught, fails>>
    BY <1>7 DEF Receive
  <2>2. q \in Worker /\ msgs[q] \in Seq(Dispatcher)
    BY <2>1 DEF QueueTypes, QueueOpen, Opened
  <2>3. CASE msgs[q] = <<>>
    <3>1. UNCHANGED <<msgs, buffer>> /\ wpc' = [wpc EXCEPT ![w] = "loop"]
      BY <1>7, <2>3 DEF Receive
    <3> QED
      BY <1>1, <1>2, <2>1, <3>1 DEF Running, Opened
  <2>4. CASE msgs[q] # <<>>
    <3>1. /\ buffer' = [buffer EXCEPT ![w] = Head(msgs[q])]
          /\ msgs' = [msgs EXCEPT ![q] = Tail(@)]
          /\ wpc' = [wpc EXCEPT ![w] = "process"]
      BY <1>7, <2>4 DEF Receive
    <3>2. /\ Tail(msgs[q]) \in Seq(Dispatcher) /\ Head(msgs[q]) \in Dispatcher
          /\ Len(Tail(msgs[q])) = Len(msgs[q]) - 1
      BY <2>2, <2>4, TailProperties
    <3>3. QueueTypes'
      BY <2>1, <2>2, <3>1, <3>2 DEF QueueTypes, Running
    <3>4. Len(msgs[q]) \in Nat /\ mq_maxmsg \in Nat
      BY <2>2
    <3>5. \A r \in Worker : Len(msgs'[r]) <= mq_maxmsg
      BY <2>2, <3>1, <3>2, <3>4 DEF QueueTypes, QueueOpen
    <3>6. QueueOpen'
      BY <2>1, <2>2, <3>1, <3>2, <3>5 DEF QueueTypes, QueueOpen, Opened
    <3> QED
      BY <3>3, <3>6
  <2> QED
    BY <2>3, <2>4
<1>8. CASE Process(w)
  <2>1. /\ wpc[w] = "process" /\ done' = Append(done, buffer[w])
        /\ wpc' = [wpc EXCEPT ![w] = "loop"]
        /\ UNCHANGED <<name, msgs, mqd, buffer, dpc, caught, fails>>
    BY <1>8 DEF Process
  <2>2. buffer[w] \in Dispatcher
    BY <2>1 DEF QueueOpen
  <2>3. done' \in Seq(Dispatcher)
    BY <2>1, <2>2 DEF QueueTypes
  <2>4. QueueTypes'
    BY <2>1, <2>3 DEF QueueTypes, Running
  <2>5. QueueOpen'
    BY <2>1 DEF QueueTypes, QueueOpen, Opened
  <2> QED
    BY <2>4, <2>5
<1>9. CASE Unlink(w)
  <2>1. /\ name' = None /\ wpc' = [wpc EXCEPT ![w] = "exited"]
        /\ UNCHANGED <<msgs, mqd, buffer, done, dpc, caught, fails>>
    BY <1>9 DEF Unlink
  <2>2. QueueTypes'
    BY <2>1 DEF QueueTypes
  <2>3. QueueOpen'
    BY <2>1 DEF QueueTypes, QueueOpen, Opened
  <2> QED
    BY <2>2, <2>3
<1> QED
  BY <1>3, <1>4, <1>5, <1>6, <1>7, <1>8, <1>9 DEF WorkerStep

\* Every step of a dispatcher keeps QueueInv.
LEMMA QueueDispatcherStep ==
  ASSUME QueueInv, NEW d \in Dispatcher, Dispatch(d) \/ DispatcherStep(d)
  PROVE  QueueInv'
<1> USE QueueAssumption DEF QueueInv, queues, signals, GotoD
<1>1. UNCHANGED <<name, wpc, buffer, done, caught, fails>>
  BY DEF Dispatch, DispatcherStep, SendInvalid, Send
<1>2. CASE Dispatch(d)
  <2>1. /\ UNCHANGED msgs
        /\ \/ dpc' = [dpc EXCEPT ![d] = "refused"] /\ UNCHANGED mqd
           \/ /\ dpc' = [dpc EXCEPT ![d] = "send"] /\ name # None
              /\ mqd' = [mqd EXCEPT ![d] = name]
    BY <1>2 DEF Dispatch
  <2>2. QueueTypes'
    <3>1. mqd' \in [Worker \cup Dispatcher -> Worker \cup {None}]
      BY <2>1 DEF QueueTypes
    <3>2. dpc' \in [Dispatcher -> {"off", "send", "sent", "refused"}]
      BY <2>1 DEF QueueTypes
    <3> QED
      BY <1>1, <2>1, <3>1, <3>2 DEF QueueTypes
  <2>3. d \notin Worker
    OBVIOUS
  <2>4. QueueOpen'
    BY <1>1, <2>1, <2>3 DEF QueueTypes, QueueOpen
  <2> QED
    BY <2>2, <2>4
<1>3. CASE SendInvalid(d)
  <2>1. UNCHANGED <<msgs, mqd>> /\ dpc' = [dpc EXCEPT ![d] = "refused"]
    BY <1>3 DEF SendInvalid
  <2> QED
    BY <1>1, <2>1 DEF QueueTypes, QueueOpen
<1>4. CASE Send(d)
  <2> DEFINE q == mqd[d]
  <2>1. /\ dpc[d] = "send" /\ dpc' = [dpc EXCEPT ![d] = "sent"] /\ UNCHANGED mqd
        /\ Len(msgs[q]) < mq_maxmsg /\ msgs' = [msgs EXCEPT ![q] = Insert(@, d)]
    BY <1>4 DEF Send
  <2>2. q \in Worker /\ msgs[q] \in Seq(Dispatcher)
    BY <2>1 DEF QueueTypes, QueueOpen
  <2>3. Insert(msgs[q], d) \in Seq(Dispatcher) /\ Len(Insert(msgs[q], d)) = Len(msgs[q]) + 1
    BY <2>2, InsertProperties
  <2>4. QueueTypes'
    BY <1>1, <2>1, <2>2, <2>3 DEF QueueTypes
  <2>5. Len(msgs[q]) \in Nat /\ mq_maxmsg \in Nat
    BY <2>2
  <2>6. \A r \in Worker : Len(msgs'[r]) <= mq_maxmsg
    BY <2>1, <2>2, <2>3, <2>5 DEF QueueTypes, QueueOpen
  <2>7. QueueOpen'
    BY <1>1, <2>1, <2>6 DEF QueueTypes, QueueOpen
  <2> QED
    BY <2>4, <2>7
<1> QED
  BY <1>2, <1>3, <1>4 DEF DispatcherStep

\* QueueInv holds in every state.
LEMMA QueueInvariant == Spec => []QueueInv
<1>1. Init => QueueInv
  BY QueueAssumption DEF Init, QueueInv, QueueTypes, QueueOpen, Opened, Running
<1>2. QueueInv /\ UNCHANGED vars => QueueInv'
  BY DEF vars, queues, signals, QueueInv, QueueTypes, QueueOpen
<1>3. QueueInv /\ [Next]_vars => QueueInv'
  BY <1>2, QueueWorkerStep, QueueDispatcherStep DEF Next
<1> QED
  BY <1>1, <1>3, PTL DEF Spec

----------------------------------------------------------------------------
(***************************************************************************)
(* 7-Queue: when no worker runs, the queue's name is left over only if a   *)
(* worker was killed or failed before its loop.  While the name is linked, *)
(* some worker has opened the queue and not yet unlinked it.               *)
(***************************************************************************)
THEOREM NameLeftByKillOnly == Spec => []NameLeftOnlyByKill
<1> DEFINE Held == name # None => \E w \in Worker : wpc[w] \in Opened \cup {"killed", "failed"}
<1>1. Init => Held
  BY DEF Init
<1>2. QueueInv /\ Held /\ [Next]_vars => Held'
  <2> SUFFICES ASSUME QueueInv, Held, [Next]_vars PROVE Held'
    OBVIOUS
  <2> USE DEF queues, signals, GotoW, GotoD, Opened
  <2>1. CASE UNCHANGED <<name, wpc>>
    BY <2>1
  <2>2. ASSUME NEW w \in Worker, StartWorker(w) \/ WorkerStep(w) \/ Fail(w) \/ Sigint(w)
        PROVE  Held'
    <3>1. ASSUME NEW l, wpc' = [wpc EXCEPT ![w] = l], name' = name,
                 l \in Opened \cup {"killed", "failed"}
                   \/ wpc[w] \notin Opened \cup {"killed", "failed"}
          PROVE  Held'
      BY <3>1 DEF QueueInv, QueueTypes
    <3>2. CASE StartWorker(w) \/ Sigaction(w) \/ Attr(w) \/ Loop(w) \/ Receive(w)
                 \/ Process(w) \/ Close(w)
      <4>1. name' = name /\ \E l : wpc' = [wpc EXCEPT ![w] = l] /\
              (l \in Opened \/ wpc[w] \in {"off", "sigaction"})
        BY <3>2 DEF StartWorker, Sigaction, Attr, Loop, Receive, Process, Close
      <4> QED
        BY <3>1, <4>1
    <3>3. CASE Fail(w) \/ Sigint(w)
      <4>1. name' = name /\ (UNCHANGED wpc \/ \E l \in {"close", "failed", "killed"} :
                                                wpc' = [wpc EXCEPT ![w] = l])
        BY <3>3 DEF Fail, Sigint
      <4> QED
        BY <2>1, <3>1, <4>1
    <3>4. CASE WorkerOpen(w)
      <4>1. wpc'[w] = "attr"
        BY <3>4 DEF WorkerOpen, QueueInv, QueueTypes
      <4> QED
        BY <4>1
    <3>5. CASE Unlink(w)
      BY <3>5 DEF Unlink
    <3> QED
      BY <2>2, <3>2, <3>3, <3>4, <3>5 DEF WorkerStep
  <2>3. ASSUME NEW d \in Dispatcher, Dispatch(d) \/ DispatcherStep(d) PROVE UNCHANGED <<name, wpc>>
    BY <2>3 DEF Dispatch, DispatcherStep, SendInvalid, Send
  <2>4. UNCHANGED vars => UNCHANGED <<name, wpc>>
    BY DEF vars
  <2> QED
    BY <2>1, <2>2, <2>3, <2>4 DEF Next
<1>3. Held => NameLeftOnlyByKill
  BY DEF NameLeftOnlyByKill, Running, Opened
<1> QED
  BY <1>1, <1>2, <1>3, QueueInvariant, PTL DEF Spec

----------------------------------------------------------------------------
(***************************************************************************)
(* A task is in at most one place.  Positions stand for the tasks there,   *)
(* so that two of them with one task are the same position.                *)
(***************************************************************************)
WaitingOnce ==
  \A q, r \in Worker : \A k \in 1 .. Len(msgs[q]), l \in 1 .. Len(msgs[r]) :
    msgs[q][k] = msgs[r][l] => q = r /\ k = l

WaitingOnly ==
  \A q \in Worker : \A k \in 1 .. Len(msgs[q]) :
    /\ dpc[msgs[q][k]] = "sent"
    /\ \A w \in Worker : wpc[w] = "process" => buffer[w] # msgs[q][k]
    /\ \A i \in 1 .. Len(done) : done[i] # msgs[q][k]

InHandOnly ==
  \A w \in Worker : wpc[w] = "process" =>
    /\ dpc[buffer[w]] = "sent"
    /\ \A v \in Worker : wpc[v] = "process" /\ buffer[v] = buffer[w] => v = w
    /\ \A i \in 1 .. Len(done) : done[i] # buffer[w]

DoneOnce ==
  \A i \in 1 .. Len(done) :
    dpc[done[i]] = "sent" /\ \A j \in 1 .. Len(done) : done[i] = done[j] => i = j

OnceInv == WaitingOnce /\ WaitingOnly /\ InHandOnly /\ DoneOnce

(***************************************************************************)
(* A step that neither moves a task nor puts one in a worker's hands keeps *)
(* OnceInv.                                                                *)
(***************************************************************************)
LEMMA OnceStays ==
  ASSUME QueueInv, OnceInv, UNCHANGED <<msgs, done, buffer>>,
         \A w \in Worker : wpc'[w] = "process" => wpc[w] = "process",
         \A d \in Dispatcher : dpc[d] = "sent" => dpc'[d] = "sent"
  PROVE  OnceInv'
<1>1. /\ \A q \in Worker : msgs[q] \in Seq(Dispatcher)
      /\ done \in Seq(Dispatcher)
      /\ \A w \in Worker : wpc[w] = "process" => buffer[w] \in Dispatcher
  BY DEF QueueInv, QueueTypes, QueueOpen
<1>2. \A q \in Worker : \A k \in 1 .. Len(msgs[q]) : msgs[q][k] \in Dispatcher
  BY <1>1
<1>3. \A i \in 1 .. Len(done) : done[i] \in Dispatcher
  BY <1>1
<1>4. WaitingOnce'
  BY DEF OnceInv, WaitingOnce
<1>5. WaitingOnly'
  BY <1>2 DEF OnceInv, WaitingOnly
<1>6. InHandOnly'
  BY <1>1 DEF OnceInv, InHandOnly
<1>7. DoneOnce'
  BY <1>3 DEF OnceInv, DoneOnce
<1> QED
  BY <1>4, <1>5, <1>6, <1>7 DEF OnceInv

\* mq_receive moves the first task of the queue to the worker's buffer.
LEMMA OnceReceive ==
  ASSUME QueueInv, OnceInv, NEW w \in Worker, Receive(w), msgs[mqd[w]] # <<>>
  PROVE  OnceInv'
<1> DEFINE q == mqd[w]
           t == msgs[q][1]
<1>1. /\ wpc[w] = "receive" /\ UNCHANGED <<done, dpc>>
      /\ buffer' = [buffer EXCEPT ![w] = Head(msgs[q])]
      /\ msgs' = [msgs EXCEPT ![q] = Tail(@)]
      /\ wpc' = [wpc EXCEPT ![w] = "process"]
  BY DEF Receive, GotoW
<1>2. q \in Worker /\ msgs[q] \in Seq(Dispatcher)
  BY <1>1 DEF QueueInv, QueueTypes, QueueOpen, Opened
<1>3. /\ Tail(msgs[q]) \in Seq(Dispatcher) /\ Len(Tail(msgs[q])) = Len(msgs[q]) - 1
      /\ Len(msgs[q]) > 0 /\ Head(msgs[q]) = t /\ t \in Dispatcher
      /\ \A n \in 1 .. Len(msgs[q]) - 1 : Tail(msgs[q])[n] = msgs[q][n + 1]
  BY <1>2, TailProperties
<1>4. 1 \in 1 .. Len(msgs[q]) /\ Len(msgs[q]) \in Nat
  BY <1>2, <1>3
<1>5. buffer'[w] = t /\ \A v \in Worker : v # w => buffer'[v] = buffer[v] /\ wpc'[v] = wpc[v]
  BY <1>1, <1>3 DEF QueueInv, QueueTypes
<1>6. /\ msgs'[q] = Tail(msgs[q])
      /\ \A r \in Worker : r # q => msgs'[r] = msgs[r]
  BY <1>1, <1>2 DEF QueueInv, QueueTypes
<1>7. \A k \in 1 .. Len(msgs'[q]) :
        k + 1 \in 1 .. Len(msgs[q]) /\ msgs'[q][k] = msgs[q][k + 1] /\ k + 1 # 1
  BY <1>3, <1>4, <1>6
<1>8. ASSUME NEW r \in Worker, NEW k \in 1 .. Len(msgs'[r])
      PROVE  \E n \in 1 .. Len(msgs[r]) : msgs'[r][k] = msgs[r][n] /\ (r = q => n # 1)
  <2>1. CASE r = q
    <3>1. k + 1 \in 1 .. Len(msgs[r]) /\ msgs'[r][k] = msgs[r][k + 1] /\ k + 1 # 1
      BY <1>7, <2>1
    <3> QED
      BY <3>1
  <2>2. CASE r # q
    BY <1>6, <2>2
  <2> QED
    BY <2>1, <2>2
<1>9. WaitingOnce'
  <2> SUFFICES ASSUME NEW r \in Worker, NEW s \in Worker,
                      NEW k \in 1 .. Len(msgs'[r]), NEW l \in 1 .. Len(msgs'[s]),
                      msgs'[r][k] = msgs'[s][l]
               PROVE  r = s /\ k = l
    BY DEF WaitingOnce
  <2>1. r = s
    BY <1>8 DEF OnceInv, WaitingOnce
  <2>2. CASE r = q
    <3>1. k + 1 = l + 1
      BY <1>2, <1>7, <2>1, <2>2 DEF OnceInv, WaitingOnce
    <3>2. k \in Int /\ l \in Int
      OBVIOUS
    <3> QED
      BY <2>1, <3>1, <3>2
  <2>3. CASE r # q
    BY <1>6, <2>1, <2>3 DEF OnceInv, WaitingOnce
  <2> QED
    BY <2>2, <2>3
<1>10. WaitingOnly'
  <2> SUFFICES ASSUME NEW r \in Worker, NEW k \in 1 .. Len(msgs'[r])
               PROVE  /\ dpc'[msgs'[r][k]] = "sent"
                      /\ \A v \in Worker : wpc'[v] = "process" => buffer'[v] # msgs'[r][k]
                      /\ \A i \in 1 .. Len(done') : done'[i] # msgs'[r][k]
    BY DEF WaitingOnly
  <2>1. PICK n \in 1 .. Len(msgs[r]) : msgs'[r][k] = msgs[r][n] /\ (r = q => n # 1)
    BY <1>8
  <2>2. msgs[r][n] # t
    BY <1>2, <1>4, <2>1 DEF OnceInv, WaitingOnce
  <2>3. /\ dpc[msgs[r][n]] = "sent"
        /\ \A v \in Worker : wpc[v] = "process" => buffer[v] # msgs[r][n]
        /\ \A i \in 1 .. Len(done) : done[i] # msgs[r][n]
    BY DEF OnceInv, WaitingOnly
  <2> QED
    BY <1>1, <1>5, <2>1, <2>2, <2>3
<1>11. InHandOnly'
  <2>1. /\ dpc[t] = "sent" /\ \A v \in Worker : wpc[v] = "process" => buffer[v] # t
        /\ \A i \in 1 .. Len(done) : done[i] # t
    BY <1>2, <1>4 DEF OnceInv, WaitingOnly
  <2> QED
    BY <1>1, <1>5, <2>1 DEF OnceInv, InHandOnly
<1>12. DoneOnce'
  BY <1>1 DEF OnceInv, DoneOnce
<1> QED
  BY <1>9, <1>10, <1>11, <1>12 DEF OnceInv

\* The worker processes the task in its hands.
LEMMA OnceProcess ==
  ASSUME QueueInv, OnceInv, NEW w \in Worker, Process(w)
  PROVE  OnceInv'
<1> DEFINE t == buffer[w]
           m == Len(done) + 1
<1>1. /\ wpc[w] = "process" /\ UNCHANGED <<msgs, buffer, dpc>>
      /\ done' = Append(done, t) /\ wpc' = [wpc EXCEPT ![w] = "loop"]
  BY DEF Process, GotoW, queues
<1>2. t \in Dispatcher /\ done \in Seq(Dispatcher)
  BY <1>1 DEF QueueInv, QueueTypes, QueueOpen
<1>3. \A v \in Worker : wpc'[v] = "process" => wpc[v] = "process" /\ v # w
  BY <1>1 DEF QueueInv, QueueTypes
<1>4. /\ dpc[t] = "sent" /\ \A i \in 1 .. Len(done) : done[i] # t
      /\ \A v \in Worker : wpc[v] = "process" /\ v # w => buffer[v] # t
  BY <1>1 DEF OnceInv, InHandOnly
<1>5. Len(done') = m /\ done'[m] = t /\ \A i \in 1 .. Len(done) : done'[i] = done[i]
  BY <1>1, <1>2
<1>6. \A i \in 1 .. m : i = m \/ i \in 1 .. Len(done)
  BY <1>2
<1> HIDE DEF m
<1>7. WaitingOnce'
  BY <1>1 DEF OnceInv, WaitingOnce
<1>8. WaitingOnly'
  <2>1. \A q \in Worker : \A k \in 1 .. Len(msgs[q]) : t # msgs[q][k]
    BY <1>1 DEF OnceInv, WaitingOnly
  <2> QED
    BY <1>1, <1>3, <1>5, <1>6, <2>1 DEF OnceInv, WaitingOnly
<1>9. InHandOnly'
  BY <1>1, <1>3, <1>4, <1>5, <1>6 DEF OnceInv, InHandOnly
<1>10. DoneOnce'
  BY <1>1, <1>4, <1>5, <1>6 DEF OnceInv, DoneOnce
<1> QED
  BY <1>7, <1>8, <1>9, <1>10 DEF OnceInv

\* mq_send puts a task that was nowhere in one place of the queue.
LEMMA OnceSend ==
  ASSUME QueueInv, OnceInv, NEW d \in Dispatcher, Send(d)
  PROVE  OnceInv'
<1> DEFINE q == mqd[d]
<1>1. /\ dpc[d] = "send" /\ dpc' = [dpc EXCEPT ![d] = "sent"]
      /\ msgs' = [msgs EXCEPT ![q] = Insert(@, d)] /\ UNCHANGED <<wpc, buffer, done>>
  BY DEF Send, GotoD
<1>2. q \in Worker /\ msgs[q] \in Seq(Dispatcher)
  BY <1>1 DEF QueueInv, QueueTypes, QueueOpen
<1>3. /\ msgs'[q] = Insert(msgs[q], d)
      /\ \A r \in Worker : r # q => msgs'[r] = msgs[r]
  BY <1>1, <1>2 DEF QueueInv, QueueTypes
<1>4. PICK p \in 1 .. Len(msgs[q]) + 1 :
        \A n \in 1 .. Len(msgs[q]) + 1 :
          Insert(msgs[q], d)[n] = IF n < p THEN msgs[q][n] ELSE IF n = p THEN d ELSE msgs[q][n - 1]
  BY <1>2, InsertProperties
<1>5. Len(msgs'[q]) = Len(msgs[q]) + 1 /\ Len(msgs[q]) \in Nat
  <2>1. Len(Insert(msgs[q], d)) = Len(msgs[q]) + 1
    BY <1>2, InsertProperties
  <2> QED
    BY <1>2, <1>3, <2>1
<1> DEFINE Old(n) == IF n < p THEN n ELSE n - 1
<1>6. \A n \in 1 .. Len(msgs'[q]) :
        \/ n = p /\ msgs'[q][n] = d
        \/ n # p /\ Old(n) \in 1 .. Len(msgs[q]) /\ msgs'[q][n] = msgs[q][Old(n)]
  BY <1>3, <1>4, <1>5
<1>7. \A n, l \in 1 .. Len(msgs'[q]) : n # p /\ l # p /\ Old(n) = Old(l) => n = l
  BY <1>5
<1> HIDE DEF Old
<1>8. \A e \in Dispatcher : dpc[e] = "sent" => e # d /\ dpc'[e] = "sent"
  BY <1>1 DEF QueueInv, QueueTypes
<1>9. dpc'[d] = "sent"
  BY <1>1 DEF QueueInv, QueueTypes
<1>10. \A r \in Worker : \A k \in 1 .. Len(msgs[r]) : msgs[r][k] \in Dispatcher
  BY DEF QueueInv, QueueTypes
<1>11. \A i \in 1 .. Len(done) : done[i] \in Dispatcher
  BY DEF QueueInv, QueueTypes
<1>12. \A v \in Worker : wpc[v] = "process" => buffer[v] \in Dispatcher
  BY DEF QueueInv, QueueOpen
<1>13. \A r \in Worker : \A k \in 1 .. Len(msgs[r]) :
         msgs[r][k] # d /\ dpc'[msgs[r][k]] = "sent"
  BY <1>8, <1>10 DEF OnceInv, WaitingOnly
<1>14. ASSUME NEW r \in Worker, NEW k \in 1 .. Len(msgs'[r])
       PROVE  \/ r = q /\ k = p /\ msgs'[r][k] = d
              \/ /\ ~(r = q /\ k = p)
                 /\ \E n \in 1 .. Len(msgs[r]) : msgs'[r][k] = msgs[r][n]
  BY <1>3, <1>6
<1>15. WaitingOnce'
  <2> SUFFICES ASSUME NEW r \in Worker, NEW s \in Worker,
                      NEW k \in 1 .. Len(msgs'[r]), NEW l \in 1 .. Len(msgs'[s]),
                      msgs'[r][k] = msgs'[s][l]
               PROVE  r = s /\ k = l
    BY DEF WaitingOnce
  <2>1. CASE msgs'[r][k] = d
    <3>1. ASSUME NEW u \in Worker, NEW n \in 1 .. Len(msgs'[u]), msgs'[u][n] = d
          PROVE  u = q /\ n = p
      <4>1. CASE u = q
        BY <1>2, <1>6, <1>13, <3>1, <4>1
      <4>2. CASE u # q
        BY <1>3, <1>13, <3>1, <4>2
      <4> QED
        BY <4>1, <4>2
    <3>2. r = q /\ k = p
      BY <2>1, <3>1
    <3>3. s = q /\ l = p
      BY <2>1, <3>1
    <3> QED
      BY <3>2, <3>3
  <2>2. CASE msgs'[r][k] # d
    <3>1. r = s
      BY <1>14, <2>2 DEF OnceInv, WaitingOnce
    <3>2. CASE r = q
      <4>1. k # p /\ l # p
        BY <1>6, <2>2, <3>1, <3>2
      <4>2. Old(k) = Old(l)
        BY <1>2, <1>6, <3>1, <3>2, <4>1 DEF OnceInv, WaitingOnce
      <4> QED
        BY <1>7, <3>1, <3>2, <4>1, <4>2
    <3>3. CASE r # q
      BY <1>3, <3>1, <3>3 DEF OnceInv, WaitingOnce
    <3> QED
      BY <3>2, <3>3
  <2> QED
    BY <2>1, <2>2
<1>16. WaitingOnly'
  <2> SUFFICES ASSUME NEW r \in Worker, NEW k \in 1 .. Len(msgs'[r])
               PROVE  /\ dpc'[msgs'[r][k]] = "sent"
                      /\ \A v \in Worker : wpc'[v] = "process" => buffer'[v] # msgs'[r][k]
                      /\ \A i \in 1 .. Len(done') : done'[i] # msgs'[r][k]
    BY DEF WaitingOnly
  <2>1. CASE msgs'[r][k] = d
    <3>1. \A v \in Worker : wpc[v] = "process" => buffer[v] # d
      BY <1>8, <1>12 DEF OnceInv, InHandOnly
    <3>2. \A i \in 1 .. Len(done) : done[i] # d
      BY <1>8, <1>11 DEF OnceInv, DoneOnce
    <3> QED
      BY <1>1, <1>9, <2>1, <3>1, <3>2
  <2>2. CASE msgs'[r][k] # d
    <3>1. PICK n \in 1 .. Len(msgs[r]) : msgs'[r][k] = msgs[r][n]
      BY <1>14, <2>2
    <3> QED
      BY <1>1, <1>13, <3>1 DEF OnceInv, WaitingOnly
  <2> QED
    BY <2>1, <2>2
<1>17. InHandOnly'
  BY <1>1, <1>8, <1>12 DEF OnceInv, InHandOnly
<1>18. DoneOnce'
  BY <1>1, <1>8, <1>11 DEF OnceInv, DoneOnce
<1> QED
  BY <1>15, <1>16, <1>17, <1>18 DEF OnceInv

\* OnceInv holds in every state.
LEMMA OnceInvariant == Spec => []OnceInv
<1>1. Init => OnceInv
  <2> SUFFICES ASSUME Init PROVE OnceInv
    OBVIOUS
  <2>1. \A q \in Worker : Len(msgs[q]) = 0
    BY DEF Init
  <2>2. Len(done) = 0 /\ \A w \in Worker : wpc[w] # "process"
    BY DEF Init
  <2> QED
    BY <2>1, <2>2 DEF OnceInv, WaitingOnce, WaitingOnly, InHandOnly, DoneOnce
<1>2. QueueInv /\ OnceInv /\ [Next]_vars => OnceInv'
  <2> SUFFICES ASSUME QueueInv, OnceInv, [Next]_vars PROVE OnceInv'
    OBVIOUS
  <2> USE DEF queues, signals, GotoW, GotoD
  <2>1. CASE UNCHANGED vars
    BY <2>1, OnceStays DEF vars
  <2>2. ASSUME NEW w \in Worker, StartWorker(w) \/ WorkerStep(w) \/ Fail(w) \/ Sigint(w)
        PROVE  OnceInv'
    <3>1. CASE Receive(w) /\ msgs[mqd[w]] # <<>>
      BY <3>1, OnceReceive
    <3>2. CASE Process(w)
      BY <3>2, OnceProcess
    <3>3. CASE ~Process(w) /\ ~(Receive(w) /\ msgs[mqd[w]] # <<>>)
      <4>1. /\ UNCHANGED <<msgs, done, buffer, dpc>>
            /\ \/ UNCHANGED wpc
               \/ \E l \in {"sigaction", "open", "attr", "loop", "receive", "close", "unlink",
                            "exited", "failed", "killed"} : wpc' = [wpc EXCEPT ![w] = l]
        BY <2>2, <3>3 DEF WorkerStep, StartWorker, Sigaction, WorkerOpen, Attr, Loop, Receive,
                          Close, Unlink, Fail, Sigint
      <4>2. \A v \in Worker : wpc'[v] = "process" => wpc[v] = "process"
        BY <4>1 DEF QueueInv, QueueTypes
      <4> QED
        BY <4>1, <4>2, OnceStays
    <3> QED
      BY <3>1, <3>2, <3>3
  <2>3. ASSUME NEW d \in Dispatcher, Dispatch(d) \/ DispatcherStep(d)
        PROVE  OnceInv'
    <3>1. CASE Send(d)
      BY <3>1, OnceSend
    <3>2. CASE Dispatch(d) \/ SendInvalid(d)
      <4>1. /\ UNCHANGED <<msgs, done, buffer, wpc>> /\ dpc[d] # "sent"
            /\ \E l \in {"refused", "send"} : dpc' = [dpc EXCEPT ![d] = l]
        BY <3>2 DEF Dispatch, SendInvalid
      <4>2. \A e \in Dispatcher : dpc[e] = "sent" => dpc'[e] = "sent"
        BY <4>1 DEF QueueInv, QueueTypes
      <4> QED
        BY <4>1, <4>2, OnceStays
    <3> QED
      BY <2>3, <3>1, <3>2 DEF DispatcherStep
  <2> QED
    BY <2>1, <2>2, <2>3 DEF Next
<1> QED
  BY <1>1, <1>2, QueueInvariant, PTL DEF Spec

\* A set without two elements has at most one.
LEMMA AtMostOne ==
  ASSUME NEW S, \A x, y \in S : x = y
  PROVE  Cardinality(S) = IF S = {} THEN 0 ELSE 1
<1>1. CASE S = {}
  BY <1>1, FS_EmptySet
<1>2. CASE S # {}
  <2>1. PICK x \in S : TRUE
    BY <1>2
  <2>2. S = {x}
    BY <2>1
  <2>3. Cardinality({x}) = 1
    BY FS_Singleton
  <2> QED
    BY <1>2, <2>2, <2>3
<1> QED
  BY <1>1, <1>2

(***************************************************************************)
(* 7-Queue: an accepted task is in one place and is processed at most      *)
(* once, one that was not accepted is nowhere; for any number of workers   *)
(* on the queue, interrupted anywhere, and any contents of their buffers.  *)
(***************************************************************************)
THEOREM TasksProcessedOnce == Spec => []TaskOnce
<1>1. QueueInv /\ OnceInv => TaskOnce
  <2> SUFFICES ASSUME QueueInv, OnceInv PROVE TaskOnce
    OBVIOUS
  <2>1. None \notin Range(done)
    <3>1. done \in Seq(Dispatcher) /\ None \notin Dispatcher
      BY QueueAssumption DEF QueueInv, QueueTypes
    <3> QED
      BY <3>1 DEF Range
  <2>2. ASSUME NEW d \in Dispatcher
        PROVE  Cardinality(Waiting(d)) + Cardinality(InHand(d)) + Cardinality(Processed(d))
                 <= (IF dpc[d] = "sent" THEN 1 ELSE 0)
    <3>1. \A q \in Worker : msgs[q] \in Seq(Dispatcher) /\ DOMAIN msgs[q] = 1 .. Len(msgs[q])
      BY DEF QueueInv, QueueTypes
    <3>2. DOMAIN done = 1 .. Len(done)
      BY DEF QueueInv, QueueTypes
    <3>3. \A x \in Waiting(d) :
            /\ x[1] \in Worker /\ x[2] \in 1 .. Len(msgs[x[1]]) /\ msgs[x[1]][x[2]] = d
            /\ x = <<x[1], x[2]>>
      BY <3>1 DEF Waiting
    <3>4. \A x, y \in Waiting(d) : x = y
      <4> SUFFICES ASSUME NEW x \in Waiting(d), NEW y \in Waiting(d) PROVE x = y
        OBVIOUS
      <4>1. x[1] = y[1] /\ x[2] = y[2]
        BY <3>3 DEF OnceInv, WaitingOnce
      <4> QED
        BY <3>3, <4>1
    <3>5. \A x, y \in InHand(d) : x = y
      BY DEF InHand, OnceInv, InHandOnly
    <3>6. \A x, y \in Processed(d) : x = y
      BY <3>2 DEF Processed, OnceInv, DoneOnce
    <3>7. /\ Waiting(d) # {} => dpc[d] = "sent" /\ InHand(d) = {} /\ Processed(d) = {}
          /\ InHand(d) # {} => dpc[d] = "sent" /\ Processed(d) = {}
          /\ Processed(d) # {} => dpc[d] = "sent"
      <4>1. ASSUME NEW x \in Waiting(d) PROVE dpc[d] = "sent" /\ InHand(d) = {} /\ Processed(d) = {}
        BY <3>2, <3>3 DEF InHand, Processed, OnceInv, WaitingOnly
      <4>2. ASSUME NEW w \in InHand(d) PROVE dpc[d] = "sent" /\ Processed(d) = {}
        BY <3>2 DEF InHand, Processed, OnceInv, InHandOnly
      <4>3. ASSUME NEW i \in Processed(d) PROVE dpc[d] = "sent"
        BY <3>2 DEF Processed, OnceInv, DoneOnce
      <4> QED
        BY <4>1, <4>2, <4>3
    <3> DEFINE a == Cardinality(Waiting(d))
               b == Cardinality(InHand(d))
               c == Cardinality(Processed(d))
    <3>8. a = IF Waiting(d) = {} THEN 0 ELSE 1
      BY <3>4, AtMostOne
    <3>9. b = IF InHand(d) = {} THEN 0 ELSE 1
      BY <3>5, AtMostOne
    <3>10. c = IF Processed(d) = {} THEN 0 ELSE 1
      BY <3>6, AtMostOne
    <3> HIDE DEF a, b, c
    <3>11. a + b + c <= (IF dpc[d] = "sent" THEN 1 ELSE 0)
      BY <3>7, <3>8, <3>9, <3>10
    <3> QED
      BY <3>11 DEF a, b, c
  <2> QED
    BY <2>1, <2>2 DEF TaskOnce
<1> QED
  BY <1>1, QueueInvariant, OnceInvariant, PTL

----------------------------------------------------------------------------
(***************************************************************************)
(* A worker leaves its loop, and so comes to mq_unlink, only after a       *)
(* SIGINT of its own or a failed call.                                     *)
(***************************************************************************)
Ends ==
  /\ isRunning \in [Worker -> BOOLEAN]
  /\ \A w \in Worker : /\ isRunning[w] \/ caught[w] > 0
                       /\ wpc[w] \in {"close", "unlink", "exited"} => caught[w] > 0 \/ fails > 0

\* Some worker has unlinked the name.
Stopped == \E w \in Worker : wpc[w] = "exited"

\* Before that everybody that has a queue open has the linked one.
Linked ==
  ~Stopped => /\ \A w \in Worker : wpc[w] \in Opened => mqd[w] = name
              /\ \A d \in Dispatcher : dpc[d] = "send" => mqd[d] = name

\* An accepted task is in the linked queue (or, later, any), was taken by a
\* worker that has it in hand or was killed, or is processed.
Placed(d) ==
  \/ \E q \in Worker : (q = name \/ Stopped) /\ \E k \in 1 .. Len(msgs[q]) : msgs[q][k] = d
  \/ \E w \in Worker : wpc[w] \in {"process", "killed"} /\ buffer[w] = d
  \/ \E i \in 1 .. Len(done) : done[i] = d

KeptInv == Linked /\ \A d \in Dispatcher : dpc[d] = "sent" => Placed(d)

\* Ends holds in every state.
LEMMA EndsInvariant == Spec => []Ends
<1>1. Init => Ends
  BY DEF Init, Ends
<1>2. QueueInv /\ Ends /\ [Next]_vars => Ends'
  <2> SUFFICES ASSUME QueueInv, Ends, [Next]_vars PROVE Ends'
    OBVIOUS
  <2> USE DEF queues, signals, GotoW, GotoD
  <2>1. /\ wpc \in [Worker -> Running \cup {"off", "failed", "killed", "exited"}]
        /\ caught \in [Worker -> Nat] /\ fails \in Nat
    BY DEF QueueInv, QueueTypes
  <2>2. CASE UNCHANGED <<wpc, isRunning, caught, fails>>
    BY <2>2 DEF Ends
  <2>3. ASSUME NEW w \in Worker, NEW l, wpc' = [wpc EXCEPT ![w] = l],
               UNCHANGED <<isRunning, caught>>, fails' \in Nat, fails' >= fails,
               l \in {"close", "unlink", "exited"} => caught[w] > 0 \/ fails' > 0
        PROVE  Ends'
    BY <2>1, <2>3 DEF Ends
  <2>4. ASSUME NEW w \in Worker,
               StartWorker(w) \/ Sigaction(w) \/ WorkerOpen(w) \/ Attr(w) \/ Receive(w)
                 \/ Process(w) \/ Close(w) \/ Unlink(w)
        PROVE  Ends'
    <3>1. /\ UNCHANGED <<isRunning, caught, fails>>
          /\ \E l : /\ wpc' = [wpc EXCEPT ![w] = l]
                    /\ \/ l \notin {"close", "unlink", "exited"}
                       \/ wpc[w] \in {"close", "unlink"}
      BY <2>4 DEF StartWorker, Sigaction, WorkerOpen, Attr, Receive, Process, Close, Unlink
    <3>2. wpc[w] \in {"close", "unlink"} => caught[w] > 0 \/ fails > 0
      BY DEF Ends
    <3>3. PICK l : /\ wpc' = [wpc EXCEPT ![w] = l]
                   /\ \/ l \notin {"close", "unlink", "exited"}
                      \/ wpc[w] \in {"close", "unlink"}
      BY <3>1
    <3>4. fails' \in Nat /\ fails' >= fails /\ UNCHANGED <<isRunning, caught>>
      BY <2>1, <3>1
    <3>5. l \in {"close", "unlink", "exited"} => caught[w] > 0 \/ fails' > 0
      BY <3>1, <3>2, <3>3
    <3> QED
      BY <2>3, <3>3, <3>4, <3>5
  <2>5. ASSUME NEW w \in Worker, Loop(w) PROVE Ends'
    <3>1. /\ UNCHANGED <<isRunning, caught, fails>>
          /\ \/ wpc' = [wpc EXCEPT ![w] = "receive"]
             \/ wpc' = [wpc EXCEPT ![w] = "close"] /\ ~isRunning[w]
      BY <2>5 DEF Loop
    <3>2. isRunning[w] \/ caught[w] > 0
      BY DEF Ends
    <3> QED
      BY <2>1, <2>3, <3>1, <3>2
  <2>6. ASSUME NEW w \in Worker, Fail(w) PROVE Ends'
    <3>1. /\ UNCHANGED <<isRunning, caught>> /\ fails' = fails + 1
          /\ \E l : wpc' = [wpc EXCEPT ![w] = l]
      BY <2>6 DEF Fail
    <3>2. fails' \in Nat /\ fails' >= fails /\ fails' > 0
      BY <2>1, <3>1
    <3> QED
      BY <2>3, <3>1, <3>2
  <2>7. ASSUME NEW w \in Worker, Sigint(w) PROVE Ends'
    <3>1. /\ UNCHANGED fails /\ caught' = [caught EXCEPT ![w] = @ + 1]
          /\ isRunning' = isRunning \/ isRunning' = [isRunning EXCEPT ![w] = FALSE]
          /\ wpc' = wpc \/ wpc' = [wpc EXCEPT ![w] = "killed"]
      BY <2>7 DEF Sigint
    <3>2. caught'[w] > 0 /\ \A v \in Worker : v # w => caught'[v] = caught[v]
      BY <2>1, <3>1
    <3>3. /\ isRunning' \in [Worker -> BOOLEAN]
          /\ \A v \in Worker : v # w => isRunning'[v] = isRunning[v]
      BY <3>1 DEF Ends
    <3>4. \A v \in Worker : v # w => wpc'[v] = wpc[v]
      BY <2>1, <3>1
    <3> QED
      BY <3>1, <3>2, <3>3, <3>4 DEF Ends
  <2>8. ASSUME NEW d \in Dispatcher, Dispatch(d) \/ DispatcherStep(d)
        PROVE  UNCHANGED <<wpc, isRunning, caught, fails>>
    BY <2>8 DEF Dispatch, DispatcherStep, SendInvalid, Send
  <2>9. UNCHANGED vars => UNCHANGED <<wpc, isRunning, caught, fails>>
    BY DEF vars
  <2> QED
    BY <2>2, <2>4, <2>5, <2>6, <2>7, <2>8, <2>9 DEF Next, WorkerStep
<1> QED
  BY <1>1, <1>2, QueueInvariant, PTL DEF Spec

\* A worker's step that leaves the queues alone, and no task out of hand.
LEMMA KeptQuietStep ==
  ASSUME QueueInv, KeptInv, UNCHANGED <<name, msgs, mqd, buffer, done, dpc>>,
         NEW w \in Worker, NEW l, wpc' = [wpc EXCEPT ![w] = l],
         l \in Opened => wpc[w] \in Opened,
         wpc[w] \notin {"killed", "exited"}, wpc[w] = "process" => l = "killed"
  PROVE  KeptInv'
<1>1. wpc'[w] = l /\ \A v \in Worker : v # w => wpc'[v] = wpc[v]
  BY DEF QueueInv, QueueTypes
<1>2. Stopped => Stopped'
  BY <1>1 DEF Stopped
<1>3. Linked'
  BY <1>1, <1>2 DEF KeptInv, Linked
<1>4. \A v \in Worker : wpc[v] \in {"process", "killed"} => wpc'[v] \in {"process", "killed"}
  BY <1>1
<1>5. ASSUME NEW d \in Dispatcher, Placed(d) PROVE Placed(d)'
  BY <1>2, <1>4, <1>5 DEF Placed
<1> QED
  BY <1>3, <1>5 DEF KeptInv

\* Every step of a worker, SIGINT and failures included, keeps KeptInv.
LEMMA KeptWorkerStep ==
  ASSUME QueueInv, KeptInv, NEW w \in Worker,
         StartWorker(w) \/ WorkerStep(w) \/ Fail(w) \/ Sigint(w)
  PROVE  KeptInv'
<1> USE DEF queues, signals, GotoW
<1>1. CASE StartWorker(w) \/ Sigaction(w) \/ Attr(w) \/ Loop(w) \/ Close(w)
  <2>1. /\ UNCHANGED <<name, msgs, mqd, buffer, done, dpc>>
        /\ \/ wpc' = [wpc EXCEPT ![w] = "sigaction"] /\ wpc[w] = "off"
           \/ wpc' = [wpc EXCEPT ![w] = "open"] /\ wpc[w] = "sigaction"
           \/ wpc' = [wpc EXCEPT ![w] = "loop"] /\ wpc[w] = "attr"
           \/ wpc' = [wpc EXCEPT ![w] = "receive"] /\ wpc[w] = "loop"
           \/ wpc' = [wpc EXCEPT ![w] = "close"] /\ wpc[w] = "loop"
           \/ wpc' = [wpc EXCEPT ![w] = "unlink"] /\ wpc[w] = "close"
    BY <1>1 DEF StartWorker, Sigaction, Attr, Loop, Close
  <2> QED
    BY <2>1, KeptQuietStep DEF Opened
<1>2. CASE Fail(w)
  <2>1. /\ UNCHANGED <<name, msgs, mqd, buffer, done, dpc>>
        /\ \/ wpc' = [wpc EXCEPT ![w] = "close"] /\ wpc[w] = "receive"
           \/ wpc' = [wpc EXCEPT ![w] = "failed"] /\ wpc[w] \in {"sigaction", "open", "attr"}
    BY <1>2 DEF Fail
  <2> QED
    BY <2>1, KeptQuietStep DEF Opened
<1>3. CASE Sigint(w)
  <2>1. /\ UNCHANGED <<name, msgs, mqd, buffer, done, dpc>> /\ wpc[w] \in Running
        /\ UNCHANGED wpc \/ wpc' = [wpc EXCEPT ![w] = "killed"]
    BY <1>3 DEF Sigint
  <2>2. CASE UNCHANGED wpc
    BY <2>1, <2>2 DEF KeptInv, Linked, Placed, Stopped
  <2> QED
    BY <2>1, <2>2, KeptQuietStep DEF Opened, Running
<1>4. CASE WorkerOpen(w)
  <2>1. /\ wpc[w] = "open" /\ name' = IF name = None THEN w ELSE name
        /\ mqd' = [mqd EXCEPT ![w] = name'] /\ wpc' = [wpc EXCEPT ![w] = "attr"]
        /\ UNCHANGED <<msgs, buffer, done, dpc>>
    BY <1>4 DEF WorkerOpen
  <2>2. None \notin Worker /\ name \in Worker \cup {None} /\ Worker \cap Dispatcher = {}
    BY QueueAssumption DEF QueueInv, QueueTypes
  <2>3. /\ mqd'[w] = name' /\ wpc'[w] = "attr"
        /\ \A v \in Worker : v # w => mqd'[v] = mqd[v] /\ wpc'[v] = wpc[v]
        /\ \A d \in Dispatcher : mqd'[d] = mqd[d]
    BY <2>1, <2>2 DEF QueueInv, QueueTypes
  <2>4. Stopped <=> Stopped'
    BY <2>1, <2>3 DEF Stopped
  <2>5. ~Stopped =>
          /\ \A v \in Worker : wpc[v] \in Opened => mqd[v] = name /\ name' = name
          /\ \A d \in Dispatcher : dpc[d] = "send" => mqd[d] = name /\ name' = name
    BY <2>1, <2>2 DEF KeptInv, Linked, QueueInv, QueueOpen
  <2>6. Linked'
    BY <2>1, <2>3, <2>4, <2>5 DEF Linked
  <2>7. ASSUME NEW d \in Dispatcher, Placed(d) PROVE Placed(d)'
    <3>1. name \in Worker => name' = name
      BY <2>1, <2>2
    <3>2. \A v \in Worker : wpc[v] \in {"process", "killed"} => wpc'[v] = wpc[v]
      BY <2>1, <2>3
    <3> QED
      BY <2>1, <2>4, <2>7, <3>1, <3>2 DEF Placed
  <2> QED
    BY <2>1, <2>6, <2>7 DEF KeptInv
<1>5. CASE Receive(w)
  <2> DEFINE q == mqd[w]
  <2>1. wpc[w] = "receive" /\ UNCHANGED <<name, mqd, done, dpc>>
    BY <1>5 DEF Receive
  <2>2. q \in Worker /\ msgs[q] \in Seq(Dispatcher)
    BY <2>1 DEF Opened, QueueInv, QueueTypes, QueueOpen
  <2>3. CASE msgs[q] = <<>>
    <3>1. UNCHANGED <<msgs, buffer>> /\ wpc' = [wpc EXCEPT ![w] = "loop"]
      BY <1>5, <2>3 DEF Receive
    <3> QED
      BY <2>1, <3>1, KeptQuietStep DEF Opened
  <2>4. CASE msgs[q] # <<>>
    <3>1. /\ buffer' = [buffer EXCEPT ![w] = Head(msgs[q])]
          /\ msgs' = [msgs EXCEPT ![q] = Tail(@)]
          /\ wpc' = [wpc EXCEPT ![w] = "process"]
      BY <1>5, <2>4 DEF Receive
    <3>2. /\ Head(msgs[q]) = msgs[q][1] /\ Len(Tail(msgs[q])) = Len(msgs[q]) - 1
          /\ \A n \in 1 .. Len(msgs[q]) - 1 : Tail(msgs[q])[n] = msgs[q][n + 1]
      BY <2>2, <2>4, TailProperties
    <3>3. /\ wpc'[w] = "process" /\ buffer'[w] = msgs[q][1] /\ msgs'[q] = Tail(msgs[q])
          /\ \A v \in Worker : v # w => wpc'[v] = wpc[v] /\ buffer'[v] = buffer[v]
          /\ \A r \in Worker : r # q => msgs'[r] = msgs[r]
      BY <2>2, <3>1, <3>2 DEF QueueInv, QueueTypes
    <3>4. Stopped <=> Stopped'
      BY <2>1, <3>3 DEF Stopped
    <3>5. Linked'
      BY <2>1, <3>3, <3>4 DEF KeptInv, Linked, Opened
    <3>6. ASSUME NEW d \in Dispatcher, Placed(d) PROVE Placed(d)'
      <4>1. ASSUME NEW r \in Worker, r = name \/ Stopped,
                   NEW k \in 1 .. Len(msgs[r]), msgs[r][k] = d
            PROVE  Placed(d)'
        <5>1. CASE r = q /\ k = 1
          BY <3>3, <4>1, <5>1 DEF Placed
        <5>2. CASE r = q /\ k # 1
          <6>1. Len(msgs[q]) \in Nat
            BY <2>2
          <6>2. k - 1 \in 1 .. Len(msgs[q]) - 1 /\ (k - 1) + 1 = k
            BY <4>1, <5>2, <6>1
          <6>3. k - 1 \in 1 .. Len(msgs'[q]) /\ msgs'[q][k - 1] = d
            BY <3>2, <3>3, <4>1, <5>2, <6>2
          <6> QED
            BY <2>1, <2>2, <3>4, <4>1, <5>2, <6>3 DEF Placed
        <5>3. CASE r # q
          BY <2>1, <3>3, <3>4, <4>1, <5>3 DEF Placed
        <5> QED
          BY <5>1, <5>2, <5>3
      <4>2. CASE \E v \in Worker : wpc[v] \in {"process", "killed"} /\ buffer[v] = d
        BY <2>1, <3>3, <4>2 DEF Placed
      <4>3. CASE \E i \in 1 .. Len(done) : done[i] = d
        BY <2>1, <4>3 DEF Placed
      <4> QED
        BY <3>6, <4>1, <4>2, <4>3 DEF Placed
    <3> QED
      BY <2>1, <3>5, <3>6 DEF KeptInv
  <2> QED
    BY <2>3, <2>4
<1>6. CASE Process(w)
  <2>1. /\ wpc[w] = "process" /\ done' = Append(done, buffer[w])
        /\ wpc' = [wpc EXCEPT ![w] = "loop"]
        /\ UNCHANGED <<name, msgs, mqd, buffer, dpc>>
    BY <1>6 DEF Process
  <2>2. buffer[w] \in Dispatcher /\ done \in Seq(Dispatcher)
    BY <2>1 DEF QueueInv, QueueTypes, QueueOpen
  <2>3. /\ Len(done) + 1 \in 1 .. Len(done') /\ done'[Len(done) + 1] = buffer[w]
        /\ \A i \in 1 .. Len(done) : i \in 1 .. Len(done') /\ done'[i] = done[i]
    BY <2>1, <2>2
  <2>4. wpc'[w] = "loop" /\ \A v \in Worker : v # w => wpc'[v] = wpc[v]
    BY <2>1 DEF QueueInv, QueueTypes
  <2>5. Stopped <=> Stopped'
    BY <2>1, <2>4 DEF Stopped
  <2>6. Linked'
    BY <2>1, <2>4, <2>5 DEF KeptInv, Linked, Opened
  <2>7. ASSUME NEW d \in Dispatcher, Placed(d) PROVE Placed(d)'
    <3>1. CASE buffer[w] = d
      BY <2>3, <3>1 DEF Placed
    <3>2. CASE buffer[w] # d
      BY <2>1, <2>3, <2>4, <2>5, <2>7, <3>2 DEF Placed
    <3> QED
      BY <3>1, <3>2
  <2> QED
    BY <2>1, <2>6, <2>7 DEF KeptInv
<1>7. CASE Unlink(w)
  <2>1. /\ wpc[w] = "unlink" /\ wpc' = [wpc EXCEPT ![w] = "exited"]
        /\ UNCHANGED <<msgs, buffer, done, dpc>>
    BY <1>7 DEF Unlink
  <2>2. wpc'[w] = "exited" /\ \A v \in Worker : v # w => wpc'[v] = wpc[v]
    BY <2>1 DEF QueueInv, QueueTypes
  <2>3. Stopped'
    BY <2>2 DEF Stopped
  <2>4. ASSUME NEW d \in Dispatcher, Placed(d) PROVE Placed(d)'
    BY <2>1, <2>2, <2>3, <2>4 DEF Placed
  <2> QED
    BY <2>1, <2>3, <2>4 DEF KeptInv, Linked
<1> QED
  BY <1>1, <1>2, <1>3, <1>4, <1>5, <1>6, <1>7 DEF WorkerStep

\* A dispatcher's step puts its task in the queue it has open and keeps the others.
LEMMA KeptDispatcherStep ==
  ASSUME QueueInv, KeptInv, NEW d \in Dispatcher, Dispatch(d) \/ DispatcherStep(d)
  PROVE  KeptInv'
<1> USE DEF queues, signals, GotoD
<1>1. UNCHANGED <<name, wpc, buffer, done>>
  BY DEF Dispatch, DispatcherStep, SendInvalid, Send
<1>2. Stopped <=> Stopped'
  BY <1>1 DEF Stopped
<1>3. CASE Dispatch(d) \/ SendInvalid(d)
  <2>1. /\ UNCHANGED msgs
        /\ \/ dpc' = [dpc EXCEPT ![d] = "refused"] /\ UNCHANGED mqd
           \/ dpc' = [dpc EXCEPT ![d] = "send"] /\ mqd' = [mqd EXCEPT ![d] = name]
    BY <1>3 DEF Dispatch, SendInvalid
  <2>2. /\ \A w \in Worker : mqd'[w] = mqd[w]
        /\ \A e \in Dispatcher : e # d => mqd'[e] = mqd[e] /\ dpc'[e] = dpc[e]
        /\ dpc'[d] # "sent" /\ (dpc'[d] = "send" => mqd'[d] = name)
    <3>1. d \notin Worker /\ d \in Worker \cup Dispatcher
      BY QueueAssumption
    <3> QED
      BY <2>1, <3>1 DEF QueueInv, QueueTypes
  <2>3. Linked'
    BY <1>1, <1>2, <2>2 DEF KeptInv, Linked
  <2>4. \A e \in Dispatcher : Placed(e) => Placed(e)'
    BY <1>1, <1>2, <2>1 DEF Placed
  <2> QED
    BY <2>2, <2>3, <2>4 DEF KeptInv
<1>4. CASE Send(d)
  <2> DEFINE q == mqd[d]
             s == msgs[q]
  <2>1. /\ dpc[d] = "send" /\ dpc' = [dpc EXCEPT ![d] = "sent"] /\ UNCHANGED mqd
        /\ msgs' = [msgs EXCEPT ![q] = Insert(@, d)]
    BY <1>4 DEF Send
  <2>2. q \in Worker /\ s \in Seq(Dispatcher) /\ (q = name \/ Stopped)
    BY <2>1 DEF KeptInv, Linked, QueueInv, QueueTypes, QueueOpen
  <2>3. msgs'[q] = Insert(s, d) /\ \A r \in Worker : r # q => msgs'[r] = msgs[r]
    BY <2>1, <2>2 DEF QueueInv, QueueTypes
  <2> HIDE DEF q, s
  <2>4. PICK p \in 1 .. Len(s) + 1 :
          \A n \in 1 .. Len(s) + 1 :
            Insert(s, d)[n] = IF n < p THEN s[n] ELSE IF n = p THEN d ELSE s[n - 1]
    BY <2>2, InsertProperties
  <2>5. Len(Insert(s, d)) = Len(s) + 1 /\ Len(s) \in Nat
    <3>1. Len(Insert(s, d)) = Len(s) + 1
      BY <2>2, InsertProperties
    <3> QED
      BY <2>2, <3>1
  <2>6. p \in 1 .. Len(msgs'[q]) /\ msgs'[q][p] = d
    BY <2>3, <2>4, <2>5
  <2>7. ASSUME NEW k \in 1 .. Len(s)
        PROVE  \E n \in 1 .. Len(msgs'[q]) : msgs'[q][n] = s[k]
    <3>1. CASE k < p
      <4>1. k \in 1 .. Len(msgs'[q]) /\ msgs'[q][k] = s[k]
        BY <2>3, <2>4, <2>5, <3>1
      <4> QED
        BY <4>1
    <3>2. CASE k >= p
      <4>1. k + 1 \in 1 .. Len(s) + 1 /\ ~(k + 1 < p) /\ k + 1 # p /\ (k + 1) - 1 = k
        BY <2>5, <3>2
      <4>2. k + 1 \in 1 .. Len(msgs'[q]) /\ msgs'[q][k + 1] = s[k]
        BY <2>3, <2>4, <2>5, <4>1
      <4> QED
        BY <4>2
    <3>3. k < p \/ k >= p
      BY <2>5
    <3> QED
      BY <3>1, <3>2, <3>3
  <2>8. dpc'[d] = "sent" /\ \A e \in Dispatcher : e # d => dpc'[e] = dpc[e]
    BY <2>1 DEF QueueInv, QueueTypes
  <2>9. Linked'
    BY <1>1, <1>2, <2>1, <2>8 DEF KeptInv, Linked
  <2>10. Placed(d)'
    BY <1>1, <1>2, <2>2, <2>6 DEF Placed
  <2>11. ASSUME NEW e \in Dispatcher, Placed(e) PROVE Placed(e)'
    <3>1. \A r \in Worker : \A k \in 1 .. Len(msgs[r]) :
            \E n \in 1 .. Len(msgs'[r]) : msgs'[r][n] = msgs[r][k]
      BY <2>3, <2>7 DEF s
    <3> QED
      BY <1>1, <1>2, <2>11, <3>1 DEF Placed
  <2> QED
    BY <2>8, <2>9, <2>10, <2>11 DEF KeptInv
<1> QED
  BY <1>3, <1>4 DEF DispatcherStep

(***************************************************************************)
(* 7-Queue: an accepted task is lost only in a queue whose name a worker   *)
(* that was interrupted, or had a call fail, took away, or in the hands of *)
(* a worker that a second SIGINT killed.                                   *)
(***************************************************************************)
THEOREM AcceptedTasksKept == Spec => []LostOnlyByUnlinkOrKill
<1>1. Init => KeptInv
  BY DEF Init, KeptInv, Linked, Opened
<1>2. QueueInv /\ KeptInv /\ [Next]_vars => KeptInv'
  <2>1. KeptInv /\ UNCHANGED vars => KeptInv'
    BY DEF vars, queues, signals, KeptInv, Linked, Placed, Stopped
  <2> QED
    BY <2>1, KeptWorkerStep, KeptDispatcherStep DEF Next
<1>3. QueueInv /\ Ends /\ KeptInv => LostOnlyByUnlinkOrKill
  <2> SUFFICES ASSUME QueueInv, Ends, KeptInv, NEW d \in Dispatcher, dpc[d] = "sent"
               PROVE  \/ \E x \in Waiting(d) : x[1] = name
                      \/ InHand(d) # {} \/ Processed(d) # {}
                      \/ \E w \in Worker : wpc[w] = "killed" /\ buffer[w] = d
                      \/ /\ Waiting(d) # {}
                         /\ \E w \in Worker : wpc[w] = "exited" /\ (caught[w] > 0 \/ fails > 0)
    BY DEF LostOnlyByUnlinkOrKill
  <2>1. Placed(d)
    BY DEF KeptInv
  <2>2. ASSUME NEW q \in Worker, q = name \/ Stopped,
               NEW k \in 1 .. Len(msgs[q]), msgs[q][k] = d
        PROVE  \/ \E x \in Waiting(d) : x[1] = name
               \/ /\ Waiting(d) # {}
                  /\ \E w \in Worker : wpc[w] = "exited" /\ (caught[w] > 0 \/ fails > 0)
    <3>1. msgs[q] \in Seq(Dispatcher) /\ Len(msgs[q]) <= mq_maxmsg /\ mq_maxmsg \in Nat
      BY QueueAssumption DEF QueueInv, QueueTypes, QueueOpen
    <3>2. k \in DOMAIN msgs[q] /\ k \in 1 .. mq_maxmsg
      BY <3>1
    <3>3. <<q, k>> \in Waiting(d)
      BY <2>2, <3>2 DEF Waiting
    <3>4. Stopped => \E w \in Worker : wpc[w] = "exited" /\ (caught[w] > 0 \/ fails > 0)
      BY DEF Stopped, Ends
    <3> QED
      BY <2>2, <3>3, <3>4
  <2>3. CASE \E w \in Worker : wpc[w] \in {"process", "killed"} /\ buffer[w] = d
    BY <2>3 DEF InHand
  <2>4. CASE \E i \in 1 .. Len(done) : done[i] = d
    <3>1. DOMAIN done = 1 .. Len(done)
      BY DEF QueueInv, QueueTypes
    <3> QED
      BY <2>4, <3>1 DEF Processed
  <2> QED
    BY <2>1, <2>2, <2>3, <2>4 DEF Placed
<1> QED
  BY <1>1, <1>2, <1>3, QueueInvariant, EndsInvariant, PTL DEF Spec
==============================================================================
