------------------------------ MODULE TaskQueue ------------------------------
(***************************************************************************)
(* 7-Queue: dispatchers (dispatcher.c) send one task each to the POSIX     *)
(* message queue QUEUE_NAME, workers (worker.c) receive and process them.  *)
(* Each member of Worker and of Dispatcher is one run of its program, so a *)
(* worker that is started again is another member.                         *)
(*                                                                         *)
(* The queue is a kernel object apart from its name: mq_unlink takes the   *)
(* name away, while every process that has the queue open goes on using    *)
(* it.  A queue is identified by the worker whose mq_open created it.      *)
(***************************************************************************)
EXTENDS Naturals, FiniteSets, SequencesExt

CONSTANTS
  Worker, Dispatcher,
  Prio,         \* Prio[d]: argv[1] after str_to_int, as uint32_t prio
  INT32_MAX,    \* what str_to_int returns for a string that is no number
  MQ_PRIO_MAX,  \* the kernel's bound on priorities
  mq_maxmsg,    \* messages a queue holds
  None,         \* no queue, no task
  MaxFail       \* bound: failing system calls in the workers

ASSUME QueueAssumption ==
  /\ Worker \cap Dispatcher = {}
  /\ None \notin Worker \cup Dispatcher
  /\ INT32_MAX \in Nat /\ MQ_PRIO_MAX \in Nat /\ MQ_PRIO_MAX <= INT32_MAX
  /\ Prio \in [Dispatcher -> Nat]
  /\ mq_maxmsg \in Nat \ {0}
  /\ MaxFail \in Nat

VARIABLES
  name,       \* the queue linked under QUEUE_NAME, or None
  msgs,       \* msgs[q]: the tasks in queue q, in the order of delivery
  wpc,        \* wpc[w]: what worker w does next, or how it ended
  mqd,        \* mqd[p]: the queue process p opened
  isRunning,  \* isRunning[w]: is_running
  sigint,     \* sigint[w]: "default", "handler" or "restored"
  caught,     \* caught[w]: the SIGINTs w was sent
  buffer,     \* buffer[w]: the task last received
  done,       \* the tasks processed ("Processing task ..."), in order
  dpc,        \* dpc[d]: what dispatcher d does next, or how it ended
  fails       \* failed system calls so far

queues == <<name, msgs>>
signals == <<isRunning, sigint, caught>>
vars == <<queues, wpc, mqd, signals, buffer, done, dpc, fails>>

Init ==
  /\ name = None
  /\ msgs = [q \in Worker |-> <<>>]
  /\ wpc = [w \in Worker |-> "off"]
  /\ mqd = [p \in Worker \cup Dispatcher |-> None]
  /\ isRunning = [w \in Worker |-> TRUE]
  /\ sigint = [w \in Worker |-> "default"]
  /\ caught = [w \in Worker |-> 0]
  /\ buffer = [w \in Worker |-> None]
  /\ done = <<>>
  /\ dpc = [d \in Dispatcher |-> "off"]
  /\ fails = 0

GotoW(w, label) == wpc' = [wpc EXCEPT ![w] = label]
GotoD(d, label) == dpc' = [dpc EXCEPT ![d] = label]

Running == {"sigaction", "open", "attr", "loop", "receive", "process", "close", "unlink"}

----------------------------------------------------------------------------
\* The worker: main from its first line to mq_open.
StartWorker(w) ==
  /\ wpc[w] = "off"
  /\ GotoW(w, "sigaction")
  /\ UNCHANGED <<queues, mqd, signals, buffer, done, dpc, fails>>

Sigaction(w) ==
  /\ wpc[w] = "sigaction"
  /\ sigint' = [sigint EXCEPT ![w] = "handler"]
  /\ GotoW(w, "open")
  /\ UNCHANGED <<queues, mqd, isRunning, caught, buffer, done, dpc, fails>>

\* Mutant of WorkerOpen: the worker starts by unlinking an old queue.
WorkerOpenAfresh(w) ==
  /\ wpc[w] = "open"
  /\ name' = w
  /\ mqd' = [mqd EXCEPT ![w] = w]
  /\ GotoW(w, "attr")
  /\ UNCHANGED <<msgs, signals, buffer, done, dpc, fails>>

\* mq_open with O_CREAT and without O_EXCL: the linked queue, or a new one.
WorkerOpen(w) ==
  /\ wpc[w] = "open"
  /\ name' = IF name = None THEN w ELSE name
  /\ mqd' = [mqd EXCEPT ![w] = name']
  /\ GotoW(w, "attr")
  /\ UNCHANGED <<msgs, signals, buffer, done, dpc, fails>>

\* mq_getattr and malloc succeed.
Attr(w) ==
  /\ wpc[w] = "attr"
  /\ GotoW(w, "loop")
  /\ UNCHANGED <<queues, mqd, signals, buffer, done, dpc, fails>>

(***************************************************************************)
(* A system call fails: before the loop the worker terminates, closing but *)
(* not unlinking the queue; mq_receive (other than EAGAIN and EINTR)       *)
(* breaks out of the loop.                                                 *)
(***************************************************************************)
Fail(w) ==
  /\ wpc[w] \in {"sigaction", "open", "attr", "receive"}
  /\ fails < MaxFail
  /\ fails' = fails + 1
  /\ GotoW(w, IF wpc[w] = "receive" THEN "close" ELSE "failed")
  /\ UNCHANGED <<queues, mqd, signals, buffer, done, dpc>>

----------------------------------------------------------------------------
\* The worker's loop, entered only while is_running.
Loop(w) ==
  /\ wpc[w] = "loop"
  /\ GotoW(w, IF isRunning[w] THEN "receive" ELSE "close")
  /\ UNCHANGED <<queues, mqd, signals, buffer, done, dpc, fails>>

\* Mutant of Receive: EAGAIN is not told from success.
ReceiveIgnoresEagain(w) ==
  /\ wpc[w] = "receive"
  /\ IF msgs[mqd[w]] = <<>>
       THEN GotoW(w, "process") /\ UNCHANGED <<msgs, buffer>>
       ELSE /\ buffer' = [buffer EXCEPT ![w] = Head(msgs[mqd[w]])]
            /\ msgs' = [msgs EXCEPT ![mqd[w]] = Tail(@)]
            /\ GotoW(w, "process")
  /\ UNCHANGED <<name, mqd, signals, done, dpc, fails>>

\* Mutant of Receive: EAGAIN breaks out of the loop like other errors.
ReceiveBreaksOnEagain(w) ==
  /\ wpc[w] = "receive"
  /\ IF msgs[mqd[w]] = <<>>
       THEN GotoW(w, "close") /\ UNCHANGED <<msgs, buffer>>
       ELSE /\ buffer' = [buffer EXCEPT ![w] = Head(msgs[mqd[w]])]
            /\ msgs' = [msgs EXCEPT ![mqd[w]] = Tail(@)]
            /\ GotoW(w, "process")
  /\ UNCHANGED <<name, mqd, signals, done, dpc, fails>>

\* mq_receive with O_NONBLOCK: the first task, or EAGAIN, usleep and again.
Receive(w) ==
  /\ wpc[w] = "receive"
  /\ IF msgs[mqd[w]] = <<>>
       THEN GotoW(w, "loop") /\ UNCHANGED <<msgs, buffer>>
       ELSE /\ buffer' = [buffer EXCEPT ![w] = Head(msgs[mqd[w]])]
            /\ msgs' = [msgs EXCEPT ![mqd[w]] = Tail(@)]
            /\ GotoW(w, "process")
  /\ UNCHANGED <<name, mqd, signals, done, dpc, fails>>

Process(w) ==
  /\ wpc[w] = "process"
  /\ done' = Append(done, buffer[w])
  /\ GotoW(w, "loop")
  /\ UNCHANGED <<queues, mqd, signals, buffer, dpc, fails>>

\* free and mq_close.
Close(w) ==
  /\ wpc[w] = "close"
  /\ GotoW(w, "unlink")
  /\ UNCHANGED <<queues, mqd, signals, buffer, done, dpc, fails>>

\* Mutant of Unlink: the worker only closes the queue.
UnlinkForgotten(w) ==
  /\ wpc[w] = "unlink"
  /\ GotoW(w, "exited")
  /\ UNCHANGED <<queues, mqd, signals, buffer, done, dpc, fails>>

\* mq_unlink(QUEUE_NAME) takes the name from whichever queue has it now.
Unlink(w) ==
  /\ wpc[w] = "unlink"
  /\ name' = None
  /\ GotoW(w, "exited")
  /\ UNCHANGED <<msgs, mqd, signals, buffer, done, dpc, fails>>

\* Mutant of Sigint: the handler forgets to clear is_running.
SigintKeepsRunning(w) ==
  /\ wpc[w] \in Running /\ caught[w] < 2
  /\ caught' = [caught EXCEPT ![w] = @ + 1]
  /\ IF sigint[w] = "handler"
       THEN sigint' = [sigint EXCEPT ![w] = "restored"] /\ UNCHANGED wpc
       ELSE GotoW(w, "killed") /\ UNCHANGED sigint
  /\ UNCHANGED <<queues, mqd, isRunning, buffer, done, dpc, fails>>

(***************************************************************************)
(* SIGINT at any moment (at most two per worker, a third finds nobody).    *)
(* sigint_handler clears is_running and restores the default action at     *)
(* once, so the second SIGINT kills the worker where it is, as does one    *)
(* that comes before sigaction.                                            *)
(***************************************************************************)
Sigint(w) ==
  /\ wpc[w] \in Running /\ caught[w] < 2
  /\ caught' = [caught EXCEPT ![w] = @ + 1]
  /\ IF sigint[w] = "handler"
       THEN /\ isRunning' = [isRunning EXCEPT ![w] = FALSE]
            /\ sigint' = [sigint EXCEPT ![w] = "restored"]
            /\ UNCHANGED wpc
       ELSE GotoW(w, "killed") /\ UNCHANGED <<isRunning, sigint>>
  /\ UNCHANGED <<queues, mqd, buffer, done, dpc, fails>>

----------------------------------------------------------------------------
\* The dispatcher: a priority that is no number is refused, and mq_open without
\* O_CREAT fails when no queue is linked.
Dispatch(d) ==
  /\ dpc[d] = "off"
  /\ IF Prio[d] = INT32_MAX \/ name = None
       THEN GotoD(d, "refused") /\ UNCHANGED mqd
       ELSE GotoD(d, "send") /\ mqd' = [mqd EXCEPT ![d] = name]
  /\ UNCHANGED <<queues, wpc, signals, buffer, done, fails>>

\* The kernel's queue order: by priority, the older first.
Insert(s, d) == InsertAt(s, 1 + Cardinality({i \in DOMAIN s : Prio[s[i]] >= Prio[d]}), d)

(***************************************************************************)
(* mq_send: EINVAL for a priority the kernel does not know (a negative     *)
(* argument has become a large uint32_t); otherwise it blocks while the    *)
(* queue is full, linked or not.  Then mq_close.                           *)
(***************************************************************************)
SendInvalid(d) ==
  /\ dpc[d] = "send" /\ Prio[d] >= MQ_PRIO_MAX
  /\ GotoD(d, "refused")
  /\ UNCHANGED <<queues, wpc, mqd, signals, buffer, done, fails>>

\* Mutant of Send: a full queue drops the task (no blocking, no error).
SendDropsWhenFull(d) ==
  /\ dpc[d] = "send" /\ Prio[d] < MQ_PRIO_MAX
  /\ msgs' = IF Len(msgs[mqd[d]]) < mq_maxmsg
               THEN [msgs EXCEPT ![mqd[d]] = Insert(@, d)] ELSE msgs
  /\ GotoD(d, "sent")
  /\ UNCHANGED <<name, wpc, mqd, signals, buffer, done, fails>>

Send(d) ==
  /\ dpc[d] = "send" /\ Prio[d] < MQ_PRIO_MAX
  /\ Len(msgs[mqd[d]]) < mq_maxmsg
  /\ msgs' = [msgs EXCEPT ![mqd[d]] = Insert(@, d)]
  /\ GotoD(d, "sent")
  /\ UNCHANGED <<name, wpc, mqd, signals, buffer, done, fails>>

WorkerStep(w) ==
  \/ Sigaction(w) \/ WorkerOpen(w) \/ Attr(w) \/ Loop(w) \/ Receive(w)
  \/ Process(w) \/ Close(w) \/ Unlink(w)

DispatcherStep(d) == SendInvalid(d) \/ Send(d)

Next ==
  \/ \E w \in Worker : StartWorker(w) \/ WorkerStep(w) \/ Fail(w) \/ Sigint(w)
  \/ \E d \in Dispatcher : Dispatch(d) \/ DispatcherStep(d)

(***************************************************************************)
(* A process that was started is scheduled, so its steps are weakly fair;  *)
(* mq_send is one of them, the kernel wakes a blocked sender when there is *)
(* room.  Nobody is obliged to start a program, to press Ctrl-C, or to let *)
(* a call fail.                                                            *)
(***************************************************************************)
Spec == Init /\ [][Next]_vars

FairSpec ==
  /\ Spec
  /\ \A w \in Worker : WF_vars(WorkerStep(w))
  /\ \A d \in Dispatcher : WF_vars(DispatcherStep(d))

----------------------------------------------------------------------------
\* The values the variables range over; no queue exceeds its capacity.
TypeOK ==
  /\ name \in Worker \cup {None}
  /\ msgs \in [Worker -> BoundedSeq(Dispatcher, mq_maxmsg)]
  /\ wpc \in [Worker -> Running \cup {"off", "failed", "killed", "exited"}]
  /\ mqd \in [Worker \cup Dispatcher -> Worker \cup {None}]
  /\ isRunning \in [Worker -> BOOLEAN]
  /\ sigint \in [Worker -> {"default", "handler", "restored"}]
  /\ caught \in [Worker -> 0 .. 2]
  /\ buffer \in [Worker -> Dispatcher \cup {None}]
  /\ done \in Seq(Dispatcher \cup {None})
  /\ dpc \in [Dispatcher -> {"off", "send", "sent", "refused"}]
  /\ fails \in 0 .. MaxFail

\* Where a task is: waiting in a queue, in a worker's hands, or processed.
Waiting(d) == {x \in Worker \X (1 .. mq_maxmsg) :
                 x[2] \in DOMAIN msgs[x[1]] /\ msgs[x[1]][x[2]] = d}
InHand(d) == {w \in Worker : wpc[w] = "process" /\ buffer[w] = d}
Processed(d) == {i \in DOMAIN done : done[i] = d}

(***************************************************************************)
(* A task that mq_send accepted is never in two places and never processed *)
(* twice, and a task that was not accepted is nowhere: also with several   *)
(* workers on one queue, a buffer that still holds the last task when      *)
(* mq_receive returns EAGAIN, and workers interrupted anywhere.            *)
(***************************************************************************)
TaskOnce ==
  /\ None \notin Range(done)
  /\ \A d \in Dispatcher :
       Cardinality(Waiting(d)) + Cardinality(InHand(d)) + Cardinality(Processed(d))
         <= (IF dpc[d] = "sent" THEN 1 ELSE 0)

(***************************************************************************)
(* An accepted task that is not in the linked queue, with a worker or      *)
(* processed was in the hands of a worker that a second SIGINT killed, or  *)
(* is in a queue whose name mq_unlink took away in a worker that ended     *)
(* after a SIGINT or a failure.  Nothing else loses one: not a kill        *)
(* anywhere else, a start between another's mq_close and mq_unlink, or a   *)
(* task sent to the queue after its name was gone.                         *)
(***************************************************************************)
LostOnlyByUnlinkOrKill ==
  \A d \in Dispatcher : dpc[d] = "sent" =>
    \/ \E x \in Waiting(d) : x[1] = name
    \/ InHand(d) # {} \/ Processed(d) # {}
    \/ \E w \in Worker : wpc[w] = "killed" /\ buffer[w] = d
    \/ Waiting(d) # {} /\ \E w \in Worker : wpc[w] = "exited" /\ (caught[w] > 0 \/ fails > 0)

(***************************************************************************)
(* When no worker runs, the name is left over only if a worker was killed  *)
(* (a second SIGINT, or one before sigaction) or failed before its loop:   *)
(* workers stopped by one SIGINT clean up, also when several end at once   *)
(* or start between another's mq_close and mq_unlink.                      *)
(***************************************************************************)
NameLeftOnlyByKill ==
  name # None /\ (\A w \in Worker : wpc[w] \notin Running) =>
    \E w \in Worker : wpc[w] \in {"killed", "failed"}

\* Workers that have a queue open and no reason to stop: no SIGINT of their own, and
\* no failed call (or, if some call failed, they are seen to go on).
Serving == {w \in Worker : mqd[w] # None /\ caught[w] = 0
                             /\ (fails = 0 \/ wpc[w] \in {"attr", "loop", "receive", "process"})}

(***************************************************************************)
(* An accepted task is processed as long as one worker with no reason to   *)
(* stop has its queue open, also when another one has taken the name from  *)
(* that queue, failed or been interrupted; only a worker that is killed    *)
(* with the task in hand takes it along.                                   *)
(***************************************************************************)
AcceptedTaskProcessed ==
  \A d \in Dispatcher :
    dpc[d] = "sent" ~> \/ Processed(d) # {}
                       \/ \E w \in Worker : wpc[w] = "killed" /\ buffer[w] = d
                       \/ \A w \in Serving : mqd[w] # mqd[d]

(***************************************************************************)
(* A dispatcher that blocks on a full queue gets through or is refused as  *)
(* long as one worker with no reason to stop has that queue open.  (Without*)
(* one it may wait for ever: nobody new can come to a queue that has lost  *)
(* its name.)                                                              *)
(***************************************************************************)
BlockedSenderReturns ==
  \A d \in Dispatcher :
    dpc[d] = "send" ~> (dpc[d] \in {"sent", "refused"} \/ \A w \in Serving : mqd[w] # mqd[d])

(***************************************************************************)
(* A caught SIGINT ends the worker, however full the queue is kept: the    *)
(* loop looks at is_running after every task and every EAGAIN.             *)
(***************************************************************************)
InterruptEndsWorker ==
  \A w \in Worker : sigint[w] = "restored" ~> wpc[w] \notin Running
==============================================================================
