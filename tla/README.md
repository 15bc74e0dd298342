# Verification of the LinuxPrograming exercises

TLA+ specifications, TLC runs and TLAPS proofs for the programs of this repository: a series of C
exercises in which processes, threads and signal handlers share semaphores, shared memory, message
queues, pipes, sockets and locks. Each module is a translation of the code it names; `PROJECT.json` maps every
definition to its source lines, lists the runs, the mutants (a plausible bug per property, which the
property catches), the hazards and the theorems.

## 1. Inventory

| component | state | operations | who else is involved |
|---|---|---|---|
| `10-Semaphore` | two trays (`ShareFoodBuffer`: `count`, `items[MAX_ITEM]`) in shared memory, one named semaphore each, `is_running` per process | `shmInit`, fork of five children, two chefs, two customers, a hybrid customer that uses both trays, `handle_sigint`, `cleanup` | kernel objects with names that outlive a run; SIGINT to any process |
| `7-Queue` | the POSIX queue and its name; a worker's `is_running` and disposition of SIGINT | dispatcher: parse the priority, open, send; worker: `sigaction`, open or create, receive/process loop, close, unlink | several dispatchers and workers on one name |
| `8-Pipe` | descriptor tables of main and two children, the pipe | `initializePipe`, two forks, `executeCommandWithPipe`, `cleanup`, `waitForChildren` | `ls` and `wc` |
| `4-Thread` | task1: returned messages; task2: `shared_counter`, mutex; task3: `data`, `data_ready`, mutex, condition variable; task4: `data`, rwlock, returned messages | creation, the thread functions, joining | `cmnbase.h` / `strutils.h` (two definitions of `SUCCESS`) |
| `1-GeneralKnowlegde` | a character buffer | `str_trim`, `str_reverse`, `str_to_int` | used by `7-Queue/dispatcher.c` |
| `5-Signal` | `signal_count`, `seconds`, `count`: globals a handler changes; dispositions and pending signals; task4: a signalfd and stdio's buffer | SIGINT counted, `alarm` set again by its handler, SIGUSR1 from a parent to a child that pauses, `select` over signals and stdin | the kernel merges pending signals; the handlers log |
| `6-Socket` | task1: a TCP connection at a time; task2/task4: datagrams on their way; task3: stream connections and the backlog | servers: bind, accept or receive, answer, close; clients: send and wait, or copy | several clients per server; the network of task2 |
| `9-ShareMemory` | a named object that holds one product and is never unlinked | producer: open, size, map, copy in; consumer: open, `fstat`, map, copy out | several runs of both |
| `3-Process` | a child and its status, `MY_COMMAND` in the environment | fork, wait or not, exec, `terminate` | init adopts orphans |
| `2-FileSystem` | none | one `lstat` | |
| `CmnBase` | the logger's settings | `terminate`, logging (third-party) | all programs; also from signal handlers |

What is hard in this code and hardly reached by a test: five processes that interleave on one array
whose loop reads one slot past its end; nested semaphores; a count read before an unlock and used after
it; a process killed with a semaphore taken; names that are unlinked by one run while another opens
them; signals that strike in the middle of initialisation; queues that lose their name while processes
wait on them; end-of-file that depends on descriptors in three processes; wakeups and overwrites around a
condition variable; signals that merge, come before the handler, or fall between a test and a `pause`;
input that `select` cannot see and signals that wait behind an unended line; datagrams lost, repeated or
answered to somebody who is gone; servers that serve one client while others wait; objects left half
made for the next run; failures of one step of several; integer boundaries in string code. Each is listed
under `hazards` with the line where it bites and the properties that would catch it.

What makes each component correct:

* trays: one process inside at a time, a tray that is free is well formed, no dish is lost, duplicated or
  taken twice, a tray torn by a kill is never touched again, nobody waits for ever;
* names: runs that share a buffer share its semaphore, interrupts leave nothing behind, and what a new
  start finds is usable;
* queue: an accepted task is processed once, and lost only with the name or a killed worker; workers and dispatchers get on; interrupted workers clean up;
* pipe: each command is connected to its end only, the count is complete, every process ends;
* threads: exact counts, no lost wakeup, whole reads, no leak, the programs end;
* signals: what is reported about a child is true, the count is complete, SIGTERM gets through, no input is
  lost, and the programs end;
* sockets: an answer belongs to the question, no client is forgotten, one client cannot end a server
  except by dying;
* shared product: a product that was finished once is read whole;
* strings: agreement with a reference definition.

## 2. Modules

| module | models | role |
|---|---|---|
| `BoundedTray` | – | abstract specification: trays are bounded sequences, cooking appends, eating removes one dish |
| `FoodTrays` | the five child handlers of `10-Semaphore/main.c` | implements `BoundedTray` (refinement mapping `TrayView`) |
| `FoodTraysProofs` | – | TLAPS proofs about `FoodTrays`: its invariants |
| `FoodTraysRefinement` | – | TLAPS proof that `FoodTrays` implements `BoundedTray` |
| `TrayNames` | `main`, `shmInit`, forks, `handle_sigint`, `cleanup` over several runs | the environment that justifies `FoodTrays`' initial states |
| `TaskQueue` | `7-Queue/dispatcher.c`, `worker.c` | |
| `Pipeline` | `8-Pipe/main.c` | |
| `ThreadResults`, `SharedCounter`, `DataReady`, `RwData` | `4-Thread/task1.c` to `task4.c` | |
| `ThreadTasks` | one of the four is started | composes them with `INSTANCE`; states fairness and the properties the runs check |
| `ForkWait` | `3-Process/task1.c` to `task4.c`, `terminate` | |
| `SigintCount`, `AlarmClock`, `Usr1Count`, `SignalFd` | `5-Signal/task1.c` to `task4.c` | |
| `ProcessTasks` | one of these or `Pipeline` is started | composes them, as `ThreadTasks` does |
| `HelloServer`, `UpperCase`, `StreamCopy` | `6-Socket/task1`, `task2` and `task4`, `task3` | |
| `SharedProduct` | `9-ShareMemory` | |
| `IpcTasks` | one of these four is started | composes them, as `ThreadTasks` does |
| `TrayNamesProofs`, `TaskQueueProofs`, `ThreadTasksProofs`, `ProcessTasksProofs`, `IpcTasksProofs` | – | TLAPS proofs about the module they are named after and, for the last three, the programs it composes |
| `StrUtils` | `strutils.c` in the order of `1-GeneralKnowlegde/main.c` | one step per loop iteration, against reference definitions |
| `StrUtilsProofs` | – | TLAPS proofs about `StrUtils` |
| `MCFoodTrays`, `MCTrayNames`, `MCTaskQueue`, `MCIpcTasks`, `MCStrUtils` | – | constants for TLC |

An operator named "Mutant of X" in a comment is a deliberately wrong variant of X that no specification
uses; it is what the property next to it in `PROJECT.json` must reject.

The exercises share nothing but the library, so the compositions start one of them and leave the others
in their initial state. The modules that are composed state what their constants have to be as a
definition, which the composition assumes.

### FoodTrays and the code

`sem[t]` is the value of a tray's semaphore, `count[t]` and `items[t]` its `ShareFoodBuffer`. The
handlers of the two chefs are the same code on different trays, as are those of the two customers, so
there is one operator per step and `Serves[p]` names the tray; in the map such an operator spans the lines
from the first to the last handler that contains the step. A process goes through
`idle` (the `sem_wait` of the loop head), `second` (hybrid only), `count`, then `store` (chef) or `pick`,
`shift`*, `wipe` (eater), `setcount`, `post`. One action is one semaphore call or one access to shared
memory. `Food.id` and `Food.time` are only logged, so a slot holds the dish or `NoFood` (zero bytes).
`items[MAX_ITEM]`, one past the array, is part of the model because the loop at line 330 reads it and the
`memset` at line 333 clears it; it lies in the same page of the mapping.

A killed process keeps its program counter, so `Holding` shows which semaphores it took with it. A
process killed by its own SIGINT handler looks the same: the handler posts nothing.

### TrayNames and the code

An object is identified by the run that created it; `semName`/`shmName` is what the kernel has linked
under a tray's name, `semOf`/`shmOf` what a run opened, `named` whether `semaphore.name` has been filled
in when a signal strikes. SIGINT may strike any set of processes of a run at any point between `main`'s
start and its end. The handler clears `is_running` but re-raises the signal instead of returning, so no
loop ends because of it, and `waitForChildren` and the second `cleanup` in `main` are never reached.
`quiet` records that no run opened its objects while another one was inside `cleanup`.
Without that condition `OneInsidePerBuffer` fails when three runs overlap: `cleanup` unlinks by name and
takes the semaphore's name from a run that just created it, the next start creates a second semaphore and
finds the buffer. With two runs the condition is not needed in the instance checked, but the property does
not claim more than holds in general.

### TaskQueue and the code

Each member of `Worker` and `Dispatcher` is one start of its program. A queue is identified by the
worker whose `mq_open` created it; `mq_unlink` takes the name away and the queue lives on for those who
have it open. The dispatcher's priority test and its `mq_open` are one action, as nothing can tell them
apart; `mq_send` blocks while the queue is full. In the instance `PRIO_MAX` stands for the kernel's `MQ_PRIO_MAX` (32768) and
`NO_NUMBER` for `INT32_MAX`. Task texts are left out.

### Pipeline and the code

Descriptors are numbers, as `dup2` and `close` work on numbers: the initial state has any subset of
descriptors 0 and 1 open, and `pipe()` returns the lowest free ones. `ls` and `wc` are external and
modelled by what they do with the pipe: write `NumLines` lines, block on a full pipe, die of SIGPIPE, read
to the end of file.

### The thread programs

`shared_counter++` is a load and a store. In `DataReady` the data are the iteration numbers instead of
random values, so that items can be told apart; `sleep(1)` orders nothing, so an item may be overwritten
unread. In `ThreadResults` the number in a message comes from the thread's own element of `tinfo`; the
`thread_id` that a thread logs may not be written yet and is left out. A failing `pthread_create` is only logged there, and the join of that thread may then return an
error or bring the process down. In `RwData` a writer's loop counter is the shared `data` itself.

`SUCCESS` is a parameter. `cmnbase.h` defines `SUCCESS` as 1 and then includes `strutils.h`, which
redefines it as 0, the value of `FAILURE`. The passing run uses 1, what `cmnbase.h` says and what the
programs are written for; the run `thread_tasks_build` uses 0, what a build gives.

### The process and signal programs

`ForkWait` has the four programs of `3-Process` in one module, since they differ only in what parent and
child do after the fork. A command is a name, `""`, or one too long for `CMD_SIZE`; the status is what the
parents tell apart. `terminate` aborts if `EF_DUMPCORE` is set.

Signals are a set or a flag, since equal pending ones merge. A handler is one step: `sa_mask` blocks
everything while it runs. In `SigintCount` the handler may hang, because it logs: `init_event` calls
`localtime`, whose lock the interrupted `log_log` may hold. In `task2.c` and `task3.c` nothing logs
while the handlers are installed. `signal_count`, `seconds` and `count` are plain globals; the loops call
`sleep`, `usleep` and `pause`, so the compiler reads them again. In `AlarmClock` time is left out: an alarm
that is set expires, at most `Late` of them after the last one needed.

In `Usr1Count` a signal may come at any time after the fork; `sleep(2)` is not a guarantee.
`hurried` records that one found the child not in `pause` or another one still pending.

In `SignalFd` input is counted in lines, a line being what one `fgets` returns. `lines` are in the kernel
and seen by `select`, `buffer` those in stdio's buffer and not seen; `tail` is where the beginning of an
unended line is. `read` of a signalfd returns SIGINT (2) before SIGTERM (15).

### The sockets and the shared product

`UpperCase` is task2 and task4 at once: the loops are the same, the address family decides what the
network may do. Over `AF_INET` any datagram on its way may be taken next, dropped or repeated, and one
that nobody listens for is lost without an error; over `AF_UNIX` a queue is bounded and in order, `sendto`
blocks while it is full and fails when the other end is gone. A server can be killed and started again.
That a second server removes the name of a running one is not modelled.

In `StreamCopy` a piece is what one `read()` returns; the client's loop ends with `exit`, so there is one.
In `HelloServer` the greeting is its length and arrives in parts of any size; a server that could not
bind listens on a port nobody knows. `SharedProduct` moves the product field by field; all producers write
the same values, so a field is zero or written.

### StrUtils and the code

A buffer is the sequence of the `len` characters a function is given (`buf`); `before` is what it was before
the last call. A step is a call with its validation (`CallTrim`, `CallReverse`, `CallToInt`) or one iteration
of a loop, the test that ends it included: `TrimStart` and `TrimEnd` move `start` and `end` over spaces,
`TrimCopy` copies in place and fills with NULs, `FindTail` looks for the NUL, `Swap` exchanges two
characters, `AddDigit`, `NoDigit` and `EndOfDigits` are the loop of `str_to_int` and its exits. `value` is that
function's `ret`, computed modulo `Word`, which is 2^32 in the code; `INT32_MAX` is a parameter (31 in the instance: 6-bit
words, so that with the digits 0 to 3 the limits 31 and -32 and their neighbours on both sides occur, and three digits
wrap around). Buffers are taken to be far shorter than 2^31 characters.

## 3. Runs

| run | instance | states | shows |
|---|---|---|---|
| `food_trays` | the five children of `handlers[]`, 2 slots, 2+1 dishes, one kill | 305 k | `TypeOK`, `Mutex`, `FreeTrayWellFormed`, `CountNotStale`, `TornTrayUntouched`, and `ImplementsTrays`: the specification of bounded sequences is implemented |
| `food_trays_live` | the same with 1 slot, 1 dish per tray, one kill, fair | 15 k | `TraysFreedAgain`, `KitchenGoesOn` |
| `tray_names` | 2 overlapping runs of main and the hybrid customer, 2 trays, one SIGKILL or failing call, any SIGINTs | 2.3 M | `OneInsidePerBuffer`, `InterruptLeavesNoName`, `LinkedSemaphoreUsable` |
| `task_queue` | 2 workers, 3 dispatchers (low, high, refused priority), 1 message, one failing call, up to 2 SIGINTs per worker, fair | 135 k | `TaskOnce`, `LostOnlyByUnlinkOrKill`, `NameLeftOnlyByKill`, `AcceptedTaskProcessed`, `BlockedSenderReturns`, `InterruptEndsWorker` |
| `process_tasks` | 8-Pipe: 4 lines through a pipe of 2, every choice of standard streams, one failing call, one killed child; 3-Process: all four programs, one kill; 5-Signal: 5 SIGINTs, 10 seconds, 5 SIGUSR1, 4 lines and 4 signals; fair | 14 k | `CommandConnected`, `CountComplete`, `ReportsTrue`, `SurvivesTwo`, `EveryoneEnds`, `EndsUnlessHurried`, `SigtermEnds`, `EchoedAtEof` |
| `thread_tasks` | task1: 3 threads; task2: 3 threads × 2 increments; task3: 4 items, 2 spurious wakeups; task4: 3 readers, 2 writers; one failing call; fair | 97 k | `CounterExact`, `ItemsReadOnce`, `EndsUnlessOverwritten`, `ReadsWholeWrites`, `MessagesFreed`, `MainEnds` |
| `ipc_tasks` | task1: 3 guests, queue of 1, 2 failures; task2/4: 2 clients × 2 messages (one cut), one datagram lost, one repeated, one process killed; task3: 3 clients (one without input), backlog of 1, one failure; 9-ShareMemory: 2 producers, 1 consumer, one death; fair | 32 k | `AnswersMatch`, `ServerExitsOnlyForDead`, `ProductWhole`, `EveryoneGreeted`, `ClientsAnswered`, `CopiedAtLast` |
| `str_utils` | all strings of up to 5 of 7 characters (4 digits), 6-bit words | 450 k | `TrimRemovesOuterSpaces`, `TerminatedStringReversed`, `NumeralsConverted` |

Four runs expect a violation, each a disagreement between the code and what the repository says of it:

* `thread_tasks_build`: with the value of `SUCCESS` a build gives, `main` of task2 (and task4, task1)
  terminates with `EXIT_FAILURE` though nothing failed.
* `str_utils_reverse`: `str_reverse` of a string without a NUL in its `len` characters leaves its last
  character in place. (A second disagreement in that file, not given a run of its own: `strutils.c:81`
  says the result is negative after a `-`; on overflow it need not be.)
* `sigint_reraised`: `5-Signal/task1.c:51` says that after the second SIGINT the default action is restored and the
  signal re-raised. Nothing is re-raised: the program goes on until a third one comes. And the handler calls
  `log_info` first, so if it interrupted `main` in the logger it may hang there, and the default action is never
  restored; the property does not excuse that. `SurvivesTwo` in the passing run states what the code does.
  (The same comment stands at `7-Queue/worker.c:95`, in a handler that restores the default action on the first SIGINT
  and re-raises nothing. What comes of it, that the second SIGINT kills the worker before `mq_unlink`, is
  in `NameLeftOnlyByKill` and `LostOnlyByUnlinkOrKill`.)
* `stream_copy`: `6-Socket/task3/client.c:27` says "Copy stdin to socket"; the client exits with success
  after its first `read`, as `exit` stands inside the loop.

### Bounds, and why they are enough

`MAX_ITEM = 2` has an empty, a part-full and a full tray, a dish in front of and behind the one that is
taken, and the slot past the end; the proofs cover every other value. Two dishes on one tray show which
dish moves where. One kill is enough to take one or both semaphores with it, and the proofs cover any
number. Two runs of `TrayNames` give every mix of old and new objects that two generations allow; the
child is the hybrid customer because it uses both trays. One message and two valid dispatchers make a
dispatcher block; two workers make one end while the other works, and the priorities that are refused need
only one representative. Four lines through two places make `ls` block and `wc` wait. Five SIGUSR1 and 10
seconds are the numbers of the code; five SIGINTs are more than the handler ever counts. Four lines allow
one to be echoed, some to wait in the buffer and one to be unended. With a queue or backlog of one, three
clients are one served, one waiting and one blocked. One lost, one repeated datagram and one kill are
enough to make an answer miss, be taken for another, or end the server. Two producers are one that has
finished and one that starts, writes or dies beside the consumer. Two increments per
thread and three threads are the smallest lost update with a bystander.

### Fairness

A process or thread that can go on is scheduled (weak fairness of its steps). `sem_wait` is strongly
fair: after its last `sem_post` every process sleeps at least 100 ms (lines 256, 273, 289, 306, 322, 338,
354, 370, 394, 419) before its next `sem_wait`, so a waiter that is woken finds the semaphore free. No
fairness is given to starting a server, to sending signals, to typing, to lost or repeated datagrams, to
failing calls, to kills or to spurious wakeups. A pending signal is delivered and an alarm that is set
expires: the kernel sees to that, also in a process that never yields.

Deadlock checking is off: in every model something may end for good (a killed holder, an ended
program), and the liveness properties say who must not be stuck.

### Facts the models make visible

* With two workers, the one that ends unlinks the name from the queue the other still serves;
  later dispatchers are refused, although a worker runs. What was accepted by then is still processed as long as
  that worker goes on (`AcceptedTaskProcessed`, `BlockedSenderReturns`), and is lost with it when it is stopped too:
  `LostOnlyByUnlinkOrKill` names this and the worker killed with a task in hand as the only two ways.
* A dispatcher that blocks on a queue whose last worker has ended waits for ever.
* In task3 the customer waits for ever after an item was overwritten; the program relies on `sleep(1)`.
  If `main` returns and both threads were created, nothing was overwritten (`ItemsReadOnce`). If the
  producer could not be created, `main` waits for a customer that sleeps for ever, or crashes in the join
  (`EndsUnlessOverwritten` allows these states and no others).
* Started without descriptor 0, `8-Pipe` cuts `wc` off from the pipe, and without 0 and 1 `ls` as well: `pipe()` returns
  the very descriptor that `dup2` is to make, and the `close` behind it takes it away. Without 1 alone
  all is well (`CommandConnected`).
* In `5-Signal/task3.c` parent and child wait for each other for ever when one signal merges with another
  or is handled between the child's test and its `pause`; the program relies on `sleep(2)`.
* In `5-Signal/task4.c` lines stay in stdio's buffer until more input, or its end, wakes `select`; SIGTERM
  waits while a line is begun and not ended; after the end of the input the loop spins.
* A lost datagram leaves a client of `6-Socket/task2` in `recvfrom` for ever, and a repeated one shifts all
  its later answers by one. `ClientsAnswered` lets only such a client wait: one that has nothing on its way any more
  after a loss or the end of a server; the others must be answered in the same history.
* A client of `6-Socket/task4` that is killed while its datagram waits ends the server for everybody.
* A silent client holds the server of `6-Socket/task3`; data of others waits, though it is not lost.
* A consumer of `9-ShareMemory` that starts before any producer has finished may print part of a product.

## 4. Proofs

Every safety property that a passing run checks on an instance is proved for all values of the constants.
The assumptions are the named `ASSUME`s of the modules (`CapacityAssumption`,
`NamesAssumption`, `QueueAssumption`, ...), which say what the constants are: numbers, disjoint sets of
processes, menus without a common dish. The runs evaluate all of them. The bounds (`MaxCrash`, `MaxFail`,
`MaxSigint`, ...) are any natural numbers.

| theorem | statement | for all |
|---|---|---|
| `FoodTraysProofs!TypeCorrect` | `Spec => []TypeOK` | capacities, menus, chefs, customers, hybrid customers, kills |
| `FoodTraysProofs!MutualExclusion` | `Spec => []Mutex` | |
| `FoodTraysProofs!CountsFresh` | `Spec => []CountNotStale` | |
| `FoodTraysProofs!FreeTraysAreWellFormed` | `Spec => []FreeTrayWellFormed` | |
| `FoodTraysProofs!TornTraysStay` | `Spec => TornTrayUntouched` | |
| `FoodTraysRefinement!TraysImplemented` | `Spec => ImplementsTrays` | |
| `TrayNamesProofs!InterruptsLeaveNoName` | `Spec => []InterruptLeavesNoName` | trays, runs, children and the trays they use, faults |
| `TrayNamesProofs!LinkedSemaphoresUsable` | `Spec => []LinkedSemaphoreUsable` | |
| `TrayNamesProofs!OneProcessPerBuffer` | `Spec => []OneInsidePerBuffer` | |
| `TaskQueueProofs!NameLeftByKillOnly` | `Spec => []NameLeftOnlyByKill` | workers, dispatchers, priorities, queue sizes, failures |
| `TaskQueueProofs!TasksProcessedOnce` | `Spec => []TaskOnce` | |
| `TaskQueueProofs!AcceptedTasksKept` | `Spec => []LostOnlyByUnlinkOrKill` | |
| `ThreadTasksProofs!AllMessagesFreed` | `Spec => []MessagesFreed` | threads, iterations, failures, either `SUCCESS` |
| `ThreadTasksProofs!CounterIsExact` | `Spec => []CounterExact` | |
| `ThreadTasksProofs!ItemsInOrder` | `Spec => []ItemsReadOnce` | |
| `ThreadTasksProofs!ReadersSeeWholeWrites` | `Spec => []ReadsWholeWrites` | |
| `ThreadTasksProofs!TerminationExplained` | `SUCCESS = 1` implies `Spec => []TerminatesOnlyOnFailure` | |
| `ProcessTasksProofs!SigintsSurvived` | `Spec => []SurvivesTwo` | signals, kills, lines, pipe sizes, failures, closed descriptors |
| `ProcessTasksProofs!ReportsAreTrue` | `Spec => []ReportsTrue` | |
| `ProcessTasksProofs!CommandsConnected` | `Spec => []CommandConnected` | |
| `ProcessTasksProofs!CountsComplete` | `Spec => []CountComplete` | |
| `IpcTasksProofs!ProductsWhole` | `Spec => []ProductWhole` | producers, consumers, clients, arguments, faults |
| `IpcTasksProofs!AnswersAreOwn` | `Spec => []AnswersMatch` | |
| `IpcTasksProofs!ServerOutlivesClients` | `Spec => []ServerExitsOnlyForDead` | |
| `StrUtilsProofs!OuterSpacesTrimmed` | `Spec => []TrimRemovesOuterSpaces` | buffers of any length, characters, word sizes |
| `StrUtilsProofs!TerminatedReversed` | `Spec => []TerminatedStringReversed` | |
| `StrUtilsProofs!NumeralsAreConverted` | `Spec => []NumeralsConverted` | |

None of these invariants is inductive alone. In the compositions each program has an inductive invariant of
its own; a lemma `StepsApart` says that a step is one of the program that was started, so the invariant
holds throughout.

**FoodTrays.** The argument has layers:

1. `Types` = `TypeOK` with `PhaseOK` (where each kind of process can be, and on which tray) and `RangeOK`
   (a chef past its test saw room, an eater a dish). It is inductive and keeps `count + 1` and `count - 1`
   in range.
2. `Mutex` is inductive relative to `Types`. Its second half, that the semaphore's value says whether
   somebody is inside, is what makes the first half inductive. Lemmas `TakeKeepsMutex`,
   `ReleaseKeepsMutex` and `InsideKeepsMutex` treat the three kinds of steps.
3. `CountNotStale` needs `Mutex`: only a process inside a tray writes its count.
4. `TrayShape` says what a tray looks like at any moment: dishes up to `count` and clear slots behind,
   or, while somebody is between its first write and the count update, dishes up to the new count. It
   needs the loop to be seen as a whole: while the loop moves slots the tray still has `count` dishes (one
   of them twice), and the last move pulls a clear slot down. That is why clearing slot `count` instead of
   `count - 1` does no harm. `FreeTrayWellFormed` follows, since `sem[t] = 1` means nobody is inside.

The conjunction is `IInv`. `TornTraysStay` follows from `Mutex`: a dead process still counts as a holder,
so nobody else is inside.

**The refinement.** `RInv` adds to `IInv` that the hole is at the end of the array when the loop is over
(`HoleAtEnd`). By `Mutex` at most one process is removing a dish of a tray, so the choice in `TrayView`
is none (`ViewIs`). An eater's `Pick` is then a `Take`, a chef's `SetCount` a `Put`, and every other step
leaves the abstract trays alone: a move of the loop moves the hole up by one slot (`ShiftHidden`), the chef's
write and the `memset` are behind the dishes that count (`StoreHidden`, `WipeHidden`), and the eater's
`SetCount` drops the slot the hole has come to (`LessHidden`). A kill is a stutter as well.

**TrayNames.** `NamesInv` has types, which labels main and children can have, how far `shmInit` of each
run has come (`Progress`: exactly the trays in front of the current one are open, and children exist only
behind the last), and that an object is created before it is linked or opened. Effect lemmas
(`SemOpenEffect`, `CleanupEffect`, ...) say point by point what a step does, `MovesOfStep` how a process moves.
On top of it: for `InterruptLeavesNoName`, for every linked name somebody is left whose `cleanup` will still
come to it, or was killed or failed (`Owned`); for `LinkedSemaphoreUsable`, a semaphore somebody took is 0
and nobody else took it (`Values`), a linked one at 0 has a holder, and a holder whose `cleanup` is past it
has unlinked it (`Usable`); for `OneInsidePerBuffer`, in a quiet history no process is in `cleanup` while a
run is in `shmInit` (`Apart`), so semaphore and buffer of a tray are linked and unlinked in pairs and those who
opened the same buffer opened the same semaphore (`Matched`). TLC checked this invariant on the run's instance.

**TaskQueue.** `NameLeftOnlyByKill`: while the name is linked, some worker has it open, was killed or
failed. `TaskOnce`: the places of a task (queues, a worker's buffer while it processes, the log) exclude one
another and each holds it once (`OnceInv`); `InsertProperties` says what inserting by priority does to a
queue. `LostOnlyByUnlinkOrKill`: until a worker has come to the end of `main`, nobody unlinks and all use the linked
queue (`Linked`); an accepted task is there, or later in any queue, or was taken by a worker that has it in
hand or was killed, or is processed (`Placed`). A worker leaves its loop only after a SIGINT of its own or a
failed call (`Ends`), which says who can have come to `mq_unlink`.

**The threads.** task1: a message carries its thread's number, and main has logged and freed those of the
threads it joined, no others. task2: the counter is the cardinality of the set of increments stored
(`Increments`), which is a product of two intervals at the end. task3: items in `got` are below `data`
while `data_ready`; the items read, one that is ready and one that was overwritten are so many different
ones of the `data` made (`ItemCount`), and main returns behind a customer that has read `N` (`ItemLoops`), so none
was overwritten. task4: the lock's holders are one writer or any readers, and outside a writer's hold `data` is
one of the values writers leave. `TerminationExplained` complements the run `thread_tasks_build`: with the
`SUCCESS` of `cmnbase.h` the property that run refutes holds, so the redefinition is the only cause.

**The processes and signals.** 5-Signal task1: the disposition goes with the count in each phase of main.
task3: signals merge but never multiply, so a child that counted `Times` was sent as many. 3-Process: what is
logged is tied to the end of the child by the order of fork, end and wait. 8-Pipe: for each label of a
process its descriptor table is a function of `std` (`Fits`), where `pipe()`'s result is given by
`ReadFd` and `WriteFd`; hence `wc` can see the end of file only when `ls` has ended (`EndOfData`), and lines written are lines
counted plus lines in the pipe. `CommandConnected` reads the table at `exec`: the standard descriptor is the
only one of the pipe unless it already was the end returned by `pipe()`, which is `CutOff`.

**Sockets and shared memory.** The datagrams on their way carry the sender and the number of its argument. Without
duplicates a client has at most one question or answer on its way, the one it waits for (`UpperOnce`); the
server can miss a client only if it was killed (`UpperEnd`). 9-ShareMemory: fields once written stay
written, so a consumer that starts after a producer's end copies only written fields.

**Strings.** `StringInv` has an invariant per loop. In `str_trim` everything in front of `start` and behind
`end` is a space (`Outer`), the two loops end at characters that are none (`Found`), and the copy in place
reads only characters it has not yet written, since it reads at or behind where it writes (`Copied`). In
`str_reverse` `tail` is the first NUL (`TailFound`), and the first `idx` characters are exchanged
with the last `idx` in front of it (`Swapped`); the loop stops where these two parts meet. `CStringIs`: a
buffer has only one place where its C string can end; `EndExists`: it has one, the least (`LeastNumber`,
from the library's well-founded induction). In `str_to_int` the characters seen are a sign and digits, and
`value` is the number they denote modulo `Word` (`DigitLoop`). The reference number is a recursive
function whose existence would need induction; the invariant carries it instead, since each iteration
extends a function for the first `idx` characters by one more value. The number is not needed to be small on
the way: `NextDigit` keeps it equal to `value` modulo `Word`, and `SignedWord` says that a number an `int32_t` can hold
is then the one returned. TLC checked these invariants on the run's instance.

Only model-checked: all liveness (fairness and `ENABLED` are beyond the prover). The
properties of the runs that expect a violation are false, but for `TerminatesOnlyOnFailure` as above.

## 5. Not modelled, and why

`2-FileSystem` (one `lstat` and the printing of its result: no state), formatting and callbacks of the
logger (third-party; nothing in the programs depends on them), the table of error names, message texts,
upper case, dish ids and times, durations. `buffer[bytes_read]` in `worker.c:72` can lie one byte past its
allocation; texts are not modelled. After a failing fork in `10-Semaphore/main.c:107` the children go on
without main; `TrayNames` has this, and the code promises nothing about it that could be stated. In
`TrayNames` a signal in the few instructions between `signal()` and the assignment of the names in `main`
is not told apart from one just after them. Logging in a handler is modelled as a hang only; what an
interrupted `printf` leaves in its buffer is not.

## 6. Plan

Done: all programs but `2-FileSystem`, each with the failures its code meets; the trays with their
abstract specification; proofs of the refinement and of all safety properties.

What is left: liveness stays with TLC. The progress arguments behind it (what a waiting process waits for, and
that the one it waits for can go on) are state properties and could be proved in the place of the liveness
properties themselves.
