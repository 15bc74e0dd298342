------------------------------ MODULE IpcTasks ------------------------------
(***************************************************************************)
(* The programs that are started separately and meet at a socket or a      *)
(* shared memory object, one exercise at a time: 6-Socket task1            *)
(* (HelloServer), task2 and task4 (UpperCase), task3 (StreamCopy), and     *)
(* 9-ShareMemory (SharedProduct).  The programs of the exercises not       *)
(* started stay in their initial state.                                    *)
(***************************************************************************)
EXTENDS Naturals, Sequences

CONSTANTS
  Guest, Greeting, QUEUE, MaxBad,                               \* task1
  Client, Length, BUF_SIZE, QLen, MaxLost, MaxDup, MaxGone,     \* task2, task4
  Copier, Input, BACKLOG, MaxBroken,                            \* task3
  Producer, Consumer, MaxDead                                   \* 9-ShareMemory

VARIABLES
  started,
  host, bound, connfd, queue, guest, onWay, closed, printed, bad,
  family, server, datagram, inbox, answers, client, j, resp, lost, dups, gone,
  listener, cfd, backlog, copier, taken, socket, output, broken,
  object, size, making, put, using, sb, product, got, ready, dead

Hello == INSTANCE HelloServer
Upper == INSTANCE UpperCase
Copy == INSTANCE StreamCopy
Shm == INSTANCE SharedProduct

ASSUME IpcAssumption ==
  /\ Hello!HelloAssumption /\ Upper!UpperCaseAssumption /\ Copy!CopyAssumption
  /\ MaxDead \in Nat

hello == <<host, bound, connfd, queue, guest, onWay, closed, printed, bad>>
upper == <<family, server, datagram, inbox, answers, client, j, resp, lost, dups, gone>>
copy == <<listener, cfd, backlog, copier, taken, socket, output, broken>>
shm == <<object, size, making, put, using, sb, product, got, ready, dead>>
vars == <<started, hello, upper, copy, shm>>

Init ==
  /\ started \in {"task1", "AF_INET", "AF_UNIX", "task3", "9-ShareMemory"}
  /\ Hello!Init /\ Upper!Init /\ Copy!Init /\ Shm!Init
  /\ family = IF started = "AF_INET" THEN "AF_INET" ELSE "AF_UNIX"

RunHello(A) == started = "task1" /\ A /\ UNCHANGED <<started, upper, copy, shm>>
RunUpper(A) == started = family /\ A /\ UNCHANGED <<started, hello, copy, shm>>
RunCopy(A) == started = "task3" /\ A /\ UNCHANGED <<started, hello, upper, shm>>
RunShm(A) == started = "9-ShareMemory" /\ A /\ UNCHANGED <<started, hello, upper, copy>>

Next ==
  \/ RunHello(Hello!Next) \/ RunUpper(Upper!Next) \/ RunCopy(Copy!Next) \/ RunShm(Shm!Next)

Spec == Init /\ [][Next]_vars

(***************************************************************************)
(* A server that was started and a client that can go on are scheduled.    *)
(* Nobody has to start a server, to type at a client, to lose or repeat a  *)
(* datagram, to kill a process or to make a call fail.                     *)
(***************************************************************************)
FairSpec ==
  /\ Spec
  /\ WF_vars(RunHello(Hello!ServerStep))
  /\ \A c \in Guest : WF_vars(RunHello(Hello!GuestStep(c)))
  /\ WF_vars(RunUpper(Upper!ServerStep))
  /\ \A c \in Client : WF_vars(RunUpper(Upper!ClientStep(c)))
  /\ WF_vars(RunCopy(Copy!ServerStep))
  /\ \A c \in Copier : WF_vars(RunCopy(Copy!ClientStep(c)))

----------------------------------------------------------------------------
(***************************************************************************)
(* task1: a client that got its connection prints the whole greeting and   *)
(* returns, though it waits in a queue that fills up, the greeting comes   *)
(* in pieces, and the server goes on with -1 when its accept fails.        *)
(***************************************************************************)
EveryoneGreeted == \A c \in Guest : guest[c] = "read" ~> Hello!Greeted(c)

(***************************************************************************)
(* task2, task4: a client logs answers to its own arguments only, cut to   *)
(* BUF_SIZE; unless a datagram was duplicated, the k-th is that to its     *)
(* k-th argument, however datagrams of all clients are mixed.              *)
(***************************************************************************)
AnswersMatch == Upper!AnswersMatch

(***************************************************************************)
(* task2, task4: sendto ends the server only over AF_UNIX and only because *)
(* a client was killed before it took its answer.                          *)
(***************************************************************************)
ServerExitsOnlyForDead == Upper!ServerExitsOnlyForDead

(***************************************************************************)
(* task2, task4: every client ends but one whose own datagram or answer    *)
(* was lost, on the way or with a killed server, which waits in recvfrom   *)
(* for ever: no client waits for an answer that went elsewhere, for room   *)
(* that nobody makes, or because of what happened to another one.          *)
(***************************************************************************)
ClientsAnswered == <>(started = family => Upper!AllAnswered)

(***************************************************************************)
(* task3: what a client wrote before it exited comes out at the server,    *)
(* also when it exited before its connection was accepted, unless the      *)
(* server ends or waits at another client that has nothing to say.         *)
(***************************************************************************)
CopiedAtLast ==
  \A c \in Copier :
    copier[c] = "exited" ~> (output[c] > 0 \/ listener = "exited" \/ Copy!WaitsForIdle)

(***************************************************************************)
(* task3: a client that exits with EXIT_SUCCESS has copied its standard    *)
(* input to the socket, as the comment above its loop says.                *)
(***************************************************************************)
StdinCopied == Copy!StdinCopied

(***************************************************************************)
(* 9-ShareMemory: a consumer copies inside the object, and one that began  *)
(* after some producer had finished prints the whole product, even while   *)
(* other producers start, write or die.                                    *)
(***************************************************************************)
ProductWhole == Shm!ProductWhole
==============================================================================
