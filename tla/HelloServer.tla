----------------------------- MODULE HelloServer -----------------------------
(***************************************************************************)
(* 6-Socket/task1: a TCP server writes a greeting to every client that     *)
(* connects and closes the connection; a client prints what it reads until *)
(* the end.  The greeting arrives in pieces of any size.  No call of the   *)
(* server is checked: it goes on whatever fails.                           *)
(***************************************************************************)
EXTENDS Naturals, Sequences

CONSTANTS
  Guest,       \* the clients
  Greeting,    \* the length of the greeting
  QUEUE,       \* connections that wait: 10 in the code
  MaxBad       \* bound: failing calls and clients killed

\* What the constants have to be; IpcTasks assumes it.
HelloAssumption == Greeting \in Nat \ {0} /\ QUEUE \in Nat \ {0} /\ MaxBad \in Nat

VARIABLES
  host,      \* the server: "off", "accept", "write", "close"
  bound,     \* its bind to the port succeeded
  connfd,    \* the client accepted, or "none" (also after a failed accept)
  queue,     \* connections not yet accepted
  guest,     \* guest[c]: "connect", "read", "returned", "failed" or "killed"
  onWay,     \* onWay[c]: how much of the greeting is on its way to c
  closed,    \* closed[c]: the server has closed the connection
  printed,   \* printed[c]: how much of it c printed
  bad

vars == <<host, bound, connfd, queue, guest, onWay, closed, printed, bad>>

Init ==
  /\ host = "off" /\ bound = FALSE /\ connfd = "none" /\ queue = <<>>
  /\ guest = [c \in Guest |-> "connect"]
  /\ onWay = [c \in Guest |-> 0] /\ printed = [c \in Guest |-> 0]
  /\ closed = [c \in Guest |-> FALSE]
  /\ bad = 0

\* socket, bind, listen; without the port listen takes some other one.
Start ==
  /\ host = "off"
  /\ \/ bound' = TRUE /\ UNCHANGED bad
     \/ bad < MaxBad /\ bad' = bad + 1 /\ UNCHANGED bound
  /\ host' = "accept"
  /\ UNCHANGED <<connfd, queue, guest, onWay, closed, printed>>

\* accept returns a connection; if it fails the loop goes on with -1.
Accept ==
  /\ host = "accept"
  /\ \/ /\ queue # <<>> /\ connfd' = Head(queue) /\ queue' = Tail(queue)
        /\ UNCHANGED bad
     \/ /\ bad < MaxBad /\ bad' = bad + 1 /\ connfd' = "none"
        /\ UNCHANGED queue
  /\ host' = "write"
  /\ UNCHANGED <<bound, guest, onWay, closed, printed>>

\* write: a connection whose client is gone takes the data too.
Write ==
  /\ host = "write"
  /\ onWay' = IF connfd # "none" /\ guest[connfd] = "read"
                THEN [onWay EXCEPT ![connfd] = Greeting] ELSE onWay
  /\ host' = "close"
  /\ UNCHANGED <<bound, connfd, queue, guest, closed, printed, bad>>

\* Mutant of Closes: the connection stays open.
ClosesNothing(c) == closed

\* close(connfd), which fails for -1.
Closes(c) == IF c = "none" THEN closed ELSE [closed EXCEPT ![c] = TRUE]

\* close, and the sleep that ends the round.
Close ==
  /\ host = "close"
  /\ closed' = Closes(connfd)
  /\ connfd' = "none" /\ host' = "accept"
  /\ UNCHANGED <<bound, queue, guest, onWay, printed, bad>>

----------------------------------------------------------------------------
\* connect: waits while the queue is full, fails if nobody listens on the port.
Connect(c) ==
  /\ guest[c] = "connect"
  /\ IF host # "off" /\ bound
       THEN Len(queue) < QUEUE /\ queue' = Append(queue, c) /\ guest' = [guest EXCEPT ![c] = "read"]
       ELSE guest' = [guest EXCEPT ![c] = "failed"] /\ UNCHANGED queue
  /\ UNCHANGED <<host, bound, connfd, onWay, closed, printed, bad>>

\* read and fputs of some of what arrived.
Read(c) ==
  /\ guest[c] = "read"
  /\ \E n \in 1 .. onWay[c] :
       /\ onWay' = [onWay EXCEPT ![c] = @ - n]
       /\ printed' = [printed EXCEPT ![c] = @ + n]
  /\ UNCHANGED <<host, bound, connfd, queue, guest, closed, bad>>

\* read returns 0 and main returns.
Return(c) ==
  /\ guest[c] = "read" /\ onWay[c] = 0 /\ closed[c]
  /\ guest' = [guest EXCEPT ![c] = "returned"]
  /\ UNCHANGED <<host, bound, connfd, queue, onWay, closed, printed, bad>>

Kill(c) ==
  /\ guest[c] = "read" /\ bad < MaxBad
  /\ bad' = bad + 1
  /\ guest' = [guest EXCEPT ![c] = "killed"]
  /\ onWay' = [onWay EXCEPT ![c] = 0]
  /\ UNCHANGED <<host, bound, connfd, queue, closed, printed>>

ServerStep == Accept \/ Write \/ Close
GuestStep(c) == Connect(c) \/ Read(c) \/ Return(c)
Next == Start \/ ServerStep \/ \E c \in Guest : GuestStep(c) \/ Kill(c)

Spec == Init /\ [][Next]_vars

----------------------------------------------------------------------------
\* c printed the whole greeting and returned, or was killed.
Greeted(c) == guest[c] = "killed" \/ (guest[c] = "returned" /\ printed[c] = Greeting)
==============================================================================
