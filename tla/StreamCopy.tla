------------------------------ MODULE StreamCopy ------------------------------
(***************************************************************************)
(* 6-Socket/task3: a client copies its standard input to a Unix stream     *)
(* socket; the server copies what it reads to its standard output, one     *)
(* connection after the other.  Data are counted in pieces, a piece being  *)
(* what one read() of at most BUF_SIZE characters returns.                 *)
(*                                                                         *)
(* The client's loop ends with exit(), so it copies the first piece only.  *)
(***************************************************************************)
EXTENDS Naturals, Sequences

CONSTANTS
  Copier,       \* the clients
  Input,        \* Input[c]: pieces on c's standard input
  BACKLOG,      \* 5 in the code
  MaxBroken     \* bound: failing calls and processes killed

\* What the constants have to be; IpcTasks assumes it.
CopyAssumption ==
  Input \in [Copier -> Nat] /\ BACKLOG \in Nat \ {0} /\ MaxBroken \in Nat

VARIABLES
  listener,   \* the server: "off", "accept", "read" or "exited"
  cfd,        \* the client whose connection the server reads, or "none"
  backlog,    \* connections not yet accepted
  copier,     \* copier[c]: "connect", "read", "write", "returned", "exited", "failed" or "killed"
  taken,      \* taken[c]: pieces c read from its standard input
  socket,     \* socket[c]: pieces in the connection
  output,     \* output[c]: pieces of c on the server's standard output
  broken

vars == <<listener, cfd, backlog, copier, taken, socket, output, broken>>

Init ==
  /\ listener = "off" /\ cfd = "none" /\ backlog = <<>>
  /\ copier = [c \in Copier |-> "connect"]
  /\ taken = [c \in Copier |-> 0]
  /\ socket = [c \in Copier |-> 0]
  /\ output = [c \in Copier |-> 0]
  /\ broken = 0

Up == listener \in {"accept", "read"}
Open(c) == copier[c] \in {"read", "write"}
Goto(c, label) == copier' = [copier EXCEPT ![c] = label]

----------------------------------------------------------------------------
\* socket, remove() of the old name, bind, listen.
Listen ==
  /\ listener = "off" /\ listener' = "accept"
  /\ UNCHANGED <<cfd, backlog, copier, taken, socket, output, broken>>

Accept ==
  /\ listener = "accept" /\ backlog # <<>>
  /\ cfd' = Head(backlog) /\ backlog' = Tail(backlog)
  /\ listener' = "read"
  /\ UNCHANGED <<copier, taken, socket, output, broken>>

\* read() and write() of one piece.
Transfer ==
  /\ listener = "read" /\ socket[cfd] > 0
  /\ socket' = [socket EXCEPT ![cfd] = @ - 1]
  /\ output' = [output EXCEPT ![cfd] = @ + 1]
  /\ UNCHANGED <<listener, cfd, backlog, copier, taken, broken>>

\* Mutant of AtEof: the server goes on when there is nothing to read yet.
AtEofEarly == socket[cfd] = 0

\* read() returns 0 when the connection is empty and the client has closed its end.
AtEof == socket[cfd] = 0 /\ ~Open(cfd)

Close ==
  /\ listener = "read" /\ AtEof
  /\ listener' = "accept" /\ cfd' = "none"
  /\ UNCHANGED <<backlog, copier, taken, socket, output, broken>>

\* One of the server's calls fails and it exits, or it is killed; its connections end.
ServerBreaks ==
  /\ listener # "exited" /\ broken < MaxBroken
  /\ broken' = broken + 1
  /\ listener' = "exited" /\ cfd' = "none" /\ backlog' = <<>>
  /\ UNCHANGED <<copier, taken, socket, output>>

----------------------------------------------------------------------------
\* connect waits for room in the backlog and fails without a server.
Connect(c) ==
  /\ copier[c] = "connect"
  /\ IF Up
       THEN Len(backlog) < BACKLOG /\ backlog' = Append(backlog, c) /\ Goto(c, "read")
       ELSE Goto(c, "failed") /\ UNCHANGED backlog
  /\ UNCHANGED <<listener, cfd, taken, socket, output, broken>>

\* read() of the standard input: a piece, or the end, on which main returns.
ReadInput(c) ==
  /\ copier[c] = "read"
  /\ IF taken[c] < Input[c]
       THEN taken' = [taken EXCEPT ![c] = @ + 1] /\ Goto(c, "write")
       ELSE Goto(c, "returned") /\ UNCHANGED taken
  /\ UNCHANGED <<listener, cfd, backlog, socket, output, broken>>

\* write(), and exit() inside the loop; SIGPIPE without a server.
Write(c) ==
  /\ copier[c] = "write"
  /\ IF Up
       THEN socket' = [socket EXCEPT ![c] = @ + 1] /\ Goto(c, "exited")
       ELSE Goto(c, "killed") /\ UNCHANGED socket
  /\ UNCHANGED <<listener, cfd, backlog, taken, output, broken>>

ClientBreaks(c) ==
  /\ Open(c) /\ broken < MaxBroken
  /\ broken' = broken + 1
  /\ Goto(c, "killed")
  /\ UNCHANGED <<listener, cfd, backlog, taken, socket, output>>

ServerStep == Accept \/ Transfer \/ Close
ClientStep(c) == Connect(c) \/ Write(c)

Next ==
  \/ Listen \/ ServerStep \/ ServerBreaks
  \/ \E c \in Copier : ClientStep(c) \/ ReadInput(c) \/ ClientBreaks(c)

Spec == Init /\ [][Next]_vars

----------------------------------------------------------------------------
\* The server waits for a client whose standard input has nothing to say.
WaitsForIdle == listener = "read" /\ copier[cfd] = "read"

(***************************************************************************)
(* A client that exits with EXIT_SUCCESS has copied its standard input to  *)
(* the socket, as the comment above its loop says.                         *)
(***************************************************************************)
StdinCopied == \A c \in Copier : copier[c] = "exited" => taken[c] = Input[c]
==============================================================================
