------------------------------ MODULE UpperCase ------------------------------
(***************************************************************************)
(* 6-Socket/task2 and task4: clients send their arguments as datagrams and *)
(* wait for each answer; a server returns every datagram in upper case.    *)
(* task2 goes over IPv4, where datagrams are lost, duplicated and          *)
(* reordered; task4 over Unix domain sockets, which are reliable, but      *)
(* where sending to a socket that is gone is an error.                     *)
(*                                                                         *)
(* A message is its number and its length; a datagram longer than BUF_SIZE *)
(* is cut by recvfrom.  Case is left out.                                  *)
(***************************************************************************)
EXTENDS Naturals, Sequences, SequencesExt

CONSTANTS
  Client,
  Length,     \* Length[j]: the length of argument j, for each client
  BUF_SIZE,   \* 10 in the code
  QLen,       \* datagrams a Unix socket holds
  MaxLost, MaxDup, MaxGone   \* bounds: datagrams lost and duplicated, processes killed

\* What the constants have to be; IpcTasks assumes it.
UpperCaseAssumption ==
  /\ Length \in Seq(Nat) /\ {BUF_SIZE, MaxLost, MaxDup, MaxGone} \subseteq Nat
  /\ QLen \in Nat \ {0}

VARIABLES
  family,     \* AF_INET (task2) or AF_UNIX (task4)
  server,     \* "off", "recv", "send", or "exited" (EXIT_FAILURE)
  datagram,   \* the one the server is working on
  inbox,      \* datagrams on their way to the server
  answers,    \* answers[c]: those on their way to c
  client,     \* client[c]: "start", "send", "recv", "done", "failed" or "killed"
  j,          \* j[c]: the argument c is at
  resp,       \* resp[c]: the answers c logged
  lost, dups, gone

served == <<server, datagram, inbox>>
asked == <<client, j, resp>>
faults == <<lost, dups, gone>>
vars == <<family, served, answers, asked, faults>>

None == [from |-> "none", j |-> 0, len |-> 0]

Init ==
  /\ family \in {"AF_INET", "AF_UNIX"}
  /\ server = "off" /\ datagram = None /\ inbox = <<>>
  /\ answers = [c \in Client |-> <<>>]
  /\ client = [c \in Client |-> "start"]
  /\ j = [c \in Client |-> 1]
  /\ resp = [c \in Client |-> <<>>]
  /\ lost = 0 /\ dups = 0 /\ gone = 0

Up == server \in {"recv", "send"}
Alive(c) == client[c] \in {"send", "recv"}

\* The positions recvfrom may take a datagram from.
Takeable(q) == IF family = "AF_INET" THEN DOMAIN q ELSE DOMAIN q \cap {1}

\* What recvfrom puts into a buffer of BUF_SIZE characters.
Cut(m) == [m EXCEPT !.len = IF @ > BUF_SIZE THEN BUF_SIZE ELSE @]

----------------------------------------------------------------------------
\* socket, in task4 remove() of the name an earlier server left, and bind; a server in which
\* one of them fails was never there.
StartServer ==
  /\ ~Up
  /\ server' = "recv" /\ inbox' = <<>>
  /\ UNCHANGED <<family, datagram, answers, asked, faults>>

ServerReceives ==
  /\ server = "recv"
  /\ \E k \in Takeable(inbox) : datagram' = Cut(inbox[k]) /\ inbox' = RemoveAt(inbox, k)
  /\ server' = "send"
  /\ UNCHANGED <<family, answers, asked, faults>>

\* Mutant of ReplyTo: the answer goes to a fixed client.
ReplyToFirst(m) == CHOOSE c \in Client : TRUE

\* claddr, the sender of the datagram.
ReplyTo(m) == m.from

\* sendto: over AF_UNIX it fails when the client is gone, and the server exits.
ServerSends ==
  LET c == ReplyTo(datagram)
  IN /\ server = "send"
     /\ IF Alive(c) \/ family = "AF_INET"
          THEN server' = "recv" /\ UNCHANGED inbox
          ELSE server' = "exited" /\ inbox' = <<>>
     /\ answers' = IF Alive(c) THEN [answers EXCEPT ![c] = Append(@, datagram)] ELSE answers
     /\ datagram' = None
     /\ UNCHANGED <<family, asked, faults>>

----------------------------------------------------------------------------
\* socket, and in task4 bind to a name made of the process id; or one of them fails.
StartClient(c) ==
  /\ client[c] = "start"
  /\ client' \in {[client EXCEPT ![c] = "send"], [client EXCEPT ![c] = "failed"]}
  /\ UNCHANGED <<family, served, answers, j, resp, faults>>

\* Mutant of Awaits: the answer to the last argument is not waited for.
AwaitsNot(n) == n < Len(Length)

\* After sendto the client waits for the answer to argument n.
Awaits(n) == TRUE

\* sendto: over AF_UNIX it waits for room and fails without a server; over AF_INET a
\* datagram nobody takes is lost.
ClientSends(c) ==
  /\ client[c] = "send" /\ j[c] <= Len(Length)
  /\ family = "AF_UNIX" /\ Up => Len(inbox) < QLen
  /\ client' = [client EXCEPT ![c] = IF family = "AF_UNIX" /\ ~Up THEN "failed"
                                     ELSE IF Awaits(j[c]) THEN "recv" ELSE "done"]
  /\ inbox' = IF Up THEN Append(inbox, [from |-> c, j |-> j[c], len |-> Length[j[c]]])
              ELSE inbox
  /\ lost' = IF family = "AF_INET" /\ ~Up THEN lost + 1 ELSE lost
  /\ UNCHANGED <<family, server, datagram, answers, j, resp, dups, gone>>

ClientReceives(c) ==
  /\ client[c] = "recv"
  /\ \E k \in Takeable(answers[c]) :
       /\ resp' = [resp EXCEPT ![c] = Append(@, Cut(answers[c][k]))]
       /\ answers' = [answers EXCEPT ![c] = RemoveAt(@, k)]
  /\ j' = [j EXCEPT ![c] = @ + 1]
  /\ client' = [client EXCEPT ![c] = "send"]
  /\ UNCHANGED <<family, served, faults>>

\* After the last argument, in task4 with remove() of the client's name.
ClientEnds(c) ==
  /\ client[c] = "send" /\ j[c] > Len(Length)
  /\ client' = [client EXCEPT ![c] = "done"]
  /\ answers' = [answers EXCEPT ![c] = <<>>]
  /\ UNCHANGED <<family, served, j, resp, faults>>

----------------------------------------------------------------------------
\* The network drops or repeats a datagram, in either direction.
Lose ==
  /\ family = "AF_INET" /\ lost < MaxLost
  /\ \/ /\ \E k \in DOMAIN inbox : inbox' = RemoveAt(inbox, k)
        /\ UNCHANGED answers
     \/ /\ \E c \in Client : \E k \in DOMAIN answers[c] :
             answers' = [answers EXCEPT ![c] = RemoveAt(@, k)]
        /\ UNCHANGED inbox
  /\ lost' = lost + 1
  /\ UNCHANGED <<family, server, datagram, asked, dups, gone>>

Duplicate ==
  /\ family = "AF_INET" /\ dups < MaxDup
  /\ \/ (\E k \in DOMAIN inbox : inbox' = Append(inbox, inbox[k])) /\ UNCHANGED answers
     \/ /\ \E c \in Client : \E k \in DOMAIN answers[c] :
             answers' = [answers EXCEPT ![c] = Append(@, @[k])]
        /\ UNCHANGED inbox
  /\ dups' = dups + 1
  /\ UNCHANGED <<family, server, datagram, asked, lost, gone>>

\* A client or the server is killed, or exits because some other call of its loop fails;
\* what was on its way to it is gone.  A client's name is left without a socket.
Kill ==
  /\ gone < MaxGone
  /\ gone' = gone + 1
  /\ \/ /\ \E c \in Client :
             /\ Alive(c)
             /\ client' = [client EXCEPT ![c] = "killed"]
             /\ answers' = [answers EXCEPT ![c] = <<>>]
        /\ UNCHANGED served
     \/ Up /\ server' = "off" /\ inbox' = <<>> /\ datagram' = None /\ UNCHANGED <<answers, client>>
  /\ UNCHANGED <<family, j, resp, lost, dups>>

ServerStep == ServerReceives \/ ServerSends
ClientStep(c) == StartClient(c) \/ ClientSends(c) \/ ClientReceives(c) \/ ClientEnds(c)

Next ==
  \/ StartServer \/ ServerStep \/ Lose \/ Duplicate \/ Kill
  \/ \E c \in Client : ClientStep(c)

Spec == Init /\ [][Next]_vars

----------------------------------------------------------------------------
(***************************************************************************)
(* A client logs answers to its own arguments only, cut to BUF_SIZE and    *)
(* none before it asked.  Unless a datagram was duplicated, answer k is    *)
(* the answer to argument k; a duplicate is taken for the next answer.     *)
(***************************************************************************)
AnswersMatch ==
  \A c \in Client : \A k \in DOMAIN resp[c] :
    LET a == resp[c][k]
    IN /\ a.from = c /\ a.j <= k /\ a = Cut([a EXCEPT !.len = Length[a.j]])
       /\ dups = 0 => a.j = k

(***************************************************************************)
(* An answer that cannot be sent ends the server, but only over AF_UNIX    *)
(* and only if a client was killed before it had its answer: one that ends *)
(* has taken every answer, so its name is not removed while the server     *)
(* works for it.                                                           *)
(***************************************************************************)
ServerExitsOnlyForDead ==
  server = "exited" => family = "AF_UNIX" /\ \E c \in Client : client[c] = "killed"

\* The datagrams of client c and the answers to them that are on their way.
OnTheWay(c) ==
  {k \in DOMAIN inbox : inbox[k].from = c} # {} \/ datagram.from = c \/ answers[c] # <<>>

\* Client c waits for an answer that was lost, or that a killed server owed it.
Bereft(c) == client[c] = "recv" /\ ~OnTheWay(c) /\ (lost > 0 \/ gone > 0)

\* Every client ended or was killed, but for those.
AllAnswered == \A c \in Client : client[c] \in {"done", "failed", "killed"} \/ Bereft(c)
==============================================================================
