--------------------------- MODULE IpcTasksProofs ---------------------------
(***************************************************************************)
(* Proofs about IpcTasks, for every set of clients, producers and          *)
(* consumers, every list of arguments and every bound on faults.           *)
(***************************************************************************)
EXTENDS IpcTasks, TLAPS

----------------------------------------------------------------------------
(***************************************************************************)
(* 9-ShareMemory.  The object only grows: ProductSize is about its length, *)
(* ProductFields about its content.  A consumer that began after some      *)
(* producer had finished finds every field it copies written.              *)
(***************************************************************************)
ProductTypes ==
  /\ object \subseteq Shm!Field /\ size \in {"absent", "empty", "product"}
  /\ making \in [Producer -> {"open", "truncate", "map", "copy", "done", "dead"}]
  /\ put \in [Producer -> SUBSET Shm!Field]
  /\ using \in [Consumer -> {"open", "stat", "map", "copy", "done", "dead"}]
  /\ sb \in [Consumer -> {"absent", "empty", "product"}]
  /\ product \in [Consumer -> SUBSET Shm!Field]
  /\ got \in [Consumer -> SUBSET Shm!Field]
  /\ ready \in [Consumer -> BOOLEAN]

ProductSize ==
  /\ \A p \in Producer : making[p] \in {"map", "copy", "done"} => size = "product"
  /\ \A c \in Consumer :
       /\ using[c] = "stat" => size # "absent"
       /\ using[c] = "map" => sb[c] # "absent"
       /\ sb[c] = "product" \/ using[c] = "copy" => size = "product"

ProductFields ==
  /\ \A p \in Producer :
       put[p] \subseteq object /\ (making[p] = "done" => put[p] = Shm!Field)
  /\ \A c \in Consumer :
       /\ using[c] \in {"open", "stat", "map"} => got[c] = {}
       /\ using[c] = "done" => got[c] = Shm!Field
       /\ ready[c] => object = Shm!Field /\ got[c] \subseteq product[c]

ProductInv == ProductTypes /\ ProductSize /\ ProductFields

\* Every step of a producer or consumer, and every death, keeps ProductInv.
LEMMA ProductStep == ProductInv /\ [Shm!Next]_shm => ProductInv'
<1> SUFFICES ASSUME ProductInv, [Shm!Next]_shm PROVE ProductInv'
  OBVIOUS
<1> USE DEF ProductInv, Shm!shm, Shm!made, Shm!used
<1>1. ASSUME NEW p \in Producer, Shm!ShmOpen(p) PROVE ProductInv'
  <2>1. ProductTypes'
    BY <1>1 DEF ProductTypes, Shm!ShmOpen
  <2>2. ProductSize'
    BY <1>1 DEF ProductTypes, ProductSize, Shm!ShmOpen
  <2>3. ProductFields'
    BY <1>1 DEF ProductTypes, ProductFields, Shm!ShmOpen
  <2> QED
    BY <2>1, <2>2, <2>3
<1>2. ASSUME NEW p \in Producer, Shm!Ftruncate(p) PROVE ProductInv'
  <2>1. ProductTypes'
    BY <1>2 DEF ProductTypes, Shm!Ftruncate
  <2>2. ProductSize'
    BY <1>2 DEF ProductTypes, ProductSize, Shm!Ftruncate
  <2>3. ProductFields'
    BY <1>2 DEF ProductTypes, ProductFields, Shm!Ftruncate
  <2> QED
    BY <2>1, <2>2, <2>3
<1>3. ASSUME NEW p \in Producer, Shm!Map(p) PROVE ProductInv'
  <2>1. ProductTypes'
    BY <1>3 DEF ProductTypes, Shm!Map
  <2>2. ProductSize'
    BY <1>3 DEF ProductTypes, ProductSize, Shm!Map
  <2>3. ProductFields'
    BY <1>3 DEF ProductTypes, ProductFields, Shm!Map
  <2> QED
    BY <2>1, <2>2, <2>3
<1>4. ASSUME NEW p \in Producer, Shm!CopyIn(p) PROVE ProductInv'
  <2>1. ProductTypes'
    BY <1>4 DEF ProductTypes, Shm!CopyIn
  <2>2. ProductSize'
    BY <1>4 DEF ProductTypes, ProductSize, Shm!CopyIn
  <2>3. ProductFields'
    <3>1. CASE put[p] = Shm!Field /\ UNCHANGED <<put, object>>
      BY <1>4, <3>1 DEF ProductTypes, ProductFields, Shm!CopyIn
    <3>2. ASSUME NEW f \in Shm!Field \ put[p], put' = [put EXCEPT ![p] = @ \cup {f}],
                 object' = object \cup {f}, UNCHANGED making
          PROVE  ProductFields'
      <4>1. making[p] = "copy" /\ UNCHANGED <<using, got, ready, product>>
        BY <1>4 DEF Shm!CopyIn
      <4>2. object' = Shm!Field \/ object # Shm!Field
        BY <3>2 DEF ProductTypes
      <4> QED
        BY <3>2, <4>1, <4>2 DEF ProductTypes, ProductFields
    <3> QED
      BY <1>4, <3>1, <3>2 DEF Shm!CopyIn
  <2> QED
    BY <2>1, <2>2, <2>3
<1>5. ASSUME NEW c \in Consumer, Shm!OpenExisting(c) PROVE ProductInv'
  <2>1. ProductTypes'
    BY <1>5 DEF ProductTypes, Shm!OpenExisting
  <2>2. ProductSize'
    BY <1>5 DEF ProductTypes, ProductSize, Shm!OpenExisting
  <2>3. ProductFields'
    BY <1>5 DEF ProductTypes, ProductFields, Shm!OpenExisting
  <2> QED
    BY <2>1, <2>2, <2>3
<1>6. ASSUME NEW c \in Consumer, Shm!Fstat(c) PROVE ProductInv'
  <2>1. ProductTypes'
    BY <1>6 DEF ProductTypes, Shm!Fstat
  <2>2. ProductSize'
    BY <1>6 DEF ProductTypes, ProductSize, Shm!Fstat
  <2>3. ProductFields'
    BY <1>6 DEF ProductTypes, ProductFields, Shm!Fstat
  <2> QED
    BY <2>1, <2>2, <2>3
<1>7. ASSUME NEW c \in Consumer, Shm!MapExisting(c) PROVE ProductInv'
  <2>1. ProductTypes'
    BY <1>7 DEF ProductTypes, Shm!MapExisting
  <2>2. ProductSize'
    BY <1>7 DEF ProductTypes, ProductSize, Shm!MapExisting
  <2>3. ProductFields'
    BY <1>7 DEF ProductTypes, ProductFields, Shm!MapExisting
  <2> QED
    BY <2>1, <2>2, <2>3
<1>8. ASSUME NEW c \in Consumer, Shm!CopyOut(c) PROVE ProductInv'
  <2>1. ProductTypes'
    BY <1>8 DEF ProductTypes, Shm!CopyOut
  <2>2. ProductSize'
    BY <1>8 DEF ProductTypes, ProductSize, Shm!CopyOut
  <2>3. ProductFields'
    BY <1>8 DEF ProductTypes, ProductFields, Shm!CopyOut
  <2> QED
    BY <2>1, <2>2, <2>3
<1>9. CASE Shm!Die
  <2>1. ProductTypes'
    BY <1>9 DEF ProductTypes, Shm!Die
  <2>2. ProductSize'
    BY <1>9 DEF ProductTypes, ProductSize, Shm!Die
  <2>3. ProductFields'
    BY <1>9 DEF ProductTypes, ProductFields, Shm!Die
  <2> QED
    BY <2>1, <2>2, <2>3
<1>10. CASE UNCHANGED shm
  BY <1>10 DEF shm, ProductTypes, ProductSize, ProductFields
<1> QED
  BY <1>1, <1>2, <1>3, <1>4, <1>5, <1>6, <1>7, <1>8, <1>9, <1>10 DEF Shm!Next

----------------------------------------------------------------------------
(***************************************************************************)
(* 6-Socket task2 and task4.  Every datagram on its way belongs to a       *)
(* client that asked for it and carries the length recvfrom leaves.        *)
(***************************************************************************)
Datagram == [from : Client, j : 1 .. Len(Length), len : Nat]

Short(n) == IF n > BUF_SIZE THEN BUF_SIZE ELSE n

UpperTypes ==
  /\ family \in {"AF_INET", "AF_UNIX"}
  /\ server \in {"off", "recv", "send", "exited"}
  /\ inbox \in Seq(Datagram)
  /\ server = "send" => datagram \in Datagram
  /\ answers \in [Client -> Seq(Datagram)]
  /\ client \in [Client -> {"start", "send", "recv", "done", "failed", "killed"}]
  /\ j \in [Client -> 1 .. Len(Length) + 1]
  /\ resp \in [Client -> Seq(Datagram)]
  /\ dups \in Nat
  /\ \A c \in Client : client[c] = "recv" => j[c] <= Len(Length)

\* What RemoveAt(s, k) of SequencesExt leaves: the others, in their order.
LEMMA RemoveAtProperties ==
  ASSUME NEW S, NEW s \in Seq(S), NEW k \in 1 .. Len(s)
  PROVE  /\ Upper!RemoveAt(s, k) \in Seq(S)
         /\ Len(Upper!RemoveAt(s, k)) = Len(s) - 1
         /\ \A n \in 1 .. Len(s) - 1 :
              Upper!RemoveAt(s, k)[n] = IF n < k THEN s[n] ELSE s[n + 1]
<1> DEFINE a == SubSeq(s, 1, k - 1)
           b == SubSeq(s, k + 1, Len(s))
<1>1. a \in Seq(S) /\ Len(a) = k - 1 /\ \A n \in 1 .. k - 1 : a[n] = s[n]
  OBVIOUS
<1>2. b \in Seq(S) /\ Len(b) = Len(s) - k /\ \A n \in 1 .. Len(s) - k : b[n] = s[k + n]
  OBVIOUS
<1>3. Upper!RemoveAt(s, k) = a \o b
  BY DEF Upper!RemoveAt
<1> HIDE DEF a, b
<1>4. a \o b \in Seq(S) /\ Len(a \o b) = Len(s) - 1
  BY <1>1, <1>2
<1>5. ASSUME NEW n \in 1 .. Len(s) - 1
      PROVE  (a \o b)[n] = IF n < k THEN s[n] ELSE s[n + 1]
  <2>1. CASE n < k
    BY <1>1, <1>2, <2>1
  <2>2. CASE n >= k
    <3>1. (a \o b)[n] = b[n - Len(a)]
      BY <1>1, <1>2, <2>2
    <3>2. n - Len(a) \in 1 .. Len(s) - k /\ k + (n - Len(a)) = n + 1
      BY <1>1, <2>2
    <3>3. b[n - Len(a)] = s[n + 1]
      BY <1>2, <3>2
    <3> QED
      BY <2>2, <3>1, <3>3
  <2>3. n < k \/ n >= k
    OBVIOUS
  <2> QED
    BY <2>1, <2>2, <2>3
<1> QED
  BY <1>3, <1>4, <1>5

(***************************************************************************)
(* A client is never ahead of what it has logged, and whatever it is sent  *)
(* answers an argument it has come to.                                     *)
(***************************************************************************)
UpperOwn ==
  /\ \A k \in 1 .. Len(inbox) :
       inbox[k].j <= j[inbox[k].from] /\ inbox[k].len = Length[inbox[k].j]
  /\ server = "send" =>
       datagram.j <= j[datagram.from] /\ datagram.len = Short(Length[datagram.j])
  /\ \A c \in Client : \A k \in 1 .. Len(answers[c]) :
       /\ answers[c][k].from = c /\ answers[c][k].j <= j[c]
       /\ answers[c][k].len = Short(Length[answers[c][k].j])
  /\ \A c \in Client :
       /\ Len(resp[c]) = j[c] - 1
       /\ \A k \in 1 .. Len(resp[c]) :
            /\ resp[c][k].from = c /\ resp[c][k].j <= k
            /\ resp[c][k].len = Short(Length[resp[c][k].j])

(***************************************************************************)
(* Unless a datagram was duplicated, a client has at most one on its way,  *)
(* in one place, and only while it waits for it or after it was killed.    *)
(***************************************************************************)
Awaited(m) == client[m.from] \in {"recv", "killed"} /\ m.j = j[m.from]

InboxOnce ==
  /\ \A k \in 1 .. Len(inbox) : Awaited(inbox[k])
  /\ \A k, l \in 1 .. Len(inbox) : inbox[k].from = inbox[l].from => k = l

WorkOnce ==
  server = "send" =>
    Awaited(datagram) /\ \A k \in 1 .. Len(inbox) : inbox[k].from # datagram.from

AnswersOnce ==
  \A c \in Client :
    /\ Len(answers[c]) <= 1
    /\ \A k \in 1 .. Len(answers[c]) :
         /\ client[c] = "recv" /\ answers[c][k].j = j[c]
         /\ \A l \in 1 .. Len(inbox) : inbox[l].from # c
         /\ server = "send" => datagram.from # c

RespOnce == \A c \in Client : \A k \in 1 .. Len(resp[c]) : resp[c][k].j = k

UpperOnce == dups = 0 => InboxOnce /\ WorkOnce /\ AnswersOnce /\ RespOnce

UpperEnd ==
  /\ family = "AF_UNIX" => dups = 0
  /\ server = "exited" => family = "AF_UNIX" /\ \E c \in Client : client[c] = "killed"

UpperInv == UpperTypes /\ UpperOwn /\ UpperOnce /\ UpperEnd

\* The constants, as IpcAssumption has them.
LEMMA UpperConstants ==
  /\ Length \in Seq(Nat) /\ Len(Length) \in Nat /\ BUF_SIZE \in Nat
  /\ \A n \in 1 .. Len(Length) : Length[n] \in Nat
  BY IpcAssumption DEF Upper!UpperCaseAssumption

\* Every datagram on its way has a sender and a number.
LEMMA DatagramFields ==
  ASSUME UpperTypes
  PROVE  /\ \A k \in 1 .. Len(inbox) : inbox[k].from \in Client /\ inbox[k].j \in Nat
         /\ server = "send" => datagram.from \in Client /\ datagram.j \in Nat
         /\ \A c \in Client : \A k \in 1 .. Len(answers[c]) : answers[c][k].j \in Nat
<1>1. \A m \in Datagram : m.from \in Client /\ m.j \in Nat
  BY UpperConstants DEF Datagram
<1> QED
  BY <1>1 DEF UpperTypes

\* recvfrom keeps the sender and the number and cuts the length, once and for all.
LEMMA CutProperties ==
  ASSUME NEW m \in Datagram
  PROVE  /\ Upper!Cut(m) \in Datagram
         /\ Upper!Cut(m).from = m.from /\ Upper!Cut(m).j = m.j
         /\ Upper!Cut(m).len = Short(m.len)
         /\ Short(Short(m.len)) = Short(m.len)
  BY UpperConstants DEF Datagram, Upper!Cut, Short

\* The datagrams of new are some of those of old.
Fewer(new, old) ==
  /\ new \in Seq(Datagram) /\ Len(new) <= Len(old)
  /\ \A n \in 1 .. Len(new) : \E a \in 1 .. Len(old) : new[n] = old[a]
  /\ \A n, m \in 1 .. Len(new) :
       n # m => \E a, b \in 1 .. Len(old) : a # b /\ new[n] = old[a] /\ new[m] = old[b]

\* RemoveAt, emptying and leaving alone give fewer datagrams.
LEMMA FewerProperties ==
  ASSUME NEW s \in Seq(Datagram)
  PROVE  Fewer(s, s) /\ Fewer(<<>>, s) /\ \A k \in 1 .. Len(s) : Fewer(Upper!RemoveAt(s, k), s)
<1>1. Fewer(s, s)
  BY DEF Fewer
<1>2. Fewer(<<>>, s)
  BY DEF Fewer
<1>3. ASSUME NEW k \in 1 .. Len(s) PROVE Fewer(Upper!RemoveAt(s, k), s)
  <2> DEFINE r == Upper!RemoveAt(s, k)
             at(n) == IF n < k THEN n ELSE n + 1
  <2>1. r \in Seq(Datagram) /\ Len(r) = Len(s) - 1
    BY RemoveAtProperties
  <2>2. \A n \in 1 .. Len(r) : r[n] = IF n < k THEN s[n] ELSE s[n + 1]
    BY <2>1, RemoveAtProperties
  <2>3. \A n \in 1 .. Len(r) : at(n) \in 1 .. Len(s) /\ r[n] = s[at(n)]
    BY <2>1, <2>2
  <2>4. \A n, m \in 1 .. Len(r) : n # m => at(n) # at(m)
    OBVIOUS
  <2> HIDE DEF r, at
  <2>5. ASSUME NEW n \in 1 .. Len(r), NEW m \in 1 .. Len(r), n # m
        PROVE  \E a, b \in 1 .. Len(s) : a # b /\ r[n] = s[a] /\ r[m] = s[b]
    <3>1. at(n) \in 1 .. Len(s) /\ at(m) \in 1 .. Len(s) /\ at(n) # at(m)
      BY <2>3, <2>4, <2>5
    <3> QED
      BY <2>3, <3>1
  <2>6. \A n \in 1 .. Len(r) : \E a \in 1 .. Len(s) : r[n] = s[a]
    BY <2>3
  <2>7. Len(r) <= Len(s)
    BY <2>1
  <2>8. Fewer(r, s)
    BY <2>1, <2>5, <2>6, <2>7 DEF Fewer
  <2> QED
    BY <2>8 DEF r
<1> QED
  BY <1>1, <1>2, <1>3

(***************************************************************************)
(* UpperInv is kept when datagrams disappear, the server stops working on  *)
(* one, and clients for which nothing is on its way change their state.    *)
(***************************************************************************)
LEMMA UpperFewer ==
  ASSUME UpperInv, Fewer(inbox', inbox),
         answers' \in [Client -> Seq(Datagram)],
         \A c \in Client : Fewer(answers'[c], answers[c]),
         server' \in {"off", "recv"} \/ UNCHANGED <<server, datagram>>,
         client' \in [Client -> {"start", "send", "recv", "done", "failed", "killed"}],
         \A c \in Client :
           \/ client'[c] = client[c]
           \/ client'[c] = "killed" /\ client[c] # "killed" /\ answers'[c] = <<>>
           \/ client[c] \in {"start", "send"} /\ (client'[c] = "recv" => j[c] <= Len(Length)),
         UNCHANGED <<family, j, resp, dups>>
  PROVE  UpperInv'
<1> USE DEF UpperInv
<1>1. UpperTypes'
  BY DEF UpperTypes, Fewer
<1>2. UpperOwn'
  <2>1. \A k \in 1 .. Len(inbox') :
          inbox'[k].j <= j[inbox'[k].from] /\ inbox'[k].len = Length[inbox'[k].j]
    <3> TAKE k \in 1 .. Len(inbox')
    <3>1. PICK a \in 1 .. Len(inbox) : inbox'[k] = inbox[a]
      BY DEF Fewer
    <3> QED
      BY <3>1 DEF UpperOwn
  <2>2. ASSUME NEW c \in Client, NEW k \in 1 .. Len(answers'[c])
        PROVE  /\ answers'[c][k].from = c /\ answers'[c][k].j <= j[c]
               /\ answers'[c][k].len = Short(Length[answers'[c][k].j])
    <3>1. PICK a \in 1 .. Len(answers[c]) : answers'[c][k] = answers[c][a]
      BY <2>2 DEF Fewer
    <3> QED
      BY <3>1 DEF UpperOwn
  <2>3. server' = "send" =>
          datagram'.j <= j[datagram'.from] /\ datagram'.len = Short(Length[datagram'.j])
    BY DEF UpperOwn
  <2> QED
    BY <2>1, <2>2, <2>3 DEF UpperOwn
<1>3. ASSUME dups = 0 PROVE InboxOnce' /\ WorkOnce' /\ AnswersOnce' /\ RespOnce'
  <2>1. InboxOnce /\ WorkOnce /\ AnswersOnce /\ RespOnce
    BY <1>3 DEF UpperOnce
  <2>2. ASSUME NEW m \in Datagram, Awaited(m)
        PROVE  client'[m.from] \in {"recv", "killed"} /\ m.j = j'[m.from]
    <3>1. m.from \in Client
      BY DEF Datagram
    <3> QED
      BY <2>2, <3>1 DEF Awaited
  <2>3. InboxOnce'
    <3>1. ASSUME NEW k \in 1 .. Len(inbox') PROVE Awaited(inbox[k])'
      <4>1. PICK a \in 1 .. Len(inbox) : inbox'[k] = inbox[a]
        BY <3>1 DEF Fewer
      <4>2. inbox[a] \in Datagram
        BY DEF UpperTypes
      <4>3. Awaited(inbox[a])
        BY <2>1 DEF InboxOnce
      <4> QED
        BY <2>2, <4>1, <4>2, <4>3 DEF Awaited
    <3>2. ASSUME NEW k \in 1 .. Len(inbox'), NEW l \in 1 .. Len(inbox'), k # l
          PROVE  inbox'[k].from # inbox'[l].from
      <4>1. PICK a \in 1 .. Len(inbox), b \in 1 .. Len(inbox) :
              a # b /\ inbox'[k] = inbox[a] /\ inbox'[l] = inbox[b]
        BY <3>2 DEF Fewer
      <4> QED
        BY <2>1, <4>1 DEF InboxOnce
    <3> QED
      BY <3>1, <3>2 DEF InboxOnce
  <2>4. WorkOnce'
    <3> SUFFICES ASSUME server' = "send" PROVE WorkOnce'
      BY DEF WorkOnce
    <3>1. server = "send" /\ datagram' = datagram /\ datagram \in Datagram
      BY DEF UpperTypes
    <3>2. Awaited(datagram)'
      BY <2>1, <2>2, <3>1 DEF WorkOnce, Awaited
    <3>3. \A k \in 1 .. Len(inbox') : inbox'[k].from # datagram.from
      BY <2>1, <3>1 DEF Fewer, WorkOnce
    <3> QED
      BY <3>1, <3>2, <3>3 DEF WorkOnce
  <2>5. AnswersOnce'
    <3> SUFFICES ASSUME NEW c \in Client
                 PROVE  /\ Len(answers'[c]) <= 1
                        /\ \A k \in 1 .. Len(answers'[c]) :
                             /\ client'[c] = "recv" /\ answers'[c][k].j = j[c]
                             /\ \A l \in 1 .. Len(inbox') : inbox'[l].from # c
                             /\ server' = "send" => datagram'.from # c
      BY DEF AnswersOnce
    <3>1. Len(answers[c]) \in Nat /\ Len(answers'[c]) \in Nat
      BY DEF UpperTypes
    <3>2. Len(answers'[c]) <= 1
      BY <2>1, <3>1 DEF Fewer, AnswersOnce
    <3>3. ASSUME NEW k \in 1 .. Len(answers'[c])
          PROVE  /\ client'[c] = "recv" /\ answers'[c][k].j = j[c]
                 /\ \A l \in 1 .. Len(inbox') : inbox'[l].from # c
                 /\ server' = "send" => datagram'.from # c
      <4>1. PICK a \in 1 .. Len(answers[c]) : answers'[c][k] = answers[c][a]
        BY <3>3 DEF Fewer
      <4>2. client[c] = "recv" /\ answers'[c] # <<>>
        BY <2>1, <3>3, <4>1 DEF AnswersOnce
      <4>3. client'[c] = "recv"
        BY <4>2
      <4>4. answers'[c][k].j = j[c]
        BY <2>1, <4>1 DEF AnswersOnce
      <4>5. \A l \in 1 .. Len(inbox') : inbox'[l].from # c
        BY <2>1, <4>1 DEF AnswersOnce, Fewer
      <4>6. server' = "send" => datagram'.from # c
        BY <2>1, <4>1 DEF AnswersOnce
      <4> QED
        BY <4>3, <4>4, <4>5, <4>6
    <3> QED
      BY <3>2, <3>3
  <2>6. RespOnce'
    BY <2>1 DEF RespOnce
  <2> QED
    BY <2>3, <2>4, <2>5, <2>6
<1>4. UpperOnce'
  BY <1>3 DEF UpperOnce
<1>5. UpperEnd'
  BY DEF UpperEnd
<1> QED
  BY <1>1, <1>2, <1>4, <1>5

\* recvfrom of the server keeps UpperInv: the datagram it takes was the only one of its client.
LEMMA UpperServerReceives == UpperInv /\ Upper!ServerReceives => UpperInv'
<1> SUFFICES ASSUME UpperInv, Upper!ServerReceives PROVE UpperInv'
  OBVIOUS
<1> USE DEF UpperInv
<1>1. PICK k \in Upper!Takeable(inbox) :
        datagram' = Upper!Cut(inbox[k]) /\ inbox' = Upper!RemoveAt(inbox, k)
  BY DEF Upper!ServerReceives
<1>2. k \in 1 .. Len(inbox) /\ inbox \in Seq(Datagram) /\ inbox[k] \in Datagram
  BY DEF UpperTypes, Upper!Takeable
<1>3. /\ server = "recv" /\ server' = "send"
      /\ UNCHANGED <<family, answers, client, j, resp, dups>>
  BY DEF Upper!ServerReceives, Upper!asked, Upper!faults
<1>4. /\ datagram' \in Datagram
      /\ datagram'.from = inbox[k].from /\ datagram'.j = inbox[k].j
      /\ datagram'.len = Short(inbox[k].len)
  BY <1>1, <1>2, CutProperties
<1>5. /\ inbox' \in Seq(Datagram) /\ Len(inbox') = Len(inbox) - 1
      /\ \A n \in 1 .. Len(inbox) - 1 : inbox'[n] = IF n < k THEN inbox[n] ELSE inbox[n + 1]
  BY <1>1, <1>2, RemoveAtProperties
<1>6. \A n \in 1 .. Len(inbox') : \E l \in 1 .. Len(inbox) : l # k /\ inbox'[n] = inbox[l]
  BY <1>2, <1>5
<1>7. Fewer(inbox', inbox)
  BY <1>1, <1>2, FewerProperties
<1>8. UpperTypes'
  BY <1>3, <1>4, <1>5 DEF UpperTypes
<1>9. UpperOwn'
  <2>1. ASSUME NEW n \in 1 .. Len(inbox')
        PROVE  inbox'[n].j <= j[inbox'[n].from] /\ inbox'[n].len = Length[inbox'[n].j]
    <3>1. PICK a \in 1 .. Len(inbox) : inbox'[n] = inbox[a]
      BY <1>6
    <3> QED
      BY <3>1 DEF UpperOwn
  <2>2. datagram'.j <= j[datagram'.from] /\ datagram'.len = Short(Length[datagram'.j])
    BY <1>2, <1>4 DEF UpperOwn
  <2> QED
    BY <1>3, <2>1, <2>2 DEF UpperOwn
<1>10. ASSUME dups = 0 PROVE InboxOnce' /\ WorkOnce' /\ AnswersOnce' /\ RespOnce'
  <2>1. InboxOnce /\ AnswersOnce /\ RespOnce
    BY <1>10 DEF UpperOnce
  <2>2. InboxOnce'
    <3>1. ASSUME NEW n \in 1 .. Len(inbox') PROVE Awaited(inbox[n])'
      <4>1. PICK a \in 1 .. Len(inbox) : inbox'[n] = inbox[a]
        BY <1>6
      <4> QED
        BY <1>3, <2>1, <4>1 DEF InboxOnce, Awaited
    <3>2. ASSUME NEW n \in 1 .. Len(inbox'), NEW l \in 1 .. Len(inbox'), n # l
          PROVE  inbox'[n].from # inbox'[l].from
      <4>1. PICK a \in 1 .. Len(inbox), b \in 1 .. Len(inbox) :
              a # b /\ inbox'[n] = inbox[a] /\ inbox'[l] = inbox[b]
        BY <1>7, <3>2 DEF Fewer
      <4> QED
        BY <2>1, <4>1 DEF InboxOnce
    <3> QED
      BY <3>1, <3>2 DEF InboxOnce
  <2>3. WorkOnce'
    <3>1. Awaited(datagram)'
      BY <1>2, <1>3, <1>4, <2>1 DEF InboxOnce, Awaited
    <3>2. ASSUME NEW n \in 1 .. Len(inbox') PROVE inbox'[n].from # datagram'.from
      <4>1. PICK a \in 1 .. Len(inbox) : a # k /\ inbox'[n] = inbox[a]
        BY <1>6
      <4> QED
        BY <1>2, <1>4, <2>1, <4>1 DEF InboxOnce
    <3> QED
      BY <3>1, <3>2 DEF WorkOnce
  <2>4. AnswersOnce'
    <3>1. ASSUME NEW c \in Client, NEW l \in 1 .. Len(answers[c]), NEW n \in 1 .. Len(inbox')
          PROVE  inbox'[n].from # c
      <4>1. PICK a \in 1 .. Len(inbox) : inbox'[n] = inbox[a]
        BY <1>6
      <4> QED
        BY <2>1, <4>1 DEF AnswersOnce
    <3>2. ASSUME NEW c \in Client, NEW l \in 1 .. Len(answers[c]) PROVE datagram'.from # c
      BY <1>2, <1>4, <2>1 DEF AnswersOnce
    <3> QED
      BY <1>3, <2>1, <3>1, <3>2 DEF AnswersOnce
  <2>5. RespOnce'
    BY <1>3, <2>1 DEF RespOnce
  <2> QED
    BY <2>2, <2>3, <2>4, <2>5
<1>11. UpperOnce'
  BY <1>3, <1>10 DEF UpperOnce
<1>12. UpperEnd'
  BY <1>3 DEF UpperEnd
<1> QED
  BY <1>8, <1>9, <1>11, <1>12

(***************************************************************************)
(* sendto of the server keeps UpperInv: the client answered is waiting, or *)
(* was killed; no other answer is on its way to it.                        *)
(***************************************************************************)
LEMMA UpperServerSends == UpperInv /\ Upper!ServerSends => UpperInv'
<1> SUFFICES ASSUME UpperInv, Upper!ServerSends PROVE UpperInv'
  OBVIOUS
<1> USE DEF UpperInv
<1> DEFINE c == datagram.from
<1>1. server = "send" /\ datagram \in Datagram /\ c \in Client
  BY DEF Upper!ServerSends, UpperTypes, Datagram
<1>2. UNCHANGED <<family, client, j, resp, dups>>
  BY DEF Upper!ServerSends, Upper!asked, Upper!faults
<1>3. answers' = IF Upper!Alive(c) THEN [answers EXCEPT ![c] = Append(@, datagram)] ELSE answers
  BY DEF Upper!ServerSends, Upper!ReplyTo
<1>4. \/ server' = "recv" /\ UNCHANGED inbox
      \/ server' = "exited" /\ inbox' = <<>> /\ ~Upper!Alive(c) /\ family # "AF_INET"
  BY DEF Upper!ServerSends, Upper!ReplyTo
<1>5. inbox' \in Seq(Datagram) /\ \A n \in 1 .. Len(inbox') :
        n \in 1 .. Len(inbox) /\ inbox'[n] = inbox[n]
  <2>1. inbox \in Seq(Datagram) /\ (inbox' = inbox \/ inbox' = <<>>)
    BY <1>4 DEF UpperTypes
  <2>2. CASE inbox' = <<>>
    BY <2>2
  <2> QED
    BY <2>1, <2>2
<1> HIDE DEF c
<1>6. ASSUME NEW d \in Client
      PROVE  /\ answers'[d] \in Seq(Datagram)
             /\ d # c \/ ~Upper!Alive(c) => answers'[d] = answers[d]
             /\ d = c /\ Upper!Alive(c) => answers'[d] = Append(answers[d], datagram)
  BY <1>1, <1>3 DEF UpperTypes
<1>7. UpperTypes'
  <2>1. answers' \in [Client -> Seq(Datagram)]
    BY <1>1, <1>3 DEF UpperTypes
  <2> QED
    BY <1>2, <1>4, <1>5, <2>1 DEF UpperTypes
<1>8. UpperOwn'
  <2>1. ASSUME NEW d \in Client, NEW k \in 1 .. Len(answers'[d])
        PROVE  /\ answers'[d][k].from = d /\ answers'[d][k].j <= j[d]
               /\ answers'[d][k].len = Short(Length[answers'[d][k].j])
    <3>1. answers[d] \in Seq(Datagram)
      BY DEF UpperTypes
    <3>2. \/ k \in 1 .. Len(answers[d]) /\ answers'[d][k] = answers[d][k]
          \/ d = c /\ answers'[d][k] = datagram
      BY <1>1, <1>6, <3>1
    <3>3. /\ datagram.from = c /\ datagram.j <= j[c]
          /\ datagram.len = Short(Length[datagram.j])
      BY <1>1 DEF UpperOwn, c
    <3> QED
      BY <3>2, <3>3 DEF UpperOwn
  <2> QED
    BY <1>2, <1>4, <1>5, <2>1 DEF UpperOwn
<1>9. ASSUME dups = 0 PROVE InboxOnce' /\ WorkOnce' /\ AnswersOnce' /\ RespOnce'
  <2>1. InboxOnce /\ WorkOnce /\ AnswersOnce /\ RespOnce
    BY <1>9 DEF UpperOnce
  <2>2. InboxOnce'
    BY <1>2, <1>5, <2>1 DEF InboxOnce, Awaited
  <2>3. WorkOnce'
    BY <1>4 DEF WorkOnce
  <2>4. Len(answers[c]) = 0 /\ answers[c] \in Seq(Datagram)
    <3>1. answers[c] \in Seq(Datagram)
      BY <1>1 DEF UpperTypes
    <3> DEFINE n == Len(answers[c])
    <3>2. n # 1
      BY <1>1, <2>1, <3>1 DEF AnswersOnce, c
    <3>3. n <= 1 /\ n \in Nat
      BY <1>1, <2>1, <3>1 DEF AnswersOnce
    <3> HIDE DEF n
    <3>4. n = 0
      BY <3>2, <3>3
    <3> QED
      BY <3>1, <3>4 DEF n
  <2>5. ASSUME NEW d \in Client
        PROVE  /\ Len(answers'[d]) <= 1
               /\ \A k \in 1 .. Len(answers'[d]) :
                    /\ client[d] = "recv" /\ answers'[d][k].j = j[d]
                    /\ \A l \in 1 .. Len(inbox') : inbox'[l].from # d
    <3>1. CASE d = c /\ Upper!Alive(c)
      <4>1. Len(answers'[d]) = 1 /\ answers'[d][1] = datagram
        <5>1. answers'[d] = Append(answers[c], datagram)
          BY <1>6, <3>1
        <5> QED
          BY <1>1, <2>4, <5>1
      <4>2. client[d] = "recv" /\ datagram.j = j[d]
        BY <1>1, <2>1, <3>1 DEF WorkOnce, Awaited, Upper!Alive, c
      <4>3. \A l \in 1 .. Len(inbox') : inbox'[l].from # d
        BY <1>1, <1>5, <2>1, <3>1 DEF WorkOnce, c
      <4> QED
        BY <4>1, <4>2, <4>3
    <3>2. CASE d # c \/ ~Upper!Alive(c)
      <4>1. answers'[d] = answers[d]
        BY <1>6, <3>2
      <4> QED
        BY <1>5, <2>1, <4>1 DEF AnswersOnce
    <3> QED
      BY <3>1, <3>2
  <2>6. AnswersOnce'
    BY <1>2, <1>4, <2>5 DEF AnswersOnce
  <2>7. RespOnce'
    BY <1>2, <2>1 DEF RespOnce
  <2> QED
    BY <2>2, <2>3, <2>6, <2>7
<1>10. UpperOnce'
  BY <1>2, <1>9 DEF UpperOnce
<1>11. UpperEnd'
  <2>1. CASE server' = "recv"
    BY <1>2, <2>1 DEF UpperEnd
  <2>2. CASE server' = "exited" /\ ~Upper!Alive(c) /\ family # "AF_INET"
    <3>1. family = "AF_UNIX" /\ dups = 0
      BY <2>2 DEF UpperTypes, UpperEnd
    <3>2. client[c] = "killed"
      BY <1>1, <2>2, <3>1 DEF UpperOnce, WorkOnce, Awaited, Upper!Alive, c
    <3> QED
      BY <1>1, <1>2, <3>1, <3>2 DEF UpperEnd
  <2> QED
    BY <1>4, <2>1, <2>2
<1> QED
  BY <1>7, <1>8, <1>10, <1>11

(***************************************************************************)
(* sendto of a client keeps UpperInv: a client that has come to its next   *)
(* argument has nothing on its way.                                        *)
(***************************************************************************)
LEMMA UpperClientSends ==
  ASSUME UpperInv, NEW c \in Client, Upper!ClientSends(c)
  PROVE  UpperInv'
<1> USE DEF UpperInv
<1> DEFINE m == [from |-> c, j |-> j[c], len |-> Length[j[c]]]
<1>1. client[c] = "send" /\ j[c] \in 1 .. Len(Length)
  BY UpperConstants DEF Upper!ClientSends, UpperTypes
<1>2. UNCHANGED <<family, server, datagram, answers, j, resp, dups>>
  BY DEF Upper!ClientSends
<1>3. /\ \A d \in Client \ {c} : client'[d] = client[d]
      /\ client'[c] \in {"recv", "failed"}
      /\ client' \in [Client -> {"start", "send", "recv", "done", "failed", "killed"}]
  BY DEF Upper!ClientSends, Upper!Awaits, UpperTypes
<1>4. CASE ~Upper!Up
  <2>1. inbox' = inbox
    BY <1>4 DEF Upper!ClientSends
  <2>2. Fewer(inbox', inbox) /\ \A d \in Client : Fewer(answers'[d], answers[d])
    BY <1>2, <2>1, FewerProperties DEF UpperTypes
  <2>3. j[c] <= Len(Length)
    BY DEF Upper!ClientSends
  <2>4. answers' \in [Client -> Seq(Datagram)]
    BY <1>2 DEF UpperTypes
  <2> QED
    BY <1>1, <1>2, <1>3, <2>2, <2>3, <2>4, UpperFewer
<1>5. CASE Upper!Up
  <2>1. inbox' = Append(inbox, m) /\ client'[c] = "recv"
    BY <1>3, <1>5 DEF Upper!ClientSends, Upper!Awaits, UpperTypes
  <2>2. m \in Datagram
    BY <1>1, UpperConstants DEF Datagram
  <2>3. m.from = c /\ m.j = j[c] /\ m.len = Length[j[c]]
    OBVIOUS
  <2> HIDE DEF m
  <2>4. inbox \in Seq(Datagram) /\ Len(inbox) \in Nat
    BY DEF UpperTypes
  <2>5. /\ inbox' \in Seq(Datagram) /\ Len(inbox') = Len(inbox) + 1
        /\ \A n \in 1 .. Len(inbox) : inbox'[n] = inbox[n]
        /\ inbox'[Len(inbox) + 1] = m
    BY <2>1, <2>2, <2>4
  <2>6. ASSUME NEW n \in 1 .. Len(inbox')
        PROVE  \/ n \in 1 .. Len(inbox) /\ inbox'[n] = inbox[n]
               \/ n = Len(inbox) + 1 /\ inbox'[n] = m
    BY <2>4, <2>5
  <2>7. UpperTypes'
    <3>1. \A d \in Client : client'[d] = "recv" => j[d] <= Len(Length)
      BY <1>1, <1>3 DEF UpperTypes
    <3> QED
      BY <1>2, <1>3, <2>5, <3>1 DEF UpperTypes
  <2>8. UpperOwn'
    <3>1. j[c] <= j[c]
      BY <1>1
    <3>2. \A n \in 1 .. Len(inbox') :
            inbox'[n].j <= j[inbox'[n].from] /\ inbox'[n].len = Length[inbox'[n].j]
      BY <2>3, <2>6, <3>1 DEF UpperOwn
    <3> QED
      BY <1>2, <3>2 DEF UpperOwn
  <2>9. ASSUME dups = 0 PROVE InboxOnce' /\ WorkOnce' /\ AnswersOnce' /\ RespOnce'
    <3>1. InboxOnce /\ WorkOnce /\ AnswersOnce /\ RespOnce
      BY <2>9 DEF UpperOnce
    <3>2. \A n \in 1 .. Len(inbox) : inbox[n].from # c /\ inbox[n].from \in Client
      BY <1>1, <3>1, DatagramFields DEF InboxOnce, Awaited
    <3>3. server = "send" => datagram.from # c /\ datagram.from \in Client
      BY <1>1, <3>1, DatagramFields DEF WorkOnce, Awaited
    <3>4. InboxOnce'
      <4>1. ASSUME NEW n \in 1 .. Len(inbox') PROVE Awaited(inbox[n])'
        <5>1. CASE n \in 1 .. Len(inbox) /\ inbox'[n] = inbox[n]
          BY <1>2, <1>3, <3>1, <3>2, <5>1 DEF InboxOnce, Awaited
        <5>2. CASE inbox'[n] = m
          BY <1>2, <2>1, <2>3, <5>2 DEF Awaited
        <5> QED
          BY <2>6, <5>1, <5>2
      <4>2. ASSUME NEW n \in 1 .. Len(inbox'), NEW l \in 1 .. Len(inbox'),
                   inbox'[n].from = inbox'[l].from
            PROVE  n = l
        <5>1. \/ n \in 1 .. Len(inbox) /\ inbox'[n] = inbox[n]
              \/ n = Len(inbox) + 1 /\ inbox'[n].from = c
          BY <2>3, <2>6
        <5>2. \/ l \in 1 .. Len(inbox) /\ inbox'[l] = inbox[l]
              \/ l = Len(inbox) + 1 /\ inbox'[l].from = c
          BY <2>3, <2>6
        <5> QED
          BY <3>1, <3>2, <4>2, <5>1, <5>2 DEF InboxOnce
      <4> QED
        BY <4>1, <4>2 DEF InboxOnce
    <3>5. WorkOnce'
      <4> SUFFICES ASSUME server' = "send" PROVE WorkOnce'
        BY DEF WorkOnce
      <4>1. Awaited(datagram)'
        BY <1>2, <1>3, <3>1, <3>3 DEF WorkOnce, Awaited
      <4>2. \A n \in 1 .. Len(inbox') : inbox'[n].from # datagram.from
        BY <1>2, <2>3, <2>6, <3>1, <3>3 DEF WorkOnce
      <4> QED
        BY <1>2, <4>1, <4>2 DEF WorkOnce
    <3>6. AnswersOnce'
      <4>1. ASSUME NEW d \in Client, NEW k \in 1 .. Len(answers[d])
            PROVE  d # c /\ client'[d] = "recv" /\ \A l \in 1 .. Len(inbox') : inbox'[l].from # d
        <5>1. client[d] = "recv" /\ \A l \in 1 .. Len(inbox) : inbox[l].from # d
          BY <3>1, <4>1 DEF AnswersOnce
        <5> QED
          BY <1>1, <1>3, <2>3, <2>6, <5>1
      <4> QED
        BY <1>2, <3>1, <4>1 DEF AnswersOnce
    <3>7. RespOnce'
      BY <1>2, <3>1 DEF RespOnce
    <3> QED
      BY <3>4, <3>5, <3>6, <3>7
  <2>10. UpperOnce'
    BY <1>2, <2>9 DEF UpperOnce
  <2>11. UpperEnd'
    BY <1>2, <1>5 DEF UpperEnd, Upper!Up
  <2> QED
    BY <2>7, <2>8, <2>10, <2>11
<1> QED
  BY <1>4, <1>5

(***************************************************************************)
(* recvfrom of a client keeps UpperInv: what it takes is the only answer   *)
(* on its way to it, and it is to the argument it sent last.               *)
(***************************************************************************)
LEMMA UpperClientReceives ==
  ASSUME UpperInv, NEW c \in Client, Upper!ClientReceives(c)
  PROVE  UpperInv'
<1> USE DEF UpperInv
<1>1. PICK k \in Upper!Takeable(answers[c]) :
        /\ resp' = [resp EXCEPT ![c] = Append(@, Upper!Cut(answers[c][k]))]
        /\ answers' = [answers EXCEPT ![c] = Upper!RemoveAt(@, k)]
  BY DEF Upper!ClientReceives
<1> DEFINE m == Upper!Cut(answers[c][k])
<1>2. /\ client[c] = "recv" /\ j' = [j EXCEPT ![c] = @ + 1]
      /\ client' = [client EXCEPT ![c] = "send"]
      /\ UNCHANGED <<family, server, datagram, inbox, dups>>
  BY DEF Upper!ClientReceives, Upper!served, Upper!faults
<1>3. k \in 1 .. Len(answers[c]) /\ answers[c] \in Seq(Datagram) /\ answers[c][k] \in Datagram
  BY DEF UpperTypes, Upper!Takeable
<1>4. /\ m \in Datagram /\ m.from = answers[c][k].from /\ m.j = answers[c][k].j
      /\ m.len = Short(answers[c][k].len)
      /\ Short(Short(Length[m.j])) = Short(Length[m.j])
  <2>1. /\ m \in Datagram /\ m.from = answers[c][k].from /\ m.j = answers[c][k].j
        /\ m.len = Short(answers[c][k].len)
    BY <1>3, CutProperties
  <2>2. Length[m.j] \in Nat
    BY <2>1, UpperConstants DEF Datagram
  <2> HIDE DEF m
  <2>3. Short(Short(Length[m.j])) = Short(Length[m.j])
    BY <2>2, UpperConstants DEF Short
  <2> QED
    BY <2>1, <2>3
<1>5. resp' = [resp EXCEPT ![c] = Append(@, m)]
  BY <1>1
<1>6. m.from = c /\ m.j <= j[c] /\ m.len = Short(Length[m.j])
  BY <1>3, <1>4 DEF UpperOwn
<1> HIDE DEF m
<1>7. /\ answers'[c] \in Seq(Datagram) /\ Len(answers'[c]) = Len(answers[c]) - 1
      /\ Fewer(answers'[c], answers[c])
      /\ \A d \in Client \ {c} : answers'[d] = answers[d]
  <2>1. answers'[c] = Upper!RemoveAt(answers[c], k)
    BY <1>1 DEF UpperTypes
  <2> QED
    BY <1>1, <1>3, <2>1, RemoveAtProperties, FewerProperties DEF UpperTypes
<1>8. /\ resp'[c] \in Seq(Datagram) /\ Len(resp'[c]) = Len(resp[c]) + 1
      /\ \A n \in 1 .. Len(resp[c]) : resp'[c][n] = resp[c][n]
      /\ resp'[c][Len(resp[c]) + 1] = m
      /\ \A d \in Client \ {c} : resp'[d] = resp[d]
  <2>1. resp[c] \in Seq(Datagram) /\ resp'[c] = Append(resp[c], m)
    BY <1>5 DEF UpperTypes
  <2> QED
    BY <1>4, <1>5, <2>1 DEF UpperTypes
<1>9. /\ j[c] \in 1 .. Len(Length) /\ j'[c] = j[c] + 1
      /\ \A d \in Client \ {c} : j'[d] = j[d]
      /\ \A d \in Client : j[d] \in Nat /\ j'[d] \in Nat /\ j[d] <= j'[d]
      /\ Len(resp[c]) = j[c] - 1
  BY <1>2, UpperConstants DEF UpperTypes, UpperOwn
<1>10. UpperTypes'
  <2>1. answers' \in [Client -> Seq(Datagram)]
    BY <1>1, <1>7 DEF UpperTypes
  <2>2. resp' \in [Client -> Seq(Datagram)]
    BY <1>5, <1>8 DEF UpperTypes
  <2>3. j' \in [Client -> 1 .. Len(Length) + 1]
    BY <1>2, <1>9, UpperConstants DEF UpperTypes
  <2>4. client' \in [Client -> {"start", "send", "recv", "done", "failed", "killed"}]
    BY <1>2 DEF UpperTypes
  <2>5. \A d \in Client : client'[d] = "recv" => j'[d] <= Len(Length)
    BY <1>2, <1>9 DEF UpperTypes
  <2> QED
    BY <1>2, <2>1, <2>2, <2>3, <2>4, <2>5 DEF UpperTypes
<1>11. UpperOwn'
  <2>1. ASSUME NEW n \in 1 .. Len(inbox)
        PROVE  inbox[n].j <= j'[inbox[n].from] /\ inbox[n].len = Length[inbox[n].j]
    <3>1. inbox[n].from \in Client /\ inbox[n].j \in Nat
      BY DatagramFields
    <3>2. inbox[n].j <= j[inbox[n].from] /\ inbox[n].len = Length[inbox[n].j]
      BY DEF UpperOwn
    <3> QED
      BY <1>9, <3>1, <3>2
  <2>2. ASSUME server = "send"
        PROVE  datagram.j <= j'[datagram.from] /\ datagram.len = Short(Length[datagram.j])
    <3>1. datagram.from \in Client /\ datagram.j \in Nat
      BY <2>2, DatagramFields
    <3>2. datagram.j <= j[datagram.from] /\ datagram.len = Short(Length[datagram.j])
      BY <2>2 DEF UpperOwn
    <3> QED
      BY <1>9, <3>1, <3>2
  <2>3. ASSUME NEW d \in Client, NEW n \in 1 .. Len(answers'[d])
        PROVE  /\ answers'[d][n].from = d /\ answers'[d][n].j <= j'[d]
               /\ answers'[d][n].len = Short(Length[answers'[d][n].j])
    <3>1. PICK a \in 1 .. Len(answers[d]) : answers'[d][n] = answers[d][a]
      BY <1>7, <2>3 DEF Fewer
    <3>2. answers[d][a].j \in Nat
      BY DatagramFields
    <3>3. /\ answers[d][a].from = d /\ answers[d][a].j <= j[d]
          /\ answers[d][a].len = Short(Length[answers[d][a].j])
      BY DEF UpperOwn
    <3> QED
      BY <1>9, <3>1, <3>2, <3>3
  <2>4. ASSUME NEW d \in Client
        PROVE  /\ Len(resp'[d]) = j'[d] - 1
               /\ \A n \in 1 .. Len(resp'[d]) :
                    /\ resp'[d][n].from = d /\ resp'[d][n].j <= n
                    /\ resp'[d][n].len = Short(Length[resp'[d][n].j])
    <3>1. CASE d = c
      <4>1. Len(resp'[c]) = j'[c] - 1
        BY <1>8, <1>9
      <4>2. ASSUME NEW n \in 1 .. Len(resp'[c])
            PROVE  /\ resp'[c][n].from = c /\ resp'[c][n].j <= n
                   /\ resp'[c][n].len = Short(Length[resp'[c][n].j])
        <5>1. \/ n \in 1 .. Len(resp[c]) /\ resp'[c][n] = resp[c][n]
              \/ n = j[c] /\ resp'[c][n] = m
          BY <1>8, <1>9
        <5> QED
          BY <1>6, <5>1 DEF UpperOwn
      <4> QED
        BY <3>1, <4>1, <4>2
    <3>2. CASE d # c
      <4>1. resp'[d] = resp[d] /\ j'[d] = j[d]
        BY <1>8, <1>9, <3>2
      <4> QED
        BY <4>1 DEF UpperOwn
    <3> QED
      BY <3>1, <3>2
  <2> QED
    BY <1>2, <2>1, <2>2, <2>3, <2>4 DEF UpperOwn
<1>12. ASSUME dups = 0 PROVE InboxOnce' /\ WorkOnce' /\ AnswersOnce' /\ RespOnce'
  <2>1. InboxOnce /\ WorkOnce /\ AnswersOnce /\ RespOnce
    BY <1>12 DEF UpperOnce
  <2>2. Len(answers[c]) = 1 /\ answers[c][k].j = j[c]
    <3> DEFINE n == Len(answers[c])
    <3>1. n <= 1 /\ n \in Nat /\ k \in 1 .. n /\ answers[c][k].j = j[c]
      BY <1>3, <2>1 DEF AnswersOnce
    <3> HIDE DEF n
    <3>2. n = 1
      BY <3>1
    <3> QED
      BY <3>1, <3>2 DEF n
  <2>3. /\ \A n \in 1 .. Len(inbox) : inbox[n].from # c /\ inbox[n].from \in Client
        /\ server = "send" => datagram.from # c /\ datagram.from \in Client
    BY <1>3, <2>1, DatagramFields DEF AnswersOnce
  <2>4. InboxOnce'
    BY <1>2, <1>9, <2>1, <2>3 DEF InboxOnce, Awaited, UpperTypes
  <2>5. WorkOnce'
    BY <1>2, <1>9, <2>1, <2>3 DEF WorkOnce, Awaited, UpperTypes
  <2>6. AnswersOnce'
    <3>1. Len(answers'[c]) = 0
      BY <1>7, <2>2
    <3>2. ASSUME NEW d \in Client \ {c}
          PROVE  answers'[d] = answers[d] /\ client'[d] = client[d] /\ j'[d] = j[d]
      BY <1>2, <1>7, <1>9 DEF UpperTypes
    <3> QED
      BY <1>2, <2>1, <3>1, <3>2 DEF AnswersOnce
  <2>7. RespOnce'
    <3>1. ASSUME NEW n \in 1 .. Len(resp'[c]) PROVE resp'[c][n].j = n
      <4>1. \/ n \in 1 .. Len(resp[c]) /\ resp'[c][n] = resp[c][n]
            \/ n = j[c] /\ resp'[c][n] = m
        BY <1>8, <1>9
      <4> QED
        BY <1>4, <2>1, <2>2, <4>1 DEF RespOnce
    <3> QED
      BY <1>8, <2>1, <3>1 DEF RespOnce
  <2> QED
    BY <2>4, <2>5, <2>6, <2>7
<1>13. UpperOnce'
  BY <1>2, <1>12 DEF UpperOnce
<1>14. UpperEnd'
  BY <1>2 DEF UpperEnd, UpperTypes
<1> QED
  BY <1>10, <1>11, <1>13, <1>14

\* The network's repetitions keep UpperInv: from then on dups > 0.
LEMMA UpperDuplicate == UpperInv /\ Upper!Duplicate => UpperInv'
<1> SUFFICES ASSUME UpperInv, Upper!Duplicate PROVE UpperInv'
  OBVIOUS
<1> USE DEF UpperInv
<1>1. /\ family = "AF_INET" /\ dups' = dups + 1
      /\ UNCHANGED <<family, server, datagram, client, j, resp>>
  BY DEF Upper!Duplicate, Upper!asked
<1>2. dups' \in Nat /\ dups' # 0
  BY <1>1 DEF UpperTypes
<1>3. UpperOnce' /\ UpperEnd'
  BY <1>1, <1>2 DEF UpperOnce, UpperEnd
<1>4. ASSUME NEW s \in Seq(Datagram), NEW k \in 1 .. Len(s), NEW t, t = Append(s, s[k])
      PROVE  /\ t \in Seq(Datagram)
             /\ \A n \in 1 .. Len(t) : \E a \in 1 .. Len(s) : t[n] = s[a]
  BY <1>4
<1>5. CASE UNCHANGED answers /\ \E k \in DOMAIN inbox : inbox' = Append(inbox, inbox[k])
  <2>1. inbox' \in Seq(Datagram) /\
          \A n \in 1 .. Len(inbox') : \E a \in 1 .. Len(inbox) : inbox'[n] = inbox[a]
    <3>1. inbox \in Seq(Datagram)
      BY DEF UpperTypes
    <3>2. PICK k \in 1 .. Len(inbox) : inbox' = Append(inbox, inbox[k])
      BY <1>5, <3>1
    <3> QED
      BY <1>4, <3>1, <3>2
  <2>2. UpperTypes'
    BY <1>1, <1>2, <1>5, <2>1 DEF UpperTypes
  <2>3. ASSUME NEW n \in 1 .. Len(inbox')
        PROVE  inbox'[n].j <= j[inbox'[n].from] /\ inbox'[n].len = Length[inbox'[n].j]
    <3>1. PICK a \in 1 .. Len(inbox) : inbox'[n] = inbox[a]
      BY <2>1
    <3> QED
      BY <3>1 DEF UpperOwn
  <2>4. UpperOwn'
    BY <1>1, <1>5, <2>3 DEF UpperOwn
  <2> QED
    BY <1>3, <2>2, <2>4
<1>6. ASSUME NEW c \in Client, NEW k \in DOMAIN answers[c], UNCHANGED inbox,
             answers' = [answers EXCEPT ![c] = Append(@, @[k])]
      PROVE  UpperInv'
  <2>1. answers[c] \in Seq(Datagram) /\ answers'[c] = Append(answers[c], answers[c][k])
    BY <1>6 DEF UpperTypes
  <2>2. answers'[c] \in Seq(Datagram) /\
          \A n \in 1 .. Len(answers'[c]) : \E a \in 1 .. Len(answers[c]) :
            answers'[c][n] = answers[c][a]
    <3>1. k \in 1 .. Len(answers[c])
      BY <2>1
    <3> QED
      BY <1>4, <2>1, <3>1
  <2>3. answers' \in [Client -> Seq(Datagram)]
    BY <1>6, <2>2 DEF UpperTypes
  <2>4. UpperTypes'
    BY <1>1, <1>2, <1>6, <2>3 DEF UpperTypes
  <2>5. ASSUME NEW d \in Client, NEW n \in 1 .. Len(answers'[d])
        PROVE  /\ answers'[d][n].from = d /\ answers'[d][n].j <= j[d]
               /\ answers'[d][n].len = Short(Length[answers'[d][n].j])
    <3>1. PICK a \in 1 .. Len(answers[d]) : answers'[d][n] = answers[d][a]
      <4>1. CASE d = c
        BY <2>2, <2>5, <4>1
      <4>2. CASE d # c
        BY <1>6, <2>5, <4>2 DEF UpperTypes
      <4> QED
        BY <4>1, <4>2
    <3> QED
      BY <3>1 DEF UpperOwn
  <2>6. UpperOwn'
    BY <1>1, <1>6, <2>5 DEF UpperOwn
  <2> QED
    BY <1>3, <2>4, <2>6
<1> QED
  BY <1>5, <1>6 DEF Upper!Duplicate

\* Every step of the exercise keeps UpperInv.
LEMMA UpperStep == UpperInv /\ [Upper!Next]_upper => UpperInv'
<1> SUFFICES ASSUME UpperInv, [Upper!Next]_upper PROVE UpperInv'
  OBVIOUS
<1>1. /\ UpperTypes /\ inbox \in Seq(Datagram) /\ answers \in [Client -> Seq(Datagram)]
      /\ Fewer(inbox, inbox) /\ Fewer(<<>>, inbox)
      /\ \A k \in 1 .. Len(inbox) : Fewer(Upper!RemoveAt(inbox, k), inbox)
      /\ \A c \in Client : /\ Fewer(answers[c], answers[c]) /\ Fewer(<<>>, answers[c])
                           /\ \A k \in 1 .. Len(answers[c]) :
                                Fewer(Upper!RemoveAt(answers[c], k), answers[c])
  BY FewerProperties DEF UpperInv, UpperTypes
<1> USE DEF Upper!served, Upper!asked, Upper!faults
<1>2. CASE Upper!StartServer
  <2>1. /\ server' = "recv" /\ inbox' = <<>>
        /\ UNCHANGED <<family, answers, client, j, resp, dups>>
    BY <1>2 DEF Upper!StartServer
  <2> QED
    BY <1>1, <2>1, UpperFewer DEF UpperTypes
<1>3. CASE Upper!Lose
  <2>1. UNCHANGED <<family, server, datagram, client, j, resp, dups>>
    BY <1>3 DEF Upper!Lose
  <2>2. ASSUME NEW k \in DOMAIN inbox, inbox' = Upper!RemoveAt(inbox, k), UNCHANGED answers
        PROVE  UpperInv'
    <3>1. Fewer(inbox', inbox)
      BY <1>1, <2>2
    <3> QED
      BY <1>1, <2>1, <2>2, <3>1, UpperFewer DEF UpperTypes
  <2>3. ASSUME NEW c \in Client, NEW k \in DOMAIN answers[c], UNCHANGED inbox,
               answers' = [answers EXCEPT ![c] = Upper!RemoveAt(@, k)]
        PROVE  UpperInv'
    <3>1. k \in 1 .. Len(answers[c]) /\ answers[c] \in Seq(Datagram)
      BY <1>1
    <3>2. Upper!RemoveAt(answers[c], k) \in Seq(Datagram)
      BY <3>1, RemoveAtProperties
    <3>3. answers' \in [Client -> Seq(Datagram)]
      BY <1>1, <2>3, <3>2
    <3>4. \A d \in Client : Fewer(answers'[d], answers[d])
      BY <1>1, <2>3, <3>1
    <3> QED
      BY <1>1, <2>1, <2>3, <3>3, <3>4, UpperFewer DEF UpperTypes
  <2> QED
    BY <1>3, <2>2, <2>3 DEF Upper!Lose
<1>4. CASE Upper!Kill
  <2>1. UNCHANGED <<family, j, resp, dups>>
    BY <1>4 DEF Upper!Kill
  <2>2. ASSUME NEW c \in Client, Upper!Alive(c), client' = [client EXCEPT ![c] = "killed"],
               answers' = [answers EXCEPT ![c] = <<>>], UNCHANGED <<server, datagram, inbox>>
        PROVE  UpperInv'
    <3>1. answers' \in [Client -> Seq(Datagram)] /\ answers'[c] = <<>>
      BY <1>1, <2>2
    <3>2. \A d \in Client : Fewer(answers'[d], answers[d])
      BY <1>1, <2>2
    <3>3. /\ client' \in [Client -> {"start", "send", "recv", "done", "failed", "killed"}]
          /\ client'[c] = "killed" /\ client[c] # "killed"
          /\ \A d \in Client \ {c} : client'[d] = client[d]
      BY <1>1, <2>2 DEF UpperTypes, Upper!Alive
    <3> QED
      BY <1>1, <2>1, <2>2, <3>1, <3>2, <3>3, UpperFewer
  <2>3. CASE server' = "off" /\ inbox' = <<>> /\ UNCHANGED <<answers, client>>
    BY <1>1, <2>1, <2>3, UpperFewer DEF UpperTypes
  <2> QED
    BY <1>4, <2>2, <2>3 DEF Upper!Kill
<1>5. ASSUME NEW c \in Client, Upper!StartClient(c) PROVE UpperInv'
  <2>1. UNCHANGED <<family, server, datagram, inbox, answers, j, resp, dups>>
    BY <1>5 DEF Upper!StartClient
  <2>2. /\ client' \in [Client -> {"start", "send", "recv", "done", "failed", "killed"}]
        /\ client'[c] \in {"send", "failed"} /\ client[c] = "start"
        /\ \A d \in Client \ {c} : client'[d] = client[d]
    BY <1>1, <1>5 DEF UpperTypes, Upper!StartClient
  <2> QED
    BY <1>1, <2>1, <2>2, UpperFewer
<1>6. ASSUME NEW c \in Client, Upper!ClientEnds(c) PROVE UpperInv'
  <2>1. UNCHANGED <<family, server, datagram, inbox, j, resp, dups>>
    BY <1>6 DEF Upper!ClientEnds
  <2>2. /\ client' \in [Client -> {"start", "send", "recv", "done", "failed", "killed"}]
        /\ client'[c] = "done" /\ client[c] = "send"
        /\ \A d \in Client \ {c} : client'[d] = client[d]
    BY <1>1, <1>6 DEF UpperTypes, Upper!ClientEnds
  <2>3. answers' \in [Client -> Seq(Datagram)] /\ answers' = [answers EXCEPT ![c] = <<>>]
    BY <1>1, <1>6 DEF Upper!ClientEnds
  <2>4. \A d \in Client : Fewer(answers'[d], answers[d])
    BY <1>1, <2>3
  <2> QED
    BY <1>1, <2>1, <2>2, <2>3, <2>4, UpperFewer
<1>7. CASE UNCHANGED upper
  BY <1>1, <1>7, UpperFewer DEF upper, UpperTypes
<1>8. CASE Upper!ServerStep
  BY <1>8, UpperServerReceives, UpperServerSends DEF Upper!ServerStep
<1>9. ASSUME NEW c \in Client, Upper!ClientStep(c) PROVE UpperInv'
  BY <1>5, <1>6, <1>9, UpperClientSends, UpperClientReceives DEF Upper!ClientStep
<1> QED
  BY <1>2, <1>3, <1>4, <1>7, <1>8, <1>9, UpperDuplicate DEF Upper!Next

----------------------------------------------------------------------------
\* A step of the composition is a step of one exercise and none of the others.
LEMMA StepsApart ==
  [Next]_vars => [Upper!Next]_upper /\ [Shm!Next]_shm
  BY DEF Next, vars, RunHello, RunUpper, RunCopy, RunShm

(***************************************************************************)
(* 9-ShareMemory: a consumer copies inside the object, and one that began  *)
(* after some producer had finished prints the whole product.              *)
(***************************************************************************)
THEOREM ProductsWhole == Spec => []ProductWhole
<1>1. Init => ProductInv
  <2> SUFFICES ASSUME Shm!Init PROVE ProductInv
    BY DEF Init
  <2> QED
    BY DEF Shm!Init, ProductInv, ProductTypes, ProductSize, ProductFields
<1>2. ProductInv /\ [Next]_vars => ProductInv'
  BY ProductStep, StepsApart
<1>3. ProductInv => ProductWhole
  BY DEF ProductInv, ProductTypes, ProductSize, ProductFields, ProductWhole, Shm!ProductWhole
<1> QED
  BY <1>1, <1>2, <1>3, PTL DEF Spec

\* UpperInv holds in every state of the composition.
LEMMA UpperInvariant == Spec => []UpperInv
<1>1. Init => UpperInv
  <2> SUFFICES ASSUME Upper!Init PROVE UpperInv
    BY DEF Init
  <2>1. 1 \in 1 .. Len(Length) + 1
    BY UpperConstants
  <2>2. UpperTypes
    BY <2>1 DEF Upper!Init, UpperTypes
  <2>3. UpperOwn
    BY DEF Upper!Init, UpperOwn
  <2>4. InboxOnce /\ WorkOnce /\ AnswersOnce /\ RespOnce
    BY DEF Upper!Init, InboxOnce, WorkOnce, AnswersOnce, RespOnce
  <2> QED
    BY <2>2, <2>3, <2>4 DEF Upper!Init, UpperInv, UpperOnce, UpperEnd
<1>2. UpperInv /\ [Next]_vars => UpperInv'
  BY UpperStep, StepsApart
<1> QED
  BY <1>1, <1>2, PTL DEF Spec

(***************************************************************************)
(* 6-Socket task2 and task4: a client logs answers to its own arguments    *)
(* only, cut to BUF_SIZE and none before it asked; unless a datagram was   *)
(* duplicated, the k-th is that to its k-th argument.                      *)
(***************************************************************************)
THEOREM AnswersAreOwn == Spec => []AnswersMatch
<1>1. UpperInv => AnswersMatch
  <2> SUFFICES ASSUME UpperInv, NEW c \in Client, NEW k \in DOMAIN resp[c]
               PROVE  /\ resp[c][k].from = c /\ resp[c][k].j <= k
                      /\ resp[c][k] = Upper!Cut([resp[c][k] EXCEPT !.len = Length[resp[c][k].j]])
                      /\ dups = 0 => resp[c][k].j = k
    BY DEF AnswersMatch, Upper!AnswersMatch
  <2> DEFINE a == resp[c][k]
  <2>1. resp[c] \in Seq(Datagram) /\ k \in 1 .. Len(resp[c]) /\ a \in Datagram
    BY DEF UpperInv, UpperTypes
  <2>2. a.from = c /\ a.j <= k /\ a.len = Short(Length[a.j])
    BY <2>1 DEF UpperInv, UpperOwn
  <2>3. dups = 0 => a.j = k
    BY <2>1 DEF UpperInv, UpperOnce, RespOnce
  <2> HIDE DEF a
  <2>4. a = Upper!Cut([a EXCEPT !.len = Length[a.j]])
    BY <2>1, <2>2 DEF Datagram, Upper!Cut, Short
  <2> QED
    BY <2>2, <2>3, <2>4 DEF a
<1> QED
  BY <1>1, UpperInvariant, PTL

(***************************************************************************)
(* 6-Socket task2 and task4: sendto ends the server only over AF_UNIX and  *)
(* only because a client was killed before it took its answer.             *)
(***************************************************************************)
THEOREM ServerOutlivesClients == Spec => []ServerExitsOnlyForDead
<1>1. UpperInv => ServerExitsOnlyForDead
  BY DEF UpperInv, UpperEnd, ServerExitsOnlyForDead, Upper!ServerExitsOnlyForDead
<1> QED
  BY <1>1, UpperInvariant, PTL
==============================================================================
