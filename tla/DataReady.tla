------------------------------ MODULE DataReady ------------------------------
(***************************************************************************)
(* 4-Thread/task3.c: a producer and a customer thread share one variable   *)
(* under a mutex, a flag data_ready and a condition variable.  Data is the *)
(* number of the producer's iteration instead of a random value, so that   *)
(* items can be told apart.  sleep(1) only passes time: nothing makes the  *)
(* customer read an item before the next one overwrites it.                *)
(***************************************************************************)
EXTENDS Naturals, Sequences, SequencesExt

CONSTANTS
  N,         \* iterations of both loops (10 in the code)
  Spurious,  \* bound: wakeups of pthread_cond_wait without a signal
  MaxFail    \* bound: failures of pthread_create

\* What the constants have to be; ThreadTasks assumes it.
ItemsAssumption == N \in Nat \ {0} /\ Spurious \in Nat /\ MaxFail \in Nat

Thread == {"producer", "customer"}

VARIABLES
  lock,        \* the thread that holds the mutex, or "none"
  data, data_ready,
  asleep,      \* the customer is queued on cond
  pc,          \* pc[t]: what thread t, or main, does next
  i,           \* i[t]: iterations completed
  got,         \* the items the customer read
  overwritten, \* some item was overwritten unread
  spurious, fails

shared == <<data, data_ready, overwritten>>
bounds == <<spurious, fails>>
vars == <<lock, shared, asleep, pc, i, got, bounds>>

Init ==
  /\ lock = "none" /\ data = 0 /\ data_ready = FALSE /\ overwritten = FALSE
  /\ asleep = FALSE
  /\ pc = [t \in Thread \cup {"main"} |-> IF t = "main" THEN "create_customer" ELSE "off"]
  /\ i = [t \in Thread |-> 0]
  /\ got = <<>>
  /\ spurious = 0 /\ fails = 0

Goto(t, label) == pc' = [pc EXCEPT ![t] = label]

pthread_mutex_lock(t) == lock = "none" /\ lock' = t
pthread_mutex_unlock == lock' = "none"

----------------------------------------------------------------------------
\* The producer.
ProducerLock ==
  /\ pc["producer"] = "lock"
  /\ pthread_mutex_lock("producer")
  /\ Goto("producer", "set")
  /\ UNCHANGED <<shared, asleep, i, got, bounds>>

\* Mutant of Produce: pthread_cond_signal is forgotten.
ProduceSilently ==
  /\ pc["producer"] = "set"
  /\ data' = i["producer"] + 1 /\ data_ready' = TRUE
  /\ overwritten' = (overwritten \/ data_ready)
  /\ Goto("producer", "unlock")
  /\ UNCHANGED <<lock, asleep, i, got, bounds>>

\* The item and the flag are set and a sleeping customer is woken, all under the
\* mutex, which the customer needs before it can look at any of it.
Produce ==
  /\ pc["producer"] = "set"
  /\ data' = i["producer"] + 1 /\ data_ready' = TRUE
  /\ overwritten' = (overwritten \/ data_ready)
  /\ asleep' = FALSE
  /\ Goto("producer", "unlock")
  /\ UNCHANGED <<lock, i, got, bounds>>

ProducerUnlock ==
  /\ pc["producer"] = "unlock"
  /\ pthread_mutex_unlock
  /\ i' = [i EXCEPT !["producer"] = @ + 1]
  /\ Goto("producer", IF i["producer"] + 1 < N THEN "lock" ELSE "ended")
  /\ UNCHANGED <<shared, asleep, got, bounds>>

----------------------------------------------------------------------------
\* The customer takes the mutex, at the loop head or again in cond_wait.
CustomerLock ==
  /\ pc["customer"] = "lock" /\ ~asleep
  /\ pthread_mutex_lock("customer")
  /\ Goto("customer", "test")
  /\ UNCHANGED <<shared, asleep, i, got, bounds>>

\* while(!data_ready) pthread_cond_wait: unlock and sleep in one step.
Test ==
  /\ pc["customer"] = "test"
  /\ IF data_ready
       THEN Goto("customer", "read") /\ UNCHANGED <<lock, asleep>>
       ELSE /\ pthread_mutex_unlock
            /\ asleep' = TRUE
            /\ Goto("customer", "lock")
  /\ UNCHANGED <<shared, i, got, bounds>>

\* pthread_cond_wait may also return without a signal.
SpuriousWakeup ==
  /\ asleep /\ spurious < Spurious
  /\ asleep' = FALSE
  /\ spurious' = spurious + 1
  /\ UNCHANGED <<lock, shared, pc, i, got, fails>>

\* Mutant of Read: the flag is not reset.
ReadKeepsFlag ==
  /\ pc["customer"] = "read"
  /\ got' = Append(got, data)
  /\ Goto("customer", "unlock")
  /\ UNCHANGED <<lock, shared, asleep, i, bounds>>

Read ==
  /\ pc["customer"] = "read"
  /\ got' = Append(got, data)
  /\ data_ready' = FALSE
  /\ Goto("customer", "unlock")
  /\ UNCHANGED <<lock, data, overwritten, asleep, i, bounds>>

CustomerUnlock ==
  /\ pc["customer"] = "unlock"
  /\ pthread_mutex_unlock
  /\ i' = [i EXCEPT !["customer"] = @ + 1]
  /\ Goto("customer", IF i["customer"] + 1 < N THEN "lock" ELSE "ended")
  /\ UNCHANGED <<shared, asleep, got, bounds>>

----------------------------------------------------------------------------
(***************************************************************************)
(* main creates the customer, then the producer, and joins the producer,   *)
(* then the customer.  A failing pthread_create is only logged; the join   *)
(* of that thread reads an uninitialized pthread_t and may return an error *)
(* or bring the process down.                                              *)
(***************************************************************************)
Create(t) ==
  /\ pc["main"] = (IF t = "customer" THEN "create_customer" ELSE "create_producer")
  /\ pc' = [pc EXCEPT ![t] = "lock",
                      !["main"] = IF t = "customer" THEN "create_producer"
                                                    ELSE "join_producer"]
  /\ UNCHANGED <<lock, shared, asleep, i, got, bounds>>

CreateFails(t) ==
  /\ pc["main"] = (IF t = "customer" THEN "create_customer" ELSE "create_producer")
  /\ fails < MaxFail
  /\ fails' = fails + 1
  /\ Goto("main", IF t = "customer" THEN "create_producer" ELSE "join_producer")
  /\ UNCHANGED <<lock, shared, asleep, i, got, spurious>>

Join(t) ==
  /\ pc["main"] = (IF t = "producer" THEN "join_producer" ELSE "join_customer")
  /\ pc[t] \in {"off", "ended"}
  /\ \/ Goto("main", IF t = "producer" THEN "join_customer" ELSE "returned")
     \/ pc[t] = "off" /\ Goto("main", "crashed")
  /\ UNCHANGED <<lock, shared, asleep, i, got, bounds>>

Producer == ProducerLock \/ Produce \/ ProducerUnlock
Customer == CustomerLock \/ Test \/ Read \/ CustomerUnlock
Main == \E t \in Thread : Create(t) \/ Join(t)

Ended == pc["main"] \in {"returned", "crashed"}

\* The threads live as long as the process, until main returns or crashes.
Next ==
  /\ ~Ended
  /\ \/ Producer \/ Customer \/ Main
     \/ SpuriousWakeup \/ \E t \in Thread : CreateFails(t)

Spec == Init /\ [][Next]_vars

----------------------------------------------------------------------------
\* The values the variables range over.
TypeOK ==
  /\ lock \in Thread \cup {"none"}
  /\ data \in 0 .. N /\ data_ready \in BOOLEAN /\ overwritten \in BOOLEAN
  /\ asleep \in BOOLEAN
  /\ pc \in [Thread \cup {"main"} ->
               {"create_customer", "create_producer", "join_producer", "join_customer",
                "returned", "crashed", "off", "lock", "set", "test", "read", "unlock",
                "ended"}]
  /\ i \in [Thread -> 0 .. N]
  /\ got \in BoundedSeq(1 .. N, N)
  /\ spurious \in 0 .. Spurious /\ fails \in 0 .. MaxFail

(***************************************************************************)
(* The customer reads every item at most once and in order, whatever wakes *)
(* it; and main returns only if it has read them all, unless a thread      *)
(* could not be created: an item that was overwritten unread never goes    *)
(* unnoticed.                                                              *)
(***************************************************************************)
ItemsReadOnce ==
  /\ \A a, b \in 1 .. Len(got) : a < b => got[a] < got[b]
  /\ pc["main"] = "returned" /\ fails = 0 => Len(got) = N /\ ~overwritten

\* What the program comes to: main returns, or crashes in the join of a thread that
\* was not created; or it waits for a customer that counts on an item overwritten
\* before it was read, or on a producer that was not created.
Settled ==
  \/ pc["main"] = "returned"
  \/ pc["main"] = "crashed" /\ "off" \in {pc[t] : t \in Thread}
  \/ overwritten /\ pc["customer"] # "off"
  \/ pc["producer"] = "off" /\ pc["main"] = "join_customer" /\ asleep
==============================================================================
