------------------------------ MODULE FoodTrays ------------------------------
(***************************************************************************)
(* The child processes of 10-Semaphore/main.c at work on the two shared    *)
(* trays: chefDonatello and chefPortecelli (one operator, Chef), the two   *)
(* single-tray customers (Customer) and hybridCustomer (Hybrid).           *)
(*                                                                         *)
(* A tray is a ShareFoodBuffer in shared memory, guarded by a named        *)
(* semaphore that starts at 1.  One action is one access to shared memory  *)
(* or one semaphore call, so a process can be killed between any two of    *)
(* them.  Food.id and Food.time are only logged, so a slot holds the dish. *)
(* is_running is TRUE whenever a loop tests it (see TrayNames), and the    *)
(* sleeps only pass time.                                                  *)
(***************************************************************************)
EXTENDS Naturals, FiniteSets

CONSTANTS
  MAX_ITEM,   \* slots of ShareFoodBuffer.items
  Menu,       \* Menu[t]: vegan_name and non_vegan_name
  Chef, Customer, Hybrid,  \* the processes, by handler
  Serves,     \* Serves[p]: the tray a chef or single-tray customer uses
  NoFood,     \* a slot of zero bytes
  MaxCrash    \* bound: how many processes may be killed

VEGAN == "vegan"
NON_VEGAN == "non_vegan"
Tray == {VEGAN, NON_VEGAN}

Eater == Customer \cup Hybrid
Proc == Chef \cup Eater
Dish == UNION {Menu[t] : t \in Tray}

(***************************************************************************)
(* items[MAX_ITEM] lies past the array, in the same page of the mapping    *)
(* (2728 bytes of 4096): the customers' loops read and clear it when the   *)
(* tray is full, so it is part of the model.                               *)
(***************************************************************************)
Slot == 0 .. MAX_ITEM

ASSUME CapacityAssumption == MAX_ITEM \in Nat \ {0}

ASSUME ProcessAssumption ==
  /\ Chef \cap Eater = {}
  /\ Customer \cap Hybrid = {}
  /\ Serves \in [Chef \cup Customer -> Tray]

ASSUME MenuAssumption ==
  /\ DOMAIN Menu = Tray
  /\ Menu[VEGAN] \cap Menu[NON_VEGAN] = {}
  /\ NoFood \notin Dish

ASSUME BoundAssumption == MaxCrash \in Nat

VARIABLES
  sem,     \* sem[t]: value of the named semaphore
  count,   \* count[t]: ShareFoodBuffer.count
  items,   \* items[t][i]: the dish in slot i
  pc,      \* pc[p]: what p does next
  cur,     \* cur[p]: the tray p works on
  cnt,     \* cnt[p][t]: p's local copy of count[t]
  idx,     \* idx[p]: food_idx, then the loop index of p's shift
  item,    \* item[p][t]: the Food p copied out of tray t
  alive    \* alive[p]: p was not killed

shared == <<sem, count, items>>
local == <<pc, cur, cnt, idx, item>>
vars == <<shared, local, alive>>

(***************************************************************************)
(* shmInit leaves a semaphore at 1 and a buffer that is either fresh (all  *)
(* zero) or, as O_CREAT opens what exists and ftruncate to the same length *)
(* keeps it, the one an earlier run left.  Buffers a run left torn are     *)
(* TrayNames' subject.                                                     *)
(***************************************************************************)
Init ==
  /\ sem = [t \in Tray |-> 1]
  /\ count \in [Tray -> 0 .. MAX_ITEM]
  /\ items \in [Tray -> [Slot -> Dish \cup {NoFood}]]
  /\ \A t \in Tray, i \in Slot :
       IF i < count[t] THEN items[t][i] \in Menu[t] ELSE items[t][i] = NoFood
  /\ pc = [p \in Proc |-> "idle"]
  /\ cur = [p \in Proc |-> IF p \in Hybrid THEN VEGAN ELSE Serves[p]]
  /\ cnt = [p \in Proc |-> [t \in Tray |-> 0]]
  /\ idx = [p \in Proc |-> 0]
  /\ item = [p \in Proc |-> [t \in Tray |-> NoFood]]
  /\ alive = [p \in Proc |-> TRUE]

\* sem_wait on tray t's semaphore returns.
sem_wait(t) ==
  /\ sem[t] > 0
  /\ sem' = [sem EXCEPT ![t] = @ - 1]

\* sem_post on tray t's semaphore.
sem_post(t) == sem' = [sem EXCEPT ![t] = @ + 1]

Goto(p, label) == pc' = [pc EXCEPT ![p] = label]

(***************************************************************************)
(* Entering: the loop head's sem_wait.  The hybrid customer takes the      *)
(* vegan semaphore first and the other one while holding it.               *)
(***************************************************************************)
Enter(p) ==
  /\ pc[p] = "idle"
  /\ sem_wait(cur[p])
  /\ Goto(p, IF p \in Hybrid THEN "second" ELSE "count")
  /\ UNCHANGED <<count, items, cur, cnt, idx, item>>

EnterSecond(p) ==
  /\ pc[p] = "second"
  /\ sem_wait(NON_VEGAN)
  /\ Goto(p, "count")
  /\ UNCHANGED <<count, items, cur, cnt, idx, item>>

(***************************************************************************)
(* Reading the counts and testing them: a chef backs out of a full tray,   *)
(* an eater of an empty one, the hybrid customer when either is empty.     *)
(***************************************************************************)
\* Mutant of ChefCount: the test is > instead of >=.
ChefCountLate(p) ==
  /\ p \in Chef /\ pc[p] = "count"
  /\ cnt' = [cnt EXCEPT ![p][cur[p]] = count[cur[p]]]
  /\ Goto(p, IF count[cur[p]] > MAX_ITEM THEN "post" ELSE "store")
  /\ UNCHANGED <<shared, cur, idx, item>>

ChefCount(p) ==
  /\ p \in Chef /\ pc[p] = "count"
  /\ cnt' = [cnt EXCEPT ![p][cur[p]] = count[cur[p]]]
  /\ Goto(p, IF count[cur[p]] >= MAX_ITEM THEN "post" ELSE "store")
  /\ UNCHANGED <<shared, cur, idx, item>>

\* Mutant of CustomerCount: the empty-tray path forgets its sem_post.
CustomerCountKeepsSem(p) ==
  /\ p \in Customer /\ pc[p] = "count"
  /\ cnt' = [cnt EXCEPT ![p][cur[p]] = count[cur[p]]]
  /\ Goto(p, IF count[cur[p]] <= 0 THEN "idle" ELSE "pick")
  /\ UNCHANGED <<shared, cur, idx, item>>

CustomerCount(p) ==
  /\ p \in Customer /\ pc[p] = "count"
  /\ cnt' = [cnt EXCEPT ![p][cur[p]] = count[cur[p]]]
  /\ Goto(p, IF count[cur[p]] <= 0 THEN "post" ELSE "pick")
  /\ UNCHANGED <<shared, cur, idx, item>>

HybridCount(p) ==
  /\ p \in Hybrid /\ pc[p] = "count"
  /\ cnt' = [cnt EXCEPT ![p] = count]
  /\ Goto(p, IF \E t \in Tray : count[t] <= 0 THEN "post" ELSE "pick")
  /\ UNCHANGED <<shared, cur, idx, item>>

(***************************************************************************)
(* Cooking: buffer->items[count] = food, food_idx being rand() % 2.        *)
(***************************************************************************)
Store(p) ==
  /\ pc[p] = "store"
  /\ \E d \in Menu[cur[p]] :
       items' = [items EXCEPT ![cur[p]][cnt[p][cur[p]]] = d]
  /\ Goto(p, "setcount")
  /\ UNCHANGED <<sem, count, cur, cnt, idx, item>>

(***************************************************************************)
(* Eating: copy the dish at food_idx = rand() % count out, move the later  *)
(* slots down one by one (the last move reads slot count), clear slot      *)
(* count.                                                                  *)
(***************************************************************************)
\* Mutant of Pick: the loop starts behind the dish that was copied out.
PickShiftsLate(p) ==
  /\ pc[p] = "pick"
  /\ \E i \in 0 .. cnt[p][cur[p]] - 1 :
       /\ idx' = [idx EXCEPT ![p] = i + 1]
       /\ item' = [item EXCEPT ![p][cur[p]] = items[cur[p]][i]]
       /\ Goto(p, IF i + 1 < cnt[p][cur[p]] THEN "shift" ELSE "wipe")
  /\ UNCHANGED <<shared, cur, cnt>>

Pick(p) ==
  /\ pc[p] = "pick"
  /\ \E i \in 0 .. cnt[p][cur[p]] - 1 :
       /\ idx' = [idx EXCEPT ![p] = i]
       /\ item' = [item EXCEPT ![p][cur[p]] = items[cur[p]][i]]
  /\ Goto(p, "shift")
  /\ UNCHANGED <<shared, cur, cnt>>

\* Mutant of Shift: the loop stops at count - 1, one move too early.
ShiftStopsEarly(p) ==
  /\ pc[p] = "shift"
  /\ IF idx[p] < cnt[p][cur[p]] - 1
       THEN /\ items' = [items EXCEPT ![cur[p]][idx[p]] = items[cur[p]][idx[p] + 1]]
            /\ idx' = [idx EXCEPT ![p] = @ + 1]
            /\ UNCHANGED pc
       ELSE Goto(p, "wipe") /\ UNCHANGED <<items, idx>>
  /\ UNCHANGED <<sem, count, cur, cnt, item>>

Shift(p) ==
  /\ pc[p] = "shift"
  /\ items' = [items EXCEPT ![cur[p]][idx[p]] = items[cur[p]][idx[p] + 1]]
  /\ idx' = [idx EXCEPT ![p] = @ + 1]
  /\ Goto(p, IF idx[p] + 1 < cnt[p][cur[p]] THEN "shift" ELSE "wipe")
  /\ UNCHANGED <<sem, count, cur, cnt, item>>

Wipe(p) ==
  /\ pc[p] = "wipe"
  /\ items' = [items EXCEPT ![cur[p]][cnt[p][cur[p]]] = NoFood]
  /\ Goto(p, "setcount")
  /\ UNCHANGED <<sem, count, cur, cnt, idx, item>>

\* Mutant of SetCount: the eaters write the count back undiminished.
SetCountKeeps(p) ==
  /\ pc[p] = "setcount"
  /\ count' = [count EXCEPT ![cur[p]] = IF p \in Chef
                                         THEN cnt[p][cur[p]] + 1
                                         ELSE cnt[p][cur[p]]]
  /\ Goto(p, "post")
  /\ UNCHANGED <<sem, items, cur, cnt, idx, item>>

\* buffer->count = count + 1 in the chefs, count - 1 in the eaters.
SetCount(p) ==
  /\ pc[p] = "setcount"
  /\ count' = [count EXCEPT ![cur[p]] = IF p \in Chef
                                         THEN cnt[p][cur[p]] + 1
                                         ELSE cnt[p][cur[p]] - 1]
  /\ Goto(p, "post")
  /\ UNCHANGED <<sem, items, cur, cnt, idx, item>>

(***************************************************************************)
(* sem_post and back to the loop head.  The hybrid customer posts the      *)
(* vegan semaphore first; it then posts the other one if it found a tray   *)
(* empty, and otherwise eats from the non-vegan tray before it does.  The  *)
(* counts and the index are dead at the loop head, which the model shows   *)
(* by clearing them.                                                       *)
(***************************************************************************)
Forget(p) ==
  /\ cnt' = [cnt EXCEPT ![p] = [t \in Tray |-> 0]]
  /\ idx' = [idx EXCEPT ![p] = 0]

Post(p) ==
  /\ pc[p] = "post"
  /\ p \notin Hybrid
  /\ sem_post(cur[p])
  /\ Goto(p, "idle")
  /\ Forget(p)
  /\ UNCHANGED <<count, items, cur, item>>

\* Mutant of HybridPostVegan: the other semaphore is posted first.
HybridPostSwapped(p) ==
  /\ p \in Hybrid /\ pc[p] = "post" /\ cur[p] = VEGAN
  /\ sem_post(NON_VEGAN)
  /\ cur' = [cur EXCEPT ![p] = NON_VEGAN]
  /\ Goto(p, IF \E t \in Tray : cnt[p][t] <= 0 THEN "post" ELSE "pick")
  /\ UNCHANGED <<count, items, cnt, idx, item>>

HybridPostVegan(p) ==
  /\ p \in Hybrid /\ pc[p] = "post" /\ cur[p] = VEGAN
  /\ sem_post(VEGAN)
  /\ cur' = [cur EXCEPT ![p] = NON_VEGAN]
  /\ Goto(p, IF \E t \in Tray : cnt[p][t] <= 0 THEN "post" ELSE "pick")
  /\ UNCHANGED <<count, items, cnt, idx, item>>

\* Mutant of HybridPostNonVegan: the vegan semaphore is posted again.
HybridPostVeganTwice(p) ==
  /\ p \in Hybrid /\ pc[p] = "post" /\ cur[p] = NON_VEGAN
  /\ sem_post(VEGAN)
  /\ cur' = [cur EXCEPT ![p] = VEGAN]
  /\ Goto(p, "idle")
  /\ Forget(p)
  /\ UNCHANGED <<count, items, item>>

HybridPostNonVegan(p) ==
  /\ p \in Hybrid /\ pc[p] = "post" /\ cur[p] = NON_VEGAN
  /\ sem_post(NON_VEGAN)
  /\ cur' = [cur EXCEPT ![p] = VEGAN]
  /\ Goto(p, "idle")
  /\ Forget(p)
  /\ UNCHANGED <<count, items, item>>

SemWait(p) == Enter(p) \/ EnterSecond(p)

Work(p) ==
  \/ ChefCount(p) \/ CustomerCount(p) \/ HybridCount(p)
  \/ Store(p) \/ Pick(p) \/ Shift(p) \/ Wipe(p) \/ SetCount(p)
  \/ Post(p) \/ HybridPostVegan(p) \/ HybridPostNonVegan(p)

\* A living process takes its next step.
Step(p) ==
  /\ alive[p]
  /\ SemWait(p) \/ Work(p)
  /\ UNCHANGED alive

\* Mutant of Killed: dying releases the semaphore of the current tray.
KilledReleases(p) ==
  /\ alive[p]
  /\ Cardinality({q \in Proc : ~alive[q]}) < MaxCrash
  /\ alive' = [alive EXCEPT ![p] = FALSE]
  /\ sem' = IF pc[p] \in {"idle", "second"} THEN sem
                                            ELSE [sem EXCEPT ![cur[p]] = @ + 1]
  /\ UNCHANGED <<count, items, local>>

(***************************************************************************)
(* A process is killed, by SIGKILL or at the end of its own SIGINT handler *)
(* (handle_sigint re-raises the signal with the default action).  Neither  *)
(* posts a semaphore the process holds.                                    *)
(***************************************************************************)
Killed(p) ==
  /\ alive[p]
  /\ Cardinality({q \in Proc : ~alive[q]}) < MaxCrash
  /\ alive' = [alive EXCEPT ![p] = FALSE]
  /\ UNCHANGED <<shared, local>>

Next == \E p \in Proc : Step(p) \/ Killed(p)

Spec == Init /\ [][Next]_vars

(***************************************************************************)
(* The semaphores a process has taken and not posted, read off its program *)
(* counter.  A killed process keeps the counter it had, and what it held.  *)
(***************************************************************************)
Inside == {"count", "store", "pick", "shift", "wipe", "setcount", "post"}

Holding(p, t) ==
  \/ pc[p] \in Inside /\ t = cur[p]
  \/ pc[p] \in Inside /\ p \in Hybrid /\ t = NON_VEGAN
  \/ pc[p] = "second" /\ t = VEGAN

\* What a tray looks like to a process that takes its semaphore.
WellFormed(t) ==
  /\ count[t] \in 0 .. MAX_ITEM
  /\ \A i \in Slot : IF i < count[t] THEN items[t][i] \in Menu[t]
                                     ELSE items[t][i] = NoFood

----------------------------------------------------------------------------
\* The values the variables range over.
TypeOK ==
  /\ sem \in [Tray -> Nat]
  /\ count \in [Tray -> 0 .. MAX_ITEM]
  /\ items \in [Tray -> [Slot -> Dish \cup {NoFood}]]
  /\ pc \in [Proc -> Inside \cup {"idle", "second"}]
  /\ cur \in [Proc -> Tray]
  /\ cnt \in [Proc -> [Tray -> 0 .. MAX_ITEM]]
  /\ idx \in [Proc -> Slot]
  /\ item \in [Proc -> [Tray -> Dish \cup {NoFood}]]
  /\ alive \in [Proc -> BOOLEAN]

(***************************************************************************)
(* sem_wait / sem_post around every use of a tray admit one process at a   *)
(* time, the hybrid customer's nested waits and its two posts in the       *)
(* middle of its work included, and no path posts a semaphore twice or     *)
(* forgets to: the value is 1 exactly when nobody is inside.               *)
(***************************************************************************)
Mutex ==
  \A t \in Tray :
    /\ \A p, q \in Proc : Holding(p, t) /\ Holding(q, t) => p = q
    /\ sem[t] = IF \E p \in Proc : Holding(p, t) THEN 0 ELSE 1

(***************************************************************************)
(* A tray nobody is inside is well formed: the first count slots hold      *)
(* dishes of that tray's own menu and every other slot, the one past the   *)
(* array included, is clear.  The eaters clear slot count and not slot     *)
(* count - 1, so this rests on the last move of the loop having pulled a   *)
(* clear slot down.                                                        *)
(***************************************************************************)
FreeTrayWellFormed ==
  \A t \in Tray : sem[t] = 1 => WellFormed(t)

(***************************************************************************)
(* The local copy of the count that a process computes its slots and the   *)
(* new count from is still the tray's count when it is used, also the      *)
(* non-vegan count the hybrid customer read before it ate the vegan dish   *)
(* and posted the vegan semaphore.                                         *)
(***************************************************************************)
CountNotStale ==
  \A p \in Proc :
    /\ pc[p] \in {"store", "pick", "shift", "wipe", "setcount"} =>
         cnt[p][cur[p]] = count[cur[p]]
    /\ p \in Hybrid /\ pc[p] \in Inside \ {"count"} /\ cur[p] = VEGAN =>
         cnt[p][NON_VEGAN] = count[NON_VEGAN]

(***************************************************************************)
(* After a process is killed inside, its trays stay as it left them: no    *)
(* other process gets to see, or adds to, a half-moved tray.               *)
(***************************************************************************)
TornTrayUntouched ==
  [][\A t \in Tray :
       (\E p \in Proc : ~alive[p] /\ Holding(p, t)) =>
         UNCHANGED <<count[t], items[t]>>]_vars

(***************************************************************************)
(* The abstract trays: between an eater's copy of a dish and its count     *)
(* update the array has a hole at the loop index; the tray is the array    *)
(* without it.                                                             *)
(***************************************************************************)
Removing(p, t) ==
  p \in Eater /\ pc[p] \in {"shift", "wipe", "setcount"} /\ cur[p] = t

TrayView(t) ==
  IF \E p \in Proc : Removing(p, t)
    THEN LET hole == idx[CHOOSE p \in Proc : Removing(p, t)]
         IN [j \in 1 .. count[t] - 1 |->
               items[t][IF j - 1 < hole THEN j - 1 ELSE j]]
    ELSE [j \in 1 .. count[t] |-> items[t][j - 1]]

Trays == INSTANCE BoundedTray
           WITH tray <- [t \in Tray |-> TrayView(t)],
                plate <- [p \in Eater |-> item[p]]

(***************************************************************************)
(* The array, the count and the loops implement bounded sequences of       *)
(* dishes (BoundedTray), whatever the interleaving and whoever is killed:  *)
(* each dish cooked is appended once, each dish eaten is one dish of the   *)
(* tray, taken by one eater.                                               *)
(***************************************************************************)
ImplementsTrays == Trays!Spec

----------------------------------------------------------------------------
(***************************************************************************)
(* Fairness.  A living process is scheduled, so its steps are weakly fair. *)
(* sem_wait is strongly fair: every process sleeps (at least the 100 ms of *)
(* its usleep) between its last sem_post and its next sem_wait, which      *)
(* leaves the semaphore to the waiters.  Nothing says anyone is killed.    *)
(***************************************************************************)
Fairness ==
  \A p \in Proc :
    /\ WF_vars(alive[p] /\ Work(p) /\ UNCHANGED alive)
    /\ SF_vars(alive[p] /\ SemWait(p) /\ UNCHANGED alive)

FairSpec == Spec /\ Fairness

DeadInside == \E p \in Proc, t \in Tray : ~alive[p] /\ Holding(p, t)

(***************************************************************************)
(* No circular wait: each tray is free again and again, unless a process   *)
(* was killed inside.  The hybrid customer waits for the second semaphore  *)
(* while it holds the first; nobody waits the other way round.             *)
(***************************************************************************)
TraysFreedAgain ==
  \A t \in Tray : <>[]DeadInside \/ []<>(sem[t] = 1)

(***************************************************************************)
(* Every chef that lives finds a tray with room again and again as long as *)
(* everybody lives: the back-outs on full and empty trays (sem_post,       *)
(* usleep, continue) do not keep the kitchen and the guests from each      *)
(* other for ever.                                                         *)
(***************************************************************************)
KitchenGoesOn ==
  \A c \in Chef : <>(\E p \in Proc : ~alive[p]) \/ []<>(pc[c] = "store")
==============================================================================
