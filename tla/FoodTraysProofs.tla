--------------------------- MODULE FoodTraysProofs ---------------------------
(***************************************************************************)
(* Proofs about FoodTrays, for every capacity, menu and number of chefs,   *)
(* customers and hybrid customers, and whoever is killed when.             *)
(*                                                                         *)
(* The argument has three layers.  Types is inductive by itself: it adds   *)
(* to TypeOK where each kind of process can be and what its local counts   *)
(* then are.  Mutex is inductive relative to Types.  On top of mutual      *)
(* exclusion come CountNotStale and TrayShape, which says what each tray   *)
(* looks like in the middle of a change and yields FreeTrayWellFormed.     *)
(***************************************************************************)
EXTENDS FoodTrays, TLAPS

\* Where each kind of process can be, and the tray it is then working on.
PhaseOK ==
  \A p \in Proc :
    /\ p \notin Hybrid => cur[p] = Serves[p]
    /\ p \in Hybrid /\ pc[p] \in {"idle", "second", "count"} => cur[p] = VEGAN
    /\ pc[p] = "second" => p \in Hybrid
    /\ pc[p] = "store" => p \in Chef
    /\ pc[p] \in {"pick", "shift", "wipe"} => p \in Eater

\* A chef that goes on saw room for a dish, an eater saw a dish.
RangeOK ==
  \A p \in Proc :
    /\ p \in Chef /\ pc[p] \in {"store", "setcount"} => cnt[p][cur[p]] < MAX_ITEM
    /\ p \in Eater /\ pc[p] \in {"pick", "shift", "wipe", "setcount"} =>
         cnt[p][cur[p]] > 0
    /\ pc[p] = "shift" => idx[p] < cnt[p][cur[p]]

Types == TypeOK /\ PhaseOK /\ RangeOK

\* Slots 0 .. n - 1 of tray t hold dishes of its menu and the others are clear.
Shaped(t, n) ==
  \A i \in Slot : IF i < n THEN items[t][i] \in Menu[t] ELSE items[t][i] = NoFood

\* p has changed the slots of tray t and not yet its count.
Closing(p, t) == pc[p] \in {"wipe", "setcount"} /\ cur[p] = t

TrayShape ==
  \A t \in Tray :
    /\ (\A p \in Proc : ~Closing(p, t)) => Shaped(t, count[t])
    /\ \A p \in Proc : Closing(p, t) =>
         Shaped(t, IF p \in Chef THEN count[t] + 1 ELSE count[t] - 1)

IInv == Types /\ Mutex /\ CountNotStale /\ TrayShape

----------------------------------------------------------------------------
\* The menus are made of dishes, and a clear slot is no dish.
LEMMA MenuFacts ==
  /\ \A t \in Tray : Menu[t] \subseteq Dish
  /\ \A t \in Tray : NoFood \notin Menu[t]
  BY MenuAssumption DEF Dish

\* Init establishes Types.
LEMMA TypesInit == Init => Types
<1> SUFFICES ASSUME Init PROVE Types
  OBVIOUS
<1> USE CapacityAssumption, ProcessAssumption DEF Init, Proc, Eater, Tray
<1>1. TypeOK
  BY DEF TypeOK, Slot, Inside, VEGAN, NON_VEGAN
<1>2. PhaseOK
  BY DEF PhaseOK, VEGAN, NON_VEGAN
<1>3. RangeOK
  BY DEF RangeOK
<1> QED
  BY <1>1, <1>2, <1>3 DEF Types

(***************************************************************************)
(* Every step of the program keeps Types: in particular no count leaves    *)
(* 0 .. MAX_ITEM and no loop index leaves the slots.                       *)
(***************************************************************************)
LEMMA TypesNext == Types /\ [Next]_vars => Types'
<1> SUFFICES ASSUME Types, [Next]_vars PROVE Types'
  OBVIOUS
<1> USE CapacityAssumption, ProcessAssumption
<1>0. CASE UNCHANGED vars
  BY <1>0 DEF Types, TypeOK, PhaseOK, RangeOK, vars, shared, local, Inside
<1>1. ASSUME NEW p \in Proc, Killed(p) PROVE Types'
  BY <1>1 DEF Types, TypeOK, PhaseOK, RangeOK, Killed, shared, local, Inside
<1>2. ASSUME NEW p \in Proc, Step(p) PROVE Types'
  <2> USE <1>2, MenuFacts DEF Types, Inside, Proc, Eater, Tray, VEGAN, NON_VEGAN, Slot
  <2>1. CASE Enter(p)
    <3>1. TypeOK'
      BY <2>1 DEF TypeOK, PhaseOK, RangeOK, Step, Enter, sem_wait, Goto, shared
    <3>2. PhaseOK'
      BY <2>1 DEF TypeOK, PhaseOK, RangeOK, Step, Enter, sem_wait, Goto, shared
    <3>3. RangeOK'
      BY <2>1 DEF TypeOK, PhaseOK, RangeOK, Step, Enter, sem_wait, Goto, shared
    <3> QED
      BY <3>1, <3>2, <3>3
  <2>2. CASE EnterSecond(p)
    <3>1. TypeOK'
      BY <2>2 DEF TypeOK, PhaseOK, RangeOK, Step, EnterSecond, sem_wait, Goto, shared
    <3>2. PhaseOK'
      BY <2>2 DEF TypeOK, PhaseOK, RangeOK, Step, EnterSecond, sem_wait, Goto, shared
    <3>3. RangeOK'
      BY <2>2 DEF TypeOK, PhaseOK, RangeOK, Step, EnterSecond, sem_wait, Goto, shared
    <3> QED
      BY <3>1, <3>2, <3>3
  <2>3. CASE ChefCount(p)
    <3>1. TypeOK'
      BY <2>3 DEF TypeOK, PhaseOK, RangeOK, Step, ChefCount, Goto, shared
    <3>2. PhaseOK'
      BY <2>3 DEF TypeOK, PhaseOK, RangeOK, Step, ChefCount, Goto, shared
    <3>3. RangeOK'
      BY <2>3 DEF TypeOK, PhaseOK, RangeOK, Step, ChefCount, Goto, shared
    <3> QED
      BY <3>1, <3>2, <3>3
  <2>4. CASE CustomerCount(p)
    <3>1. TypeOK'
      BY <2>4 DEF TypeOK, PhaseOK, RangeOK, Step, CustomerCount, Goto, shared
    <3>2. PhaseOK'
      BY <2>4 DEF TypeOK, PhaseOK, RangeOK, Step, CustomerCount, Goto, shared
    <3>3. RangeOK'
      BY <2>4 DEF TypeOK, PhaseOK, RangeOK, Step, CustomerCount, Goto, shared
    <3> QED
      BY <3>1, <3>2, <3>3
  <2>5. CASE HybridCount(p)
    <3>1. TypeOK'
      BY <2>5 DEF TypeOK, PhaseOK, RangeOK, Step, HybridCount, Goto, shared
    <3>2. PhaseOK'
      BY <2>5 DEF TypeOK, PhaseOK, RangeOK, Step, HybridCount, Goto, shared
    <3>3. RangeOK'
      BY <2>5 DEF TypeOK, PhaseOK, RangeOK, Step, HybridCount, Goto, shared
    <3> QED
      BY <3>1, <3>2, <3>3
  <2>6. CASE Store(p)
    <3>1. TypeOK'
      <4>1. cur[p] \in Tray /\ cnt[p][cur[p]] \in Slot
        BY DEF TypeOK
      <4>2. PICK d \in Menu[cur[p]] :
              items' = [items EXCEPT ![cur[p]][cnt[p][cur[p]]] = d]
        BY <2>6 DEF Store
      <4>3. d \in Dish
        BY <4>1
      <4>4. items' \in [Tray -> [Slot -> Dish \cup {NoFood}]]
        BY <4>1, <4>2, <4>3 DEF TypeOK
      <4> QED
        BY <2>6, <4>4 DEF TypeOK, Step, Store, Goto
    <3>2. PhaseOK'
      BY <2>6 DEF TypeOK, PhaseOK, RangeOK, Step, Store, Goto, shared
    <3>3. RangeOK'
      BY <2>6 DEF TypeOK, PhaseOK, RangeOK, Step, Store, Goto, shared
    <3> QED
      BY <3>1, <3>2, <3>3
  <2>7. CASE Pick(p)
    <3>1. TypeOK'
      <4>1. cur[p] \in Tray /\ cnt[p][cur[p]] \in 0 .. MAX_ITEM
        BY DEF TypeOK
      <4>2. PICK i \in 0 .. cnt[p][cur[p]] - 1 :
              /\ idx' = [idx EXCEPT ![p] = i]
              /\ item' = [item EXCEPT ![p][cur[p]] = items[cur[p]][i]]
        BY <2>7 DEF Pick
      <4>3. i \in Slot
        BY <4>1
      <4>4. items[cur[p]][i] \in Dish \cup {NoFood}
        BY <4>1, <4>3 DEF TypeOK
      <4>5. idx' \in [Proc -> Slot]
        BY <4>2, <4>3 DEF TypeOK
      <4>6. item' \in [Proc -> [Tray -> Dish \cup {NoFood}]]
        BY <4>1, <4>2, <4>4 DEF TypeOK
      <4> QED
        BY <2>7, <4>5, <4>6 DEF TypeOK, Step, Pick, Goto, shared
    <3>2. PhaseOK'
      BY <2>7 DEF TypeOK, PhaseOK, RangeOK, Step, Pick, Goto, shared
    <3>3. RangeOK'
      BY <2>7 DEF TypeOK, PhaseOK, RangeOK, Step, Pick, Goto, shared
    <3> QED
      BY <3>1, <3>2, <3>3
  <2>8. CASE Shift(p)
    <3>1. TypeOK'
      <4>1. cur[p] \in Tray /\ cnt[p][cur[p]] \in 0 .. MAX_ITEM
        BY DEF TypeOK
      <4>2. idx[p] \in Slot /\ idx[p] + 1 \in Slot
        BY <2>8, <4>1 DEF TypeOK, RangeOK, Shift
      <4>3. items[cur[p]][idx[p] + 1] \in Dish \cup {NoFood}
        BY <4>1, <4>2 DEF TypeOK
      <4>4. items' \in [Tray -> [Slot -> Dish \cup {NoFood}]]
        BY <2>8, <4>1, <4>2, <4>3 DEF TypeOK, Shift
      <4>5. idx' \in [Proc -> Slot]
        BY <2>8, <4>2 DEF TypeOK, Shift
      <4> QED
        BY <2>8, <4>4, <4>5 DEF TypeOK, Step, Shift, Goto
    <3>2. PhaseOK'
      BY <2>8 DEF TypeOK, PhaseOK, RangeOK, Step, Shift, Goto, shared
    <3>3. RangeOK'
      BY <2>8 DEF TypeOK, PhaseOK, RangeOK, Step, Shift, Goto, shared
    <3> QED
      BY <3>1, <3>2, <3>3
  <2>9. CASE Wipe(p)
    <3>1. TypeOK'
      BY <2>9 DEF TypeOK, PhaseOK, RangeOK, Step, Wipe, Goto, shared
    <3>2. PhaseOK'
      BY <2>9 DEF TypeOK, PhaseOK, RangeOK, Step, Wipe, Goto, shared
    <3>3. RangeOK'
      BY <2>9 DEF TypeOK, PhaseOK, RangeOK, Step, Wipe, Goto, shared
    <3> QED
      BY <3>1, <3>2, <3>3
  <2>10. CASE SetCount(p)
    <3>1. TypeOK'
      <4>1. cur[p] \in Tray /\ cnt[p][cur[p]] \in 0 .. MAX_ITEM
        BY DEF TypeOK
      <4>2. (IF p \in Chef THEN cnt[p][cur[p]] + 1 ELSE cnt[p][cur[p]] - 1)
              \in 0 .. MAX_ITEM
        BY <2>10, <4>1 DEF RangeOK, SetCount
      <4>3. count' \in [Tray -> 0 .. MAX_ITEM]
        BY <2>10, <4>1, <4>2 DEF TypeOK, SetCount
      <4> QED
        BY <2>10, <4>3 DEF TypeOK, Step, SetCount, Goto
    <3>2. PhaseOK'
      BY <2>10 DEF TypeOK, PhaseOK, RangeOK, Step, SetCount, Goto, shared
    <3>3. RangeOK'
      BY <2>10 DEF TypeOK, PhaseOK, RangeOK, Step, SetCount, Goto, shared
    <3> QED
      BY <3>1, <3>2, <3>3
  <2>11. CASE Post(p)
    <3>1. TypeOK'
      BY <2>11 DEF TypeOK, PhaseOK, RangeOK, Step, Post, sem_post, Forget, Goto, shared
    <3>2. PhaseOK'
      BY <2>11 DEF TypeOK, PhaseOK, RangeOK, Step, Post, sem_post, Forget, Goto, shared
    <3>3. RangeOK'
      BY <2>11 DEF TypeOK, PhaseOK, RangeOK, Step, Post, sem_post, Forget, Goto, shared
    <3> QED
      BY <3>1, <3>2, <3>3
  <2>12. CASE HybridPostVegan(p)
    <3>1. TypeOK'
      BY <2>12 DEF TypeOK, PhaseOK, RangeOK, Step, HybridPostVegan, sem_post, Goto, shared
    <3>2. PhaseOK'
      BY <2>12 DEF TypeOK, PhaseOK, RangeOK, Step, HybridPostVegan, sem_post, Goto, shared
    <3>3. RangeOK'
      BY <2>12 DEF TypeOK, PhaseOK, RangeOK, Step, HybridPostVegan, sem_post, Goto, shared
    <3> QED
      BY <3>1, <3>2, <3>3
  <2>13. CASE HybridPostNonVegan(p)
    <3>1. TypeOK'
      BY <2>13 DEF TypeOK, PhaseOK, RangeOK, Step, HybridPostNonVegan, sem_post, Forget, Goto, shared
    <3>2. PhaseOK'
      BY <2>13 DEF TypeOK, PhaseOK, RangeOK, Step, HybridPostNonVegan, sem_post, Forget, Goto, shared
    <3>3. RangeOK'
      BY <2>13 DEF TypeOK, PhaseOK, RangeOK, Step, HybridPostNonVegan, sem_post, Forget, Goto, shared
    <3> QED
      BY <3>1, <3>2, <3>3
  <2> QED
    BY <2>1, <2>2, <2>3, <2>4, <2>5, <2>6, <2>7, <2>8, <2>9, <2>10, <2>11, <2>12,
       <2>13 DEF Step, SemWait, Work
<1> QED
  BY <1>0, <1>1, <1>2 DEF Next

(***************************************************************************)
(* The program keeps every variable in its type, for every capacity, menu  *)
(* and population of the kitchen: no count passes MAX_ITEM or wraps below  *)
(* zero in the uint32_t arithmetic of the handlers.                        *)
(***************************************************************************)
THEOREM TypeCorrect == Spec => []TypeOK
<1>1. Types => TypeOK
  BY DEF Types
<1> QED
  BY TypesInit, TypesNext, <1>1, PTL DEF Spec

----------------------------------------------------------------------------
\* A successful sem_wait makes p the only holder of t.
LEMMA TakeKeepsMutex ==
  ASSUME TypeOK, Mutex, NEW p \in Proc, NEW t \in Tray, sem_wait(t),
         \A q \in Proc, u \in Tray :
           Holding(q, u)' <=> Holding(q, u) \/ (q = p /\ u = t)
  PROVE  Mutex'
<1>1. \A q \in Proc : ~Holding(q, t)
  BY DEF Mutex, sem_wait
<1>2. ASSUME NEW u \in Tray
      PROVE  /\ \A q, r \in Proc : Holding(q, u)' /\ Holding(r, u)' => q = r
             /\ sem'[u] = IF \E q \in Proc : Holding(q, u)' THEN 0 ELSE 1
  <2>1. CASE u = t
    <3>1. sem[t] = 1 /\ sem'[t] = 0
      BY <1>1 DEF Mutex, TypeOK, sem_wait
    <3> QED
      BY <1>1, <2>1, <3>1
  <2>2. CASE u # t
    <3>1. sem'[u] = sem[u]
      BY <2>2 DEF TypeOK, sem_wait
    <3>2. \A q \in Proc : Holding(q, u)' <=> Holding(q, u)
      BY <2>2
    <3> QED
      BY <3>1, <3>2 DEF Mutex
  <2> QED
    BY <2>1, <2>2
<1> QED
  BY <1>2 DEF Mutex

\* A sem_post by the holder of t leaves t without a holder.
LEMMA ReleaseKeepsMutex ==
  ASSUME TypeOK, Mutex, NEW p \in Proc, NEW t \in Tray, sem_post(t), Holding(p, t),
         \A q \in Proc, u \in Tray :
           Holding(q, u)' <=> Holding(q, u) /\ ~(q = p /\ u = t)
  PROVE  Mutex'
<1>1. \A q \in Proc : ~Holding(q, t)'
  BY DEF Mutex
<1>2. ASSUME NEW u \in Tray
      PROVE  /\ \A q, r \in Proc : Holding(q, u)' /\ Holding(r, u)' => q = r
             /\ sem'[u] = IF \E q \in Proc : Holding(q, u)' THEN 0 ELSE 1
  <2>1. CASE u = t
    <3>1. sem[t] = 0 /\ sem'[t] = 1
      BY DEF Mutex, TypeOK, sem_post
    <3> QED
      BY <1>1, <2>1, <3>1
  <2>2. CASE u # t
    <3>1. sem'[u] = sem[u]
      BY <2>2 DEF TypeOK, sem_post
    <3>2. \A q \in Proc : Holding(q, u)' <=> Holding(q, u)
      BY <2>2
    <3> QED
      BY <3>1, <3>2 DEF Mutex
  <2> QED
    BY <2>1, <2>2
<1> QED
  BY <1>2 DEF Mutex

\* A step that neither waits nor posts keeps the holders.
LEMMA InsideKeepsMutex ==
  ASSUME Mutex, sem' = sem,
         \A q \in Proc, u \in Tray : Holding(q, u)' <=> Holding(q, u)
  PROVE  Mutex'
  BY DEF Mutex

\* Both semaphores start at 1 with nobody inside.
LEMMA MutexInit == Init => Mutex
  BY ProcessAssumption DEF Init, Mutex, Holding, Inside, Tray

\* Every step keeps the semaphores exclusive, a kill included: the dead keep what they held.
LEMMA MutexNext == Types /\ Mutex /\ [Next]_vars => Mutex'
<1> SUFFICES ASSUME Types, Mutex, [Next]_vars PROVE Mutex'
  OBVIOUS
<1> USE ProcessAssumption
<1>t. TypeOK
  BY DEF Types
<1>0. CASE UNCHANGED vars
  BY <1>0, InsideKeepsMutex DEF vars, shared, local, Holding
<1>1. ASSUME NEW p \in Proc, Killed(p) PROVE Mutex'
  BY <1>1, InsideKeepsMutex DEF Killed, shared, local, Holding
<1>2. ASSUME NEW p \in Proc, Step(p) PROVE Mutex'
  <2>0. /\ cur[p] \in Tray /\ VEGAN \in Tray /\ NON_VEGAN \in Tray
        /\ VEGAN # NON_VEGAN
    BY <1>t DEF TypeOK, Tray, VEGAN, NON_VEGAN
  <2>1. CASE Enter(p)
    <3>1. \A q \in Proc, u \in Tray :
            Holding(q, u)' <=> Holding(q, u) \/ (q = p /\ u = cur[p])
      BY <2>0, <2>1 DEF Types, TypeOK, PhaseOK, Holding, Inside, Goto, Tray, VEGAN, NON_VEGAN, Enter
    <3> QED
      BY <1>t, <2>0, <2>1, <3>1, TakeKeepsMutex DEF Enter
  <2>2. CASE EnterSecond(p)
    <3>1. \A q \in Proc, u \in Tray :
            Holding(q, u)' <=> Holding(q, u) \/ (q = p /\ u = NON_VEGAN)
      BY <2>0, <2>2 DEF Types, TypeOK, PhaseOK, Holding, Inside, Goto, Tray, VEGAN, NON_VEGAN, EnterSecond
    <3> QED
      BY <1>t, <2>0, <2>2, <3>1, TakeKeepsMutex DEF EnterSecond
  <2>3. CASE \/ ChefCount(p) \/ CustomerCount(p) \/ HybridCount(p) \/ Store(p)
             \/ Pick(p) \/ Shift(p) \/ Wipe(p) \/ SetCount(p)
    <3>1. \A q \in Proc, u \in Tray : Holding(q, u)' <=> Holding(q, u)
      BY <2>3 DEF Types, TypeOK, PhaseOK, Holding, Inside, Goto, ChefCount,
                  CustomerCount, HybridCount, Store, Pick, Shift, Wipe, SetCount
    <3>2. sem' = sem
      BY <2>3 DEF ChefCount, CustomerCount, HybridCount, Store, Pick, Shift, Wipe,
                  SetCount, shared
    <3> QED
      BY <3>1, <3>2, InsideKeepsMutex
  <2>4. CASE Post(p)
    <3>1. /\ Holding(p, cur[p])
          /\ \A q \in Proc, u \in Tray :
               Holding(q, u)' <=> Holding(q, u) /\ ~(q = p /\ u = cur[p])
      BY <2>0, <2>4 DEF Types, TypeOK, PhaseOK, Holding, Inside, Goto, Tray, VEGAN, NON_VEGAN, Post
    <3> QED
      BY <1>t, <2>0, <2>4, <3>1, ReleaseKeepsMutex DEF Post
  <2>5. CASE HybridPostVegan(p)
    <3>1. /\ Holding(p, VEGAN)
          /\ \A q \in Proc, u \in Tray :
               Holding(q, u)' <=> Holding(q, u) /\ ~(q = p /\ u = VEGAN)
      BY <2>0, <2>5 DEF Types, TypeOK, PhaseOK, Holding, Inside, Goto, Tray, VEGAN, NON_VEGAN, HybridPostVegan
    <3> QED
      BY <1>t, <2>0, <2>5, <3>1, ReleaseKeepsMutex DEF HybridPostVegan
  <2>6. CASE HybridPostNonVegan(p)
    <3>1. /\ Holding(p, NON_VEGAN)
          /\ \A q \in Proc, u \in Tray :
               Holding(q, u)' <=> Holding(q, u) /\ ~(q = p /\ u = NON_VEGAN)
      BY <2>0, <2>6 DEF Types, TypeOK, PhaseOK, Holding, Inside, Goto, Tray, VEGAN, NON_VEGAN, HybridPostNonVegan
    <3> QED
      BY <1>t, <2>0, <2>6, <3>1, ReleaseKeepsMutex DEF HybridPostNonVegan
  <2> QED
    BY <1>2, <2>1, <2>2, <2>3, <2>4, <2>5, <2>6 DEF Step, SemWait, Work
<1> QED
  BY <1>0, <1>1, <1>2 DEF Next

(***************************************************************************)
(* Mutual exclusion on each tray, and a semaphore value that tells exactly *)
(* whether somebody is inside.                                             *)
(***************************************************************************)
THEOREM MutualExclusion == Spec => []Mutex
<1>1. Init => Types /\ Mutex
  BY TypesInit, MutexInit
<1>2. Types /\ Mutex /\ [Next]_vars => (Types /\ Mutex)'
  BY TypesNext, MutexNext
<1> QED
  BY <1>1, <1>2, PTL DEF Spec

----------------------------------------------------------------------------
\* Only a process inside a tray, and working on it, writes its count.
LEMMA StaleNext ==
  Types /\ Mutex /\ CountNotStale /\ [Next]_vars => CountNotStale'
<1> SUFFICES ASSUME Types, Mutex, CountNotStale, [Next]_vars PROVE CountNotStale'
  OBVIOUS
<1> USE DEF Types, TypeOK, Inside
<1>0. CASE UNCHANGED vars
  BY <1>0 DEF vars, shared, local, CountNotStale
<1>1. ASSUME NEW p \in Proc, Killed(p) PROVE CountNotStale'
  BY <1>1 DEF Killed, shared, local, CountNotStale
<1>2. ASSUME NEW p \in Proc, Step(p) PROVE CountNotStale'
  <2>1. CASE SetCount(p)
    <3> SUFFICES ASSUME NEW q \in Proc
                 PROVE  /\ pc'[q] \in {"store", "pick", "shift", "wipe", "setcount"}
                             => cnt'[q][cur'[q]] = count'[cur'[q]]
                        /\ q \in Hybrid /\ pc'[q] \in Inside \ {"count"}
                             /\ cur'[q] = VEGAN
                             => cnt'[q][NON_VEGAN] = count'[NON_VEGAN]
      BY DEF CountNotStale
    <3>1. CASE q = p
      BY <2>1, <3>1 DEF SetCount, Goto, CountNotStale, Tray, VEGAN, NON_VEGAN
    <3>2. CASE q # p
      <4>1. pc'[q] = pc[q] /\ cur' = cur /\ cnt' = cnt
        BY <2>1, <3>2 DEF SetCount, Goto
      <4>2. Holding(p, cur[p])
        BY <2>1 DEF SetCount, Holding
      <4>3. \A u \in Tray : Holding(q, u) => count'[u] = count[u]
        BY <2>1, <3>2, <4>2 DEF SetCount, Mutex
      <4>4. pc[q] \in Inside => Holding(q, cur[q])
        BY DEF Holding
      <4>5. q \in Hybrid /\ pc[q] \in Inside => Holding(q, NON_VEGAN)
        BY DEF Holding
      <4> QED
        BY <4>1, <4>3, <4>4, <4>5 DEF CountNotStale, Tray
    <3> QED
      BY <3>1, <3>2
  <2>2. CASE Enter(p) \/ EnterSecond(p)
    BY <2>2 DEF Enter, EnterSecond, Goto, CountNotStale
  <2>3. CASE ChefCount(p) \/ CustomerCount(p)
    <3>1. p \notin Hybrid /\ cur[p] \in Tray
      BY <2>3, ProcessAssumption DEF ChefCount, CustomerCount, Eater
    <3>2. /\ cur' = cur /\ count' = count
          /\ cnt' = [cnt EXCEPT ![p][cur[p]] = count[cur[p]]]
      BY <2>3 DEF ChefCount, CustomerCount, shared
    <3>3. \A q \in Proc \ {p} : pc'[q] = pc[q]
      BY <2>3 DEF ChefCount, CustomerCount, Goto
    <3>4. cnt'[p][cur[p]] = count[cur[p]]
      BY <3>1, <3>2
    <3>5. \A q \in Proc \ {p} : cnt'[q] = cnt[q]
      BY <3>2
    <3> QED
      BY <3>1, <3>2, <3>3, <3>4, <3>5 DEF CountNotStale
  <2>4. CASE HybridCount(p)
    BY <2>4 DEF HybridCount, Goto, shared, CountNotStale, Tray
  <2>5. CASE Store(p) \/ Pick(p) \/ Shift(p) \/ Wipe(p)
    BY <2>5 DEF Store, Pick, Shift, Wipe, Goto, shared, CountNotStale
  <2>6. CASE Post(p) \/ HybridPostNonVegan(p)
    BY <2>6 DEF Post, HybridPostNonVegan, Forget, Goto, CountNotStale
  <2>7. CASE HybridPostVegan(p)
    BY <2>7 DEF HybridPostVegan, Goto, CountNotStale, Tray, VEGAN, NON_VEGAN
  <2> QED
    BY <1>2, <2>1, <2>2, <2>3, <2>4, <2>5, <2>6, <2>7 DEF Step, SemWait, Work
<1> QED
  BY <1>0, <1>1, <1>2 DEF Next

\* No process has read a count yet when the children start.
LEMMA StaleInit == Init => CountNotStale
  BY DEF Init, CountNotStale, Inside

(***************************************************************************)
(* The hybrid customer's early read of the non-vegan count, and every      *)
(* other local copy, is up to date when it is used.                        *)
(***************************************************************************)
THEOREM CountsFresh == Spec => []CountNotStale
<1> DEFINE Safe == Types /\ Mutex /\ CountNotStale
<1>1. Init => Safe
  BY TypesInit, MutexInit, StaleInit
<1>2. Safe /\ [Next]_vars => Safe'
  BY TypesNext, MutexNext, StaleNext
<1>3. Safe => CountNotStale
  OBVIOUS
<1> HIDE DEF Safe
<1> QED
  BY <1>1, <1>2, <1>3, PTL DEF Spec

----------------------------------------------------------------------------
\* What TrayShape says of one tray.
ShapeOf(t) ==
  /\ (\A p \in Proc : ~Closing(p, t)) => Shaped(t, count[t])
  /\ \A p \in Proc : Closing(p, t) =>
       Shaped(t, IF p \in Chef THEN count[t] + 1 ELSE count[t] - 1)

\* A step that leaves tray t and its users' phases alone keeps its shape.
LEMMA SameShape ==
  ASSUME NEW t \in Tray, ShapeOf(t), items'[t] = items[t], count'[t] = count[t],
         \A q \in Proc : Closing(q, t)' <=> Closing(q, t)
  PROVE  ShapeOf(t)'
  BY DEF ShapeOf, Shaped

\* A tray that p is inside of is being changed by nobody else.
LEMMA AloneInside ==
  ASSUME Types, Mutex, NEW p \in Proc, pc[p] \in Inside
  PROVE  \A q \in Proc : Closing(q, cur[p]) => q = p
  BY DEF Types, TypeOK, Mutex, Holding, Closing, Inside

\* The first write of a chef.
LEMMA StoreShape ==
  ASSUME Types, Mutex, CountNotStale, TrayShape, NEW p \in Proc, Store(p),
         NEW t \in Tray, t = cur[p]
  PROVE  ShapeOf(t)'
<1> DEFINE n == count[t]
<1>1. /\ t \in Tray /\ n \in 0 .. MAX_ITEM /\ n < MAX_ITEM /\ cnt[p][t] = n
      /\ p \in Chef /\ pc[p] = "store"
  BY DEF Types, TypeOK, PhaseOK, RangeOK, CountNotStale, Store
<1>2. \A q \in Proc : ~Closing(q, t)
  BY <1>1, AloneInside DEF Closing, Inside
<1>3. Shaped(t, n)
  BY <1>1, <1>2 DEF TrayShape
<1>4. PICK d \in Menu[t] : items' = [items EXCEPT ![t][n] = d]
  BY <1>1 DEF Store
<1>5. /\ \A i \in Slot : items'[t][i] = IF i = n THEN d ELSE items[t][i]
      /\ count' = count /\ cur' = cur
  <2>1. n \in Slot /\ items \in [Tray -> [Slot -> Dish \cup {NoFood}]]
    BY <1>1 DEF Types, TypeOK, Slot
  <2>2. count' = count /\ cur' = cur
    BY DEF Store
  <2>3. items'[t] = [items[t] EXCEPT ![n] = d]
    BY <1>4, <2>1
  <2> QED
    BY <2>1, <2>2, <2>3
<1>6. \A i \in Slot : IF i < n + 1 THEN items'[t][i] \in Menu[t]
                                   ELSE items'[t][i] = NoFood
  BY <1>1, <1>3, <1>4, <1>5 DEF Shaped, Slot
<1>7. \A q \in Proc : Closing(q, t)' <=> q = p
  BY <1>1, <1>2, <1>5 DEF Closing, Store, Goto, Types, TypeOK
<1> QED
  BY <1>1, <1>5, <1>6, <1>7 DEF ShapeOf, Shaped

\* One move of an eater's loop; the last one pulls a clear slot down.
LEMMA ShiftShape ==
  ASSUME Types, Mutex, CountNotStale, TrayShape, NEW p \in Proc, Shift(p),
         NEW t \in Tray, t = cur[p]
  PROVE  ShapeOf(t)'
<1> DEFINE n == count[t]
           k == idx[p]
<1>1. /\ t \in Tray /\ n \in 0 .. MAX_ITEM /\ cnt[p][t] = n
      /\ p \in Eater /\ pc[p] = "shift" /\ k \in Nat /\ k < n
  BY DEF Types, TypeOK, PhaseOK, RangeOK, CountNotStale, Shift, Slot
<1>2. \A q \in Proc : ~Closing(q, t)
  BY <1>1, AloneInside DEF Closing, Inside
<1>3. Shaped(t, n)
  BY <1>1, <1>2 DEF TrayShape
<1>4. /\ \A i \in Slot : items'[t][i] = IF i = k THEN items[t][k + 1] ELSE items[t][i]
      /\ count' = count /\ cur' = cur
  BY <1>1, CapacityAssumption DEF Types, TypeOK, Slot, Shift
<1>5. p \notin Chef
  BY <1>1, ProcessAssumption
<1>6. CASE k + 1 < n
  <2>1. \A i \in Slot : IF i < n THEN items'[t][i] \in Menu[t]
                                 ELSE items'[t][i] = NoFood
    <3>1. k + 1 \in Slot /\ items[t][k + 1] \in Menu[t]
      BY <1>1, <1>3, <1>6, CapacityAssumption DEF Shaped, Slot
    <3>2. \A i \in Slot : ~(i < n) => i # k
      BY <1>1
    <3> QED
      BY <1>3, <1>4, <3>1, <3>2 DEF Shaped
  <2>2. \A q \in Proc : ~Closing(q, t)'
    BY <1>1, <1>2, <1>4, <1>6 DEF Closing, Shift, Goto, Types, TypeOK
  <2> QED
    BY <1>1, <1>4, <2>1, <2>2 DEF ShapeOf, Shaped
<1>7. CASE ~(k + 1 < n)
  <2>1. k = n - 1
    BY <1>1, <1>7
  <2>2. \A i \in Slot : IF i < n - 1 THEN items'[t][i] \in Menu[t]
                                     ELSE items'[t][i] = NoFood
    BY <1>1, <1>3, <1>4, <2>1, CapacityAssumption DEF Shaped, Slot
  <2>3. \A q \in Proc : Closing(q, t)' <=> q = p
    BY <1>1, <1>2, <1>4, <1>7 DEF Closing, Shift, Goto, Types, TypeOK
  <2> QED
    BY <1>1, <1>4, <1>5, <2>2, <2>3 DEF ShapeOf, Shaped
<1> QED
  BY <1>6, <1>7

\* The memset of slot count, which the loop left clear already.
LEMMA WipeShape ==
  ASSUME Types, Mutex, CountNotStale, TrayShape, NEW p \in Proc, Wipe(p),
         NEW t \in Tray, t = cur[p]
  PROVE  ShapeOf(t)'
<1> DEFINE n == count[t]
<1>1. /\ t \in Tray /\ n \in 0 .. MAX_ITEM /\ n > 0 /\ cnt[p][t] = n
      /\ p \in Eater /\ pc[p] = "wipe" /\ Closing(p, t)
  BY DEF Types, TypeOK, PhaseOK, RangeOK, CountNotStale, Wipe, Closing
<1>2. p \notin Chef
  BY <1>1, ProcessAssumption
<1>3. Shaped(t, n - 1)
  BY <1>1, <1>2 DEF TrayShape
<1>4. /\ \A i \in Slot : items'[t][i] = IF i = n THEN NoFood ELSE items[t][i]
      /\ count' = count /\ cur' = cur
  BY <1>1 DEF Types, TypeOK, Slot, Wipe
<1>5. \A i \in Slot : IF i < n - 1 THEN items'[t][i] \in Menu[t]
                                   ELSE items'[t][i] = NoFood
  BY <1>1, <1>3, <1>4 DEF Shaped, Slot
<1>6. \A q \in Proc : Closing(q, t)' => q = p
  BY <1>1, <1>4, AloneInside DEF Closing, Inside, Wipe, Goto, Types, TypeOK
<1>7. Closing(p, t)'
  BY <1>1, <1>4 DEF Closing, Wipe, Goto, Types, TypeOK
<1> QED
  BY <1>1, <1>2, <1>4, <1>5, <1>6, <1>7 DEF ShapeOf, Shaped

\* The count catches up with the slots.
LEMMA SetCountShape ==
  ASSUME Types, Mutex, CountNotStale, TrayShape, NEW p \in Proc, SetCount(p),
         NEW t \in Tray, t = cur[p]
  PROVE  ShapeOf(t)'
<1> DEFINE m == IF p \in Chef THEN count[t] + 1 ELSE count[t] - 1
<1>1. /\ t \in Tray /\ cnt[p][t] = count[t] /\ pc[p] = "setcount" /\ Closing(p, t)
  BY DEF Types, TypeOK, CountNotStale, SetCount, Closing
<1>2. Shaped(t, m)
  BY <1>1 DEF TrayShape
<1>3. items' = items /\ cur' = cur /\ count'[t] = m
  BY <1>1 DEF Types, TypeOK, SetCount
<1>4. \A q \in Proc : ~Closing(q, t)'
  BY <1>1, <1>3, AloneInside DEF Closing, Inside, SetCount, Goto, Types, TypeOK
<1> QED
  BY <1>2, <1>3, <1>4 DEF ShapeOf, Shaped

\* The trays the children find are closed and nobody works on them.
LEMMA ShapeInit == Init => TrayShape
  BY DEF Init, TrayShape, Shaped, Closing

\* Every step keeps each tray closed, or open only under the process that works on it.
LEMMA ShapeNext == IInv /\ [Next]_vars => TrayShape'
<1> SUFFICES ASSUME IInv, [Next]_vars, NEW t \in Tray PROVE ShapeOf(t)'
  BY DEF TrayShape, ShapeOf
<1>i. ShapeOf(t) /\ Types /\ Mutex /\ CountNotStale /\ TrayShape
  BY DEF IInv, TrayShape, ShapeOf
<1>0. CASE UNCHANGED vars
  BY <1>i, <1>0, SameShape DEF vars, shared, local, Closing
<1>1. ASSUME NEW p \in Proc, Killed(p) PROVE ShapeOf(t)'
  BY <1>i, <1>1, SameShape DEF Killed, shared, local, Closing
<1>2. ASSUME NEW p \in Proc, Step(p) PROVE ShapeOf(t)'
  <2>1. CASE Store(p) \/ Shift(p) \/ Wipe(p) \/ SetCount(p)
    <3>1. CASE t = cur[p]
      BY <1>i, <2>1, <3>1, StoreShape, ShiftShape, WipeShape, SetCountShape
    <3>2. CASE t # cur[p]
      <4>1. items'[t] = items[t] /\ count'[t] = count[t]
        BY <1>i, <2>1, <3>2 DEF Types, TypeOK, Store, Shift, Wipe, SetCount
      <4>2. \A q \in Proc : Closing(q, t)' <=> Closing(q, t)
        BY <1>i, <2>1, <3>2 DEF Types, TypeOK, Closing, Store, Shift, Wipe, SetCount,
           Goto
      <4> QED
        BY <1>i, <4>1, <4>2, SameShape
    <3> QED
      BY <3>1, <3>2
  <2>2. CASE \/ Enter(p) \/ EnterSecond(p) \/ ChefCount(p) \/ CustomerCount(p)
             \/ HybridCount(p) \/ Pick(p) \/ Post(p) \/ HybridPostVegan(p)
             \/ HybridPostNonVegan(p)
    <3>1. items' = items /\ count' = count
      BY <2>2 DEF Enter, EnterSecond, ChefCount, CustomerCount, HybridCount, Pick,
         Post, HybridPostVegan, HybridPostNonVegan, shared
    <3>2. \A q \in Proc : Closing(q, t)' <=> Closing(q, t)
      BY <1>i, <2>2 DEF Enter, EnterSecond, ChefCount, CustomerCount, HybridCount,
         Pick, Post, HybridPostVegan, HybridPostNonVegan, Goto, Closing, Types, TypeOK
    <3> QED
      BY <1>i, <3>1, <3>2, SameShape
  <2> QED
    BY <1>2, <2>1, <2>2 DEF Step, SemWait, Work
<1> QED
  BY <1>0, <1>1, <1>2 DEF Next

\* The whole inductive invariant, one layer upon the other.
LEMMA Invariance == Spec => []IInv
<1>1. Init => IInv
  BY TypesInit, MutexInit, StaleInit, ShapeInit DEF IInv
<1>2. IInv /\ [Next]_vars => IInv'
  BY TypesNext, MutexNext, StaleNext, ShapeNext DEF IInv
<1> QED
  BY <1>1, <1>2, PTL DEF Spec

(***************************************************************************)
(* Whoever takes a tray's semaphore finds dishes of the right menu in the  *)
(* first count slots and nothing behind them, for every capacity: the      *)
(* clearing of slot count instead of count - 1 does no harm.               *)
(***************************************************************************)
THEOREM FreeTraysAreWellFormed == Spec => []FreeTrayWellFormed
<1>1. IInv => FreeTrayWellFormed
  <2> SUFFICES ASSUME IInv, NEW t \in Tray, sem[t] = 1 PROVE WellFormed(t)
    BY DEF FreeTrayWellFormed
  <2>1. \A p \in Proc : ~Closing(p, t)
    BY DEF IInv, Mutex, Holding, Closing, Inside
  <2> QED
    BY <2>1 DEF IInv, TrayShape, Shaped, WellFormed, Types, TypeOK
<1> QED
  BY <1>1, Invariance, PTL

(***************************************************************************)
(* No step touches a tray that a killed process was inside of.             *)
(***************************************************************************)
THEOREM TornTraysStay == Spec => TornTrayUntouched
<1> DEFINE Dead(t) == \E p \in Proc : ~alive[p] /\ Holding(p, t)
           Untouched == \A t \in Tray : Dead(t) => UNCHANGED <<count[t], items[t]>>
<1>1. ASSUME IInv, [Next]_vars PROVE [Untouched]_vars
  <2> SUFFICES ASSUME NEW t \in Tray, NEW d \in Proc, ~alive[d], Holding(d, t)
               PROVE  count'[t] = count[t] /\ items'[t] = items[t]
    BY DEF Untouched, Dead
  <2>0. TypeOK /\ Mutex
    BY <1>1 DEF IInv, Types
  <2>1. CASE UNCHANGED vars
    BY <2>1 DEF vars, shared
  <2>2. ASSUME NEW p \in Proc, Killed(p)
        PROVE  count'[t] = count[t] /\ items'[t] = items[t]
    BY <2>2 DEF Killed, shared
  <2>3. ASSUME NEW p \in Proc, Step(p)
        PROVE  count'[t] = count[t] /\ items'[t] = items[t]
    <3>1. p # d
      BY <2>3 DEF Step
    <3>2. CASE Store(p) \/ Shift(p) \/ Wipe(p) \/ SetCount(p)
      <4>1. Holding(p, cur[p])
        BY <3>2 DEF Store, Shift, Wipe, SetCount, Holding, Inside
      <4>2. cur[p] # t
        BY <2>0, <3>1, <4>1 DEF Mutex
      <4> QED
        BY <2>0, <3>2, <4>2 DEF TypeOK, Store, Shift, Wipe, SetCount
    <3>3. CASE ~(Store(p) \/ Shift(p) \/ Wipe(p) \/ SetCount(p))
      BY <2>3, <3>3 DEF Step, SemWait, Work, Enter, EnterSecond, ChefCount,
         CustomerCount, HybridCount, Pick, Post, HybridPostVegan, HybridPostNonVegan,
         shared
    <3> QED
      BY <3>2, <3>3
  <2> QED
    BY <1>1, <2>1, <2>2, <2>3 DEF Next
<1> QED
  BY <1>1, Invariance, PTL DEF Spec, TornTrayUntouched
==============================================================================
