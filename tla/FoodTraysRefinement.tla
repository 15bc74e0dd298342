------------------------- MODULE FoodTraysRefinement -------------------------
(***************************************************************************)
(* The proof that FoodTrays implements BoundedTray: what the arrays, the   *)
(* counts and the loops of the handlers do to a tray is, through TrayView, *)
(* what Put and Take do to a bounded sequence, for every capacity, menu    *)
(* and number of processes, and whoever is killed when.                    *)
(*                                                                         *)
(* A dish leaves the abstract tray when an eater copies it out (Pick) and  *)
(* enters it when a chef writes the count (SetCount).  Every other step is *)
(* a stutter: the loop moves the hole along the array, and the memset and  *)
(* the chef's write are behind the last dish that counts.                  *)
(***************************************************************************)
EXTENDS FoodTraysProofs, SequenceTheorems

\* The array up to the count, and the same without the slot at hole.
Whole(t) == [j \in 1 .. count[t] |-> items[t][j - 1]]

Holed(t, hole) ==
  [j \in 1 .. count[t] - 1 |-> items[t][IF j - 1 < hole THEN j - 1 ELSE j]]

\* TrayView, without the choice of the process that is removing a dish.
ViewOK ==
  \A t \in Tray :
    /\ \A p \in Proc : Removing(p, t) => TrayView(t) = Holed(t, idx[p])
    /\ (\A p \in Proc : ~Removing(p, t)) => TrayView(t) = Whole(t)

\* When an eater's loop is over, the hole has come to the end of the array.
HoleAtEnd ==
  \A p \in Proc :
    p \in Eater /\ pc[p] \in {"wipe", "setcount"} => idx[p] = cnt[p][cur[p]]

RInv == IInv /\ HoleAtEnd

----------------------------------------------------------------------------
\* The loop ends with its index at the count, and neither changes before the post.
LEMMA HoleNext == RInv /\ [Next]_vars => HoleAtEnd'
<1> SUFFICES ASSUME RInv, [Next]_vars, NEW q \in Proc, q \in Eater,
                    pc'[q] \in {"wipe", "setcount"}
             PROVE  idx'[q] = cnt'[q][cur'[q]]
  BY DEF HoleAtEnd
<1>i. Types /\ HoleAtEnd /\ q \notin Chef
  BY ProcessAssumption DEF RInv, IInv
<1>t. TypeOK /\ PhaseOK
  BY <1>i DEF Types
<1>0. CASE UNCHANGED vars
  BY <1>i, <1>0 DEF vars, local, HoleAtEnd
<1>1. ASSUME NEW p \in Proc, Killed(p) PROVE idx'[q] = cnt'[q][cur'[q]]
  BY <1>i, <1>1 DEF Killed, local, HoleAtEnd
<1>2. ASSUME NEW p \in Proc, Step(p) PROVE idx'[q] = cnt'[q][cur'[q]]
  <2>1. CASE Shift(p)
    <3>1. CASE p = q
      <4>1. idx[q] \in Nat /\ cnt[q][cur[q]] \in Nat /\ idx[q] < cnt[q][cur[q]]
        BY <1>i, <2>1, <3>1, CapacityAssumption DEF Types, TypeOK, RangeOK, Slot, Shift
      <4>2. idx'[q] = idx[q] + 1 /\ cnt' = cnt /\ cur' = cur
        BY <1>t, <2>1, <3>1 DEF TypeOK, Shift
      <4>3. ~(idx[q] + 1 < cnt[q][cur[q]])
        BY <1>t, <2>1, <3>1 DEF TypeOK, Shift, Goto
      <4> QED
        BY <4>1, <4>2, <4>3
    <3>2. CASE p # q
      BY <1>t, <1>i, <2>1, <3>2 DEF TypeOK, Shift, Goto, HoleAtEnd
    <3> QED
      BY <3>1, <3>2
  <2>2. CASE Wipe(p) \/ SetCount(p) \/ Store(p)
    BY <1>t, <1>i, <2>2 DEF TypeOK, PhaseOK, Wipe, SetCount, Store, Goto, HoleAtEnd
  <2>3. CASE \/ Enter(p) \/ EnterSecond(p) \/ ChefCount(p) \/ CustomerCount(p)
             \/ HybridCount(p) \/ Pick(p) \/ Post(p) \/ HybridPostVegan(p)
             \/ HybridPostNonVegan(p)
    <3>1. p # q /\ pc'[q] = pc[q]
      BY <1>t, <2>3 DEF TypeOK, Enter, EnterSecond, ChefCount, CustomerCount, HybridCount,
         Pick, Post, HybridPostVegan, HybridPostNonVegan, Goto
    <3>2. idx'[q] = idx[q] /\ cnt'[q] = cnt[q] /\ cur'[q] = cur[q]
      BY <1>t, <2>3, <3>1 DEF TypeOK, Enter, EnterSecond, ChefCount, CustomerCount,
         HybridCount, Pick, Post, HybridPostVegan, HybridPostNonVegan, Forget, shared
    <3> QED
      BY <1>i, <3>1, <3>2 DEF HoleAtEnd
  <2> QED
    BY <1>2, <2>1, <2>2, <2>3 DEF Step, SemWait, Work
<1> QED
  BY <1>0, <1>1, <1>2 DEF Next

\* RInv holds in every state.
LEMMA RInvariance == Spec => []RInv
<1>1. Init => HoleAtEnd
  BY DEF Init, HoleAtEnd
<1>2. RInv /\ [Next]_vars => HoleAtEnd'
  BY HoleNext
<1> QED
  BY <1>1, <1>2, Invariance, PTL DEF RInv, Spec

----------------------------------------------------------------------------
\* Nobody is removing a dish of a tray that p is inside of, except p.
LEMMA RemoverIsInside ==
  ASSUME Types, Mutex, NEW p \in Proc, pc[p] \in Inside
  PROVE  \A q \in Proc : Removing(q, cur[p]) => q = p
  BY DEF Types, TypeOK, Mutex, Holding, Removing, Inside

\* One process at most is removing a dish of a tray, so TrayView has no choice.
LEMMA ViewIs == IInv => ViewOK
<1> SUFFICES ASSUME IInv, NEW t \in Tray
             PROVE  /\ \A p \in Proc : Removing(p, t) => TrayView(t) = Holed(t, idx[p])
                    /\ (\A p \in Proc : ~Removing(p, t)) => TrayView(t) = Whole(t)
  BY DEF ViewOK
<1>1. ASSUME NEW p \in Proc, Removing(p, t) PROVE TrayView(t) = Holed(t, idx[p])
  <2>1. \A q \in Proc : Removing(q, t) => q = p
    BY <1>1, RemoverIsInside DEF IInv, Removing, Inside
  <2>2. (CHOOSE q \in Proc : Removing(q, t)) = p
    BY <1>1, <2>1
  <2> QED
    BY <1>1, <2>2 DEF TrayView, Holed
<1>2. ASSUME \A p \in Proc : ~Removing(p, t) PROVE TrayView(t) = Whole(t)
  BY <1>2 DEF TrayView, Whole
<1> QED
  BY <1>1, <1>2

\* A step that leaves tray t and those who remove its dishes alone keeps its view.
LEMMA ViewKept ==
  ASSUME ViewOK, ViewOK', NEW t \in Tray, items'[t] = items[t], count'[t] = count[t],
         \A q \in Proc : Removing(q, t)' <=> Removing(q, t),
         \A q \in Proc : Removing(q, t) => idx'[q] = idx[q]
  PROVE  TrayView(t)' = TrayView(t)
<1>1. ASSUME NEW p \in Proc, Removing(p, t) PROVE TrayView(t)' = TrayView(t)
  <2>1. TrayView(t) = Holed(t, idx[p]) /\ TrayView(t)' = Holed(t, idx[p])'
    BY <1>1 DEF ViewOK
  <2>2. Holed(t, idx[p])' = Holed(t, idx[p])
    BY <1>1 DEF Holed
  <2> QED
    BY <2>1, <2>2
<1>2. ASSUME \A p \in Proc : ~Removing(p, t) PROVE TrayView(t)' = TrayView(t)
  <2>1. TrayView(t) = Whole(t) /\ TrayView(t)' = Whole(t)'
    BY <1>2 DEF ViewOK
  <2>2. Whole(t)' = Whole(t)
    BY DEF Whole
  <2> QED
    BY <2>1, <2>2
<1> QED
  BY <1>1, <1>2

\* A chef's write into the first free slot does not show before the count does.
LEMMA StoreHidden ==
  ASSUME RInv, ViewOK, ViewOK', NEW p \in Proc, Store(p), NEW t \in Tray, t = cur[p]
  PROVE  TrayView(t)' = TrayView(t)
<1> DEFINE n == count[t]
<1>i. Types /\ Mutex /\ CountNotStale
  BY DEF RInv, IInv
<1>1. n \in 0 .. MAX_ITEM /\ n < MAX_ITEM /\ cnt[p][t] = n /\ p \in Chef /\ pc[p] = "store"
  BY <1>i DEF Types, TypeOK, PhaseOK, RangeOK, CountNotStale, Store
<1>2. \A q \in Proc : ~Removing(q, t)
  BY <1>i, <1>1, RemoverIsInside DEF Removing, Inside
<1>3. \A q \in Proc : ~Removing(q, t)'
  BY <1>i, <1>1, <1>2, ProcessAssumption DEF Types, TypeOK, Removing, Store, Goto
<1>4. count' = count /\ \A i \in Slot : i # n => items'[t][i] = items[t][i]
  BY <1>i, <1>1 DEF Types, TypeOK, Store, Slot
<1>5. \A j \in 1 .. n : j - 1 \in Slot /\ j - 1 # n
  BY <1>1, CapacityAssumption DEF Slot
<1>6. Whole(t)' = Whole(t)
  BY <1>4, <1>5 DEF Whole
<1> QED
  BY <1>2, <1>3, <1>6 DEF ViewOK

\* One move of the loop moves the hole up by one slot.
LEMMA ShiftHidden ==
  ASSUME RInv, ViewOK, ViewOK', NEW p \in Proc, Shift(p), NEW t \in Tray, t = cur[p]
  PROVE  TrayView(t)' = TrayView(t)
<1> DEFINE n == count[t]
           k == idx[p]
<1>i. Types /\ Mutex /\ CountNotStale
  BY DEF RInv, IInv
<1>1. /\ n \in 0 .. MAX_ITEM /\ cnt[p][t] = n /\ p \in Eater /\ pc[p] = "shift"
      /\ k \in Nat /\ k < n
  BY <1>i DEF Types, TypeOK, PhaseOK, RangeOK, CountNotStale, Shift, Slot
<1>2. Removing(p, t) /\ Removing(p, t)'
  BY <1>i, <1>1 DEF Types, TypeOK, Removing, Shift, Goto
<1>3. /\ count' = count /\ idx'[p] = k + 1
      /\ \A i \in Slot : items'[t][i] = IF i = k THEN items[t][k + 1] ELSE items[t][i]
  BY <1>i, <1>1, CapacityAssumption DEF Types, TypeOK, Slot, Shift
<1>4. ASSUME NEW j \in 1 .. n - 1
      PROVE  items'[t][IF j - 1 < k + 1 THEN j - 1 ELSE j] =
               items[t][IF j - 1 < k THEN j - 1 ELSE j]
  <2>1. j \in Slot /\ j - 1 \in Slot /\ j \in Nat
    BY <1>1, CapacityAssumption DEF Slot
  <2>2. CASE j - 1 < k
    BY <1>1, <1>3, <2>1, <2>2
  <2>3. CASE j - 1 = k
    BY <1>1, <1>3, <2>1, <2>3
  <2>4. CASE j - 1 > k
    BY <1>1, <1>3, <2>1, <2>4
  <2> QED
    BY <1>1, <2>1, <2>2, <2>3, <2>4
<1>5. Holed(t, idx[p])' = Holed(t, idx[p])
  BY <1>3, <1>4 DEF Holed
<1> QED
  BY <1>2, <1>5 DEF ViewOK

\* The memset clears the slot behind the last dish.
LEMMA WipeHidden ==
  ASSUME RInv, ViewOK, ViewOK', NEW p \in Proc, Wipe(p), NEW t \in Tray, t = cur[p]
  PROVE  TrayView(t)' = TrayView(t)
<1> DEFINE n == count[t]
<1>i. Types /\ Mutex /\ CountNotStale
  BY DEF RInv, IInv
<1>1. n \in 0 .. MAX_ITEM /\ cnt[p][t] = n /\ p \in Eater /\ pc[p] = "wipe"
  BY <1>i DEF Types, TypeOK, PhaseOK, CountNotStale, Wipe
<1>2. Removing(p, t) /\ Removing(p, t)'
  BY <1>i, <1>1 DEF Types, TypeOK, Removing, Wipe, Goto
<1>3. count' = count /\ idx' = idx /\ \A i \in Slot : i # n => items'[t][i] = items[t][i]
  BY <1>i, <1>1 DEF Types, TypeOK, Slot, Wipe
<1>4. \A j \in 1 .. n - 1 : j \in Slot /\ j - 1 \in Slot /\ j # n /\ j - 1 # n
  BY <1>1, CapacityAssumption DEF Slot
<1>5. Holed(t, idx[p])' = Holed(t, idx[p])
  BY <1>3, <1>4 DEF Holed
<1> QED
  BY <1>2, <1>5 DEF ViewOK

\* An eater's count update drops the last slot, which is where the hole has come to.
LEMMA LessHidden ==
  ASSUME RInv, ViewOK, ViewOK', NEW p \in Proc, SetCount(p), p \notin Chef,
         NEW t \in Tray, t = cur[p]
  PROVE  TrayView(t)' = TrayView(t)
<1> DEFINE n == count[t]
<1>i. Types /\ Mutex /\ CountNotStale /\ HoleAtEnd
  BY DEF RInv, IInv
<1>0. p \in Eater /\ pc[p] = "setcount"
  BY DEF Proc, SetCount
<1>1. n \in 0 .. MAX_ITEM /\ cnt[p][t] = n /\ idx[p] = n
  BY <1>i, <1>0 DEF Types, TypeOK, CountNotStale, HoleAtEnd
<1>2. Removing(p, t)
  BY <1>0 DEF Removing
<1>3. \A q \in Proc : ~Removing(q, t)'
  BY <1>i, <1>0, RemoverIsInside DEF Types, TypeOK, Removing, SetCount, Goto, Inside
<1>4. count'[t] = n - 1 /\ items' = items
  BY <1>i, <1>1 DEF Types, TypeOK, SetCount
<1>5. \A j \in 1 .. n - 1 : j - 1 < n
  BY <1>1
<1>6. Whole(t)' = Holed(t, idx[p])
  BY <1>1, <1>4, <1>5 DEF Whole, Holed
<1> QED
  BY <1>2, <1>3, <1>6 DEF ViewOK

----------------------------------------------------------------------------
\* The array up to the count is a sequence.
LEMMA WholeIsSeq ==
  ASSUME TypeOK, NEW t \in Tray
  PROVE  Whole(t) \in Seq(Dish \cup {NoFood}) /\ Len(Whole(t)) = count[t]
<1>1. count[t] \in Nat /\ \A j \in 1 .. count[t] : items[t][j - 1] \in Dish \cup {NoFood}
  BY CapacityAssumption DEF TypeOK, Slot
<1> QED
  BY <1>1 DEF Whole

\* A chef's count update appends the dish it wrote, which is one of the tray's menu.
LEMMA MoreIsPut ==
  ASSUME RInv, ViewOK, ViewOK', NEW p \in Proc, SetCount(p), p \in Chef,
         NEW t \in Tray, t = cur[p]
  PROVE  /\ Len(TrayView(t)) < MAX_ITEM
         /\ \E d \in Menu[t] : TrayView(t)' = Append(TrayView(t), d)
<1> DEFINE n == count[t]
           d == items[t][n]
<1>i. Types /\ Mutex /\ CountNotStale /\ TrayShape /\ TypeOK
  BY DEF RInv, IInv, Types
<1>0. p \notin Eater /\ pc[p] = "setcount"
  BY ProcessAssumption DEF SetCount
<1>1. n \in 0 .. MAX_ITEM /\ cnt[p][t] = n /\ n < MAX_ITEM
  BY <1>i, <1>0 DEF Types, TypeOK, RangeOK, CountNotStale
<1>2. \A q \in Proc : ~Removing(q, t) /\ ~Removing(q, t)'
  <2>1. \A q \in Proc : ~Removing(q, t)
    BY <1>i, <1>0, RemoverIsInside DEF Removing, Inside
  <2> QED
    BY <1>i, <1>0, <2>1 DEF Types, TypeOK, Removing, SetCount, Goto
<1>3. count'[t] = n + 1 /\ items' = items
  BY <1>i, <1>1 DEF Types, TypeOK, SetCount
<1>4. d \in Menu[t]
  <2>1. Closing(p, t) /\ n \in Slot /\ n < n + 1
    BY <1>0, <1>1, CapacityAssumption DEF Closing, Slot
  <2> QED
    BY <1>i, <2>1 DEF TrayShape, Shaped
<1>5. TrayView(t) = Whole(t) /\ TrayView(t)' = Whole(t)'
  BY <1>2 DEF ViewOK
<1>6. Whole(t) \in Seq(Dish \cup {NoFood}) /\ Len(Whole(t)) = n
  BY <1>i, WholeIsSeq
<1>7. Whole(t)' = Append(Whole(t), d)
  <2>1. Whole(t)' = [j \in 1 .. n + 1 |-> items[t][j - 1]]
    BY <1>3 DEF Whole
  <2>2. Whole(t) = [j \in 1 .. n |-> items[t][j - 1]]
    BY DEF Whole
  <2>3. Append(Whole(t), d) = [j \in 1 .. n + 1 |-> IF j <= n THEN Whole(t)[j] ELSE d]
    BY <1>1, <1>6
  <2>4. \A j \in 1 .. n + 1 : items[t][j - 1] = IF j <= n THEN Whole(t)[j] ELSE d
    BY <1>1, <2>2
  <2> QED
    BY <2>1, <2>3, <2>4
<1> QED
  BY <1>1, <1>4, <1>5, <1>6, <1>7

\* What RemoveAt(s, k) of SequencesExt leaves: the others, in their order.
LEMMA RemoveAtIs ==
  ASSUME NEW S, NEW s \in Seq(S), NEW k \in 1 .. Len(s)
  PROVE  Trays!RemoveAt(s, k) =
           [n \in 1 .. Len(s) - 1 |-> IF n < k THEN s[n] ELSE s[n + 1]]
<1> DEFINE a == SubSeq(s, 1, k - 1)
           b == SubSeq(s, k + 1, Len(s))
<1>1. a \in Seq(S) /\ Len(a) = k - 1 /\ \A n \in 1 .. k - 1 : a[n] = s[n]
  OBVIOUS
<1>2. b \in Seq(S) /\ Len(b) = Len(s) - k /\ \A n \in 1 .. Len(s) - k : b[n] = s[k + n]
  OBVIOUS
<1>3. Trays!RemoveAt(s, k) = a \o b
  BY DEF Trays!RemoveAt
<1> HIDE DEF a, b
<1>4. /\ a \o b \in Seq(S) /\ Len(a \o b) = Len(a) + Len(b)
      /\ \A n \in 1 .. Len(a) + Len(b) :
           (a \o b)[n] = IF n <= Len(a) THEN a[n] ELSE b[n - Len(a)]
  BY <1>1, <1>2, ConcatProperties
<1>5. /\ Len(a) + Len(b) = Len(s) - 1
      /\ a \o b = [n \in 1 .. Len(a) + Len(b) |-> (a \o b)[n]]
  <2>1. a \o b \in [1 .. Len(a \o b) -> S]
    BY <1>4, LenProperties
  <2>2. a \o b = [n \in 1 .. Len(a \o b) |-> (a \o b)[n]]
    BY <2>1
  <2>3. Len(a) + Len(b) = Len(s) - 1
    BY <1>1, <1>2
  <2> QED
    BY <1>4, <2>2, <2>3
<1>6. ASSUME NEW n \in 1 .. Len(s) - 1
      PROVE  (a \o b)[n] = IF n < k THEN s[n] ELSE s[n + 1]
  <2>0. (a \o b)[n] = IF n <= Len(a) THEN a[n] ELSE b[n - Len(a)]
    BY <1>4, <1>5
  <2>1. CASE n < k
    BY <1>1, <2>0, <2>1
  <2>2. CASE ~(n < k)
    <3>1. n - Len(a) \in 1 .. Len(s) - k /\ k + (n - Len(a)) = n + 1 /\ ~(n <= Len(a))
      BY <1>1, <2>2
    <3> QED
      BY <1>2, <2>0, <2>2, <3>1
  <2> QED
    BY <2>1, <2>2
<1> QED
  BY <1>3, <1>5, <1>6

\* An eater's copy takes the dish at food_idx off the abstract tray.
LEMMA PickIsTake ==
  ASSUME RInv, ViewOK, ViewOK', NEW p \in Proc, Pick(p), NEW t \in Tray, t = cur[p]
  PROVE  /\ p \in Eater
         /\ \E i \in 1 .. Len(TrayView(t)) :
              /\ TrayView(t)' = Trays!RemoveAt(TrayView(t), i)
              /\ item' = [item EXCEPT ![p][t] = TrayView(t)[i]]
<1> DEFINE n == count[t]
<1>i. Types /\ Mutex /\ CountNotStale /\ TypeOK
  BY DEF RInv, IInv, Types
<1>0. p \in Eater /\ pc[p] = "pick"
  BY <1>i DEF Types, PhaseOK, Pick
<1>1. n \in 0 .. MAX_ITEM /\ cnt[p][t] = n
  BY <1>i, <1>0 DEF Types, TypeOK, CountNotStale
<1>2. PICK i \in 0 .. n - 1 : /\ idx' = [idx EXCEPT ![p] = i]
                              /\ item' = [item EXCEPT ![p][t] = items[t][i]]
  BY <1>1 DEF Pick
<1>3. \A q \in Proc : ~Removing(q, t)
  BY <1>i, <1>0, RemoverIsInside DEF Removing, Inside
<1>4. Removing(p, t)' /\ idx'[p] = i
  BY <1>i, <1>0, <1>2 DEF Types, TypeOK, Removing, Pick, Goto
<1>5. count' = count /\ items' = items
  BY DEF Pick, shared
<1>6. TrayView(t) = Whole(t) /\ TrayView(t)' = Holed(t, i)
  <2>1. TrayView(t)' = Holed(t, idx[p])'
    BY <1>4 DEF ViewOK
  <2>2. Holed(t, idx[p])' = Holed(t, i)
    BY <1>4, <1>5 DEF Holed
  <2> QED
    BY <1>3, <2>1, <2>2 DEF ViewOK
<1>7. Whole(t) \in Seq(Dish \cup {NoFood}) /\ Len(Whole(t)) = n
  BY <1>i, WholeIsSeq
<1>8. i + 1 \in 1 .. n /\ i \in Nat /\ n \in Nat
  BY <1>1, <1>2
<1>9. \A j \in 1 .. n : Whole(t)[j] = items[t][j - 1]
  BY DEF Whole
<1>10. Whole(t)[i + 1] = items[t][i]
  BY <1>8, <1>9
<1>11. Holed(t, i) = Trays!RemoveAt(Whole(t), i + 1)
  <2> DEFINE w == Whole(t)
  <2>1. /\ Len(w) - 1 = n - 1
        /\ Trays!RemoveAt(w, i + 1) =
             [j \in 1 .. Len(w) - 1 |-> IF j < i + 1 THEN w[j] ELSE w[j + 1]]
    BY <1>7, <1>8, RemoveAtIs
  <2>2. ASSUME NEW j \in 1 .. n - 1
        PROVE  (IF j < i + 1 THEN w[j] ELSE w[j + 1]) =
                 items[t][IF j - 1 < i THEN j - 1 ELSE j]
    <3>1. j \in 1 .. n /\ j + 1 \in 1 .. n /\ (j + 1) - 1 = j /\ (j < i + 1 <=> j - 1 < i)
      BY <1>8
    <3> QED
      BY <1>9, <3>1
  <2> QED
    BY <2>1, <2>2 DEF Holed
<1> QED
  BY <1>0, <1>2, <1>6, <1>7, <1>8, <1>10, <1>11

----------------------------------------------------------------------------
\* Every step changes the abstract trays and plates as a step of BoundedTray, or not at all.
LEMMA StepMaps == RInv /\ RInv' /\ [Next]_vars => [Trays!Next]_(Trays!vars)
<1>v. RInv' => ViewOK'
  <2>1. RInv => ViewOK
    BY ViewIs DEF RInv
  <2> QED
    BY <2>1, PTL
<1> SUFFICES ASSUME RInv, ViewOK, ViewOK', [Next]_vars PROVE [Trays!Next]_(Trays!vars)
  BY <1>v, ViewIs DEF RInv
<1> DEFINE tr == [t \in Tray |-> TrayView(t)]
           pl == [q \in Eater |-> item[q]]
<1>i. Types /\ TypeOK /\ PhaseOK
  BY DEF RInv, IInv, Types
<1>n. ASSUME \A t \in Tray : TrayView(t)' = TrayView(t), item' = item
      PROVE  [Trays!Next]_(Trays!vars)
  <2>1. tr' = tr /\ pl' = pl
    BY <1>n
  <2> QED
    BY <2>1 DEF Trays!vars
<1>0. CASE UNCHANGED vars
  <2>1. \A t \in Tray : TrayView(t)' = TrayView(t)
    BY <1>0, ViewKept DEF vars, shared, local, Removing
  <2>2. item' = item
    BY <1>0 DEF vars, local
  <2> QED
    BY <1>n, <2>1, <2>2
<1>1. ASSUME NEW p \in Proc, Killed(p) PROVE [Trays!Next]_(Trays!vars)
  <2>1. \A t \in Tray : TrayView(t)' = TrayView(t)
    BY <1>1, ViewKept DEF Killed, shared, local, Removing
  <2>2. item' = item
    BY <1>1 DEF Killed, local
  <2> QED
    BY <1>n, <2>1, <2>2
<1>2. ASSUME NEW p \in Proc, Step(p) PROVE [Trays!Next]_(Trays!vars)
  <2>p. PICK c \in Tray : c = cur[p]
    BY <1>i DEF TypeOK
  <2>1. CASE \/ Enter(p) \/ EnterSecond(p) \/ ChefCount(p) \/ CustomerCount(p)
             \/ HybridCount(p) \/ Post(p) \/ HybridPostVegan(p) \/ HybridPostNonVegan(p)
    <3>1. items' = items /\ count' = count /\ item' = item
      BY <2>1 DEF Enter, EnterSecond, ChefCount, CustomerCount, HybridCount, Post,
         HybridPostVegan, HybridPostNonVegan, shared
    <3>2. \A t \in Tray, q \in Proc : Removing(q, t)' <=> Removing(q, t)
      BY <1>i, <2>1 DEF TypeOK, Removing, Enter, EnterSecond, ChefCount, CustomerCount,
         HybridCount, Post, HybridPostVegan, HybridPostNonVegan, Goto
    <3>3. \A t \in Tray, q \in Proc : Removing(q, t) => idx'[q] = idx[q]
      BY <1>i, <2>1 DEF TypeOK, Removing, Enter, EnterSecond, ChefCount, CustomerCount,
         HybridCount, Post, HybridPostVegan, HybridPostNonVegan, Forget
    <3>4. \A t \in Tray : TrayView(t)' = TrayView(t)
      BY <3>1, <3>2, <3>3, ViewKept
    <3> QED
      BY <1>n, <3>1, <3>4
  <2>2. ASSUME Store(p) \/ Shift(p) \/ Wipe(p) \/ SetCount(p) \/ Pick(p),
               NEW t \in Tray, t # c
        PROVE  TrayView(t)' = TrayView(t)
    <3>1. items'[t] = items[t] /\ count'[t] = count[t]
      BY <1>i, <2>p, <2>2 DEF TypeOK, Store, Shift, Wipe, SetCount, Pick, shared
    <3>2. \A q \in Proc : Removing(q, t)' <=> Removing(q, t)
      BY <1>i, <2>p, <2>2 DEF TypeOK, Removing, Store, Shift, Wipe, SetCount, Pick, Goto
    <3>3. \A q \in Proc : Removing(q, t) => idx'[q] = idx[q]
      BY <1>i, <2>p, <2>2 DEF TypeOK, Removing, Store, Shift, Wipe, SetCount, Pick
    <3> QED
      BY <3>1, <3>2, <3>3, ViewKept
  <2>3. CASE Store(p) \/ Shift(p) \/ Wipe(p) \/ (SetCount(p) /\ p \notin Chef)
    <3>1. TrayView(c)' = TrayView(c)
      BY <2>p, <2>3, StoreHidden, ShiftHidden, WipeHidden, LessHidden
    <3>2. item' = item
      BY <2>3 DEF Store, Shift, Wipe, SetCount
    <3> QED
      BY <1>n, <2>2, <2>3, <3>1, <3>2
  <2>4. CASE SetCount(p) /\ p \in Chef
    <3>1. /\ Len(TrayView(c)) < MAX_ITEM
          /\ \E d \in Menu[c] : TrayView(c)' = Append(TrayView(c), d)
      BY <2>p, <2>4, MoreIsPut
    <3>2. PICK d \in Menu[c] : TrayView(c)' = Append(TrayView(c), d)
      BY <3>1
    <3>3. item' = item /\ cur' = cur
      BY <2>4 DEF SetCount
    <3>4. tr' = [tr EXCEPT ![c] = Append(@, d)]
      BY <2>p, <2>2, <2>4, <3>2, <3>3
    <3>5. Trays!Put(c, d)
      BY <2>p, <3>1, <3>3, <3>4 DEF Trays!Put
    <3> QED
      BY <2>p, <3>2, <3>5 DEF Trays!Next
  <2>5. CASE Pick(p)
    <3>1. /\ p \in Eater
          /\ \E i \in 1 .. Len(TrayView(c)) :
               /\ TrayView(c)' = Trays!RemoveAt(TrayView(c), i)
               /\ item' = [item EXCEPT ![p][c] = TrayView(c)[i]]
      BY <2>p, <2>5, PickIsTake
    <3>2. PICK i \in 1 .. Len(TrayView(c)) :
               /\ TrayView(c)' = Trays!RemoveAt(TrayView(c), i)
               /\ item' = [item EXCEPT ![p][c] = TrayView(c)[i]]
      BY <3>1
    <3>3. tr' = [tr EXCEPT ![c] = Trays!RemoveAt(@, i)]
      BY <2>p, <2>2, <2>5, <3>2
    <3>4. pl' = [pl EXCEPT ![p][c] = tr[c][i]]
      BY <1>i, <2>p, <3>1, <3>2 DEF TypeOK, Proc
    <3>5. Trays!Take(p, c, i)
      BY <3>3, <3>4 DEF Trays!Take
    <3>6. i \in 1 .. Len(tr[c])
      BY <2>p, <3>2
    <3> QED
      BY <2>p, <3>1, <3>5, <3>6 DEF Trays!Next
  <2> QED
    BY <1>2, <2>1, <2>3, <2>4, <2>5 DEF Step, SemWait, Work
<1> QED
  BY <1>0, <1>1, <1>2 DEF Next

\* The trays the children find are bounded sequences of dishes of their menus.
LEMMA InitMaps == Init => Trays!Init
<1> SUFFICES ASSUME Init PROVE Trays!Init
  OBVIOUS
<1>1. \A t \in Tray : TrayView(t) = Whole(t)
  BY DEF Init, TrayView, Whole, Removing
<1>2. ASSUME NEW t \in Tray
      PROVE  /\ Whole(t) \in Trays!BoundedSeq(Dish, MAX_ITEM)
             /\ Trays!Range(Whole(t)) \subseteq Menu[t]
  <2>1. count[t] \in 0 .. MAX_ITEM /\ \A j \in 1 .. count[t] : items[t][j - 1] \in Menu[t]
    <3>1. count[t] \in 0 .. MAX_ITEM
      BY DEF Init
    <3>2. \A j \in 1 .. count[t] : j - 1 \in Slot /\ j - 1 < count[t]
      BY <3>1, CapacityAssumption DEF Slot
    <3> QED
      BY <3>1, <3>2 DEF Init
  <2>2. Whole(t) \in [1 .. count[t] -> Dish] /\ Whole(t) \in [1 .. count[t] -> Menu[t]]
    BY <2>1, MenuFacts DEF Whole
  <2>3. Whole(t) \in Trays!BoundedSeq(Dish, MAX_ITEM)
    BY <2>1, <2>2 DEF Trays!BoundedSeq, Trays!SeqOf
  <2> QED
    BY <2>2, <2>3 DEF Trays!Range
<1>3. [q \in Eater |-> item[q]] = [q \in Eater |-> [t \in Tray |-> NoFood]]
  BY DEF Init, Proc
<1> QED
  BY <1>1, <1>2, <1>3 DEF Trays!Init, Dish

(***************************************************************************)
(* The arrays and counts in shared memory, with the handlers' loops over   *)
(* them, implement bounded sequences of dishes: a cooked dish is appended  *)
(* once, an eaten one is removed once and by one eater, and no other dish  *)
(* is lost, doubled or moved, for every capacity and any processes.        *)
(***************************************************************************)
THEOREM TraysImplemented == Spec => ImplementsTrays
<1>1. Init => Trays!Init
  BY InitMaps
<1>2. RInv /\ RInv' /\ [Next]_vars => [Trays!Next]_(Trays!vars)
  BY StepMaps
<1> QED
  BY <1>1, <1>2, RInvariance, PTL DEF Spec, ImplementsTrays, Trays!Spec
==============================================================================
