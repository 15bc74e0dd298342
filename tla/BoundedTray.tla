----------------------------- MODULE BoundedTray -----------------------------
(***************************************************************************)
(* What the shared trays of 10-Semaphore/main.c promise to the processes   *)
(* that use them: each tray is a bounded sequence of dishes, cooking       *)
(* appends one dish when there is room, and eating moves one dish of the   *)
(* tray, at any position, onto the eater's plate.  Nothing is ever lost,   *)
(* duplicated or reordered otherwise.  FoodTrays is shown to implement     *)
(* this specification.                                                     *)
(***************************************************************************)
EXTENDS Naturals, SequencesExt

CONSTANTS Tray,      \* the two trays
          Menu,      \* Menu[t]: the dishes cooked for tray t
          Eater,     \* the processes that take dishes
          MAX_ITEM,  \* the capacity of a tray
          NoFood     \* an empty plate

VARIABLES tray,      \* tray[t]: the dishes on tray t, oldest first
          plate      \* plate[p][t]: what p last took from t

vars == <<tray, plate>>

\* A tray is created empty, or is found with the dishes an earlier run left.
Init ==
  /\ tray \in [Tray -> BoundedSeq(UNION {Menu[t] : t \in Tray}, MAX_ITEM)]
  /\ \A t \in Tray : Range(tray[t]) \subseteq Menu[t]
  /\ plate = [p \in Eater |-> [t \in Tray |-> NoFood]]

\* A chef puts one dish of the tray's menu behind the others.
Put(t, d) ==
  /\ Len(tray[t]) < MAX_ITEM
  /\ tray' = [tray EXCEPT ![t] = Append(@, d)]
  /\ UNCHANGED plate

\* An eater takes the dish at position i, the others close ranks.
Take(p, t, i) ==
  /\ plate' = [plate EXCEPT ![p][t] = tray[t][i]]
  /\ tray' = [tray EXCEPT ![t] = RemoveAt(@, i)]

Next ==
  \E t \in Tray :
    \/ \E d \in Menu[t] : Put(t, d)
    \/ \E p \in Eater, i \in 1 .. Len(tray[t]) : Take(p, t, i)

Spec == Init /\ [][Next]_vars
==============================================================================
