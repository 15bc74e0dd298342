----------------------------- MODULE MCFoodTrays -----------------------------
(***************************************************************************)
(* The instance of FoodTrays that main.c's handlers[] table forks.         *)
(***************************************************************************)
EXTENDS FoodTrays

MCChef == {"donatello", "portecelli"}
MCCustomer == {"nonVeganCustomer", "veganCustomer"}
MCHybrid == {"hybridCustomer"}

MCServes ==
  [p \in MCChef \cup MCCustomer |->
     IF p \in {"portecelli", "veganCustomer"} THEN VEGAN ELSE NON_VEGAN]

\* Two dishes on one tray show which dish moves where; the other tray counts.
MCMenu == [t \in Tray |-> IF t = VEGAN THEN {"pasta", "salad"} ELSE {"steak"}]
OneDishMenu == [t \in Tray |-> IF t = VEGAN THEN {"pasta"} ELSE {"steak"}]
==============================================================================
