----------------------------- MODULE MCTrayNames -----------------------------
(***************************************************************************)
(* TrayNames with the hybrid customer, the child that uses both trays.     *)
(***************************************************************************)
EXTENDS TrayNames

OneChild == <<"hybridCustomer">>
OneUses == [c \in {"hybridCustomer"} |-> {0, 1}]
==============================================================================
