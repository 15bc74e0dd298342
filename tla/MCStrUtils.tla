------------------------------ MODULE MCStrUtils ------------------------------
(***************************************************************************)
(* StrUtils with four digits and 6-bit words: 31 is the largest number,    *)
(* -32 the smallest, 32 and -33 are beyond, and three digits wrap around.  *)
(***************************************************************************)
EXTENDS StrUtils

FourDigits ==
  [c \in {"0", "1", "2", "3"} |-> CASE c = "0" -> 0 [] c = "1" -> 1 [] c = "2" -> 2 [] OTHER -> 3]
==============================================================================
