----------------------------- MODULE MCIpcTasks -----------------------------
(***************************************************************************)
(* Constants for TLC.                                                      *)
(***************************************************************************)
EXTENDS IpcTasks

\* One argument that fits into a buffer of two characters, and one that is cut.
MCLength == <<1, 3>>

\* A client whose input has ended, and clients with two pieces.
MCInput == LET empty == CHOOSE c \in Copier : TRUE
           IN [c \in Copier |-> IF c = empty THEN 0 ELSE 2]
==============================================================================
