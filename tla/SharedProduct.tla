---------------------------- MODULE SharedProduct ----------------------------
(***************************************************************************)
(* 9-ShareMemory: producers write a product into a named shared memory     *)
(* object, consumers copy it out.  Nothing orders the two, the object is   *)
(* never unlinked, and memcpy moves the fields one by one.  Every producer *)
(* writes the same product, so a field is either zero or written.          *)
(***************************************************************************)
EXTENDS Naturals

CONSTANTS
  Producer, Consumer,
  MaxDead   \* bound: processes that fail or are killed

Field == {"id", "price", "name"}

VARIABLES
  object,   \* the fields written so far
  size,     \* of the object: "absent", "empty" or "product"
  making,   \* making[p]: "open", "truncate", "map", "copy", "done" or "dead"
  put,      \* put[p]: the fields p has copied in
  using,    \* using[c]: "open", "stat", "map", "copy", "done" or "dead"
  sb,       \* sb[c]: the size c's fstat saw
  product,  \* product[c]: the fields c has copied out and found written
  got,      \* got[c]: the fields c has copied out
  ready,    \* ready[c]: a producer had finished when c began to copy
  dead

shm == <<object, size>>
made == <<making, put>>
used == <<using, sb, product, got, ready>>
vars == <<shm, made, used, dead>>

Init ==
  /\ object = {} /\ size = "absent" /\ dead = 0
  /\ making = [p \in Producer |-> "open"]
  /\ put = [p \in Producer |-> {}]
  /\ using = [c \in Consumer |-> "open"]
  /\ sb = [c \in Consumer |-> "absent"]
  /\ product = [c \in Consumer |-> {}]
  /\ got = [c \in Consumer |-> {}]
  /\ ready = [c \in Consumer |-> FALSE]

----------------------------------------------------------------------------
\* Mutant of ShmOpen: O_TRUNC cuts an object that exists.
ShmOpenTruncates(p) ==
  /\ making[p] = "open" /\ making' = [making EXCEPT ![p] = "truncate"]
  /\ size' = "empty" /\ object' = {}
  /\ UNCHANGED <<put, used, dead>>

\* shm_open(O_CREAT): an object that exists is opened as it is.
ShmOpen(p) ==
  /\ making[p] = "open" /\ making' = [making EXCEPT ![p] = "truncate"]
  /\ size' = IF size = "absent" THEN "empty" ELSE size
  /\ UNCHANGED <<object, put, used, dead>>

\* ftruncate grows the object with zeroes, or leaves it.
Ftruncate(p) ==
  /\ making[p] = "truncate" /\ making' = [making EXCEPT ![p] = "map"]
  /\ size' = "product"
  /\ UNCHANGED <<object, put, used, dead>>

\* mmap and close.
Map(p) ==
  /\ making[p] = "map" /\ making' = [making EXCEPT ![p] = "copy"]
  /\ UNCHANGED <<shm, put, used, dead>>

\* memcpy: one field, or the return after the last.
CopyIn(p) ==
  /\ making[p] = "copy"
  /\ \/ \E f \in Field \ put[p] :
          /\ put' = [put EXCEPT ![p] = @ \cup {f}]
          /\ object' = object \cup {f}
          /\ UNCHANGED making
     \/ /\ put[p] = Field
        /\ making' = [making EXCEPT ![p] = "done"]
        /\ UNCHANGED <<put, object>>
  /\ UNCHANGED <<size, used, dead>>

----------------------------------------------------------------------------
\* shm_open without O_CREAT fails if there is no object.
OpenExisting(c) ==
  /\ using[c] = "open"
  /\ using' = [using EXCEPT ![c] = IF size = "absent" THEN "dead" ELSE "stat"]
  /\ UNCHANGED <<shm, made, sb, product, got, ready, dead>>

Fstat(c) ==
  /\ using[c] = "stat" /\ using' = [using EXCEPT ![c] = "map"]
  /\ sb' = [sb EXCEPT ![c] = size]
  /\ UNCHANGED <<shm, made, product, got, ready, dead>>

\* mmap refuses a length of 0; close.
MapExisting(c) ==
  /\ using[c] = "map"
  /\ using' = [using EXCEPT ![c] = IF sb[c] = "empty" THEN "dead" ELSE "copy"]
  /\ ready' = [ready EXCEPT ![c] = \E p \in Producer : making[p] = "done"]
  /\ UNCHANGED <<shm, made, sb, product, got, dead>>

\* memcpy and the output.
CopyOut(c) ==
  /\ using[c] = "copy"
  /\ \/ \E f \in Field \ got[c] :
          /\ got' = [got EXCEPT ![c] = @ \cup {f}]
          /\ product' = [product EXCEPT ![c] = @ \cup (object \cap {f})]
          /\ UNCHANGED using
     \/ /\ got[c] = Field
        /\ using' = [using EXCEPT ![c] = "done"]
        /\ UNCHANGED <<got, product>>
  /\ UNCHANGED <<shm, made, sb, ready, dead>>

\* A call fails and the process terminates, or it is killed, between any two steps.
Die ==
  /\ dead < MaxDead
  /\ dead' = dead + 1
  /\ \/ /\ \E p \in Producer : making[p] \notin {"done", "dead"} /\ making' = [making EXCEPT ![p] = "dead"]
        /\ UNCHANGED using
     \/ /\ \E c \in Consumer : using[c] \notin {"done", "dead"} /\ using' = [using EXCEPT ![c] = "dead"]
        /\ UNCHANGED making
  /\ UNCHANGED <<shm, put, sb, product, got, ready>>

Next ==
  \/ \E p \in Producer : ShmOpen(p) \/ Ftruncate(p) \/ Map(p) \/ CopyIn(p)
  \/ \E c \in Consumer : OpenExisting(c) \/ Fstat(c) \/ MapExisting(c) \/ CopyOut(c)
  \/ Die

Spec == Init /\ [][Next]_vars

----------------------------------------------------------------------------
(***************************************************************************)
(* A consumer that copies reads inside the object, and one that began      *)
(* after some producer had finished prints the whole product, even while   *)
(* other producers start, write or die.  (One that began earlier may print *)
(* a mixture of zeroes and fields.)                                        *)
(***************************************************************************)
ProductWhole ==
  \A c \in Consumer :
    /\ using[c] = "copy" => size = "product"
    /\ using[c] = "done" /\ ready[c] => product[c] = Field
==============================================================================
