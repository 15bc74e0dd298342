----------------------------- MODULE MCTaskQueue -----------------------------
(***************************************************************************)
(* TaskQueue with two priorities the kernel takes and one it refuses, as a *)
(* negative argument gives.  PRIO_MAX stands for 32768.                    *)
(***************************************************************************)
EXTENDS TaskQueue, TLC

PRIO_MAX == 2
NO_NUMBER == 9

MixedPrio == "low" :> 0 @@ "high" :> 1 @@ "negative" :> 8
MixedDispatcher == DOMAIN MixedPrio
==============================================================================
