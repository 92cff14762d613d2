------------------------- MODULE MCEventOperations -------------------------
(***************************************************************************)
(* Instances of EventOperations for TLC: the operation keys callers use.   *)
(***************************************************************************)
EXTENDS EventOperations, TLC

\* Keys are named for what they ask: "propose again", "approve 2", ...
Asked == [k \in Keys |->
  CASE k \in {"propose", "propose again"} -> "propose"
    [] k \in {"approve", "accept 1", "accept 2"} -> "approve"
    [] k = "reschedule" -> "reschedule"
    [] OTHER -> "release"]

NotPolled == [g \in Generations |-> NoKey]
Polled == [g \in Generations |-> CASE g = 1 -> "accept 1" [] g = 2 -> "accept 2" [] OTHER -> NoKey]

Symmetry == Permutations(Workers)
=============================================================================
