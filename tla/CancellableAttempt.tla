-------------------------- MODULE CancellableAttempt --------------------------
(***************************************************************************)
(* What a caller may rely on when it starts a connection attempt that       *)
(* others can cancel: one attempt at a time, each with one verdict, and a   *)
(* cancellation that was accepted is never answered by a success.           *)
(***************************************************************************)
VARIABLE phase

Phases == {"rest", "pending", "doomed", "succeeded", "failed"}
Over == {"rest", "succeeded", "failed"}

Init == phase = "rest"

Start == phase \in Over /\ phase' = "pending"
Doom == phase = "pending" /\ phase' = "doomed"
Succeed == phase = "pending" /\ phase' = "succeeded"
Fail == phase \in {"pending", "doomed"} /\ phase' = "failed"

Next == Start \/ Doom \/ Succeed \/ Fail

Spec == Init /\ [][Next]_phase
=============================================================================
