---------------------------- MODULE AtomicUpdate ----------------------------
(***************************************************************************)
(* What a configuration transaction promises its user: a stored value, at  *)
(* most one update under way, and a single step that installs all of the   *)
(* update or none of it.  A power cut is invisible at this level: it is a  *)
(* stuttering step, whatever it interrupts.                                *)
(***************************************************************************)
CONSTANTS
    Values,    \* what may be stored
    NoTarget   \* no update is under way

VARIABLES
    value,     \* what the device would use after a restart
    target     \* the update under way

vars == <<value, target>>

TypeOK == value \in Values /\ target \in Values \cup {NoTarget}

Init == value \in Values /\ target = NoTarget

Begin(v) == target = NoTarget /\ target' = v /\ value' = value

Commit == target # NoTarget /\ value' = target /\ target' = NoTarget

Abort == target # NoTarget /\ value' = value /\ target' = NoTarget

Next == (\E v \in Values : Begin(v)) \/ Commit \/ Abort

Spec == Init /\ [][Next]_vars
=============================================================================
