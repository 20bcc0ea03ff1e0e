--------------------------- MODULE MCConfigRestore ---------------------------
(* Model checking of ConfigRestore: a device that lacks the optional       *)
(* components but has both kinds of stores, backups with and without a     *)
(* scroll section, and edits to a third value.                             *)
EXTENDS ConfigRestore

CONSTANTS g1, g2, e

MCValues == {g1, g2, e}
Sparse == {"Hardware", "Scroll", "Wifi"}
MCGenerations == {[c \in Components |-> IF c \in Sparse THEN Missing ELSE g1]}
MCBackups == {[c \in Components |-> IF c = "Scroll" THEN s ELSE g2] : s \in {Missing, Keep}}
MCEdits == {e}
=============================================================================
