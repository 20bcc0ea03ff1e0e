------------------------- MODULE MCWifiConfigAtomic -------------------------
(* Model checking of WifiConfigAtomic: two credential files are enough to  *)
(* tell the old one, the new one and a third left by an earlier save.      *)
EXTENDS WifiConfigAtomic, TLC

CONSTANTS p1, p2

MCPayloads == {p1, p2}
Symmetry == Permutations(MCPayloads)
=============================================================================
