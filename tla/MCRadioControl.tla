--------------------------- MODULE MCRadioControl ---------------------------
(* Model checking of RadioControl: two stations for safety, one for liveness. *)
EXTENDS RadioInvariant, TLC

CONSTANTS s1, s2, web

MCStations == {s1, s2}
MCTasks == {web}
MCPanel == {"main"}

\* Sound for the safety run: no definition singles a station out.
StationSymmetry == Permutations(MCStations)
=============================================================================
