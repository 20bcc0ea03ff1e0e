----------------------- MODULE MCFirstBootTransaction -----------------------
(* Model checking of FirstBootTransaction: two credential files and two     *)
(* hardware configurations, so that a request may keep or change the       *)
(* hardware and start with or without a stored record.                     *)
EXTENDS FirstBootInvariant

CONSTANTS p1, p2, h1, h2

MCPayloads == {p1, p2}
MCHwConfigs == {h1, h2}
=============================================================================
