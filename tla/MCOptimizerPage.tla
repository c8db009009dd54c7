--------------------------- MODULE MCOptimizerPage ---------------------------
(* Instances of OptimizerPage for TLC.                                      *)
EXTENDS OptimizerPage

Refreshes  == {"refresh"}
Everything ==
  {"refresh", "logout", "drop", "fail", "late", "restart", "silent"}

None    == {}
UpToTwo == {1, 2}
=============================================================================
