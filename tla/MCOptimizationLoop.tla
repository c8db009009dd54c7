------------------------- MODULE MCOptimizationLoop --------------------------
(* Instance of OptimizationLoop for TLC.                                    *)
EXTENDS OptimizationLoop

AllLimits == {1, 2, 4}
AllTargets == 1..Top
=============================================================================
