----------------------------- MODULE MCEvalRuns ------------------------------
(* Instances of EvalRuns for TLC.                                           *)
EXTENDS EvalRuns, TLC

\* "run" is left out: its steps are those of a stream that nobody cancels.
StreamedEvalOps == EvalOperations \ {"run"}
EvalSymmetry == Permutations(EvalProcs)
=============================================================================
