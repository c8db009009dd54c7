--------------------------- MODULE MCSkillVersions ---------------------------
(* Instances of SkillVersions for TLC.                                      *)
EXTENDS SkillVersions, TLC

AllOps == Operations
Symmetry == Permutations(Procs)
=============================================================================
