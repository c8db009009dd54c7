---------------------------- MODULE MCMarketplace ----------------------------
(* Instances of Marketplace for TLC.                                        *)
EXTENDS Marketplace, TLC

\* The handlers of the instance with two overlapping requests that may die: the
\* marketplace's and delete, but not removeFromMarketplace, whose awaits hold no
\* lock together.  It overlaps the others in RemovalOps.
ReviewOps  == {"submit", "approve", "reject", "removeVersion", "delete",
               "requestRemoval", "approveRemoval", "rejectRemoval"}
RemovalOps == (ReviewOps \ {"delete", "reject"}) \cup {"removeFromMarketplace"}
AllOps     == Operations

ProcSymmetry == Permutations(Procs)
=============================================================================
