-------------------------- MODULE MCStreamGateway --------------------------
(***************************************************************************)
(* Instances of StreamGateway for TLC.                                     *)
(***************************************************************************)
EXTENDS StreamGateway

CONSTANTS a, b, s1, s2, gen, opt

MCPods == {a, b}
MCSockets == {s1, s2}
MCRequests == {gen, opt}
MCLoops == {opt}
MCStoppable == {a}
=============================================================================
