------------------------------ MODULE MCShell ------------------------------
(* The shell with two or three children. *)
EXTENDS Shell, TLC

CONSTANTS p1, p2, p3

MCPids1 == {p1}
MCPids2 == {p1, p2}
MCPids3 == {p1, p2, p3}

PidSymmetry2 == Permutations(MCPids2)
PidSymmetry3 == Permutations(MCPids3)
=============================================================================
