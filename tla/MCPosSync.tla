----------------------------- MODULE MCPosSync -----------------------------
(* Instances of PosSync for TLC.                                           *)
EXTENDS PosSync, TLC

CONSTANTS s1, u1, u2, t1, t2, q1, q2, counter

Symmetry == Permutations(Ticks) \cup Permutations(Requests)

=============================================================================
