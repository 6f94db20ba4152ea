----------------------------- MODULE MCPrintJobs -----------------------------
(* Instances of PrintJobs for TLC.                                         *)
EXTENDS PrintJobs, TLC

CONSTANTS j1, j2, a1, a2

(* Every agent has every printer.                                          *)
AnyJob(a) == Jobs

Symmetry == Permutations(Agents)

=============================================================================
