------------------------------ MODULE MCMembers ------------------------------
(* Instances of Members for TLC.                                           *)
EXTENDS Members, TLC

Symmetry == Permutations(Workers) \cup Permutations(Codes) \cup Permutations(Phones)

=============================================================================
