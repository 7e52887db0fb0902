------------------------------ MODULE MCConnId ------------------------------
(* An instance of ConnId for TLC. *)
EXTENDS ConnId, TLC

Symmetry == Permutations(Ip) \cup Permutations(Worker)
=============================================================================
