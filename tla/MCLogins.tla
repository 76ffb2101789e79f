------------------------------ MODULE MCLogins ------------------------------
(* Instances of Logins for TLC. *)
EXTENDS Logins, TLC

Symmetry == Permutations(Workers) \cup Permutations(Keys)
=============================================================================
