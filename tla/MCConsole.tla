----------------------------- MODULE MCConsole -----------------------------
(* Instances of Console for TLC. *)
EXTENDS Console, TLC

CONSTANTS r1, m1

Kinds == (r1 :> "rule") @@ (m1 :> "message")

Symmetry == Permutations(Workers) \cup Permutations(Keys)
=============================================================================
