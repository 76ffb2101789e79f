----------------------------- MODULE MCAutoBan -----------------------------
(* Instances of AutoBan for TLC. *)
EXTENDS AutoBan, TLC

CONSTANTS d1, s1

OneRow == s1 :> d1

=============================================================================
