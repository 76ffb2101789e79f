----------------------------- MODULE MCWafProxy -----------------------------
(* Instances of WafProxy for TLC. *)
EXTENDS WafProxy, TLC

CONSTANTS d1, s1, s2

OneDomain == s1 :> d1 @@ s2 :> d1

\* Both rows have the same domain: exchanging them changes nothing.
Symmetry == Permutations(Workers) \cup Permutations(Sites)
=============================================================================
