--------------------------- MODULE MCAccessTokens ---------------------------
(* Instances of AccessTokens for TLC. *)
EXTENDS AccessTokens, TLC

Symmetry == Permutations(Workers) \cup Permutations(Tokens) \cup Permutations(IPs)

\* Bounds: of the tokens, one at most is saved from a stale copy, one deleted, and
\* one has addresses blocked.
Bounds ==
    /\ Cardinality(overlapped) <= 1
    /\ Cardinality(deleted) <= 1
    /\ Cardinality({t \in Tokens : Exists(t) /\ tokens[t].ips # {}}) <= 1
=============================================================================
