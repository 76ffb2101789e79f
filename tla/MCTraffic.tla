------------------------------ MODULE MCTraffic ------------------------------
(* Instances of TrafficAccounting for TLC. *)
EXTENDS TrafficAccounting, TLC

CONSTANTS d1, d2, s1, s2, s3

\* A domain with one row, and one with two, of which one is given a limit, or
\* loses it, at times.
ThreeSites == s1 :> d1 @@ s2 :> d2 @@ s3 :> d2
ThreeLimits == s1 :> {1} @@ s2 :> {2} @@ s3 :> {0, 1}
=============================================================================
