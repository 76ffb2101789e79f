------------------------------- MODULE Meter -------------------------------
(***************************************************************************)
(* What traffic accounting promises to whoever reads accounts_trafficstats *)
(* and compares it with a limit: a meter for each domain, which is emptied *)
(* into the row of one site at a time, as a whole and at once, and which   *)
(* loses its content only with a failure, a restart or the deletion of a   *)
(* site.  Threads, the cache and its lock are hidden here.                 *)
(***************************************************************************)
EXTENDS Integers

CONSTANTS Domains,    \* domains clients ask for
          Sites,      \* ids of accounts_protectedsite rows
          DomainOf,   \* the domain column: [Sites -> Domains]
          Sizes       \* how many bytes a request can count for

VARIABLES pending,    \* bytes by domain that are in no row yet
          billed,     \* bytes by site that are
          disturbed   \* domains that met a failure or a deletion

vars == <<pending, billed, disturbed>>

Init ==
    /\ pending = [d \in Domains |-> 0]
    /\ billed = [s \in Sites |-> 0]
    /\ disturbed = {}

Serve(d) ==
    /\ \E n \in Sizes : pending' = [pending EXCEPT ![d] = @ + n]
    /\ UNCHANGED <<billed, disturbed>>

\* One row gets all that is pending.  It may, even so, be reported as a failure.
Bill(s) ==
    /\ billed' = [billed EXCEPT ![s] = @ + pending[DomainOf[s]]]
    /\ pending' = [pending EXCEPT ![DomainOf[s]] = 0]
    /\ disturbed' \in {disturbed, disturbed \cup {DomainOf[s]}}

Lose(D) ==
    /\ pending' = [d \in Domains |-> IF d \in D THEN 0 ELSE pending[d]]
    /\ disturbed' = disturbed \cup D
    /\ UNCHANGED billed

\* A site goes with what was billed to it.
Forget(s) ==
    /\ billed' = [billed EXCEPT ![s] = 0]
    /\ disturbed' = disturbed \cup {DomainOf[s]}
    /\ UNCHANGED pending

Next ==
    \/ \E d \in Domains : Serve(d)
    \/ \E s \in Sites : Bill(s) \/ Forget(s)
    \/ \E D \in SUBSET Domains : Lose(D)

Spec == Init /\ [][Next]_vars
=============================================================================
