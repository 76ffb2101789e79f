----------------------------- MODULE MCAnalyzer -----------------------------
(* Instances of Analyzer for TLC. *)
EXTENDS Analyzer, TLC

CONSTANTS u1, u2

LogOnly == u1 :> "log" @@ u2 :> "block"

Text == [place |-> "query", kind |-> "free", formed |-> TRUE, signs |-> {}, rules |-> {},
         length |-> 20, special |-> 7]
Path == [Text EXCEPT !.place = "path"]
Header == [Text EXCEPT !.place = "header"]
Body == [Text EXCEPT !.place = "body"]

\* Everything just within its limit, patterns where they are not searched for,
\* and a text that matches the rule.
Harmless == {
    Text, [Text EXCEPT !.length = 19, !.special = 19],
    [Text EXCEPT !.length = 250], [Header EXCEPT !.length = 1024],
    [Body EXCEPT !.signs = {"PATH_TRAVERSAL"}],
    [Path EXCEPT !.signs = {"SQL_INJECTION"}],
    [Header EXCEPT !.signs = {"XSS"}, !.kind = "browser"],
    [Header EXCEPT !.kind = "strict", !.special = 0]}

Opaque == {[Path EXCEPT !.rules = {u1}],
           [Body EXCEPT !.kind = "opaque", !.signs = {"XSS"}, !.rules = {u1}]}

Plain == {[Header EXCEPT !.length = 19], [Body EXCEPT !.length = 19, !.rules = {u1}]}

\* Attacks of each kind, strings just over their length, one just over its ratio.
Attacks == {
    {[Header EXCEPT !.length = 1025]},
    {[Text EXCEPT !.length = 251]},
    {[Text EXCEPT !.special = 8], [Path EXCEPT !.signs = {"PATH_TRAVERSAL"}]},
    {[Header EXCEPT !.kind = "strict", !.formed = FALSE]},
    {[Body EXCEPT !.signs = {"XSS"}]}}

SomeRequests == {Harmless \cup Opaque, Plain} \cup Attacks

Symmetry == Permutations(Workers)

\* A bound: the rule that does not compile is on all the time.
AlwaysOn == u2 \in active /\ changed[u2] = 0
=============================================================================
