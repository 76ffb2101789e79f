------------------------------ MODULE Analyzer ------------------------------
(***************************************************************************)
(* analyze_request of engine/analyzer/inspector.py: the four built-in      *)
(* checks, and the administrators' rules that get_active_rules_from_db     *)
(* returns, which other threads load and the panel changes meanwhile       *)
(* (RuleCache).                                                            *)
(*                                                                         *)
(* A request is the set of its strings.  A string is told by its place, by *)
(* the built-in patterns it matches when decoded, by the rules it matches  *)
(* as it is, and by its length and number of special characters.  Where a  *)
(* check finds a pattern first is a detail of the report and not told.     *)
(***************************************************************************)
EXTENDS RuleCache, FiniteSets, FiniteSetsExt

CONSTANTS ActionOf,           \* the action of each rule
          Requests,           \* requests clients send
          MAX_PARAM_LENGTH, MAX_HEADER_LENGTH, MIN_LEN_FOR_RATIO,
          SPECIAL_CHAR_RATIO  \* in percent

VARIABLE req   \* the request each handler thread analyses

vars == <<cacheVars, req>>

-----------------------------------------------------------------------------
(* Requests *)

\* Headers are strict (their value has a format of its own), browser (sec-ch-,
\* sec-fetch-) or free; a body is free where it is text or an object's text
\* member, and opaque elsewhere.  Paths and parameters are free.
Field == [place  : {"path", "query", "header", "body"},
          kind   : {"free", "strict", "browser", "opaque"},
          formed : BOOLEAN,                            \* a strict header's format
          signs  : SUBSET {"SQL_INJECTION", "XSS", "PATH_TRAVERSAL"},
          rules  : SUBSET Rules,
          length : Nat, special : Nat]

ASSUME AnalyzerAssumption ==
    /\ ActionOf \in [Rules -> {"block", "allow", "log"}]
    /\ Requests \subseteq SUBSET Field
    /\ SPECIAL_CHAR_RATIO \in 0..100
    /\ MIN_LEN_FOR_RATIO \in Nat \ {0} /\ MAX_PARAM_LENGTH \in Nat
    /\ MAX_HEADER_LENGTH \in Nat
    /\ \A u \in Rules : u \notin {"none", "SQL_INJECTION", "XSS", "PATH_TRAVERSAL", "ANOMALY"}

-----------------------------------------------------------------------------
(* The built-in checks *)

\* _inspect_string is asked about parameters, headers without a format, bodies.
SkipsBody(f) == f.place \in {"query", "header"} /\ f.kind = "free"   \* mutant
Inspected(f) == f.place # "path" /\ f.kind = "free"

Malformed(f) == f.kind = "strict" /\ ~f.formed

\* sqli.check and xss.check, alike but for the patterns.
Injected(r, sign) == \E f \in r : Malformed(f) \/ (Inspected(f) /\ sign \in f.signs)

\* traversal.check
Traverses(r) ==
    \E f \in r : f.place \in {"path", "query"} /\ "PATH_TRAVERSAL" \in f.signs

\* anomalies.check
AtLimit(f) == \/ f.place = "query" /\ f.length >= MAX_PARAM_LENGTH  \* mutant
              \/ f.place = "header" /\ f.length >= MAX_HEADER_LENGTH
TooLong(f) == \/ f.place = "query" /\ f.length > MAX_PARAM_LENGTH
              \/ f.place = "header" /\ f.length > MAX_HEADER_LENGTH

ShortToo(f) == 100 * f.special > SPECIAL_CHAR_RATIO * f.length      \* mutant
Dense(f) == /\ f.length >= MIN_LEN_FOR_RATIO
            /\ 100 * f.special > SPECIAL_CHAR_RATIO * f.length

Anomalous(r) == \E f \in r : f.place \in {"query", "header"} /\ (TooLong(f) \/ Dense(f))

Checks == <<"SQL_INJECTION", "XSS", "PATH_TRAVERSAL", "ANOMALY">>

\* Whether the i-th check, in the order of the code, finds something.
Finds(i, r) ==
    CASE i \in {1, 2} -> Injected(r, Checks[i])
      [] i = 3 -> Traverses(r)
      [] i = 4 -> Anomalous(r)

Hits(r) == {i \in 1..4 : Finds(i, r)}

-----------------------------------------------------------------------------
(* The verdict *)

Verdict == [safe : BOOLEAN, action : {"none", "block", "allow", "log"},
            reason : {"none", "SQL_INJECTION", "XSS", "PATH_TRAVERSAL", "ANOMALY"} \cup Rules]

Pending == [safe |-> FALSE, action |-> "none", reason |-> "none"]
Safe == [safe |-> TRUE, action |-> "allow", reason |-> "none"]
Builtin(i) == [safe |-> FALSE, action |-> "block", reason |-> Checks[i]]
ByRule(u) == [safe |-> FALSE, action |-> ActionOf[u], reason |-> u]

\* The strings that the rules are searched in: all but the path and what is no
\* text in the body.
Matching(r, rules) ==
    {u \in rules : \E f \in r : f.place # "path" /\ f.kind # "opaque" /\ u \in f.rules}

\* The first rule that matches, in whatever order SELECT returned them.
RuleVerdicts(r, rules) ==
    IF Matching(r, rules) = {} THEN {Safe} ELSE {ByRule(u) : u \in Matching(r, rules)}

Asked == [stage : {"idle", "asking", "done"}, fields : Requests \cup {{}}, verdict : Verdict]

-----------------------------------------------------------------------------
(* A thread *)

Become(w, stage, r, v) ==
    req' = [req EXCEPT ![w] = [stage |-> stage, fields |-> r, verdict |-> v]]

\* A built-in check answers; the rules are not asked for.
Answer(w, r) ==
    /\ req[w].stage # "asking"
    /\ Hits(r) # {}
    /\ Become(w, "done", r, Builtin(Min(Hits(r))))
    /\ UNCHANGED cacheVars

\* None does: get_active_rules_from_db is called, ...
Ask(w, r) ==
    /\ req[w].stage # "asking"
    /\ Hits(r) = {}
    /\ Become(w, "asking", r, Pending)
    /\ Call(w)

\* ... works, ...
Retried(w) ==                                                      \* mutant
    /\ \/ CheckAge(w) \/ Select(w) \/ StoreRules(w)
       \/ LoadFault(w)
    /\ UNCHANGED req
Load(w) ==
    /\ CheckAge(w) \/ Select(w) \/ StoreRules(w)
    /\ UNCHANGED req

\* ... and returns, or fails and returns no rules; they are searched for in the
\* request, which no other thread can see.
Conclude(w) ==
    /\ req[w].stage = "asking"
    /\ ReturnCache(w) \/ StoreTime(w) \/ LoadFault(w)
    /\ \E v \in RuleVerdicts(req[w].fields, job'[w].rules) :
          Become(w, "done", req[w].fields, v)

-----------------------------------------------------------------------------

Init ==
    /\ CacheInit
    /\ req = [w \in Workers |-> [stage |-> "idle", fields |-> {}, verdict |-> Pending]]

Next ==
    \/ \E w \in Workers :
          Load(w) \/ Conclude(w) \/ \E r \in Requests : Answer(w, r) \/ Ask(w, r)
    \/ (\E u \in Rules : Switch(u)) /\ UNCHANGED req
    \/ Tick /\ UNCHANGED req

Spec == Init /\ [][Next]_vars

-----------------------------------------------------------------------------
(* Properties *)

\* The variables have their types, and a request waits for the rules exactly
\* while its thread is in the call.
TypeOK ==
    /\ CacheTypeOK
    /\ req \in [Workers -> Asked]
    /\ \A w \in Workers : req[w].stage = "asking" <=> Busy(w)

\* A rule that has been as it is for longer than the cache may lag (RuleCache).
Settled(u) == changed[u] + TTL + 3 * slowest <= now

Concludes(w) == req[w].stage = "asking" /\ req'[w].stage = "done"

\* A string has what it should have in its place: no pattern that is looked for
\* there, its format, and no more than the lengths and the density allowed.
Clean(f) ==
    /\ f.kind = "free" /\ f.place \in {"query", "header", "body"}
       => f.signs \subseteq {"PATH_TRAVERSAL"}
    /\ f.place \in {"path", "query"} => "PATH_TRAVERSAL" \notin f.signs
    /\ f.kind = "strict" => f.formed
    /\ f.place = "query" => f.length <= MAX_PARAM_LENGTH
    /\ f.place = "header" => f.length <= MAX_HEADER_LENGTH
    /\ /\ f.place \in {"query", "header"}
       /\ 100 * f.special > SPECIAL_CHAR_RATIO * f.length
       => f.length < MIN_LEN_FOR_RATIO

\* What is called safe is: every string is clean, and none matches a rule that
\* has been on for longer than the cache may lag, unless the rules could not be
\* loaded.
SafeIsClean ==
    [][\A w \in Workers :
          Concludes(w) /\ req'[w].verdict.safe /\ job'[w].stage = "returned"
          => /\ \A f \in req[w].fields : Clean(f)
             /\ \A u \in Valid \cap active, f \in req[w].fields :
                   Settled(u) /\ u \in f.rules => f.place = "path" \/ f.kind = "opaque"]_vars

\* No false alarm: clean strings, those that just keep within their limits
\* included, are refused for a rule only, which one of them matches and which has
\* not been off for longer than the cache may lag.
AlarmHasCause ==
    [][\A w \in Workers :
          /\ req'[w].stage = "done" /\ req'[w] # req[w]
          /\ ~req'[w].verdict.safe
          /\ \A f \in req'[w].fields : Clean(f)
          => LET u == req'[w].verdict.reason
             IN  /\ u \in Valid
                 /\ \E f \in req'[w].fields : u \in f.rules
                 /\ Settled(u) => u \in active]_vars
=============================================================================
