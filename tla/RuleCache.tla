------------------------------ MODULE RuleCache ------------------------------
(***************************************************************************)
(* get_active_rules_from_db of engine/analyzer/db_rules.py: the handler    *)
(* threads share the globals _rules_cache and _rules_cache_time without a  *)
(* lock.  A thread reads the two in separate steps, reads the cache again  *)
(* to return it, and assigns the two in separate steps, with the query and *)
(* the compilation before; a failed load returns [] and assigns nothing.   *)
(*                                                                         *)
(* A rule is its identity: an edited pattern is another rule.  time.time() *)
(* is taken not to go backwards.  A restarted engine starts from CacheInit.     *)
(***************************************************************************)
EXTENDS Integers

CONSTANTS Workers,   \* handler threads
          Rules,     \* rows accounts_wafrule may hold
          Valid,     \* those whose pattern re.compile accepts; re.error for the others
          TTL,       \* 60 seconds
          MaxTime    \* bound: last instant of the clock

ASSUME CacheAssumption ==
    /\ Valid \subseteq Rules
    /\ TTL \in Nat \ {0}
    /\ MaxTime \in Nat

VARIABLES now,       \* time.time()
          active,    \* the rules with is_active = True
          changed,   \* history: when each rule was last switched
          loaded,    \* _rules_cache is not None
          cache,     \* _rules_cache then
          cachedAt,  \* _rules_cache_time
          snapshot,  \* history: when the SELECT behind the cache was done
          job,       \* the handler threads
          slowest    \* history: the longest a call has taken so far

globals == <<loaded, cache, cachedAt, snapshot>>
table == <<active, changed>>
cacheVars == <<now, table, globals, job, slowest>>

-----------------------------------------------------------------------------

Stage == {"idle", "aging", "returning", "querying", "storing", "stamping", "returned"}

\* rules: what was loaded, or returned; selected: when it was; since: when the
\* call began.  A thread is idle after a failed call.
Job == [stage    : Stage,
        rules    : SUBSET Valid,
        selected : Nat,
        since    : Nat]

NoJob == [stage |-> "idle", rules |-> {}, selected |-> 0, since |-> 0]

Goto(w, stage) == job' = [job EXCEPT ![w].stage = stage]

Return(w, rules) ==
    job' = [job EXCEPT ![w] = [NoJob EXCEPT !.stage = "returned", !.rules = rules]]

Busy(w) == job[w].stage \notin {"idle", "returned"}

Fresh == now - cachedAt < TTL

\* Rules whose pattern does not compile are left out.
NotChecked(rules) == rules                                         \* mutant
Compiled(rules) == rules \cap Valid

-----------------------------------------------------------------------------
(* The call *)

\* _rules_cache is not None?
Call(w) ==
    /\ ~Busy(w)
    /\ job' = [job EXCEPT ![w] =
                 [NoJob EXCEPT !.since = now,
                               !.stage = IF loaded THEN "aging" ELSE "querying"]]
    /\ UNCHANGED <<now, table, globals, slowest>>

\* time.time() - _rules_cache_time < 60?
CheckAge(w) ==
    /\ job[w].stage = "aging"
    /\ Goto(w, IF Fresh THEN "returning" ELSE "querying")
    /\ UNCHANGED <<now, table, globals, slowest>>

\* return _rules_cache: whatever it is by now.
ReturnCache(w) ==
    /\ job[w].stage = "returning"
    /\ Return(w, cache)
    /\ UNCHANGED <<now, table, globals, slowest>>

\* SELECT the active rules, and compile them.
Select(w) ==
    /\ job[w].stage = "querying"
    /\ job' = [job EXCEPT ![w].stage = "storing", ![w].rules = Compiled(active),
                          ![w].selected = now]
    /\ UNCHANGED <<now, table, globals, slowest>>

\* A database error, swallowed: return [].  So is a pattern that re.compile fails
\* on with something else than re.error.
EmptyCached(w) ==                                                  \* mutant
    /\ job[w].stage = "querying"
    /\ job' = [job EXCEPT ![w] = NoJob]
    /\ loaded' = TRUE
    /\ cache' = {}
    /\ cachedAt' = now
    /\ UNCHANGED <<now, table, snapshot, slowest>>
LoadFault(w) ==
    /\ job[w].stage = "querying"
    /\ job' = [job EXCEPT ![w] = NoJob]
    /\ UNCHANGED <<now, table, globals, slowest>>

StoreRules(w) ==
    /\ job[w].stage = "storing"
    /\ loaded' = TRUE
    /\ cache' = job[w].rules
    /\ snapshot' = job[w].selected
    /\ Goto(w, "stamping")
    /\ UNCHANGED <<now, table, cachedAt, slowest>>

\* The time of the assignment, not that of the query; then return the rules
\* this thread has loaded.
StoreTime(w) ==
    /\ job[w].stage = "stamping"
    /\ cachedAt' = now
    /\ Return(w, job[w].rules)
    /\ UNCHANGED <<now, table, loaded, cache, snapshot, slowest>>

-----------------------------------------------------------------------------
(* The environment *)

\* An administrator adds, removes or switches a rule, or edits one into another.
Switch(r) ==
    /\ active' = IF r \in active THEN active \ {r} ELSE active \cup {r}
    /\ changed' = [changed EXCEPT ![r] = now]
    /\ UNCHANGED <<now, globals, job, slowest>>

\* Time passes; the calls under way get longer.
Tick ==
    /\ now < MaxTime
    /\ now' = now + 1
    /\ slowest' = IF \E w \in Workers : Busy(w) /\ now - job[w].since = slowest
                  THEN slowest + 1
                  ELSE slowest
    /\ UNCHANGED <<table, globals, job>>

-----------------------------------------------------------------------------

\* The epoch, time 0, is long past.
CacheInit ==
    /\ now = TTL
    /\ active \in SUBSET Rules
    /\ changed = [r \in Rules |-> 0]
    /\ loaded = FALSE
    /\ cache = {}
    /\ cachedAt = 0
    /\ snapshot = 0
    /\ job = [w \in Workers |-> NoJob]
    /\ slowest = 0

Step(w) ==
    \/ Call(w) \/ CheckAge(w) \/ ReturnCache(w) \/ Select(w) \/ LoadFault(w)
    \/ StoreRules(w) \/ StoreTime(w)

CacheNext ==
    \/ \E w \in Workers : Step(w)
    \/ \E r \in Rules : Switch(r)
    \/ Tick

CacheSpec == CacheInit /\ [][CacheNext]_cacheVars

-----------------------------------------------------------------------------
(* Properties *)

\* The variables have their types; only rules that compile are cached, and a
\* thread on its way to return the cache finds one.
CacheTypeOK ==
    /\ now \in Nat /\ slowest \in Nat
    /\ active \subseteq Rules
    /\ changed \in [Rules -> 0..now]
    /\ loaded \in BOOLEAN
    /\ cache \subseteq Valid
    /\ cachedAt \in 0..now
    /\ snapshot \in 0..now
    /\ job \in [Workers -> Job]
    /\ \A w \in Workers : job[w].stage \in {"aging", "returning"} => loaded

\* The bound on staleness: a call that does not fail returns every rule that
\* has been on, and none that has been off, for TTL and three times the longest
\* call so far.  One call's length passes between the age check and the return,
\* one between a SELECT and the assignment of its time, and one more because
\* another thread may assign older rules in between.
UpToDate ==
    [][\A w \in Workers, r \in Valid :
          /\ Busy(w)
          /\ job'[w].stage = "returned"
          /\ changed[r] + TTL + 3 * slowest <= now
          => (r \in job'[w].rules <=> r \in active)]_cacheVars
=============================================================================
