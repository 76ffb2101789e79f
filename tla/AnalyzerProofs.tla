--------------------------- MODULE AnalyzerProofs ---------------------------
(***************************************************************************)
(* Proofs about Analyzer: the analysis uses the rule cache as RuleCache    *)
(* describes, and what is called safe is clean, for any number of threads, *)
(* rules and requests.                                                     *)
(***************************************************************************)
EXTENDS Analyzer, TLAPS

-----------------------------------------------------------------------------
(* The rule cache *)

\* Nothing is dated in the future.
Dated ==
    \A w \in Workers : job[w].selected \in 0..now /\ job[w].since \in 0..now

\* The rules were right at time t, but for those switched since.
Agrees(rules, t) ==
    \A r \in Valid : changed[r] < t => (r \in rules <=> r \in active)

\* slowest bounds the calls under way, and a load selects during its call.
Lengths ==
    \A w \in Workers :
        /\ Busy(w) => now <= job[w].since + slowest
        /\ job[w].stage \in {"storing", "stamping"} => job[w].since <= job[w].selected

\* What is cached, and what is about to be, was right when it was selected.
Contents ==
    /\ loaded => Agrees(cache, snapshot)
    /\ \A w \in Workers : job[w].stage \in {"storing", "stamping"}
                          => Agrees(job[w].rules, job[w].selected)

\* How far the SELECT behind the cache lies back, seen from the cache's time,
\* from the load that is about to set that time, and from a call that has found
\* the cache fresh.
Ages ==
    /\ loaded => cachedAt <= snapshot + 2 * slowest
    /\ \A w \in Workers :
          /\ job[w].stage = "stamping"
             => loaded /\ job[w].selected <= snapshot + slowest
          /\ job[w].stage = "returning"
             => job[w].since < snapshot + TTL + 2 * slowest

CacheIInv == CacheTypeOK /\ Dated /\ Lengths /\ Contents /\ Ages

LEMMA CacheEstablish == CacheInit => CacheIInv
<1> SUFFICES ASSUME CacheInit PROVE CacheIInv
  OBVIOUS
<1> USE CacheAssumption DEF CacheInit, NoJob
<1>1. now \in Nat /\ 0 \in 0..now
  OBVIOUS
<1>2. CacheTypeOK
  <2>1. NoJob \in Job
    BY DEF Job, Stage
  <2>2. changed \in [Rules -> 0..now]
    BY <1>1
  <2> QED BY <1>1, <2>1, <2>2 DEF CacheTypeOK
<1>6. Dated
  BY <1>1 DEF Dated
<1>3. Lengths
  BY DEF Lengths, Busy
<1>4. Contents
  BY DEF Contents
<1>5. Ages
  BY DEF Ages
<1> QED BY <1>2, <1>3, <1>4, <1>5, <1>6 DEF CacheIInv

\* A local state a thread that is about to assign nothing may be in.
Fits(j) ==
    /\ j \in Job
    /\ j.selected \in 0..now /\ j.since \in 0..now
    /\ j.stage \in {"aging", "returning"} => loaded
    /\ j.stage \notin {"idle", "returned"} => now <= j.since + slowest
    /\ j.stage \in {"storing", "stamping"}
       => j.since <= j.selected /\ Agrees(j.rules, j.selected)
    /\ j.stage # "stamping"
    /\ j.stage = "returning" => j.since < snapshot + TTL + 2 * slowest

\* Steps that leave the clock, the table and the globals alone, and move one
\* thread to a local state that fits.
LEMMA Local ==
    ASSUME CacheIInv, UNCHANGED <<now, table, globals, slowest>>,
           NEW w \in Workers, NEW j, Fits(j), job' = [job EXCEPT ![w] = j]
    PROVE  CacheIInv'
<1> USE DEF table, globals, Fits
<1>1. CacheTypeOK'
  BY DEF CacheIInv, CacheTypeOK
<1>2. Dated'
  BY DEF CacheIInv, CacheTypeOK, Dated
<1>3. Lengths'
  BY DEF CacheIInv, CacheTypeOK, Lengths, Busy
<1>4. Contents'
  BY DEF CacheIInv, CacheTypeOK, Contents, Agrees
<1>5. Ages'
  BY DEF CacheIInv, CacheTypeOK, Ages
<1> QED BY <1>1, <1>2, <1>3, <1>4, <1>5 DEF CacheIInv

LEMMA CachePreserve == CacheIInv /\ [CacheNext]_cacheVars => CacheIInv'
<1> SUFFICES ASSUME CacheIInv, [CacheNext]_cacheVars PROVE CacheIInv'
  OBVIOUS
<1> USE CacheAssumption
<1>0. \A w \in Workers : job[w] \in Job
  BY DEF CacheIInv, CacheTypeOK
<1>1. ASSUME NEW w \in Workers, Call(w)
      PROVE  CacheIInv'
  <2> DEFINE j == [NoJob EXCEPT !.since = now,
                                !.stage = IF loaded THEN "aging" ELSE "querying"]
  <2>1. j \in Job
    BY DEF CacheIInv, CacheTypeOK, NoJob, Job, Stage
  <2>2. /\ j.stage = IF loaded THEN "aging" ELSE "querying"
        /\ j.since = now /\ j.selected = 0
    BY DEF NoJob
  <2> HIDE DEF j
  <2>3. job' = [job EXCEPT ![w] = j] /\ UNCHANGED <<now, table, globals, slowest>>
    BY <1>1 DEF Call, j
  <2>4. now \in Nat /\ slowest \in Nat
    BY DEF CacheIInv, CacheTypeOK
  <2>5. Fits(j)
    BY <2>1, <2>2, <2>4 DEF Fits, CacheIInv, CacheTypeOK
  <2> QED BY <2>3, <2>5, Local
<1>2. ASSUME NEW w \in Workers, CheckAge(w)
      PROVE  CacheIInv'
  <2> DEFINE j == [job[w] EXCEPT !.stage = IF Fresh THEN "returning" ELSE "querying"]
  <2>1. j \in Job
    BY <1>0 DEF Job, Stage
  <2>2. /\ j.stage = IF Fresh THEN "returning" ELSE "querying"
        /\ j.since = job[w].since /\ j.selected = job[w].selected
    BY <1>0 DEF Job
  <2> HIDE DEF j
  <2>3. job' = [job EXCEPT ![w] = j] /\ UNCHANGED <<now, table, globals, slowest>>
    BY <1>0, <1>2 DEF CheckAge, Goto, j
  <2>4. loaded /\ now <= job[w].since + slowest
    BY <1>2 DEF CheckAge, CacheIInv, CacheTypeOK, Lengths, Busy
  <2>5. j.selected \in 0..now /\ j.since \in 0..now
    BY <2>2 DEF CacheIInv, Dated
  <2>6. j.stage = "returning" => j.since < snapshot + TTL + 2 * slowest
    BY <2>2, <2>4, <2>5 DEF Fresh, CacheIInv, CacheTypeOK, Ages
  <2>7. j.stage \in {"returning", "querying"}
    BY <2>2
  <2>8. Fits(j)
    BY <2>1, <2>2, <2>4, <2>5, <2>6, <2>7 DEF Fits
  <2> QED BY <2>3, <2>8, Local
<1>3. ASSUME NEW w \in Workers, NEW rules \in SUBSET Valid, Return(w, rules),
             UNCHANGED <<now, table, globals, slowest>>
      PROVE  CacheIInv'
  <2> DEFINE j == [NoJob EXCEPT !.stage = "returned", !.rules = rules]
  <2>1. j \in Job /\ j.stage = "returned" /\ j.since = 0 /\ j.selected = 0
    BY DEF NoJob, Job, Stage
  <2> HIDE DEF j
  <2>2. job' = [job EXCEPT ![w] = j]
    BY <1>3 DEF Return, j
  <2>3. now \in Nat
    BY DEF CacheIInv, CacheTypeOK
  <2>4. Fits(j)
    BY <2>1, <2>3 DEF Fits
  <2> QED BY <1>3, <2>2, <2>4, Local
<1>4. ASSUME NEW w \in Workers, ReturnCache(w)
      PROVE  CacheIInv'
  BY <1>3, <1>4 DEF ReturnCache, CacheIInv, CacheTypeOK
<1>5. ASSUME NEW w \in Workers, Select(w)
      PROVE  CacheIInv'
  <2> DEFINE j == [job[w] EXCEPT !.stage = "storing", !.rules = Compiled(active),
                                 !.selected = now]
  <2>1. j \in Job
    BY <1>0 DEF Job, Stage, CacheIInv, CacheTypeOK, Compiled
  <2>2. /\ j.stage = "storing" /\ j.rules = Compiled(active)
        /\ j.since = job[w].since /\ j.selected = now
    BY <1>0 DEF Job
  <2> HIDE DEF j
  <2>3. job' = [job EXCEPT ![w] = j] /\ UNCHANGED <<now, table, globals, slowest>>
    BY <1>0, <1>5 DEF Select, j
  <2>4. now <= job[w].since + slowest
    BY <1>5 DEF Select, CacheIInv, Lengths, Busy
  <2>5. j.selected \in 0..now /\ j.since \in 0..now
    BY <2>2 DEF CacheIInv, CacheTypeOK, Dated
  <2>6. Agrees(j.rules, j.selected)
    BY <2>2 DEF Agrees, Compiled
  <2>7. job[w].since <= now
    BY DEF CacheIInv, Dated
  <2>8. Fits(j)
    BY <2>1, <2>2, <2>4, <2>5, <2>6, <2>7 DEF Fits
  <2> QED BY <2>3, <2>8, Local
<1>6. ASSUME NEW w \in Workers, LoadFault(w)
      PROVE  CacheIInv'
  <2>1. NoJob \in Job /\ NoJob.stage = "idle" /\ NoJob.since = 0 /\ NoJob.selected = 0
    BY DEF NoJob, Job, Stage
  <2>2. now \in Nat
    BY DEF CacheIInv, CacheTypeOK
  <2>3. Fits(NoJob)
    BY <2>1, <2>2 DEF Fits
  <2> QED BY <1>6, <2>3, Local DEF LoadFault
<1>7. ASSUME NEW w \in Workers, StoreRules(w)
      PROVE  CacheIInv'
  <2> USE <1>7 DEF StoreRules, Goto, table
  <2>1. /\ job[w].stage = "storing"
        /\ now <= job[w].since + slowest
        /\ job[w].since <= job[w].selected
        /\ job[w].selected \in 0..now /\ job[w].since \in 0..now
        /\ now \in Nat /\ slowest \in Nat
    BY DEF CacheIInv, CacheTypeOK, Lengths, Busy, Dated
  <2>2. now <= snapshot' + slowest
    BY <2>1
  <2>3. CacheTypeOK'
    BY <1>0, <2>1 DEF CacheIInv, CacheTypeOK, Job, Stage
  <2>4. Dated'
    BY <1>0 DEF CacheIInv, CacheTypeOK, Dated, Job
  <2>5. Lengths'
    BY <1>0 DEF CacheIInv, CacheTypeOK, Lengths, Busy, Job
  <2>6. Contents'
    BY <1>0 DEF CacheIInv, CacheTypeOK, Contents, Agrees, Job
  <2>7. Ages'
    BY <1>0, <2>1, <2>2 DEF CacheIInv, CacheTypeOK, Ages, Dated, Job
  <2> QED BY <2>3, <2>4, <2>5, <2>6, <2>7 DEF CacheIInv
<1>8. ASSUME NEW w \in Workers, StoreTime(w)
      PROVE  CacheIInv'
  <2> USE <1>8 DEF StoreTime, Return, table
  <2>1. /\ job[w].stage = "stamping"
        /\ now <= job[w].since + slowest
        /\ job[w].since <= job[w].selected
        /\ job[w].selected <= snapshot + slowest
        /\ job[w].selected \in 0..now /\ job[w].since \in 0..now
        /\ now \in Nat /\ slowest \in Nat /\ snapshot \in Nat
    BY DEF CacheIInv, CacheTypeOK, Lengths, Busy, Dated, Ages
  <2>2. /\ [NoJob EXCEPT !.stage = "returned", !.rules = job[w].rules] \in Job
        /\ [NoJob EXCEPT !.stage = "returned", !.rules = job[w].rules].stage = "returned"
        /\ [NoJob EXCEPT !.stage = "returned", !.rules = job[w].rules].since = 0
        /\ [NoJob EXCEPT !.stage = "returned", !.rules = job[w].rules].selected = 0
    BY <1>0 DEF NoJob, Job, Stage
  <2>3. CacheTypeOK'
    BY <2>1, <2>2 DEF CacheIInv, CacheTypeOK
  <2>4. Dated'
    BY <2>1, <2>2 DEF CacheIInv, CacheTypeOK, Dated
  <2>5. Lengths'
    BY <2>2 DEF CacheIInv, CacheTypeOK, Lengths, Busy
  <2>6. Contents'
    BY <2>2 DEF CacheIInv, CacheTypeOK, Contents, Agrees
  <2>7. Ages'
    BY <2>1, <2>2 DEF CacheIInv, CacheTypeOK, Ages
  <2> QED BY <2>3, <2>4, <2>5, <2>6, <2>7 DEF CacheIInv
<1>9. ASSUME NEW r \in Rules, Switch(r)
      PROVE  CacheIInv'
  <2> USE <1>9 DEF Switch, globals
  <2>1. CacheTypeOK'
    BY DEF CacheIInv, CacheTypeOK
  <2>2. Dated' /\ Lengths' /\ Ages'
    BY DEF CacheIInv, Dated, Lengths, Busy, Ages
  <2>3. ASSUME NEW rules, NEW t \in 0..now, Agrees(rules, t)
        PROVE  Agrees(rules, t)'
    BY <2>3 DEF CacheIInv, CacheTypeOK, Agrees
  <2>4. Contents'
    BY <2>3 DEF CacheIInv, CacheTypeOK, Dated, Contents, Agrees
  <2> QED BY <2>1, <2>2, <2>4 DEF CacheIInv
<1>10. ASSUME Tick
       PROVE  CacheIInv'
  <2> USE <1>10 DEF Tick, table, globals
  <2>1. /\ now \in Nat /\ slowest \in Nat /\ slowest' \in Nat
        /\ now' = now + 1 /\ slowest <= slowest'
    BY DEF CacheIInv, CacheTypeOK
  <2>2. CacheTypeOK'
    BY <2>1 DEF CacheIInv, CacheTypeOK
  <2>3. Dated'
    BY <2>1 DEF CacheIInv, Dated
  <2>4. Lengths'
    <3>1. ASSUME NEW w \in Workers, Busy(w)
          PROVE  now' <= job[w].since + slowest'
      <4>1. job[w].since \in Nat /\ now <= job[w].since + slowest
        BY <3>1 DEF CacheIInv, Lengths, Dated
      <4>2. CASE now - job[w].since = slowest
        BY <2>1, <3>1, <4>1, <4>2
      <4>3. CASE now - job[w].since # slowest
        BY <2>1, <4>1, <4>3
      <4> QED BY <4>2, <4>3
    <3> QED BY <3>1 DEF CacheIInv, Lengths, Busy
  <2>5. Contents'
    BY DEF CacheIInv, Contents, Agrees
  <2>6. Ages'
    BY <2>1 DEF CacheIInv, CacheTypeOK, Dated, Ages
  <2> QED BY <2>2, <2>3, <2>4, <2>5, <2>6 DEF CacheIInv
<1>11. CASE UNCHANGED cacheVars
  BY <1>11
     DEF cacheVars, table, globals, CacheIInv, CacheTypeOK, Dated, Lengths, Busy, Contents, Agrees, Ages
<1> QED
  BY <1>1, <1>2, <1>4, <1>5, <1>6, <1>7, <1>8, <1>9, <1>10, <1>11 DEF CacheNext, Step

LEMMA CacheTypeCorrect == CacheSpec => []CacheTypeOK
<1>1. CacheIInv => CacheTypeOK
  BY DEF CacheIInv
<1> QED BY <1>1, CacheEstablish, CachePreserve, PTL DEF CacheSpec

LEMMA CacheUpToDate == CacheSpec => UpToDate
<1> DEFINE A == \A w \in Workers, r \in Valid :
                   /\ Busy(w)
                   /\ job'[w].stage = "returned"
                   /\ changed[r] + TTL + 3 * slowest <= now
                   => (r \in job'[w].rules <=> r \in active)
<1>1. CacheIInv /\ [CacheNext]_cacheVars => A
  <2> SUFFICES ASSUME CacheIInv, [CacheNext]_cacheVars, NEW w \in Workers, NEW r \in Valid, Busy(w),
                      job'[w].stage = "returned",
                      changed[r] + TTL + 3 * slowest <= now
               PROVE  r \in job'[w].rules <=> r \in active
    OBVIOUS
  <2>1. /\ now \in Nat /\ slowest \in Nat /\ snapshot \in Nat /\ TTL \in Nat \ {0}
        /\ changed[r] \in Nat /\ job[w] \in Job /\ job \in [Workers -> Job]
    BY CacheAssumption DEF CacheIInv, CacheTypeOK
  <2>2. job[w].since \in Nat /\ job[w].selected \in Nat /\ now <= job[w].since + slowest
    BY <2>1 DEF CacheIInv, Dated, Lengths
  <2>3. ReturnCache(w) \/ StoreTime(w)
    <3>1. ASSUME NEW v \in Workers, Step(v), v # w
          PROVE  job'[w] = job[w]
      BY <2>1, <3>1 DEF Step, Call, CheckAge, ReturnCache, Select, LoadFault, StoreRules,
         StoreTime, Goto, Return
    <3>2. job'[w] # job[w]
      BY DEF Busy
    <3>3. Step(w)
      BY <3>1, <3>2 DEF CacheNext, Switch, Tick, cacheVars
    <3> QED BY <2>1, <3>3 DEF Step, Call, CheckAge, Select, LoadFault, StoreRules, Goto,
               NoJob, Job
  <2>4. CASE ReturnCache(w)
    <3>1. job'[w].rules = cache
      BY <2>1, <2>4 DEF ReturnCache, Return, NoJob
    <3>2. loaded /\ job[w].since < snapshot + TTL + 2 * slowest
      BY <2>4 DEF ReturnCache, CacheIInv, CacheTypeOK, Ages
    <3>3. changed[r] < snapshot
      BY <2>1, <2>2, <3>2
    <3> QED BY <3>1, <3>2, <3>3 DEF CacheIInv, Contents, Agrees
  <2>5. CASE StoreTime(w)
    <3>1. job'[w].rules = job[w].rules
      BY <2>1, <2>5 DEF StoreTime, Return, NoJob
    <3>2. job[w].since <= job[w].selected /\ Agrees(job[w].rules, job[w].selected)
      BY <2>5 DEF StoreTime, CacheIInv, Lengths, Contents
    <3>3. changed[r] < job[w].selected
      BY <2>1, <2>2, <3>2
    <3> QED BY <3>1, <3>2, <3>3 DEF Agrees
  <2> QED BY <2>3, <2>4, <2>5
<1>2. CacheIInv /\ [CacheNext]_cacheVars => [A]_cacheVars
  BY <1>1
<1> QED BY <1>2, CacheEstablish, CachePreserve, PTL DEF CacheSpec, UpToDate

-----------------------------------------------------------------------------
(* Refinement *)

LEMMA StepRefines == ASSUME [Next]_vars PROVE [CacheNext]_cacheVars
<1> USE DEF CacheNext, Step, cacheVars, table,
        globals, cacheVars
<1>1. ASSUME NEW w \in Workers, Load(w) \/ Conclude(w)
      PROVE  CacheNext
  BY <1>1 DEF Load, Conclude
<1>2. ASSUME NEW w \in Workers, NEW r \in Requests, Answer(w, r) \/ Ask(w, r)
      PROVE  [CacheNext]_cacheVars
  <2>1. CASE Answer(w, r)
    BY <2>1 DEF Answer
  <2>2. CASE Ask(w, r)
    BY <2>2 DEF Ask
  <2> QED BY <1>2, <2>1, <2>2
<1>3. CASE UNCHANGED vars
  BY <1>3 DEF vars
<1> QED BY <1>1, <1>2, <1>3 DEF Next

\* The handler threads touch _rules_cache only by the actions of RuleCache.
LEMMA AnalyzerCache == Spec => CacheSpec
<1>1. Init => CacheInit
  BY DEF Init
<1>2. [Next]_vars => [CacheNext]_cacheVars
  BY StepRefines
<1> QED BY <1>1, <1>2, PTL DEF Spec, CacheSpec

\* However many threads load at once, and however long they take, the rules
\* get_active_rules_from_db returns are at most TTL and three calls old.
THEOREM UpToDateHolds == Spec => UpToDate
<1> QED BY AnalyzerCache, CacheUpToDate, PTL

-----------------------------------------------------------------------------
(* The invariant *)

\* Only a request without a built-in finding waits for the rules.
Unflagged == \A w \in Workers : req[w].stage = "asking" => Hits(req[w].fields) = {}

Waits == \A w \in Workers : req[w].stage = "asking" <=> Busy(w)

IInv == req \in [Workers -> Asked] /\ Waits /\ Unflagged

LEMMA FirstHit == ASSUME NEW r, Hits(r) # {} PROVE Min(Hits(r)) \in Hits(r)
<1>1. Hits(r) \subseteq 1..4
  BY DEF Hits
<1>2. \E i \in Hits(r) : \A k \in Hits(r) : i <= k
  <2>1. CASE 1 \in Hits(r)
    BY <1>1, <2>1
  <2>2. CASE 1 \notin Hits(r) /\ 2 \in Hits(r)
    BY <1>1, <2>2
  <2>3. CASE 1 \notin Hits(r) /\ 2 \notin Hits(r) /\ 3 \in Hits(r)
    BY <1>1, <2>3
  <2>4. CASE 1 \notin Hits(r) /\ 2 \notin Hits(r) /\ 3 \notin Hits(r)
    BY <1>1, <2>4
  <2> QED BY <2>1, <2>2, <2>3, <2>4
<1> QED BY <1>2 DEF Min

\* A built-in check or a rule gives a verdict of its kind.
LEMMA VerdictTypes ==
    /\ Pending \in Verdict
    /\ \A r : Hits(r) # {} => Builtin(Min(Hits(r))) \in Verdict
    /\ \A r : \A rules \in SUBSET Valid : RuleVerdicts(r, rules) \subseteq Verdict
<1>1. Pending \in Verdict /\ Safe \in Verdict
  BY DEF Pending, Safe, Verdict
<1>2. ASSUME NEW r, Hits(r) # {} PROVE Builtin(Min(Hits(r))) \in Verdict
  <2>1. Min(Hits(r)) \in 1..4
    BY <1>2, FirstHit DEF Hits
  <2> QED BY <2>1 DEF Builtin, Checks, Verdict
<1>3. ASSUME NEW r, NEW rules \in SUBSET Valid PROVE RuleVerdicts(r, rules) \subseteq Verdict
  <2>1. \A u \in Rules : ByRule(u) \in Verdict
    BY AnalyzerAssumption DEF ByRule, Verdict
  <2> QED BY <1>1, <2>1, CacheAssumption DEF RuleVerdicts, Matching
<1> QED BY <1>1, <1>2, <1>3

LEMMA Establish == Init /\ CacheTypeOK => IInv
  BY VerdictTypes DEF Init, IInv, Waits, Unflagged, Asked, CacheInit, NoJob,
     Busy

\* One thread's step leaves the others as they are.
LEMMA Preserve ==
    CacheTypeOK /\ CacheTypeOK' /\ IInv /\ [Next]_vars => IInv'
<1> SUFFICES ASSUME CacheTypeOK, CacheTypeOK', IInv, [Next]_vars PROVE IInv'
  OBVIOUS
<1>0. /\ req \in [Workers -> Asked] /\ Waits /\ Unflagged
      /\ job \in [Workers -> Job] /\ job' \in [Workers -> Job]
  BY DEF IInv, CacheTypeOK
<1>1. ASSUME NEW w \in Workers, NEW stage \in {"idle", "asking", "done"}, NEW v \in Verdict,
             NEW r \in Requests \cup {{}}, Become(w, stage, r, v),
             \A x \in Workers \ {w} : job'[x] = job[x],
             stage = "asking" <=> Busy(w)',
             stage = "asking" => Hits(r) = {}
      PROVE  IInv'
  <2>1. /\ req' \in [Workers -> Asked] /\ req'[w].stage = stage /\ req'[w].fields = r
        /\ \A x \in Workers \ {w} : req'[x] = req[x]
    BY <1>0, <1>1 DEF Become, Asked
  <2> QED BY <1>0, <1>1, <2>1 DEF IInv, Waits, Unflagged, Busy
<1>2. ASSUME NEW w \in Workers, Load(w) PROVE IInv'
  <2>1. /\ UNCHANGED req /\ \A x \in Workers : Busy(x)' <=> Busy(x)
    BY <1>0, <1>2 DEF Load, CheckAge, Select, StoreRules,
       Goto, Busy, Job
  <2> QED BY <1>0, <2>1 DEF IInv, Waits, Unflagged
<1>3. ASSUME NEW w \in Workers, Conclude(w) PROVE IInv'
  <2>1. /\ \A x \in Workers \ {w} : job'[x] = job[x]
        /\ ~Busy(w)'
    <3>1. ASSUME NEW rules, Return(w, rules)
          PROVE  (\A x \in Workers \ {w} : job'[x] = job[x]) /\ ~Busy(w)'
      BY <1>0, <3>1 DEF Return, NoJob, Busy
    <3>2. CASE LoadFault(w)
      BY <1>0, <3>2 DEF LoadFault, NoJob, Busy
    <3> QED BY <1>3, <3>1, <3>2 DEF Conclude, ReturnCache, StoreTime
  <2>2. job'[w].rules \in SUBSET Valid /\ req[w].fields \in Requests \cup {{}}
    BY <1>0 DEF Job, Asked
  <2>3. PICK v \in Verdict : Become(w, "done", req[w].fields, v)
    <3>1. PICK v \in RuleVerdicts(req[w].fields, job'[w].rules) :
                 Become(w, "done", req[w].fields, v)
      BY <1>3 DEF Conclude
    <3>2. v \in Verdict
      BY <2>2, <3>1, VerdictTypes
    <3> QED BY <3>1, <3>2
  <2> QED BY <1>1, <2>1, <2>2, <2>3
<1>4. ASSUME NEW w \in Workers, NEW r \in Requests, Answer(w, r) PROVE IInv'
  <2>1. /\ \A x \in Workers \ {w} : job'[x] = job[x]
        /\ ~Busy(w)' /\ Builtin(Min(Hits(r))) \in Verdict
        /\ Become(w, "done", r, Builtin(Min(Hits(r))))
    BY <1>0, <1>4, VerdictTypes DEF Answer, Waits, Busy, cacheVars
  <2> QED BY <1>1, <2>1
<1>5. ASSUME NEW w \in Workers, NEW r \in Requests, Ask(w, r) PROVE IInv'
  <2>1. /\ \A x \in Workers \ {w} : job'[x] = job[x]
        /\ Busy(w)' /\ Hits(r) = {} /\ Become(w, "asking", r, Pending)
    BY <1>0, <1>5 DEF Ask, Call, NoJob, Busy
  <2> QED BY <1>1, <2>1, VerdictTypes
<1>6. CASE UNCHANGED <<job, req>>
  BY <1>0, <1>6 DEF IInv, Waits, Unflagged, Busy
<1> QED BY <1>2, <1>3, <1>4, <1>5, <1>6 DEF Next, vars, cacheVars, Switch,
           Tick, globals

LEMMA Invariance == Spec => [](CacheTypeOK /\ IInv)
<1>1. Spec => []CacheTypeOK
  BY AnalyzerCache, CacheTypeCorrect, PTL
<1> QED BY <1>1, Establish, Preserve, PTL DEF Spec

\* The requests and verdicts of analyze_request have their types, and a request
\* waits exactly while its thread is in get_active_rules_from_db.
THEOREM TypeCorrect == Spec => []TypeOK
<1>1. CacheTypeOK /\ IInv => TypeOK
  BY DEF IInv, TypeOK, Waits
<1> QED BY <1>1, Invariance, PTL

-----------------------------------------------------------------------------
(* Verdicts *)

\* The staleness bound of the cache, in terms of this module.
Lagging ==
    \A w \in Workers, u \in Valid :
        /\ Busy(w) /\ job'[w].stage = "returned" /\ Settled(u)
        => (u \in job'[w].rules <=> u \in active)

LEMMA BoundedLag == Spec => [][Lagging]_cacheVars
<1> DEFINE A == \A w \in Workers, r \in Valid :
                   /\ Busy(w)
                   /\ job'[w].stage = "returned"
                   /\ changed[r] + TTL + 3 * slowest <= now
                   => (r \in job'[w].rules <=> r \in active)
<1>1. [A]_cacheVars => [Lagging]_cacheVars
  BY DEF Lagging, Settled
<1> QED BY UpToDateHolds, <1>1, PTL DEF UpToDate

\* What happens when a thread concludes: the rules it was given decide.
LEMMA Conclusion ==
    ASSUME CacheTypeOK, CacheTypeOK', IInv, [Next]_vars, NEW w \in Workers,
           Concludes(w)
    PROVE  /\ Busy(w) /\ Hits(req[w].fields) = {}
           /\ req'[w].fields = req[w].fields
           /\ req'[w].verdict \in RuleVerdicts(req[w].fields, job'[w].rules)
           /\ job'[w].stage = "returned" \/ job'[w].rules = {}
<1>1. /\ req \in [Workers -> Asked] /\ Waits /\ Unflagged
      /\ job \in [Workers -> Job]
  BY DEF IInv, CacheTypeOK
<1>2. Conclude(w)
  <2>1. ASSUME NEW x \in Workers, x # w,
               Conclude(x) \/ (\E r \in Requests : Answer(x, r) \/ Ask(x, r))
        PROVE  req'[w] = req[w]
    BY <1>1, <2>1 DEF Conclude, Answer, Ask, Become
  <2>2. ASSUME NEW r \in Requests, Answer(w, r) \/ Ask(w, r)
        PROVE  FALSE
    BY <2>2 DEF Answer, Ask, Concludes
  <2> QED BY <2>1, <2>2 DEF Next, Load, vars, Concludes
<1>3. req'[w].fields = req[w].fields /\ req'[w].verdict \in RuleVerdicts(req[w].fields, job'[w].rules)
  BY <1>1, <1>2 DEF Conclude, Become
<1>4. job'[w].stage = "returned" \/ job'[w].rules = {}
  <2>1. CASE LoadFault(w)
    BY <1>1, <2>1 DEF LoadFault, NoJob
  <2>2. ASSUME NEW rules, Return(w, rules) PROVE job'[w].stage = "returned"
    BY <1>1, <2>2 DEF Return, NoJob
  <2> QED BY <1>2, <2>1, <2>2 DEF Conclude, ReturnCache, StoreTime
<1> QED BY <1>1, <1>3, <1>4 DEF Concludes, Waits, Unflagged

\* A string of a request is within its limits exactly if anomalies.check lets
\* it pass.
LEMMA Limits ==
    ASSUME NEW f \in Field, f.place \in {"query", "header"}
    PROVE  (TooLong(f) \/ Dense(f))
           <=> ~ /\ f.place = "query" => f.length <= MAX_PARAM_LENGTH
                 /\ f.place = "header" => f.length <= MAX_HEADER_LENGTH
                 /\ 100 * f.special > SPECIAL_CHAR_RATIO * f.length
                    => f.length < MIN_LEN_FOR_RATIO
<1>1. f.length \in Nat /\ MAX_PARAM_LENGTH \in Nat /\ MAX_HEADER_LENGTH \in Nat
      /\ MIN_LEN_FOR_RATIO \in Nat
  BY AnalyzerAssumption DEF Field
<1>2. TooLong(f) <=> ~ /\ f.place = "query" => f.length <= MAX_PARAM_LENGTH
                       /\ f.place = "header" => f.length <= MAX_HEADER_LENGTH
  BY <1>1 DEF TooLong
<1> DEFINE many == 100 * f.special > SPECIAL_CHAR_RATIO * f.length
<1> HIDE DEF many
<1>3. Dense(f) <=> ~(many => f.length < MIN_LEN_FOR_RATIO)
  <2>1. Dense(f) <=> f.length >= MIN_LEN_FOR_RATIO /\ many
    BY DEF Dense, many
  <2> QED BY <1>1, <2>1
<1> QED BY <1>2, <1>3 DEF many

\* What it means that no built-in check finds anything.
LEMMA NoHit == ASSUME NEW r, Hits(r) = {}
               PROVE  ~Injected(r, "SQL_INJECTION") /\ ~Injected(r, "XSS")
                      /\ ~Traverses(r) /\ ~Anomalous(r)
<1>1. ~Finds(1, r) /\ ~Finds(2, r) /\ ~Finds(3, r) /\ ~Finds(4, r)
  BY DEF Hits
<1> QED BY <1>1 DEF Finds, Checks

\* Without a hit every string is clean ...
LEMMA Unhit ==
    ASSUME NEW r \in Requests, Hits(r) = {}, NEW f \in r
    PROVE  Clean(f)
<1>1. f \in Field
  BY AnalyzerAssumption
<1>2. f.place \in {"query", "header"} => ~TooLong(f) /\ ~Dense(f)
  BY NoHit DEF Anomalous
<1>3. /\ f.kind = "free" /\ f.place \in {"query", "header", "body"}
         => f.signs \subseteq {"PATH_TRAVERSAL"}
      /\ f.place \in {"path", "query"} => "PATH_TRAVERSAL" \notin f.signs
      /\ f.kind = "strict" => f.formed
  BY <1>1, NoHit DEF Field, Injected, Inspected, Malformed, Traverses
<1> QED BY <1>1, <1>2, <1>3, Limits DEF Clean

\* analyze_request calls a request safe only if nothing that it searches for is
\* in it, neither a built-in pattern nor a rule that get_active_rules_from_db
\* must know of by now.
THEOREM SafeIsCleanHolds == Spec => SafeIsClean
<1> DEFINE B == \A w \in Workers :
          Concludes(w) /\ req'[w].verdict.safe /\ job'[w].stage = "returned"
          => /\ \A f \in req[w].fields : Clean(f)
             /\ \A u \in Valid \cap active, f \in req[w].fields :
                   Settled(u) /\ u \in f.rules => f.place = "path" \/ f.kind = "opaque"
<1>1. ASSUME CacheTypeOK, CacheTypeOK', IInv, [Next]_vars, [Lagging]_cacheVars
      PROVE  B
  <2> SUFFICES ASSUME NEW w \in Workers, Concludes(w), req'[w].verdict.safe,
                      job'[w].stage = "returned", NEW f \in req[w].fields
               PROVE  /\ Clean(f)
                      /\ \A u \in Valid \cap active : Settled(u) /\ u \in f.rules
                            => f.place = "path" \/ f.kind = "opaque"
    OBVIOUS
  <2>1. /\ Busy(w) /\ Hits(req[w].fields) = {}
        /\ req'[w].verdict \in RuleVerdicts(req[w].fields, job'[w].rules)
    BY <1>1, Conclusion
  <2>2. req[w].fields \in Requests
    BY <1>1 DEF IInv, Asked
  <2>3. Matching(req[w].fields, job'[w].rules) = {}
    BY <2>1 DEF RuleVerdicts, ByRule
  <2>4. \A u \in Valid : Settled(u) => (u \in job'[w].rules <=> u \in active)
    BY <1>1, <2>1 DEF Lagging, cacheVars, Busy
  <2> QED BY <2>1, <2>2, <2>3, <2>4, Unhit DEF Matching
<1>2. CacheTypeOK /\ CacheTypeOK' /\ IInv /\ [Next]_vars /\ [Lagging]_cacheVars => [B]_vars
  BY <1>1
<1> QED BY <1>2, Invariance, BoundedLag, PTL DEF Spec, SafeIsClean

\* ... and clean strings are not hit.
LEMMA CleanPasses ==
    ASSUME NEW r \in Requests, \A f \in r : Clean(f)
    PROVE  Hits(r) = {}
<1>1. \A f \in r : f \in Field
  BY AnalyzerAssumption
<1>2. ~Injected(r, "SQL_INJECTION") /\ ~Injected(r, "XSS") /\ ~Traverses(r)
  BY <1>1 DEF Field, Clean, Injected, Inspected, Malformed, Traverses
<1>3. ~Anomalous(r)
  <2>1. ASSUME NEW f \in r, f.place \in {"query", "header"} PROVE ~TooLong(f) /\ ~Dense(f)
    BY <1>1, <2>1, Limits DEF Clean
  <2> QED BY <2>1 DEF Anomalous
<1>4. ASSUME NEW i \in 1..4 PROVE ~Finds(i, r)
  <2>1. i = 1 \/ i = 2 \/ i = 3 \/ i = 4
    OBVIOUS
  <2>2. Checks[1] = "SQL_INJECTION" /\ Checks[2] = "XSS"
    BY DEF Checks
  <2>3. CASE i \in {1, 2}
    <3>1. Finds(i, r) = Injected(r, Checks[i])
      BY <2>3 DEF Finds
    <3>2. CASE i = 1
      BY <1>2, <2>2, <3>1, <3>2
    <3>3. CASE i = 2
      BY <1>2, <2>2, <3>1, <3>3
    <3> QED BY <2>3, <3>2, <3>3
  <2>4. CASE i = 3
    BY <1>2, <2>4 DEF Finds
  <2>5. CASE i = 4
    BY <1>3, <2>5 DEF Finds
  <2> QED BY <2>1, <2>3, <2>4, <2>5
<1> QED BY <1>4 DEF Hits

\* analyze_request refuses clean text for a rule alone, which is in the text
\* and which get_active_rules_from_db need not know to be off.
THEOREM AlarmHasCauseHolds == Spec => AlarmHasCause
<1> DEFINE B == \A w \in Workers :
          /\ req'[w].stage = "done" /\ req'[w] # req[w]
          /\ ~req'[w].verdict.safe
          /\ \A f \in req'[w].fields : Clean(f)
          => LET u == req'[w].verdict.reason
             IN  /\ u \in Valid
                 /\ \E f \in req'[w].fields : u \in f.rules
                 /\ Settled(u) => u \in active
<1>1. ASSUME CacheTypeOK, CacheTypeOK', IInv, [Next]_vars, [Lagging]_cacheVars
      PROVE  B
  <2> SUFFICES ASSUME NEW w \in Workers, req'[w].stage = "done", req'[w] # req[w],
                      ~req'[w].verdict.safe, \A f \in req'[w].fields : Clean(f)
               PROVE  /\ req'[w].verdict.reason \in Valid
                      /\ \E f \in req'[w].fields : req'[w].verdict.reason \in f.rules
                      /\ Settled(req'[w].verdict.reason)
                         => req'[w].verdict.reason \in active
    OBVIOUS
  <2>0. req \in [Workers -> Asked] /\ job' \in [Workers -> Job]
    BY <1>1 DEF IInv, CacheTypeOK
  <2>1. Concludes(w)
    <3>1. ASSUME NEW x \in Workers, x # w,
                 Conclude(x) \/ (\E r \in Requests : Answer(x, r) \/ Ask(x, r))
          PROVE  req'[w] = req[w]
      BY <2>0, <3>1 DEF Conclude, Answer, Ask, Become
    <3>2. ASSUME NEW r \in Requests, Answer(w, r)
          PROVE  FALSE
      <4>1. req'[w].fields = r /\ Hits(r) # {}
        BY <2>0, <3>2 DEF Answer, Become
      <4> QED BY <4>1, CleanPasses
    <3>3. ASSUME NEW r \in Requests, Ask(w, r)
          PROVE  FALSE
      BY <2>0, <3>3 DEF Ask, Become
    <3>4. Conclude(w)
      BY <1>1, <3>1, <3>2, <3>3 DEF Next, Load, vars
    <3> QED BY <3>4 DEF Conclude, Concludes
  <2>2. /\ Busy(w) /\ req'[w].fields = req[w].fields
        /\ req'[w].verdict \in RuleVerdicts(req[w].fields, job'[w].rules)
        /\ job'[w].stage = "returned" \/ job'[w].rules = {}
    BY <1>1, <2>1, Conclusion
  <2>3. PICK u \in Matching(req[w].fields, job'[w].rules) : req'[w].verdict = ByRule(u)
    BY <2>2 DEF RuleVerdicts, Safe
  <2>4. /\ u \in job'[w].rules /\ (\E f \in req[w].fields : u \in f.rules)
        /\ req'[w].verdict.reason = u
    BY <2>3 DEF Matching, ByRule
  <2>5. u \in Valid
    BY <2>0, <2>4 DEF Job
  <2>6. Settled(u) => u \in active
    BY <1>1, <2>2, <2>4, <2>5 DEF Lagging, cacheVars, Busy
  <2> QED BY <2>2, <2>4, <2>5, <2>6
<1>2. CacheTypeOK /\ CacheTypeOK' /\ IInv /\ [Next]_vars /\ [Lagging]_cacheVars => [B]_vars
  BY <1>1
<1> QED BY <1>2, Invariance, BoundedLag, PTL DEF Spec, AlarmHasCause
=============================================================================
