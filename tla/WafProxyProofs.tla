--------------------------- MODULE WafProxyProofs ---------------------------
(***************************************************************************)
(* Proofs about the ban functions and the request pipeline around them,    *)
(* for any number of handlers, sites and addresses: AutoBan keeps its      *)
(* invariants and implements BanPolicy; the pipeline drives it only as     *)
(* AutoBan allows, keeps attacks from a protected backend, leaves a record *)
(* of each attack, and logs and counts every request it analysed.          *)
(***************************************************************************)
EXTENDS WafProxy, FiniteSetTheorems, TLAPS

-----------------------------------------------------------------------------
(* The inductive invariant *)

\* What a thread knows of its transaction: it did not start in the future, and
\* the site id it read belongs to the domain asked for.
JobsOK ==
    \A w \in Workers :
        /\ job[w].now <= now
        /\ job[w].stage # "idle" => job[w].domain \in Domains /\ job[w].ip \in Ips
        /\ job[w].stage \in {"recording", "counting", "selecting", "inserting"}
           => job[w].site \in Sites /\ DomainOf[job[w].site] = job[w].domain

\* A count a thread is about to act on is still backed by the rows it counted,
\* unless the site went with them.
CountsOK ==
    \A w \in Workers :
        job[w].stage \in {"selecting", "inserting"} /\ job[w].site \in sites
        => /\ job[w].count >= Threshold
           /\ Cardinality(Attacks(job[w].site, job[w].ip, job[w].now))
                 >= job[w].count

BanTypeInv == BanTypeOK /\ IsFiniteSet(attempts) /\ JobsOK

\* The thread j is with a request of i for d, whose attack, if it is one, will
\* be recorded ...
Arriving(j, d, i) ==
    /\ j.stage \in {"admitted", "recording"}
    /\ j.domain = d
    /\ j.ip = i

\* ... or has recorded it and still has to check the address.
Owes(j, d, i) ==
    /\ j.stage \in {"checking", "counting", "selecting", "inserting"}
    /\ j.domain = d
    /\ j.ip = i

Arrivals(d, i) == {w \in Workers : Arriving(job[w], d, i)}
Owing(d, i) == {w \in Workers : Owes(job[w], d, i)}

\* Before the ban, each attack from the Threshold-th on has a thread that owes
\* its check; after it, only those that had passed the ban check can add one.
FewOnRecord ==
    \A s \in Sites, i \in Ips :
        /\ SoleSite(s)
        /\ <<DomainOf[s], i>> \notin faulty
        /\ \A b \in BanRow(s, i) : Active(b, now)
        => LET n == Cardinality(Attacks(s, i, now))
           IN  IF BanRow(s, i) = {}
               THEN n < Threshold + Cardinality(Owing(DomainOf[s], i))
               ELSE n + Cardinality(Arrivals(DomainOf[s], i))
                       < Threshold + Cardinality(Workers)

BanInv == BanTypeInv /\ CountsOK /\ BanJustified /\ NoMissedBan /\ FewOnRecord

-----------------------------------------------------------------------------
(* Types *)

LEMMA BanTypeInit == BanInit => BanTypeInv
<1> SUFFICES ASSUME BanInit PROVE BanTypeInv
  OBVIOUS
<1>1. BanTypeOK
  BY BanAssumption DEF BanInit, BanTypeOK, Job, NoJob, BanStage
<1>2. IsFiniteSet(attempts)
  BY FS_EmptySet DEF BanInit
<1>3. JobsOK
  BY DEF BanInit, JobsOK, NoJob
<1> QED BY <1>1, <1>2, <1>3 DEF BanTypeInv

LEMMA BanTypeStep == BanTypeInv /\ [BanNext]_banVars => BanTypeInv'
<1> SUFFICES ASSUME BanTypeInv, [BanNext]_banVars PROVE BanTypeInv'
  OBVIOUS
<1> USE BanAssumption DEF BanTypeInv
<1>1. ASSUME NEW w \in Workers, NEW d \in Domains, NEW i \in Ips,
             Admit(w, d, i) \/ AdmitOnFault(w, d, i)
      PROVE  BanTypeInv'
  <2>1. BanTypeOK'
    BY <1>1 DEF BanTypeOK, Admit, AdmitOnFault, tables, Job, BanStage
  <2>2. IsFiniteSet(attempts)' /\ JobsOK'
    BY <1>1 DEF BanTypeOK, JobsOK, Admit, AdmitOnFault, tables, Job, BanStage
  <2> QED BY <2>1, <2>2
<1>2. ASSUME NEW w \in Workers, BeginAttempt(w) \/ BeginCheck(w)
      PROVE  BanTypeInv'
  <2>1. UNCHANGED <<now, tables, faulty>>
    BY <1>2 DEF BeginAttempt, BeginCheck
  <2>2. CASE \E s \in Lookup(job[w].domain), stage \in {"recording", "counting"} :
               job' = [job EXCEPT ![w].stage = stage, ![w].site = s, ![w].now = now]
    <3>1. job[w].stage # "idle"
      BY <1>2 DEF BeginAttempt, BeginCheck
    <3>2. PICK s \in Lookup(job[w].domain), stage \in {"recording", "counting"} :
               job' = [job EXCEPT ![w].stage = stage, ![w].site = s, ![w].now = now]
      BY <2>2
    <3>3. s \in Sites /\ now \in Nat /\ job[w] \in Job
      BY DEF BanTypeOK, Lookup
    <3>4. job'[w] = [job[w] EXCEPT !.stage = stage, !.site = s, !.now = now]
      BY <3>2 DEF BanTypeOK
    <3>5. job'[w] \in Job
      BY <3>3, <3>4 DEF Job, BanStage
    <3>6. job' \in [Workers -> Job]
      BY <3>2, <3>5 DEF BanTypeOK
    <3>7. JobsOK'
      BY <2>1, <2>2, <3>1 DEF BanTypeOK, JobsOK, Lookup, Job, BanStage
    <3> QED BY <2>1, <3>6, <3>7 DEF BanTypeOK, tables
  <2>3. CASE Goto(w, "checking") /\ job[w].stage = "admitted"
    BY <2>1, <2>3 DEF BanTypeOK, JobsOK, Goto, tables, Job, BanStage
  <2>4. CASE Return(w)
    BY <2>1, <2>4 DEF BanTypeOK, JobsOK, Return, NoJob, tables, Job, BanStage
  <2> QED BY <1>2, <2>2, <2>3, <2>4 DEF BeginAttempt, BeginCheck
<1>3. ASSUME NEW w \in Workers, CommitAttempt(w)
      PROVE  BanTypeInv'
  <2>1. BanTypeOK'
    BY <1>3 DEF BanTypeOK, JobsOK, CommitAttempt, SiteExists, Goto, tables, Job, BanStage
  <2>2. IsFiniteSet(attempts)'
    <3>1. attempts' = attempts \/ \E a : attempts' = attempts \cup {a}
      BY <1>3 DEF CommitAttempt
    <3> QED BY <3>1, FS_AddElement
  <2>3. JobsOK'
    BY <1>3 DEF BanTypeOK, JobsOK, CommitAttempt, Goto, Job, BanStage
  <2> QED BY <2>1, <2>2, <2>3
<1>4. ASSUME NEW w \in Workers, CountAttacks(w)
      PROVE  BanTypeInv'
  <2> DEFINE n == Cardinality(Attacks(job[w].site, job[w].ip, job[w].now))
  <2>1. n \in Nat
    BY FS_Subset, FS_CardinalityType DEF Attacks
  <2>2. BanTypeOK'
    BY <1>4, <2>1 DEF BanTypeOK, CountAttacks, Return, NoJob, tables, Job, BanStage
  <2>3. IsFiniteSet(attempts)' /\ JobsOK'
    BY <1>4 DEF BanTypeOK, JobsOK, CountAttacks, Return, NoJob, tables, Job, BanStage
  <2> QED BY <2>2, <2>3
<1>5. ASSUME NEW w \in Workers, SelectBan(w) \/ InsertBan(w)
      PROVE  BanTypeInv'
  <2>1. BanTypeOK'
    BY <1>5 DEF BanTypeOK, JobsOK, SelectBan, InsertBan, Refused, SiteExists, Goto,
                Return, NoJob, tables, Job, BanStage
  <2>2. IsFiniteSet(attempts)' /\ JobsOK'
    BY <1>5 DEF BanTypeOK, JobsOK, SelectBan, InsertBan, Goto, Return, NoJob,
                tables, Job, BanStage
  <2> QED BY <2>1, <2>2
<1>6. ASSUME NEW w \in Workers, DbFault(w) \/ Spare(w)
      PROVE  BanTypeInv'
  <2>1. BanTypeOK'
    BY <1>6 DEF BanTypeOK, JobsOK, DbFault, Spare, Goto, Return, NoJob, tables, Job, BanStage
  <2>2. IsFiniteSet(attempts)' /\ JobsOK'
    BY <1>6 DEF BanTypeOK, JobsOK, DbFault, Spare, Goto, Return, NoJob, tables, Job, BanStage
  <2> QED BY <2>1, <2>2
<1>7. ASSUME NEW s \in Sites, DeleteSite(s)
      PROVE  BanTypeInv'
  <2>1. BanTypeOK' /\ JobsOK'
    BY <1>7 DEF BanTypeOK, JobsOK, DeleteSite
  <2>2. IsFiniteSet(attempts)'
    BY <1>7, FS_Subset DEF DeleteSite
  <2> QED BY <2>1, <2>2
<1>8. CASE Tick
  BY <1>8 DEF BanTypeOK, JobsOK, Tick, tables, Job
<1>9. CASE UNCHANGED banVars
  BY <1>9 DEF BanTypeOK, JobsOK, banVars, tables
<1> QED
  BY <1>1, <1>2, <1>3, <1>4, <1>5, <1>6, <1>7, <1>8, <1>9 DEF BanNext, Handle

-----------------------------------------------------------------------------
(* Attacks on record *)

\* A subset of the attacks is no larger.
LEMMA Fewer ==
    ASSUME NEW A, NEW B, IsFiniteSet(B), A \subseteq B
    PROVE  /\ Cardinality(A) \in Nat
           /\ Cardinality(B) \in Nat
           /\ Cardinality(A) <= Cardinality(B)
BY FS_Subset, FS_CardinalityType

\* No step takes away the attacks on a site that stays, and no site returns.
LEMMA RowsStay ==
    ASSUME BanTypeInv, [BanNext]_banVars
    PROVE  /\ sites' \subseteq sites
           /\ \A a \in attempts : a.site \in sites' => a \in attempts'
<1> USE DEF tables
<1>1. ASSUME NEW w \in Workers, CommitAttempt(w)
      PROVE  sites' = sites /\ attempts \subseteq attempts'
  BY <1>1 DEF CommitAttempt
<1>2. ASSUME NEW s \in Sites, DeleteSite(s)
      PROVE  sites' = sites \ {s} /\ attempts' = {a \in attempts : a.site # s}
  BY <1>2 DEF DeleteSite
<1> QED
  BY <1>1, <1>2 DEF BanNext, Handle, Admit, AdmitOnFault, Spare, BeginAttempt, BeginCheck,
     CountAttacks, SelectBan, InsertBan, DbFault, Tick, banVars

\* Attacks as a function of the table, for statements about two states.
RowsOf(table, s, i, t) ==
    {a \in table : a.site = s /\ a.ip = i /\ a.timestamp > t - Window}

LEMMA AttacksStay ==
    ASSUME BanTypeInv, [BanNext]_banVars, NEW s \in sites', NEW i, NEW t
    PROVE  /\ Cardinality(RowsOf(attempts, s, i, t)) \in Nat
           /\ Cardinality(RowsOf(attempts', s, i, t)) \in Nat
           /\ Cardinality(RowsOf(attempts, s, i, t))
                 <= Cardinality(RowsOf(attempts', s, i, t))
<1>1. IsFiniteSet(attempts')
  BY BanTypeStep DEF BanTypeInv
<1>2. RowsOf(attempts, s, i, t) \subseteq RowsOf(attempts', s, i, t)
  BY RowsStay DEF RowsOf
<1>3. IsFiniteSet(RowsOf(attempts', s, i, t))
  BY <1>1, FS_Subset DEF RowsOf
<1> QED BY <1>2, <1>3, Fewer

-----------------------------------------------------------------------------
(* The counts, and the bans entered on their strength *)

\* A thread reaches or keeps a stage where its count matters in three ways.
LEMMA Deciding ==
    ASSUME BanTypeInv, [BanNext]_banVars, NEW w \in Workers,
           job'[w].stage \in {"selecting", "inserting"}
    PROVE  job'[w] = job[w] \/ CountAttacks(w) \/ SelectBan(w)
<1> USE DEF BanTypeInv, BanTypeOK, Job
<1>1. ASSUME NEW v \in Workers, NEW d \in Domains, NEW i \in Ips,
             Admit(v, d, i) \/ AdmitOnFault(v, d, i)
      PROVE  job'[w] = job[w]
  BY <1>1 DEF Admit, AdmitOnFault
<1>2. ASSUME NEW v \in Workers, BeginAttempt(v) \/ CommitAttempt(v) \/ BeginCheck(v)
      PROVE  job'[w] = job[w]
  <2>1. CASE \E s \in Lookup(job[v].domain), stage \in {"recording", "counting"} :
               job' = [job EXCEPT ![v].stage = stage, ![v].site = s, ![v].now = now]
    BY <2>1
  <2>2. CASE Goto(v, "checking") \/ Return(v)
    BY <2>2 DEF Goto, Return, NoJob
  <2> QED BY <1>2, <2>1, <2>2 DEF BeginAttempt, CommitAttempt, BeginCheck
<1>3. ASSUME NEW v \in Workers, v # w, CountAttacks(v) \/ SelectBan(v)
      PROVE  job'[w] = job[w]
  BY <1>3 DEF CountAttacks, SelectBan, Goto, Return
<1>4. ASSUME NEW v \in Workers, InsertBan(v) \/ DbFault(v) \/ Spare(v)
      PROVE  job'[w] = job[w]
  BY <1>4 DEF InsertBan, DbFault, Spare, Goto, Return, NoJob
<1>5. ASSUME (\E s \in Sites : DeleteSite(s)) \/ Tick \/ UNCHANGED banVars
      PROVE  job'[w] = job[w]
  BY <1>5 DEF DeleteSite, Tick, banVars
<1> QED BY <1>1, <1>2, <1>3, <1>4, <1>5 DEF BanNext, Handle

LEMMA CountsStep == BanTypeInv /\ CountsOK /\ [BanNext]_banVars => CountsOK'
<1> SUFFICES ASSUME BanTypeInv, CountsOK, [BanNext]_banVars, NEW w \in Workers,
                    job'[w].stage \in {"selecting", "inserting"},
                    job'[w].site \in sites'
             PROVE  /\ job'[w].count >= Threshold
                    /\ Cardinality(RowsOf(attempts', job'[w].site, job'[w].ip,
                                          job'[w].now)) >= job'[w].count
  BY DEF CountsOK, Attacks, RowsOf
<1> DEFINE j == job[w]
           n == Cardinality(RowsOf(attempts, j.site, j.ip, j.now))
<1>1. sites' \subseteq sites /\ job'[w].count \in Nat /\ job \in [Workers -> Job]
  BY RowsStay, BanTypeStep DEF BanTypeInv, BanTypeOK, Job
<1>2. CASE CountAttacks(w)
  <2>1. attempts' = attempts
    BY <1>2 DEF CountAttacks, tables
  <2>2. Reached(n)
    BY <1>1, <1>2 DEF CountAttacks, Attacks, RowsOf, Return, NoJob
  <2>3. job'[w] = [j EXCEPT !.stage = "selecting", !.count = n]
    BY <1>1, <1>2, <2>2 DEF CountAttacks, Attacks, RowsOf
  <2>4. n \in Nat /\ j \in Job
    BY <1>1, Fewer, FS_Subset DEF RowsOf, BanTypeInv
  <2> QED BY <2>1, <2>2, <2>3, <2>4, BanAssumption DEF Reached, Job
<1>3. CASE job'[w] = j \/ SelectBan(w)
  <2>1. job'[w] = j \/ (j.stage = "selecting" /\ job'[w] = [j EXCEPT !.stage = "inserting"])
    BY <1>1, <1>3 DEF SelectBan, Goto, Return, NoJob
  <2>2. /\ j.stage \in {"selecting", "inserting"} /\ j.count \in Nat
        /\ job'[w].site = j.site /\ job'[w].ip = j.ip
        /\ job'[w].now = j.now /\ job'[w].count = j.count
    BY <1>1, <2>1 DEF Job
  <2>3. j.count >= Threshold /\ n >= j.count
    BY <1>1, <2>2 DEF CountsOK, Attacks, RowsOf
  <2>4. /\ n \in Nat
        /\ Cardinality(RowsOf(attempts', j.site, j.ip, j.now)) \in Nat
        /\ n <= Cardinality(RowsOf(attempts', j.site, j.ip, j.now))
    BY <2>2, AttacksStay
  <2> QED BY <2>2, <2>3, <2>4
<1> QED BY <1>2, <1>3, Deciding

LEMMA JustifiedStep ==
    BanTypeInv /\ CountsOK /\ BanJustified /\ [BanNext]_banVars => BanJustified'
<1> SUFFICES ASSUME BanTypeInv, CountsOK, BanJustified, [BanNext]_banVars, NEW b \in bans'
             PROVE  /\ b.attack_count >= Threshold
                    /\ Cardinality(RowsOf(attempts', b.site, b.ip, b.banned_at))
                          >= b.attack_count
  BY DEF BanJustified, Attacks, RowsOf
<1>1. b.site \in sites' /\ b.attack_count \in Nat
  BY BanTypeStep DEF BanTypeInv, BanTypeOK
<1>2. /\ Cardinality(RowsOf(attempts, b.site, b.ip, b.banned_at)) \in Nat
      /\ Cardinality(RowsOf(attempts', b.site, b.ip, b.banned_at)) \in Nat
      /\ Cardinality(RowsOf(attempts, b.site, b.ip, b.banned_at))
            <= Cardinality(RowsOf(attempts', b.site, b.ip, b.banned_at))
  BY <1>1, AttacksStay
<1>3. CASE b \in bans
  BY <1>1, <1>2, <1>3 DEF BanJustified, Attacks, RowsOf
<1>4. ASSUME NEW w \in Workers, InsertBan(w), b \notin bans
      PROVE  /\ b.attack_count >= Threshold
             /\ Cardinality(RowsOf(attempts, b.site, b.ip, b.banned_at))
                   >= b.attack_count
  <2>1. /\ job[w].stage = "inserting" /\ job[w].site \in sites
        /\ b.site = job[w].site /\ b.ip = job[w].ip
        /\ b.banned_at = job[w].now /\ b.attack_count = job[w].count
    BY <1>4 DEF InsertBan, Refused, SiteExists
  <2> QED BY <2>1 DEF CountsOK, Attacks, RowsOf
<1>5. b \in bans \/ \E w \in Workers : InsertBan(w)
  BY DEF BanNext, Handle, Admit, AdmitOnFault, Spare, BeginAttempt, CommitAttempt, BeginCheck,
     CountAttacks, SelectBan, DbFault, DeleteSite, Tick, banVars, tables
<1> QED BY <1>1, <1>2, <1>3, <1>4, <1>5

-----------------------------------------------------------------------------
(* No attack escapes the count *)

\* A thread that owes a check either still owes it after a step, or finds too
\* few attacks, or sees a ban row there, or fails with a database error.
LEMMA Discharge ==
    ASSUME BanTypeInv, [BanNext]_banVars,
           NEW s \in sites, SoleSite(s), NEW i \in Ips, NEW w \in Workers,
           Owes(job[w], DomainOf[s], i)
    PROVE  \/ Owes(job'[w], DomainOf[s], i)
           \/ /\ attempts' = attempts /\ now' = now
              /\ ~(Cardinality(RowsOf(attempts, s, i, job[w].now)) >= Threshold)
           \/ s \in sites' => \E b \in bans' : b.site = s /\ b.ip = i
           \/ <<DomainOf[s], i>> \in faulty'
<1> DEFINE j == job[w]
<1>1. job \in [Workers -> Job] /\ s \in Sites /\ sites \subseteq Sites
  BY DEF BanTypeInv, BanTypeOK
<1>2. j.stage \in {"counting", "selecting", "inserting"} => j.site = s
  BY <1>1 DEF BanTypeInv, JobsOK, SoleSite, Owes
<1>3. CASE job'[w] = j
  BY <1>3 DEF Owes
<1>4. CASE BeginCheck(w)
  <2>1. s \in Lookup(j.domain)
    BY DEF Lookup, Owes
  <2>2. PICK r \in Lookup(j.domain) :
           job' = [job EXCEPT ![w].stage = "counting", ![w].site = r, ![w].now = now]
    BY <1>4, <2>1 DEF BeginCheck
  <2>3. /\ job'[w].stage = "counting" /\ job'[w].domain = j.domain
        /\ job'[w].ip = j.ip
    BY <1>1, <2>2 DEF Job
  <2> QED BY <2>3 DEF Owes
<1>5. CASE CountAttacks(w)
  <2>1. j.site = s /\ j.ip = i
    BY <1>2, <1>5 DEF CountAttacks, Owes
  <2>2. CASE Reached(Cardinality(Attacks(j.site, j.ip, j.now)))
    BY <1>1, <1>5, <2>2 DEF CountAttacks, Owes, Job
  <2>3. CASE ~Reached(Cardinality(Attacks(j.site, j.ip, j.now)))
    BY <1>5, <2>1, <2>3 DEF CountAttacks, Reached, Attacks, RowsOf, tables
  <2> QED BY <2>2, <2>3
<1>6. CASE SelectBan(w)
  <2>1. j.site = s /\ j.ip = i
    BY <1>2, <1>6 DEF SelectBan, Owes
  <2>2. CASE \E b \in BanRow(j.site, j.ip) : Active(b, j.now)
    BY <1>6, <2>1, <2>2 DEF SelectBan, BanRow, tables
  <2>3. CASE Goto(w, "inserting")
    BY <1>1, <2>3 DEF Goto, Owes, Job
  <2> QED BY <1>6, <2>2, <2>3 DEF SelectBan
<1>7. CASE InsertBan(w)
  <2>1. j.site = s /\ j.ip = i
    BY <1>2, <1>7 DEF InsertBan, Owes
  <2>2. CASE Refused(j.site, j.ip)
    BY <1>7, <2>1, <2>2 DEF InsertBan, Refused, SiteExists, BanRow
  <2>3. CASE ~Refused(j.site, j.ip)
    <3> DEFINE b == [site |-> j.site, ip |-> j.ip, banned_at |-> j.now,
                     expires_at |-> j.now + BanTime, attack_count |-> j.count]
    <3>1. b \in bans'
      BY <1>7, <2>3 DEF InsertBan
    <3> QED BY <2>1, <3>1
  <2> QED BY <2>2, <2>3
<1>8. CASE DbFault(w)
  BY <1>8 DEF DbFault, Owes
<1>9. \/ job'[w] = j
      \/ BeginCheck(w) \/ CountAttacks(w) \/ SelectBan(w) \/ InsertBan(w)
      \/ DbFault(w)
  <2> USE <1>1
  <2>1. ASSUME NEW v \in Workers, NEW d \in Domains, NEW k \in Ips,
               Admit(v, d, k) \/ AdmitOnFault(v, d, k)
        PROVE  job'[w] = j
    BY <2>1 DEF Admit, AdmitOnFault, Owes
  <2>2. ASSUME NEW v \in Workers, Spare(v) \/ BeginAttempt(v) \/ CommitAttempt(v)
        PROVE  job'[w] = j
    <3>1. v # w
      BY <2>2 DEF Spare, BeginAttempt, CommitAttempt, Owes
    <3> QED BY <2>2, <3>1 DEF Spare, BeginAttempt, CommitAttempt, Goto, Return
  <2>3. ASSUME NEW v \in Workers, v # w,
               BeginCheck(v) \/ CountAttacks(v) \/ SelectBan(v)
                  \/ InsertBan(v) \/ DbFault(v)
        PROVE  job'[w] = j
    BY <2>3 DEF BeginCheck, CountAttacks, SelectBan, InsertBan, DbFault, Goto, Return
  <2>4. CASE (\E r \in Sites : DeleteSite(r)) \/ Tick \/ UNCHANGED banVars
    BY <2>4 DEF DeleteSite, Tick, banVars
  <2> QED BY <2>1, <2>2, <2>3, <2>4 DEF BanNext, Handle
<1> QED BY <1>3, <1>4, <1>5, <1>6, <1>7, <1>8, <1>9

LEMMA BansStay ==
    ASSUME BanTypeInv, [BanNext]_banVars
    PROVE  \A b \in bans : b.site \in sites' => b \in bans'
<1>1. ASSUME NEW s \in Sites, DeleteSite(s)
      PROVE  sites' = sites \ {s} /\ bans' = {b \in bans : b.site # s}
  BY <1>1 DEF DeleteSite
<1>2. ASSUME NEW w \in Workers, InsertBan(w)
      PROVE  bans \subseteq bans'
  BY <1>2 DEF InsertBan
<1> QED
  BY <1>1, <1>2 DEF BanNext, Handle, Admit, AdmitOnFault, Spare, BeginAttempt, CommitAttempt,
     BeginCheck, CountAttacks, SelectBan, DbFault, Tick, banVars, tables

\* The attacks of a window never become more, except by one, which a thread
\* commits that then owes the check.
LEMMA Recorded ==
    ASSUME BanTypeInv, [BanNext]_banVars, NEW s \in Sites, SoleSite(s), NEW i \in Ips
    PROVE  \/ RowsOf(attempts', s, i, now') \subseteq RowsOf(attempts, s, i, now)
           \/ \E w \in Workers : \E a :
                 /\ RowsOf(attempts', s, i, now') \subseteq RowsOf(attempts, s, i, now) \cup {a}
                 /\ Arriving(job[w], DomainOf[s], i)
                 /\ Owes(job'[w], DomainOf[s], i)
<1> USE DEF RowsOf
<1>1. ASSUME NEW w \in Workers, CommitAttempt(w), job[w].site = s, job[w].ip = i
      PROVE  /\ Arriving(job[w], DomainOf[s], i)
             /\ Owes(job'[w], DomainOf[s], i)
             /\ \E a : RowsOf(attempts', s, i, now')
                          \subseteq RowsOf(attempts, s, i, now) \cup {a}
  <2>1. Arriving(job[w], DomainOf[s], i) /\ Owes(job'[w], DomainOf[s], i)
    BY <1>1 DEF CommitAttempt, Goto, Arriving, Owes, BanTypeInv, BanTypeOK, JobsOK, Job
  <2>2. now' = now /\ \E a : attempts' \subseteq attempts \cup {a}
    BY <1>1 DEF CommitAttempt
  <2> QED BY <2>1, <2>2
<1>2. ASSUME NEW w \in Workers, CommitAttempt(w), ~(job[w].site = s /\ job[w].ip = i)
      PROVE  RowsOf(attempts', s, i, now') \subseteq RowsOf(attempts, s, i, now)
  BY <1>2 DEF CommitAttempt
<1>3. CASE Tick
  BY <1>3, BanAssumption DEF Tick, tables, BanTypeInv, BanTypeOK
<1>4. ASSUME NEW r \in Sites, DeleteSite(r)
      PROVE  RowsOf(attempts', s, i, now') \subseteq RowsOf(attempts, s, i, now)
  BY <1>4 DEF DeleteSite
<1>5. CASE UNCHANGED <<now, attempts>>
  BY <1>5
<1> HIDE DEF RowsOf
<1> QED
  BY <1>1, <1>2, <1>3, <1>4, <1>5 DEF BanNext, Handle, Admit, AdmitOnFault, Spare, BeginAttempt,
     BeginCheck, CountAttacks, SelectBan, InsertBan, DbFault, banVars, tables

LEMMA MissedStep == BanTypeInv /\ NoMissedBan /\ [BanNext]_banVars => NoMissedBan'
<1> SUFFICES ASSUME BanTypeInv, NoMissedBan, [BanNext]_banVars,
                    NEW s \in Sites, NEW i \in Ips, SoleSite(s),
                    <<DomainOf[s], i>> \notin faulty',
                    \A w \in Workers : ~Owes(job'[w], DomainOf[s], i),
                    Cardinality(RowsOf(attempts', s, i, now')) >= Threshold
             PROVE  \E b \in bans' : b.site = s /\ b.ip = i
  BY DEF NoMissedBan, Pending, SoleSite, BanRow, Attacks, RowsOf, Owes
<1> DEFINE before == RowsOf(attempts, s, i, now)
           after  == RowsOf(attempts', s, i, now')
<1>1. IsFiniteSet(before) /\ after \subseteq before
  BY Recorded, FS_Subset DEF BanTypeInv, RowsOf
<1>2. Cardinality(before) >= Threshold
  BY <1>1, Fewer, BanAssumption
<1>3. s \in sites' /\ s \in sites
  <2>1. after # {}
    BY FS_EmptySet, BanAssumption
  <2> QED BY <2>1, BanTypeStep, RowsStay DEF RowsOf, BanTypeInv, BanTypeOK
<1>4. CASE BanRow(s, i) # {}
  BY <1>3, <1>4, BansStay DEF BanRow
<1>5. CASE BanRow(s, i) = {}
  <2>1. <<DomainOf[s], i>> \notin faulty
    BY DEF BanNext, Handle, Admit, AdmitOnFault, Spare, BeginAttempt, CommitAttempt, BeginCheck,
       CountAttacks, SelectBan, InsertBan, DbFault, DeleteSite, Tick, banVars, tables
  <2>2. PICK w \in Workers : Owes(job[w], DomainOf[s], i)
    BY <1>2, <1>5, <2>1 DEF NoMissedBan, Pending, Attacks, RowsOf, Owes
  <2>3. CASE /\ attempts' = attempts /\ now' = now
             /\ ~(Cardinality(RowsOf(attempts, s, i, job[w].now)) >= Threshold)
    <3>1. before \subseteq RowsOf(attempts, s, i, job[w].now)
      BY BanAssumption DEF RowsOf, BanTypeInv, BanTypeOK, JobsOK, Job
    <3>2. IsFiniteSet(RowsOf(attempts, s, i, job[w].now))
      BY FS_Subset DEF RowsOf, BanTypeInv
    <3> QED BY <1>2, <2>3, <3>1, <3>2, Fewer, BanAssumption
  <2> QED BY <1>3, <2>2, <2>3, Discharge
<1> QED BY <1>4, <1>5

-----------------------------------------------------------------------------
(* Few attacks get past the ban *)

\* Who comes anew was not found banned, or the ban check failed.
LEMMA Admitted ==
    ASSUME BanTypeInv, [BanNext]_banVars, NEW d \in Domains, NEW i \in Ips,
           NEW w \in Workers, Arriving(job'[w], d, i)
    PROVE  Arriving(job[w], d, i) \/ ~IsBanned(d, i) \/ <<d, i>> \in faulty'
<1> USE DEF BanTypeInv, BanTypeOK, Job, Arriving
<1>1. ASSUME NEW v \in Workers, NEW e \in Domains, NEW k \in Ips, Admit(v, e, k)
      PROVE  Arriving(job[w], d, i) \/ ~IsBanned(d, i)
  BY <1>1 DEF Admit
<1>2. ASSUME NEW v \in Workers, NEW e \in Domains, NEW k \in Ips, AdmitOnFault(v, e, k)
      PROVE  Arriving(job[w], d, i) \/ <<d, i>> \in faulty'
  BY <1>2 DEF AdmitOnFault
<1>3. ASSUME NEW v \in Workers, BeginAttempt(v)
      PROVE  Arriving(job[w], d, i)
  <2>1. CASE \E s \in Lookup(job[v].domain) :
               job' = [job EXCEPT ![v].stage = "recording", ![v].site = s, ![v].now = now]
    <3>1. job'[w].domain = job[w].domain /\ job'[w].ip = job[w].ip
      BY <2>1
    <3>2. w = v \/ job'[w] = job[w]
      BY <2>1
    <3>3. job[v].stage = "admitted"
      BY <1>3 DEF BeginAttempt
    <3> QED BY <3>1, <3>2, <3>3
  <2>2. CASE Goto(v, "checking")
    BY <2>2 DEF Goto
  <2> QED BY <1>3, <2>1, <2>2 DEF BeginAttempt
<1>4. ASSUME NEW v \in Workers, BeginCheck(v)
      PROVE  Arriving(job[w], d, i)
  <2>1. CASE \E s \in Lookup(job[v].domain) :
               job' = [job EXCEPT ![v].stage = "counting", ![v].site = s, ![v].now = now]
    BY <2>1
  <2>2. CASE Return(v)
    BY <2>2 DEF Return, NoJob
  <2> QED BY <1>4, <2>1, <2>2 DEF BeginCheck
<1>5. ASSUME NEW v \in Workers, CommitAttempt(v) \/ CountAttacks(v) \/ SelectBan(v)
                                  \/ InsertBan(v) \/ DbFault(v) \/ Spare(v)
      PROVE  Arriving(job[w], d, i)
  BY <1>5 DEF CommitAttempt, CountAttacks, SelectBan, InsertBan, DbFault, Spare, Goto,
     Return, NoJob
<1>6. ASSUME (\E s \in Sites : DeleteSite(s)) \/ Tick \/ UNCHANGED banVars
      PROVE  Arriving(job[w], d, i)
  BY <1>6 DEF DeleteSite, Tick, banVars
<1> HIDE DEF Arriving
<1> QED BY <1>1, <1>2, <1>3, <1>4, <1>5, <1>6 DEF BanNext, Handle

\* A ban comes from the step that enters it, which records no attack and admits
\* nobody.
LEMMA Entered ==
    ASSUME BanTypeInv, [BanNext]_banVars, NEW s \in Sites, NEW i \in Ips, NEW d,
           BanRow(s, i) = {}, \E b \in bans' : b.site = s /\ b.ip = i
    PROVE  /\ attempts' = attempts /\ now' = now
           /\ \A w \in Workers : Arriving(job'[w], d, i) => Arriving(job[w], d, i)
<1>1. PICK w \in Workers : InsertBan(w)
  BY DEF BanRow, BanNext, Handle, Admit, AdmitOnFault, Spare, BeginAttempt, CommitAttempt,
     BeginCheck, CountAttacks, SelectBan, DbFault, DeleteSite, Tick, banVars, tables
<1> QED BY <1>1 DEF InsertBan, Return, NoJob, Arriving, BanTypeInv, BanTypeOK

LEMMA FewStep == BanTypeInv /\ FewOnRecord /\ [BanNext]_banVars => FewOnRecord'
<1> SUFFICES ASSUME BanTypeInv, FewOnRecord, [BanNext]_banVars,
                    NEW s \in Sites, NEW i \in Ips, SoleSite(s),
                    <<DomainOf[s], i>> \notin faulty',
                    \A b \in BanRow(s, i)' : Active(b, now')
             PROVE  LET n == Cardinality(RowsOf(attempts', s, i, now'))
                    IN  IF BanRow(s, i)' = {}
                        THEN n < Threshold + Cardinality(Owing(DomainOf[s], i)')
                        ELSE n + Cardinality(Arrivals(DomainOf[s], i)')
                                < Threshold + Cardinality(Workers)
  BY DEF FewOnRecord, SoleSite, Attacks, RowsOf
<1> DEFINE d == DomainOf[s]
           R == RowsOf(attempts, s, i, now)
           Q == RowsOf(attempts', s, i, now')
           O == Owing(d, i)
           P == Owing(d, i)'
           A == Arrivals(d, i)
           B == Arrivals(d, i)'
\* What is counted.
<1>1. /\ IsFiniteSet(R) /\ Cardinality(R) \in Nat
      /\ IsFiniteSet(Q) /\ Cardinality(Q) \in Nat
  BY BanTypeStep, FS_Subset, FS_CardinalityType DEF BanTypeInv, RowsOf
<1>2. /\ O \subseteq Workers /\ IsFiniteSet(O) /\ Cardinality(O) \in Nat
      /\ P \subseteq Workers /\ IsFiniteSet(P) /\ Cardinality(P) \in Nat
      /\ A \subseteq Workers /\ IsFiniteSet(A) /\ Cardinality(A) \in Nat
      /\ B \subseteq Workers /\ IsFiniteSet(B) /\ Cardinality(B) \in Nat
      /\ Cardinality(Workers) \in Nat /\ Cardinality(B) <= Cardinality(Workers)
  <2>1. O \subseteq Workers /\ P \subseteq Workers /\ A \subseteq Workers /\ B \subseteq Workers
    BY DEF Owing, Arrivals
  <2> QED BY <2>1, FS_Subset, FS_CardinalityType, BanAssumption
<1>3. Threshold \in Nat \ {0} /\ d \in Domains
  BY BanAssumption
<1> HIDE DEF d, R, Q, O, P, A, B
<1>4. CASE s \notin sites'
  <2>1. Q = {}
    BY <1>4, BanTypeStep DEF Q, RowsOf, BanTypeInv, BanTypeOK
  <2>2. BanRow(s, i)' = {}
    BY <1>4, BanTypeStep DEF BanRow, BanTypeInv, BanTypeOK
  <2> QED BY <1>2, <1>3, <2>1, <2>2, FS_EmptySet DEF Q, P, d
<1>5. CASE s \in sites'
  <2>1. s \in sites /\ BanRow(s, i) \subseteq BanRow(s, i)'
    BY <1>5, RowsStay, BansStay DEF BanRow
  <2>2. <<d, i>> \notin faulty
    BY DEF d, BanNext, Handle, Admit, AdmitOnFault, Spare, BeginAttempt, CommitAttempt,
       BeginCheck, CountAttacks, SelectBan, InsertBan, DbFault, DeleteSite, Tick, banVars, tables
  <2>3. \A b \in BanRow(s, i) : Active(b, now)
    <3>1. now \in Nat /\ now' \in Nat /\ now <= now'
      <4>1. now' = now \/ now' = now + 1
        BY DEF BanNext, Handle, Admit, AdmitOnFault, Spare, BeginAttempt, CommitAttempt,
           BeginCheck, CountAttacks, SelectBan, InsertBan, DbFault, DeleteSite, Tick, banVars,
           tables
      <4>2. now \in Nat
        BY BanAssumption DEF BanTypeInv, BanTypeOK
      <4> QED BY <4>1, <4>2
    <3> QED BY <2>1, <3>1 DEF Active, BanRow, BanTypeInv, BanTypeOK
  <2>4. IF BanRow(s, i) = {}
        THEN Cardinality(R) < Threshold + Cardinality(O)
        ELSE Cardinality(R) + Cardinality(A) < Threshold + Cardinality(Workers)
    BY <2>2, <2>3 DEF FewOnRecord, R, O, A, d, Attacks, RowsOf
  \* At most one attack is added, by a thread that changes over.
  <2>5. \/ Q \subseteq R /\ Cardinality(Q) <= Cardinality(R)
        \/ /\ Cardinality(Q) <= Cardinality(R) + 1
           /\ \E w \in Workers : w \in A \ O /\ w \in P \ B
    <3>1. CASE Q \subseteq R
      BY <1>1, <3>1, Fewer
    <3>2. ASSUME NEW w \in Workers, NEW a, Q \subseteq R \cup {a},
                 Arriving(job[w], d, i), Owes(job'[w], d, i)
          PROVE  Cardinality(Q) <= Cardinality(R) + 1 /\ w \in A \ O /\ w \in P \ B
      <4>1. IsFiniteSet(R \cup {a}) /\ Cardinality(R \cup {a}) <= Cardinality(R) + 1
        <5>1. IsFiniteSet(R)
          BY <1>1
        <5>2. /\ IsFiniteSet(R \cup {a})
              /\ Cardinality(R \cup {a}) =
                   IF a \in R THEN Cardinality(R) ELSE Cardinality(R) + 1
          BY <5>1, FS_AddElement, Zenon
        <5> QED BY <1>1, <5>2
      <4>2. Cardinality(Q) <= Cardinality(R \cup {a}) /\ Cardinality(R \cup {a}) \in Nat
        BY <3>2, <4>1, Fewer
      <4>3. w \in A \ O /\ w \in P \ B
        BY <3>2 DEF A, O, P, B, Arrivals, Owing, Arriving, Owes
      <4> QED BY <1>1, <4>1, <4>2, <4>3
    <3> QED BY <3>1, <3>2, Recorded DEF Q, R, d
  <2>6. CASE BanRow(s, i)' = {}
    <3>1. Cardinality(R) < Threshold + Cardinality(O)
      BY <2>1, <2>4, <2>6
    <3>2. ASSUME NEW w \in O, w \notin P
          PROVE  Cardinality(Q) < Threshold
      <4>1. /\ w \in Workers /\ Owes(job[w], DomainOf[s], i)
            /\ ~Owes(job'[w], DomainOf[s], i)
        BY <3>2 DEF O, P, d, Owing
      <4>2. /\ attempts' = attempts /\ now' = now
            /\ ~(Cardinality(RowsOf(attempts, s, i, job[w].now)) >= Threshold)
        BY <1>5, <2>1, <2>6, <4>1, Discharge DEF BanRow
      <4>3. Q \subseteq RowsOf(attempts, s, i, job[w].now)
        BY <4>1, <4>2, BanAssumption DEF Q, RowsOf, BanTypeInv, BanTypeOK, JobsOK, Job
      <4>4. IsFiniteSet(RowsOf(attempts, s, i, job[w].now))
        BY FS_Subset DEF RowsOf, BanTypeInv
      <4> QED BY <1>1, <1>3, <4>2, <4>3, <4>4, Fewer
    <3>3. CASE O \subseteq P
      <4>1. Cardinality(O) <= Cardinality(P)
        BY <1>2, <3>3, Fewer
      <4>2. ASSUME NEW w \in Workers, w \in A \ O, w \in P \ B
            PROVE  Cardinality(O) + 1 <= Cardinality(P)
        <5>1. O \cup {w} \subseteq P /\ w \notin O
          BY <3>3, <4>2
        <5>2. IsFiniteSet(O \cup {w}) /\ Cardinality(O \cup {w}) = Cardinality(O) + 1
          BY <1>2, <5>1, FS_AddElement
        <5> QED BY <1>2, <5>1, <5>2, Fewer
      <4>3. Cardinality(Q) < Threshold + Cardinality(P)
        BY <1>1, <1>2, <1>3, <2>5, <3>1, <4>1, <4>2
      <4> QED BY <2>6, <4>3 DEF Q, P, d
    <3>4. CASE ~(O \subseteq P)
      <4>1. Cardinality(Q) < Threshold + Cardinality(P)
        BY <1>1, <1>2, <1>3, <3>2, <3>4
      <4> QED BY <2>6, <4>1 DEF Q, P, d
    <3> QED BY <3>3, <3>4
  <2>7. CASE BanRow(s, i)' # {}
    <3> SUFFICES Cardinality(Q) + Cardinality(B) < Threshold + Cardinality(Workers)
      BY <2>7 DEF Q, B, d
    <3>1. CASE BanRow(s, i) = {}
      <4>1. Q = R /\ B \subseteq A
        BY <2>7, <3>1, Entered DEF Q, R, B, A, d, Arrivals, BanRow
      <4>2. Cardinality(B) <= Cardinality(A)
        BY <1>2, <4>1, Fewer
      <4>3. Cardinality(A) + Cardinality(O) <= Cardinality(Workers)
        <5>1. A \cap O = {}
          BY DEF A, O, Arrivals, Owing, Arriving, Owes
        <5>2. IsFiniteSet(A \cup O) /\ Cardinality(A \cup O) = Cardinality(A) + Cardinality(O)
          <6>1. IsFiniteSet(A) /\ IsFiniteSet(O)
            BY <1>2
          <6>2. /\ IsFiniteSet(A \cup O)
                /\ Cardinality(A \cup O) =
                     Cardinality(A) + Cardinality(O) - Cardinality(A \cap O)
            BY <6>1, FS_Union, Zenon
          <6>3. Cardinality(A \cap O) = 0
            BY <5>1, FS_EmptySet
          <6> QED BY <1>2, <6>2, <6>3
        <5>3. A \cup O \subseteq Workers
          BY <1>2
        <5> QED BY <5>2, <5>3, Fewer, BanAssumption
      <4> QED BY <1>1, <1>2, <1>3, <2>4, <3>1, <4>1, <4>2, <4>3
    <3>2. CASE BanRow(s, i) # {}
      <4>1. IsBanned(d, i)
        BY <2>3, <3>2 DEF IsBanned, BanRow, d
      <4>2. B \subseteq A
        BY <1>3, <4>1, Admitted DEF B, A, d, Arrivals
      <4>3. Cardinality(B) <= Cardinality(A)
        BY <1>2, <4>2, Fewer
      <4>4. ASSUME NEW w \in Workers, w \in A \ O, w \in P \ B
            PROVE  Cardinality(B) + 1 <= Cardinality(A)
        <5>1. B \cup {w} \subseteq A /\ w \notin B
          BY <4>2, <4>4
        <5>2. IsFiniteSet(B \cup {w}) /\ Cardinality(B \cup {w}) = Cardinality(B) + 1
          BY <1>2, <5>1, FS_AddElement
        <5> QED BY <1>2, <5>1, <5>2, Fewer
      <4> QED BY <1>1, <1>2, <1>3, <2>4, <2>5, <3>2, <4>3, <4>4
    <3> QED BY <3>1, <3>2
  <2> QED BY <2>6, <2>7
<1> QED BY <1>4, <1>5

-----------------------------------------------------------------------------
(* The theorems *)

LEMMA BanInvHolds == BanSpec => []BanInv
<1>1. BanInit => BanInv
  <2> SUFFICES ASSUME BanInit PROVE CountsOK /\ BanJustified /\ NoMissedBan /\ FewOnRecord
    BY BanTypeInit DEF BanInv
  <2>1. CountsOK /\ BanJustified
    BY DEF BanInit, CountsOK, NoJob, BanJustified
  <2>2. NoMissedBan
    BY FS_EmptySet, BanAssumption DEF BanInit, NoMissedBan, Attacks
  <2>3. FewOnRecord
    <3> SUFFICES ASSUME NEW s \in Sites, NEW i \in Ips
                 PROVE  /\ BanRow(s, i) = {}
                        /\ Cardinality(Attacks(s, i, now))
                              < Threshold + Cardinality(Owing(DomainOf[s], i))
      BY DEF FewOnRecord
    <3>1. Attacks(s, i, now) = {} /\ BanRow(s, i) = {} /\ Owing(DomainOf[s], i) = {}
      BY DEF BanInit, Attacks, BanRow, Owing, Owes, NoJob
    <3> QED BY <3>1, FS_EmptySet, BanAssumption
  <2> QED BY <2>1, <2>2, <2>3
<1>2. BanInv /\ [BanNext]_banVars => BanInv'
  BY BanTypeStep, CountsStep, JustifiedStep, MissedStep, FewStep DEF BanInv
<1> QED BY <1>1, <1>2, PTL DEF BanSpec

\* The rows and the threads' records keep their types: in particular an attack
\* or a ban never outlives its site, and none is dated in the future.
THEOREM BanTypeCorrect == BanSpec => []BanTypeOK
<1>1. BanInv => BanTypeOK
  BY DEF BanInv, BanTypeInv
<1> QED BY <1>1, BanInvHolds, PTL

\* Interleaved handlers never let an address off that Threshold attacks of one
\* window should have banned, when no database call failed for it.
THEOREM NoMissedBanHolds == BanSpec => []NoMissedBan
<1>1. BanInv => NoMissedBan
  BY DEF BanInv
<1> QED BY <1>1, BanInvHolds, PTL

\* Every ban is backed by the attacks it cites.
THEOREM BanJustifiedHolds == BanSpec => []BanJustified
<1>1. BanInv => BanJustified
  BY DEF BanInv
<1> QED BY <1>1, BanInvHolds, PTL

\* An address that attacks with many requests at once gets no more than one
\* attack for each handler thread past the Threshold.
THEOREM FewAttacksHolds == BanSpec => []FewAttacks
<1>1. BanInv => FewAttacks
  <2> SUFFICES ASSUME BanInv, NEW s \in Sites, NEW i \in Ips, SoleSite(s),
                      <<DomainOf[s], i>> \notin faulty,
                      \A b \in BanRow(s, i) : Active(b, now)
               PROVE  Cardinality(Attacks(s, i, now)) < Threshold + Cardinality(Workers)
    BY DEF FewAttacks
  <2> DEFINE n == Cardinality(Attacks(s, i, now))
             O == Owing(DomainOf[s], i)
             A == Arrivals(DomainOf[s], i)
  <2>1. IF BanRow(s, i) = {} THEN n < Threshold + Cardinality(O)
                             ELSE n + Cardinality(A) < Threshold + Cardinality(Workers)
    BY DEF BanInv, FewOnRecord
  <2>2. O \subseteq Workers /\ A \subseteq Workers
    BY DEF Owing, Arrivals
  <2>3. /\ Cardinality(O) \in Nat /\ Cardinality(O) <= Cardinality(Workers)
        /\ Cardinality(A) \in Nat /\ Cardinality(Workers) \in Nat
    BY <2>2, Fewer, BanAssumption
  <2>4. n \in Nat
    BY FS_Subset, FS_CardinalityType DEF Attacks, BanInv, BanTypeInv
  <2> HIDE DEF n, O, A
  <2>5. n < Threshold + Cardinality(Workers)
    BY <2>1, <2>3, <2>4, BanAssumption
  <2> QED BY <2>5 DEF n
<1> QED BY <1>1, BanInvHolds, PTL

\* INSTANCE renames the standard Cardinality that BanPolicy extends.
LEMMA PolicyCardinality == ASSUME NEW S PROVE Policy!Cardinality(S) = Cardinality(S)
BY DEF Policy!Cardinality, Cardinality

\* The handlers implement BanPolicy: whatever their interleaving and failures,
\* each step is one of its steps or leaves the tables alone.
THEOREM AutoBanImplementsPolicy == BanSpec => ImplementsPolicy
<1>1. BanInit => Policy!Init
  BY DEF BanInit, Policy!Init
<1>2. BanInv /\ [BanNext]_banVars => [Policy!Next]_Policy!vars
  <2> SUFFICES ASSUME BanInv, [BanNext]_banVars PROVE [Policy!Next]_Policy!vars
    OBVIOUS
  <2> USE DEF BanInv, BanTypeInv, Policy!Next, Policy!vars, tables
  <2>1. ASSUME NEW w \in Workers, CommitAttempt(w)
        PROVE  Policy!Record \/ UNCHANGED Policy!vars
    <3>1. CASE ~SiteExists(job[w].site)
      BY <2>1, <3>1 DEF CommitAttempt
    <3>2. CASE SiteExists(job[w].site)
      <4> DEFINE a == [id |-> serial + 1, site |-> job[w].site, ip |-> job[w].ip,
                       timestamp |-> job[w].now]
      <4>1. attempts' = attempts \cup {a}
        BY <2>1, <3>2 DEF CommitAttempt
      <4>2. a \notin attempts
        BY BanAssumption DEF BanTypeOK
      <4>3. a.site \in sites /\ a.ip \in Ips /\ a.timestamp \in 0..now
        BY <2>1, <3>2 DEF CommitAttempt, SiteExists, BanTypeOK, JobsOK, Job
      <4> QED BY <2>1, <4>1, <4>2, <4>3 DEF CommitAttempt, Policy!Record
    <3> QED BY <3>1, <3>2
  <2>2. ASSUME NEW w \in Workers, InsertBan(w)
        PROVE  Policy!Ban \/ UNCHANGED Policy!vars
    <3>1. CASE Refused(job[w].site, job[w].ip)
      BY <2>2, <3>1 DEF InsertBan
    <3>2. CASE ~Refused(job[w].site, job[w].ip)
      <4> DEFINE b == [site |-> job[w].site, ip |-> job[w].ip,
                       banned_at |-> job[w].now,
                       expires_at |-> job[w].now + BanTime,
                       attack_count |-> job[w].count]
      <4>1. bans' = bans \cup {b} /\ UNCHANGED <<now, sites, attempts>>
        BY <2>2, <3>2 DEF InsertBan
      <4>2. b.site \in sites /\ b \notin bans /\ ~Policy!HasRow(b.site, b.ip)
        BY <3>2 DEF Refused, SiteExists, BanRow, Policy!HasRow
      <4>3. b.banned_at \in 0..now
        BY DEF BanTypeOK, JobsOK, Job
      <4>4. /\ b.attack_count >= Threshold
            /\ Cardinality(Policy!Recent(b.site, b.ip, b.banned_at)) >= b.attack_count
        BY <2>2, <4>2 DEF InsertBan, CountsOK, Attacks, Policy!Recent
      <4>5. b.expires_at = b.banned_at + BanTime
        OBVIOUS
      <4> HIDE DEF b
      <4> QED BY <4>1, <4>2, <4>3, <4>4, <4>5, PolicyCardinality DEF Policy!Ban
    <3> QED BY <3>1, <3>2
  <2>3. ASSUME NEW s \in Sites, DeleteSite(s)
        PROVE  Policy!Forget
    BY <2>3 DEF DeleteSite, Policy!Forget
  <2>4. CASE Tick
    BY <2>4 DEF Tick, Policy!Tick
  <2>5. CASE UNCHANGED <<now, sites, attempts, bans>>
    BY <2>5
  <2> QED
    BY <2>1, <2>2, <2>3, <2>4, <2>5 DEF BanNext, Handle, Admit, AdmitOnFault, Spare, BeginAttempt,
       BeginCheck, CountAttacks, SelectBan, DbFault, banVars
<1> QED BY <1>1, <1>2, BanInvHolds, PTL DEF BanSpec, ImplementsPolicy, Policy!Spec
-----------------------------------------------------------------------------
(* Refinement *)

LEMMA StepRefines == ASSUME [Next]_vars PROVE [BanNext]_banVars
<1> USE DEF banVars, tables, BanNext
<1>1. ASSUME NEW w \in Workers, NEW d \in Domains, NEW i \in Ips, BanCheck(w, d, i)
      PROVE  BanNext
  BY <1>1 DEF BanCheck
<1>2. ASSUME NEW w \in Workers, Proceed(w)
      PROVE  [BanNext]_banVars
  <2>1. CASE UNCHANGED banVars
    BY <2>1
  <2>2. CASE Spare(w) \/ Handle(w) \/ DbFault(w)
    BY <2>2
  <2> QED
    BY <1>2, <2>1, <2>2 DEF Proceed, LookUp, GetSiteInfo, SiteFound, NotRegistered,
       CheckLimit, Bypass, Analyse, BanStep, Decide, LogBlocked, CountBlocked, Refuse,
       Forward, Count, Log, LogForwarded
<1>3. CASE (\E s \in Sites : DeleteSite(s)) \/ Tick
  BY <1>3
<1>4. CASE UNCHANGED banVars
  BY <1>4
<1> QED
  BY <1>1, <1>2, <1>3, <1>4 DEF Next, Accept, RefuseBanned, Toggle, vars

\* The handlers of the proxy use the ban tables only by the actions of AutoBan:
\* what AutoBan's theorems say holds of the proxy too.
LEMMA ProxyBans == Spec => BanSpec
<1>1. Init => BanInit
  BY DEF Init
<1>2. [Next]_vars => [BanNext]_banVars
  BY StepRefines
<1> QED BY <1>1, <1>2, PTL DEF Spec, BanSpec

-----------------------------------------------------------------------------
(* The invariant behind Shield *)

ReqTypes ==
    /\ req \in [Workers -> Request]
    /\ protected \in [Sites -> BOOLEAN]
    /\ sites \subseteq Sites

\* A request that has passed the ban check and is not done.
Underway == Stage \ {"idle", "done"}

\* lapsed has noticed every opening since the request arrived; a mode that says
\* unprotected was read from a row that was; and only such a mode, or the limit,
\* lets an attack pass the decision.
Guarded ==
    \A w \in Workers :
        /\ req[w].stage \in Underway /\ Open(req[w].domain) => req[w].lapsed
        /\ req[w].stage \in Underway \ {"lookup"} /\ ~req[w].mode => req[w].lapsed
        /\ req[w].stage \in {"forward", "count", "log"} /\ req[w].verdict # "safe"
           => req[w].lapsed
        /\ req[w].forwarded /\ req[w].verdict # "safe"
           => req[w].lapsed \/ req[w].bypassed

IInv == ReqTypes /\ Guarded

LEMMA Establish == Init => IInv
<1> SUFFICES ASSUME Init PROVE IInv
  OBVIOUS
<1>1. ReqTypes
  BY DEF Init, ReqTypes, NoRequest, Request, Stage, BanInit
<1>2. Guarded
  BY DEF Init, Guarded, NoRequest, Underway
<1> QED BY <1>1, <1>2 DEF IInv

\* What holds of one request.
GuardedReq(r) ==
    /\ r.stage \in Underway /\ Open(r.domain) => r.lapsed
    /\ r.stage \in Underway \ {"lookup"} /\ ~r.mode => r.lapsed
    /\ r.stage \in {"forward", "count", "log"} /\ r.verdict # "safe" => r.lapsed
    /\ r.forwarded /\ r.verdict # "safe" => r.lapsed \/ r.bypassed

\* A step that changes one request, and no protection, keeps the invariant when
\* the new request satisfies it.
LEMMA OneRequest ==
    ASSUME IInv, UNCHANGED protected, sites' \subseteq sites, NEW w \in Workers,
           NEW r \in Request, Become(w, r), GuardedReq(r)
    PROVE  IInv'
<1>1. ReqTypes'
  BY DEF IInv, ReqTypes, Become
<1>2. ASSUME NEW v \in Workers PROVE GuardedReq(req[v])'
  <2>1. GuardedReq(req'[v])
    BY DEF IInv, ReqTypes, Guarded, GuardedReq, Become
  <2> QED BY <2>1 DEF GuardedReq, Open
<1> QED BY <1>1, <1>2 DEF IInv, Guarded, GuardedReq

\* A request that arrives satisfies what GuardedReq says of it.
LEMMA Arrival ==
    ASSUME NEW d \in Domains, NEW i \in Ips, NEW v \in Verdicts
    PROVE  /\ [Arrived(d, i, v) EXCEPT !.stage = "done", !.answer = "banned"] \in Request
           /\ GuardedReq([Arrived(d, i, v) EXCEPT !.stage = "done", !.answer = "banned"])
           /\ [Arrived(d, i, v) EXCEPT !.stage = "lookup"] \in Request
           /\ GuardedReq([Arrived(d, i, v) EXCEPT !.stage = "lookup"])
<1> DEFINE a == Arrived(d, i, v)
<1>1. Open(d) \in BOOLEAN
  BY DEF Open
<1>2. /\ a \in Request
      /\ a.domain = d
      /\ a.lapsed = Open(d)
      /\ a.forwarded = FALSE
  BY <1>1 DEF Arrived, NoRequest, Request, Stage
<1> HIDE DEF a
<1>3. [a EXCEPT !.stage = "done", !.answer = "banned"] \in Request
  BY <1>2 DEF Request, Stage
<1>4. GuardedReq([a EXCEPT !.stage = "done", !.answer = "banned"])
  BY <1>2 DEF Request, Stage, GuardedReq, Underway
<1>5. [a EXCEPT !.stage = "lookup"] \in Request
  BY <1>2 DEF Request, Stage
<1>6. GuardedReq([a EXCEPT !.stage = "lookup"])
  BY <1>2 DEF Request, Stage, GuardedReq, Underway
<1> QED BY <1>3, <1>4, <1>5, <1>6 DEF a

\* _proxy_to_backend touches only what the client and the backend got.
LEMMA RelayedSame ==
    ASSUME NEW q \in Request, NEW r \in Relayed(q)
    PROVE  /\ r \in Request
           /\ r.stage = q.stage /\ r.domain = q.domain /\ r.mode = q.mode
           /\ r.verdict = q.verdict /\ r.lapsed = q.lapsed /\ r.bypassed = q.bypassed
           /\ r.ip = q.ip /\ r.trouble = q.trouble
<1> USE DEF Request
<1>1. CASE r = [q EXCEPT !.forwarded = TRUE, !.answer = "backend"]
  BY <1>1
<1>2. CASE r = [q EXCEPT !.answer = "stub"]
  BY <1>2
<1>3. CASE r = [q EXCEPT !.answer = "bad_gateway"]
  BY <1>3
<1>4. CASE r = [q EXCEPT !.forwarded = TRUE, !.answer = "bad_gateway"]
  BY <1>4
<1> QED BY <1>1, <1>2, <1>3, <1>4 DEF Relayed

LEMMA CutSame ==
    ASSUME NEW q \in Request, NEW r \in Cut(q)
    PROVE  /\ r \in Request
           /\ r.stage = q.stage /\ r.domain = q.domain /\ r.mode = q.mode
           /\ r.verdict = q.verdict /\ r.lapsed = q.lapsed /\ r.bypassed = q.bypassed
           /\ r.ip = q.ip /\ r.trouble = TRUE
<1> USE DEF Request
<1>1. CASE r = [q EXCEPT !.trouble = TRUE]
  BY <1>1
<1>2. CASE r = [q EXCEPT !.forwarded = TRUE, !.trouble = TRUE]
  BY <1>2
<1> QED BY <1>1, <1>2 DEF Cut

\* log_request touches only the row and whether there was an error.
LEMMA WrittenSame ==
    ASSUME NEW q \in Request, NEW row \in {"blocked_403", "blocked_passed", "passed"},
           NEW r \in Written(q, row)
    PROVE  /\ r \in Request
           /\ r.stage = q.stage /\ r.domain = q.domain /\ r.mode = q.mode
           /\ r.verdict = q.verdict /\ r.lapsed = q.lapsed /\ r.bypassed = q.bypassed
           /\ r.forwarded = q.forwarded /\ r.ip = q.ip /\ (~r.trouble => ~q.trouble)
<1> USE DEF Request
<1>1. CASE r = [q EXCEPT !.row = row]
  BY <1>1
<1>2. CASE r = [q EXCEPT !.trouble = TRUE]
  BY <1>2
<1> QED BY <1>1, <1>2 DEF Written

LEMMA Preserve == IInv /\ [Next]_vars => IInv'
<1> SUFFICES ASSUME IInv, [Next]_vars PROVE IInv'
  OBVIOUS
<1> USE DEF IInv, ReqTypes
<1>1. sites' \subseteq sites
  BY StepRefines DEF BanNext, Handle, Admit, AdmitOnFault, Spare,
     BeginAttempt, CommitAttempt, BeginCheck, CountAttacks,
     SelectBan, InsertBan, DbFault, DeleteSite, Tick,
     banVars, tables
<1>2. ASSUME NEW w \in Workers, NEW d \in Domains, NEW i \in Ips, NEW v \in Verdicts,
             RefuseBanned(w, d, i, v) \/ Accept(w, d, i, v)
      PROVE  IInv'
  <2>1. PICK r : /\ r \in Request /\ GuardedReq(r)
                 /\ Become(w, r)
    BY <1>2, Arrival DEF RefuseBanned, Accept
  <2> QED BY <1>1, <1>2, <2>1, OneRequest DEF RefuseBanned, Accept
<1>3. ASSUME NEW w \in Workers, Proceed(w)
      PROVE  IInv'
  <2> DEFINE q == req[w]
  <2>1. q \in Request /\ GuardedReq(q)
    BY DEF Guarded, GuardedReq
  <2>2. protected' = protected
    BY <1>3 DEF Proceed, LookUp, CheckLimit, Bypass, Analyse, BanStep, Decide, LogBlocked,
       CountBlocked, Refuse, Forward, Count, Log, LogForwarded
  <2>3. CASE UNCHANGED req
    BY <1>1, <2>2, <2>3 DEF Guarded, Open
  <2>4. ASSUME NEW r \in Request, GuardedReq(r), Become(w, r)
        PROVE  IInv'
    BY <1>1, <2>2, <2>4, OneRequest
  <2>5. CASE LookUp(w)
    <3>1. q.stage = "lookup"
      BY <2>5 DEF LookUp, At
    <3>2. CASE \E s \in Lookup(q.domain) : SiteFound(w, s)
      <4>1. PICK s \in Lookup(q.domain) : SiteFound(w, s)
        BY <3>2
      <4> DEFINE r == [q EXCEPT !.stage = "limit", !.mode = protected[s]]
      <4>2. s \in Sites /\ DomainOf[s] = q.domain
        BY DEF Lookup
      <4>3. r \in Request
        BY <2>1, <4>2 DEF Request, Stage
      <4>4. GuardedReq(r)
        BY <2>1, <3>1, <4>2 DEF GuardedReq, Underway, Open, Request, Stage
      <4>5. Become(w, r)
        BY <4>1 DEF SiteFound
      <4> QED BY <2>4, <4>3, <4>4, <4>5
    <3>3. CASE NotRegistered(w)
      <4> DEFINE r == [q EXCEPT !.stage = "done", !.answer = "unregistered"]
      <4>1. r \in Request /\ GuardedReq(r)
        <5>1. r \in Request
          BY <2>1 DEF Request, Stage
        <5>2. GuardedReq(r)
          BY <2>1 DEF GuardedReq, Underway, Request, Stage
        <5> QED BY <5>1, <5>2
      <4> QED BY <2>4, <3>3, <4>1 DEF NotRegistered
    <3> QED BY <2>5, <3>2, <3>3 DEF LookUp, GetSiteInfo
  <2>6. CASE CheckLimit(w)
    <3>1. PICK stage \in {"bypass", "analyse"} : Become(w, [q EXCEPT !.stage = stage])
      BY <2>6 DEF CheckLimit
    <3>2. [q EXCEPT !.stage = stage] \in Request /\ GuardedReq([q EXCEPT !.stage = stage])
      BY <2>1, <2>6 DEF CheckLimit, At, GuardedReq, Underway, Request, Stage
    <3> QED BY <2>4, <3>1, <3>2
  <2>7. CASE Bypass(w)
    <3> DEFINE p == [q EXCEPT !.stage = "done", !.bypassed = TRUE]
    <3>1. PICK r \in Relayed(p) \cup Cut(p) : Become(w, r)
      BY <2>7 DEF Bypass
    <3>2. p \in Request /\ p.stage = "done" /\ p.bypassed = TRUE
      BY <2>1 DEF Request, Stage
    <3> HIDE DEF p
    <3>3. r \in Request /\ r.stage = "done" /\ r.bypassed = TRUE
      BY <3>1, <3>2, RelayedSame, CutSame
    <3>4. GuardedReq(r)
      BY <3>3 DEF GuardedReq, Underway, Request
    <3> QED BY <2>4, <3>1, <3>3, <3>4
  <2>8. CASE Analyse(w)
    <3>1. PICK r \in {[q EXCEPT !.stage = "forward"], [q EXCEPT !.stage = "banning"],
                      [q EXCEPT !.stage = "done", !.trouble = TRUE]} :
             Become(w, r) /\ (r.stage = "forward" => q.verdict = "safe")
      BY <2>1, <2>8 DEF Analyse, Request
    <3>2. r \in Request /\ GuardedReq(r)
      <4>1. r \in Request
        BY <2>1, <2>8, <3>1, ZenonT(40) DEF Analyse, At, Request, Stage
      <4>2. GuardedReq(r)
        BY <2>1, <2>8, <3>1 DEF Analyse, At, GuardedReq, Underway, Request, Stage
      <4> QED BY <4>1, <4>2
    <3> QED BY <2>4, <3>1, <3>2
  <2>9. CASE BanStep(w)
    <3>1. UNCHANGED req \/ Become(w, [q EXCEPT !.trouble = TRUE])
      BY <2>9 DEF BanStep
    <3>2. [q EXCEPT !.trouble = TRUE] \in Request /\ GuardedReq([q EXCEPT !.trouble = TRUE])
      BY <2>1 DEF GuardedReq, Request
    <3> QED BY <2>3, <2>4, <3>1, <3>2
  <2>10. CASE Decide(w)
    <3> DEFINE r == [q EXCEPT !.stage = IF q.mode THEN "block" ELSE "forward"]
    <3>1. r \in Request /\ GuardedReq(r)
      <4>1. r \in Request
        BY <2>1, <2>10 DEF Decide, At, Request, Stage
      <4>2. GuardedReq(r)
        BY <2>1, <2>10 DEF Decide, At, GuardedReq, Underway, Request, Stage
      <4> QED BY <4>1, <4>2
    <3> QED BY <2>4, <2>10, <3>1 DEF Decide
  <2>11. CASE LogBlocked(w)
    <3> DEFINE p == [q EXCEPT !.stage = "count_blocked"]
    <3>1. PICK r \in Written(p, "blocked_403") : Become(w, r)
      BY <2>11 DEF LogBlocked
    <3>2. p \in Request /\ GuardedReq(p)
      BY <2>1, <2>11 DEF LogBlocked, At, GuardedReq, Underway, Request, Stage
    <3> HIDE DEF p
    <3>3. r \in Request /\ GuardedReq(r)
      BY <3>1, <3>2, WrittenSame DEF GuardedReq
    <3> QED BY <2>4, <3>1, <3>3
  <2>12. CASE CountBlocked(w)
    <3> DEFINE r == [q EXCEPT !.stage = "refuse", !.counted = TRUE]
    <3>1. r \in Request /\ GuardedReq(r)
      <4>1. r \in Request
        BY <2>1, <2>12 DEF CountBlocked, At, Request, Stage
      <4>2. GuardedReq(r)
        BY <2>1, <2>12 DEF CountBlocked, At, GuardedReq, Underway, Request, Stage
      <4> QED BY <4>1, <4>2
    <3> QED BY <2>4, <2>12, <3>1 DEF CountBlocked
  <2>13. CASE Refuse(w)
    <3> DEFINE r1 == [q EXCEPT !.stage = "done", !.answer = "blocked"]
               r2 == [q EXCEPT !.stage = "done", !.trouble = TRUE]
    <3>1. Become(w, r1) \/ Become(w, r2)
      BY <2>13 DEF Refuse
    <3>2. r1 \in Request
      BY <2>1 DEF Request, Stage
    <3>3. GuardedReq(r1)
      BY <2>1 DEF GuardedReq, Underway, Request, Stage
    <3>4. r2 \in Request
      BY <2>1 DEF Request, Stage
    <3>5. GuardedReq(r2)
      BY <2>1 DEF GuardedReq, Underway, Request, Stage
    <3> QED BY <2>4, <3>1, <3>2, <3>3, <3>4, <3>5
  <2>14. CASE Forward(w)
    <3>1. q.stage = "forward"
      BY <2>14 DEF Forward, At
    <3>2. CASE \E r \in Relayed([q EXCEPT !.stage = "count"]) : Become(w, r)
      <4> DEFINE p == [q EXCEPT !.stage = "count"]
      <4>1. PICK r \in Relayed(p) : Become(w, r)
        BY <3>2
      <4>2. p \in Request /\ GuardedReq(p) /\ p.stage = "count"
        BY <2>1, <3>1 DEF GuardedReq, Underway, Request, Stage
      <4> HIDE DEF p
      <4>3. /\ r \in Request
            /\ r.stage = p.stage /\ r.domain = p.domain /\ r.mode = p.mode
            /\ r.verdict = p.verdict /\ r.lapsed = p.lapsed
        BY <4>1, <4>2, RelayedSame
      <4>4. GuardedReq(r)
        BY <4>2, <4>3 DEF GuardedReq
      <4> QED BY <2>4, <4>1, <4>3, <4>4
    <3>3. CASE \E r \in Cut([q EXCEPT !.stage = "done"]) : Become(w, r)
      <4> DEFINE p == [q EXCEPT !.stage = "done"]
      <4>1. PICK r \in Cut(p) : Become(w, r)
        BY <3>3
      <4>2. p \in Request /\ p.stage = "done" /\ p.verdict = q.verdict /\ p.lapsed = q.lapsed
        BY <2>1 DEF Request, Stage
      <4> HIDE DEF p
      <4>3. /\ r \in Request /\ r.stage = "done" /\ r.verdict = q.verdict
            /\ r.lapsed = q.lapsed
        BY <4>1, <4>2, CutSame
      <4>4. GuardedReq(r)
        BY <2>1, <3>1, <4>3 DEF GuardedReq, Underway
      <4> QED BY <2>4, <4>1, <4>3, <4>4
    <3> QED BY <2>14, <3>2, <3>3 DEF Forward
  <2>15. CASE Count(w)
    <3> DEFINE r == [q EXCEPT !.stage = "log", !.counted = TRUE]
    <3>1. r \in Request /\ GuardedReq(r)
      <4>1. r \in Request
        BY <2>1, <2>15 DEF Count, At, Request, Stage
      <4>2. GuardedReq(r)
        BY <2>1, <2>15 DEF Count, At, GuardedReq, Underway, Request, Stage
      <4> QED BY <4>1, <4>2
    <3> QED BY <2>4, <2>15, <3>1 DEF Count
  <2>16. CASE Log(w)
    <3>1. PICK row \in {"passed", "blocked_passed"} :
             \E r \in Written([q EXCEPT !.stage = "done"], row) : Become(w, r)
      BY <2>16 DEF Log, LogForwarded
    <3>2. PICK r \in Written([q EXCEPT !.stage = "done"], row) : Become(w, r)
      BY <3>1
    <3>3. r \in Request /\ GuardedReq(r)
      <4>1. r \in Request
        BY <2>1, <2>16, ZenonT(40) DEF Log, LogForwarded, At, Written, Request, Stage
      <4>2. GuardedReq(r)
        BY <2>1, <2>16 DEF Log, LogForwarded, At, Written, GuardedReq, Underway, Request, Stage
      <4> QED BY <4>1, <4>2
    <3> QED BY <2>4, <3>2, <3>3
  <2> QED
    BY <1>3, <2>5, <2>6, <2>7, <2>8, <2>9, <2>10, <2>11, <2>12, <2>13, <2>14, <2>15,
       <2>16 DEF Proceed
<1>4. ASSUME NEW s \in Sites, Toggle(s)
      PROVE  IInv'
  <2>1. ReqTypes'
    <3>1. protected' \in [Sites -> BOOLEAN] /\ sites' \subseteq Sites
      BY <1>4 DEF Toggle, banVars, tables
    <3>2. ASSUME NEW w \in Workers PROVE req'[w] \in Request
      <4>1. req[w] \in Request /\ protected[s] \in BOOLEAN
        OBVIOUS
      <4>2. (req[w].lapsed \/ protected[s]) \in BOOLEAN
        OBVIOUS
      <4>3. [req[w] EXCEPT !.lapsed = @ \/ protected[s]] \in Request
        BY <4>1, <4>2 DEF Request
      <4> QED BY <1>4, <4>1, <4>3 DEF Toggle
    <3>3. req' \in [Workers -> Request]
      BY <1>4, <3>2 DEF Toggle
    <3> QED BY <3>1, <3>3
  <2>2. ASSUME NEW w \in Workers PROVE GuardedReq(req[w])'
    <3>1. CASE req[w].domain = DomainOf[s]
      BY <1>4, <3>1 DEF Toggle, Guarded, GuardedReq, Open, Request
    <3>2. CASE req[w].domain # DomainOf[s]
      BY <1>4, <3>2 DEF Toggle, Guarded, GuardedReq, Open
    <3> QED BY <3>1, <3>2
  <2> QED BY <2>1, <2>2 DEF Guarded, GuardedReq
<1>5. CASE UNCHANGED <<protected, req>>
  BY <1>1, <1>5 DEF Guarded, Open
<1> QED BY <1>2, <1>3, <1>4, <1>5 DEF Next, vars

\* No attack reaches the backend of a protected site while its traffic limit is
\* not reached, whatever the handlers' interleaving and the database's errors.
THEOREM ShieldHolds == Spec => []Shield
<1>1. IInv => Shield
  BY DEF IInv, Guarded, Shield
<1> QED BY <1>1, Establish, Preserve, PTL DEF Spec

-----------------------------------------------------------------------------
(* The types, and the tie between a request and its place in the ban tables *)

Before == {"lookup", "limit", "bypass", "analyse"}

\* What TypeOK says of one thread.
LinkedPair(r, j) ==
    /\ r.stage \in Before => j.stage = "admitted"
    /\ j.stage # "idle" => /\ r.stage \in Before \cup {"banning"}
                           /\ j.domain = r.domain
                           /\ j.ip = r.ip

Linked == \A w \in Workers : LinkedPair(req[w], job[w])

\* Where a step of AutoBan leads one thread that has a request in hand.
Leads(w, j) ==
    /\ job' = [job EXCEPT ![w] = j]
    /\ j \in Job
    /\ j.stage # "idle" => j.domain = job[w].domain /\ j.ip = job[w].ip

LEMMA JobStep ==
    ASSUME BanTypeInv, sites \subseteq Sites, NEW w \in Workers,
           Handle(w) \/ DbFault(w)
    PROVE  job[w].stage # "idle" /\ \E j : Leads(w, j)
<1> USE DEF Job, BanStage
<1>0. job \in [Workers -> Job] /\ job[w] \in Job /\ now \in Nat
  BY DEF BanTypeInv, BanTypeOK
<1>1. job[w].stage # "idle"
  BY DEF Handle, BeginAttempt, CommitAttempt, BeginCheck,
     CountAttacks, SelectBan, InsertBan, DbFault
<1>2. ASSUME NEW stage \in BanStage, Goto(w, stage)
      PROVE  \E j : Leads(w, j)
  <2> WITNESS [job[w] EXCEPT !.stage = stage]
  <2> QED BY <1>0, <1>2 DEF Goto, Leads
<1>3. ASSUME Return(w)
      PROVE  \E j : Leads(w, j)
  <2> WITNESS NoJob
  <2> QED BY <1>0, <1>3 DEF Return, NoJob, Leads
<1>4. ASSUME NEW stage \in {"recording", "counting"}, NEW s \in Lookup(job[w].domain),
             job' = [job EXCEPT ![w].stage = stage, ![w].site = s, ![w].now = now]
      PROVE  \E j : Leads(w, j)
  <2> WITNESS [job[w] EXCEPT !.stage = stage, !.site = s, !.now = now]
  <2> QED BY <1>0, <1>4 DEF Lookup, Leads
<1>5. CASE CountAttacks(w)
  <2> DEFINE n == Cardinality(Attacks(job[w].site, job[w].ip, job[w].now))
  <2>1. n \in Nat
    BY FS_Subset, FS_CardinalityType DEF BanTypeInv, Attacks
  <2>2. ASSUME job' = [job EXCEPT ![w].stage = "selecting", ![w].count = n]
        PROVE  \E j : Leads(w, j)
    <3> HIDE DEF n
    <3> WITNESS [job[w] EXCEPT !.stage = "selecting", !.count = n]
    <3> QED BY <1>0, <2>1, <2>2 DEF Leads
  <2>3. \/ Return(w)
        \/ job' = [job EXCEPT ![w].stage = "selecting", ![w].count = n]
    BY <1>5 DEF CountAttacks
  <2>4. \E j : Leads(w, j)
    BY <1>3, <2>2, <2>3
  <2> QED BY <1>1, <2>4
<1>6. CASE BeginAttempt(w)
  BY <1>2, <1>4, <1>6 DEF BeginAttempt
<1>7. CASE BeginCheck(w)
  BY <1>3, <1>4, <1>7 DEF BeginCheck
<1>8. CASE CommitAttempt(w)
  BY <1>2, <1>8 DEF CommitAttempt
<1>9. CASE SelectBan(w)
  BY <1>2, <1>3, <1>9 DEF SelectBan
<1>10. CASE InsertBan(w)
  BY <1>3, <1>10 DEF InsertBan
<1>11. CASE DbFault(w)
  <2>1. Goto(w, "checking") \/ Return(w)
    BY <1>11 DEF DbFault
  <2>2. "checking" \in BanStage
    OBVIOUS
  <2>3. \E j : Leads(w, j)
    BY <1>2, <1>3, <2>1, <2>2
  <2> QED BY <1>1, <2>3
<1> QED BY <1>1, <1>5, <1>6, <1>7, <1>8, <1>9, <1>10, <1>11 DEF Handle

\* Requests that are not being handled have no place in the ban tables.
LEMMA SpareStep ==
    ASSUME BanTypeInv, NEW w \in Workers, Spare(w)
    PROVE  job[w].stage = "admitted" /\ job' = [job EXCEPT ![w] = NoJob]
BY DEF Spare, Return

LEMMA NoJobType == NoJob \in Job
BY DEF NoJob, Job, BanStage

LEMMA BanTypesStay == ASSUME BanTypeInv, [Next]_vars PROVE BanTypeInv'
BY StepRefines, BanTypeStep

-----------------------------------------------------------------------------
(* The audit trail *)

\* What a request has to show at each stage after the decision.
AuditedReq(r) ==
    /\ r.stage = "count_blocked" => r.row = "blocked_403" \/ r.trouble
    /\ r.stage = "refuse" => r.counted /\ (r.row = "blocked_403" \/ r.trouble)
    /\ r.stage \in {"count", "log"} => r.answer \in {"backend", "stub", "bad_gateway"}
    /\ r.stage = "log" => r.counted
    /\ /\ r.stage = "done" /\ ~r.trouble /\ ~r.bypassed
       /\ r.answer \in {"blocked", "backend", "stub", "bad_gateway"}
       => /\ r.counted
          /\ r.row # "none"
          /\ r.row = "blocked_403" <=> r.answer = "blocked"

Audited == \A w \in Workers : AuditedReq(req[w])

FullInv == IInv /\ BanTypeInv /\ Linked /\ Audited

LEMMA FullInit == Init => FullInv
<1> SUFFICES ASSUME Init PROVE FullInv
  OBVIOUS
<1>1. BanTypeInv
  BY BanTypeInit DEF Init
<1>2. Linked
  BY DEF Init, BanInit, Linked, LinkedPair, NoRequest, NoJob, Before
<1>3. Audited
  BY DEF Init, Audited, AuditedReq, NoRequest
<1> QED BY <1>1, <1>2, <1>3, Establish DEF FullInv

\* A step that changes one request, and the place of its thread in the ban
\* tables at most, keeps the invariant when the new pair satisfies it.
LEMMA OnePair ==
    ASSUME FullInv, NEW w \in Workers, NEW r, Become(w, r),
           \/ UNCHANGED job
           \/ \E j : job' = [job EXCEPT ![w] = j],
           LinkedPair(r, job'[w]), AuditedReq(r)
    PROVE  Linked' /\ Audited'
<1>1. req'[w] = r /\ \A v \in Workers \ {w} : req'[v] = req[v] /\ job'[v] = job[v]
  BY DEF FullInv, IInv, ReqTypes, BanTypeInv, BanTypeOK, Become
<1>2. ASSUME NEW v \in Workers PROVE LinkedPair(req'[v], job'[v]) /\ AuditedReq(req'[v])
  BY <1>1 DEF FullInv, Linked, Audited
<1>3. Linked'
  BY <1>2 DEF Linked, LinkedPair
<1>4. Audited'
  BY <1>2 DEF Audited, AuditedReq
<1> QED BY <1>3, <1>4

\* What _proxy_to_backend and log_request leave in a request.
LEMMA RelayedAudit ==
    ASSUME NEW q \in Request, NEW r \in Relayed(q)
    PROVE  /\ r.answer \in {"backend", "stub", "bad_gateway"}
           /\ r.counted = q.counted /\ r.row = q.row
           /\ r.stage = q.stage /\ r.bypassed = q.bypassed
<1> USE DEF Request
<1>1. CASE r = [q EXCEPT !.forwarded = TRUE, !.answer = "backend"]
  BY <1>1
<1>2. CASE r = [q EXCEPT !.answer = "stub"]
  BY <1>2
<1>3. CASE r = [q EXCEPT !.answer = "bad_gateway"]
  BY <1>3
<1>4. CASE r = [q EXCEPT !.forwarded = TRUE, !.answer = "bad_gateway"]
  BY <1>4
<1> QED BY <1>1, <1>2, <1>3, <1>4 DEF Relayed

LEMMA WrittenAudit ==
    ASSUME NEW q \in Request, NEW row \in {"blocked_403", "blocked_passed", "passed"},
           NEW r \in Written(q, row)
    PROVE  /\ r.row = row \/ r.trouble
           /\ r.stage = q.stage /\ r.counted = q.counted
           /\ r.answer = q.answer /\ r.bypassed = q.bypassed
<1> USE DEF Request
<1>1. CASE r = [q EXCEPT !.row = row]
  BY <1>1
<1>2. CASE r = [q EXCEPT !.trouble = TRUE]
  BY <1>2
<1> QED BY <1>1, <1>2 DEF Written

LEMMA FullStep == FullInv /\ [Next]_vars => Linked' /\ Audited'
<1> SUFFICES ASSUME FullInv, [Next]_vars PROVE Linked' /\ Audited'
  OBVIOUS
<1>0. /\ req \in [Workers -> Request] /\ sites \subseteq Sites
      /\ job \in [Workers -> Job] /\ BanTypeInv /\ Linked /\ Audited
  BY DEF FullInv, IInv, ReqTypes, BanTypeInv, BanTypeOK
<1>1. ASSUME NEW w \in Workers, NEW d \in Domains, NEW i \in Ips, NEW v \in Verdicts,
             RefuseBanned(w, d, i, v)
      PROVE  Linked' /\ Audited'
  <2> DEFINE r == [Arrived(d, i, v) EXCEPT !.stage = "done", !.answer = "banned"]
  <2>1. r.stage = "done" /\ r.answer = "banned"
    BY DEF Arrived, NoRequest
  <2>2. Become(w, r) /\ UNCHANGED job
    BY <1>1 DEF RefuseBanned, banVars
  <2>3. job[w].stage = "idle"
    BY <1>0, <1>1 DEF RefuseBanned, Linked, LinkedPair, Before
  <2> HIDE DEF r
  <2>4. LinkedPair(r, job'[w]) /\ AuditedReq(r)
    BY <2>1, <2>2, <2>3 DEF LinkedPair, AuditedReq, Before
  <2> QED BY <2>2, <2>4, OnePair
<1>2. ASSUME NEW w \in Workers, NEW d \in Domains, NEW i \in Ips, NEW v \in Verdicts,
             Accept(w, d, i, v)
      PROVE  Linked' /\ Audited'
  <2> DEFINE r == [Arrived(d, i, v) EXCEPT !.stage = "lookup"]
             j == [job[w] EXCEPT !.stage = "admitted", !.domain = d, !.ip = i]
  <2>1. r.stage = "lookup" /\ r.domain = d /\ r.ip = i
    BY DEF Arrived, NoRequest
  <2>2. Become(w, r) /\ job' = [job EXCEPT ![w] = j]
    BY <1>2 DEF Accept, BanCheck, Admit, AdmitOnFault
  <2>3. j.stage = "admitted" /\ j.domain = d /\ j.ip = i /\ job'[w] = j
    BY <1>0, <2>2 DEF Job
  <2> HIDE DEF r, j
  <2>4. LinkedPair(r, job'[w]) /\ AuditedReq(r)
    BY <2>1, <2>3 DEF LinkedPair, AuditedReq, Before
  <2> QED BY <2>2, <2>4, OnePair
<1>3. ASSUME NEW w \in Workers, Proceed(w)
      PROVE  Linked' /\ Audited'
  <2> DEFINE q == req[w]
  <2>0. q \in Request /\ AuditedReq(q) /\ LinkedPair(q, job[w]) /\ job[w] \in Job
    BY <1>0 DEF Linked, Audited
  \* The thread is out of the ban tables, or stays there.
  <2>1. ASSUME NEW r, Become(w, r), AuditedReq(r), r.stage \notin Before,
               Spare(w) \/ (UNCHANGED job /\ job[w].stage = "idle")
        PROVE  Linked' /\ Audited'
    <3>1. job'[w].stage = "idle"
      BY <1>0, <2>1, SpareStep DEF NoJob
    <3>2. LinkedPair(r, job'[w])
      BY <2>1, <3>1 DEF LinkedPair
    <3> QED BY <2>1, <3>2, OnePair, SpareStep, <1>0
  <2>2. ASSUME NEW r, Become(w, r), AuditedReq(r), UNCHANGED job,
               r.domain = q.domain, r.ip = q.ip, q.stage \in Before,
               r.stage \in Before \cup {"banning"}
        PROVE  Linked' /\ Audited'
    <3>1. LinkedPair(r, job'[w])
      BY <2>0, <2>2 DEF LinkedPair
    <3> QED BY <2>2, <3>1, OnePair
  <2>3. ASSUME q.stage \notin Before \cup {"banning"} PROVE job[w].stage = "idle"
    BY <2>0, <2>3 DEF LinkedPair
  <2> USE DEF Before, At
  <2>5. CASE LookUp(w)
    <3>1. ASSUME NEW s \in Sites, SiteFound(w, s)
          PROVE  Linked' /\ Audited'
      <4> DEFINE r == [q EXCEPT !.stage = "limit", !.mode = protected[s]]
      <4>1. r.stage = "limit" /\ r.domain = q.domain /\ r.ip = q.ip
        BY <2>0 DEF Request
      <4>2. Become(w, r) /\ UNCHANGED job /\ q.stage = "lookup"
        BY <2>5, <3>1 DEF LookUp, SiteFound, banVars
      <4> HIDE DEF r
      <4>3. AuditedReq(r)
        BY <4>1 DEF AuditedReq
      <4> QED BY <2>2, <4>1, <4>2, <4>3
    <3>2. CASE NotRegistered(w)
      <4> DEFINE r == [q EXCEPT !.stage = "done", !.answer = "unregistered"]
      <4>1. r.stage = "done" /\ r.answer = "unregistered"
        BY <2>0 DEF Request
      <4>2. Become(w, r) /\ Spare(w)
        BY <3>2 DEF NotRegistered
      <4> HIDE DEF r
      <4>3. AuditedReq(r)
        BY <4>1 DEF AuditedReq
      <4> QED BY <2>1, <4>1, <4>2, <4>3
    <3>3. \A s \in Lookup(q.domain) : s \in Sites
      BY <1>0 DEF Lookup
    <3> QED BY <2>5, <3>1, <3>2, <3>3 DEF LookUp, GetSiteInfo
  <2>6. CASE CheckLimit(w)
    <3>1. PICK stage \in {"bypass", "analyse"} : Become(w, [q EXCEPT !.stage = stage])
      BY <2>6 DEF CheckLimit
    <3> DEFINE r == [q EXCEPT !.stage = stage]
    <3>2. r.stage = stage /\ r.domain = q.domain /\ r.ip = q.ip
      BY <2>0 DEF Request
    <3>3. UNCHANGED job /\ q.stage = "limit"
      BY <2>6 DEF CheckLimit, banVars
    <3> HIDE DEF r
    <3>4. AuditedReq(r)
      BY <3>2 DEF AuditedReq
    <3> QED BY <2>2, <3>1, <3>2, <3>3, <3>4 DEF r
  <2>7. CASE Bypass(w)
    <3> DEFINE p == [q EXCEPT !.stage = "done", !.bypassed = TRUE]
    <3>1. PICK r \in Relayed(p) \cup Cut(p) : Become(w, r)
      BY <2>7 DEF Bypass
    <3>2. p \in Request /\ p.stage = "done" /\ p.bypassed = TRUE
      BY <2>0 DEF Request, Stage
    <3> HIDE DEF p
    <3>3. r.stage = "done" /\ r.bypassed = TRUE
      BY <3>1, <3>2, RelayedSame, CutSame
    <3>4. AuditedReq(r)
      BY <3>3 DEF AuditedReq
    <3> QED BY <2>1, <2>7, <3>1, <3>3, <3>4 DEF Bypass
  <2>8. CASE Analyse(w)
    <3>1. CASE Become(w, [q EXCEPT !.stage = "forward"]) /\ Spare(w)
      <4> DEFINE r == [q EXCEPT !.stage = "forward"]
      <4>1. r.stage = "forward"
        BY <2>0 DEF Request
      <4> HIDE DEF r
      <4>2. AuditedReq(r)
        BY <4>1 DEF AuditedReq
      <4> QED BY <2>1, <3>1, <4>1, <4>2 DEF r
    <3>2. CASE Become(w, [q EXCEPT !.stage = "banning"]) /\ UNCHANGED banVars
      <4> DEFINE r == [q EXCEPT !.stage = "banning"]
      <4>1. r.stage = "banning" /\ r.domain = q.domain /\ r.ip = q.ip
        BY <2>0 DEF Request
      <4>2. UNCHANGED job /\ q.stage = "analyse"
        BY <2>8, <3>2 DEF Analyse, banVars
      <4> HIDE DEF r
      <4>3. AuditedReq(r)
        BY <4>1 DEF AuditedReq
      <4> QED BY <2>2, <3>2, <4>1, <4>2, <4>3 DEF r
    <3>3. CASE Become(w, [q EXCEPT !.stage = "done", !.trouble = TRUE]) /\ Spare(w)
      <4> DEFINE r == [q EXCEPT !.stage = "done", !.trouble = TRUE]
      <4>1. r.stage = "done" /\ r.trouble = TRUE
        BY <2>0 DEF Request
      <4> HIDE DEF r
      <4>2. AuditedReq(r)
        BY <4>1 DEF AuditedReq
      <4> QED BY <2>1, <3>3, <4>1, <4>2 DEF r
    <3> QED BY <2>8, <3>1, <3>2, <3>3 DEF Analyse
  <2>9. CASE BanStep(w)
    <3>1. PICK j : Leads(w, j)
      BY <1>0, <2>9, JobStep DEF BanStep
    <3>2. job[w].stage # "idle"
      BY <1>0, <2>9, JobStep DEF BanStep
    <3>3. job'[w] = j /\ job' = [job EXCEPT ![w] = j]
      BY <1>0, <3>1 DEF Leads
    <3>4. ASSUME NEW r, Become(w, r), r.stage = "banning", r.domain = q.domain, r.ip = q.ip
          PROVE  Linked' /\ Audited'
      <4>1. LinkedPair(r, job'[w])
        BY <2>0, <3>1, <3>2, <3>3, <3>4 DEF LinkedPair, Leads
      <4>2. AuditedReq(r)
        BY <3>4 DEF AuditedReq
      <4> QED BY <3>3, <3>4, <4>1, <4>2, OnePair
    <3>5. CASE UNCHANGED req
      <4>1. Become(w, q) /\ q.stage = "banning"
        BY <1>0, <2>9, <3>5 DEF Become, BanStep
      <4> QED BY <3>4, <4>1
    <3>6. CASE Become(w, [q EXCEPT !.trouble = TRUE])
      <4> DEFINE r == [q EXCEPT !.trouble = TRUE]
      <4>1. r.stage = "banning" /\ r.domain = q.domain /\ r.ip = q.ip
        BY <2>0, <2>9 DEF BanStep, Request
      <4> HIDE DEF r
      <4> QED BY <3>4, <3>6, <4>1 DEF r
    <3> QED BY <2>9, <3>5, <3>6 DEF BanStep
  <2>10. CASE Decide(w)
    <3> DEFINE r == [q EXCEPT !.stage = IF q.mode THEN "block" ELSE "forward"]
    <3>1. r.stage \in {"block", "forward"}
      BY <2>0 DEF Request
    <3>2. Become(w, r) /\ UNCHANGED job /\ job[w].stage = "idle"
      BY <2>10 DEF Decide, BansDone, banVars
    <3> HIDE DEF r
    <3>3. AuditedReq(r)
      BY <3>1 DEF AuditedReq
    <3> QED BY <2>1, <3>1, <3>2, <3>3
  \* From here on the thread has left the ban tables.
  <2>a. ASSUME NEW r, Become(w, r), UNCHANGED banVars, AuditedReq(r), r.stage \notin Before,
               q.stage \notin Before \cup {"banning"}
        PROVE  Linked' /\ Audited'
    <3>1. UNCHANGED job /\ job[w].stage = "idle"
      BY <2>3, <2>a DEF banVars
    <3> QED BY <2>1, <2>a, <3>1
  <2>11. CASE LogBlocked(w)
    <3> DEFINE p == [q EXCEPT !.stage = "count_blocked"]
    <3>1. PICK r \in Written(p, "blocked_403") : Become(w, r)
      BY <2>11 DEF LogBlocked
    <3>2. p \in Request /\ p.stage = "count_blocked"
      BY <2>0 DEF Request, Stage
    <3> HIDE DEF p
    <3>3. r.stage = "count_blocked" /\ (r.row = "blocked_403" \/ r.trouble)
      BY <3>1, <3>2, WrittenAudit
    <3>4. AuditedReq(r)
      BY <3>3 DEF AuditedReq
    <3> QED BY <2>a, <2>11, <3>1, <3>3, <3>4 DEF LogBlocked
  <2>12. CASE CountBlocked(w)
    <3> DEFINE r == [q EXCEPT !.stage = "refuse", !.counted = TRUE]
    <3>1. r.stage = "refuse" /\ r.counted = TRUE /\ r.row = q.row /\ r.trouble = q.trouble
      BY <2>0 DEF Request
    <3>2. q.stage = "count_blocked" /\ Become(w, r)
      BY <2>12 DEF CountBlocked
    <3> HIDE DEF r
    <3>3. AuditedReq(r)
      BY <2>0, <3>1, <3>2 DEF AuditedReq
    <3> QED BY <2>a, <2>12, <3>1, <3>2, <3>3 DEF CountBlocked
  <2>13. CASE Refuse(w)
    <3> DEFINE r1 == [q EXCEPT !.stage = "done", !.answer = "blocked"]
               r2 == [q EXCEPT !.stage = "done", !.trouble = TRUE]
    <3>1. /\ r1.stage = "done" /\ r1.answer = "blocked" /\ r1.row = q.row
          /\ r1.counted = q.counted /\ r1.trouble = q.trouble
          /\ r2.stage = "done" /\ r2.trouble = TRUE
      BY <2>0 DEF Request
    <3>2. q.stage = "refuse" /\ (Become(w, r1) \/ Become(w, r2))
      BY <2>13 DEF Refuse
    <3> HIDE DEF r1, r2
    <3>3. AuditedReq(r1) /\ AuditedReq(r2)
      BY <2>0, <3>1, <3>2 DEF AuditedReq
    <3> QED BY <2>a, <2>13, <3>1, <3>2, <3>3 DEF Refuse
  <2>14. CASE Forward(w)
    <3>1. q.stage = "forward"
      BY <2>14 DEF Forward
    <3>2. CASE \E r \in Relayed([q EXCEPT !.stage = "count"]) : Become(w, r)
      <4> DEFINE p == [q EXCEPT !.stage = "count"]
      <4>1. PICK r \in Relayed(p) : Become(w, r)
        BY <3>2
      <4>2. p \in Request /\ p.stage = "count"
        BY <2>0 DEF Request, Stage
      <4> HIDE DEF p
      <4>3. r.stage = "count" /\ r.answer \in {"backend", "stub", "bad_gateway"}
        BY <4>1, <4>2, RelayedAudit
      <4>4. AuditedReq(r)
        BY <4>3 DEF AuditedReq
      <4> QED BY <2>a, <2>14, <3>1, <4>1, <4>3, <4>4 DEF Forward
    <3>3. CASE \E r \in Cut([q EXCEPT !.stage = "done"]) : Become(w, r)
      <4> DEFINE p == [q EXCEPT !.stage = "done"]
      <4>1. PICK r \in Cut(p) : Become(w, r)
        BY <3>3
      <4>2. p \in Request /\ p.stage = "done"
        BY <2>0 DEF Request, Stage
      <4> HIDE DEF p
      <4>3. r.stage = "done" /\ r.trouble = TRUE
        BY <4>1, <4>2, CutSame
      <4>4. AuditedReq(r)
        BY <4>3 DEF AuditedReq
      <4> QED BY <2>a, <2>14, <3>1, <4>1, <4>3, <4>4 DEF Forward
    <3> QED BY <2>14, <3>2, <3>3 DEF Forward
  <2>15. CASE Count(w)
    <3> DEFINE r == [q EXCEPT !.stage = "log", !.counted = TRUE]
    <3>1. r.stage = "log" /\ r.counted = TRUE /\ r.answer = q.answer
      BY <2>0 DEF Request
    <3>2. q.stage = "count" /\ Become(w, r)
      BY <2>15 DEF Count
    <3> HIDE DEF r
    <3>3. AuditedReq(r)
      BY <2>0, <3>1, <3>2 DEF AuditedReq
    <3> QED BY <2>a, <2>15, <3>1, <3>2, <3>3 DEF Count
  <2>16. CASE Log(w)
    <3> DEFINE p == [q EXCEPT !.stage = "done"]
    <3>1. PICK row \in {"passed", "blocked_passed"} :
             \E r \in Written(p, row) : Become(w, r)
      BY <2>16 DEF Log, LogForwarded
    <3>2. PICK r \in Written(p, row) : Become(w, r)
      BY <3>1
    <3>3. /\ p \in Request /\ p.stage = "done" /\ p.answer = q.answer
          /\ p.counted = q.counted
      BY <2>0 DEF Request, Stage
    <3> HIDE DEF p
    <3>4. /\ r.stage = "done" /\ r.answer = q.answer /\ r.counted = q.counted
          /\ r.row = row \/ r.trouble
      BY <3>2, <3>3, WrittenAudit
    <3>5. q.stage = "log"
      BY <2>16 DEF Log, LogForwarded
    <3>6. AuditedReq(r)
      BY <2>0, <3>4, <3>5 DEF AuditedReq
    <3> QED BY <2>a, <2>16, <3>2, <3>4, <3>5, <3>6 DEF Log, LogForwarded
  <2> QED
    BY <1>3, <2>5, <2>6, <2>7, <2>8, <2>9, <2>10, <2>11, <2>12, <2>13, <2>14, <2>15,
       <2>16 DEF Proceed
<1>4. ASSUME NEW s \in Sites, Toggle(s)
      PROVE  Linked' /\ Audited'
  <2>1. ASSUME NEW w \in Workers
        PROVE  LinkedPair(req'[w], job'[w]) /\ AuditedReq(req'[w])
    <3>1. \/ req'[w] = req[w]
          \/ req'[w] = [req[w] EXCEPT !.lapsed = @ \/ protected[s]]
      BY <1>4 DEF Toggle
    <3>2. /\ req'[w].stage = req[w].stage /\ req'[w].domain = req[w].domain
          /\ req'[w].ip = req[w].ip /\ req'[w].row = req[w].row
          /\ req'[w].trouble = req[w].trouble /\ req'[w].counted = req[w].counted
          /\ req'[w].answer = req[w].answer /\ req'[w].bypassed = req[w].bypassed
      BY <1>0, <3>1 DEF Request
    <3>3. job'[w] = job[w]
      BY <1>4 DEF Toggle, banVars
    <3> QED BY <1>0, <3>2, <3>3 DEF Linked, Audited, LinkedPair, AuditedReq
  <2> QED BY <2>1 DEF Linked, Audited, LinkedPair, AuditedReq
<1>5. CASE UNCHANGED <<job, req>>
  BY <1>0, <1>5 DEF Linked, Audited, LinkedPair, AuditedReq
<1> QED BY <1>1, <1>2, <1>3, <1>4, <1>5 DEF Next, vars, banVars, DeleteSite, Tick

LEMMA FullInvariance == Spec => []FullInv
<1>1. FullInv /\ [Next]_vars => FullInv'
  <2> SUFFICES ASSUME FullInv, [Next]_vars PROVE FullInv'
    OBVIOUS
  <2>1. IInv'
    BY Preserve DEF FullInv
  <2>2. BanTypeInv'
    BY BanTypesStay DEF FullInv, IInv, ReqTypes
  <2> QED BY <2>1, <2>2, FullStep DEF FullInv
<1> QED BY <1>1, FullInit, PTL DEF Spec

\* The requests keep their types, and a handler works on the ban tables exactly
\* between its ban check and its decision, for its own request.
THEOREM TypeCorrect == Spec => []TypeOK
<1>1. FullInv => TypeOK
  BY DEF FullInv, IInv, ReqTypes, Linked, LinkedPair, Before, TypeOK
<1> QED BY <1>1, FullInvariance, PTL

-----------------------------------------------------------------------------
(* What becomes of an attack *)

Answered == {"blocked", "backend", "stub", "bad_gateway"}

\* A request whose site was found belongs to a domain that has a row, or had one.
Sited(r) ==
    r.stage \in {"limit", "bypass", "analyse", "banning"}
    => \E s \in Sites : DomainOf[s] = r.domain

\* The request is an attack that log_attack_attempt has dealt with.
Reported(r, j) ==
    /\ r.verdict # "safe" /\ ~r.trouble
    /\ \/ r.stage = "banning" /\ j.stage \notin {"admitted", "recording"}
       \/ r.stage \in {"block", "count_blocked", "refuse", "forward", "count", "log"}
       \/ r.stage = "done" /\ ~r.bypassed /\ r.answer \in Answered

Traced ==
    \A w \in Workers :
        /\ Sited(req[w])
        /\ Reported(req[w], job[w]) => OnRecord(req[w].domain, req[w].ip)

TraceInv == FullInv /\ Traced

\* What is on record stays there, or goes with its site.
LEMMA RecordStays ==
    ASSUME BanTypeInv, [Next]_vars, NEW d, NEW i, OnRecord(d, i)
    PROVE  OnRecord(d, i)'
<1>1. sites' \subseteq sites /\ \A a \in attempts : a.site \in sites' => a \in attempts'
  BY StepRefines, RowsStay
<1>2. \A a \in attempts : a.site \in Sites
  BY DEF BanTypeInv, BanTypeOK
<1> QED BY <1>1, <1>2 DEF OnRecord

\* A step that changes one request and the place of its thread at most keeps
\* the invariant, when what the new request has to show is on record.
LEMMA OneTrace ==
    ASSUME TraceInv, [Next]_vars, NEW w \in Workers, NEW r, Become(w, r),
           \/ UNCHANGED job
           \/ \E j : job' = [job EXCEPT ![w] = j],
           Sited(r), Reported(r, job'[w]) => OnRecord(r.domain, r.ip)'
    PROVE  Traced'
<1>1. req'[w] = r /\ \A v \in Workers \ {w} : req'[v] = req[v] /\ job'[v] = job[v]
  BY DEF TraceInv, FullInv, IInv, ReqTypes, BanTypeInv, BanTypeOK, Become
<1>2. ASSUME NEW v \in Workers
      PROVE  (Sited(req[v]) /\ (Reported(req[v], job[v]) => OnRecord(req[v].domain, req[v].ip)))'
  <2>1. CASE v = w
    BY <1>1, <2>1 DEF Sited, Reported, OnRecord
  <2>2. CASE v # w
    <3>1. PICK d, i : d = req[v].domain /\ i = req[v].ip
      OBVIOUS
    <3>2. Sited(req[v]) /\ (Reported(req[v], job[v]) => OnRecord(d, i))
      BY <3>1 DEF TraceInv, Traced
    <3>3. OnRecord(d, i) => OnRecord(d, i)'
      BY RecordStays DEF TraceInv, FullInv
    <3> QED BY <1>1, <2>2, <3>1, <3>2, <3>3 DEF Sited, Reported, OnRecord
  <2> QED BY <2>1, <2>2
<1> QED BY <1>2 DEF Traced

\* The same when the new request has no more to show than the old one.
LEMMA KeepTrace ==
    ASSUME TraceInv, [Next]_vars, NEW w \in Workers, NEW r, Become(w, r),
           \/ UNCHANGED job
           \/ \E j : job' = [job EXCEPT ![w] = j],
           r.domain = req[w].domain, r.ip = req[w].ip, Sited(r),
           Reported(r, job'[w]) => Reported(req[w], job[w])
    PROVE  Traced'
<1>1. Reported(r, job'[w]) => OnRecord(r.domain, r.ip)
  BY DEF TraceInv, Traced
<1>2. OnRecord(r.domain, r.ip) => OnRecord(r.domain, r.ip)'
  BY RecordStays DEF TraceInv, FullInv
<1> QED BY <1>1, <1>2, OneTrace

\* log_attack_attempt leaves a row, unless the site it looked up is gone.
LEMMA HandleTrace ==
    ASSUME TraceInv, [Next]_vars, NEW w \in Workers, Handle(w), UNCHANGED req,
           req[w].stage = "banning"
    PROVE  Traced'
<1>0. PICK q : q = req[w]
  OBVIOUS
<1>1. PICK j : Leads(w, j)
  BY JobStep DEF TraceInv, FullInv, IInv, ReqTypes
<1>2. job \in [Workers -> Job] /\ req \in [Workers -> Request]
  BY DEF TraceInv, FullInv, IInv, ReqTypes, BanTypeInv, BanTypeOK
<1>3. job' = [job EXCEPT ![w] = j] /\ job'[w] = j /\ Become(w, q)
  BY <1>0, <1>1, <1>2 DEF Leads, Become
<1>4. Sited(q) /\ (Reported(q, job[w]) => OnRecord(q.domain, q.ip)) /\ q.stage = "banning"
  BY <1>0 DEF TraceInv, Traced
<1>5. job[w].stage # "idle" /\ job[w].domain = q.domain /\ job[w].ip = q.ip
  BY <1>0, JobStep DEF TraceInv, FullInv, IInv, ReqTypes, Linked, LinkedPair
<1>6. CASE BeginAttempt(w)
  <2>1. CASE Lookup(job[w].domain) = {}
    <3>1. PICK s \in Sites : DomainOf[s] = q.domain
      BY <1>4 DEF Sited
    <3>2. s \notin sites /\ UNCHANGED sites
      BY <1>5, <1>6, <2>1, <3>1 DEF Lookup, BeginAttempt, tables
    <3>3. OnRecord(q.domain, q.ip)'
      BY <1>3, <3>1, <3>2 DEF OnRecord
    <3> QED BY <1>3, <1>4, <3>3, OneTrace
  <2>2. CASE Lookup(job[w].domain) # {}
    <3>1. job'[w].stage = "recording"
      BY <1>2, <1>6, <2>2 DEF BeginAttempt, Job
    <3> QED BY <1>3, <1>4, <3>1, OneTrace DEF Reported
  <2> QED BY <2>1, <2>2
<1>7. CASE CommitAttempt(w)
  <2>1. job[w].site \in Sites /\ DomainOf[job[w].site] = q.domain
    BY <1>5, <1>7 DEF CommitAttempt, TraceInv, FullInv, BanTypeInv, JobsOK
  <2>2. CASE SiteExists(job[w].site)
    <3> DEFINE a == [id |-> serial', site |-> job[w].site, ip |-> job[w].ip,
                     timestamp |-> job[w].now]
    <3>1. a \in attempts' /\ DomainOf[a.site] = q.domain /\ a.ip = q.ip
      BY <1>5, <1>7, <2>1, <2>2 DEF CommitAttempt
    <3> HIDE DEF a
    <3>2. OnRecord(q.domain, q.ip)'
      BY <1>3, <3>1 DEF OnRecord
    <3> QED BY <1>3, <1>4, <3>2, OneTrace
  <2>3. CASE ~SiteExists(job[w].site)
    <3>1. job[w].site \in Sites \ sites'
      BY <1>7, <2>1, <2>3 DEF CommitAttempt, SiteExists
    <3>2. OnRecord(q.domain, q.ip)'
      BY <1>3, <2>1, <3>1 DEF OnRecord
    <3> QED BY <1>3, <1>4, <3>2, OneTrace
  <2> QED BY <2>2, <2>3
<1>8. CASE BeginCheck(w) \/ CountAttacks(w) \/ SelectBan(w) \/ InsertBan(w)
  <2>1. job[w].stage \notin {"admitted", "recording"}
    BY <1>8 DEF BeginCheck, CountAttacks, SelectBan, InsertBan
  <2>2. Reported(q, job'[w]) => Reported(q, job[w])
    BY <2>1 DEF Reported
  <2> QED BY <1>0, <1>3, <1>4, <2>2, KeepTrace
<1> QED BY <1>6, <1>7, <1>8 DEF Handle

LEMMA TraceStep == TraceInv /\ [Next]_vars => Traced'
<1> SUFFICES ASSUME TraceInv, [Next]_vars PROVE Traced'
  OBVIOUS
<1>0. /\ req \in [Workers -> Request] /\ job \in [Workers -> Job] /\ sites \subseteq Sites
      /\ BanTypeInv /\ Linked /\ Traced
  BY DEF TraceInv, FullInv, IInv, ReqTypes, BanTypeInv, BanTypeOK
<1>1. ASSUME NEW w \in Workers, NEW d \in Domains, NEW i \in Ips, NEW v \in Verdicts,
             RefuseBanned(w, d, i, v)
      PROVE  Traced'
  <2> DEFINE r == [Arrived(d, i, v) EXCEPT !.stage = "done", !.answer = "banned"]
  <2>1. r.stage = "done" /\ r.answer = "banned"
    BY DEF Arrived, NoRequest
  <2>2. Become(w, r) /\ UNCHANGED job
    BY <1>1 DEF RefuseBanned, banVars
  <2> HIDE DEF r
  <2> QED BY <2>1, <2>2, OneTrace DEF Sited, Reported, Answered
<1>2. ASSUME NEW w \in Workers, NEW d \in Domains, NEW i \in Ips, NEW v \in Verdicts,
             Accept(w, d, i, v)
      PROVE  Traced'
  <2> DEFINE r == [Arrived(d, i, v) EXCEPT !.stage = "lookup"]
             j == [job[w] EXCEPT !.stage = "admitted", !.domain = d, !.ip = i]
  <2>1. r.stage = "lookup"
    BY DEF Arrived, NoRequest
  <2>2. Become(w, r) /\ job' = [job EXCEPT ![w] = j]
    BY <1>2 DEF Accept, BanCheck, Admit, AdmitOnFault
  <2> HIDE DEF r, j
  <2> QED BY <2>1, <2>2, OneTrace DEF Sited, Reported
<1>3. ASSUME NEW w \in Workers, Proceed(w)
      PROVE  Traced'
  <2>0. PICK q : q = req[w]
    OBVIOUS
  <2>1. /\ q \in Request /\ LinkedPair(q, job[w])
        /\ Sited(q) /\ (Reported(q, job[w]) => OnRecord(q.domain, q.ip))
    BY <1>0, <2>0 DEF Linked, Traced
  \* A request that has nothing to show yet, or no longer.
  <2>2. ASSUME NEW r, Become(w, r), Spare(w) \/ UNCHANGED job, Sited(r),
               ~Reported(r, job'[w])
        PROVE  Traced'
    BY <2>2, <1>0, SpareStep, OneTrace
  \* After the decision, a request shows what it showed before.
  <2>3. ASSUME NEW r, Become(w, r), UNCHANGED banVars,
               r.domain = q.domain, r.ip = q.ip, r.verdict = q.verdict,
               ~r.trouble => ~q.trouble,
               r.stage \in {"count_blocked", "refuse", "count", "log", "done"},
               q.stage \in {"block", "count_blocked", "refuse", "forward", "count", "log"}
        PROVE  Traced'
    <3>1. Sited(r) /\ (Reported(r, job'[w]) => Reported(q, job[w]))
      BY <2>3 DEF Sited, Reported
    <3> QED BY <2>0, <2>3, <3>1, KeepTrace DEF banVars
  <2> USE DEF At
  <2>5. CASE LookUp(w)
    <3>1. ASSUME NEW s \in Lookup(q.domain), SiteFound(w, s)
          PROVE  Traced'
      <4> DEFINE r == [q EXCEPT !.stage = "limit", !.mode = protected[s]]
      <4>1. r.stage = "limit" /\ r.domain = q.domain
        BY <2>1 DEF Request
      <4>2. Become(w, r) /\ UNCHANGED job
        BY <2>0, <3>1 DEF SiteFound, banVars
      <4>3. s \in Sites /\ DomainOf[s] = q.domain
        BY <1>0 DEF Lookup
      <4> HIDE DEF r
      <4>4. Sited(r) /\ ~Reported(r, job'[w])
        BY <4>1, <4>3 DEF Sited, Reported
      <4> QED BY <2>2, <4>2, <4>4
    <3>2. CASE NotRegistered(w)
      <4> DEFINE r == [q EXCEPT !.stage = "done", !.answer = "unregistered"]
      <4>1. r.stage = "done" /\ r.answer = "unregistered"
        BY <2>1 DEF Request
      <4>2. Become(w, r) /\ Spare(w)
        BY <2>0, <3>2 DEF NotRegistered
      <4> HIDE DEF r
      <4>3. Sited(r) /\ ~Reported(r, job'[w])
        BY <4>1 DEF Sited, Reported, Answered
      <4> QED BY <2>2, <4>2, <4>3
    <3> QED BY <2>0, <2>5, <3>1, <3>2 DEF LookUp, GetSiteInfo
  <2>6. CASE CheckLimit(w)
    <3>1. PICK stage \in {"bypass", "analyse"} : Become(w, [q EXCEPT !.stage = stage])
      BY <2>0, <2>6 DEF CheckLimit
    <3> DEFINE r == [q EXCEPT !.stage = stage]
    <3>2. r.stage = stage /\ r.domain = q.domain
      BY <2>1 DEF Request
    <3>3. UNCHANGED job /\ q.stage = "limit"
      BY <2>0, <2>6 DEF CheckLimit, banVars
    <3> HIDE DEF r
    <3>4. Sited(r) /\ ~Reported(r, job'[w])
      BY <2>1, <3>2, <3>3 DEF Sited, Reported
    <3> QED BY <2>2, <3>1, <3>3, <3>4 DEF r
  <2>7. CASE Bypass(w)
    <3> DEFINE p == [q EXCEPT !.stage = "done", !.bypassed = TRUE]
    <3>1. PICK r \in Relayed(p) \cup Cut(p) : Become(w, r)
      BY <2>0, <2>7 DEF Bypass
    <3>2. p \in Request /\ p.stage = "done" /\ p.bypassed = TRUE
      BY <2>1 DEF Request, Stage
    <3> HIDE DEF p
    <3>3. r.stage = "done" /\ r.bypassed = TRUE
      BY <3>1, <3>2, RelayedSame, CutSame
    <3>4. Sited(r) /\ ~Reported(r, job'[w])
      BY <3>3 DEF Sited, Reported
    <3> QED BY <2>2, <2>7, <3>1, <3>4 DEF Bypass
  <2>8. CASE Analyse(w)
    <3>1. CASE q.verdict = "safe" /\ Become(w, [q EXCEPT !.stage = "forward"]) /\ Spare(w)
      <4> DEFINE r == [q EXCEPT !.stage = "forward"]
      <4>1. r.stage = "forward" /\ r.verdict = "safe"
        BY <2>1, <3>1 DEF Request
      <4> HIDE DEF r
      <4>2. Sited(r) /\ ~Reported(r, job'[w])
        BY <4>1 DEF Sited, Reported
      <4> QED BY <2>2, <3>1, <4>2 DEF r
    <3>2. CASE Become(w, [q EXCEPT !.stage = "banning"]) /\ UNCHANGED banVars
      <4> DEFINE r == [q EXCEPT !.stage = "banning"]
      <4>1. r.stage = "banning" /\ r.domain = q.domain
        BY <2>1 DEF Request
      <4>2. q.stage = "analyse" /\ UNCHANGED job
        BY <2>0, <2>8, <3>2 DEF Analyse, banVars
      <4>3. job'[w].stage = "admitted"
        BY <2>1, <4>2 DEF LinkedPair, Before
      <4> HIDE DEF r
      <4>4. Sited(r) /\ ~Reported(r, job'[w])
        BY <2>1, <4>1, <4>2, <4>3 DEF Sited, Reported
      <4> QED BY <2>2, <3>2, <4>2, <4>4 DEF r
    <3>3. CASE Become(w, [q EXCEPT !.stage = "done", !.trouble = TRUE]) /\ Spare(w)
      <4> DEFINE r == [q EXCEPT !.stage = "done", !.trouble = TRUE]
      <4>1. r.stage = "done" /\ r.trouble = TRUE
        BY <2>1 DEF Request
      <4> HIDE DEF r
      <4>2. Sited(r) /\ ~Reported(r, job'[w])
        BY <4>1 DEF Sited, Reported
      <4> QED BY <2>2, <3>3, <4>2 DEF r
    <3> QED BY <2>0, <2>8, <3>1, <3>2, <3>3 DEF Analyse
  <2>9. CASE BanStep(w)
    <3>1. CASE Handle(w) /\ UNCHANGED req
      BY <2>9, <3>1, HandleTrace DEF BanStep
    <3>2. CASE DbFault(w) /\ Become(w, [q EXCEPT !.trouble = TRUE])
      <4> DEFINE r == [q EXCEPT !.trouble = TRUE]
      <4>1. r.stage = q.stage /\ r.domain = q.domain /\ r.trouble = TRUE
        BY <2>1 DEF Request
      <4>2. PICK j : job' = [job EXCEPT ![w] = j]
        BY <1>0, <3>2, JobStep DEF Leads
      <4> HIDE DEF r
      <4>3. Sited(r) /\ ~Reported(r, job'[w])
        BY <2>1, <4>1 DEF Sited, Reported
      <4> QED BY <3>2, <4>2, <4>3, OneTrace DEF r
    <3> QED BY <2>0, <2>9, <3>1, <3>2 DEF BanStep
  <2>10. CASE Decide(w)
    <3> DEFINE r == [q EXCEPT !.stage = IF q.mode THEN "block" ELSE "forward"]
    <3>1. /\ r.stage \in {"block", "forward"} /\ r.domain = q.domain /\ r.ip = q.ip
          /\ r.verdict = q.verdict /\ r.trouble = q.trouble
      BY <2>1 DEF Request
    <3>2. Become(w, r) /\ UNCHANGED job /\ job[w].stage = "idle" /\ q.stage = "banning"
      BY <2>0, <2>10 DEF Decide, BansDone, banVars
    <3> HIDE DEF r
    <3>3. Sited(r) /\ (Reported(r, job'[w]) => Reported(q, job[w]))
      BY <3>1, <3>2 DEF Sited, Reported
    <3> QED BY <2>0, <3>1, <3>2, <3>3, KeepTrace
  <2>11. CASE LogBlocked(w)
    <3> DEFINE p == [q EXCEPT !.stage = "count_blocked"]
    <3>1. PICK r \in Written(p, "blocked_403") : Become(w, r)
      BY <2>0, <2>11 DEF LogBlocked
    <3>2. /\ p \in Request /\ p.stage = "count_blocked" /\ p.domain = q.domain /\ p.ip = q.ip
          /\ p.verdict = q.verdict /\ p.trouble = q.trouble
      BY <2>1 DEF Request, Stage
    <3> HIDE DEF p
    <3>3. /\ r.stage = "count_blocked" /\ r.domain = q.domain /\ r.ip = q.ip
          /\ r.verdict = q.verdict /\ (~r.trouble => ~q.trouble)
      BY <3>1, <3>2, WrittenSame
    <3> QED BY <2>0, <2>3, <2>11, <3>1, <3>3 DEF LogBlocked
  <2>12. CASE CountBlocked(w)
    <3> DEFINE r == [q EXCEPT !.stage = "refuse", !.counted = TRUE]
    <3>1. /\ r.stage = "refuse" /\ r.domain = q.domain /\ r.ip = q.ip
          /\ r.verdict = q.verdict /\ r.trouble = q.trouble
      BY <2>1 DEF Request
    <3>2. q.stage = "count_blocked" /\ Become(w, r)
      BY <2>0, <2>12 DEF CountBlocked
    <3> HIDE DEF r
    <3> QED BY <2>3, <2>12, <3>1, <3>2 DEF CountBlocked
  <2>13. CASE Refuse(w)
    <3> DEFINE r1 == [q EXCEPT !.stage = "done", !.answer = "blocked"]
               r2 == [q EXCEPT !.stage = "done", !.trouble = TRUE]
    <3>1. /\ r1.stage = "done" /\ r1.domain = q.domain /\ r1.ip = q.ip
          /\ r1.verdict = q.verdict /\ r1.trouble = q.trouble
      BY <2>1 DEF Request
    <3>2. /\ r2.stage = "done" /\ r2.domain = q.domain /\ r2.ip = q.ip
          /\ r2.verdict = q.verdict /\ r2.trouble = TRUE
      BY <2>1 DEF Request
    <3>3. q.stage = "refuse" /\ (Become(w, r1) \/ Become(w, r2))
      BY <2>0, <2>13 DEF Refuse
    <3> HIDE DEF r1, r2
    <3> QED BY <2>3, <2>13, <3>1, <3>2, <3>3 DEF Refuse
  <2>14. CASE Forward(w)
    <3>1. q.stage = "forward"
      BY <2>0, <2>14 DEF Forward
    <3>2. CASE \E r \in Relayed([q EXCEPT !.stage = "count"]) : Become(w, r)
      <4> DEFINE p == [q EXCEPT !.stage = "count"]
      <4>1. PICK r \in Relayed(p) : Become(w, r)
        BY <3>2
      <4>2. /\ p \in Request /\ p.stage = "count" /\ p.domain = q.domain /\ p.ip = q.ip
            /\ p.verdict = q.verdict /\ p.trouble = q.trouble
        BY <2>1 DEF Request, Stage
      <4> HIDE DEF p
      <4>3. /\ r.stage = "count" /\ r.domain = q.domain /\ r.ip = q.ip
            /\ r.verdict = q.verdict /\ r.trouble = q.trouble
        BY <4>1, <4>2, RelayedSame
      <4> QED BY <2>3, <2>14, <3>1, <4>1, <4>3 DEF Forward
    <3>3. CASE \E r \in Cut([q EXCEPT !.stage = "done"]) : Become(w, r)
      <4> DEFINE p == [q EXCEPT !.stage = "done"]
      <4>1. PICK r \in Cut(p) : Become(w, r)
        BY <3>3
      <4>2. p \in Request /\ p.stage = "done"
        BY <2>1 DEF Request, Stage
      <4> HIDE DEF p
      <4>3. r.stage = "done" /\ r.trouble = TRUE
        BY <4>1, <4>2, CutSame
      <4>4. Sited(r) /\ ~Reported(r, job'[w])
        BY <4>3 DEF Sited, Reported
      <4> QED BY <2>2, <2>14, <4>1, <4>4 DEF Forward, banVars
    <3> QED BY <2>0, <2>14, <3>2, <3>3 DEF Forward
  <2>15. CASE Count(w)
    <3> DEFINE r == [q EXCEPT !.stage = "log", !.counted = TRUE]
    <3>1. /\ r.stage = "log" /\ r.domain = q.domain /\ r.ip = q.ip
          /\ r.verdict = q.verdict /\ r.trouble = q.trouble
      BY <2>1 DEF Request
    <3>2. q.stage = "count" /\ Become(w, r)
      BY <2>0, <2>15 DEF Count
    <3> HIDE DEF r
    <3> QED BY <2>3, <2>15, <3>1, <3>2 DEF Count
  <2>16. CASE Log(w)
    <3> DEFINE p == [q EXCEPT !.stage = "done"]
    <3>1. PICK row \in {"passed", "blocked_passed"} :
             \E r \in Written(p, row) : Become(w, r)
      BY <2>0, <2>16 DEF Log, LogForwarded
    <3>2. PICK r \in Written(p, row) : Become(w, r)
      BY <3>1
    <3>3. /\ p \in Request /\ p.stage = "done" /\ p.domain = q.domain /\ p.ip = q.ip
          /\ p.verdict = q.verdict /\ p.trouble = q.trouble
      BY <2>1 DEF Request, Stage
    <3> HIDE DEF p
    <3>4. /\ r.stage = "done" /\ r.domain = q.domain /\ r.ip = q.ip
          /\ r.verdict = q.verdict /\ (~r.trouble => ~q.trouble)
      BY <3>2, <3>3, WrittenSame
    <3>5. q.stage = "log" /\ UNCHANGED banVars
      BY <2>0, <2>16 DEF Log, LogForwarded
    <3> QED BY <2>3, <3>2, <3>4, <3>5
  <2> QED
    BY <1>3, <2>5, <2>6, <2>7, <2>8, <2>9, <2>10, <2>11, <2>12, <2>13, <2>14, <2>15,
       <2>16 DEF Proceed
\* Toggle, a deletion, or a tick of the clock: no request has more to show.
<1>4. ASSUME UNCHANGED job,
             \A w \in Workers : /\ req'[w].stage = req[w].stage
                                /\ req'[w].domain = req[w].domain
                                /\ req'[w].ip = req[w].ip
                                /\ req'[w].verdict = req[w].verdict
                                /\ req'[w].trouble = req[w].trouble
                                /\ req'[w].bypassed = req[w].bypassed
                                /\ req'[w].answer = req[w].answer
      PROVE  Traced'
  <2> SUFFICES ASSUME NEW w \in Workers
               PROVE  (Sited(req[w]) /\ (Reported(req[w], job[w])
                                         => OnRecord(req[w].domain, req[w].ip)))'
    BY DEF Traced
  <2>1. PICK d, i : d = req[w].domain /\ i = req[w].ip
    OBVIOUS
  <2>2. OnRecord(d, i) => OnRecord(d, i)'
    BY <1>0, RecordStays
  <2>3. Sited(req[w]) /\ (Reported(req[w], job[w]) => OnRecord(d, i))
    BY <1>0, <2>1 DEF Traced
  <2> QED BY <1>4, <2>1, <2>2, <2>3 DEF Sited, Reported, OnRecord
<1>5. ASSUME NEW s \in Sites, Toggle(s)
      PROVE  Traced'
  <2>1. ASSUME NEW w \in Workers
        PROVE  \/ req'[w] = req[w]
               \/ req'[w] = [req[w] EXCEPT !.lapsed = @ \/ protected[s]]
    BY <1>5 DEF Toggle
  <2> QED BY <1>0, <1>4, <1>5, <2>1 DEF Toggle, banVars, Request
<1>6. CASE UNCHANGED <<job, req>>
  BY <1>4, <1>6
<1> QED BY <1>1, <1>2, <1>3, <1>5, <1>6 DEF Next, vars, banVars, DeleteSite, Tick

\* Every analysed request is counted and leaves one row that says what its
\* client got, and every attack among them is on record, blocked or not, unless
\* the handler or the database failed or the site was deleted.
THEOREM AuditTrailHolds == Spec => []AuditTrail
<1>1. Init => TraceInv
  BY FullInit DEF Init, TraceInv, Traced, Sited, Reported, NoRequest
<1>2. TraceInv /\ [Next]_vars => TraceInv'
  BY FullStep, Preserve, BanTypesStay, TraceStep DEF TraceInv, FullInv
<1>3. TraceInv => AuditTrail
  BY DEF TraceInv, FullInv, Audited, AuditedReq, Traced, Reported, Answered, AuditTrail
<1> QED BY <1>1, <1>2, <1>3, PTL DEF Spec

-----------------------------------------------------------------------------
(* The bans of the running proxy *)

\* What AutoBan promises holds of the whole pipeline: no threshold of attacks
\* goes unanswered, no ban is without cause, only so many attacks get past one,
\* and the tables follow BanPolicy, whatever becomes of the requests around them.
THEOREM ProxyKeepsBans ==
    Spec => []NoMissedBan /\ []BanJustified /\ []FewAttacks /\ ImplementsPolicy
BY ProxyBans, NoMissedBanHolds, BanJustifiedHolds, FewAttacksHolds, AutoBanImplementsPolicy

=============================================================================
