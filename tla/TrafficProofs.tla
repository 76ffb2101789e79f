---------------------------- MODULE TrafficProofs ----------------------------
(***************************************************************************)
(* Proofs of the safety invariants of TrafficAccounting, for any number of *)
(* threads and domains, any request sizes and limits, and of its           *)
(* refinement of Meter.                                                    *)
(***************************************************************************)
EXTENDS TrafficAccounting, TLAPS

-----------------------------------------------------------------------------
(* The inductive invariant *)

\* The flusher updates the row of the domain it is at.
FlusherOK ==
    /\ flusher.stage \in {"writing", "written"} => flusher.domain \in Domains
    /\ flusher.stage = "writing"
       => flusher.site \in Sites /\ DomainOf[flusher.site] = flusher.domain

\* The entry a handler read inside the lock is still current.
JobsOK ==
    \A w \in Workers :
        /\ job[w].stage # "idle" => job[w].domain \in Domains
        /\ job[w].stage = "locked" => job[w].seen = cache[job[w].domain]

\* Table and cache together never exceed what was served ...
NotOver ==
    \A s \in Sites :
        /\ stats[s].month <= stats[s].total
        /\ stats[s].total + Unflushed(DomainOf[s]) <= served[DomainOf[s]]

\* ... and fall short of it only after a failure.
Balanced ==
    \A s \in Sites :
        SoleSite(s) /\ DomainOf[s] \notin disturbed
        => s \in sites /\ stats[s].total + Unflushed(DomainOf[s]) = served[DomainOf[s]]

TypeInv == TypeOK /\ FlusherOK /\ JobsOK

\* n is a limit some row of the domain is given at times.
Given(d, n) == \E s \in Sites : DomainOf[s] = d /\ n \in Limits[s]

\* What the rows hold and what the handlers carry are such limits.
LimitsOK ==
    /\ \A s \in Sites : limit[s] \in Limits[s]
    /\ \A w \in Workers : job[w].stage \in {"looked_up", "bypassing"}
                         => Given(job[w].domain, job[w].limit)

IInv == TypeInv /\ NotOver /\ Balanced /\ LimitsOK /\ BypassEarned

-----------------------------------------------------------------------------
(* Types and the lock *)

LEMMA TypeInit == Init => TypeInv
BY TrafficAssumption
   DEF Init, TypeInv, TypeOK, FlusherOK, JobsOK, Empty, Asleep, Flusher, NoJob, Job

\* What check_traffic_limit does to the handler.
LEMMA Checked ==
    ASSUME TypeOK, NEW w \in Workers, CheckLimit(w)
    PROVE  \E stage \in {"bypassing", "serving"}, n \in Int :
              job' = [job EXCEPT ![w] = [job[w] EXCEPT !.stage = stage, !.limit = n]]
<1>1. job[w] \in Job /\ job[w].limit \in Int
  BY DEF TypeOK, Job
<1>2. [job[w] EXCEPT !.stage = "bypassing"]
        = [job[w] EXCEPT !.stage = "bypassing", !.limit = job[w].limit]
  BY <1>1 DEF Job
<1>3. CASE job' = [job EXCEPT ![w].stage = "bypassing"]
  <2>1. job' = [job EXCEPT ![w] = [job[w] EXCEPT !.stage = "bypassing"]]
    BY <1>3
  <2>2. job' = [job EXCEPT ![w] = [job[w] EXCEPT !.stage = "bypassing", !.limit = job[w].limit]]
    BY <1>2, <2>1, Zenon
  <2> QED BY <1>1, <2>2, Zenon
<1>4. CASE job' = [job EXCEPT ![w].stage = "serving", ![w].limit = 0]
  <2>1. job' = [job EXCEPT ![w] = [job[w] EXCEPT !.stage = "serving", !.limit = 0]]
    BY <1>4 DEF TypeOK
  <2>2. 0 \in Int
    OBVIOUS
  <2> QED BY <2>1, <2>2, Zenon
<1> QED BY <1>3, <1>4 DEF CheckLimit

\* The fields a handler sets keep its job a job: on the lookup, the check of
\* the limit, the answer and the lock.
LEMMA LookedUpJob ==
    ASSUME NEW j \in Job, NEW d \in Domains, NEW n \in Int
    PROVE  [j EXCEPT !.stage = "looked_up", !.domain = d, !.limit = n] \in Job
  BY DEF Job

LEMMA CheckedJob ==
    ASSUME NEW j \in Job, NEW stage \in {"bypassing", "serving"}, NEW n \in Int
    PROVE  [j EXCEPT !.stage = stage, !.limit = n] \in Job
  BY DEF Job

LEMMA WaitingJob ==
    ASSUME NEW j \in Job, NEW n \in Nat
    PROVE  [j EXCEPT !.stage = "waiting", !.bytes = n] \in Job
  BY DEF Job

LEMMA LockedJob ==
    ASSUME NEW j \in Job, NEW n \in Nat
    PROVE  [j EXCEPT !.stage = "locked", !.seen = n] \in Job
  BY DEF Job

\* A job replaced by a job leaves a table of jobs.
LEMMA OneJob ==
    ASSUME job \in [Workers -> Job], NEW w \in Workers, NEW j \in Job,
           job' = [job EXCEPT ![w] = j]
    PROVE  job' \in [Workers -> Job]
  OBVIOUS

LEMMA TypeStep == TypeInv /\ [Next]_vars => TypeInv'
<1> SUFFICES ASSUME TypeInv, [Next]_vars PROVE TypeInv'
  OBVIOUS
<1> USE TrafficAssumption DEF TypeInv, TypeOK, memory, tables, history
<1>1. ASSUME NEW w \in Workers, NEW d \in Domains, Begin(w, d)
      PROVE  TypeInv'
  <2>1. PICK n \in Int : job' = [job EXCEPT ![w] = [job[w] EXCEPT !.stage = "looked_up",
                                                        !.domain = d, !.limit = n]]
    BY <1>1 DEF Begin, Lookup
  <2>2. [job[w] EXCEPT !.stage = "looked_up", !.domain = d, !.limit = n] \in Job
    BY LookedUpJob, job[w] \in Job, Zenon
  <2>3. job' \in [Workers -> Job]
    BY <2>1, <2>2, OneJob, Zenon
  <2> QED BY <1>1, <2>1, <2>3 DEF Begin, FlusherOK, JobsOK, Job
<1>2. ASSUME NEW w \in Workers, CheckLimit(w)
      PROVE  TypeInv'
  <2>1. PICK stage \in {"bypassing", "serving"}, n \in Int :
           job' = [job EXCEPT ![w] = [job[w] EXCEPT !.stage = stage, !.limit = n]]
    BY <1>2, Checked
  <2>2. [job[w] EXCEPT !.stage = stage, !.limit = n] \in Job
    BY CheckedJob, job[w] \in Job, Zenon
  <2>3. job' \in [Workers -> Job]
    BY <2>1, <2>2, OneJob, Zenon
  <2> QED BY <1>2, <2>1, <2>3 DEF CheckLimit, FlusherOK, JobsOK, Job
<1>3. ASSUME NEW w \in Workers, Bypass(w) \/ Abort(w)
      PROVE  TypeInv'
  <2>1. job[w].stage \in {"bypassing", "serving"} /\ job' = [job EXCEPT ![w] = NoJob]
    BY <1>3 DEF Bypass, Abort, Return
  <2>2. job' \in [Workers -> Job]
    BY <2>1 DEF Job, NoJob
  <2> QED BY <1>3, <2>1, <2>2 DEF Bypass, Abort, FlusherOK, JobsOK, NoJob
<1>4. ASSUME NEW w \in Workers, NEW n \in Sizes, Answer(w, n)
      PROVE  TypeInv'
  <2>1. job' = [job EXCEPT ![w] = [job[w] EXCEPT !.stage = "waiting", !.bytes = n]]
    BY <1>4 DEF Answer
  <2>2. [job[w] EXCEPT !.stage = "waiting", !.bytes = n] \in Job
    BY <1>4, WaitingJob, job[w] \in Job, n \in Nat, Zenon
  <2>3. job' \in [Workers -> Job]
    BY <2>1, <2>2, OneJob, Zenon
  <2> QED BY <1>4, <2>1, <2>3 DEF Answer, FlusherOK, JobsOK, Job
<1>5. ASSUME NEW w \in Workers, Acquire(w)
      PROVE  TypeInv'
  <2> DEFINE n == cache[job[w].domain]
  <2>1. job' = [job EXCEPT ![w] = [job[w] EXCEPT !.stage = "locked", !.seen = n]]
    BY <1>5 DEF Acquire
  <2>2. n \in Nat
    BY <1>5 DEF Acquire, JobsOK
  <2> HIDE DEF n
  <2>6. [job[w] EXCEPT !.stage = "locked", !.seen = n] \in Job
    BY <2>2, LockedJob, job[w] \in Job, Zenon
  <2>3. job' \in [Workers -> Job]
    BY <2>1, <2>6, OneJob, Zenon
  <2> USE DEF n
  <2>4. TypeOK'
    BY <1>5, <2>1, <2>3 DEF Acquire, LockFree, Job
  <2>5. FlusherOK' /\ JobsOK'
    BY <1>5, <2>1, <2>3 DEF Acquire, FlusherOK, JobsOK, Job
  <2> QED BY <2>4, <2>5
<1>6. ASSUME NEW w \in Workers, Account(w)
      PROVE  TypeInv'
  <2> DEFINE d == job[w].domain
  <2>1. d \in Domains /\ job[w].seen + job[w].bytes \in Nat /\ job[w].bytes \in Nat
    BY <1>6 DEF Account, JobsOK, Job
  <2>2. job' = [job EXCEPT ![w] = NoJob]
    BY <1>6 DEF Account, Return
  <2>3. job' \in [Workers -> Job] /\ cache' \in [Domains -> Nat]
    BY <1>6, <2>1, <2>2 DEF Account, Job, NoJob
  <2>4. served' \in [Domains -> Nat]
    BY <1>6, <2>1 DEF Account
  <2>5. TypeOK'
    BY <1>6, <2>2, <2>3, <2>4 DEF Account, NoJob
  <2>6. FlusherOK' /\ JobsOK'
    BY <1>6, <2>2 DEF Account, FlusherOK, JobsOK, NoJob
  <2> QED BY <2>5, <2>6
<1>7. CASE Wake
  BY <1>7 DEF Wake, LockFree, FlusherOK, JobsOK, Flusher
<1>8. ASSUME NEW d \in Domains, SelectSite(d)
      PROVE  TypeInv'
  BY <1>8 DEF SelectSite, Lookup, FlusherOK, JobsOK, Flusher
<1>9. ASSUME Upsert \/ \E applied \in BOOLEAN : UpdateFault(applied)
      PROVE  TypeInv'
  <2>1. stats' \in [Sites -> [month : Nat, total : Nat]]
    BY <1>9 DEF Upsert, UpdateFault, Added, FlusherOK
  <2> QED BY <1>9, <2>1 DEF Upsert, UpdateFault, FlusherOK, JobsOK, Flusher
<1>10. CASE Zero
  BY <1>10 DEF Zero, Zeroed, FlusherOK, JobsOK, Flusher
<1>11. CASE Sleep
  BY <1>11 DEF Sleep, Released, Asleep, FlusherOK, JobsOK, Flusher
<1>12. ASSUME NEW s \in Sites, SetLimit(s) \/ DeleteSite(s)
       PROVE  TypeInv'
  BY <1>12 DEF SetLimit, DeleteSite, FlusherOK, JobsOK
<1>13. CASE NewMonth
  BY <1>13 DEF NewMonth, FlusherOK, JobsOK
<1>14. CASE Restart
  BY <1>14 DEF Restart, Empty, Asleep, NoJob, FlusherOK, JobsOK, Flusher, Job
<1>15. CASE UNCHANGED vars
  BY <1>15 DEF vars, FlusherOK, JobsOK
<1> QED
  BY <1>1, <1>2, <1>3, <1>4, <1>5, <1>6, <1>7, <1>8, <1>9, <1>10, <1>11, <1>12,
     <1>13, <1>14, <1>15 DEF Next, Handle, Flush

-----------------------------------------------------------------------------
(* The ledger: table, cache and traffic served *)

\* What the entries below are about.
LEMMA Amounts ==
    ASSUME TypeInv, NEW s \in Sites
    PROVE  /\ DomainOf[s] \in Domains /\ cache[DomainOf[s]] \in Nat
           /\ served[DomainOf[s]] \in Nat /\ Unflushed(DomainOf[s]) \in Nat
           /\ stats[s].month \in Nat /\ stats[s].total \in Nat
BY TrafficAssumption DEF TypeInv, TypeOK, Unflushed

\* A handler that counts adds the same to the cache and to what was served,
\* and no flush is under way.
LEMMA Counting ==
    ASSUME TypeInv, NEW w \in Workers, Account(w), NEW s \in Sites
    PROVE  \E n \in Nat : /\ Unflushed(DomainOf[s])' = Unflushed(DomainOf[s]) + n
                          /\ served'[DomainOf[s]] = served[DomainOf[s]] + n
<1> DEFINE d == DomainOf[s]
           n == IF job[w].domain = d THEN job[w].bytes ELSE 0
<1>1. flusher.stage = "sleeping" /\ flusher' = flusher
  BY TrafficAssumption DEF Account, TypeInv, TypeOK
<1>2. Unflushed(d) = cache[d] /\ Unflushed(d)' = cache'[d]
  BY <1>1 DEF Unflushed
<1>3. n \in Nat /\ job[w].seen = cache[job[w].domain]
  BY DEF Account, TypeInv, TypeOK, JobsOK, Job
<1>4. cache'[d] = cache[d] + n /\ served'[d] = served[d] + n
  BY <1>3, Amounts DEF Account, TypeInv, TypeOK
<1> QED BY <1>2, <1>3, <1>4

\* The update moves an entry to the table, to the row of one site, or drops it.
LEMMA Updating ==
    ASSUME TypeInv, Upsert \/ (\E applied \in BOOLEAN : UpdateFault(applied)),
           NEW s \in Sites
    PROVE  LET d == DomainOf[s]
           IN  /\ Unflushed(d)' = IF flusher.domain = d THEN 0 ELSE Unflushed(d)
               /\ Unflushed(d) = cache[d]
               /\ \/ stats'[s] = stats[s]
                  \/ /\ flusher.domain = d
                     /\ stats'[s].month = stats[s].month + cache[d]
                     /\ stats'[s].total = stats[s].total + cache[d]
<1> DEFINE d == DomainOf[s]
<1>1. /\ flusher.stage = "writing" /\ cache' = cache
      /\ flusher' = [flusher EXCEPT !.stage = "written"]
      /\ stats' = stats \/ stats' = Added(flusher.site, cache[flusher.domain])
  BY DEF Upsert, UpdateFault
<1>2. flusher'.stage = "written" /\ flusher'.domain = flusher.domain
  BY <1>1 DEF TypeInv, TypeOK, Flusher
<1>3. DomainOf[flusher.site] = flusher.domain /\ flusher.site \in Sites
  BY <1>1 DEF TypeInv, FlusherOK
<1>4. CASE stats' = Added(flusher.site, cache[flusher.domain])
  <2>1. s # flusher.site => stats'[s] = stats[s]
    BY <1>4 DEF Added, TypeInv, TypeOK
  <2>2. s = flusher.site => /\ flusher.domain = d
                            /\ stats'[s].month = stats[s].month + cache[d]
                            /\ stats'[s].total = stats[s].total + cache[d]
    BY <1>3, <1>4 DEF Added, TypeInv, TypeOK
  <2> QED BY <1>1, <1>2, <2>1, <2>2 DEF Unflushed
<1> QED BY <1>1, <1>2, <1>4 DEF Unflushed

\* All other steps leave what was served alone, and the cache or the table can
\* only lose.
LEMMA Others ==
    ASSUME TypeInv, [Next]_vars, NEW s \in Sites,
           ~(\E w \in Workers : Account(w)), ~Upsert,
           ~(\E applied \in BOOLEAN : UpdateFault(applied))
    PROVE  LET d == DomainOf[s]
           IN  /\ served' = served
               /\ Unflushed(d)' = Unflushed(d) \/ Unflushed(d)' = 0
               /\ \/ stats'[s] = stats[s]
                  \/ stats'[s] = [stats[s] EXCEPT !.month = 0]
                  \/ stats'[s] = [month |-> 0, total |-> 0]
<1> USE DEF memory, tables, history
<1> DEFINE d == DomainOf[s]
           Goal == /\ served' = served
                   /\ Unflushed(d)' = Unflushed(d) \/ Unflushed(d)' = 0
                   /\ \/ stats'[s] = stats[s]
                      \/ stats'[s] = [stats[s] EXCEPT !.month = 0]
                      \/ stats'[s] = [month |-> 0, total |-> 0]
<1> SUFFICES Goal
  OBVIOUS
<1>1. CASE UNCHANGED <<cache, flusher, stats, served>>
  BY <1>1 DEF Unflushed
<1>2. CASE Wake \/ Sleep
  BY <1>2 DEF Wake, Sleep, Asleep, Unflushed, TypeInv, TypeOK, Flusher
<1>3. ASSUME NEW e \in Domains, SelectSite(e)
      PROVE  Goal
  BY <1>3 DEF SelectSite, Unflushed, TypeInv, TypeOK, Flusher
<1>4. CASE Zero
  <2>1. flusher'.stage = "scanning" /\ cache' = Zeroed(flusher.domain)
    BY <1>4 DEF Zero
  <2>2. Unflushed(d)' = Unflushed(d) \/ Unflushed(d)' = 0
    BY <1>4, <2>1, Amounts DEF Zero, Zeroed, Unflushed, TypeInv, TypeOK
  <2> QED BY <1>4, <2>2 DEF Zero
<1>5. ASSUME NEW r \in Sites, DeleteSite(r)
      PROVE  Goal
  BY <1>5 DEF DeleteSite, Unflushed, TypeInv, TypeOK
<1>6. CASE NewMonth
  BY <1>6 DEF NewMonth, Unflushed
<1>7. CASE Restart
  BY <1>7, Amounts DEF Restart, Empty, Asleep, Unflushed
<1> HIDE DEF Goal
<1> QED
  BY <1>1, <1>2, <1>3, <1>4, <1>5, <1>6, <1>7 DEF Next, Handle, Flush, Begin, CheckLimit,
     Bypass, Answer, Abort, Acquire, SetLimit, vars

LEMMA NotOverStep == TypeInv /\ NotOver /\ [Next]_vars => NotOver'
<1> SUFFICES ASSUME TypeInv, NotOver, [Next]_vars, NEW s \in Sites
             PROVE  /\ stats'[s].month <= stats'[s].total
                    /\ stats'[s].total + Unflushed(DomainOf[s])' <= served'[DomainOf[s]]
  BY DEF NotOver
<1> DEFINE d == DomainOf[s]
<1>1. /\ cache[d] \in Nat /\ served[d] \in Nat /\ Unflushed(d) \in Nat
      /\ stats[s].month \in Nat /\ stats[s].total \in Nat
  BY Amounts
<1>2. stats[s].month <= stats[s].total /\ stats[s].total + Unflushed(d) <= served[d]
  BY DEF NotOver
<1>3. ASSUME NEW w \in Workers, Account(w)
      PROVE  stats'[s].total + Unflushed(d)' <= served'[d] /\ stats' = stats
  <2>1. stats' = stats
    BY <1>3 DEF Account, tables
  <2>2. PICK n \in Nat : Unflushed(d)' = Unflushed(d) + n /\ served'[d] = served[d] + n
    BY <1>3, Counting
  <2> QED BY <1>1, <1>2, <2>1, <2>2
<1>4. CASE Upsert \/ \E applied \in BOOLEAN : UpdateFault(applied)
  <2>1. served' = served
    BY <1>4 DEF Upsert, UpdateFault, history
  <2>2. /\ Unflushed(d)' = IF flusher.domain = d THEN 0 ELSE Unflushed(d)
        /\ Unflushed(d) = cache[d]
        /\ \/ stats'[s] = stats[s]
           \/ /\ flusher.domain = d
              /\ stats'[s].month = stats[s].month + cache[d]
              /\ stats'[s].total = stats[s].total + cache[d]
    BY <1>4, Updating
  <2>3. CASE flusher.domain = d
    BY <1>1, <1>2, <2>1, <2>2, <2>3
  <2>4. CASE flusher.domain # d
    BY <1>1, <1>2, <2>1, <2>2, <2>4
  <2> QED BY <2>3, <2>4
<1>5. CASE /\ ~(\E w \in Workers : Account(w)) /\ ~Upsert
           /\ ~(\E applied \in BOOLEAN : UpdateFault(applied))
  <2>1. /\ served' = served
        /\ Unflushed(d)' = Unflushed(d) \/ Unflushed(d)' = 0
        /\ \/ stats'[s] = stats[s]
           \/ stats'[s] = [stats[s] EXCEPT !.month = 0]
           \/ stats'[s] = [month |-> 0, total |-> 0]
    BY <1>5, Others
  <2>2. stats'[s].month <= stats'[s].total /\ stats'[s].total <= stats[s].total
        /\ stats'[s].total \in Nat
    BY <1>1, <1>2, <2>1 DEF TypeInv, TypeOK
  <2> QED BY <1>1, <1>2, <2>1, <2>2
<1> QED BY <1>2, <1>3, <1>4, <1>5

LEMMA BalancedStep == TypeInv /\ Balanced /\ [Next]_vars => Balanced'
<1> SUFFICES ASSUME TypeInv, Balanced, [Next]_vars, NEW s \in Sites, SoleSite(s),
                    DomainOf[s] \notin disturbed'
             PROVE  /\ s \in sites'
                    /\ stats'[s].total + Unflushed(DomainOf[s])' = served'[DomainOf[s]]
  BY DEF Balanced, SoleSite
<1> USE DEF memory, tables, history
<1> DEFINE d == DomainOf[s]
<1>1. d \notin disturbed
  BY Amounts DEF Next, Handle, Flush, Begin, CheckLimit, Bypass, Answer, Abort, Acquire, Account,
     Wake, SelectSite, Upsert, UpdateFault, Zero, Sleep, SetLimit, DeleteSite, NewMonth, Restart, vars
<1>2. s \in sites /\ stats[s].total + Unflushed(d) = served[d]
  BY <1>1 DEF Balanced
<1>3. /\ cache[d] \in Nat /\ served[d] \in Nat /\ Unflushed(d) \in Nat
      /\ stats[s].month \in Nat /\ stats[s].total \in Nat
  BY Amounts
<1>4. ASSUME NEW w \in Workers, Account(w)
      PROVE  s \in sites' /\ stats'[s].total + Unflushed(d)' = served'[d]
  <2>1. stats' = stats /\ sites' = sites
    BY <1>4 DEF Account
  <2>2. PICK n \in Nat : Unflushed(d)' = Unflushed(d) + n /\ served'[d] = served[d] + n
    BY <1>4, Counting
  <2> QED BY <1>2, <1>3, <2>1, <2>2
<1>5. CASE Upsert
  <2>1. flusher.domain = d => flusher.site = s
    BY <1>5 DEF Upsert, SoleSite, TypeInv, FlusherOK
  <2>2. flusher.domain = d => stats'[s].total = stats[s].total + cache[d]
    BY <1>2, <1>5, <2>1 DEF Upsert, Added, TypeInv, TypeOK
  <2>3. flusher.domain # d => stats'[s] = stats[s]
    BY <1>5, Updating
  <2>4. Unflushed(d)' = (IF flusher.domain = d THEN 0 ELSE Unflushed(d)) /\ Unflushed(d) = cache[d]
    BY <1>5, Updating
  <2> QED BY <1>2, <1>3, <1>5, <2>2, <2>3, <2>4 DEF Upsert
<1>6. ASSUME NEW applied \in BOOLEAN, UpdateFault(applied)
      PROVE  s \in sites' /\ stats'[s].total + Unflushed(d)' = served'[d]
  <2>1. flusher.domain # d /\ served' = served /\ sites' = sites
    BY <1>6 DEF UpdateFault
  <2>2. Unflushed(d)' = Unflushed(d) /\ stats'[s] = stats[s]
    BY <1>6, <2>1, Updating
  <2> QED BY <1>2, <2>1, <2>2
<1>7. ASSUME NEW e \in Domains, SelectSite(e)
      PROVE  Unflushed(d)' = Unflushed(d) /\ UNCHANGED <<tables, served>>
  <2>1. e = d => Lookup(e) # {}
    BY <1>2 DEF Lookup
  <2>2. flusher'.stage = "written" => flusher'.domain # d
    BY <1>7, <2>1 DEF SelectSite, TypeInv, TypeOK, Flusher
  <2> QED BY <1>7, <2>2 DEF SelectSite, Unflushed
<1>8. CASE Zero
  <2>1. flusher'.stage = "scanning" /\ cache' = Zeroed(flusher.domain)
    BY <1>8 DEF Zero
  <2>2. Unflushed(d)' = Unflushed(d)
    BY <1>8, <2>1, Amounts DEF Zero, Zeroed, Unflushed, TypeInv, TypeOK
  <2> QED BY <1>2, <1>8, <2>2 DEF Zero
<1>9. CASE Wake \/ Sleep
  <2>1. flusher'.stage # "written" /\ flusher.stage # "written"
    <3>1. flusher \in Flusher
      BY DEF TypeInv, TypeOK
    <3>2. CASE Wake
      BY <3>1, <3>2 DEF Wake, Flusher
    <3>3. CASE Sleep
      BY <3>3 DEF Sleep, Asleep
    <3> QED BY <1>9, <3>2, <3>3
  <2>2. UNCHANGED <<cache, tables, served>>
    BY <1>9 DEF Wake, Sleep
  <2> QED BY <1>2, <2>1, <2>2 DEF Unflushed
<1>10. ASSUME NEW r \in Sites, DeleteSite(r)
       PROVE  s \in sites' /\ stats'[s] = stats[s] /\ UNCHANGED <<memory, served>>
  BY <1>2, <1>10 DEF DeleteSite, TypeInv, TypeOK
<1>11. CASE NewMonth
  <2>1. stats'[s].total = stats[s].total /\ UNCHANGED <<memory, sites, served>>
    BY <1>11 DEF NewMonth, TypeInv, TypeOK
  <2> QED BY <1>2, <2>1 DEF Unflushed
<1>12. ~Restart
  BY Amounts DEF Restart
<1>13. CASE UNCHANGED <<cache, flusher, sites, stats, served>>
  BY <1>2, <1>13 DEF Unflushed
<1>14. CASE \E r \in Sites : DeleteSite(r)
  BY <1>2, <1>10, <1>14 DEF Unflushed
<1>15. CASE \E e \in Domains : SelectSite(e)
  BY <1>2, <1>7, <1>15
<1> QED
  BY <1>4, <1>5, <1>6, <1>8, <1>9, <1>11, <1>12, <1>13, <1>14, <1>15 DEF Next, Handle,
     Flush, Begin, CheckLimit, Bypass, Answer, Abort, Acquire, SetLimit, vars

\* How a handler's stage changes: it is told a limit of its domain, finds one
\* reached, or goes where limits are not looked at.
LEMMA Handlers ==
    ASSUME TypeInv, [Next]_vars, NEW w \in Workers,
           job'[w].stage \in {"looked_up", "bypassing"}
    PROVE  \/ job'[w] = job[w]
           \/ /\ job'[w].stage = "looked_up"
              /\ \E s \in Sites : DomainOf[s] = job'[w].domain /\ job'[w].limit = limit[s]
           \/ /\ job[w].stage = "looked_up" /\ job'[w].stage = "bypassing"
              /\ job'[w].domain = job[w].domain /\ job'[w].limit = job[w].limit
              /\ OverLimit(job[w].domain, job[w].limit)
              /\ served' = served
<1> USE DEF TypeInv, TypeOK, memory, tables, history
<1>1. ASSUME NEW v \in Workers, NEW d \in Domains, Begin(v, d)
      PROVE  \/ job'[w] = job[w]
             \/ /\ job'[w].stage = "looked_up"
                /\ \E s \in Sites : DomainOf[s] = job'[w].domain /\ job'[w].limit = limit[s]
  <2>1. PICK s \in Lookup(d) :
           job' = [job EXCEPT ![v].stage = "looked_up", ![v].domain = d, ![v].limit = limit[s]]
    BY <1>1 DEF Begin
  <2>2. s \in Sites /\ DomainOf[s] = d
    BY DEF Lookup
  <2> QED BY <2>1, <2>2 DEF Job
<1>2. ASSUME CheckLimit(w)
      PROVE  /\ job[w].stage = "looked_up" /\ job'[w].stage = "bypassing"
             /\ job'[w].domain = job[w].domain /\ job'[w].limit = job[w].limit
             /\ OverLimit(job[w].domain, job[w].limit)
             /\ served' = served
  BY <1>2 DEF CheckLimit, Job
<1>3. ASSUME NEW v \in Workers, Bypass(v) \/ Abort(v) \/ Account(v)
      PROVE  job'[w] = job[w]
  BY <1>3 DEF Bypass, Abort, Account, Return, NoJob
<1>4. ASSUME NEW v \in Workers, Acquire(v)
      PROVE  job'[w] = job[w]
  BY <1>4 DEF Acquire, Job
<1>5. ASSUME NEW v \in Workers, NEW n \in Sizes, Answer(v, n)
      PROVE  job'[w] = job[w]
  BY <1>5 DEF Answer, Job
<1>6. ASSUME NEW v \in Workers, v # w, CheckLimit(v)
      PROVE  job'[w] = job[w]
  BY <1>6 DEF CheckLimit
<1>7. ~Restart
  BY DEF Restart, NoJob
<1>8. CASE job' = job
  BY <1>8
<1> QED
  BY <1>1, <1>2, <1>3, <1>4, <1>5, <1>6, <1>7, <1>8 DEF Next, Handle, Flush, Wake,
     SelectSite, Upsert, UpdateFault, Zero, Sleep, SetLimit, DeleteSite, NewMonth, vars

LEMMA LimitsStep == TypeInv /\ LimitsOK /\ [Next]_vars => LimitsOK'
<1> SUFFICES ASSUME TypeInv, LimitsOK, [Next]_vars PROVE LimitsOK'
  OBVIOUS
<1> USE TrafficAssumption DEF LimitsOK
<1>1. ASSUME NEW s \in Sites
      PROVE  limit'[s] \in Limits[s]
  <2>1. CASE limit' = limit
    BY <2>1
  <2>2. ASSUME NEW r \in Sites, SetLimit(r)
        PROVE  limit'[s] \in Limits[s]
    BY <2>2 DEF SetLimit, TypeInv, TypeOK
  <2> QED
    BY <2>1, <2>2 DEF Next, Handle, Flush, Begin, CheckLimit, Bypass, Answer, Abort,
       Acquire, Account, Wake, SelectSite, Upsert, UpdateFault, Zero, Sleep,
       DeleteSite, NewMonth, Restart, vars, memory, tables, history
<1>2. ASSUME NEW w \in Workers, job'[w].stage \in {"looked_up", "bypassing"}
      PROVE  Given(job'[w].domain, job'[w].limit)
  BY <1>2, Handlers DEF Given
<1> QED BY <1>1, <1>2 DEF Given

\* What a domain was served never shrinks, and no row has more than that of a
\* month: a limit found reached, in whatever row, has been served.
LEMMA BypassStep ==
    TypeInv /\ NotOver /\ LimitsOK /\ BypassEarned /\ [Next]_vars => BypassEarned'
<1> SUFFICES ASSUME TypeInv, NotOver, LimitsOK, BypassEarned, [Next]_vars,
                    NEW w \in Workers, job'[w].stage = "bypassing"
             PROVE  \E s \in Sites : /\ DomainOf[s] = job'[w].domain
                                     /\ job'[w].limit \in Limits[s]
                                     /\ 0 < job'[w].limit
                                     /\ job'[w].limit <= served'[job'[w].domain]
  BY DEF BypassEarned
<1> DEFINE n == job[w].limit
           d == job[w].domain
<1>1. n \in Int
  BY DEF TypeInv, TypeOK, Job
<1>2. ASSUME NEW s \in Sites
      PROVE  served'[DomainOf[s]] >= served[DomainOf[s]]
  <2>1. CASE \E v \in Workers : Account(v)
    BY <2>1, Counting, Amounts
  <2>2. CASE served' = served
    BY <2>2, Amounts
  <2> QED BY <2>1, <2>2, Others DEF Upsert, UpdateFault, history
<1>3. CASE /\ job[w].stage = "looked_up"
           /\ job'[w].domain = d /\ job'[w].limit = n
           /\ OverLimit(d, n) /\ served' = served
  <2>1. PICK s \in Sites : DomainOf[s] = d /\ n \in Limits[s]
    BY <1>3 DEF LimitsOK, Given
  <2>2. PICK r \in Sites : DomainOf[r] = d /\ stats[r].month >= n
    BY <1>3 DEF OverLimit, Lookup, TypeInv, TypeOK
  <2>3. served[d] >= stats[r].total /\ stats[r].total >= stats[r].month
    BY <2>2, Amounts DEF NotOver
  <2>4. served[d] \in Nat /\ stats[r].total \in Nat /\ stats[r].month \in Nat
    BY <2>2, Amounts
  <2>5. n <= served[d] /\ 0 < n
    BY <1>1, <1>3, <2>2, <2>3, <2>4 DEF OverLimit
  <2> QED BY <1>3, <2>1, <2>5
<1>4. CASE job'[w] = job[w]
  <2>1. PICK s \in Sites : DomainOf[s] = d /\ n \in Limits[s] /\ 0 < n /\ n <= served[d]
    BY <1>4 DEF BypassEarned
  <2>2. served'[d] \in Nat /\ served[d] \in Nat /\ served'[d] >= served[d]
    BY <1>2, <2>1, TypeStep, Amounts DEF TypeInv, TypeOK
  <2> QED BY <1>1, <1>4, <2>1, <2>2
<1> QED BY <1>3, <1>4, Handlers

-----------------------------------------------------------------------------
(* The theorems *)

LEMMA IInvHolds == Spec => []IInv
<1>1. Init => IInv
  <2> SUFFICES ASSUME Init PROVE NotOver /\ Balanced /\ LimitsOK /\ BypassEarned
    BY TypeInit DEF IInv
  <2> USE TrafficAssumption DEF Init, Empty, Asleep, Unflushed
  <2>1. NotOver /\ Balanced
    BY DEF NotOver, Balanced
  <2>2. LimitsOK /\ BypassEarned
    BY DEF LimitsOK, BypassEarned, NoJob
  <2> QED BY <2>1, <2>2
<1>2. IInv /\ [Next]_vars => IInv'
  BY TypeStep, NotOverStep, BalancedStep, LimitsStep, BypassStep DEF IInv
<1> QED BY <1>1, <1>2, PTL DEF Spec

\* The variables keep their types and cache_lock excludes: at most one thread,
\* handler or flusher, is between its acquisition and its release.
THEOREM TypeCorrect == Spec => []TypeOK
<1>1. IInv => TypeOK
  BY DEF IInv, TypeInv
<1> QED BY <1>1, IInvHolds, PTL

\* No byte is written to accounts_trafficstats twice.
THEOREM AtMostOnceHolds == Spec => []AtMostOnce
<1>1. IInv => AtMostOnce
  <2> SUFFICES ASSUME IInv, NEW s \in Sites
               PROVE  stats[s].total <= served[DomainOf[s]]
    BY DEF AtMostOnce
  <2> QED BY Amounts DEF IInv, NotOver
<1> QED BY <1>1, IInvHolds, PTL

\* Between the handlers, the cache and the flusher no byte is lost.
THEOREM NothingLostHolds == Spec => []NothingLost
<1>1. IInv => NothingLost
  BY TrafficAssumption DEF IInv, TypeInv, TypeOK, Balanced, NothingLost, Unflushed
<1> QED BY <1>1, IInvHolds, PTL

\* The analyser is bypassed only by a limit that was set for a row of the domain,
\* if not the row whose usage reached it, and that the domain has served.
THEOREM BypassEarnedHolds == Spec => []BypassEarned
<1>1. IInv => BypassEarned
  BY DEF IInv
<1> QED BY <1>1, IInvHolds, PTL

-----------------------------------------------------------------------------
(* Refinement of Meter *)

Registered(d) == \E s \in Sites : DomainOf[s] = d

\* A row that is gone has left its mark on its domain; only domains that have
\* or had a row are served; and what a handler counts is the size of a request.
Marked ==
    /\ \A s \in Sites \ sites : DomainOf[s] \in disturbed
    /\ \A d \in Domains : cache[d] > 0 => Registered(d)
    /\ \A w \in Workers :
          /\ job[w].stage # "idle" => Registered(job[w].domain)
          /\ job[w].stage \in {"waiting", "locked"} => job[w].bytes \in Sizes

LEMMA MarkedStep == TypeInv /\ Marked /\ [Next]_vars => Marked'
<1> SUFFICES ASSUME TypeInv, Marked, [Next]_vars PROVE Marked'
  OBVIOUS
<1> USE TrafficAssumption DEF TypeInv, TypeOK, memory, tables, history
\* One handler goes on, and adds at most to an entry of its domain.
<1>1. ASSUME NEW w \in Workers, NEW j, job' = [job EXCEPT ![w] = j],
             j.stage # "idle" => Registered(j.domain),
             j.stage \in {"waiting", "locked"} => j.bytes \in Sizes,
             \A d \in Domains : cache'[d] > 0 => Registered(d),
             UNCHANGED <<sites, disturbed>>
      PROVE  Marked'
  BY <1>1 DEF Marked, Registered
<1>2. ASSUME NEW w \in Workers, NEW d \in Domains, Begin(w, d)
      PROVE  Marked'
  <2>0. PICK s \in Lookup(d) :
           job' = [job EXCEPT ![w].stage = "looked_up", ![w].domain = d, ![w].limit = limit[s]]
    BY <1>2 DEF Begin
  <2> DEFINE j == [job[w] EXCEPT !.stage = "looked_up", !.domain = d, !.limit = limit[s]]
  <2>1. j.stage = "looked_up" /\ j.domain = d
    BY DEF Job
  <2>2. Registered(d)
    BY <2>0 DEF Lookup, Registered
  <2>3. job' = [job EXCEPT ![w] = j] /\ UNCHANGED <<cache, sites, disturbed>>
    BY <1>2, <2>0 DEF Begin
  <2> HIDE DEF j
  <2> QED BY <1>1, <2>1, <2>2, <2>3 DEF Marked
<1>3. ASSUME NEW w \in Workers, CheckLimit(w)
      PROVE  Marked'
  <2>1. PICK stage \in {"bypassing", "serving"}, n \in Int :
           job' = [job EXCEPT ![w] = [job[w] EXCEPT !.stage = stage, !.limit = n]]
    BY <1>3, Checked
  <2> DEFINE j == [job[w] EXCEPT !.stage = stage, !.limit = n]
  <2>2. j.stage = stage /\ j.domain = job[w].domain /\ job[w].stage = "looked_up"
    BY <1>3 DEF CheckLimit, Job
  <2>3. UNCHANGED <<cache, sites, disturbed>>
    BY <1>3 DEF CheckLimit
  <2> HIDE DEF j
  <2> QED BY <1>1, <2>1, <2>2, <2>3 DEF Marked, j
<1>4. ASSUME NEW w \in Workers, Bypass(w) \/ Abort(w)
      PROVE  Marked'
  BY <1>1, <1>4 DEF Bypass, Abort, Return, NoJob, Marked
<1>5. ASSUME NEW w \in Workers, NEW n \in Sizes, Answer(w, n)
      PROVE  Marked'
  <2> DEFINE j == [job[w] EXCEPT !.stage = "waiting", !.bytes = n]
  <2>1. j.domain = job[w].domain /\ j.bytes = n /\ job[w].stage = "serving"
    BY <1>5 DEF Answer, Job
  <2>2. job' = [job EXCEPT ![w] = j] /\ UNCHANGED <<cache, sites, disturbed>>
    BY <1>5 DEF Answer
  <2> HIDE DEF j
  <2> QED BY <1>1, <2>1, <2>2 DEF Marked
<1>6. ASSUME NEW w \in Workers, Acquire(w)
      PROVE  Marked'
  <2> DEFINE j == [job[w] EXCEPT !.stage = "locked", !.seen = cache[job[w].domain]]
  <2>1. j.domain = job[w].domain /\ j.bytes = job[w].bytes /\ job[w].stage = "waiting"
    BY <1>6 DEF Acquire, Job
  <2>2. job' = [job EXCEPT ![w] = j] /\ UNCHANGED <<cache, sites, disturbed>>
    BY <1>6 DEF Acquire
  <2> HIDE DEF j
  <2> QED BY <1>1, <2>1, <2>2 DEF Marked
<1>7. ASSUME NEW w \in Workers, Account(w)
      PROVE  Marked'
  <2>1. \A d \in Domains : cache'[d] > 0 => Registered(d)
    BY <1>7 DEF Account, Marked
  <2> QED BY <1>1, <1>7, <2>1 DEF Account, Return, NoJob
<1>8. CASE Zero
  BY <1>8 DEF Zero, Zeroed, Marked, Registered
<1>9. ASSUME NEW s \in Sites, DeleteSite(s)
      PROVE  Marked'
  BY <1>9 DEF DeleteSite, Marked, Registered
<1>10. CASE Restart
  BY <1>10 DEF Restart, Empty, NoJob, Marked, Registered
<1>11. ASSUME UNCHANGED <<cache, job, sites>>, disturbed \subseteq disturbed'
       PROVE  Marked'
  BY <1>11 DEF Marked, Registered
<1>12. ASSUME Upsert \/ \E applied \in BOOLEAN : UpdateFault(applied)
       PROVE  Marked'
  BY <1>11, <1>12 DEF Upsert, UpdateFault
<1>13. ASSUME \/ Wake \/ Sleep \/ NewMonth \/ UNCHANGED vars
              \/ \E d \in Domains : SelectSite(d)
              \/ \E s \in Sites : SetLimit(s)
       PROVE  Marked'
  BY <1>11, <1>13 DEF Wake, Sleep, NewMonth, SelectSite, SetLimit, vars
<1> QED
  BY <1>2, <1>3, <1>4, <1>5, <1>6, <1>7, <1>8, <1>9, <1>10, <1>12, <1>13
     DEF Next, Handle, Flush

pend == [d \in Domains |-> Unflushed(d)]
bill == [s \in Sites |-> stats[s].total]

LEMMA PendingIs ==
    ASSUME TypeInv
    PROVE  /\ \A d \in Domains : Unflushed(d) \in Nat
           /\ flusher.stage # "written" => pend = cache
BY DEF TypeInv, TypeOK, Unflushed, pend

\* A handler that counts is a step of the meter: its request is served.
LEMMA AccountServes ==
    ASSUME TypeInv, Marked, NEW w \in Workers, Account(w)
    PROVE  Billing!Serve(job[w].domain) /\ job[w].domain \in Domains
<1> DEFINE d == job[w].domain
<1>1. /\ d \in Domains /\ job[w].seen = cache[d] /\ job[w].bytes \in Sizes
      /\ flusher.stage = "sleeping"
  BY TrafficAssumption DEF Account, TypeInv, TypeOK, JobsOK, Marked
<1>2. UNCHANGED <<flusher, stats, disturbed>> /\ cache' = [cache EXCEPT ![d] = @ + job[w].bytes]
  BY <1>1 DEF Account, tables, TypeInv, TypeOK
<1>3. pend = cache /\ pend' = cache'
  BY <1>1, <1>2 DEF pend, Unflushed, TypeInv, TypeOK
<1>4. pend' = [pend EXCEPT ![d] = @ + job[w].bytes]
  BY <1>2, <1>3
<1>5. bill' = bill /\ disturbed' = disturbed
  BY <1>2 DEF bill
<1> HIDE DEF d
<1> QED BY <1>1, <1>4, <1>5 DEF Billing!Serve, pend, bill, d

\* An update bills its row, if the row is still there and the transaction was
\* done, and otherwise loses the entry: a row that is gone has left a mark.
LEMMA UpdateBills ==
    ASSUME TypeInv, Marked, Upsert \/ \E applied \in BOOLEAN : UpdateFault(applied)
    PROVE  (\E s \in Sites : Billing!Bill(s)) \/ (\E d \in Domains : Billing!Lose({d}))
<1> DEFINE d == flusher.domain
           s == flusher.site
<1>1. /\ flusher.stage = "writing" /\ cache' = cache
      /\ flusher' = [flusher EXCEPT !.stage = "written"]
  BY DEF Upsert, UpdateFault
<1>2. d \in Domains /\ s \in Sites /\ DomainOf[s] = d
  BY <1>1 DEF TypeInv, FlusherOK
<1>3. flusher'.stage = "written" /\ flusher'.domain = d
  BY <1>1 DEF TypeInv, TypeOK, Flusher
<1>4. pend = cache /\ pend' = [e \in Domains |-> IF e = d THEN 0 ELSE cache[e]]
  BY <1>1, <1>3 DEF pend, Unflushed, TypeInv, TypeOK
<1>5. CASE stats' = Added(s, cache[d]) /\ disturbed' \in {disturbed, disturbed \cup {d}}
  <2>1. bill' = [bill EXCEPT ![s] = @ + pend[d]]
    BY <1>2, <1>4, <1>5 DEF bill, Added, TypeInv, TypeOK
  <2>2. pend' = [pend EXCEPT ![d] = 0]
    BY <1>2, <1>4 DEF TypeInv, TypeOK
  <2> HIDE DEF d, s
  <2> QED BY <1>2, <1>5, <2>1, <2>2 DEF Billing!Bill, pend, bill
<1>6. CASE stats' = stats /\ disturbed' = disturbed \cup {d}
  <2>1. bill' = bill /\ pend' = [e \in Domains |-> IF e \in {d} THEN 0 ELSE pend[e]]
    BY <1>4, <1>6 DEF bill
  <2> HIDE DEF d
  <2> QED BY <1>2, <1>6, <2>1 DEF Billing!Lose, pend, bill
<1>7. CASE Upsert
  BY <1>2, <1>5, <1>6, <1>7 DEF Upsert, Marked, history
<1>8. CASE \E applied \in BOOLEAN : UpdateFault(applied)
  BY <1>5, <1>6, <1>8 DEF UpdateFault
<1> QED BY <1>7, <1>8

\* Without a row the entry of a domain is lost, unless nothing was in it.
LEMMA SelectLoses ==
    ASSUME TypeInv, Marked, NEW d \in Domains, SelectSite(d)
    PROVE  Billing!Lose({d}) \/ UNCHANGED <<pend, bill, disturbed>>
<1>1. /\ flusher.stage = "scanning" /\ d \in flusher.todo
      /\ UNCHANGED <<cache, sites, stats, disturbed>>
  BY DEF SelectSite, tables, history
<1>2. pend = cache /\ bill' = bill
  BY <1>1, PendingIs DEF bill
<1>3. CASE \E s \in Lookup(d) :
             flusher' = [flusher EXCEPT !.stage = "writing", !.domain = d, !.site = s]
  <2>1. flusher'.stage = "writing"
    BY <1>3 DEF TypeInv, TypeOK, Flusher
  <2> QED BY <1>1, <1>2, <2>1 DEF pend, Unflushed, TypeInv, TypeOK
<1>4. CASE Lookup(d) = {} /\ flusher' = [flusher EXCEPT !.stage = "written", !.domain = d]
  <2>1. flusher'.stage = "written" /\ flusher'.domain = d
    BY <1>4 DEF TypeInv, TypeOK, Flusher
  <2>2. pend' = [e \in Domains |-> IF e \in {d} THEN 0 ELSE pend[e]]
    BY <1>1, <1>2, <2>1 DEF pend, Unflushed, TypeInv, TypeOK
  <2>3. CASE Registered(d)
    <3>1. d \in disturbed
      BY <1>4, <2>3 DEF Registered, Lookup, Marked
    <3>2. disturbed' = disturbed \cup {d}
      BY <1>1, <3>1
    <3> QED BY <1>2, <2>2, <3>2 DEF Billing!Lose, pend, bill
  <2>4. CASE ~Registered(d)
    <3>1. pend[d] = 0
      BY <1>2, <2>4 DEF Marked, TypeInv, TypeOK
    <3>2. pend' = pend
      BY <2>2, <3>1 DEF pend
    <3> QED BY <1>1, <1>2, <3>2
  <2> QED BY <2>3, <2>4
<1> QED BY <1>3, <1>4 DEF SelectSite

\* The zeroing is no news: what it removes has been billed or lost before.
LEMMA QuietSteps ==
    ASSUME TypeInv, Zero \/ Wake \/ Sleep \/ NewMonth \/ UNCHANGED <<cache, flusher, stats, disturbed>>
    PROVE  UNCHANGED <<pend, bill, disturbed>>
<1> USE DEF memory, tables, history
<1>1. CASE Zero
  <2>1. flusher.stage = "written" /\ flusher'.stage = "scanning" /\ cache' = Zeroed(flusher.domain)
    BY <1>1 DEF Zero
  <2>2. \A d \in Domains : Unflushed(d)' = Unflushed(d)
    BY <2>1 DEF Zeroed, Unflushed, TypeInv, TypeOK, FlusherOK
  <2> QED BY <1>1, <2>2 DEF Zero, pend, bill
<1>2. CASE Wake \/ Sleep
  <2>1. flusher.stage # "written" /\ flusher'.stage # "written"
    <3>1. flusher \in Flusher
      BY DEF TypeInv, TypeOK
    <3>2. CASE Wake
      BY <3>1, <3>2 DEF Wake, Flusher
    <3>3. CASE Sleep
      BY <3>3 DEF Sleep, Asleep
    <3> QED BY <1>2, <3>2, <3>3
  <2>2. UNCHANGED <<cache, stats, disturbed>>
    BY <1>2 DEF Wake, Sleep
  <2> QED BY <2>1, <2>2 DEF pend, bill, Unflushed
<1>3. CASE NewMonth
  <2>1. \A s \in Sites : stats'[s].total = stats[s].total
    BY <1>3 DEF NewMonth, TypeInv, TypeOK
  <2> QED BY <1>3, <2>1 DEF NewMonth, pend, bill, Unflushed
<1>4. CASE UNCHANGED <<cache, flusher, stats, disturbed>>
  BY <1>4 DEF pend, bill, Unflushed
<1> QED BY <1>1, <1>2, <1>3, <1>4

LEMMA MeterStep ==
    ASSUME TypeInv, Marked, [Next]_vars
    PROVE  Billing!Next \/ UNCHANGED <<pend, bill, disturbed>>
<1> USE DEF memory, tables, history
<1>1. ASSUME NEW w \in Workers, Account(w)
      PROVE  Billing!Next
  <2>1. Billing!Serve(job[w].domain) /\ job[w].domain \in Domains
    BY <1>1, AccountServes
  <2> QED BY <2>1 DEF Billing!Next
<1>2. CASE Upsert \/ \E applied \in BOOLEAN : UpdateFault(applied)
  <2>1. (\E s \in Sites : Billing!Bill(s)) \/ (\E d \in Domains : Billing!Lose({d}))
    BY <1>2, UpdateBills
  <2> QED BY <2>1 DEF Billing!Next
<1>3. ASSUME NEW d \in Domains, SelectSite(d)
      PROVE  Billing!Next \/ UNCHANGED <<pend, bill, disturbed>>
  <2>1. Billing!Lose({d}) \/ UNCHANGED <<pend, bill, disturbed>>
    BY <1>3, SelectLoses
  <2> QED BY <2>1 DEF Billing!Next
<1>4. ASSUME NEW s \in Sites, DeleteSite(s)
      PROVE  Billing!Next
  <2>1. bill' = [bill EXCEPT ![s] = 0]
    BY <1>4 DEF DeleteSite, bill, TypeInv, TypeOK
  <2>2. pend' = pend /\ disturbed' = disturbed \cup {DomainOf[s]}
    BY <1>4 DEF DeleteSite, pend, Unflushed
  <2>3. Billing!Forget(s)
    BY <2>1, <2>2 DEF Billing!Forget, pend, bill
  <2> QED BY <2>3 DEF Billing!Next
<1>5. CASE Restart
  <2>1. pend' = [d \in Domains |-> IF d \in Domains THEN 0 ELSE pend[d]] /\ bill' = bill
    BY <1>5 DEF Restart, Empty, Asleep, pend, bill, Unflushed
  <2>2. disturbed' = disturbed \cup Domains
    BY <1>5 DEF Restart, TypeInv, TypeOK
  <2>3. Billing!Lose(Domains)
    BY <2>1, <2>2 DEF Billing!Lose, pend, bill
  <2> QED BY <2>3 DEF Billing!Next
<1>6. CASE Zero \/ Wake \/ Sleep \/ NewMonth \/ UNCHANGED <<cache, flusher, stats, disturbed>>
  BY <1>6, QuietSteps
<1> QED
  BY <1>1, <1>2, <1>3, <1>4, <1>5, <1>6 DEF Next, Handle, Flush, Begin, CheckLimit,
     Bypass, Answer, Abort, Acquire, SetLimit, vars

\* The flush thread, the cache and its lock together are a meter: each flush of
\* an entry is one step, which bills all of it to one row, and bytes are lost
\* only for domains that met a failure, a restart or a deletion.
THEOREM TrafficImplementsMeter == Spec => ImplementsMeter
<1>1. Init => TypeInv /\ Marked /\ Billing!Init
  <2> SUFFICES ASSUME Init PROVE Marked /\ Billing!Init
    BY TypeInit
  <2>1. Marked
    BY TrafficAssumption DEF Init, Marked, Empty, NoJob
  <2>2. Billing!Init
    BY TrafficAssumption DEF Init, Billing!Init, Empty, Asleep, Unflushed
  <2> QED BY <2>1, <2>2
<1>2. TypeInv /\ Marked /\ [Next]_vars => (TypeInv /\ Marked)'
  BY TypeStep, MarkedStep
<1>3. TypeInv /\ Marked /\ [Next]_vars => [Billing!Next]_(Billing!vars)
  BY MeterStep DEF Billing!vars, pend, bill
<1> QED BY <1>1, <1>2, <1>3, PTL DEF Spec, ImplementsMeter, Billing!Spec

=============================================================================
