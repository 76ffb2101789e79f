-------------------------- MODULE TrafficAccounting --------------------------
(***************************************************************************)
(* Traffic accounting in engine/proxy/server.py: handler threads add the   *)
(* bytes of each request to traffic_cache under cache_lock, the flush      *)
(* thread moves the cache into accounts_trafficstats, one transaction per  *)
(* domain, and check_traffic_limit compares the month of a row of the      *)
(* domain with the limit that an earlier query read from a row of it.      *)
(*                                                                         *)
(* The three counters of a cache entry are one number here, bytes_in +     *)
(* bytes_out: the limit adds them up, and requests is never read.  The     *)
(* daily rows of a site are kept as two sums, this month's and the whole.  *)
(***************************************************************************)
EXTENDS Integers

CONSTANTS Workers,    \* handler threads
          Domains,    \* domains clients ask for
          Sites,      \* ids of accounts_protectedsite rows
          DomainOf,   \* the domain column: [Sites -> Domains], not unique
          Limits,     \* what each site's traffic_limit_mb is set to at times
          Sizes,      \* how many bytes a request can count for
          None,       \* no value
          MaxBytes    \* bound: once a domain was served so much, no answer counts

ASSUME TrafficAssumption ==
    /\ DomainOf \in [Sites -> Domains]
    /\ Limits \in [Sites -> SUBSET Int]
    /\ Sizes \subseteq Nat
    /\ MaxBytes \in Nat
    /\ None \notin Sites \cup Domains \cup Workers
    /\ {"flusher", "free"} \cap Workers = {}

VARIABLES cache,      \* traffic_cache: bytes by domain
          lock,       \* who holds cache_lock
          flusher,    \* the flush thread
          job,        \* the handler threads
          sites,      \* the site rows that exist
          limit,      \* traffic_limit_mb by site, none unless positive
          stats,      \* accounts_trafficstats, summed by site
          served,     \* history: bytes ever added to the cache, by domain
          disturbed   \* history: domains that met a failure or a deletion

memory == <<cache, lock, flusher, job>>
tables == <<sites, limit, stats>>
history == <<served, disturbed>>
vars == <<memory, tables, history>>

-----------------------------------------------------------------------------

\* limit: what get_site_info_from_db returned, while it matters; bytes: what the
\* request counts for; seen: the cache entry read inside the lock.
Job == [stage  : {"idle", "looked_up", "serving", "bypassing", "waiting", "locked"},
        domain : Domains \cup {None},
        limit  : Int,
        bytes  : Nat,
        seen   : Nat]

NoJob == [stage |-> "idle", domain |-> None, limit |-> 0, bytes |-> 0, seen |-> 0]

\* todo: the entries of list(traffic_cache.items()) still to be flushed; site:
\* the row its SELECT found.
Flusher == [stage  : {"sleeping", "scanning", "writing", "written"},
            todo   : SUBSET Domains,
            domain : Domains \cup {None},
            site   : Sites \cup {None}]

Asleep == [stage |-> "sleeping", todo |-> {}, domain |-> None, site |-> None]

Empty == [d \in Domains |-> 0]

Return(w) == job' = [job EXCEPT ![w] = NoJob]

\* The row without ORDER BY that a query for the domain may return.
Lookup(d) == {s \in sites : DomainOf[s] = d}

\* check_traffic_limit(domain, limit_mb) finds the limit reached by a row of its
\* own query.  Without a row nothing counts as used.
AnyUse(d, n) == n > 0 /\ \E s \in Lookup(d) : stats[s].month > 0    \* mutant
OverLimit(d, n) == n > 0 /\ \E s \in Lookup(d) : stats[s].month >= n

-----------------------------------------------------------------------------
(* The handler threads *)

\* get_site_info_from_db finds a row and returns its limit; without a row, or on
\* an error, the answer is 404.
Begin(w, d) ==
    /\ job[w].stage = "idle"
    /\ \E s \in Lookup(d) :
          job' = [job EXCEPT ![w].stage = "looked_up", ![w].domain = d,
                             ![w].limit = limit[s]]
    /\ UNCHANGED <<cache, lock, flusher, tables, history>>

\* check_traffic_limit, in a transaction of its own, with the limit read before;
\* an error counts as within the limit.
CheckLimit(w) ==
    /\ job[w].stage = "looked_up"
    /\ \/ /\ OverLimit(job[w].domain, job[w].limit)
          /\ job' = [job EXCEPT ![w].stage = "bypassing"]
       \/ job' = [job EXCEPT ![w].stage = "serving", ![w].limit = 0]
    /\ UNCHANGED <<cache, lock, flusher, tables, history>>

\* Over the limit the request is proxied past the analyser, and then the
\* handler dies on the unassigned status_code, if it has not died before on the
\* request's length or body: nothing is counted.
Bypass(w) ==
    /\ job[w].stage = "bypassing"
    /\ Return(w)
    /\ UNCHANGED <<cache, lock, flusher, tables, history>>

\* Analysed, and answered by the backend, a 502 or a 403.
Answer(w, n) ==
    /\ job[w].stage = "serving"
    /\ \A d \in Domains : served[d] + n <= MaxBytes
    /\ job' = [job EXCEPT ![w].stage = "waiting", ![w].bytes = n]
    /\ UNCHANGED <<cache, lock, flusher, tables, history>>

\* The handler dies before it counts: the body does not decode, or the client
\* is gone when the 502 is sent.
Abort(w) ==
    /\ job[w].stage = "serving"
    /\ Return(w)
    /\ UNCHANGED <<cache, lock, flusher, tables, history>>

\* with cache_lock: read the entry ...
NoLock == TRUE                                                     \* mutant
LockFree == lock = "free"

Acquire(w) ==
    /\ job[w].stage = "waiting"
    /\ LockFree
    /\ lock' = w
    /\ job' = [job EXCEPT ![w].stage = "locked", ![w].seen = cache[job[w].domain]]
    /\ UNCHANGED <<cache, flusher, tables, history>>

\* ... and write it back, increased.
Account(w) ==
    /\ job[w].stage = "locked"
    /\ cache' = [cache EXCEPT ![job[w].domain] = job[w].seen + job[w].bytes]
    /\ served' = [served EXCEPT ![job[w].domain] = @ + job[w].bytes]
    /\ lock' = "free"
    /\ Return(w)
    /\ UNCHANGED <<flusher, tables, disturbed>>

-----------------------------------------------------------------------------
(* flush_traffic_cache *)

\* After its sleep the flusher takes the lock, for the whole scan.
Wake ==
    /\ flusher.stage = "sleeping"
    /\ LockFree
    /\ lock' = "flusher"
    /\ flusher' = [flusher EXCEPT !.stage = "scanning",
                                  !.todo = {d \in Domains : cache[d] > 0}]
    /\ UNCHANGED <<cache, job, tables, history>>

\* update_traffic_stats_db selects the site; without one it returns.
SelectSite(d) ==
    /\ flusher.stage = "scanning"
    /\ d \in flusher.todo
    /\ \/ \E s \in Lookup(d) :
             flusher' = [flusher EXCEPT !.stage = "writing", !.domain = d, !.site = s]
       \/ /\ Lookup(d) = {}
          /\ flusher' = [flusher EXCEPT !.stage = "written", !.domain = d]
    /\ UNCHANGED <<cache, lock, job, tables, history>>

AddedToEach(s, n) ==                                               \* mutant
    [r \in Sites |-> IF DomainOf[r] = DomainOf[s]
                     THEN [month |-> stats[r].month + n, total |-> stats[r].total + n]
                     ELSE stats[r]]
Added(s, n) == [stats EXCEPT ![s] = [month |-> @.month + n, total |-> @.total + n]]

\* The upsert and its COMMIT.  The foreign key refuses it if the site went.
Upsert ==
    /\ flusher.stage = "writing"
    /\ stats' = IF flusher.site \in sites
                THEN Added(flusher.site, cache[flusher.domain])
                ELSE stats
    /\ flusher' = [flusher EXCEPT !.stage = "written"]
    /\ UNCHANGED <<cache, lock, job, sites, limit, history>>

\* A database error in the update, which its except clause swallows.  When it
\* strikes COMMIT the row may have been written (applied) or not.
RetryLater(applied) ==                                             \* mutant
    /\ flusher.stage = "writing"
    /\ stats' = IF applied /\ flusher.site \in sites
                THEN Added(flusher.site, cache[flusher.domain])
                ELSE stats
    /\ flusher' = [flusher EXCEPT !.stage = "scanning",
                                  !.todo = @ \ {flusher.domain}]
    /\ disturbed' = disturbed \cup {flusher.domain}
    /\ UNCHANGED <<cache, lock, job, sites, limit, served>>

UpdateFault(applied) ==
    /\ flusher.stage = "writing"
    /\ stats' = IF applied /\ flusher.site \in sites
                THEN Added(flusher.site, cache[flusher.domain])
                ELSE stats
    /\ flusher' = [flusher EXCEPT !.stage = "written"]
    /\ disturbed' = disturbed \cup {flusher.domain}
    /\ UNCHANGED <<cache, lock, job, sites, limit, served>>

\* Whatever became of the update, the entry is set to zero.
KeepEntry(d) == cache                                              \* mutant
Zeroed(d) == [cache EXCEPT ![d] = 0]

Zero ==
    /\ flusher.stage = "written"
    /\ cache' = Zeroed(flusher.domain)
    /\ flusher' = [stage |-> "scanning", todo |-> flusher.todo \ {flusher.domain},
                   domain |-> None, site |-> None]
    /\ UNCHANGED <<lock, job, tables, history>>

\* The end of the with block releases the lock.
NotReleased == lock                                                \* mutant
Released == "free"

Sleep ==
    /\ flusher.stage = "scanning"
    /\ flusher.todo = {}
    /\ flusher' = Asleep
    /\ lock' = Released
    /\ UNCHANGED <<cache, job, tables, history>>

-----------------------------------------------------------------------------
(* The environment *)

\* The web application changes the limit of a site.
SetLimit(s) ==
    /\ s \in sites
    /\ \E n \in Limits[s] : limit' = [limit EXCEPT ![s] = n]
    /\ UNCHANGED <<memory, sites, stats, history>>

\* It deletes a site; its rows cascade.
DeleteSite(s) ==
    /\ s \in sites
    /\ sites' = sites \ {s}
    /\ stats' = [stats EXCEPT ![s] = [month |-> 0, total |-> 0]]
    /\ disturbed' = disturbed \cup {DomainOf[s]}
    /\ UNCHANGED <<memory, limit, served>>

\* date_trunc('month', CURRENT_DATE) moves on.
NewMonth ==
    /\ stats' = [s \in Sites |-> [stats[s] EXCEPT !.month = 0]]
    /\ UNCHANGED <<memory, sites, limit, history>>

\* The engine's process ends and is started again: its memory is gone.
Restart ==
    /\ cache' = Empty
    /\ lock' = "free"
    /\ flusher' = Asleep
    /\ job' = [w \in Workers |-> NoJob]
    /\ disturbed' = Domains
    /\ UNCHANGED <<tables, served>>

-----------------------------------------------------------------------------

Init ==
    /\ cache = Empty
    /\ lock = "free"
    /\ flusher = Asleep
    /\ job = [w \in Workers |-> NoJob]
    /\ sites = Sites
    /\ limit \in [Sites -> UNION {Limits[s] : s \in Sites}]
    /\ \A s \in Sites : limit[s] \in Limits[s]
    /\ stats = [s \in Sites |-> [month |-> 0, total |-> 0]]
    /\ served = Empty
    /\ disturbed = {}

\* What a thread does of itself, but for taking the lock.
Handle(w) == CheckLimit(w) \/ Bypass(w) \/ (\E n \in Sizes : Answer(w, n)) \/ Account(w)
Flush == (\E d \in Domains : SelectSite(d)) \/ Upsert \/ Zero \/ Sleep

Next ==
    \/ \E w \in Workers, d \in Domains : Begin(w, d)
    \/ \E w \in Workers : Handle(w) \/ Abort(w) \/ Acquire(w)
    \/ Flush \/ Wake \/ \E applied \in BOOLEAN : UpdateFault(applied)
    \/ \E s \in Sites : SetLimit(s) \/ DeleteSite(s)
    \/ NewMonth
    \/ Restart

Spec == Init /\ [][Next]_vars

\* Threads that run keep running: the backend call has a timeout and database
\* calls return or raise.  Whoever waits for cache_lock while it is released
\* again and again is let in at some time.
FairSpec ==
    /\ Spec
    /\ \A w \in Workers : WF_vars(Handle(w)) /\ SF_vars(Acquire(w))
    /\ WF_vars(Flush)
    /\ SF_vars(Wake)

-----------------------------------------------------------------------------
(* Properties *)

\* The variables have their types, and cache_lock is held by exactly the thread
\* that is in its critical section.
TypeOK ==
    /\ cache \in [Domains -> Nat]
    /\ lock \in Workers \cup {"flusher", "free"}
    /\ flusher \in Flusher
    /\ job \in [Workers -> Job]
    /\ sites \subseteq Sites
    /\ limit \in [Sites -> Int]
    /\ stats \in [Sites -> [month : Nat, total : Nat]]
    /\ served \in [Domains -> Nat]
    /\ disturbed \subseteq Domains
    /\ lock = "flusher" <=> flusher.stage # "sleeping"
    /\ \A w \in Workers : lock = w <=> job[w].stage = "locked"

\* No byte is billed twice: the rows of a site never add up to more than the
\* handlers served, even if a COMMIT that was reported as failed had been done,
\* and even if the engine is restarted between COMMIT and the zeroing.
AtMostOnce == \A s \in Sites : stats[s].total <= served[DomainOf[s]]

SoleSite(s) == \A r \in Sites : DomainOf[r] = DomainOf[s] => r = s

\* No byte is lost between the threads: but for failures, deletions and
\* restarts, what was served is in the table or still in the cache whenever no
\* flush is under way.
NothingLost ==
    \A s \in Sites :
        /\ SoleSite(s)
        /\ DomainOf[s] \notin disturbed
        /\ lock # "flusher"
        => stats[s].total + cache[DomainOf[s]] = served[DomainOf[s]]

\* No request skips the analyser too early: a handler that bypasses it does so
\* by a limit that was set for a row of the domain and that the domain's traffic
\* has reached, although limit and usage are read at different times, from rows
\* that may be two, of a table that may change between.
BypassEarned ==
    \A w \in Workers :
        job[w].stage = "bypassing"
        => \E s \in Sites : /\ DomainOf[s] = job[w].domain
                            /\ job[w].limit \in Limits[s]
                            /\ 0 < job[w].limit
                            /\ job[w].limit <= served[job[w].domain]

\* The part of the cache the table does not hold: none of the entry whose
\* update is done and whose zeroing is still to come.
Unflushed(d) ==
    IF flusher.stage = "written" /\ flusher.domain = d THEN 0 ELSE cache[d]

Billing == INSTANCE Meter WITH
    pending <- [d \in Domains |-> Unflushed(d)],
    billed  <- [s \in Sites |-> stats[s].total]

\* Seen from the tables, a flush is one step: what a domain has served goes to
\* the row of one of its sites, as a whole and once, although the flusher reads,
\* writes and zeroes in steps of their own, several rows may have that domain,
\* and an update that failed may have been done.  Nothing is lost without a
\* failure, a restart or a deletion.
ImplementsMeter == Billing!Spec

\* A handler that waits for cache_lock, behind others and behind a flush that
\* holds it across its database calls, gets through.
HandlersServed ==
    \A w \in Workers : job[w].stage = "waiting" ~> job[w].stage = "idle"

\* What is in the cache does not stay there for ever.
CacheDrains == \A d \in Domains : cache[d] > 0 ~> cache[d] = 0
=============================================================================
