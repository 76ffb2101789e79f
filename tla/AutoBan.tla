------------------------------ MODULE AutoBan ------------------------------
(***************************************************************************)
(* The automatic IP ban of the engine (engine/proxy/server.py), as seen by *)
(* the handler threads of ThreadingHTTPServer.  Each of is_ip_banned,      *)
(* log_attack_attempt and check_and_ban_if_needed opens its own            *)
(* connection; a transaction starts with its first statement, which fixes  *)
(* NOW(), and under READ COMMITTED every statement sees what is committed  *)
(* when it runs.  The steps below are those statements, so threads         *)
(* interleave between any two of them.                                     *)
(*                                                                         *)
(* is_active is TRUE in every row the program writes and nothing clears    *)
(* it, so it is left out of the rows.  A request refused with 403 changes  *)
(* nothing here and is a stuttering step.                                  *)
(***************************************************************************)
EXTENDS Integers, FiniteSets

CONSTANTS Workers,    \* handler threads
          Ips,        \* client addresses
          Domains,    \* Host names clients ask for
          Sites,      \* ids of accounts_protectedsite rows
          DomainOf,   \* the domain column: [Sites -> Domains], not unique
          Threshold,  \* 3 attacks
          Window,     \* 10 minutes
          BanTime,    \* 1 hour
          None,       \* no value
          MaxTime,    \* bound: last instant of the clock
          MaxRows     \* bound: no new request once it could add a row too many

ASSUME BanAssumption ==
    /\ IsFiniteSet(Workers)
    /\ DomainOf \in [Sites -> Domains]
    /\ Threshold \in Nat \ {0}
    /\ Window \in Nat \ {0}
    /\ BanTime \in Nat \ {0}
    /\ MaxTime \in Nat
    /\ MaxRows \in Nat
    /\ None \notin Sites \cup Ips \cup Domains

VARIABLES now,        \* the database clock
          sites,      \* the site rows that exist
          attempts,   \* rows of accounts_attackattempt
          bans,       \* rows of accounts_bannedip
          serial,     \* attack rows inserted so far: the id sequence
          job,        \* what each thread is doing
          faulty      \* history: <<domain, ip>> that met a database error

tables == <<sites, attempts, bans, serial>>
banVars == <<now, tables, job, faulty>>

Policy == INSTANCE BanPolicy

-----------------------------------------------------------------------------
(* Threads *)

BanStage == {"idle", "admitted", "recording", "checking", "counting",
             "selecting", "inserting"}

\* stage: where the thread is; domain and ip: the request; site, now: the
\* site id and NOW() of its current transaction; count: attack_count.
Job == [stage  : BanStage,
        domain : Domains \cup {None},
        ip     : Ips \cup {None},
        site   : Sites \cup {None},
        now    : Nat,
        count  : Nat]

NoJob == [stage |-> "idle", domain |-> None, ip |-> None, site |-> None,
          now |-> 0, count |-> 0]

Goto(w, stage) == job' = [job EXCEPT ![w].stage = stage]
Return(w) == job' = [job EXCEPT ![w] = NoJob]

-----------------------------------------------------------------------------
(* Queries *)

\* SELECT id FROM accounts_protectedsite WHERE domain = d: the domain is not
\* unique and there is no ORDER BY, so any of these rows may come first.
Lookup(d) == {s \in sites : DomainOf[s] = d}

Attacks(s, i, t) ==
    {a \in attempts : a.site = s /\ a.ip = i /\ a.timestamp > t - Window}

BanRow(s, i) == {b \in bans : b.site = s /\ b.ip = i}

Active(b, t) == b.expires_at > t

\* is_ip_banned joins on the domain, so it sees the bans of every row of it.
OnceBanned(d, i) == \E b \in bans : /\ DomainOf[b.site] = d        \* mutant
                                    /\ b.ip = i
                                    /\ ~Active(b, now)
IsBanned(d, i) == \E b \in bans : /\ DomainOf[b.site] = d
                                  /\ b.ip = i
                                  /\ Active(b, now)

\* attack_count >= 3.
ReachedEarly(n) == n >= Threshold - 1    \* mutant
ReachedLate(n) == n > Threshold          \* mutant
Reached(n) == n >= Threshold

\* The foreign key of both tables.
AnySite(s) == TRUE                       \* mutant
SiteExists(s) == s \in sites

\* UNIQUE (site, ip_address), which an expired ban occupies as well, or the
\* foreign key refuses a new ban.
NoUnique(s, i) == ~SiteExists(s)         \* mutant
NeverCommitted(s, i) == TRUE             \* mutant
Refused(s, i) == BanRow(s, i) # {} \/ ~SiteExists(s)

-----------------------------------------------------------------------------
(* The handler thread *)

\* The bound: every request in hand may still add a row.
Room == serial + Cardinality({w \in Workers : job[w].stage # "idle"}) < MaxRows

\* is_ip_banned found no active ban: the request goes on to be analysed.
Admit(w, d, i) ==
    /\ job[w].stage = "idle" /\ Room
    /\ ~IsBanned(d, i)
    /\ job' = [job EXCEPT ![w].stage = "admitted", ![w].domain = d, ![w].ip = i]
    /\ UNCHANGED <<now, tables, faulty>>

\* is_ip_banned swallows a database error and answers False.
AdmitOnFault(w, d, i) ==
    /\ job[w].stage = "idle" /\ Room
    /\ job' = [job EXCEPT ![w].stage = "admitted", ![w].domain = d, ![w].ip = i]
    /\ faulty' = faulty \cup {<<d, i>>}
    /\ UNCHANGED <<now, tables>>

\* The request is not an attack after all, or is not analysed: the site is not
\* registered, its traffic limit is reached, or the handler dies.
Spare(w) ==
    /\ job[w].stage = "admitted"
    /\ Return(w)
    /\ UNCHANGED <<now, tables, faulty>>

\* log_attack_attempt looks the site up; without one it returns at once.
BeginAttempt(w) ==
    /\ job[w].stage = "admitted"
    /\ \/ \E s \in Lookup(job[w].domain) :
             job' = [job EXCEPT ![w].stage = "recording",
                                ![w].site = s, ![w].now = now]
       \/ Lookup(job[w].domain) = {} /\ Goto(w, "checking")
    /\ UNCHANGED <<now, tables, faulty>>

\* INSERT and COMMIT; the row is dated by the start of the transaction.  If
\* the site was deleted meanwhile the foreign key fails and that is swallowed.
CommitAttempt(w) ==
    /\ job[w].stage = "recording"
    /\ \/ /\ SiteExists(job[w].site)
          /\ serial' = serial + 1
          /\ attempts' = attempts \cup
                {[id |-> serial', site |-> job[w].site, ip |-> job[w].ip,
                  timestamp |-> job[w].now]}
       \/ ~SiteExists(job[w].site) /\ UNCHANGED <<serial, attempts>>
    /\ Goto(w, "checking")
    /\ UNCHANGED <<now, sites, bans, faulty>>

\* check_and_ban_if_needed looks the site up again, in a new transaction.
BeginCheck(w) ==
    /\ job[w].stage = "checking"
    /\ \/ \E s \in Lookup(job[w].domain) :
             job' = [job EXCEPT ![w].stage = "counting",
                                ![w].site = s, ![w].now = now]
       \/ Lookup(job[w].domain) = {} /\ Return(w)
    /\ UNCHANGED <<now, tables, faulty>>

\* SELECT COUNT(*) of the attacks in the window.
CountAttacks(w) ==
    /\ job[w].stage = "counting"
    /\ LET n == Cardinality(Attacks(job[w].site, job[w].ip, job[w].now))
       IN  IF Reached(n)
           THEN job' = [job EXCEPT ![w].stage = "selecting", ![w].count = n]
           ELSE Return(w)
    /\ UNCHANGED <<now, tables, faulty>>

\* Is there an active ban already?
SelectBan(w) ==
    /\ job[w].stage = "selecting"
    /\ IF \E b \in BanRow(job[w].site, job[w].ip) : Active(b, job[w].now)
       THEN Return(w)
       ELSE Goto(w, "inserting")
    /\ UNCHANGED <<now, tables, faulty>>

\* INSERT and COMMIT of the ban.  When the table refuses the row, the except
\* clause prints the error and the function returns.
InsertBan(w) ==
    /\ job[w].stage = "inserting"
    /\ LET s == job[w].site
           i == job[w].ip
       IN  bans' = IF Refused(s, i)
                   THEN bans
                   ELSE bans \cup {[site |-> s, ip |-> i,
                                    banned_at |-> job[w].now,
                                    expires_at |-> job[w].now + BanTime,
                                    attack_count |-> job[w].count]}
    /\ Return(w)
    /\ UNCHANGED <<now, sites, attempts, serial, faulty>>

\* A database error in either function is swallowed: the first returns to the
\* handler, which calls the second; the second returns for good.
DbFault(w) ==
    /\ \/ job[w].stage \in {"admitted", "recording"} /\ Goto(w, "checking")
       \/ job[w].stage \in {"checking", "counting", "selecting", "inserting"}
          /\ Return(w)
    /\ faulty' = faulty \cup {<<job[w].domain, job[w].ip>>}
    /\ UNCHANGED <<now, tables>>

-----------------------------------------------------------------------------
(* The environment *)

\* The web application deletes a site: its attack and ban rows cascade.
DeleteSite(s) ==
    /\ s \in sites
    /\ sites' = sites \ {s}
    /\ attempts' = {a \in attempts : a.site # s}
    /\ bans' = {b \in bans : b.site # s}
    /\ UNCHANGED <<now, serial, job, faulty>>

Tick ==
    /\ now < MaxTime
    /\ now' = now + 1
    /\ UNCHANGED <<tables, job, faulty>>

-----------------------------------------------------------------------------

BanInit ==
    /\ now = 0
    /\ sites = Sites
    /\ attempts = {}
    /\ bans = {}
    /\ serial = 0
    /\ job = [w \in Workers |-> NoJob]
    /\ faulty = {}

\* The steps a thread takes once the analyser has flagged its request.
Handle(w) ==
    \/ BeginAttempt(w) \/ CommitAttempt(w) \/ BeginCheck(w)
    \/ CountAttacks(w) \/ SelectBan(w) \/ InsertBan(w)

BanNext ==
    \/ \E w \in Workers, d \in Domains, i \in Ips :
          Admit(w, d, i) \/ AdmitOnFault(w, d, i)
    \/ \E w \in Workers : Spare(w) \/ Handle(w) \/ DbFault(w)
    \/ \E s \in Sites : DeleteSite(s)
    \/ Tick

BanSpec == BanInit /\ [][BanNext]_banVars

\* A thread that has a request keeps running: every database call returns or
\* raises.  Nothing obliges clients, administrators or the clock to move.
FairBanSpec == BanSpec /\ \A w \in Workers : WF_banVars(Handle(w))

-----------------------------------------------------------------------------
(* Properties *)

BanTypeOK ==
    /\ now \in 0..MaxTime
    /\ sites \subseteq Sites
    /\ serial \in Nat
    /\ attempts \subseteq [id : 1..serial, site : sites, ip : Ips,
                           timestamp : 0..now]
    /\ bans \subseteq [site : sites, ip : Ips, banned_at : 0..now,
                       expires_at : Nat, attack_count : Nat]
    /\ job \in [Workers -> Job]
    /\ faulty \subseteq Domains \X Ips

\* Does some thread still owe the ban check of an attack by i on s?
Pending(s, i) ==
    \E w \in Workers : /\ job[w].stage \in {"checking", "counting",
                                            "selecting", "inserting"}
                       /\ job[w].domain = DomainOf[s]
                       /\ job[w].ip = i

SoleSite(s) == \A r \in Sites : DomainOf[r] = DomainOf[s] => r = s

\* However the threads interleave, Threshold attacks in one window do not slip
\* past each other: once no thread owes a check and none failed, there is a
\* ban row for the address (log_attack_attempt commits before
\* check_and_ban_if_needed counts, so the last to count sees them all).  It is
\* promised only for a domain that has one site row.
NoMissedBan ==
    \A s \in Sites, i \in Ips :
        /\ SoleSite(s)
        /\ <<DomainOf[s], i>> \notin faulty
        /\ ~Pending(s, i)
        /\ Cardinality(Attacks(s, i, now)) >= Threshold
        => BanRow(s, i) # {}

\* No ban without cause: every row of accounts_bannedip is backed by at least
\* the attack_count it states, at least Threshold, of attacks on record by
\* that address on that site in the window before banned_at, although they
\* were counted, and the row inserted, in separate statements.
BanJustified ==
    \A b \in bans :
        /\ b.attack_count >= Threshold
        /\ Cardinality(Attacks(b.site, b.ip, b.banned_at)) >= b.attack_count

\* An address cannot slip attacks past the ban by sending them at once: each
\* request asks for a ban before the attacks of the others are on record, and
\* the ban is entered only after they are counted, but in one window no address
\* gets more than Threshold - 1 attacks and one for each handler thread on
\* record, unless it had been banned before and UNIQUE keeps it from being
\* banned again.
FewAttacks ==
    \A s \in Sites, i \in Ips :
        /\ SoleSite(s)
        /\ <<DomainOf[s], i>> \notin faulty
        /\ \A b \in BanRow(s, i) : Active(b, now)
        => Cardinality(Attacks(s, i, now)) < Threshold + Cardinality(Workers)

\* The tables evolve as BanPolicy says.
ImplementsPolicy == Policy!Spec

\* An address that has Threshold attacks in the window gets its ban row, unless
\* the attacks age out, the site goes, or a database error intervenes.
StrikesLeadToBan ==
    \A s \in Sites, i \in Ips :
        (SoleSite(s) /\ Cardinality(Attacks(s, i, now)) >= Threshold)
        ~> \/ BanRow(s, i) # {}
           \/ Cardinality(Attacks(s, i, now)) < Threshold
           \/ <<DomainOf[s], i>> \in faulty

-----------------------------------------------------------------------------
(* A claim of the code's comments that its behaviour does not keep *)

\* "If 3 or more attacks, we ban" (the comment in check_and_ban_if_needed): a
\* thread that counted them, found no active ban and met no database error
\* leaves an active one behind.
ThresholdBans ==
    [][\A w \in Workers :
          /\ job[w].stage = "inserting"
          /\ job'[w].stage = "idle"
          /\ faulty' = faulty
          /\ <<job[w].domain, job[w].ip>> \notin faulty
          /\ SiteExists(job[w].site)
          => \E b \in bans' : /\ b.site = job[w].site
                              /\ b.ip = job[w].ip
                              /\ Active(b, job[w].now)]_banVars
=============================================================================
