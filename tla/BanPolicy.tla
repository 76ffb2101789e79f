----------------------------- MODULE BanPolicy -----------------------------
(***************************************************************************)
(* What the automatic ban promises to everyone who reads its two tables:   *)
(* the admission check of every handler thread, and the banned-IP list of  *)
(* the web API.  Threads, transactions and their failures are hidden here; *)
(* AutoBan shows that the engine's code implements this.                   *)
(***************************************************************************)
EXTENDS Integers, FiniteSets

CONSTANTS Sites,      \* ids of accounts_protectedsite rows
          Ips,        \* client addresses
          Threshold,  \* attacks that earn a ban
          Window,     \* ticks during which an attack counts
          BanTime     \* ticks a ban lasts

VARIABLES now,        \* the database clock
          sites,      \* the site rows that exist
          attempts,   \* rows of accounts_attackattempt
          bans        \* rows of accounts_bannedip

vars == <<now, sites, attempts, bans>>

\* The attacks by i on s that a transaction started at t counts.
Recent(s, i, t) ==
    {a \in attempts : a.site = s /\ a.ip = i /\ a.timestamp > t - Window}

\* The row UNIQUE (site, ip_address) allows at most once.
HasRow(s, i) == \E b \in bans : b.site = s /\ b.ip = i

Init ==
    /\ now = 0
    /\ sites = Sites
    /\ attempts = {}
    /\ bans = {}

\* One attack on an existing site is recorded, dated no later than now.
Record ==
    /\ \E a \in attempts' \ attempts :
          /\ attempts' = attempts \cup {a}
          /\ a.site \in sites
          /\ a.ip \in Ips
          /\ a.timestamp \in 0..now
    /\ UNCHANGED <<now, sites, bans>>

\* A ban is entered once for a site and an address, for exactly BanTime, and
\* only with Threshold attacks on record in the window before it.
Ban ==
    /\ \E b \in bans' \ bans :
          /\ bans' = bans \cup {b}
          /\ b.site \in sites
          /\ ~HasRow(b.site, b.ip)
          /\ b.banned_at \in 0..now
          /\ b.expires_at = b.banned_at + BanTime
          /\ b.attack_count >= Threshold
          /\ Cardinality(Recent(b.site, b.ip, b.banned_at)) >= b.attack_count
    /\ UNCHANGED <<now, sites, attempts>>

\* A site goes with everything recorded about it.
Forget ==
    /\ \E s \in sites :
          /\ sites' = sites \ {s}
          /\ attempts' = {a \in attempts : a.site # s}
          /\ bans' = {b \in bans : b.site # s}
    /\ UNCHANGED now

Tick ==
    /\ now' = now + 1
    /\ UNCHANGED <<sites, attempts, bans>>

Next == Record \/ Ban \/ Forget \/ Tick

Spec == Init /\ [][Next]_vars
=============================================================================
