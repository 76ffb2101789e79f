------------------------------ MODULE WafProxy ------------------------------
(***************************************************************************)
(* A request on its way through WAFProxy._handle_any_request of            *)
(* engine/proxy/server.py: the checks, the analyser's verdict, the ban     *)
(* bookkeeping of AutoBan, the backend, the traffic counters and the       *)
(* request log.  Every database helper swallows its errors, so each step   *)
(* has a way to go wrong quietly; a handler also dies silently when its    *)
(* client is gone, or when the code raises.                                *)
(*                                                                         *)
(* The verdict is what analyze_request will say of the request, any that   *)
(* clients can provoke.  Whether a site is over its limit is the business  *)
(* of TrafficAccounting and left open here.  A request without Host gets   *)
(* 400 and touches nothing.                                                *)
(***************************************************************************)
EXTENDS AutoBan

CONSTANT Verdicts   \* verdicts clients can provoke: safe, or the action of an
                    \* unsafe one (see Analyzer)

ASSUME VerdictAssumption == Verdicts \subseteq {"safe", "block", "log", "allow"}

VARIABLES protected,  \* is_protected of each site row
          req         \* the request each handler thread has in hand

vars == <<banVars, protected, req>>

-----------------------------------------------------------------------------

Stage == {"idle", "lookup", "limit", "bypass", "analyse", "banning", "block",
          "count_blocked", "refuse", "forward", "count", "log", "done"}

\* mode: is_protected as read; answer: what the client got; row: the RequestLog
\* row; trouble: an error was swallowed or the handler died; lapsed: history,
\* the protection of the domain was off at some time since the ban check.
Request == [stage     : Stage,
            domain    : Domains \cup {None},
            ip        : Ips \cup {None},
            verdict   : Verdicts \cup {None},
            mode      : BOOLEAN,
            bypassed  : BOOLEAN,
            forwarded : BOOLEAN,
            counted   : BOOLEAN,
            answer    : {"none", "banned", "unregistered", "blocked", "backend",
                         "stub", "bad_gateway"},
            row       : {"none", "blocked_403", "blocked_passed", "passed"},
            trouble   : BOOLEAN,
            lapsed    : BOOLEAN]

NoRequest == [stage |-> "idle", domain |-> None, ip |-> None, verdict |-> None,
              mode |-> FALSE, bypassed |-> FALSE, forwarded |-> FALSE,
              counted |-> FALSE, answer |-> "none", row |-> "none",
              trouble |-> FALSE, lapsed |-> FALSE]

\* A domain is open while one of its rows is unprotected.
Open(d) == \E s \in Sites : DomainOf[s] = d /\ ~protected[s]

Arrived(d, i, v) == [NoRequest EXCEPT !.domain = d, !.ip = i, !.verdict = v,
                                      !.lapsed = Open(d)]

Become(w, r) == req' = [req EXCEPT ![w] = r]

At(w, stage) == req[w].stage = stage

-----------------------------------------------------------------------------
(* Before the analysis *)

\* is_ip_banned says yes: 403, nothing logged or counted.
RefuseBanned(w, d, i, v) ==
    /\ req[w].stage \in {"idle", "done"}
    /\ IsBanned(d, i)
    /\ Become(w, [Arrived(d, i, v) EXCEPT !.stage = "done", !.answer = "banned"])
    /\ UNCHANGED <<banVars, protected>>

\* It says no, or failed.
BanCheck(w, d, i) == Admit(w, d, i) \/ AdmitOnFault(w, d, i)

Accept(w, d, i, v) ==
    /\ req[w].stage \in {"idle", "done"}
    /\ BanCheck(w, d, i)
    /\ Become(w, [Arrived(d, i, v) EXCEPT !.stage = "lookup"])
    /\ UNCHANGED protected

\* get_site_info_from_db; no row and a database error are both answered 404.
SiteFound(w, s) ==
    /\ Become(w, [req[w] EXCEPT !.stage = "limit", !.mode = protected[s]])
    /\ UNCHANGED banVars
NotRegistered(w) ==
    /\ Become(w, [req[w] EXCEPT !.stage = "done", !.answer = "unregistered"])
    /\ Spare(w)
UnprotectedOnError(w) ==                                           \* mutant
    \/ \E s \in Lookup(req[w].domain) : SiteFound(w, s)
    \/ /\ Become(w, [req[w] EXCEPT !.stage = "limit", !.mode = FALSE])
       /\ UNCHANGED banVars
GetSiteInfo(w) ==
    \/ \E s \in Lookup(req[w].domain) : SiteFound(w, s)
    \/ NotRegistered(w)

LookUp(w) == At(w, "lookup") /\ GetSiteInfo(w) /\ UNCHANGED protected

\* check_traffic_limit, from another connection: either way, see
\* TrafficAccounting.
CheckLimit(w) ==
    /\ At(w, "limit")
    /\ \E stage \in {"bypass", "analyse"} :
          Become(w, [req[w] EXCEPT !.stage = stage])
    /\ UNCHANGED <<banVars, protected>>

\* What _proxy_to_backend can come to: the backend's answer relayed, the
\* socket.io stub, or a 502 for a backend that may have had the request or not.
Relayed(r) ==
    {[r EXCEPT !.forwarded = TRUE, !.answer = "backend"],
     [r EXCEPT !.answer = "stub"],
     [r EXCEPT !.answer = "bad_gateway"],
     [r EXCEPT !.forwarded = TRUE, !.answer = "bad_gateway"]}

\* The handler dies on the way, before the backend has the request or after: a
\* Content-Length that is no number, or a client that is gone, which makes the
\* relay raise and the 502 raise again.
Cut(r) == {[r EXCEPT !.trouble = TRUE], [r EXCEPT !.forwarded = TRUE, !.trouble = TRUE]}

\* Over the limit the request goes straight to the backend.  log_request is
\* called with status_code unassigned: the handler dies in the call.
Bypass(w) ==
    /\ At(w, "bypass")
    /\ LET r == [req[w] EXCEPT !.stage = "done", !.bypassed = TRUE]
       IN  \E q \in Relayed(r) \cup Cut(r) : Become(w, q)
    /\ Spare(w)
    /\ UNCHANGED protected

\* analyze_request.  A body that is not UTF-8 kills the handler before it.
Analyse(w) ==
    /\ At(w, "analyse")
    /\ \/ /\ req[w].verdict = "safe"
          /\ Become(w, [req[w] EXCEPT !.stage = "forward"])
          /\ Spare(w)
       \/ /\ req[w].verdict # "safe"
          /\ Become(w, [req[w] EXCEPT !.stage = "banning"])
          /\ UNCHANGED banVars
       \/ /\ Become(w, [req[w] EXCEPT !.stage = "done", !.trouble = TRUE])
          /\ Spare(w)
    /\ UNCHANGED protected

-----------------------------------------------------------------------------
(* An attack *)

\* log_attack_attempt and check_and_ban_if_needed run to their end ...
BanStep(w) ==
    /\ At(w, "banning")
    /\ \/ Handle(w) /\ UNCHANGED req
       \/ DbFault(w) /\ Become(w, [req[w] EXCEPT !.trouble = TRUE])
    /\ UNCHANGED protected

\* ... and then is_protected decides.  result.action does not.
InBackground(w) == TRUE                                            \* mutant
MonitoredSkip(w) == job[w].stage = "idle" \/ ~req[w].mode          \* mutant
BansDone(w) == job[w].stage = "idle"

Decide(w) ==
    /\ At(w, "banning")
    /\ BansDone(w)
    /\ Become(w, [req[w] EXCEPT !.stage = IF req[w].mode THEN "block" ELSE "forward"])
    /\ UNCHANGED <<banVars, protected>>

\* log_request inserts the row, or swallows an error.
Written(r, row) == {[r EXCEPT !.row = row], [r EXCEPT !.trouble = TRUE]}

LogBlocked(w) ==
    /\ At(w, "block")
    /\ \E r \in Written([req[w] EXCEPT !.stage = "count_blocked"], "blocked_403") :
          Become(w, r)
    /\ UNCHANGED <<banVars, protected>>

CountBlocked(w) ==
    /\ At(w, "count_blocked")
    /\ Become(w, [req[w] EXCEPT !.stage = "refuse", !.counted = TRUE])
    /\ UNCHANGED <<banVars, protected>>

\* The 403, unless the client is gone.
Refuse(w) ==
    /\ At(w, "refuse")
    /\ \/ Become(w, [req[w] EXCEPT !.stage = "done", !.answer = "blocked"])
       \/ Become(w, [req[w] EXCEPT !.stage = "done", !.trouble = TRUE])
    /\ UNCHANGED <<banVars, protected>>

-----------------------------------------------------------------------------
(* To the backend *)

Forward(w) ==
    /\ At(w, "forward")
    /\ \/ \E r \in Relayed([req[w] EXCEPT !.stage = "count"]) : Become(w, r)
       \/ \E r \in Cut([req[w] EXCEPT !.stage = "done"]) : Become(w, r)
    /\ UNCHANGED <<banVars, protected>>

Count(w) ==
    /\ At(w, "count")
    /\ Become(w, [req[w] EXCEPT !.stage = "log", !.counted = TRUE])
    /\ UNCHANGED <<banVars, protected>>

\* was_blocked is TRUE for every attack, forwarded or not.
LogForwarded(w) ==
    /\ At(w, "log")
    /\ \E r \in Written([req[w] EXCEPT !.stage = "done"],
                        IF req[w].verdict = "safe" THEN "passed" ELSE "blocked_passed") :
          Become(w, r)
    /\ UNCHANGED <<banVars, protected>>

NotLogged(w) ==                                                    \* mutant
    /\ At(w, "log")
    /\ Become(w, [req[w] EXCEPT !.stage = "done"])
    /\ UNCHANGED <<banVars, protected>>
Log(w) == LogForwarded(w)

-----------------------------------------------------------------------------
(* The environment *)

\* The web application switches the protection of a site.
Toggle(s) ==
    /\ s \in sites
    /\ protected' = [protected EXCEPT ![s] = ~@]
    /\ req' = [w \in Workers |->
                 IF req[w].domain = DomainOf[s]
                 THEN [req[w] EXCEPT !.lapsed = @ \/ protected[s]]
                 ELSE req[w]]
    /\ UNCHANGED banVars

-----------------------------------------------------------------------------

Init ==
    /\ BanInit
    /\ protected \in [Sites -> BOOLEAN]
    /\ req = [w \in Workers |-> NoRequest]

\* What a thread does of itself once it has a request.
Proceed(w) ==
    \/ LookUp(w) \/ CheckLimit(w) \/ Bypass(w) \/ Analyse(w) \/ BanStep(w)
    \/ Decide(w) \/ LogBlocked(w) \/ CountBlocked(w) \/ Refuse(w)
    \/ Forward(w) \/ Count(w) \/ Log(w)

Next ==
    \/ \E w \in Workers, d \in Domains, i \in Ips, v \in Verdicts :
          RefuseBanned(w, d, i, v) \/ Accept(w, d, i, v)
    \/ \E w \in Workers : Proceed(w)
    \/ \E s \in Sites : Toggle(s)
    \/ (\E s \in Sites : DeleteSite(s)) /\ UNCHANGED <<protected, req>>
    \/ Tick /\ UNCHANGED <<protected, req>>

Spec == Init /\ [][Next]_vars

-----------------------------------------------------------------------------
(* Properties *)

\* The variables have their types, and a handler works on the ban tables
\* exactly while its request is between the ban check and the decision, for
\* that request's domain and address.
TypeOK ==
    /\ protected \in [Sites -> BOOLEAN]
    /\ req \in [Workers -> Request]
    /\ \A w \in Workers :
          /\ req[w].stage \in {"lookup", "limit", "bypass", "analyse"}
             => job[w].stage = "admitted"
          /\ job[w].stage # "idle"
             => /\ req[w].stage \in {"lookup", "limit", "bypass", "analyse", "banning"}
                /\ job[w].domain = req[w].domain
                /\ job[w].ip = req[w].ip

\* The firewall's purpose: an attack on a domain whose every row was protected
\* from the ban check on does not reach the backend, whatever fails on the way,
\* unless the site is over its traffic limit.
Shield ==
    \A w \in Workers :
        /\ req[w].forwarded
        /\ req[w].verdict # "safe"
        => req[w].lapsed \/ req[w].bypassed

\* There is an attack of this address on record, or a site of the domain went
\* and took its rows along.
OnRecord(d, i) ==
    \/ \E a \in attempts : DomainOf[a.site] = d /\ a.ip = i
    \/ \E s \in Sites \ sites : DomainOf[s] = d

\* Every request the analyser has seen leaves one row and is counted, the status
\* of the row is what the client got, and an attack counts towards a ban whatever
\* became of it: log_attack_attempt has left a row for its address, be it blocked
\* or forwarded.  All this unless the handler or the database failed.
AuditTrail ==
    \A w \in Workers :
        /\ req[w].stage = "done"
        /\ ~req[w].trouble
        /\ ~req[w].bypassed
        /\ req[w].answer \in {"blocked", "backend", "stub", "bad_gateway"}
        => /\ req[w].counted
           /\ req[w].row # "none"
           /\ req[w].row = "blocked_403" <=> req[w].answer = "blocked"
           /\ req[w].verdict # "safe" => OnRecord(req[w].domain, req[w].ip)

-----------------------------------------------------------------------------
(* Claims of comments and documents that the code does not keep *)

\* server.py logs a request over the limit as "TRAFFIC_LIMIT_EXCEEDED".
BypassLogged ==
    \A w \in Workers :
        At(w, "done") /\ req[w].bypassed /\ ~req[w].trouble => req[w].row # "none"
=============================================================================
