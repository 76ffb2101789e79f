# A TLA+ model of the WAF

This directory models a web application firewall: an HTTP proxy that inspects
requests on their way to customers' sites (the *engine*, `src/engine`) and a
Django application in which customers and administrators manage sites, rules,
accounts, API tokens and logs (`src/accounts`, `src/waf_project`).  The two are
separate processes that share a PostgreSQL database and never call each other.

The modules are written from the source.  TLC checks them on small instances
(the `.cfg` files), and TLAPS proves the safety properties for every value of
the constants.  `PROJECT.json` lists, for every definition, the lines it
stands for.

    tlc -config AutoBan.cfg MCAutoBan      # one run; the table below lists them
    tlapm TrafficProofs.tla                # one proof module

## 1. The system

### 1.1 Processes

| process | what runs in it | concurrency |
|---|---|---|
| engine (`engine/proxy/server.py`) | `ThreadingHTTPServer`: a thread for each connection, and one flush thread | threads interleave at every statement; each database helper opens its own connection |
| web (`waf_project`, gunicorn) | the HTML pages and the REST API | `docker-compose.yml:34` starts gunicorn with its default, one synchronous worker: requests follow one another.  With more workers they interleave between queries |
| celery_worker | `export_logs_to_csv` | a pool of processes, fed by Redis |
| PostgreSQL | all tables | READ COMMITTED; Django autocommits each query, the engine's helpers commit at their end |

What crosses process borders is the database, the Redis queue and the directory
`media/exports`.

### 1.2 Components

| component | state it keeps | operations | correct if | module |
|---|---|---|---|---|
| request pipeline, `server.py:181-300` | the request in each thread | ban check, lookup, limit, analysis, record and ban, block or forward, count, log | no attack reaches a protected backend; the log says what was answered | `WafProxy` |
| automatic bans, `server.py:348-457` | `accounts_attackattempt`, `accounts_bannedip` | record an attack, count and ban, check | the threshold is not missed, no ban without cause, few attacks past the ban | `BanPolicy`, `AutoBan` |
| traffic accounting, `server.py:31-142`, `206-217`, `287-295` | `traffic_cache` under `cache_lock`, `accounts_trafficstats` | add, flush, compare with the limit | nothing billed twice or lost between threads, no bypass by a limit that was not reached, nobody starves | `Meter`, `TrafficAccounting` |
| rule cache, `analyzer/db_rules.py` | two module globals without a lock | load, age check, return | rules are not staler than intended, and they compile | `RuleCache`, within `Analyzer` |
| inspector, `analyzer/inspector.py`, signatures, heuristics | none of its own | `analyze_request` | what is called safe is clean, no alarm without a cause | `Analyzer` |
| accounts, `accounts/services.py:89-116`, `api/views.py:179-258`, `980-1008`, `views.py:241-291` | `accounts_user` | register, verify, block, unblock, edit, log in | active only after verification, blocked stays blocked, nobody locked out | `Accounts` |
| API tokens, `api/views.py:275-304`, `815-945`, `views.py:183-230`, `permissions.py` | `accounts_accesstoken` | obtain, create, toggle, block and unblock an address, delete, admit | what an administrator was answered holds | `AccessTokens` |
| log export, `accounts/tasks.py`, `services.py:44-61` | Redis queue, `media/exports` | queue, write, list, delete | a finished file is complete and private, every export ends | `LogExport` |
| sites, `api/views.py:462-550`, `views.py:87-91`, `272-287`, `services.py:119` | `accounts_protectedsite` | add, edit, switch protection, delete | no edit undoes another but one it overlaps with; the engine sees what was saved | `RowRegister`, `Console`; deletion in `AutoBan` and `TrafficAccounting`, the switch in `WafProxy` |
| rules, `api/views.py:571-662`, `views.py:362-407`, `services.py:207-226` | `accounts_wafrule` | add, edit by PATCH and by form, switch, delete | no edit undoes another but one it overlaps with; the engine picks changes up | `RowRegister`, `Console`; the switch in `RuleCache` |
| messages, `api/views.py:1107-1137`, `services.py:126`, `160` | `accounts_adminmessage` | send, mark as read | as for sites and rules | `Console` |
| passwords, sessions, two-factor login, `services.py:134-157`, `195-204`, `views.py:108-156`, `297-335`, `api/views.py:228-302`, `1192-1249` | the password column, `django_session`, the TOTP device | log in, set up a device, enter a code, change a password, log out, end a session | who was put out stays out, nobody else is; codes are checked against the device shown | `Logins` |
| monitoring, statistics | none | see PROJECT.json | | not modelled |

### 1.3 What is hard here

* **Interleavings.** Engine threads race on the ban tables (three functions,
  each a transaction or two), on the unlocked rule cache and on the counters.
  Web requests that load a row, change it and `save()` it write every column
  back, so two of them can undo each other.
* **Errors swallowed.** Every database helper of the engine catches everything,
  prints, and lets the handler go on: a failure half-way leaves a state that
  later steps take for success.
* **Two saves for one change.** Registration creates an active account and
  deactivates it by a second save; the API blocks a user by one save and
  deactivates by another.
* **Stale reads.** `is_protected` is used long after it was read; the traffic
  limit is read by one query and compared by another, with figures that lag
  behind the cache and may be those of another row; the rules are up to
  a minute old by design.
* **Files.** An export is listed as soon as it is opened; its name has a
  resolution of one second; it may be deleted while it is written.
* **Sessions.** A session outlives the request that opened it; it is valid by a
  hash of the password, which other requests change, or save back unchanged.
* **Long sequences.** Ban, expiry, attack again; block before verification,
  then verify.

The hazards are listed, with the line where each bites and the properties that
would catch it, in `PROJECT.json`.

## 2. The modules

In every module `job` (in `WafProxy`: `req` as well) holds what each thread or
request is doing: its program counter `stage` and its local variables.  An
action is the code between two points at which another process can be seen:
one database statement, one access to a shared global, one call of a backend.
Variables called *history* in a comment record what happened and guard
nothing.  A definition marked *mutant* is a slip someone could make in the
definition below it; no specification uses it.

**`BanPolicy`** is the abstract specification of the bans: attacks are
recorded, an address with `Threshold` of them in a window may be given a row,
one per site and address, a deleted site takes its rows along.

**`AutoBan`** has the code of it, statement by statement: `Admit` and
`AdmitOnFault` (`is_ip_banned`, which admits on errors), `BeginAttempt` and
`CommitAttempt` (`log_attack_attempt`), `BeginCheck`, `CountAttacks`,
`SelectBan`, `InsertBan` (`check_and_ban_if_needed`), `DbFault` for their
`except` clauses, `DeleteSite` with its cascade, and the database clock.  A
transaction keeps the `NOW()` of its first statement.

**`Meter`** is the abstract specification of the billing: what a domain has
served is pending until one step moves all of it into the row of one of its
sites; nothing else empties it but a failure, a restart or a deletion, which
leaves its mark on the domain.

**`TrafficAccounting`** has handlers (`Begin`, `CheckLimit`, `Bypass`, `Answer`,
`Abort`, `Acquire`, `Account`), the flush thread (`Wake`, `SelectSite`,
`Upsert`, `UpdateFault`, `Zero`, `Sleep`), a new month, the deletion of a site, a
change of its limit (`SetLimit`) and a restart of the engine.  `Begin` keeps the
limit of the row its query returned (`get_site_info_from_db`); `CheckLimit`
compares it with the month of the row that a query of its own returns
(`OverLimit`), so the two may belong to different rows of one domain, and either
may have changed.  The lock is held across the flusher's database
calls, as in the code.  `Billing` maps the module to `Meter`: pending is the
cache but for an entry whose update is over and which is still to be zeroed
(`Unflushed`), so the update is the step that bills and the zeroing none.

**`WafProxy`** is `_handle_any_request` as a whole: it extends `AutoBan`
(whose specification is called `BanSpec` to tell the two apart), whose actions
are conjuncts of its own, and adds
the lookup, the limit, the decision by `is_protected`, the backend, the counters
and the log row, with the failure of each.  `Relayed` is what `_proxy_to_backend`
returns, `Cut` a handler that dies on the way to the backend or on the way back
(a `Content-Length` that is no number, a client that is gone).  Whether a site is over its limit is left open in it, since
`TrafficAccounting` is about that; so is the verdict, which is any member of
`Verdicts`.

**`RuleCache`** is `get_active_rules_from_db`: the reads of the two globals, the
`SELECT`, the two assignments, and the failed load, in any number of threads.
A pattern that `re.compile` refuses with `re.error` is left out of the rules; any
other exception in the loop is caught with those of the query and fails the load
as a whole, which is `LoadFault`.

**`Analyzer`** is `analyze_request`: a request is a set of strings, told by their
place, length, special characters and by what they match, and the four
built-in checks are operators over it.  It extends `RuleCache`: a request that
no check flags calls `get_active_rules_from_db`, and each step of that is one of
`RuleCache`'s actions; the search for the rules it returns is part of the step
in which it returns, as it touches nothing that is shared.

**`Accounts`** is one action per query of the handlers.  `Write` is
`Model.save()`: it marks the copies that other requests hold as stale, and
records in `overlapped` that a stale copy was saved.  Three more history
variables name the ways around the rules: `unblocked`, `lateVerified`,
`halfDone`.

**`AccessTokens`** is the same for token rows; `promise` records what the
answers said, and `save()` inserts a row anew that was deleted meanwhile.
`BeginObtain` and `Create` are the two queries of `TokenObtainView`: look for an
active token, and create one if there is none; `obtained` records which tokens
came about so.

**`RowRegister`** is the abstract specification of a row that several people
edit: each edit that is answered takes effect once, on the row as it is, and
changes only what was asked for (`Perform`); one that another has overtaken takes
effect on the row as its client saw it (`Overwrite`), so what is lost is what the
others did to the row since, a removal included, and nothing else.

**`Console`** has the code of it for sites, rules and messages: `Begin` and
`SubmitForm` load the row (`get_object_or_404`), `Save` is `Model.save()` with
all columns, `ShowForm` shows the edit form of a rule, which carries every column
as it was, `BeginDelete` and `Delete` are the two queries of a deletion.  `stale`
marks copies and pages that are out of date, `seen` is the row that the client
decided by: the one that was loaded, for a form the one on its page.  Which
columns a request changes, and what its client meant by it (`Meant`), are told
apart: the form of a rule saves all, and means those that differ from what it
showed (`Differing`).  `Register` maps the
module to `RowRegister`.

**`Logins`** has the passwords, sessions and TOTP devices: `Authenticate`,
`CheckFactor` and `Start` are the API's login (the HTML page goes straight to
`Start`), `OpenSetup` and `CreateDevice` the set-up page with its
`get_or_create`, `EnterCode` and `Mark` a code in a session, `SavePassword` and
`Rekey` a change of the password, `EditRow` and `SaveRow` any other edit of the
user's row, `End` a log-out.  That a session is valid by the hash of the password
(`Works`), and that one is updated but never inserted at the end of a request
(`Update`), is Django's part.

**`LogExport`** is the Celery task: its file name is fixed when it starts, the
file is emptied when it opens it, the query runs only then (`iterator()` is
lazy) and its cursor keeps the result, and the rows reach the file piece by
piece.  Files are apart from their names, as on a POSIX file system.

`MC*` modules give the constants values and name the symmetries; `*Proofs`
modules hold the theorems.

## 3. What is model-checked

All passing runs have properties that some plausible slip in the code breaks
(the mutants of `PROJECT.json`).

| run | instance | shows |
|---|---|---|
| `auto_ban` | 3 threads, 1 site, 1 address, threshold 2, window 1, ban 2, 5 attacks, clock to 2 | `NoMissedBan`, `BanJustified`, `FewAttacks`, the refinement `ImplementsPolicy`, and `StrikesLeadToBan` under fairness |
| `traffic` | 2 handlers, 2 domains, 3 rows, two of which have one domain, requests of size 1, a limit of 1, one of 2, and one that is switched between 1 and none | `AtMostOnce`, `NothingLost`, `BypassEarned`, and the refinement `ImplementsMeter`; under fairness `HandlersServed`, `CacheDrains` |
| `waf_proxy` | 2 handlers, 2 rows with one domain, threshold 1, 2 attacks, clock to 1, protection switched | `Shield`, `AuditTrail` |
| `analyzer` | 2 threads, a rule that compiles and one that does not, TTL 1, clock to 5, 7 requests at and just over the limits of `anomalies.py` | `UpToDate`, `SafeIsClean`, `AlarmHasCause` |
| `accounts` | 3 requests at a time on one account | `ActivationEarned`, `BlockHolds`, `NotLockedOut` |
| `tokens` | 2 requests at a time, 3 tokens, 2 addresses | `AnswersHold`, `FewTokens`, `RevokedStaysOut` |
| `log_export` | 2 exports, a user and a superuser, 2 rows, 2 seconds | `ExportKept`, `ExportPrivate`; under fairness `ExportsEnd` |
| `console` | 2 requests at a time and 1 open form, on 1 rule and 1 message, 2 texts | the refinement `ImplementsRegister` |
| `logins` | 2 requests at a time, 1 account, 4 sessions, 2 new passwords | `OutStaysOut`, `OthersWork`, `ScannedIsChecked` |
| `auto_ban_repeat`, `waf_proxy_limit`, `accounts_blocked` | one thread or request (`waf_proxy_limit`: two rows of one domain) | three claims the code does not keep, section 5 |

Each passing run checks its module's `TypeOK` too
(`BanTypeOK` of `AutoBan`).  In some modules it says more than types:
that `cache_lock` is held by exactly the thread in its critical section, that
the request pipeline and the ban code agree on what a thread is doing, that a
file is known under the name of the tasks that write it, that only rules that
compile are cached, that no request has a row in its hands that never was.

**Why the bounds are enough.**

* `auto_ban`: three threads are one more than the threshold of 2, so each of the
  attacks that matter can be in a different function of a different thread while
  a third has passed the ban check; with five attacks the bound of `FewAttacks`,
  four in one window, is reached and could be passed, and a ban row may be there
  already.  The clock covers a window (1) and a ban (2): attacks age out, bans
  expire.
  Rows of different sites or addresses do not meet in any statement, so one
  of each is enough, and the proofs cover the rest.
* `traffic`: a handler inside the lock, or flushing, and another that waits; two
  domains, so that a flush visits several entries while it holds the lock; a
  domain with a row of its own, and one with two rows, so that one flush may be
  billed to one and the next to the other, or the row it found be deleted under
  it; the limit of one of the two can be reached by the traffic that was billed to
  the other, that of the other (2) cannot be reached at all, so that a bypass by
  it would be seen; one of them is switched on and off, so that a handler may carry
  an old one.  `MaxBytes` lets one request count for each domain: a flush has one
  entry of each, and one row of each to bill it to.  A request that counts for
  nothing would change no number in the state, and is left out.
* `waf_proxy`: two handlers, so that one's ban, or an administrator's switch,
  can fall into any gap of the other; two rows with one domain, one of which may
  be protected while the other is not, so that each statement may find either
  (they are interchangeable, hence the symmetry), and an attack be recorded for one
  that goes while the other stays.  A threshold of 1 lets the
  first attack ban while a second is still possible; counting further is left
  to `auto_ban`.
* `analyzer`: the worst case for the cache takes two threads, one stamping rules
  that the other loaded earlier, and a third call that finds them; the clock is
  long enough for the bound 1 + 3 * 1 to be reached, and the calls may last up
  to the whole of it.  Every built-in reason is given to some request, one
  harmless request has everything at its limit or where it is not searched for,
  attacks exceed a length by one character or the ratio by the least amount,
  and one request is ordinary text that matches the rule that compiles.  The rule that
  does not is never switched off (`AlwaysOn`): it matters only while it is on.
* `accounts`: the longest chain has two saves, so a third request that loads
  between and saves after them is the worst that can overlap.
* `tokens`: two requests are enough for a stale save, and for two tokens obtained
  at once; a third token is the one too many that `FewTokens` excludes, a second
  shows that one's history does not leak into the other's, a second address the
  same.  The constraint `Bounds` leaves out states in which two tokens have been
  saved from stale copies, or deleted, or have addresses blocked: the actions on
  two tokens have nothing else in common than that they are looked for together.
* `console`: one stale save or form takes two requests, of which one may also
  delete the row, or save twice while the form lies open; two texts tell an old
  value from a new one.  Requests on
  different rows meet in nothing.  A rule has every operation that a site has, so
  there is no site in the instance.
* `logins`: two requests are enough for each of the races in section 1.3, a
  session for each of two logins and two more for the new keys of a change; two
  new passwords, so that one may be replaced again while an edit is under way.
* `log_export`: two tasks can share a name or have it apart; with two rows a
  file can be half-written; two seconds tell names apart.

Bounds named `Max...` appear only in guards of clients, clock and log, never
in a step of the code.  `CHECK_DEADLOCK FALSE` stands where they make the model
stop; the other runs (`traffic`, `analyzer`, `accounts`, `tokens`, `console`,
`logins`) check that it does not.

**Fairness.** None of the safety results uses any.  The liveness properties
assume only that a thread or task that has work goes on: its calls return or
raise (the backend call has a timeout, `server.py:318-346`; database calls end
by an answer or an exception).  Clients, administrators and the clock are never
obliged to act, and failures never to occur.  In `traffic`, taking the lock
(`Acquire`, `Wake`) is strongly fair: while the lock is taken and released over
and over, a waiter of Python's `threading.Lock` is let in at some time, and the
flusher sleeps a minute between its rounds (`server.py:132`), so it does not
shut the handlers out.

## 4. What is proved

All theorems are of the form `Spec => ...` (`BanSpec` for the bans by
themselves) for any number of threads,
requests, sites, addresses, users, tokens, and any thresholds and lengths,
from the assumptions named in the modules (`BanAssumption`,
`TrafficAssumption`, `VerdictAssumption`, `CacheAssumption`,
`AnalyzerAssumption`, `AccountsAssumption`, `TokensAssumption`,
`LogExportAssumption`, `ConsoleAssumption`, `LoginsAssumption`): constants are of
their types, and `None` is not one of the values.

| module | theorems | the inductive invariant, and why it is needed |
|---|---|---|
| `WafProxyProofs`, the bans | `BanTypeCorrect`, `NoMissedBanHolds`, `BanJustifiedHolds`, `FewAttacksHolds`, `AutoBanImplementsPolicy` | `CountsOK`: the count a thread is about to act on is still backed by rows, as attacks are never deleted but with their site.  For `NoMissedBan`: whichever thread checks last has counted after all commits, so the lemma `Discharge` finds the row it leaves or finds.  For `FewAttacks`, `FewOnRecord`: before the ban, each attack from the threshold on has a thread that still has to check the address (`Owing`), and threads are finitely many; after it nobody new is admitted, and only those admitted before (`Arrivals`) can add one each |
| `WafProxyProofs`, the pipeline | `TypeCorrect`, `ProxyKeepsBans`, `ShieldHolds`, `AuditTrailHolds` | `Guarded` says that a mode that reads "unprotected" was so while the request was under way; for `AuditTrail`, what each stage has logged and counted so far, and `Traced`: from the moment `log_attack_attempt` has committed, the row is there or a site of the domain is gone (`Reported`), and a request that gets so far is for a domain that has or had a row (`Sited`), so the helper finds none only after a deletion |
| `TrafficProofs` | `TypeCorrect`, `AtMostOnceHolds`, `NothingLostHolds`, `BypassEarnedHolds`, `TrafficImplementsMeter` | `NotOver` and `Balanced`, with `Unflushed`: between the COMMIT of a domain and its zeroing the cache entry counts for nothing.  For `BypassEarned`, `LimitsOK`: what a handler carries from its first query was set for a row of the domain, and by `NotOver` no row of it has more than was served, whichever the second query returns.  For the refinement, `Marked`: a row that is gone has left its mark, and only domains that have or had a row are in the cache, so a flush that finds no row loses nothing unnoticed |
| `AnalyzerProofs` | `TypeCorrect`, `UpToDateHolds`, `SafeIsCleanHolds`, `AlarmHasCauseHolds` | `Ages`: the time of the cache is at most two call lengths ahead of the SELECT behind it, `Contents`: what is cached was right at that SELECT, both invariants of `CacheSpec`, which the lemma `AnalyzerCache` carries over; `Unflagged`: only a request that no built-in check flags waits for the rules, and the lemmas `NoHit`, `Unhit` and `Limits` relate the checks to what a clean string is |
| `AccountsProofs` | `TypeCorrect`, `ActivationEarnedHolds`, `BlockHoldsAlways`, `NotLockedOutHolds` | `Held`: a copy that is not stale is the row, and a second save follows its first |
| `AccessTokensProofs` | `TypeCorrect`, `AnswersHoldAlways`, `FewTokensHolds`, `RevokedStaysOutHolds` | `Held`, likewise; it makes every answer one about the row itself.  `Few`: the obtained tokens that are active (`Live`) and the requests on their way to one (`Seeking`) are no more than the workers together, since a request sets out only when there is no active token |
| `ConsoleProofs` | `TypeCorrect`, `ConsoleImplementsRegister` | `Held` and `Showing`: what a request that was not overtaken has seen, and what a page that is up to date shows, is the row; `Fit`: what the handler makes of its copy is what the client means, applied to what was seen (lemma `AsMeant`, from `PatchAsMeant`, `FormAsMeant` and `SwitchAsMeant`), although a handler loads the row anew and a form carries all of it |
| `LogExportProofs` | `TypeCorrect`, `ExportKeptHolds`, `ExportPrivateHolds` | `Files`: a file belongs to the task it is called after and to one name, so a task that is alone has its own; `Queried` and `Contents`: what is in it was selected for its user |
| `LoginsProofs` | `TypeCorrect`, `OutStaysOutHolds`, `OthersWorkHolds`, `ScannedIsCheckedHolds` | `RowsOK`: a row has the last password set, or an edit has restored an older one; `SessionsOK`: a session is out exactly when its password is not the last, but while its owner is between saving a new one and the new session; `RequestsOK`: a request has a password that was in the row, and a change of password goes on in a session of its owner or one that has ended |

`ProxyKeepsBans` combines the theorems about `BanSpec` with the lemma
`ProxyBans`, which says that the pipeline's steps are steps of it by construction: what is proved of the ban functions by themselves, `BanPolicy`
included, holds of the whole pipeline.

Only model-checked: the liveness properties (`StrikesLeadToBan`,
`HandlersServed`, `CacheDrains`, `ExportsEnd`), because proofs of leads-to under
fairness are out of the prover's reach.

## 5. What the code does not do

Each of these is a run in which TLC finds the counterexample.

* `auto_ban_repeat`: "if 3 or more attacks, we ban" (`server.py:404`).  After
  its first ban has expired, an address is never banned again on that site: the
  old row occupies `UNIQUE (site, ip_address)`, the INSERT fails and the
  error is swallowed.  `NoMissedBan` is stated so that it holds nevertheless
  (there is a row); this run shows that the row may be an old one.
* `waf_proxy_limit`: a request over the traffic limit was to be logged as
  `TRAFFIC_LIMIT_EXCEEDED`; `status_code` has no value there (`server.py:214`),
  the call raises, and nothing is logged or counted.
* `accounts_blocked`: a user who is blocked before verifying the address opens
  the link, becomes active and logs in on the HTML page.

More disagreements have no run of their own.  Unblocking a user who has never
verified the e-mail activates the account, although the login page says
"not activated, confirm the e-mail" (`api/views.py:246`; `views.py:265` and
`api/views.py:1006` set `is_active` from `is_blocked` alone; the history variable
`unblocked` of `Accounts`).  Opening the page of the two-factor set-up is enough
to need codes from then on, although the page has a button "confirm and enable"
and `services.py:147` sets `confirmed` only after a right code: the device that
`get_or_create` makes is confirmed by default (`CreateDevice` of `Logins`).  A
rule whose action is 'log',
"only log" (`models.py:101`), refuses requests, for `server.py:257` does not
look at `result.action` (`Decide` of `WafProxy`).  The log filter
`blocked_only` (`swagger.yaml:782`, "only blocked requests") selects
`was_blocked`, which the engine also sets for attacks that monitoring mode
forwarded (`server.py:298`; the row `blocked_passed` of `WafProxy`).  The list
of *ready* exports (`api/views.py:758`) lists files that are still being
written, or whose task failed (`LogExport`: a name is in `dir` from `Open` on).

The history variables `overlapped`, `halfDone` and their like do not excuse
anything either: they say exactly which events the guarantee needs not to
happen.  Overlapping saves need a second gunicorn worker; the compose file
starts one.

## 6. What is abstracted, and what is not modelled

* A request is a verdict in `WafProxy` and a set of strings in `Analyzer`; the
  regular expressions and the decoding before them are data, which string is
  named in the report is left out.  Of a repeated parameter the engine passes
  the first value on (`server.py:239`): requests are what it passes on.
* Bytes in and out are one number; a month is a reset of a counter, and may come
  between caching and flushing.
* In the engine's modules a site's `domain` is a constant; it is edited in
  `Console`, where a text and a switch stand for the columns of a row.  Two rows with one domain are allowed (`DomainOf` need not be
  injective), and `SoleSite` says where a promise needs there to be one.
* In monitoring mode attacks still count towards a ban, and a banned address
  gets 403: the model does what the code does, and no property takes sides.
* A password is a number and a session has the number it was opened with; the
  one-time codes and CSRF are taken to be right.  Some views of the API ask for
  `IsAuthenticated` while no authentication is configured
  (`LogoutView`, the API's two-factor set-up, `UserPasswordChangeView`,
  `UserAvatarView`): they refuse every request and are left out.  The Django admin site, allauth (GitHub login), DRF and Celery are outside the
  repository.
* `blocked_ips` is a set: a text with a comma in it, entered as one address, is
  not modelled.
* Rendering, serializers, OpenAPI, monitoring with psutil, statistics queries:
  reads without state.
* In `LogExport` the bytes of two writers of one file are not told apart, and
  the columns of a row are not modelled; who is a superuser does not change.

## 7. Plan

Done: `BanPolicy`, `AutoBan`, `Meter`, `TrafficAccounting`, `WafProxy`,
`RuleCache`, `Analyzer`, `Accounts`, `AccessTokens`, `LogExport`, `RowRegister`,
`Console`, `Logins`, and proofs of every safety property the passing runs check
and of every refinement.

Next, in this order:

1. `Analyzer` in place of the verdicts of `WafProxy`.
2. Accounts and tokens together: what a blocked user's tokens still open.
