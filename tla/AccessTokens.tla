---------------------------- MODULE AccessTokens ----------------------------
(***************************************************************************)
(* The API tokens of one user, from accounts/api/views.py,                 *)
(* accounts/views.py, accounts/services.py and accounts/api/permissions.py.*)
(*                                                                         *)
(* Each query is a transaction of its own (autocommit).  An edit loads     *)
(* the row and saves its copy: Model.save() updates every column, and      *)
(* inserts the row anew when there is none to update.  A request admitted  *)
(* with a token may go on to any operation; so may one of the HTML pages,  *)
(* whose session is not modelled.  Refused requests change nothing and are *)
(* left out.  All tokens have the same name, and addresses are entered one *)
(* by one.                                                                 *)
(***************************************************************************)
EXTENDS Naturals, FiniteSets

CONSTANTS Workers,   \* web workers, one request each at a time
          Tokens,    \* primary keys of accounts_accesstoken
          IPs,       \* addresses of clients
          None       \* no row

VARIABLES tokens,      \* rows of accounts_accesstoken
          job,         \* the requests
          deleted,     \* history: tokens answered to be deleted
          promise,     \* history: what the answers say of each token
          overlapped,  \* history: tokens saved by a request with a stale copy
          obtained     \* history: tokens made because none was active, and not
                       \* switched on by hand since

history == <<deleted, promise, overlapped, obtained>>
vars == <<tokens, job, history>>

-----------------------------------------------------------------------------

\* blocked_ips, split at its commas.
Row == [active : BOOLEAN, ips : SUBSET IPs]

NewRow == [active |-> TRUE, ips |-> {}]

\* What the answers say of a token: active or not, and the addresses blocked.
Promise == [active : BOOLEAN, out : SUBSET IPs]

ASSUME TokensAssumption ==
    /\ None \notin Tokens \cup IPs \cup Row \cup Promise
    /\ IsFiniteSet(Workers)

Edits == {"toggle", "block", "unblock"}

Stage == {"idle", "admitted", "obtaining", "creating", "saving", "deleting"}

\* edit: what the request will do with ip to copy, the row of token; stale: the
\* row has changed since it was read.
Job == [stage : Stage,
        edit  : Edits \cup {"none"},
        token : Tokens \cup {None},
        copy  : Row,
        ip    : IPs \cup {None},
        stale : BOOLEAN]

NoJob == [stage |-> "idle", edit |-> "none", token |-> None, copy |-> NewRow,
          ip |-> None, stale |-> FALSE]

Exists(t) == tokens[t] # None
Fresh(t) == promise[t] = None       \* this primary key was never given
Ready(w) == job[w].stage \in {"idle", "admitted"}

Done(w) == job' = [job EXCEPT ![w] = NoJob]

\* The row of t is now another: who holds a copy of it is stale.
DoneChanging(w, t) ==
    job' = [v \in Workers |->
              IF v = w THEN NoJob ELSE [job[v] EXCEPT !.stale = @ \/ job[v].token = t]]

-----------------------------------------------------------------------------
(* Admission: IsTokenAuthenticated.has_permission *)

AnyToken(t, ip) == Exists(t) /\ tokens[t].active                   \* mutant
Admits(t, ip) ==
    /\ Exists(t)
    /\ tokens[t].active
    /\ ip \notin tokens[t].ips

Admit(w, t, ip) ==
    /\ job[w].stage = "idle"
    /\ Admits(t, ip)
    /\ job' = [job EXCEPT ![w].stage = "admitted"]
    /\ UNCHANGED <<tokens, history>>

-----------------------------------------------------------------------------
(* New tokens *)

\* TokenObtainView, with a password: an active token is answered if there is
\* one, and else one is created.
AnyExists == \E t \in Tokens : Exists(t) /\ ~tokens[t].active       \* mutant
AnyActive == \E t \in Tokens : Exists(t) /\ tokens[t].active

BeginObtain(w) ==
    /\ job[w].stage = "idle"
    /\ ~AnyActive
    /\ job' = [job EXCEPT ![w].stage = "obtaining"]
    /\ UNCHANGED <<tokens, history>>

\* TokenListCreateView does not look for one.
BeginCreate(w) ==
    /\ job[w].stage = "admitted"
    /\ job' = [job EXCEPT ![w].stage = "creating"]
    /\ UNCHANGED <<tokens, history>>

Create(w, t) ==
    /\ job[w].stage \in {"obtaining", "creating"}
    /\ Fresh(t)
    /\ tokens' = [tokens EXCEPT ![t] = NewRow]
    /\ promise' = [promise EXCEPT ![t] = [active |-> TRUE, out |-> {}]]
    /\ obtained' = IF job[w].stage = "obtaining" THEN obtained \cup {t} ELSE obtained
    /\ DoneChanging(w, t)
    /\ UNCHANGED <<deleted, overlapped>>

-----------------------------------------------------------------------------
(* Edits *)

\* A toggle has no address; one that is in the list is not blocked again, and
\* only one that is in the list is unblocked.
Unchecked(row, edit, ip) == edit = "toggle" <=> ip = None          \* mutant
Allowed(row, edit, ip) ==
    \/ edit = "toggle" /\ ip = None
    \/ edit = "block" /\ ip \in IPs \ row.ips
    \/ edit = "unblock" /\ ip \in row.ips

Overwrites(row, edit, ip) ==                                       \* mutant
    CASE edit = "toggle"  -> [row EXCEPT !.active = ~@]
      [] edit = "block"   -> [row EXCEPT !.ips = {ip}]
      [] edit = "unblock" -> [row EXCEPT !.ips = @ \ {ip}]

Edited(row, edit, ip) ==
    CASE edit = "toggle"  -> [row EXCEPT !.active = ~@]
      [] edit = "block"   -> [row EXCEPT !.ips = @ \cup {ip}]
      [] edit = "unblock" -> [row EXCEPT !.ips = @ \ {ip}]

Load(w, t, edit, ip) ==
    /\ Ready(w)
    /\ Exists(t)
    /\ Allowed(tokens[t], edit, ip)
    /\ job' = [job EXCEPT ![w] = [stage |-> "saving", edit |-> edit, token |-> t,
                                  copy |-> tokens[t], ip |-> ip, stale |-> FALSE]]
    /\ UNCHANGED <<tokens, history>>

\* What the answer to an edit says of the row from now on.
Promised(p, j) ==
    CASE j.edit = "toggle"  -> [p EXCEPT !.active = ~j.copy.active]
      [] j.edit = "block"   -> [p EXCEPT !.out = @ \cup {j.ip}]
      [] j.edit = "unblock" -> [p EXCEPT !.out = @ \ {j.ip}]

\* UPDATE, or INSERT when the row is gone.
Save(w) ==
    /\ job[w].stage = "saving"
    /\ LET t == job[w].token
       IN  /\ tokens' = [tokens EXCEPT ![t] = Edited(job[w].copy, job[w].edit, job[w].ip)]
           /\ promise' = [promise EXCEPT ![t] = Promised(@, job[w])]
           /\ overlapped' = IF job[w].stale THEN overlapped \cup {t} ELSE overlapped
           /\ obtained' = IF job[w].edit = "toggle" /\ ~job[w].copy.active
                          THEN obtained \ {t}
                          ELSE obtained
           /\ DoneChanging(w, t)
    /\ UNCHANGED deleted

BeginDelete(w, t) ==
    /\ Ready(w)
    /\ Exists(t)
    /\ job' = [job EXCEPT ![w].stage = "deleting", ![w].token = t]
    /\ UNCHANGED <<tokens, history>>

Delete(w) ==
    /\ job[w].stage = "deleting"
    /\ LET t == job[w].token
       IN  /\ tokens' = [tokens EXCEPT ![t] = None]
           /\ deleted' = deleted \cup {t}
           /\ promise' = [promise EXCEPT ![t].active = FALSE]
           /\ DoneChanging(w, t)
    /\ UNCHANGED <<overlapped, obtained>>

\* A database error, or an admitted request that has nothing to do here.
Leave(w) ==
    /\ job[w].stage # "idle"
    /\ Done(w)
    /\ UNCHANGED <<tokens, history>>

-----------------------------------------------------------------------------

Init ==
    /\ tokens = [t \in Tokens |-> None]
    /\ job = [w \in Workers |-> NoJob]
    /\ deleted = {}
    /\ promise = [t \in Tokens |-> None]
    /\ overlapped = {}
    /\ obtained = {}

Next ==
    \E w \in Workers :
      \/ BeginObtain(w) \/ BeginCreate(w) \/ Save(w) \/ Delete(w) \/ Leave(w)
      \/ \E t \in Tokens :
           \/ Create(w, t)
           \/ BeginDelete(w, t)
           \/ \E ip \in IPs : Admit(w, t, ip)
           \/ \E edit \in Edits, ip \in IPs \cup {None} : Load(w, t, edit, ip)

Spec == Init /\ [][Next]_vars

-----------------------------------------------------------------------------
(* Properties *)

\* The variables have their types, every row has been created by someone, and
\* list.remove finds the address.
TypeOK ==
    /\ tokens \in [Tokens -> Row \cup {None}]
    /\ job \in [Workers -> Job]
    /\ \A w \in Workers :
          /\ job[w].stage \in {"saving", "deleting"} <=> job[w].token # None
          /\ job[w].stage = "saving" <=> job[w].edit # "none"
          /\ job[w].edit = "unblock" => job[w].ip \in job[w].copy.ips
    /\ promise \in [Tokens -> Promise \cup {None}]
    /\ \A t \in Tokens : Exists(t) \/ t \in deleted => ~Fresh(t)
    /\ deleted \subseteq Tokens /\ overlapped \subseteq Tokens /\ obtained \subseteq Tokens

\* What administrators were answered holds: a deleted token is gone, one is
\* active or not as the last toggle said, and the addresses blocked are those
\* whose block was answered and no unblock since, unless a stale save overwrote
\* the row.
AnswersHold ==
    \A t \in Tokens :
        Exists(t) => \/ t \in overlapped
                     \/ /\ t \notin deleted
                        /\ tokens[t].active = promise[t].active
                        /\ tokens[t].ips = promise[t].out

\* Asking for a token again and again leaves no heap of active ones, each of which
\* the user would have to know of and revoke.  Requests that overlap may each
\* find none and make one, so there is one for each web worker at most, besides
\* those made or switched on by hand, or brought back by a stale save.
FewTokens ==
    Cardinality({t \in obtained \ overlapped : Exists(t) /\ tokens[t].active})
    <= Cardinality(Workers)

\* No request gets in with a token, or from an address, that was answered to be
\* out, unless stale saves overwrote the row.
RevokedStaysOut ==
    [][\A w \in Workers, t \in Tokens, ip \in IPs :
          Admit(w, t, ip) /\ t \notin overlapped
          => promise[t].active /\ ip \notin promise[t].out]_vars
=============================================================================
