------------------------------ MODULE Accounts ------------------------------
(***************************************************************************)
(* The life of an account in the web application: registration, e-mail     *)
(* verification, blocking, other edits of the row, and logging in, from    *)
(* accounts/api/views.py, accounts/views.py and accounts/services.py.      *)
(*                                                                         *)
(* Each query is a transaction of its own (autocommit).  A handler loads   *)
(* the row, changes its copy and saves it: Model.save() writes every       *)
(* column, the ones it did not mean to change included.  login() writes    *)
(* last_login alone.                                                       *)
(*                                                                         *)
(* A user name registers once, so its verification token is one flag,      *)
(* pending.  A handler refused with 4xx changes nothing and is left out;   *)
(* so are passwords and one-time codes, which are taken to be right.       *)
(***************************************************************************)
EXTENDS Integers

CONSTANTS Workers,   \* web workers, one request each at a time
          Users,     \* user names
          None       \* no value

VARIABLES users,       \* rows of accounts_user
          mailed,      \* whose verification link was sent
          job,         \* the requests
          unblocked,   \* history: whom an administrator unblocked
          lateVerified,\* history: who verified while blocked
          halfDone,    \* history: whose registration or blocking failed half-way
          overlapped   \* history: on whose row a save overwrote another

history == <<unblocked, lateVerified, halfDone, overlapped>>
vars == <<users, mailed, job, history>>

-----------------------------------------------------------------------------

\* is_active, is_email_verified, is_blocked, and whether
\* email_verification_token is set.
Row == [active : BOOLEAN, verified : BOOLEAN, blocked : BOOLEAN, pending : BOOLEAN]

\* create_user leaves is_active at its default.
Created == [active |-> TRUE, verified |-> FALSE, blocked |-> FALSE, pending |-> FALSE]

ASSUME AccountsAssumption == None \notin Users \cup Row

Operation == {"register", "verify", "block", "unblock", "toggle", "edit", "login"}

\* copy: the row in the handler's hands; stale: the table has changed since.
Job == [op    : Operation \cup {None},
        stage : {"idle", "saving", "activating", "mailing", "starting"},
        user  : Users \cup {None},
        copy  : Row,
        stale : BOOLEAN]

NoJob == [op |-> None, stage |-> "idle", user |-> None, copy |-> Created, stale |-> FALSE]

Exists(u) == users[u] # None

-----------------------------------------------------------------------------
(* What an operation does to its copy before it saves it *)

StaysActive(row) == [row EXCEPT !.pending = TRUE]                  \* mutant
NoLink(row) == [row EXCEPT !.active = FALSE]                       \* mutant
Registered(row) == [row EXCEPT !.active = FALSE, !.pending = TRUE]

Verified(row) == [row EXCEPT !.active = TRUE, !.verified = TRUE, !.pending = FALSE]

\* admin_user_detail flips is_blocked; is_active is its opposite.
FlagOnly(row) == [row EXCEPT !.blocked = ~@]                       \* mutant
Toggled(row) == [row EXCEPT !.blocked = ~@, !.active = row.blocked]

\* The serializer of UserDetailView.patch saves is_blocked alone, first.
Edited(op, row) ==
    CASE op = "register" -> Registered(row)
      [] op = "verify"   -> Verified(row)
      [] op = "toggle"   -> Toggled(row)
      [] op = "block"    -> [row EXCEPT !.blocked = TRUE]
      [] op = "unblock"  -> [row EXCEPT !.blocked = FALSE]
      [] op = "edit"     -> row

-----------------------------------------------------------------------------
(* Requests *)

Take(w, op, stage, u, row) ==
    job' = [job EXCEPT ![w] = [op |-> op, stage |-> stage, user |-> u,
                               copy |-> row, stale |-> FALSE]]

\* User.objects.create_user: a row that is active at once.
CreateUser(w, u) ==
    /\ job[w].stage = "idle"
    /\ ~Exists(u)
    /\ users' = [users EXCEPT ![u] = Created]
    /\ Take(w, "register", "saving", u, Created)
    /\ UNCHANGED <<mailed, history>>

\* VerifyEmailView finds the row by the token of the link.
OpenLink(w, u) ==
    /\ job[w].stage = "idle"
    /\ u \in mailed
    /\ users[u].pending
    /\ Take(w, "verify", "saving", u, users[u])
    /\ UNCHANGED <<users, mailed, history>>

\* An administrator, or the user with an avatar or a password, edits the row.
OpenRow(w, u, op) ==
    /\ job[w].stage = "idle"
    /\ op \in {"block", "unblock", "toggle", "edit"}
    /\ Exists(u)
    /\ Take(w, op, "saving", u, users[u])
    /\ UNCHANGED <<users, mailed, history>>

\* Write the whole row: whoever else has it in hand is stale now.
Write(w, row, after) ==
    /\ users' = [users EXCEPT ![job[w].user] = row]
    /\ overlapped' = IF job[w].stale THEN overlapped \cup {job[w].user} ELSE overlapped
    /\ job' = [v \in Workers |->
                 IF v = w THEN after
                 ELSE [job[v] EXCEPT !.stale = @ \/ (job[v].user = job[w].user
                                                     /\ job[v].stage # "idle")]]

Save(w) ==
    /\ job[w].stage = "saving"
    /\ LET u == job[w].user
           row == Edited(job[w].op, job[w].copy)
       IN  /\ Write(w, row,
                 CASE job[w].op = "register"
                        -> [job[w] EXCEPT !.stage = "mailing", !.copy = row, !.stale = FALSE]
                   [] job[w].op \in {"block", "unblock"}
                        -> [job[w] EXCEPT !.stage = "activating", !.copy = row, !.stale = FALSE]
                   [] OTHER -> NoJob)
           /\ unblocked' = IF (job[w].copy.blocked /\ ~row.blocked) \/ job[w].op = "unblock"
                           THEN unblocked \cup {u} ELSE unblocked
           /\ lateVerified' = IF job[w].op = "verify" /\ row.blocked
                              THEN lateVerified \cup {u} ELSE lateVerified
    /\ UNCHANGED <<mailed, halfDone>>

\* The second save of UserDetailView.patch: is_active = not is_blocked.
SaveActive(w) ==
    /\ job[w].stage = "activating"
    /\ Write(w, [job[w].copy EXCEPT !.active = ~job[w].copy.blocked], NoJob)
    /\ UNCHANGED <<mailed, unblocked, lateVerified, halfDone>>

\* send_mail; when it fails the answer is 500 and the row stays.
SendMail(w) ==
    /\ job[w].stage = "mailing"
    /\ mailed' \in {mailed \cup {job[w].user}, mailed}
    /\ job' = [job EXCEPT ![w] = NoJob]
    /\ UNCHANGED <<users, history>>

\* A database error, or the end of the process, before the save.
Fail(w) ==
    /\ job[w].stage \in {"saving", "activating"}
    /\ halfDone' = IF job[w].op = "register" \/ job[w].stage = "activating"
                   THEN halfDone \cup {job[w].user} ELSE halfDone
    /\ job' = [job EXCEPT ![w] = NoJob]
    /\ UNCHANGED <<users, mailed, unblocked, lateVerified, overlapped>>

-----------------------------------------------------------------------------
(* Logging in *)

\* authenticate() refuses inactive users, on both ways in.
Anyone(u) == Exists(u)                                             \* mutant
CanAuthenticate(u) == Exists(u) /\ users[u].active

\* LoginView and TokenObtainView of the API look at is_blocked as well, the
\* login page does not.
Authenticate(w, u, page) ==
    /\ job[w].stage = "idle"
    /\ CanAuthenticate(u)
    /\ page = "html" \/ ~users[u].blocked
    /\ Take(w, "login", "starting", u, users[u])
    /\ UNCHANGED <<users, mailed, history>>

\* login(): the session, or the API token, is created.
Start(w) ==
    /\ job[w].stage = "starting"
    /\ job' = [job EXCEPT ![w] = NoJob]
    /\ UNCHANGED <<users, mailed, history>>

-----------------------------------------------------------------------------

Init ==
    /\ users = [u \in Users |-> None]
    /\ mailed = {}
    /\ job = [w \in Workers |-> NoJob]
    /\ unblocked = {}
    /\ lateVerified = {}
    /\ halfDone = {}
    /\ overlapped = {}

Next ==
    \/ \E w \in Workers, u \in Users :
          \/ CreateUser(w, u)
          \/ OpenLink(w, u)
          \/ \E op \in Operation : OpenRow(w, u, op)
          \/ \E page \in {"api", "html"} : Authenticate(w, u, page)
    \/ \E w \in Workers : Save(w) \/ SaveActive(w) \/ SendMail(w) \/ Fail(w) \/ Start(w)

Spec == Init /\ [][Next]_vars

-----------------------------------------------------------------------------
(* Properties *)

\* The variables have their types, only rows that exist are in hand, and
\* whoever is being logged in was active when authenticated.
TypeOK ==
    /\ users \in [Users -> Row \cup {None}]
    /\ mailed \subseteq {u \in Users : Exists(u)}
    /\ job \in [Workers -> Job]
    /\ \A w \in Workers : job[w].stage # "idle" => job[w].user # None /\ Exists(job[w].user)
    /\ \A w \in Workers : job[w].stage = "starting" => job[w].copy.active
    /\ \A S \in {unblocked, lateVerified, halfDone, overlapped} : S \subseteq Users

\* A handler is between creating the account of u and deactivating it.
Registering(u) ==
    \E w \in Workers :
        job[w].user = u /\ job[w].op = "register" /\ job[w].stage = "saving"

\* A handler is between saving is_blocked of u and saving is_active.
Blocking(u) == \E w \in Workers : job[w].user = u /\ job[w].stage = "activating"

\* An account is active without a verified address only in the middle of its
\* registration, after that failed half-way, after an administrator unblocked
\* it, or when saves overlapped.
ActivationEarned ==
    \A u \in Users :
        Exists(u) /\ users[u].active /\ ~users[u].verified
        => \/ u \in unblocked \cup halfDone \cup overlapped
           \/ Registering(u)

\* A blocked account is active only in the middle of the blocking, after that
\* failed half-way, after its owner verified the address, or when saves
\* overlapped.
BlockHolds ==
    \A u \in Users :
        Exists(u) /\ users[u].blocked /\ users[u].active
        => \/ u \in lateVerified \cup halfDone \cup overlapped
           \/ Blocking(u)

\* Nobody is locked out: an account that is neither active nor blocked waits
\* for its verification, unless saves overlapped or an operation failed
\* half-way.
NotLockedOut ==
    \A u \in Users :
        Exists(u) /\ ~users[u].active /\ ~users[u].blocked
        => \/ users[u].pending
           \/ u \in halfDone \cup overlapped
           \/ Blocking(u)

-----------------------------------------------------------------------------
(* A claim the code does not keep *)

\* LoginView: "the user is blocked".  Whoever an administrator blocked, with
\* success, does not log in.
BlockedStaysOut ==
    \A w \in Workers :
        job[w].stage = "starting" /\ job[w].copy.blocked => job[w].user \in halfDone
=============================================================================
