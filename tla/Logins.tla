------------------------------- MODULE Logins -------------------------------
(***************************************************************************)
(* Passwords, sessions and two-factor devices in the web application, from *)
(* accounts/views.py, accounts/services.py and accounts/api/views.py.      *)
(*                                                                         *)
(* Each query is a transaction of its own (autocommit).  Of a user's row   *)
(* the password column alone is here (see Accounts), as a number: each     *)
(* set_password makes a new hash.  A handler that edits the row for        *)
(* another reason saves the password it loaded with it.                    *)
(*                                                                         *)
(* A session holds the hash of the password it was opened with and whether *)
(* a one-time code was given; a request with a session whose hash is not   *)
(* the row's is refused, and the session deleted.  One that was changed is *)
(* updated at the end of the request, never inserted.  Wrong passwords and *)
(* codes, and what else is refused, change nothing and are left out; who   *)
(* logs in has no session of before.                                       *)
(***************************************************************************)
EXTENDS Integers

CONSTANTS Workers,      \* web workers, one request each at a time
          Users,        \* user accounts, all of them active
          Keys,         \* session keys
          MaxPasswords, \* bound: how often passwords are set
          None          \* no value

VARIABLES password,  \* accounts_user.password of each user
          devices,   \* how many TOTP devices named "default" a user has
          sessions,  \* rows of django_session
          job,       \* the requests
          latest,    \* history: the last password answered to be set
          out,       \* history: sessions ended, or opened with a password
                     \* that has been replaced
          scanned,   \* history: the device whose QR code the user saw last
          restored,  \* history: whose old password an edit brought back
          raced      \* history: whose set-ups of a device overlapped

history == <<latest, out, scanned, restored, raced>>
vars == <<password, devices, sessions, job, history>>

-----------------------------------------------------------------------------

Session == [user : Users, pw : Nat, otp : BOOLEAN]

ASSUME LoginsAssumption ==
    MaxPasswords \in Nat /\ None \notin Users \cup Keys \cup Session

Stage == {"idle", "factor", "starting", "creating", "marking", "saving", "rekeying"}

\* pw: the password in the copy of the row; key: the request's session; stale:
\* another set-up has created the device meanwhile.
Job == [stage : Stage,
        op    : {"none", "own", "set", "edit"},
        user  : Users \cup {None},
        key   : Keys \cup {None},
        pw    : Nat,
        otp   : BOOLEAN,
        stale : BOOLEAN]

NoJob == [stage |-> "idle", op |-> "none", user |-> None, key |-> None,
          pw |-> 0, otp |-> FALSE, stale |-> FALSE]

Idle(w) == job[w].stage = "idle"

Become(w, j) == job' = [job EXCEPT ![w] = j]

\* The request has loaded the row of u.
Loaded(u) == [NoJob EXCEPT !.user = u, !.pw = password[u]]

\* The middleware: the session exists and has the hash of the present password.
Works(k) == sessions[k] # None /\ sessions[k].pw = password[sessions[k].user]

\* A random key, never used before.
Unused(k) == sessions[k] = None /\ k \notin out

-----------------------------------------------------------------------------
(* Logging in *)

Authenticate(w, u, page) ==
    /\ Idle(w)
    /\ Become(w, [Loaded(u) EXCEPT
                    !.stage = IF page = "api" THEN "factor" ELSE "starting"])
    /\ UNCHANGED <<password, devices, sessions, history>>

\* The API wants a code, right for the first device, of who has one.
CheckFactor(w) ==
    /\ job[w].stage = "factor"
    /\ Become(w, [job[w] EXCEPT !.stage = "starting", !.otp = devices[job[w].user] > 0])
    /\ UNCHANGED <<password, devices, sessions, history>>

\* A session of key k, for the password in the request's hands.
Opened(w, k, pw) ==
    /\ Unused(k)
    /\ sessions' = [sessions EXCEPT ![k] = [user |-> job[w].user, pw |-> pw,
                                            otp |-> job[w].otp]]
    /\ out' = out \cup {h \in {k} : job[w].pw # latest[job[w].user]}

OpenedNow(w, k) == Opened(w, k, password[job[w].user])             \* mutant
Login(w, k) == Opened(w, k, job[w].pw)

Start(w, k) ==
    /\ job[w].stage = "starting"
    /\ Login(w, k)
    /\ Become(w, NoJob)
    /\ UNCHANGED <<password, devices, latest, scanned, restored, raced>>

-----------------------------------------------------------------------------
(* The second factor *)

\* get_or_create finds the device, or none; two are an error.
Always(u) == TRUE                                                  \* mutant
NoDevice(u) == devices[u] = 0

OpenSetup(w, k) ==
    /\ Idle(w) /\ Works(k)
    /\ LET u == sessions[k].user
       IN  \/ /\ NoDevice(u)
              /\ Become(w, [Loaded(u) EXCEPT !.stage = "creating"])
              /\ UNCHANGED scanned
           \/ /\ devices[u] = 1
              /\ scanned' = [scanned EXCEPT ![u] = 1]
              /\ UNCHANGED job
    /\ UNCHANGED <<password, devices, sessions, latest, out, restored, raced>>

CreateDevice(w) ==
    /\ job[w].stage = "creating"
    /\ LET u == job[w].user
       IN  /\ devices' = [devices EXCEPT ![u] = @ + 1]
           /\ scanned' = [scanned EXCEPT ![u] = devices[u] + 1]
           /\ raced' = IF job[w].stale THEN raced \cup {u} ELSE raced
           /\ job' = [v \in Workers |->
                        IF v = w THEN NoJob
                        ELSE [job[v] EXCEPT !.stale = @ \/ (job[v].stage = "creating"
                                                            /\ job[v].user = u)]]
    /\ UNCHANGED <<password, sessions, latest, out, restored>>

\* A code is checked against the first device, if there is one.
Anyhow(u) == TRUE                                                  \* mutant
HasDevice(u) == devices[u] > 0

\* verify_2fa_setup and verify_otp_login, with the right code, ...
EnterCode(w, k) ==
    /\ Idle(w) /\ Works(k)
    /\ HasDevice(sessions[k].user)
    /\ Become(w, [Loaded(sessions[k].user) EXCEPT !.stage = "marking", !.key = k])
    /\ UNCHANGED <<password, devices, sessions, history>>

\* ... mark the session; the update fails when it has been deleted.
Upsert(w) == sessions' = [sessions EXCEPT ![job[w].key] =          \* mutant
                            [user |-> job[w].user, pw |-> job[w].pw, otp |-> TRUE]]
Update(w) == sessions' = IF sessions[job[w].key] = None THEN sessions
                         ELSE [sessions EXCEPT ![job[w].key].otp = TRUE]

Mark(w) ==
    /\ job[w].stage = "marking"
    /\ Update(w)
    /\ Become(w, NoJob)
    /\ UNCHANGED <<password, devices, history>>

-----------------------------------------------------------------------------
(* Passwords and other columns of the row *)

\* A superuser changes her own password, in a session.
OwnPassword(w, k) ==
    /\ Idle(w) /\ Works(k)
    /\ latest[sessions[k].user] < MaxPasswords
    /\ Become(w, [Loaded(sessions[k].user) EXCEPT
                    !.stage = "saving", !.op = "own", !.key = k, !.otp = sessions[k].otp])
    /\ UNCHANGED <<password, devices, sessions, history>>

\* An administrator sets it, or the API; or something else in the row changes.
EditRow(w, u, op) ==
    /\ Idle(w)
    /\ op = "set" => latest[u] < MaxPasswords
    /\ Become(w, [Loaded(u) EXCEPT !.stage = "saving", !.op = op])
    /\ UNCHANGED <<password, devices, sessions, history>>

SavePassword(w) ==
    /\ job[w].stage = "saving" /\ job[w].op \in {"own", "set"}
    /\ LET u == job[w].user
           new == latest[u] + 1
       IN  /\ password' = [password EXCEPT ![u] = new]
           /\ latest' = [latest EXCEPT ![u] = new]
           /\ out' = out \cup {k \in Keys \ {job[w].key} :
                                sessions[k] # None /\ sessions[k].user = u}
           /\ restored' = restored \ {u}
           /\ Become(w, IF job[w].op = "own"
                        THEN [job[w] EXCEPT !.stage = "rekeying", !.pw = new]
                        ELSE NoJob)
    /\ UNCHANGED <<devices, sessions, scanned, raced>>

\* Model.save() writes the password it had read.
SaveRow(w) ==
    /\ job[w].stage = "saving" /\ job[w].op = "edit"
    /\ LET u == job[w].user
       IN  /\ password' = [password EXCEPT ![u] = job[w].pw]
           /\ restored' = IF job[w].pw # password[u] THEN restored \cup {u} ELSE restored
    /\ Become(w, NoJob)
    /\ UNCHANGED <<devices, sessions, latest, out, scanned, raced>>

\* update_session_auth_hash: the session moves to a new key, with the new hash.
Forgotten(w, k) ==                                                 \* mutant
    /\ job[w].stage = "rekeying" /\ Become(w, NoJob)
    /\ UNCHANGED <<password, devices, sessions, history>>
Rekey(w, k) ==
    /\ job[w].stage = "rekeying"
    /\ Unused(k)
    /\ sessions' = [sessions EXCEPT ![job[w].key] = None,
                                    ![k] = [user |-> job[w].user, pw |-> job[w].pw,
                                            otp |-> job[w].otp]]
    /\ out' = out \cup {job[w].key} \cup {h \in {k} : job[w].pw # latest[job[w].user]}
    /\ Become(w, NoJob)
    /\ UNCHANGED <<password, devices, latest, scanned, restored, raced>>

-----------------------------------------------------------------------------
(* The end of a session *)

\* Its owner logs out, or an administrator ends it, by either page; or it is
\* deleted because its hash is not the row's.
End(k) ==
    /\ sessions[k] # None
    /\ sessions' = [sessions EXCEPT ![k] = None]
    /\ out' = out \cup {k}
    /\ UNCHANGED <<password, devices, job, latest, scanned, restored, raced>>

\* An exception, or the end of the process; one before the new key has come
\* leaves its owner without a session.
Leave(w) ==
    /\ ~Idle(w)
    /\ out' = out \cup {k \in Keys : job[w].stage = "rekeying" /\ k = job[w].key}
    /\ Become(w, NoJob)
    /\ UNCHANGED <<password, devices, sessions, latest, scanned, restored, raced>>

-----------------------------------------------------------------------------

Init ==
    /\ password = [u \in Users |-> 0]
    /\ devices = [u \in Users |-> 0]
    /\ sessions = [k \in Keys |-> None]
    /\ job = [w \in Workers |-> NoJob]
    /\ latest = [u \in Users |-> 0]
    /\ out = {}
    /\ scanned = [u \in Users |-> 0]
    /\ restored = {}
    /\ raced = {}

Next ==
    \/ \E w \in Workers :
          \/ CheckFactor(w) \/ CreateDevice(w) \/ Mark(w)
          \/ SavePassword(w) \/ SaveRow(w) \/ Leave(w)
          \/ \E u \in Users :
                \/ \E page \in {"api", "html"} : Authenticate(w, u, page)
                \/ \E op \in {"set", "edit"} : EditRow(w, u, op)
          \/ \E k \in Keys :
                \/ Start(w, k) \/ OpenSetup(w, k) \/ EnterCode(w, k)
                \/ OwnPassword(w, k) \/ Rekey(w, k)
    \/ \E k \in Keys : End(k)

Spec == Init /\ [][Next]_vars

-----------------------------------------------------------------------------
(* Properties *)

\* The variables have their types, and whoever gave the right code has a device.
TypeOK ==
    /\ password \in [Users -> Nat] /\ latest \in [Users -> Nat]
    /\ devices \in [Users -> Nat] /\ scanned \in [Users -> Nat]
    /\ sessions \in [Keys -> Session \cup {None}]
    /\ job \in [Workers -> Job]
    /\ \A w \in Workers :
          /\ Idle(w) <=> job[w].user = None
          /\ job[w].stage \in {"marking", "rekeying"} => job[w].key # None
          /\ job[w].stage = "marking" => devices[job[w].user] > 0
    /\ out \subseteq Keys /\ restored \subseteq Users /\ raced \subseteq Users

\* A session that was ended, or that someone opened with a password replaced
\* since, be it while he was logging in, is of no use any more, unless an edit
\* of the user's row has brought the old password back.
OutStaysOut ==
    \A k \in out : sessions[k] # None /\ Works(k) => sessions[k].user \in restored

\* Nobody is thrown out without a reason: every other session works, with the
\* same exception.  Who changes her own password is in a new one when that has
\* come to its end.
OthersWork ==
    \A k \in Keys \ out :
        sessions[k] # None => \/ Works(k)
                              \/ sessions[k].user \in restored
                              \/ \E w \in Workers :
                                    job[w].stage = "rekeying" /\ job[w].key = k

\* Codes are checked against the device whose QR code the user saw last, unless
\* two pages set a device up at the same time.
ScannedIsChecked ==
    \A u \in Users : u \notin raced => scanned[u] = devices[u] /\ devices[u] <= 1
=============================================================================
