---------------------------- MODULE LoginsProofs ----------------------------
(***************************************************************************)
(* Proofs about Logins: who was put out stays out, nobody else is, and     *)
(* codes are checked against the device the user was shown, for any number *)
(* of web workers, users and sessions.                                     *)
(***************************************************************************)
EXTENDS Logins, TLAPS

-----------------------------------------------------------------------------
(* The inductive invariant *)

\* A row has the last password that was set, unless an edit has brought an older
\* one back.
RowsOK ==
    \A u \in Users : /\ password[u] <= latest[u]
                     /\ u \notin restored => password[u] = latest[u]

\* What a request has in hand: a password that was in the row, and, when it
\* changes its owner's, a session of that owner or one that has ended; that
\* session has an old password from the moment the new one is saved.
Has(j, devs, last, open, gone) ==
    /\ j.stage # "idle" => j.user \in Users /\ j.pw <= last[j.user]
    /\ j.stage = "saving" => j.op \in {"own", "set", "edit"}
    /\ j.stage = "rekeying" => j.op = "own"
    /\ j.op = "set" => j.key = None
    /\ j.op = "own" => /\ j.stage # "idle"
                       /\ j.key \in Keys
                       /\ open[j.key] = None => j.key \in gone
                       /\ open[j.key] # None => open[j.key].user = j.user
    /\ j.stage = "rekeying" /\ open[j.key] # None => open[j.key].pw < last[j.user]
    /\ j.stage = "creating" /\ ~j.stale => devs[j.user] = 0

RequestsOK == \A w \in Workers : Has(job[w], devices, latest, sessions, out)

\* The owner of session k is changing her password and has not got the new
\* session yet.
Rekeying(k) == \E w \in Workers : job[w].stage = "rekeying" /\ job[w].key = k

\* A session is out when its password is not the last, but for the one in which
\* that was changed, and only then.
SessionsOK ==
    \A k \in Keys :
        sessions[k] # None
        => /\ sessions[k].pw <= latest[sessions[k].user]
           /\ k \in out => sessions[k].pw < latest[sessions[k].user]
           /\ k \notin out => sessions[k].pw = latest[sessions[k].user] \/ Rekeying(k)

IInv == TypeOK /\ RowsOK /\ RequestsOK /\ SessionsOK /\ ScannedIsChecked

-----------------------------------------------------------------------------
(* Requests *)

LEMMA NoJobType == NoJob \in Job
BY DEF NoJob, Job, Stage

LEMMA NothingInHand ==
    ASSUME NEW devs, NEW last, NEW open, NEW gone
    PROVE  Has(NoJob, devs, last, open, gone)
BY DEF NoJob, Has

\* What a request has just loaded is right.
LEMMA LoadedRow ==
    ASSUME IInv, NEW u \in Users
    PROVE  /\ Loaded(u) \in Job /\ Loaded(u).user = u /\ Loaded(u).stage = "idle"
           /\ Loaded(u).pw \in Nat /\ Loaded(u).pw <= latest[u]
           /\ Loaded(u).op = "none" /\ Loaded(u).key = None
           /\ ~Loaded(u).stale
<1>1. password[u] \in Nat /\ password[u] <= latest[u]
  BY DEF IInv, TypeOK, RowsOK
<1> QED BY <1>1 DEF Loaded, NoJob, Job, Stage

LEMMA Establish == Init => IInv
<1> SUFFICES ASSUME Init PROVE IInv
  OBVIOUS
<1> USE DEF Init
<1>1. TypeOK
  BY NoJobType DEF TypeOK, Idle, NoJob
<1>2. RowsOK /\ SessionsOK /\ ScannedIsChecked
  BY DEF RowsOK, SessionsOK, ScannedIsChecked
<1>3. RequestsOK
  BY NothingInHand DEF RequestsOK
<1> QED BY <1>1, <1>2, <1>3 DEF IInv

\* The steps of one request that change no table: it goes on with what it has
\* loaded, or is over, and then a session that was to be replaced is over too.
LEMMA OneRequest ==
    ASSUME IInv, NEW w \in Workers, NEW j \in Job, job' = [job EXCEPT ![w] = j],
           UNCHANGED <<password, devices, sessions, latest, scanned, restored, raced>>,
           out' = out \cup {k \in Keys : job[w].stage = "rekeying" /\ k = job[w].key},
           j.stage = "idle" <=> j.user = None,
           j.stage \in {"marking", "rekeying"} => j.key # None,
           j.stage = "marking" => devices[j.user] > 0,
           j.stage # "rekeying",
           Has(j, devices, latest, sessions, out)
    PROVE  IInv'
<1>0. /\ TypeOK /\ RowsOK /\ RequestsOK /\ SessionsOK /\ ScannedIsChecked
      /\ job[w] \in Job /\ Has(job[w], devices, latest, sessions, out)
      /\ out \subseteq out' /\ out' \subseteq Keys
  BY DEF IInv, TypeOK, RequestsOK
<1>1. TypeOK'
  BY <1>0 DEF TypeOK, Idle
<1>2. RowsOK' /\ ScannedIsChecked'
  BY <1>0 DEF RowsOK, ScannedIsChecked
<1>3. ASSUME NEW v \in Workers
      PROVE  Has(job'[v], devices, latest, sessions, out')
  <2>1. Has(job'[v], devices, latest, sessions, out)
    BY <1>0 DEF TypeOK, RequestsOK
  <2> QED BY <1>0, <2>1 DEF Has
<1>4. RequestsOK'
  BY <1>3 DEF RequestsOK
<1>5. ASSUME NEW k \in Keys, sessions[k] # None
      PROVE  /\ k \in out' => sessions[k].pw < latest[sessions[k].user]
             /\ k \notin out' => \/ sessions[k].pw = latest[sessions[k].user]
                                 \/ Rekeying(k)'
  <2>1. CASE job[w].stage = "rekeying" /\ k = job[w].key
    BY <1>0, <1>5, <2>1 DEF Has
  <2>2. CASE ~(job[w].stage = "rekeying" /\ k = job[w].key)
    <3>1. Rekeying(k) => Rekeying(k)'
      BY <1>0, <2>2 DEF Rekeying, TypeOK
    <3> QED BY <1>0, <1>5, <2>2, <3>1 DEF SessionsOK
  <2> QED BY <2>1, <2>2
<1>6. SessionsOK'
  BY <1>0, <1>5 DEF SessionsOK
<1> QED BY <1>1, <1>2, <1>4, <1>6 DEF IInv

-----------------------------------------------------------------------------
(* Sessions *)

\* A session is opened with the password in the hands of its request.
LEMMA StartStep ==
    ASSUME IInv, NEW w \in Workers, NEW k \in Keys, Start(w, k)
    PROVE  IInv'
<1> USE LoginsAssumption
<1> DEFINE j == job[w]
           s == [user |-> j.user, pw |-> j.pw, otp |-> j.otp]
<1>0. /\ TypeOK /\ RowsOK /\ RequestsOK /\ SessionsOK /\ ScannedIsChecked
      /\ j \in Job /\ Has(j, devices, latest, sessions, out)
  BY DEF IInv, TypeOK, RequestsOK
<1>1. /\ j.stage = "starting" /\ sessions[k] = None /\ k \notin out
      /\ sessions' = [sessions EXCEPT ![k] = s]
      /\ out' = out \cup {h \in {k} : j.pw # latest[j.user]}
      /\ job' = [job EXCEPT ![w] = NoJob]
      /\ UNCHANGED <<password, devices, latest, scanned, restored, raced>>
  BY DEF Start, Login, Opened, Unused, Become
<1>2. s \in Session /\ s.user \in Users /\ s.pw <= latest[s.user]
      /\ s.user = j.user /\ s.pw = j.pw
  BY <1>0, <1>1 DEF Has, Session, Job
<1>3. TypeOK'
  <2>1. sessions' \in [Keys -> Session \cup {None}] /\ out' \subseteq Keys
    BY <1>0, <1>1, <1>2 DEF TypeOK
  <2>2. job' \in [Workers -> Job]
    BY <1>0, <1>1, NoJobType DEF TypeOK
  <2> QED BY <1>0, <1>1, <2>1, <2>2 DEF TypeOK, Idle, NoJob
<1>4. RowsOK' /\ ScannedIsChecked'
  BY <1>0, <1>1 DEF RowsOK, ScannedIsChecked
<1>5. ASSUME NEW v \in Workers
      PROVE  Has(job'[v], devices, latest, sessions', out')
  <2>1. CASE v = w
    BY <1>0, <1>1, <2>1, NothingInHand DEF TypeOK
  <2>2. CASE v # w
    <3>1. job'[v] = job[v] /\ Has(job[v], devices, latest, sessions, out)
      BY <1>0, <1>1, <2>2 DEF RequestsOK, TypeOK
    <3>2. job[v].op = "own" => job[v].key # k
      BY <1>1, <3>1 DEF Has
    <3>3. job[v].op = "own" => sessions'[job[v].key] = sessions[job[v].key]
      BY <1>0, <1>1, <3>1, <3>2 DEF Has, TypeOK
    <3> QED BY <1>1, <3>1, <3>3 DEF Has
  <2> QED BY <2>1, <2>2
<1>6. RequestsOK'
  BY <1>1, <1>5 DEF RequestsOK
<1>7. ASSUME NEW h \in Keys, sessions'[h] # None
      PROVE  /\ sessions'[h].pw <= latest[sessions'[h].user]
             /\ h \in out' => sessions'[h].pw < latest[sessions'[h].user]
             /\ h \notin out' => \/ sessions'[h].pw = latest[sessions'[h].user]
                                 \/ Rekeying(h)'
  <2>1. CASE h = k
    <3>1. sessions'[h] = s
      BY <1>0, <1>1, <2>1 DEF TypeOK
    <3>2. s.pw \in Nat /\ latest[s.user] \in Nat
      BY <1>0, <1>2 DEF TypeOK, Session
    <3> HIDE DEF s
    <3> QED BY <1>1, <1>2, <2>1, <3>1, <3>2
  <2>2. CASE h # k
    <3>1. sessions'[h] = sessions[h] /\ (h \in out' <=> h \in out)
      BY <1>0, <1>1, <2>2 DEF TypeOK
    <3>2. Rekeying(h) => Rekeying(h)'
      BY <1>0, <1>1 DEF Rekeying, TypeOK
    <3> QED BY <1>0, <1>7, <3>1, <3>2 DEF SessionsOK
  <2> QED BY <2>1, <2>2
<1>8. SessionsOK'
  BY <1>1, <1>7 DEF SessionsOK
<1> QED BY <1>3, <1>4, <1>6, <1>8 DEF IInv

\* The session of a right code is marked, if it is still there.
LEMMA MarkStep ==
    ASSUME IInv, NEW w \in Workers, Mark(w)
    PROVE  IInv'
<1> USE LoginsAssumption
<1> DEFINE key == job[w].key
<1>0. /\ TypeOK /\ RowsOK /\ RequestsOK /\ SessionsOK /\ ScannedIsChecked
      /\ job[w] \in Job /\ key \in Keys
  BY DEF IInv, TypeOK, Mark, Job
<1>1. /\ job[w].stage = "marking"
      /\ job' = [job EXCEPT ![w] = NoJob]
      /\ UNCHANGED <<password, devices, latest, out, scanned, restored, raced>>
  BY DEF Mark, Become, history
<1>2. /\ sessions' \in [Keys -> Session \cup {None}]
      /\ \A k \in Keys : /\ sessions'[k] = None <=> sessions[k] = None
                         /\ sessions[k] # None
                            => /\ sessions'[k].user = sessions[k].user
                               /\ sessions'[k].pw = sessions[k].pw
  <2>1. CASE sessions[key] = None
    BY <1>0, <2>1 DEF Mark, Update, TypeOK
  <2>2. CASE sessions[key] # None
    <3>1. sessions[key] \in Session
      BY <1>0, <2>2 DEF TypeOK
    <3>2. sessions' = [sessions EXCEPT ![key].otp = TRUE]
      BY <2>2 DEF Mark, Update
    <3>3. /\ [sessions[key] EXCEPT !.otp = TRUE] \in Session
          /\ [sessions[key] EXCEPT !.otp = TRUE].user = sessions[key].user
          /\ [sessions[key] EXCEPT !.otp = TRUE].pw = sessions[key].pw
      BY <3>1 DEF Session
    <3>4. /\ sessions'[key] = [sessions[key] EXCEPT !.otp = TRUE]
          /\ \A k \in Keys \ {key} : sessions'[k] = sessions[k]
          /\ sessions' \in [Keys -> Session \cup {None}]
      BY <1>0, <3>2, <3>3 DEF TypeOK
    <3> QED BY <2>2, <3>3, <3>4
  <2> QED BY <2>1, <2>2
<1>3. TypeOK'
  <2>1. job' \in [Workers -> Job]
    BY <1>0, <1>1, NoJobType DEF TypeOK
  <2> QED BY <1>0, <1>1, <1>2, <2>1 DEF TypeOK, Idle, NoJob
<1>4. RowsOK' /\ ScannedIsChecked'
  BY <1>0, <1>1 DEF RowsOK, ScannedIsChecked
<1>5. ASSUME NEW v \in Workers
      PROVE  Has(job'[v], devices, latest, sessions', out)
  <2>1. CASE v = w
    BY <1>0, <1>1, <2>1, NothingInHand DEF TypeOK
  <2>2. CASE v # w
    BY <1>0, <1>1, <1>2, <2>2 DEF RequestsOK, Has, TypeOK
  <2> QED BY <2>1, <2>2
<1>6. RequestsOK'
  BY <1>1, <1>5 DEF RequestsOK
<1>7. SessionsOK'
  <2>1. \A k \in Keys : Rekeying(k) => Rekeying(k)'
    BY <1>0, <1>1 DEF Rekeying, TypeOK
  <2> QED BY <1>0, <1>1, <1>2, <2>1 DEF SessionsOK
<1> QED BY <1>3, <1>4, <1>6, <1>7 DEF IInv

\* A session ends; it never comes back.
LEMMA EndStep ==
    ASSUME IInv, NEW k \in Keys, End(k)
    PROVE  IInv'
<1>0. /\ TypeOK /\ RowsOK /\ RequestsOK /\ SessionsOK /\ ScannedIsChecked
  BY DEF IInv
<1>1. /\ sessions' = [sessions EXCEPT ![k] = None] /\ out' = out \cup {k}
      /\ UNCHANGED <<password, devices, job, latest, scanned, restored, raced>>
  BY DEF End
<1>2. TypeOK'
  BY <1>0, <1>1 DEF TypeOK, Idle
<1>3. RowsOK' /\ ScannedIsChecked'
  BY <1>0, <1>1 DEF RowsOK, ScannedIsChecked
<1>4. ASSUME NEW v \in Workers
      PROVE  Has(job[v], devices, latest, sessions', out')
  <2>1. Has(job[v], devices, latest, sessions, out)
    BY <1>0 DEF RequestsOK
  <2> QED BY <1>0, <1>1, <2>1 DEF Has, TypeOK
<1>5. RequestsOK'
  BY <1>1, <1>4 DEF RequestsOK
<1>6. SessionsOK'
  BY <1>0, <1>1 DEF SessionsOK, Rekeying, TypeOK
<1> QED BY <1>2, <1>3, <1>5, <1>6 DEF IInv

\* The session in which the password was changed moves to a new key.
LEMMA RekeyStep ==
    ASSUME IInv, NEW w \in Workers, NEW k \in Keys, Rekey(w, k)
    PROVE  IInv'
<1> USE LoginsAssumption
<1> DEFINE j == job[w]
           s == [user |-> j.user, pw |-> j.pw, otp |-> j.otp]
<1>0. /\ TypeOK /\ RowsOK /\ RequestsOK /\ SessionsOK /\ ScannedIsChecked
      /\ j \in Job /\ Has(j, devices, latest, sessions, out)
  BY DEF IInv, TypeOK, RequestsOK
<1>1. /\ j.stage = "rekeying" /\ sessions[k] = None /\ k \notin out
      /\ sessions' = [sessions EXCEPT ![j.key] = None, ![k] = s]
      /\ out' = out \cup {j.key} \cup {h \in {k} : j.pw # latest[j.user]}
      /\ job' = [job EXCEPT ![w] = NoJob]
      /\ UNCHANGED <<password, devices, latest, scanned, restored, raced>>
  BY DEF Rekey, Unused, Become
<1>2. /\ s \in Session /\ s.user \in Users /\ s.pw <= latest[s.user]
      /\ s.user = j.user /\ s.pw = j.pw
      /\ j.key \in Keys /\ j.key # k
  BY <1>0, <1>1 DEF Has, Session, Job
<1>3. /\ sessions' \in [Keys -> Session \cup {None}]
      /\ sessions'[k] = s /\ sessions'[j.key] = None
      /\ \A h \in Keys \ {k, j.key} : sessions'[h] = sessions[h]
      /\ out \subseteq out' /\ j.key \in out' /\ out' \subseteq Keys
      /\ \A h \in Keys \ {k, j.key} : h \in out' <=> h \in out
      /\ k \in out' <=> s.pw # latest[s.user]
  <2> HIDE DEF s
  <2> QED BY <1>0, <1>1, <1>2 DEF TypeOK
<1>4. TypeOK'
  <2>1. job' \in [Workers -> Job]
    BY <1>0, <1>1, NoJobType DEF TypeOK
  <2> QED BY <1>0, <1>1, <1>3, <2>1 DEF TypeOK, Idle, NoJob
<1>5. RowsOK' /\ ScannedIsChecked'
  BY <1>0, <1>1 DEF RowsOK, ScannedIsChecked
<1>6. ASSUME NEW v \in Workers
      PROVE  Has(job'[v], devices, latest, sessions', out')
  <2>1. CASE v = w
    BY <1>0, <1>1, <2>1, NothingInHand DEF TypeOK
  <2>2. CASE v # w
    <3>1. job'[v] = job[v] /\ Has(job[v], devices, latest, sessions, out)
      BY <1>0, <1>1, <2>2 DEF RequestsOK, TypeOK
    <3>2. job[v].op = "own" => job[v].key # k
      BY <1>1, <3>1 DEF Has
    <3> QED BY <1>3, <3>1, <3>2 DEF Has
  <2> QED BY <2>1, <2>2
<1>7. RequestsOK'
  BY <1>1, <1>6 DEF RequestsOK
<1>8. ASSUME NEW h \in Keys, sessions'[h] # None
      PROVE  /\ sessions'[h].pw <= latest[sessions'[h].user]
             /\ h \in out' => sessions'[h].pw < latest[sessions'[h].user]
             /\ h \notin out' => \/ sessions'[h].pw = latest[sessions'[h].user]
                                 \/ Rekeying(h)'
  <2>1. CASE h = k
    <3>1. s.pw \in Nat /\ latest[s.user] \in Nat
      BY <1>0, <1>2 DEF TypeOK, Session
    <3> HIDE DEF s
    <3> QED BY <1>2, <1>3, <2>1, <3>1
  <2>2. CASE h # k
    <3>1. h # j.key
      BY <1>3, <1>8
    <3>2. Rekeying(h) => Rekeying(h)'
      BY <1>0, <1>1, <3>1 DEF Rekeying, TypeOK
    <3> QED BY <1>0, <1>3, <1>8, <2>2, <3>1, <3>2 DEF SessionsOK
  <2> QED BY <2>1, <2>2
<1>9. SessionsOK'
  BY <1>1, <1>8 DEF SessionsOK
<1> QED BY <1>4, <1>5, <1>7, <1>9 DEF IInv

-----------------------------------------------------------------------------
(* Passwords *)

\* A new password puts every session of the user out, but the one it was
\* changed in, whose request has yet to replace it.
LEMMA SavePasswordStep ==
    ASSUME IInv, NEW w \in Workers, SavePassword(w)
    PROVE  IInv'
<1> USE LoginsAssumption
<1> DEFINE j == job[w]
           u == j.user
           new == latest[u] + 1
           i == IF j.op = "own" THEN [j EXCEPT !.stage = "rekeying", !.pw = new]
                ELSE NoJob
<1>0. /\ TypeOK /\ RowsOK /\ RequestsOK /\ SessionsOK /\ ScannedIsChecked
      /\ j \in Job /\ Has(j, devices, latest, sessions, out)
  BY DEF IInv, TypeOK, RequestsOK
<1>1. /\ j.stage = "saving" /\ j.op \in {"own", "set"}
      /\ password' = [password EXCEPT ![u] = new]
      /\ latest' = [latest EXCEPT ![u] = new]
      /\ out' = out \cup {k \in Keys \ {j.key} :
                            sessions[k] # None /\ sessions[k].user = u}
      /\ restored' = restored \ {u}
      /\ job' = [job EXCEPT ![w] = i]
      /\ UNCHANGED <<devices, sessions, scanned, raced>>
  BY DEF SavePassword, Become
<1>2. u \in Users /\ latest[u] \in Nat /\ new \in Nat /\ latest[u] < new
  BY <1>0, <1>1 DEF TypeOK, Has
<1>3. /\ i \in Job /\ (i.stage = "idle" <=> i.user = None)
      /\ i.stage \in {"idle", "rekeying"}
      /\ i.stage = "rekeying" => /\ i.key = j.key /\ i.user = u /\ i.pw = new
                                 /\ i.op = "own" /\ j.op = "own"
      /\ j.op = "own" => i.stage = "rekeying"
      /\ j.op # "own" => i = NoJob
  <2>1. CASE j.op = "own"
    BY <1>0, <1>2, <2>1 DEF Job, Stage
  <2>2. CASE j.op # "own"
    BY NoJobType, <2>2 DEF NoJob
  <2> QED BY <2>1, <2>2
<1> HIDE DEF i
<1>4. /\ latest'[u] = new /\ \A v \in Users \ {u} : latest'[v] = latest[v]
      /\ latest' \in [Users -> Nat] /\ \A v \in Users : latest[v] <= latest'[v]
      /\ password'[u] = new /\ \A v \in Users \ {u} : password'[v] = password[v]
      /\ password' \in [Users -> Nat]
      /\ job' \in [Workers -> Job] /\ job'[w] = i
      /\ \A v \in Workers \ {w} : job'[v] = job[v]
      /\ out \subseteq out' /\ out' \subseteq Keys
  BY <1>0, <1>1, <1>2, <1>3 DEF TypeOK
<1>5. TypeOK'
  <2>1. ASSUME NEW v \in Workers
        PROVE  /\ job'[v].stage = "idle" <=> job'[v].user = None
               /\ job'[v].stage \in {"marking", "rekeying"} => job'[v].key # None
               /\ job'[v].stage = "marking" => devices[job'[v].user] > 0
    <3>1. CASE v = w
      BY <1>0, <1>3, <1>4, <3>1 DEF Has
    <3>2. CASE v # w
      BY <1>0, <1>4, <3>2 DEF TypeOK, Idle
    <3> QED BY <3>1, <3>2
  <2> QED BY <1>0, <1>1, <1>4, <2>1 DEF TypeOK, Idle
<1>6. RowsOK' /\ ScannedIsChecked'
  BY <1>0, <1>1, <1>2, <1>4 DEF RowsOK, ScannedIsChecked
<1>7. ASSUME NEW v \in Workers
      PROVE  Has(job'[v], devices, latest', sessions, out')
  <2>1. CASE v = w
    <3>1. CASE j.op # "own"
      BY <1>3, <1>4, <2>1, <3>1, NothingInHand
    <3>2. CASE j.op = "own"
      <4>1. /\ j.key \in Keys
            /\ sessions[j.key] = None => j.key \in out
            /\ sessions[j.key] # None => sessions[j.key].user = u
        BY <1>0, <3>2 DEF Has
      <4>2. ASSUME sessions[j.key] # None
            PROVE  sessions[j.key].pw < new
        <5>1. sessions[j.key].pw \in Nat /\ sessions[j.key].pw <= latest[u]
          BY <1>0, <4>1, <4>2 DEF SessionsOK, TypeOK, Session
        <5> QED BY <1>2, <5>1
      <4>3. i.stage = "rekeying" /\ i.key = j.key /\ i.user = u /\ i.pw = new /\ i.op = "own"
        BY <1>3, <3>2
      <4> QED BY <1>2, <1>4, <2>1, <4>1, <4>2, <4>3 DEF Has
    <3> QED BY <3>1, <3>2
  <2>2. CASE v # w
    <3>1. /\ job'[v] = job[v] /\ Has(job[v], devices, latest, sessions, out)
          /\ job[v].pw \in Nat
      BY <1>0, <1>4, <2>2 DEF RequestsOK, TypeOK, Job
    <3>2. job[v].user \in Users => /\ latest[job[v].user] \in Nat
                                   /\ latest'[job[v].user] \in Nat
                                   /\ latest[job[v].user] <= latest'[job[v].user]
      BY <1>0, <1>4 DEF TypeOK
    <3>3. job[v].op = "own" /\ sessions[job[v].key] # None
          => sessions[job[v].key].pw \in Nat
      BY <1>0, <3>1 DEF TypeOK, Session, Has
    <3> QED BY <1>4, <3>1, <3>2, <3>3 DEF Has
  <2> QED BY <2>1, <2>2
<1>8. RequestsOK'
  BY <1>1, <1>7 DEF RequestsOK
<1>9. ASSUME NEW k \in Keys, sessions[k] # None
      PROVE  /\ sessions[k].pw <= latest'[sessions[k].user]
             /\ k \in out' => sessions[k].pw < latest'[sessions[k].user]
             /\ k \notin out' => \/ sessions[k].pw = latest'[sessions[k].user]
                                 \/ Rekeying(k)'
  <2>1. /\ sessions[k].user \in Users /\ sessions[k].pw \in Nat
        /\ latest[sessions[k].user] \in Nat
        /\ sessions[k].pw <= latest[sessions[k].user]
    BY <1>0, <1>9 DEF TypeOK, Session, SessionsOK
  <2>2. CASE sessions[k].user = u
    <3>1. sessions[k].pw < latest'[sessions[k].user]
      BY <1>2, <1>4, <2>1, <2>2
    <3>2. CASE k = j.key
      <4>1. j.op = "own"
        BY <1>0, <1>1, <3>2 DEF Has
      <4>2. Rekeying(k)'
        BY <1>3, <1>4, <3>2, <4>1 DEF Rekeying
      <4> QED BY <1>4, <2>1, <2>2, <3>1, <4>2
    <3>3. CASE k # j.key
      <4>1. k \in out'
        BY <1>1, <1>9, <2>2, <3>3
      <4> QED BY <1>4, <2>1, <2>2, <3>1, <4>1
    <3> QED BY <3>2, <3>3
  <2>3. CASE sessions[k].user # u
    <3>1. latest'[sessions[k].user] = latest[sessions[k].user] /\ (k \in out' <=> k \in out)
      BY <1>1, <1>4, <2>1, <2>3
    <3>2. Rekeying(k) => Rekeying(k)'
      BY <1>1, <1>4 DEF Rekeying
    <3> QED BY <1>0, <1>9, <3>1, <3>2 DEF SessionsOK
  <2> QED BY <2>2, <2>3
<1>10. SessionsOK'
  BY <1>1, <1>9 DEF SessionsOK
<1> QED BY <1>5, <1>6, <1>8, <1>10 DEF IInv

\* An edit saves the password it has loaded, which may bring an old one back.
LEMMA SaveRowStep ==
    ASSUME IInv, NEW w \in Workers, SaveRow(w)
    PROVE  IInv'
<1> USE LoginsAssumption
<1> DEFINE j == job[w]
<1>0. /\ TypeOK /\ RowsOK /\ RequestsOK /\ SessionsOK /\ ScannedIsChecked
      /\ j \in Job /\ Has(j, devices, latest, sessions, out)
  BY DEF IInv, TypeOK, RequestsOK
<1>1. /\ j.stage = "saving" /\ job' = [job EXCEPT ![w] = NoJob]
      /\ password' = [password EXCEPT ![j.user] = j.pw]
      /\ restored' = IF j.pw # password[j.user] THEN restored \cup {j.user} ELSE restored
      /\ UNCHANGED <<devices, sessions, latest, out, scanned, raced>>
  BY DEF SaveRow, Become
<1>2. j.user \in Users /\ j.pw \in Nat /\ j.pw <= latest[j.user]
  BY <1>0, <1>1 DEF Has, Job
<1>3. TypeOK'
  <2>1. job' \in [Workers -> Job] /\ password' \in [Users -> Nat] /\ restored' \subseteq Users
    BY <1>0, <1>1, <1>2, NoJobType DEF TypeOK
  <2> QED BY <1>0, <1>1, <2>1 DEF TypeOK, Idle, NoJob
<1>4. RowsOK' /\ ScannedIsChecked'
  BY <1>0, <1>1, <1>2 DEF RowsOK, ScannedIsChecked, TypeOK
<1>5. ASSUME NEW v \in Workers
      PROVE  Has(job'[v], devices, latest, sessions, out)
  BY <1>0, <1>1, NothingInHand DEF RequestsOK, TypeOK
<1>6. RequestsOK'
  BY <1>1, <1>5 DEF RequestsOK
<1>7. SessionsOK'
  <2>1. \A k \in Keys : Rekeying(k) => Rekeying(k)'
    BY <1>0, <1>1 DEF Rekeying, TypeOK
  <2> QED BY <1>0, <1>1, <2>1 DEF SessionsOK
<1> QED BY <1>3, <1>4, <1>6, <1>7 DEF IInv

-----------------------------------------------------------------------------
(* The second factor *)

\* The page shows the device there is.
LEMMA ShowDeviceStep ==
    ASSUME IInv, NEW u \in Users, devices[u] = 1, scanned' = [scanned EXCEPT ![u] = 1],
           UNCHANGED <<password, devices, sessions, job, latest, out, restored, raced>>
    PROVE  IInv'
<1>0. TypeOK /\ RowsOK /\ RequestsOK /\ SessionsOK /\ ScannedIsChecked
  BY DEF IInv
<1>1. TypeOK' /\ RowsOK' /\ ScannedIsChecked'
  BY <1>0 DEF TypeOK, Idle, RowsOK, ScannedIsChecked
<1>2. RequestsOK' /\ SessionsOK'
  BY <1>0 DEF RequestsOK, SessionsOK, Rekeying
<1> QED BY <1>1, <1>2 DEF IInv

\* Of two set-ups that both found no device, the second to create one knows it
\* was overtaken.
LEMMA CreateDeviceStep ==
    ASSUME IInv, NEW w \in Workers, CreateDevice(w)
    PROVE  IInv'
<1> USE LoginsAssumption
<1> DEFINE u == job[w].user
           Late(v) == [job[v] EXCEPT !.stale = @ \/ (job[v].stage = "creating"
                                                     /\ job[v].user = u)]
<1>0. /\ TypeOK /\ RowsOK /\ RequestsOK /\ SessionsOK /\ ScannedIsChecked
      /\ Has(job[w], devices, latest, sessions, out)
      /\ \A v \in Workers : job[v] \in Job
  BY DEF IInv, TypeOK, RequestsOK
<1>1. /\ job[w].stage = "creating"
      /\ devices' = [devices EXCEPT ![u] = @ + 1]
      /\ scanned' = [scanned EXCEPT ![u] = devices[u] + 1]
      /\ raced' = IF job[w].stale THEN raced \cup {u} ELSE raced
      /\ job' = [v \in Workers |-> IF v = w THEN NoJob ELSE Late(v)]
      /\ UNCHANGED <<password, sessions, latest, out, restored>>
  BY DEF CreateDevice
<1>2. u \in Users /\ devices[u] \in Nat
  BY <1>0, <1>1 DEF Has, TypeOK
<1>3. ASSUME NEW v \in Workers
      PROVE  /\ Late(v) \in Job
             /\ Late(v).stage = job[v].stage /\ Late(v).op = job[v].op
             /\ Late(v).user = job[v].user /\ Late(v).key = job[v].key
             /\ Late(v).pw = job[v].pw
             /\ job[v].stage = "creating" /\ job[v].user = u => Late(v).stale
             /\ job[v].stale => Late(v).stale
  <2>1. (job[v].stale \/ (job[v].stage = "creating" /\ job[v].user = u)) \in BOOLEAN
    BY <1>0 DEF Job
  <2> QED BY <1>0, <2>1 DEF Job
<1> HIDE DEF Late
<1>4. /\ devices' \in [Users -> Nat] /\ scanned' \in [Users -> Nat]
      /\ devices'[u] = devices[u] + 1 /\ scanned'[u] = devices[u] + 1
      /\ \A v \in Users \ {u} : devices'[v] = devices[v] /\ scanned'[v] = scanned[v]
      /\ raced' \subseteq Users /\ raced \subseteq raced'
  BY <1>0, <1>1, <1>2 DEF TypeOK
<1>5. TypeOK'
  <2>1. job' \in [Workers -> Job]
    BY <1>1, <1>3, NoJobType
  <2>2. ASSUME NEW v \in Workers
        PROVE  /\ job'[v].stage = "idle" <=> job'[v].user = None
               /\ job'[v].stage \in {"marking", "rekeying"} => job'[v].key # None
               /\ job'[v].stage = "marking" => devices'[job'[v].user] > 0
    <3>1. CASE v = w
      BY <1>1, <3>1 DEF NoJob
    <3>2. CASE v # w
      <4>1. /\ job'[v].stage = job[v].stage /\ job'[v].user = job[v].user
            /\ job'[v].key = job[v].key
        BY <1>1, <1>3, <3>2
      <4>2. job[v].stage = "marking" => devices[job[v].user] > 0 /\ job[v].user \in Users
        BY <1>0 DEF TypeOK, RequestsOK, Has
      <4> QED BY <1>0, <1>2, <1>4, <4>1, <4>2 DEF TypeOK, Idle
    <3> QED BY <3>1, <3>2
  <2> QED BY <1>0, <1>1, <1>4, <2>1, <2>2 DEF TypeOK, Idle
<1>6. RowsOK'
  BY <1>0, <1>1 DEF RowsOK
<1>7. ScannedIsChecked'
  <2>1. ~job[w].stale => devices[u] = 0
    BY <1>0, <1>1 DEF Has
  <2> QED BY <1>0, <1>1, <1>2, <1>4, <2>1 DEF ScannedIsChecked
<1>8. ASSUME NEW v \in Workers
      PROVE  Has(job'[v], devices', latest, sessions, out)
  <2>1. CASE v = w
    BY <1>1, <2>1, NothingInHand
  <2>2. CASE v # w
    <3>1. job'[v] = Late(v) /\ Has(job[v], devices, latest, sessions, out)
      BY <1>0, <1>1, <2>2 DEF RequestsOK
    <3>2. Late(v).stage = "creating" /\ ~Late(v).stale => devices'[Late(v).user] = 0
      BY <1>3, <1>4, <3>1 DEF Has
    <3> QED BY <1>3, <3>1, <3>2 DEF Has
  <2> QED BY <2>1, <2>2
<1>9. RequestsOK'
  BY <1>1, <1>8 DEF RequestsOK
<1>10. SessionsOK'
  <2>1. ASSUME NEW k \in Keys, Rekeying(k) PROVE Rekeying(k)'
    <3>1. PICK v \in Workers : job[v].stage = "rekeying" /\ job[v].key = k
      BY <2>1 DEF Rekeying
    <3>2. job'[v].stage = "rekeying" /\ job'[v].key = k
      BY <1>1, <1>3, <3>1
    <3> QED BY <3>2 DEF Rekeying
  <2> QED BY <1>0, <1>1, <2>1 DEF SessionsOK
<1> QED BY <1>5, <1>6, <1>7, <1>9, <1>10 DEF IInv

-----------------------------------------------------------------------------
(* All steps *)

LEMMA Preserve == IInv /\ [Next]_vars => IInv'
<1> SUFFICES ASSUME IInv, [Next]_vars PROVE IInv'
  OBVIOUS
<1> USE LoginsAssumption
<1>0. /\ TypeOK /\ RequestsOK
      /\ \A w \in Workers : job[w] \in Job /\ Has(job[w], devices, latest, sessions, out)
  BY DEF IInv, TypeOK, RequestsOK
<1>1. ASSUME NEW w \in Workers, NEW j \in Job, Become(w, j),
             UNCHANGED <<password, devices, sessions, history>>,
             job[w].stage # "rekeying", j.stage \notin {"idle", "rekeying"},
             j.user \in Users,
             j.stage = "marking" => j.key # None /\ devices[j.user] > 0,
             Has(j, devices, latest, sessions, out)
      PROVE  IInv'
  BY <1>1, OneRequest DEF Become, history
<1>2. ASSUME NEW w \in Workers, NEW u \in Users, NEW page \in {"api", "html"},
             Authenticate(w, u, page)
      PROVE  IInv'
  <2> DEFINE stage == IF page = "api" THEN "factor" ELSE "starting"
             j == [Loaded(u) EXCEPT !.stage = stage]
  <2>1. stage \in {"factor", "starting"}
    OBVIOUS
  <2>2. Become(w, j)
    BY <1>2 DEF Authenticate
  <2> HIDE DEF stage
  <2>3. /\ j \in Job /\ j.user = u /\ j.stage = stage /\ j.op = "none"
        /\ j.pw = Loaded(u).pw
    BY LoadedRow, <2>1 DEF Job, Stage
  <2>4. Has(j, devices, latest, sessions, out)
    BY LoadedRow, <2>1, <2>3 DEF Has
  <2> QED BY <1>1, <1>2, <2>1, <2>2, <2>3, <2>4 DEF Authenticate, Idle
<1>3. ASSUME NEW w \in Workers, CheckFactor(w)
      PROVE  IInv'
  <2> DEFINE otp == devices[job[w].user] > 0
             j == [job[w] EXCEPT !.stage = "starting", !.otp = otp]
  <2>1. otp \in BOOLEAN /\ job[w].stage = "factor" /\ Become(w, j)
    BY <1>3 DEF CheckFactor
  <2> HIDE DEF otp
  <2>2. /\ j \in Job /\ j.stage = "starting"
        /\ j.user = job[w].user /\ j.op = job[w].op /\ j.pw = job[w].pw
        /\ j.key = job[w].key
    BY <1>0, <2>1 DEF Job, Stage
  <2>3. j.user \in Users /\ Has(j, devices, latest, sessions, out)
    <3> HIDE DEF j
    <3> QED BY <1>0, <2>1, <2>2 DEF Has
  <2> QED BY <1>1, <1>3, <2>1, <2>2, <2>3 DEF CheckFactor
<1>4. ASSUME NEW w \in Workers, NEW u \in Users, NEW op \in {"set", "edit"}, EditRow(w, u, op)
      PROVE  IInv'
  <2> DEFINE r == Loaded(u)
             j == [r EXCEPT !.stage = "saving", !.op = op]
  <2>1. Become(w, j)
    BY <1>4 DEF EditRow
  <2>2. r \in Job /\ r.user = u /\ r.key = None /\ r.pw <= latest[u]
    BY LoadedRow
  <2> HIDE DEF r
  <2>3. /\ j \in Job /\ j.user = u /\ j.stage = "saving" /\ j.op = op
        /\ j.pw = r.pw /\ j.key = None
    BY <2>2 DEF Job, Stage
  <2> HIDE DEF j
  <2>4. Has(j, devices, latest, sessions, out)
    BY <2>2, <2>3 DEF Has
  <2> QED BY <1>1, <1>4, <2>1, <2>3, <2>4 DEF EditRow, Idle
<1>5. ASSUME NEW k \in Keys, Works(k)
      PROVE  sessions[k] # None /\ sessions[k] \in Session /\ sessions[k].user \in Users
             /\ sessions[k].otp \in BOOLEAN
  BY <1>0, <1>5 DEF Works, TypeOK, Session
<1>6. ASSUME NEW w \in Workers, NEW k \in Keys, OpenSetup(w, k)
      PROVE  IInv'
  <2> DEFINE u == sessions[k].user
             j == [Loaded(u) EXCEPT !.stage = "creating"]
  <2>0. u \in Users
    BY <1>5, <1>6 DEF OpenSetup
  <2>1. CASE NoDevice(u) /\ Become(w, j) /\ UNCHANGED scanned
    <3>1. j \in Job /\ j.user = u /\ j.stage = "creating"
          /\ Has(j, devices, latest, sessions, out)
      BY LoadedRow, <2>0, <2>1 DEF Job, Stage, Has, NoDevice
    <3> QED BY <1>1, <1>6, <2>0, <2>1, <3>1 DEF OpenSetup, Idle, history
  <2>2. CASE devices[u] = 1 /\ scanned' = [scanned EXCEPT ![u] = 1] /\ UNCHANGED job
    BY <1>6, <2>0, <2>2, ShowDeviceStep DEF OpenSetup
  <2> QED BY <1>6, <2>1, <2>2 DEF OpenSetup
<1>7. ASSUME NEW w \in Workers, NEW k \in Keys, EnterCode(w, k)
      PROVE  IInv'
  <2> DEFINE u == sessions[k].user
             r == Loaded(u)
             j == [r EXCEPT !.stage = "marking", !.key = k]
  <2>1. u \in Users /\ devices[u] > 0 /\ Become(w, j)
    BY <1>5, <1>7 DEF EnterCode, HasDevice
  <2>2. r \in Job /\ r.user = u /\ r.op = "none" /\ r.pw <= latest[u]
    BY LoadedRow, <2>1
  <2> HIDE DEF u, r
  <2>3. /\ j \in Job /\ j.user = u /\ j.stage = "marking" /\ j.key = k
        /\ j.op = "none" /\ j.pw = r.pw
    BY <2>2 DEF Job, Stage
  <2> HIDE DEF j
  <2>4. Has(j, devices, latest, sessions, out)
    BY <2>1, <2>2, <2>3 DEF Has
  <2> QED BY <1>1, <1>7, <2>1, <2>3, <2>4 DEF EnterCode, Idle
<1>8. ASSUME NEW w \in Workers, NEW k \in Keys, OwnPassword(w, k)
      PROVE  IInv'
  <2> DEFINE u == sessions[k].user
             otp == sessions[k].otp
             r == Loaded(u)
             j == [r EXCEPT !.stage = "saving", !.op = "own", !.key = k, !.otp = otp]
  <2>1. u \in Users /\ sessions[k] # None /\ otp \in BOOLEAN /\ Become(w, j)
    BY <1>5, <1>8 DEF OwnPassword
  <2>2. r \in Job /\ r.user = u /\ r.pw <= latest[u] /\ sessions[k].user = u
    BY LoadedRow, <2>1
  <2> HIDE DEF u, otp, r
  <2>3. /\ j \in Job /\ j.user = u /\ j.stage = "saving" /\ j.key = k
        /\ j.op = "own" /\ j.pw = r.pw
    BY <2>1, <2>2 DEF Job, Stage
  <2> HIDE DEF j
  <2>4. Has(j, devices, latest, sessions, out)
    BY <2>1, <2>2, <2>3 DEF Has
  <2> QED BY <1>1, <1>8, <2>1, <2>3, <2>4 DEF OwnPassword, Idle
<1>9. ASSUME NEW w \in Workers, Leave(w)
      PROVE  IInv'
  <2>1. /\ job' = [job EXCEPT ![w] = NoJob]
        /\ out' = out \cup {k \in Keys : job[w].stage = "rekeying" /\ k = job[w].key}
        /\ UNCHANGED <<password, devices, sessions, latest, scanned, restored, raced>>
    BY <1>9 DEF Leave, Become
  <2>2. NoJob.stage = "idle" /\ NoJob.user = None
    BY DEF NoJob
  <2> QED BY <2>1, <2>2, NoJobType, NothingInHand, OneRequest
<1>10. CASE UNCHANGED vars
  BY <1>10 DEF vars, history, IInv, TypeOK, Idle, RowsOK, RequestsOK, SessionsOK,
     Rekeying, ScannedIsChecked
<1> QED
  BY <1>2, <1>3, <1>4, <1>6, <1>7, <1>8, <1>9, <1>10, StartStep, MarkStep, EndStep,
     RekeyStep, SavePasswordStep, SaveRowStep, CreateDeviceStep DEF Next

LEMMA Invariance == Spec => []IInv
BY Establish, Preserve, PTL DEF Spec

\* Rows, sessions and requests keep their types; who has given a right code has
\* a device.
THEOREM TypeCorrect == Spec => []TypeOK
<1>1. IInv => TypeOK
  BY DEF IInv
<1> QED BY <1>1, Invariance, PTL

\* A session that was ended, or whose password was replaced, opens nothing any
\* more, unless an edit of the row has brought that password back.
THEOREM OutStaysOutHolds == Spec => []OutStaysOut
<1>1. IInv => OutStaysOut
  BY DEF IInv, TypeOK, RowsOK, SessionsOK, OutStaysOut, Works, Session
<1> QED BY <1>1, Invariance, PTL

\* A change of password, a set-up or an edit throws nobody else out.
THEOREM OthersWorkHolds == Spec => []OthersWork
<1>1. IInv => OthersWork
  BY DEF IInv, TypeOK, RowsOK, SessionsOK, OthersWork, Works, Rekeying, Session
<1> QED BY <1>1, Invariance, PTL

\* Codes are checked against the device the user was shown last, unless two
\* set-ups overlapped.
THEOREM ScannedIsCheckedHolds == Spec => []ScannedIsChecked
<1>1. IInv => ScannedIsChecked
  BY DEF IInv
<1> QED BY <1>1, Invariance, PTL
=============================================================================
