--------------------------- MODULE AccountsProofs ---------------------------
(***************************************************************************)
(* Proofs about Accounts: in which ways an account may be active without a *)
(* verified address, active though blocked, or locked out, for any number  *)
(* of web workers and users.                                               *)
(***************************************************************************)
EXTENDS Accounts, TLAPS

-----------------------------------------------------------------------------

\* A copy that is not stale is the row; the second save of an unblocking or a
\* blocking comes after the first.
Held ==
    \A w \in Workers :
        /\ job[w].stage \in {"saving", "activating"} /\ ~job[w].stale
           => users[job[w].user] = job[w].copy
        /\ job[w].stage = "saving"
           => job[w].op \in {"register", "verify", "block", "unblock", "toggle", "edit"}
        /\ job[w].stage = "activating" /\ ~job[w].copy.blocked
           => job[w].user \in unblocked

IInv == TypeOK /\ Held /\ ActivationEarned /\ BlockHolds /\ NotLockedOut

\* What a request does to its copy is a row again.
LEMMA EditedType ==
    ASSUME NEW row \in Row,
           NEW op \in {"register", "verify", "block", "unblock", "toggle", "edit"}
    PROVE  Edited(op, row) \in Row
BY DEF Edited, Registered, Verified, Toggled, Row

LEMMA NoJobType == NoJob \in Job
BY DEF NoJob, Job, Created, Row

LEMMA Establish == Init => IInv
<1> SUFFICES ASSUME Init PROVE IInv
  OBVIOUS
<1> USE DEF Init, Exists
<1>1. TypeOK
  BY NoJobType DEF TypeOK, NoJob
<1> QED BY <1>1 DEF IInv, Held, ActivationEarned, BlockHolds, NotLockedOut, NoJob

\* The steps that change one request, and at most add to the history: none that
\* was between two saves goes on or gives up.
LEMMA OneRequest ==
    ASSUME IInv, NEW w \in Workers, NEW j \in Job, job' = [job EXCEPT ![w] = j],
           users' = users, mailed' \subseteq {u \in Users : Exists(u)},
           UNCHANGED <<unblocked, lateVerified, overlapped>>,
           halfDone \subseteq halfDone', halfDone' \subseteq Users,
           j.stage # "idle" => j.user # None /\ Exists(j.user),
           j.stage = "starting" => j.copy.active,
           j.stage # "activating",
           j.stage = "saving"
             => j.op \in {"register", "verify", "block", "unblock", "toggle", "edit"},
           j.stage = "saving" => users[j.user] = j.copy,
           job[w].stage = "saving" /\ job[w].op = "register"
             => job[w].user \in halfDone',
           job[w].stage = "activating" => job[w].user \in halfDone'
    PROVE  IInv'
<1> USE DEF IInv, Exists
<1>1. TypeOK'
  BY DEF TypeOK
<1>2. Held'
  BY DEF TypeOK, Held
<1>3. \A u \in Users :
        /\ Registering(u) => Registering(u)' \/ u \in halfDone'
        /\ Blocking(u) => Blocking(u)' \/ u \in halfDone'
  BY DEF TypeOK, Registering, Blocking
<1>4. ActivationEarned'
  BY <1>3 DEF ActivationEarned
<1>5. BlockHolds'
  BY <1>3 DEF BlockHolds
<1>6. NotLockedOut'
  BY <1>3 DEF NotLockedOut
<1> QED BY <1>1, <1>2, <1>4, <1>5, <1>6

LEMMA Preserve == IInv /\ [Next]_vars => IInv'
<1> SUFFICES ASSUME IInv, [Next]_vars PROVE IInv'
  OBVIOUS
<1> USE AccountsAssumption
<1>0. /\ TypeOK /\ Held /\ ActivationEarned /\ BlockHolds /\ NotLockedOut
      /\ \A w \in Workers : job[w] \in Job
  BY DEF IInv, TypeOK
<1>1. ASSUME NEW w \in Workers, NEW u \in Users, CreateUser(w, u)
      PROVE  IInv'
  <2> DEFINE j == [op |-> "register", stage |-> "saving", user |-> u,
                   copy |-> Created, stale |-> FALSE]
  <2>1. /\ users' = [users EXCEPT ![u] = Created]
        /\ job' = [job EXCEPT ![w] = j]
        /\ UNCHANGED <<mailed, unblocked, lateVerified, halfDone, overlapped>>
        /\ ~Exists(u) /\ job[w].stage = "idle"
    BY <1>1 DEF CreateUser, Take, history
  <2>2. Created \in Row /\ Created # None
    <3>1. Created \in Row
      BY DEF Created, Row
    <3> QED BY <3>1
  <2>3. j \in Job
    BY <2>2 DEF Job, Operation
  <2>4. TypeOK'
    BY <1>0, <2>1, <2>2, <2>3 DEF TypeOK, Exists
  <2>5. \A v \in Workers \ {w} : job[v].stage # "idle" => job[v].user # u
    BY <1>0, <2>1 DEF TypeOK
  <2>6. Held'
    BY <1>0, <2>1, <2>5 DEF TypeOK, Held
  <2>7. \A v \in Users : /\ Registering(v) => Registering(v)'
                         /\ Blocking(v) => Blocking(v)'
    BY <1>0, <2>1 DEF TypeOK, Registering, Blocking
  <2>8. Registering(u)'
    BY <1>0, <2>1 DEF TypeOK, Registering
  <2>9. ActivationEarned'
    BY <1>0, <2>1, <2>7, <2>8 DEF TypeOK, ActivationEarned, Exists
  <2>10. BlockHolds' /\ NotLockedOut'
    BY <1>0, <2>1, <2>7 DEF TypeOK, BlockHolds, NotLockedOut, Exists, Created
  <2> QED BY <2>4, <2>6, <2>9, <2>10 DEF IInv
<1>2. ASSUME NEW w \in Workers, NEW u \in Users, NEW op \in Operation, NEW stage,
             NEW row \in Row, Take(w, op, stage, u, row), job[w].stage = "idle",
             users[u] = row, Exists(u), UNCHANGED <<users, mailed, history>>,
             \/ stage = "saving" /\ op # "login"
             \/ stage = "starting" /\ row.active
      PROVE  IInv'
  <2> DEFINE j == [op |-> op, stage |-> stage, user |-> u,
                   copy |-> row, stale |-> FALSE]
  <2>1. j \in Job /\ job' = [job EXCEPT ![w] = j]
    BY <1>2 DEF Job, Take
  <2>2. /\ j.stage = stage /\ j.op = op /\ j.user = u /\ j.copy = row
        /\ UNCHANGED <<unblocked, lateVerified, overlapped, halfDone, users>>
        /\ mailed' \subseteq {v \in Users : Exists(v)} /\ halfDone' \subseteq Users
    BY <1>0, <1>2 DEF TypeOK, history
  <2> HIDE DEF j
  <2> QED BY <1>0, <1>2, <2>1, <2>2, OneRequest DEF Operation
<1>3. ASSUME NEW w \in Workers, NEW u \in Users, OpenLink(w, u)
      PROVE  IInv'
  <2>1. users[u] \in Row /\ Exists(u)
    BY <1>0, <1>3 DEF OpenLink, TypeOK, Exists
  <2> QED BY <1>2, <1>3, <2>1 DEF OpenLink, Operation
<1>4. ASSUME NEW w \in Workers, NEW u \in Users, NEW op \in Operation,
             OpenRow(w, u, op)
      PROVE  IInv'
  <2>1. users[u] \in Row
    BY <1>0, <1>4 DEF OpenRow, TypeOK, Exists
  <2> QED BY <1>2, <1>4, <2>1 DEF OpenRow
<1>5. ASSUME NEW w \in Workers, NEW u \in Users, NEW page, Authenticate(w, u, page)
      PROVE  IInv'
  <2>1. users[u] \in Row /\ Exists(u) /\ users[u].active
    BY <1>0, <1>5 DEF Authenticate, CanAuthenticate, TypeOK, Exists
  <2> QED BY <1>2, <1>5, <2>1 DEF Authenticate, Operation
<1>6. ASSUME NEW w \in Workers, SendMail(w) \/ Fail(w) \/ Start(w)
      PROVE  IInv'
  <2>1. /\ job' = [job EXCEPT ![w] = NoJob] /\ users' = users
        /\ UNCHANGED <<unblocked, lateVerified, overlapped>>
    BY <1>6 DEF SendMail, Fail, Start, history
  <2>2. job[w].stage # "idle"
    BY <1>6 DEF SendMail, Fail, Start
  <2>3. job[w].user \in Users /\ Exists(job[w].user)
    BY <1>0, <2>2 DEF TypeOK, Job
  <2>4. mailed' \subseteq {u \in Users : Exists(u)}
    BY <1>0, <1>6, <2>3 DEF SendMail, Fail, Start, TypeOK
  <2>5. /\ halfDone \subseteq halfDone' /\ halfDone' \subseteq Users
        /\ job[w].stage = "saving" /\ job[w].op = "register"
           => job[w].user \in halfDone'
        /\ job[w].stage = "activating" => job[w].user \in halfDone'
    BY <1>0, <1>6, <2>3 DEF SendMail, Fail, Start, TypeOK, history
  <2> QED BY <1>0, <2>1, <2>4, <2>5, NoJobType, OneRequest DEF NoJob
<1>7. ASSUME NEW w \in Workers, NEW row \in Row, NEW after \in Job,
             Write(w, row, after), job[w].stage \in {"saving", "activating"},
             UNCHANGED <<mailed, halfDone>>,
             unblocked \subseteq unblocked', unblocked' \subseteq Users,
             lateVerified \subseteq lateVerified', lateVerified' \subseteq Users,
             after.stage # "idle" => after.user = job[w].user,
             after.stage \notin {"saving", "starting"},
             after.stage = "activating"
               => after.copy = row /\ (row.blocked \/ job[w].user \in unblocked'),
             ~job[w].stale => ((row.active /\ ~row.verified)
               => \/ users[job[w].user].active /\ ~users[job[w].user].verified
                     /\ ~(job[w].stage = "saving" /\ job[w].op = "register")
                  \/ job[w].user \in unblocked'),
             ~job[w].stale => ((row.blocked /\ row.active)
               => \/ users[job[w].user].blocked /\ users[job[w].user].active
                     /\ job[w].stage = "saving"
                  \/ job[w].user \in lateVerified'
                  \/ after.stage = "activating"),
             ~job[w].stale => ((~row.blocked /\ ~row.active)
               => \/ ~users[job[w].user].blocked /\ ~users[job[w].user].active
                     /\ job[w].stage = "saving"
                     /\ (users[job[w].user].pending => row.pending)
                  \/ row.pending
                  \/ after.stage = "activating")
      PROVE  IInv'
  <2>0. PICK u \in Users : u = job[w].user
    BY <1>0, <1>7 DEF TypeOK, Job
  <2>1. /\ u \in Users /\ Exists(u) /\ row # None /\ job[w].user = u
    BY <1>0, <1>7, <2>0 DEF TypeOK
  <2>2. /\ users' = [users EXCEPT ![u] = row]
        /\ overlapped' = IF job[w].stale THEN overlapped \cup {u} ELSE overlapped
        /\ job' = [v \in Workers |->
                     IF v = w THEN after
                     ELSE [job[v] EXCEPT !.stale = @ \/ (job[v].user = u
                                                         /\ job[v].stage # "idle")]]
    BY <1>7, <2>0 DEF Write
  <2>3. /\ job'[w] = after
        /\ \A v \in Workers \ {w} :
             /\ job'[v] \in Job /\ job'[v].stage = job[v].stage
             /\ job'[v].op = job[v].op /\ job'[v].user = job[v].user
             /\ job'[v].copy = job[v].copy
             /\ ~job'[v].stale => ~job[v].stale /\ (job[v].user # u \/ job[v].stage = "idle")
    BY <1>0, <2>2 DEF Job
  <2>4. TypeOK'
    <3>1. users' \in [Users -> Row \cup {None}] /\ \A v \in Users : Exists(v) => Exists(v)'
      BY <1>0, <2>1, <2>2 DEF TypeOK, Exists
    <3>2. job' \in [Workers -> Job]
      BY <2>2, <2>3, <1>7
    <3>3. overlapped' \subseteq Users
      BY <1>0, <2>1, <2>2 DEF TypeOK
    <3>4. ASSUME NEW v \in Workers, job'[v].stage # "idle"
          PROVE  job'[v].user # None /\ users'[job'[v].user] # None
      <4>1. CASE v = w
        BY <1>7, <2>1, <2>2, <2>3, <3>4, <4>1, <3>1 DEF Exists
      <4>2. CASE v # w
        <5>1. job[v].stage # "idle" /\ job'[v].user = job[v].user
          BY <2>3, <3>4, <4>2
        <5>2. job[v].user # None /\ users[job[v].user] # None /\ job[v].user \in Users
          BY <1>0, <5>1 DEF TypeOK, Exists, Job
        <5> QED BY <5>1, <5>2, <3>1 DEF Exists
      <4> QED BY <4>1, <4>2
    <3>6. \A v \in Workers : job'[v].stage = "starting" => job'[v].copy.active
      BY <1>0, <1>7, <2>3 DEF TypeOK
    <3>7. mailed' \subseteq {v \in Users : Exists(v)'}
      BY <1>0, <1>7, <3>1 DEF TypeOK
    <3> QED BY <1>0, <1>7, <3>1, <3>2, <3>3, <3>4, <3>6, <3>7 DEF TypeOK, Exists
  <2>5. Held'
    <3>1. ASSUME NEW v \in Workers \ {w}
          PROVE  /\ job'[v].stage \in {"saving", "activating"} /\ ~job'[v].stale
                    => users'[job'[v].user] = job'[v].copy
                 /\ job'[v].stage = "saving"
                    => job'[v].op \in {"register", "verify", "block", "unblock", "toggle", "edit"}
                 /\ job'[v].stage = "activating" /\ ~job'[v].copy.blocked
                    => job'[v].user \in unblocked'
      <4>1. /\ job'[v].stage = job[v].stage /\ job'[v].op = job[v].op
            /\ job'[v].user = job[v].user /\ job'[v].copy = job[v].copy
            /\ ~job'[v].stale => ~job[v].stale /\ (job[v].user # u \/ job[v].stage = "idle")
        BY <2>3
      <4>2. job[v].user # u => users'[job[v].user] = users[job[v].user]
        BY <2>2
      <4> QED BY <1>0, <1>7, <4>1, <4>2 DEF Held
    <3>2. users'[u] = row
      BY <1>0, <2>1, <2>2 DEF TypeOK
    <3>3. /\ job'[w].stage \in {"saving", "activating"} /\ ~job'[w].stale
             => users'[job'[w].user] = job'[w].copy
          /\ job'[w].stage # "saving"
          /\ job'[w].stage = "activating" /\ ~job'[w].copy.blocked
             => job'[w].user \in unblocked'
      BY <1>7, <2>0, <2>3, <3>2
    <3> QED BY <3>1, <3>3 DEF Held
  <2>6. \A v \in Users :
          /\ Registering(v) => Registering(v)' \/ (v = u /\ job[w].stage = "saving" /\ job[w].op = "register")
          /\ Blocking(v) => Blocking(v)' \/ (v = u /\ job[w].stage = "activating")
    BY <2>0, <2>3 DEF Registering, Blocking
  <2>7. after.stage = "activating" => Blocking(u)'
    BY <1>7, <2>0, <2>3 DEF Blocking
  <2>8. \A v \in Users \ {u} : users'[v] = users[v]
    BY <2>2
  <2>9. users'[u] = row /\ overlapped \subseteq overlapped' /\ (job[w].stale => u \in overlapped')
    BY <1>0, <2>1, <2>2 DEF TypeOK
  <2>10. ActivationEarned'
    BY <1>0, <1>7, <2>1, <2>6, <2>8, <2>9 DEF ActivationEarned, Exists
  <2>11. BlockHolds'
    <3>1. ASSUME NEW v \in Users, v # u, Exists(v)', users'[v].blocked, users'[v].active
          PROVE  v \in (lateVerified \cup halfDone \cup overlapped)' \/ Blocking(v)'
      BY <1>0, <1>7, <2>6, <2>8, <2>9, <3>1 DEF BlockHolds, Exists
    <3>2. ASSUME row.blocked, row.active
          PROVE  u \in (lateVerified \cup halfDone \cup overlapped)' \/ Blocking(u)'
      <4>1. u \in lateVerified \cup halfDone \cup overlapped \/ Blocking(u)
            => u \in (lateVerified \cup halfDone \cup overlapped)'
               \/ Blocking(u)' \/ job[w].stage = "activating"
        BY <1>7, <2>1, <2>6, <2>9
      <4> QED BY <1>0, <1>7, <2>1, <2>7, <2>9, <3>2, <4>1 DEF BlockHolds, Exists
    <3>3. ASSUME NEW v \in Users, Exists(v)', users'[v].blocked, users'[v].active
          PROVE  v \in (lateVerified \cup halfDone \cup overlapped)' \/ Blocking(v)'
      BY <2>9, <3>1, <3>2, <3>3
    <3> QED BY <3>3 DEF BlockHolds, Exists
  <2>12. NotLockedOut'
    <3>1. ASSUME NEW v \in Users, v # u, Exists(v)', ~users'[v].active, ~users'[v].blocked
          PROVE  users'[v].pending \/ v \in (halfDone \cup overlapped)' \/ Blocking(v)'
      BY <1>0, <1>7, <2>6, <2>8, <2>9, <3>1 DEF NotLockedOut, Exists
    <3>2. ASSUME ~row.active, ~row.blocked
          PROVE  row.pending \/ u \in (halfDone \cup overlapped)' \/ Blocking(u)'
      <4>1. u \in halfDone \cup overlapped \/ Blocking(u)
            => u \in (halfDone \cup overlapped)'
               \/ Blocking(u)' \/ job[w].stage = "activating"
        BY <1>7, <2>1, <2>6, <2>9
      <4> QED BY <1>0, <1>7, <2>1, <2>7, <2>9, <3>2, <4>1 DEF NotLockedOut, Exists
    <3>3. ASSUME NEW v \in Users, Exists(v)', ~users'[v].active, ~users'[v].blocked
          PROVE  users'[v].pending \/ v \in (halfDone \cup overlapped)' \/ Blocking(v)'
      BY <2>9, <3>1, <3>2, <3>3
    <3> QED BY <3>3 DEF NotLockedOut, Exists
  <2> QED BY <2>4, <2>5, <2>10, <2>11, <2>12 DEF IInv
<1>8. ASSUME NEW w \in Workers, Save(w)
      PROVE  IInv'
  <2> DEFINE u == job[w].user
             row == Edited(job[w].op, job[w].copy)
             after == CASE job[w].op = "register"
                             -> [job[w] EXCEPT !.stage = "mailing", !.copy = row, !.stale = FALSE]
                        [] job[w].op \in {"block", "unblock"}
                             -> [job[w] EXCEPT !.stage = "activating", !.copy = row, !.stale = FALSE]
                        [] OTHER -> NoJob
  <2>1. /\ Write(w, row, after) /\ job[w].stage = "saving"
        /\ unblocked' = IF (job[w].copy.blocked /\ ~row.blocked) \/ job[w].op = "unblock"
                        THEN unblocked \cup {u} ELSE unblocked
        /\ lateVerified' = IF job[w].op = "verify" /\ row.blocked
                           THEN lateVerified \cup {u} ELSE lateVerified
        /\ UNCHANGED <<mailed, halfDone>>
    BY <1>8 DEF Save
  <2>2. /\ job[w].op \in {"register", "verify", "block", "unblock", "toggle", "edit"}
        /\ ~job[w].stale => users[u] = job[w].copy
        /\ job[w].copy \in Row /\ u \in Users
    BY <1>0, <2>1 DEF Held, TypeOK, Job
  <2>3. row \in Row
    BY <2>2, EditedType
  <2>4. after \in Job
    BY <1>0, <2>2, <2>3, NoJobType DEF Job
  <2>5. /\ unblocked \subseteq unblocked' /\ unblocked' \subseteq Users
        /\ lateVerified \subseteq lateVerified' /\ lateVerified' \subseteq Users
    BY <1>0, <2>1, <2>2 DEF TypeOK
  <2>6. /\ after.stage # "idle" => after.user = u
        /\ after.stage \notin {"saving", "starting"}
        /\ after.stage = "activating" <=> job[w].op \in {"block", "unblock"}
        /\ after.stage = "activating" => after.copy = row
    BY <1>0, <2>2 DEF NoJob, Job
  <2>7. /\ job[w].op = "register" => ~row.active /\ row.pending
        /\ job[w].op = "verify" => row.active /\ row.verified
        /\ job[w].op = "toggle"
           => /\ row.active = job[w].copy.blocked /\ row.blocked = ~job[w].copy.blocked
        /\ job[w].op = "block" => row.blocked /\ row.active = job[w].copy.active
                                 /\ row.verified = job[w].copy.verified
        /\ job[w].op = "unblock" => ~row.blocked
        /\ job[w].op = "edit" => row = job[w].copy
    BY <2>2 DEF Edited, Registered, Verified, Toggled, Row
  <2> HIDE DEF row, after
  <2>8. after.stage = "activating" => row.blocked \/ u \in unblocked'
    BY <2>1, <2>6, <2>7
  <2>9. ASSUME ~job[w].stale, row.active, ~row.verified
        PROVE  \/ users[u].active /\ ~users[u].verified
                  /\ ~(job[w].stage = "saving" /\ job[w].op = "register")
               \/ u \in unblocked'
    BY <2>1, <2>2, <2>7, <2>9
  <2>10. ASSUME ~job[w].stale, row.blocked, row.active
         PROVE  \/ users[u].blocked /\ users[u].active /\ job[w].stage = "saving"
                \/ u \in lateVerified'
                \/ after.stage = "activating"
    BY <2>1, <2>2, <2>6, <2>7, <2>10
  <2>11. ASSUME ~job[w].stale, ~row.blocked, ~row.active
         PROVE  \/ ~users[u].blocked /\ ~users[u].active /\ job[w].stage = "saving"
                   /\ (users[u].pending => row.pending)
                \/ row.pending
                \/ after.stage = "activating"
    BY <2>1, <2>2, <2>6, <2>7, <2>11
  <2> QED BY <1>7, <2>1, <2>3, <2>4, <2>5, <2>6, <2>8, <2>9, <2>10, <2>11
<1>9. ASSUME NEW w \in Workers, SaveActive(w)
      PROVE  IInv'
  <2> DEFINE row == [job[w].copy EXCEPT !.active = ~job[w].copy.blocked]
  <2>1. /\ Write(w, row, NoJob) /\ job[w].stage = "activating"
        /\ UNCHANGED <<mailed, unblocked, lateVerified, halfDone>>
    BY <1>9 DEF SaveActive
  <2>2. /\ row \in Row /\ row.active = ~row.blocked /\ row.blocked = job[w].copy.blocked
        /\ row.blocked \/ job[w].user \in unblocked'
    BY <1>0, <2>1 DEF Job, Row, Held
  <2>3. unblocked' \subseteq Users /\ lateVerified' \subseteq Users
    BY <1>0, <2>1 DEF TypeOK
  <2>4. NoJob.stage = "idle"
    BY DEF NoJob
  <2> HIDE DEF row
  <2> QED BY <1>7, <2>1, <2>2, <2>3, <2>4, NoJobType
<1>10. CASE UNCHANGED vars
  BY <1>0, <1>10 DEF vars, history, IInv, TypeOK, Held, ActivationEarned, BlockHolds,
     NotLockedOut, Exists, Registering, Blocking
<1> QED BY <1>1, <1>3, <1>4, <1>5, <1>6, <1>8, <1>9, <1>10 DEF Next

LEMMA Invariance == Spec => []IInv
BY Establish, Preserve, PTL DEF Spec

\* The variables keep their types, only rows that exist are in hand, and only
\* who was active when authenticated is being logged in (accounts/api/views.py).
THEOREM TypeCorrect == Spec => []TypeOK
BY Invariance, PTL DEF IInv

\* register, verify_email and UserDetailView.patch: an account is active without
\* a verified address only for one of the four reasons ActivationEarned lists.
THEOREM ActivationEarnedHolds == Spec => []ActivationEarned
BY Invariance, PTL DEF IInv

\* admin_user_detail and UserDetailView.patch: a blocked account is active only
\* for one of the reasons BlockHolds lists.
THEOREM BlockHoldsAlways == Spec => []BlockHolds
BY Invariance, PTL DEF IInv

\* The same handlers: an account that is neither active nor blocked waits for
\* its verification, or saves overlapped, or an operation failed half-way.
THEOREM NotLockedOutHolds == Spec => []NotLockedOut
BY Invariance, PTL DEF IInv
=============================================================================
