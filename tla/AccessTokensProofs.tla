------------------------- MODULE AccessTokensProofs -------------------------
(***************************************************************************)
(* Proofs about AccessTokens: what was answered holds where no stale copy  *)
(* was saved, for any number of web workers, tokens and addresses.         *)
(***************************************************************************)
EXTENDS AccessTokens, FiniteSetTheorems, TLAPS

-----------------------------------------------------------------------------

\* A request that works on a token works on one that was given out; the
\* address of an edit is there, and a copy that is not stale is the row.
Held ==
    \A w \in Workers :
        /\ job[w].token # None => ~Fresh(job[w].token)
        /\ job[w].edit \in {"block", "unblock"} => job[w].ip \in IPs
        /\ job[w].stage = "saving" /\ ~job[w].stale
           => Exists(job[w].token) /\ tokens[job[w].token] = job[w].copy

\* The tokens FewTokens counts, and the requests about to add one.
Live == {t \in obtained \ overlapped : Exists(t) /\ tokens[t].active}
Seeking == {w \in Workers : job[w].stage = "obtaining"}

\* A request starts to obtain a token when there is none to count, so the tokens
\* and the requests on their way to one are together no more than the workers.
Few ==
    /\ IsFiniteSet(obtained)
    /\ \A t \in obtained : ~Fresh(t)
    /\ Cardinality(Live) + Cardinality(Seeking) <= Cardinality(Workers)

IInv == TypeOK /\ Held /\ AnswersHold /\ Few

\* What a request does to its copy is a row again.
LEMMA EditedType ==
    ASSUME NEW row \in Row, NEW edit \in Edits, NEW ip,
           edit \in {"block", "unblock"} => ip \in IPs
    PROVE  Edited(row, edit, ip) \in Row
<1>1. CASE edit = "toggle"
  BY <1>1 DEF Edited, Row
<1>2. CASE edit = "block"
  BY <1>2 DEF Edited, Row
<1>3. CASE edit = "unblock"
  BY <1>3 DEF Edited, Row
<1> QED BY <1>1, <1>2, <1>3 DEF Edits

\* What an answer says is a promise again.
LEMMA PromisedType ==
    ASSUME NEW p \in Promise, NEW j \in Job, j.edit # "none",
           j.edit \in {"block", "unblock"} => j.ip \in IPs
    PROVE  Promised(p, j) \in Promise
<1> USE DEF Promise, Job, Row
<1>1. CASE j.edit = "toggle"
  BY <1>1 DEF Promised
<1>2. CASE j.edit = "block"
  BY <1>2 DEF Promised
<1>3. CASE j.edit = "unblock"
  BY <1>3 DEF Promised
<1> QED BY <1>1, <1>2, <1>3 DEF Edits

\* The answer to an edit of the row as it is says what the row becomes.
LEMMA EditAsPromised ==
    ASSUME NEW row \in Row, NEW p \in Promise, NEW j \in Job, j.edit # "none",
           j.copy = row, row.active = p.active, row.ips = p.out
    PROVE  /\ Edited(row, j.edit, j.ip).active = Promised(p, j).active
           /\ Edited(row, j.edit, j.ip).ips = Promised(p, j).out
<1> USE DEF Promise, Row
<1>1. CASE j.edit = "toggle"
  BY <1>1 DEF Edited, Promised
<1>2. CASE j.edit = "block"
  BY <1>2 DEF Edited, Promised
<1>3. CASE j.edit = "unblock"
  BY <1>3 DEF Edited, Promised
<1> QED BY <1>1, <1>2, <1>3 DEF Edits, Job

LEMMA NoJobType == NoJob \in Job
BY DEF NoJob, Job, Stage, NewRow, Row

LEMMA Establish == Init => IInv
<1> SUFFICES ASSUME Init PROVE IInv
  OBVIOUS
<1>1. TypeOK /\ Held /\ AnswersHold
  BY NoJobType DEF Init, TypeOK, Held, AnswersHold, NoJob, Exists, Fresh
<1>2. Few
  <2>1. Live = {} /\ Seeking = {} /\ obtained = {}
    BY DEF Init, Live, Seeking, NoJob
  <2>2. Cardinality(Workers) \in Nat
    BY TokensAssumption, FS_CardinalityType
  <2> QED BY <2>1, <2>2, FS_EmptySet DEF Few
<1> QED BY <1>1, <1>2 DEF IInv

\* What Few counts, before and after a step.
LEMMA Finite ==
    ASSUME IsFiniteSet(obtained), IsFiniteSet(obtained')
    PROVE  /\ IsFiniteSet(Live) /\ Cardinality(Live) \in Nat
           /\ IsFiniteSet(Live') /\ Cardinality(Live') \in Nat
           /\ IsFiniteSet(Seeking) /\ Cardinality(Seeking) \in Nat
           /\ IsFiniteSet(Seeking') /\ Cardinality(Seeking') \in Nat
           /\ Cardinality(Workers) \in Nat
<1>1. Live \subseteq obtained /\ Live' \subseteq obtained'
  BY DEF Live
<1>2. Seeking \subseteq Workers /\ Seeking' \subseteq Workers
  BY DEF Seeking
<1> QED BY <1>1, <1>2, TokensAssumption, FS_Subset, FS_CardinalityType

\* A step that neither makes a token nor sets out for one.
LEMMA NoMore ==
    ASSUME Few, IsFiniteSet(obtained'), \A t \in obtained' : ~Fresh(t)',
           Live' \subseteq Live, Seeking' \subseteq Seeking
    PROVE  Few'
<1>1. Cardinality(Live') <= Cardinality(Live) /\ Cardinality(Seeking') <= Cardinality(Seeking)
  BY Finite, FS_Subset DEF Few
<1> QED BY <1>1, Finite DEF Few

\* The steps that change one request and nothing else.
LEMMA OneRequest ==
    ASSUME IInv, UNCHANGED <<tokens, history>>, NEW w \in Workers, NEW j \in Job,
           job' = [job EXCEPT ![w] = j],
           j.stage \in {"saving", "deleting"} <=> j.token # None,
           j.stage = "saving" <=> j.edit # "none",
           j.edit = "unblock" => j.ip \in j.copy.ips,
           j.token # None => ~Fresh(j.token),
           j.edit \in {"block", "unblock"} => j.ip \in IPs,
           j.stage = "saving" => Exists(j.token) /\ tokens[j.token] = j.copy,
           j.stage = "obtaining" => ~AnyActive
    PROVE  IInv'
<1> USE DEF IInv, history
<1>1. TypeOK'
  BY DEF TypeOK, Exists, Fresh
<1>2. Held'
  BY DEF TypeOK, Held, Exists, Fresh
<1>3. AnswersHold'
  BY DEF AnswersHold, Exists
<1>4. Few'
  <2>1. /\ IsFiniteSet(obtained') /\ (\A t \in obtained' : ~Fresh(t)') /\ Live' = Live
        /\ job'[w] = j /\ \A v \in Workers : v # w => job'[v] = job[v]
    BY DEF Few, Fresh, Live, Exists, TypeOK
  <2>2. CASE j.stage = "obtaining"
    <3>1. Live = {}
      BY <2>2 DEF AnyActive, Live, TypeOK
    <3>2. Cardinality(Seeking') <= Cardinality(Workers) /\ Cardinality(Live') = 0
      <4>1. Seeking' \subseteq Workers
        BY DEF Seeking
      <4> QED BY <2>1, <3>1, <4>1, TokensAssumption, FS_Subset, FS_EmptySet
    <3> QED BY <2>1, <3>2, Finite DEF Few
  <2>3. CASE j.stage # "obtaining"
    <3>1. Seeking' \subseteq Seeking
      BY <2>1, <2>3 DEF Seeking
    <3> QED BY <2>1, <3>1, NoMore
  <2> QED BY <2>2, <2>3
<1> QED BY <1>1, <1>2, <1>3, <1>4

\* After a step that changes a row no request is new to obtain a token.
LEMMA Sought ==
    ASSUME TypeOK, NEW w \in Workers, NEW t, DoneChanging(w, t)
    PROVE  Seeking' = Seeking \ {w}
<1>1. job'[w].stage = "idle"
  BY DEF DoneChanging, NoJob
<1>2. \A v \in Workers : v # w => job'[v].stage = job[v].stage
  BY DEF DoneChanging, TypeOK, Job
<1> QED BY <1>1, <1>2 DEF Seeking

LEMMA Preserve == IInv /\ [Next]_vars => IInv'
<1> SUFFICES ASSUME IInv, [Next]_vars PROVE IInv'
  OBVIOUS
<1> USE TokensAssumption
<1>0. /\ TypeOK /\ Held /\ AnswersHold /\ Few
      /\ \A w \in Workers : job[w] \in Job
  BY DEF IInv, TypeOK
<1>1. ASSUME NEW w \in Workers, NEW t \in Tokens, NEW ip \in IPs, Admit(w, t, ip)
      PROVE  IInv'
  <2> DEFINE j == [job[w] EXCEPT !.stage = "admitted"]
  <2>1. j \in Job /\ j.token = None /\ j.edit = "none" /\ j.stage = "admitted"
    BY <1>0, <1>1 DEF Admit, TypeOK, Job, Stage
  <2>2. job' = [job EXCEPT ![w] = j] /\ UNCHANGED <<tokens, history>>
    BY <1>1 DEF Admit
  <2> QED BY <1>0, <2>1, <2>2, OneRequest
<1>10. ASSUME NEW w \in Workers, BeginObtain(w)
       PROVE  IInv'
  <2> DEFINE j == [job[w] EXCEPT !.stage = "obtaining"]
  <2>1. j \in Job /\ j.token = None /\ j.edit = "none" /\ j.stage = "obtaining"
    BY <1>0, <1>10 DEF BeginObtain, TypeOK, Job, Stage
  <2>2. job' = [job EXCEPT ![w] = j] /\ UNCHANGED <<tokens, history>> /\ ~AnyActive
    BY <1>10 DEF BeginObtain
  <2> QED BY <1>0, <2>1, <2>2, OneRequest
<1>2. ASSUME NEW w \in Workers, BeginCreate(w)
      PROVE  IInv'
  <2> DEFINE j == [job[w] EXCEPT !.stage = "creating"]
  <2>1. j \in Job /\ j.token = None /\ j.edit = "none" /\ j.stage = "creating"
    BY <1>0, <1>2 DEF BeginCreate, TypeOK, Job, Stage
  <2>2. job' = [job EXCEPT ![w] = j] /\ UNCHANGED <<tokens, history>>
    BY <1>2 DEF BeginCreate
  <2> QED BY <1>0, <2>1, <2>2, OneRequest
<1>3. ASSUME NEW w \in Workers, NEW t \in Tokens, NEW edit \in Edits,
             NEW ip \in IPs \cup {None}, Load(w, t, edit, ip)
      PROVE  IInv'
  <2> DEFINE j == [stage |-> "saving", edit |-> edit, token |-> t,
                   copy |-> tokens[t], ip |-> ip, stale |-> FALSE]
  <2>1. tokens[t] \in Row /\ Exists(t) /\ ~Fresh(t)
    BY <1>0, <1>3 DEF Load, TypeOK, Exists
  <2>2. /\ edit = "unblock" => ip \in tokens[t].ips
        /\ edit \in {"block", "unblock"} => ip \in IPs
    BY <1>3, <2>1 DEF Load, Allowed, Row
  <2>3. j \in Job /\ t # None /\ edit # "none"
    BY <2>1 DEF Job, Stage, Edits
  <2>4. job' = [job EXCEPT ![w] = j] /\ UNCHANGED <<tokens, history>>
    BY <1>3 DEF Load
  <2> HIDE DEF j
  <2>5. /\ j.stage = "saving" /\ j.edit = edit /\ j.token = t
        /\ j.copy = tokens[t] /\ j.ip = ip
    BY DEF j
  <2> QED BY <1>0, <2>1, <2>2, <2>3, <2>4, <2>5, OneRequest
<1>4. ASSUME NEW w \in Workers, NEW t \in Tokens, BeginDelete(w, t)
      PROVE  IInv'
  <2> DEFINE j == [job[w] EXCEPT !.stage = "deleting", !.token = t]
  <2>1. /\ j \in Job /\ j.token = t /\ t # None
        /\ j.edit = "none" /\ j.stage = "deleting"
    BY <1>0, <1>4 DEF BeginDelete, Ready, TypeOK, Job, Stage
  <2>2. job' = [job EXCEPT ![w] = j] /\ UNCHANGED <<tokens, history>>
    BY <1>4 DEF BeginDelete
  <2>3. ~Fresh(t)
    BY <1>0, <1>4 DEF BeginDelete, TypeOK
  <2> QED BY <1>0, <2>1, <2>2, <2>3, OneRequest
<1>5. ASSUME NEW w \in Workers, Leave(w)
      PROVE  IInv'
  BY <1>0, <1>5, NoJobType, OneRequest DEF Leave, Done, NoJob
<1>6. ASSUME NEW w \in Workers, NEW t \in Tokens, Create(w, t)
      PROVE  IInv'
  <2> DEFINE p == [active |-> TRUE, out |-> {}]
  <2>0. p \in Promise /\ NewRow \in Row
    BY DEF Promise, Row, NewRow
  <2> HIDE DEF p
  <2>1. p \in Promise /\ NewRow \in Row /\ p # None
    BY <2>0
  <2>2. /\ tokens' = [tokens EXCEPT ![t] = NewRow]
        /\ promise' = [promise EXCEPT ![t] = p]
        /\ obtained' = IF job[w].stage = "obtaining" THEN obtained \cup {t} ELSE obtained
        /\ DoneChanging(w, t)
        /\ UNCHANGED <<deleted, overlapped>>
        /\ Fresh(t)
    BY <1>6 DEF Create, p
  <2>3. t \notin deleted /\ \A v \in Workers : job[v].token # t
    BY <1>0, <2>2 DEF TypeOK, Held, Fresh
  <2>4. TypeOK'
    BY <1>0, <2>1, <2>2, NoJobType DEF DoneChanging, TypeOK, Exists, Fresh, NoJob, Job
  <2>5. Held'
    BY <1>0, <2>1, <2>2, <2>3 DEF DoneChanging, TypeOK, Held, Exists, Fresh, NoJob, Job
  <2>6. AnswersHold'
    BY <1>0, <2>1, <2>2, <2>3 DEF TypeOK, AnswersHold, Exists, NewRow, p
  <2>7. Few'
    <3>1. IsFiniteSet(obtained') /\ \A s \in obtained' : ~Fresh(s)'
      <4>1. IsFiniteSet(obtained \cup {t})
        BY <1>0, FS_AddElement DEF Few
      <4>2. \A s \in obtained' : ~Fresh(s)'
        BY <1>0, <2>1, <2>2 DEF Few, Fresh, TypeOK
      <4> QED BY <1>0, <2>2, <4>1, <4>2 DEF Few
    <3>2. Live' \subseteq Live \cup (obtained' \ obtained)
      BY <1>0, <2>2 DEF Live, Exists, Few, TypeOK
    <3>3. Seeking' = Seeking \ {w}
      BY <1>0, <2>2, Sought
    <3>4. CASE job[w].stage # "obtaining"
      <4>1. Live' \subseteq Live
        BY <2>2, <3>2, <3>4
      <4> QED BY <1>0, <3>1, <3>3, <4>1, NoMore
    <3>5. CASE job[w].stage = "obtaining"
      <4>1. w \in Seeking /\ IsFiniteSet(Seeking) /\ IsFiniteSet(Live)
        BY <1>0, <3>1, <3>5, Finite DEF Seeking, Few
      <4>2. Cardinality(Seeking') = Cardinality(Seeking) - 1
        BY <3>3, <4>1, FS_RemoveElement
      <4>3. Cardinality(Live') <= Cardinality(Live) + 1
        <5>1. IsFiniteSet(Live \cup {t})
              /\ Cardinality(Live \cup {t}) =
                   IF t \in Live THEN Cardinality(Live) ELSE Cardinality(Live) + 1
          BY <4>1, FS_AddElement, Zenon
        <5>2. Live' \subseteq Live \cup {t}
          BY <2>2, <3>2
        <5>3. Cardinality(Live') <= Cardinality(Live \cup {t})
          BY <5>1, <5>2, FS_Subset
        <5> QED BY <1>0, <3>1, <5>1, <5>3, Finite DEF Few
      <4> QED BY <1>0, <3>1, <4>2, <4>3, Finite DEF Few
    <3> QED BY <3>4, <3>5
  <2> QED BY <2>4, <2>5, <2>6, <2>7 DEF IInv
<1>7. ASSUME NEW w \in Workers, Save(w)
      PROVE  IInv'
  <2> DEFINE t == job[w].token
             row == Edited(job[w].copy, job[w].edit, job[w].ip)
             p == Promised(promise[t], job[w])
  <2>1. /\ t \in Tokens /\ ~Fresh(t) /\ promise[t] \in Promise
        /\ job[w].edit \in Edits /\ job[w].copy \in Row
        /\ job[w].edit \in {"block", "unblock"} => job[w].ip \in IPs
    BY <1>0, <1>7 DEF Save, TypeOK, Held, Fresh, Job
  <2>2. row \in Row /\ row # None
    BY <2>1, EditedType
  <2>3. p \in Promise /\ p # None
    BY <1>0, <2>1, PromisedType DEF Edits
  <2>4. /\ tokens' = [tokens EXCEPT ![t] = row]
        /\ promise' = [promise EXCEPT ![t] = p]
        /\ overlapped' = IF job[w].stale THEN overlapped \cup {t} ELSE overlapped
        /\ obtained' = IF job[w].edit = "toggle" /\ ~job[w].copy.active
                       THEN obtained \ {t}
                       ELSE obtained
        /\ deleted' = deleted
        /\ DoneChanging(w, t)
    BY <1>7 DEF Save
  \* The edit makes no token active, but for a toggle by hand.
  <2>a. row.active => job[w].copy.active \/ (job[w].edit = "toggle" /\ ~job[w].copy.active)
    BY <2>1 DEF Edited, Edits, Row
  <2>5. t \in overlapped' \/
          (t \notin deleted' /\ row.active = p.active /\ row.ips = p.out)
    <3>1. CASE job[w].stale \/ t \in overlapped
      BY <2>4, <3>1
    <3>2. CASE ~job[w].stale /\ t \notin overlapped
      <4>1. Exists(t) /\ tokens[t] = job[w].copy
        BY <1>0, <1>7, <3>2 DEF Held, Save
      <4>2. /\ t \notin deleted /\ job[w].copy.active = promise[t].active
            /\ job[w].copy.ips = promise[t].out
        BY <1>0, <2>1, <3>2, <4>1 DEF AnswersHold
      <4> QED BY <1>0, <2>1, <2>4, <4>2, EditAsPromised DEF Edits
    <3> QED BY <3>1, <3>2
  <2> HIDE DEF row, p
  <2>6. TypeOK'
    BY <1>0, <2>1, <2>2, <2>3, <2>4, NoJobType DEF DoneChanging, TypeOK, Exists, Fresh, NoJob, Job
  <2>7. Held'
    BY <1>0, <2>1, <2>2, <2>3, <2>4, ZenonT(40) DEF DoneChanging, TypeOK, Held, Exists, Fresh, NoJob, Job
  <2>8. AnswersHold'
    BY <1>0, <2>1, <2>4, <2>5 DEF TypeOK, AnswersHold, Exists
  <2>9. Few'
    <3>1. IsFiniteSet(obtained') /\ \A s \in obtained' : ~Fresh(s)'
      <4>1. obtained' \subseteq obtained
        BY <2>4
      <4>2. \A s \in obtained' : ~Fresh(s)'
        BY <1>0, <2>1, <2>3, <2>4, <4>1 DEF Few, Fresh, TypeOK
      <4> QED BY <1>0, <4>1, <4>2, FS_Subset DEF Few
    <3>2. Live' \subseteq Live
      <4> SUFFICES ASSUME NEW s \in Live' PROVE s \in Live
        OBVIOUS
      <4>1. s \in obtained \ overlapped /\ tokens'[s] # None /\ tokens'[s].active
        BY <2>4 DEF Live, Exists
      <4>2. CASE s # t
        BY <1>0, <2>4, <4>1, <4>2 DEF Live, Exists, TypeOK
      <4>3. CASE s = t
        <5>1. ~job[w].stale /\ row.active /\ job[w].copy.active
          BY <1>0, <2>1, <2>4, <2>a, <4>1, <4>3 DEF Live, TypeOK
        <5>2. Exists(t) /\ tokens[t] = job[w].copy
          BY <1>0, <1>7, <5>1 DEF Held, Save
        <5> QED BY <4>1, <4>3, <5>1, <5>2 DEF Live
      <4> QED BY <4>2, <4>3
    <3>3. Seeking' \subseteq Seeking
      BY <1>0, <2>4, Sought
    <3> QED BY <1>0, <3>1, <3>2, <3>3, NoMore
  <2> QED BY <2>6, <2>7, <2>8, <2>9 DEF IInv
<1>8. ASSUME NEW w \in Workers, Delete(w)
      PROVE  IInv'
  <2> DEFINE t == job[w].token
             p == [promise[t] EXCEPT !.active = FALSE]
  <2>1. t \in Tokens /\ ~Fresh(t) /\ promise[t] \in Promise
    BY <1>0, <1>8 DEF Delete, TypeOK, Held, Fresh, Job
  <2>2. p \in Promise /\ p # None
    BY <2>1 DEF Promise
  <2>3. /\ tokens' = [tokens EXCEPT ![t] = None]
        /\ promise' = [promise EXCEPT ![t] = p]
        /\ deleted' = deleted \cup {t}
        /\ overlapped' = overlapped /\ obtained' = obtained
        /\ DoneChanging(w, t)
    BY <1>8 DEF Delete
  <2> HIDE DEF p
  <2>4. TypeOK'
    BY <1>0, <2>1, <2>2, <2>3, NoJobType DEF DoneChanging, TypeOK, Exists, Fresh, NoJob, Job
  <2>5. Held'
    BY <1>0, <2>1, <2>2, <2>3, ZenonT(40) DEF DoneChanging, TypeOK, Held, Exists, Fresh, NoJob, Job
  <2>6. AnswersHold'
    BY <1>0, <2>1, <2>3 DEF TypeOK, AnswersHold, Exists
  <2>7. Few'
    <3>1. IsFiniteSet(obtained') /\ \A s \in obtained' : ~Fresh(s)'
      BY <1>0, <2>1, <2>2, <2>3 DEF Few, Fresh, TypeOK
    <3>2. Live' \subseteq Live
      BY <1>0, <2>3 DEF Live, Exists, TypeOK
    <3>3. Seeking' \subseteq Seeking
      BY <1>0, <2>3, Sought
    <3> QED BY <1>0, <3>1, <3>2, <3>3, NoMore
  <2> QED BY <2>4, <2>5, <2>6, <2>7 DEF IInv
<1>9. CASE UNCHANGED vars
  <2>1. TypeOK' /\ Held' /\ AnswersHold'
    BY <1>0, <1>9 DEF vars, history, TypeOK, Held, AnswersHold, Exists, Fresh
  <2>2. Few'
    BY <1>0, <1>9 DEF vars, history, Few, Live, Seeking, Exists, Fresh
  <2> QED BY <2>1, <2>2 DEF IInv
<1> QED BY <1>1, <1>2, <1>3, <1>4, <1>5, <1>6, <1>7, <1>8, <1>9, <1>10 DEF Next

LEMMA Invariance == Spec => []IInv
BY Establish, Preserve, PTL DEF Spec

-----------------------------------------------------------------------------

\* The rows, the requests and the history keep their types.
THEOREM TypeCorrect == Spec => []TypeOK
<1>1. IInv => TypeOK
  BY DEF IInv
<1> QED BY <1>1, Invariance, PTL

\* What administrators were answered about a token holds, unless a stale save
\* overwrote the row.
THEOREM AnswersHoldAlways == Spec => []AnswersHold
<1>1. IInv => AnswersHold
  BY DEF IInv
<1> QED BY <1>1, Invariance, PTL

\* However many requests for a token there are, and however they overlap, they
\* leave one active token for each web worker at most.
THEOREM FewTokensHolds == Spec => []FewTokens
<1>1. IInv => FewTokens
  <2> SUFFICES ASSUME IInv PROVE FewTokens
    OBVIOUS
  <2>1. Live \subseteq obtained /\ Seeking \subseteq Workers
    BY DEF Live, Seeking
  <2>2. /\ Cardinality(Live) \in Nat /\ Cardinality(Seeking) \in Nat
        /\ Cardinality(Workers) \in Nat
    BY <2>1, TokensAssumption, FS_Subset, FS_CardinalityType DEF IInv, Few
  <2> QED BY <2>2 DEF IInv, Few, FewTokens, Live
<1> QED BY <1>1, Invariance, PTL

\* Who was revoked does not get in, unless a stale save overwrote the row.
THEOREM RevokedStaysOutHolds == Spec => RevokedStaysOut
<1> DEFINE A == \A w \in Workers, t \in Tokens, ip \in IPs :
                    Admit(w, t, ip) /\ t \notin overlapped
                    => promise[t].active /\ ip \notin promise[t].out
<1>1. IInv => [A]_vars
  BY DEF IInv, AnswersHold, Admit, Admits, Exists
<1> QED BY <1>1, Invariance, PTL DEF RevokedStaysOut
=============================================================================
