--------------------------- MODULE ConsoleProofs ---------------------------
(***************************************************************************)
(* Proofs about Console: the pages and the API of the web console keep     *)
(* what RowRegister promises of a row, for any number of requests,         *)
(* browsers and rows.                                                      *)
(***************************************************************************)
EXTENDS Console, TLAPS

-----------------------------------------------------------------------------
(* What a handler does to its copy *)

\* A handler's result is a row.
LEMMA EditedType ==
    ASSUME NEW op \in {"patch", "form", "toggle", "read"}, NEW copy \in Row,
           NEW data \in Data, op = "form" => data \in Row
    PROVE  Edited(op, copy, data) \in Row
<1> USE ConsoleAssumption DEF Row
<1>1. CASE op = "patch"
  <2>1. (IF data.key = None THEN copy.key ELSE data.key) \in Keys
    BY DEF Data
  <2>2. (IF data.on = None THEN copy.on ELSE data.on) \in BOOLEAN
    BY DEF Data
  <2> QED BY <1>1, <2>1, <2>2 DEF Edited, Patched
<1>2. CASE op = "form"
  BY <1>2 DEF Edited
<1>3. CASE op = "toggle"
  BY <1>3 DEF Edited, Toggled
<1>4. CASE op = "read"
  BY <1>4 DEF Edited, MarkedRead
<1> QED BY <1>1, <1>2, <1>3, <1>4

\* What the client means by an edit.
LEMMA MeantType ==
    ASSUME NEW op \in {"patch", "form", "toggle", "read"}, NEW data \in Data, NEW seen
    PROVE  Meant(op, data, seen) \in Intent
<1> USE DEF Intent
<1>1. CASE op = "toggle"
  BY <1>1 DEF Meant
<1>2. CASE op = "read"
  BY <1>2 DEF Meant
<1>3. CASE op \in {"patch", "form"}
  <2>1. ASSUME NEW from PROVE Differing(data, from) \in Intent
    <3> DEFINE k == IF data.key = from.key THEN None ELSE data.key
               o == IF data.on \in {None, from.on} THEN "same"
                    ELSE IF data.on THEN "set" ELSE "clear"
    <3>1. k \in Keys \cup {None} /\ o \in {"same", "set", "clear", "flip"}
      BY DEF Data
    <3>2. Differing(data, from) = [key |-> k, on |-> o]
      BY DEF Differing
    <3> QED BY <3>1, <3>2
  <2> QED BY <1>3, <2>1 DEF Meant
<1> QED BY <1>1, <1>2, <1>3

\* A handler does to the row what the client means, and nothing else: with a
\* request that names columns, ...
LEMMA PatchAsMeant ==
    ASSUME NEW copy \in Row, NEW data \in Data, NEW seen
    PROVE  Patched(copy, data) = Register!Apply(copy, Meant("patch", data, seen))
<1> USE ConsoleAssumption
<1> DEFINE m == Meant("patch", data, seen)
           a == Register!Apply(copy, m)
<1>0. copy.on \in BOOLEAN /\ data.on \in BOOLEAN \cup {None}
  BY DEF Row, Data
<1>1. /\ m.key = IF data.key = None THEN None ELSE data.key
      /\ m.on = IF data.on \in {None, None} THEN "same"
                ELSE IF data.on THEN "set" ELSE "clear"
  BY DEF Meant, Differing, Nothing
<1>2. a.key = Patched(copy, data).key
  BY <1>1 DEF Register!Apply, Patched
<1>3. a.on = Patched(copy, data).on
  <2>1. /\ a.on = (m.on = "set" \/ (m.on = "same" /\ copy.on) \/ (m.on = "flip" /\ ~copy.on))
        /\ Patched(copy, data).on = IF data.on = None THEN copy.on ELSE data.on
    BY DEF Register!Apply, Patched
  <2> HIDE DEF m, a
  <2>2. CASE data.on = None
    <3>1. m.on = "same"
      BY <1>1, <2>2
    <3> QED BY <1>0, <2>1, <2>2, <3>1
  <2>3. CASE data.on = TRUE
    <3>1. m.on = "set"
      BY <1>1, <2>3
    <3> QED BY <2>1, <2>3, <3>1
  <2>4. CASE data.on = FALSE
    <3>1. m.on = "clear"
      BY <1>1, <2>4
    <3> QED BY <2>1, <2>4, <3>1
  <2> QED BY <1>0, <2>2, <2>3, <2>4
<1> QED BY <1>2, <1>3 DEF Register!Apply, Patched

\* ... with the form of a rule, whose page showed the row, ...
LEMMA FormAsMeant ==
    ASSUME NEW shown \in Row, NEW data \in Row
    PROVE  data = Register!Apply(shown, Meant("form", data, shown))
<1> USE ConsoleAssumption
<1> DEFINE m == Meant("form", data, shown)
           a == Register!Apply(shown, m)
<1>0. /\ shown.on \in BOOLEAN /\ data.on \in BOOLEAN
      /\ shown.key \in Keys /\ data.key \in Keys /\ None \notin Keys
  BY DEF Row
<1>1. /\ m.key = IF data.key = shown.key THEN None ELSE data.key
      /\ m.on = IF data.on \in {None, shown.on} THEN "same"
                ELSE IF data.on THEN "set" ELSE "clear"
  BY DEF Meant, Differing
<1>2. a.key = data.key
  BY <1>0, <1>1 DEF Register!Apply
<1>3. a.on = data.on
  <2>1. a.on = (m.on = "set" \/ (m.on = "same" /\ shown.on) \/ (m.on = "flip" /\ ~shown.on))
    BY DEF Register!Apply
  <2> HIDE DEF m, a
  <2>2. CASE data.on = shown.on
    <3>0. data.on \in {None, shown.on}
      BY <2>2
    <3>1. m.on = "same"
      BY <1>1, <3>0
    <3> QED BY <1>0, <2>1, <2>2, <3>1
  <2>3. CASE data.on = TRUE /\ shown.on = FALSE
    <3>0. data.on \notin {None, shown.on}
      BY <2>3
    <3>1. m.on = "set"
      BY <1>1, <2>3, <3>0
    <3> QED BY <2>1, <2>3, <3>1
  <2>4. CASE data.on = FALSE /\ shown.on = TRUE
    <3>0. data.on \notin {None, shown.on}
      BY <2>4
    <3>1. m.on = "clear"
      BY <1>1, <2>4, <3>0
    <3> QED BY <2>1, <2>4, <3>1
  <2> QED BY <1>0, <2>2, <2>3, <2>4
<1>4. a = [key |-> a.key, on |-> a.on]
  BY DEF Register!Apply
<1>5. data = [key |-> data.key, on |-> data.on]
  BY DEF Row
<1> QED BY <1>2, <1>3, <1>4, <1>5

\* ... or with a switch.
LEMMA SwitchAsMeant ==
    ASSUME NEW copy \in Row, NEW data, NEW shown
    PROVE  /\ Toggled(copy) = Register!Apply(copy, Meant("toggle", data, shown))
           /\ MarkedRead(copy) = Register!Apply(copy, Meant("read", data, shown))
<1> DEFINE t == Meant("toggle", data, shown)
           r == Meant("read", data, shown)
<1>0. /\ copy = [key |-> copy.key, on |-> copy.on] /\ copy.on \in BOOLEAN
  BY DEF Row
<1>1. /\ t = [key |-> None, on |-> "flip"]
      /\ r = [key |-> None, on |-> "set"]
  BY DEF Meant
<1>2. Register!Apply(copy, t) = [key |-> copy.key, on |-> ~copy.on]
  <2>1. Register!Apply(copy, [key |-> None, on |-> "flip"])
          = [key |-> copy.key, on |-> "flip" = "set" \/ ("flip" = "same" /\ copy.on)
                                      \/ ("flip" = "flip" /\ ~copy.on)]
    BY DEF Register!Apply
  <2> QED BY <1>1, <2>1
<1>3. Register!Apply(copy, r) = [key |-> copy.key, on |-> TRUE]
  <2>1. Register!Apply(copy, [key |-> None, on |-> "set"])
          = [key |-> copy.key, on |-> "set" = "set" \/ ("set" = "same" /\ copy.on)
                                      \/ ("set" = "flip" /\ ~copy.on)]
    BY DEF Register!Apply
  <2> QED BY <1>1, <2>1
<1>4. Toggled(copy) = [key |-> copy.key, on |-> ~copy.on]
  BY <1>0 DEF Toggled, Row
<1>5. MarkedRead(copy) = [key |-> copy.key, on |-> TRUE]
  <2>1. ASSUME NEW k, NEW o, NEW z
        PROVE  [[key |-> k, on |-> o] EXCEPT !.on = z] = [key |-> k, on |-> z]
    OBVIOUS
  <2> QED BY <1>0, <2>1, ZenonT(40) DEF MarkedRead
<1> QED BY <1>2, <1>3, <1>4, <1>5

-----------------------------------------------------------------------------
(* The inductive invariant *)

\* What is in the hands of a request: a form carries every column, anything else
\* is applied to the row that was loaded.
Fits(j) ==
    /\ j.stage # "idle" => j.seen \in Row
    /\ j.stage = "saving" =>
          /\ j.op \in {"patch", "form", "toggle", "read"}
          /\ IF j.op = "form" THEN j.data \in Row ELSE j.copy = j.seen
    /\ j.stage = "deleting" => j.op = "delete"

Fit == \A w \in Workers : Fits(job[w])

\* What a client decided by is the row, while nobody has overtaken it.
Held == \A w \in Workers : job[w].stage # "idle" /\ ~job[w].stale => rows[job[w].id] = job[w].seen

\* A page that is up to date shows the row.
Showing == \A b \in Browsers : form[b] # None /\ ~form[b].stale => rows[form[b].id] = form[b].shown

IInv == TypeOK /\ Fit /\ Held /\ Showing

\* The handler makes of the row that was seen what the client means.
LEMMA AsMeant ==
    ASSUME NEW j \in Job, j.stage = "saving", j.copy \in Row, Fits(j)
    PROVE  /\ Edited(j.op, j.copy, j.data) = Register!Apply(j.seen, Meant(j.op, j.data, j.seen))
           /\ Edited(j.op, j.copy, j.data) \in Row
<1>1. /\ j.op \in {"patch", "form", "toggle", "read"} /\ j.seen \in Row /\ j.data \in Data
      /\ j.op = "form" => j.data \in Row
      /\ j.op # "form" => j.copy = j.seen
  BY DEF Fits, Job
<1>2. Edited(j.op, j.copy, j.data) \in Row
  BY <1>1, EditedType
<1>3. CASE j.op = "patch"
  <2>1. Patched(j.copy, j.data) = Register!Apply(j.copy, Meant("patch", j.data, j.seen))
    BY <1>1, PatchAsMeant
  <2>2. j.copy = j.seen
    BY <1>1, <1>3
  <2> QED BY <1>2, <1>3, <2>1, <2>2 DEF Edited
<1>4. CASE j.op = "form"
  <2>1. j.data = Register!Apply(j.seen, Meant("form", j.data, j.seen))
    BY <1>1, <1>4, FormAsMeant
  <2> QED BY <1>2, <1>4, <2>1 DEF Edited
<1>5. CASE j.op \in {"toggle", "read"}
  <2>1. /\ Toggled(j.copy) = Register!Apply(j.copy, Meant("toggle", j.data, j.seen))
        /\ MarkedRead(j.copy) = Register!Apply(j.copy, Meant("read", j.data, j.seen))
    BY SwitchAsMeant
  <2>2. j.copy = j.seen
    BY <1>1, <1>5
  <2> QED BY <1>2, <1>5, <2>1, <2>2 DEF Edited
<1> QED BY <1>1, <1>3, <1>4, <1>5

LEMMA Idle == NoJob \in Job /\ NoJob.stage = "idle" /\ NoJob.id = None /\ Fits(NoJob)
BY DEF NoJob, Job, Data, Nothing, Operation, Fits

LEMMA Establish == Init => IInv
<1> SUFFICES ASSUME Init PROVE IInv
  OBVIOUS
<1> USE ConsoleAssumption DEF Init
<1>1. TypeOK
  <2>1. rows \in [Ids -> Row \cup {None, Gone}]
    OBVIOUS
  <2>2. job \in [Workers -> Job]
    BY Idle
  <2>3. form \in [Browsers -> Form \cup {None}]
    OBVIOUS
  <2> QED BY <2>1, <2>2, <2>3, Idle DEF TypeOK
<1>2. Fit /\ Held
  BY Idle DEF Fit, Held
<1>3. Showing
  BY DEF Showing
<1> QED BY <1>1, <1>2, <1>3 DEF IInv

\* A request that begins keeps the invariant, if what its client saw is the row.
LEMMA BeginsWell ==
    ASSUME IInv, NEW w \in Workers, NEW j \in Job, job' = [job EXCEPT ![w] = j],
           rows' = rows, j.stage # "idle", j.id \in Ids, rows[j.id] \in Row,
           j.stage = "saving" => j.copy \in Row,
           Fits(j), ~j.stale => rows[j.id] = j.seen,
           form' \in [Browsers -> Form \cup {None}],
           \A b \in Browsers : form'[b] # None => form'[b] = form[b]
    PROVE  IInv'
<1> USE ConsoleAssumption
<1>1. job \in [Workers -> Job]
  BY DEF IInv, TypeOK
<1>2. job'[w] = j /\ \A v \in Workers \ {w} : job'[v] = job[v]
  BY <1>1
<1>3. TypeOK'
  <2>1. job' \in [Workers -> Job]
    BY <1>1
  <2>2. ASSUME NEW v \in Workers
        PROVE  /\ job'[v].stage = "idle" <=> job'[v].id = None
               /\ job'[v].stage = "saving" => job'[v].copy \in Row
               /\ job'[v].stage # "idle" => rows'[job'[v].id] # None
    BY <1>2 DEF IInv, TypeOK
  <2> QED BY <2>1, <2>2 DEF IInv, TypeOK
<1>4. Fit'
  BY <1>2 DEF IInv, Fit, Fits
<1>5. Held'
  BY <1>2 DEF IInv, Held
<1>6. Showing'
  BY DEF IInv, Showing
<1> QED BY <1>3, <1>4, <1>5, <1>6 DEF IInv

\* Who has saved or deleted the row id makes the copies and pages of it stale.
LEMMA ChangedPreserves ==
    ASSUME IInv, NEW w \in Workers, job[w].stage # "idle", NEW r \in Row \cup {Gone},
           Changed(w, job[w].id), rows' = [rows EXCEPT ![job[w].id] = r]
    PROVE  IInv'
<1> USE ConsoleAssumption
<1> DEFINE id == job[w].id
<1>1. /\ job \in [Workers -> Job] /\ rows \in [Ids -> Row \cup {None, Gone}]
      /\ form \in [Browsers -> Form \cup {None}] /\ id \in Ids
  BY DEF IInv, TypeOK, Job
<1>2. rows'[id] = r /\ r # None /\ \A i \in Ids \ {id} : rows'[i] = rows[i]
  BY <1>1
<1>3. /\ job'[w] = NoJob
      /\ \A v \in Workers \ {w} :
            job'[v] = [job[v] EXCEPT !.stale = @ \/ job[v].id = id]
  BY DEF Changed
<1>4. NoJob \in Job /\ NoJob.stage = "idle" /\ NoJob.id = None /\ Fits(NoJob)
  BY Idle
<1>5. ASSUME NEW v \in Workers, v # w
      PROVE  /\ job'[v] \in Job
             /\ job'[v].stage = job[v].stage /\ job'[v].op = job[v].op
             /\ job'[v].id = job[v].id /\ job'[v].data = job[v].data
             /\ job'[v].copy = job[v].copy /\ job'[v].seen = job[v].seen
             /\ ~job'[v].stale => ~job[v].stale /\ job[v].id # id
  <2>1. job[v] \in Job /\ job'[v] = [job[v] EXCEPT !.stale = @ \/ job[v].id = id]
    BY <1>1, <1>3, <1>5
  <2> QED BY <2>1 DEF Job
<1> HIDE DEF id
<1>6. job' \in [Workers -> Job]
  <2>1. \A v \in Workers : job'[v] \in Job
    BY <1>3, <1>4, <1>5
  <2> QED BY <2>1 DEF Changed
<1>7. form' \in [Browsers -> Form \cup {None}]
  <2>1. ASSUME NEW b \in Browsers
        PROVE  (IF form[b] # None /\ form[b].id = id
                THEN [form[b] EXCEPT !.stale = TRUE] ELSE form[b]) \in Form \cup {None}
    BY <1>1 DEF Form
  <2> QED BY <2>1 DEF Changed, id
<1>8. TypeOK'
  <2>1. rows' \in [Ids -> Row \cup {None, Gone}]
    BY <1>1
  <2>2. ASSUME NEW v \in Workers
        PROVE  /\ job'[v].stage = "idle" <=> job'[v].id = None
               /\ job'[v].stage = "saving" => job'[v].copy \in Row
               /\ job'[v].stage # "idle" => rows'[job'[v].id] # None
    <3>1. CASE v = w
      BY <3>1, <1>3, <1>4
    <3>2. CASE v # w
      <4>1. job[v].stage # "idle" => job[v].id \in Ids /\ rows[job[v].id] # None
        BY <1>1 DEF IInv, TypeOK, Job
      <4>2. job[v].stage # "idle" => rows'[job[v].id] # None
        BY <4>1, <1>2
      <4> QED BY <3>2, <4>2, <1>5 DEF IInv, TypeOK
    <3> QED BY <3>1, <3>2
  <2> QED BY <1>6, <1>7, <2>1, <2>2 DEF TypeOK
<1>9. Fit'
  <2>1. ASSUME NEW v \in Workers PROVE Fits(job'[v])
    BY <1>3, <1>4, <1>5 DEF IInv, Fit, Fits
  <2> QED BY <2>1 DEF Fit
<1>10. Held'
  <2> SUFFICES ASSUME NEW v \in Workers, job'[v].stage # "idle", ~job'[v].stale
               PROVE  rows'[job'[v].id] = job'[v].seen
    BY DEF Held
  <2>1. v # w
    BY <1>3, <1>4
  <2>2. job[v].id # id /\ job[v].stage # "idle" /\ ~job[v].stale
    BY <2>1, <1>5
  <2>3. job[v].id \in Ids
    BY <2>2, <1>1 DEF IInv, TypeOK, Job
  <2>4. rows'[job[v].id] = rows[job[v].id]
    BY <2>2, <2>3, <1>2
  <2>5. rows[job[v].id] = job[v].seen
    BY <2>2 DEF IInv, Held
  <2> QED BY <2>1, <2>4, <2>5, <1>5
<1>11. Showing'
  <2> SUFFICES ASSUME NEW b \in Browsers, form'[b] # None, ~form'[b].stale
               PROVE  rows'[form'[b].id] = form'[b].shown
    BY DEF Showing
  <2>1. form'[b] = IF form[b] # None /\ form[b].id = id
                   THEN [form[b] EXCEPT !.stale = TRUE] ELSE form[b]
    BY DEF Changed, id
  <2>2. form[b] # None /\ form[b] \in Form
    BY <2>1, <1>1
  <2>3. form[b].id # id
    <3> SUFFICES ASSUME form[b].id = id PROVE FALSE
      OBVIOUS
    <3>1. form'[b] = [form[b] EXCEPT !.stale = TRUE]
      BY <2>1, <2>2
    <3>2. form'[b].stale = TRUE
      BY <3>1, <2>2 DEF Form
    <3> QED BY <3>2
  <2>4. form'[b] = form[b]
    BY <2>1, <2>3
  <2>5. rows'[form[b].id] = rows[form[b].id]
    BY <2>2, <2>3, <1>2 DEF Form
  <2> QED BY <2>2, <2>4, <2>5 DEF IInv, Showing
<1> QED BY <1>8, <1>9, <1>10, <1>11 DEF IInv

-----------------------------------------------------------------------------
(* The actions *)

LEMMA InsertPreserves ==
    ASSUME IInv, NEW id \in Ids, Insert(id)
    PROVE  IInv'
<1> USE ConsoleAssumption
<1>1. PICK r \in Row : rows' = [rows EXCEPT ![id] = r]
  BY DEF Insert
<1>2. /\ rows[id] = None /\ job' = job /\ form' = form
      /\ rows \in [Ids -> Row \cup {None, Gone}]
  BY DEF Insert, IInv, TypeOK
<1>3. rows'[id] = r /\ r # None /\ \A i \in Ids \ {id} : rows'[i] = rows[i]
  BY <1>1, <1>2
<1>4. \A w \in Workers :
         job[w].stage # "idle" => job[w].id \in Ids \ {id} /\ rows[job[w].id] # None
  BY <1>2 DEF IInv, TypeOK, Job
<1>5. TypeOK'
  <2>1. rows' \in [Ids -> Row \cup {None, Gone}]
    BY <1>1, <1>2
  <2>2. \A w \in Workers : job[w].stage # "idle" => rows'[job[w].id] # None
    BY <1>3, <1>4
  <2> QED BY <2>1, <2>2, <1>2 DEF IInv, TypeOK
<1>6. Fit'
  BY <1>2 DEF IInv, Fit
<1>7. Held'
  BY <1>2, <1>3, <1>4 DEF IInv, Held
<1>8. Showing'
  <2>1. ASSUME NEW b \in Browsers, form[b] # None, ~form[b].stale
        PROVE  rows'[form[b].id] = form[b].shown
    <3>1. form[b] \in Form /\ rows[form[b].id] = form[b].shown
      BY <2>1 DEF IInv, TypeOK, Showing
    <3>2. form[b].id # id
      BY <3>1, <1>2 DEF Form
    <3> QED BY <3>1, <3>2, <1>3 DEF Form
  <2> QED BY <2>1, <1>2 DEF Showing
<1> QED BY <1>5, <1>6, <1>7, <1>8 DEF IInv

LEMMA ShowFormPreserves ==
    ASSUME IInv, NEW b \in Browsers, NEW id \in Ids, ShowForm(b, id)
    PROVE  IInv'
<1> USE ConsoleAssumption
<1> DEFINE f == [id |-> id, shown |-> rows[id], stale |-> FALSE]
<1>1. /\ f \in Form /\ f.id = id /\ f.shown = rows[id]
      /\ form' = [form EXCEPT ![b] = f] /\ rows' = rows /\ job' = job
  BY DEF ShowForm, Form, Exists
<1> HIDE DEF f
<1>2. TypeOK'
  BY <1>1 DEF IInv, TypeOK
<1>3. Fit' /\ Held'
  BY <1>1 DEF IInv, Fit, Held
<1>4. Showing'
  BY <1>1 DEF IInv, Showing, TypeOK
<1> QED BY <1>2, <1>3, <1>4 DEF IInv

\* What a request that begins holds, and leaves as it is.
LEMMA BeginFacts ==
    ASSUME IInv, NEW w \in Workers, NEW id \in Ids, NEW op \in Operation, NEW data \in Data,
           Begin(w, id, op, data)
    PROVE  \E j \in Job :
              /\ job[w].stage = "idle" /\ job' = [job EXCEPT ![w] = j]
              /\ rows' = rows /\ form' = form
              /\ j.stage = "saving" /\ j.id = id /\ rows[id] \in Row /\ j.copy \in Row
              /\ Fits(j) /\ j.stale = FALSE /\ j.seen = rows[id]
<1>1. /\ rows[id] \in Row /\ Load(w, id, op, data, rows[id], FALSE)
      /\ rows' = rows /\ form' = form /\ job[w].stage = "idle"
  BY DEF Begin, Exists
<1>2. op \in {"patch", "toggle", "read"}
  BY DEF Begin, Offered
<1> DEFINE j == [stage |-> "saving", op |-> op, id |-> id, data |-> data,
                 copy |-> rows[id], seen |-> rows[id], stale |-> FALSE]
<1>3. /\ j \in Job /\ Fits(j) /\ j.stage = "saving" /\ j.id = id
      /\ j.copy = rows[id] /\ j.seen = rows[id] /\ j.stale = FALSE
  BY <1>1, <1>2 DEF Job, Operation, Fits
<1>4. job' = [job EXCEPT ![w] = j]
  BY <1>1 DEF Load
<1> HIDE DEF j
<1>5. rows[id] \in Row /\ j.copy \in Row
  BY <1>1, <1>3
<1> QED
  <2> SUFFICES
        /\ job[w].stage = "idle" /\ job' = [job EXCEPT ![w] = j]
        /\ rows' = rows /\ form' = form
        /\ j.stage = "saving" /\ j.id = id /\ rows[id] \in Row /\ j.copy \in Row
        /\ Fits(j) /\ j.stale = FALSE /\ j.seen = rows[id]
    BY <1>3, Zenon
  <2> QED BY <1>1, <1>3, <1>4, <1>5

LEMMA BeginDeleteFacts ==
    ASSUME IInv, NEW w \in Workers, NEW id \in Ids, BeginDelete(w, id)
    PROVE  \E j \in Job :
              /\ job[w].stage = "idle" /\ job' = [job EXCEPT ![w] = j]
              /\ rows' = rows /\ form' = form
              /\ j.stage = "deleting" /\ j.id = id /\ rows[id] \in Row
              /\ Fits(j) /\ j.stale = FALSE /\ j.seen = rows[id]
<1> DEFINE j == [NoJob EXCEPT !.stage = "deleting", !.op = "delete", !.id = id, !.seen = rows[id]]
<1>1. /\ rows[id] \in Row /\ job[w].stage = "idle" /\ job' = [job EXCEPT ![w] = j]
      /\ rows' = rows /\ form' = form
  BY DEF BeginDelete, Exists
<1>2. /\ j \in Job /\ Fits(j) /\ j.stage = "deleting" /\ j.id = id
      /\ j.seen = rows[id] /\ j.stale = FALSE
  BY <1>1 DEF NoJob, Job, Data, Nothing, Operation, Fits
<1> HIDE DEF j
<1> QED
  <2> SUFFICES
        /\ job[w].stage = "idle" /\ job' = [job EXCEPT ![w] = j]
        /\ rows' = rows /\ form' = form
        /\ j.stage = "deleting" /\ j.id = id /\ rows[id] \in Row
        /\ Fits(j) /\ j.stale = FALSE /\ j.seen = rows[id]
    BY <1>2, Zenon
  <2> QED BY <1>1, <1>2

LEMMA SubmitFormFacts ==
    ASSUME IInv, NEW w \in Workers, NEW b \in Browsers, NEW data \in Row,
           SubmitForm(w, b, data)
    PROVE  /\ form[b] \in Form /\ form[b] # None /\ form[b].id \in Ids
           /\ ~form[b].stale => rows[form[b].id] = form[b].shown
           /\ \E j \in Job :
                 /\ job[w].stage = "idle" /\ job' = [job EXCEPT ![w] = j]
                 /\ rows' = rows /\ form' = [form EXCEPT ![b] = None]
                 /\ j.stage = "saving" /\ j.id = form[b].id /\ rows[j.id] \in Row
                 /\ j.copy \in Row /\ j.op = "form" /\ Fits(j)
                 /\ j.stale = form[b].stale /\ j.seen = form[b].shown
<1> DEFINE id == form[b].id
           shown == form[b].shown
           stale == form[b].stale
<1>1. /\ rows[id] \in Row /\ Load(w, id, "form", data, shown, stale)
      /\ rows' = rows /\ form[b] # None /\ form' = [form EXCEPT ![b] = None]
      /\ job[w].stage = "idle"
  BY DEF SubmitForm, Exists
<1>2. form[b] \in Form /\ data \in Data
  BY <1>1 DEF IInv, TypeOK, Data, Row
<1>3. /\ id \in Ids /\ stale \in BOOLEAN /\ shown \in Row
      /\ ~stale => rows[id] = shown
  BY <1>1, <1>2 DEF Form, IInv, Showing
<1> HIDE DEF id, shown, stale
<1> DEFINE j == [stage |-> "saving", op |-> "form", id |-> id, data |-> data,
                 copy |-> rows[id], seen |-> shown, stale |-> stale]
<1>4. /\ j \in Job /\ Fits(j) /\ j.stage = "saving" /\ j.id = id /\ j.op = "form"
      /\ j.copy = rows[id] /\ j.seen = shown /\ j.stale = stale
  BY <1>1, <1>2, <1>3 DEF Job, Operation, Fits
<1>5. job' = [job EXCEPT ![w] = j]
  BY <1>1 DEF Load
<1> HIDE DEF j
<1> QED BY <1>1, <1>2, <1>3, <1>4, <1>5 DEF id, shown, stale

LEMMA BeginPreserves ==
    ASSUME IInv, NEW w \in Workers, NEW id \in Ids, NEW op \in Operation, NEW data \in Data,
           Begin(w, id, op, data)
    PROVE  IInv'
<1>1. form \in [Browsers -> Form \cup {None}]
  BY DEF IInv, TypeOK
<1>2. PICK j \in Job :
         /\ job[w].stage = "idle" /\ job' = [job EXCEPT ![w] = j]
         /\ rows' = rows /\ form' = form
         /\ j.stage = "saving" /\ j.id = id /\ rows[id] \in Row /\ j.copy \in Row
         /\ Fits(j) /\ j.stale = FALSE /\ j.seen = rows[id]
  BY BeginFacts
<1> QED BY <1>1, <1>2, BeginsWell

LEMMA BeginDeletePreserves ==
    ASSUME IInv, NEW w \in Workers, NEW id \in Ids, BeginDelete(w, id)
    PROVE  IInv'
<1>1. form \in [Browsers -> Form \cup {None}]
  BY DEF IInv, TypeOK
<1>2. PICK j \in Job :
         /\ job[w].stage = "idle" /\ job' = [job EXCEPT ![w] = j]
         /\ rows' = rows /\ form' = form
         /\ j.stage = "deleting" /\ j.id = id /\ rows[id] \in Row
         /\ Fits(j) /\ j.stale = FALSE /\ j.seen = rows[id]
  BY BeginDeleteFacts
<1> QED BY <1>1, <1>2, BeginsWell

LEMMA SubmitFormPreserves ==
    ASSUME IInv, NEW w \in Workers, NEW b \in Browsers, NEW data \in Row,
           SubmitForm(w, b, data)
    PROVE  IInv'
<1>1. form \in [Browsers -> Form \cup {None}]
  BY DEF IInv, TypeOK
<1>2. form' = [form EXCEPT ![b] = None]
  BY SubmitFormFacts
<1>3. /\ form' \in [Browsers -> Form \cup {None}]
      /\ \A c \in Browsers : form'[c] # None => form'[c] = form[c]
  BY <1>1, <1>2
<1> QED BY <1>3, SubmitFormFacts, BeginsWell

LEMMA SavePreserves ==
    ASSUME IInv, NEW w \in Workers, Save(w)
    PROVE  IInv'
<1> DEFINE r == Edited(job[w].op, job[w].copy, job[w].data)
<1>1. r \in Row
  <2>1. job[w] \in Job /\ job[w].stage = "saving" /\ job[w].copy \in Row /\ Fits(job[w])
    BY DEF IInv, TypeOK, Fit, Save
  <2> QED BY <2>1, AsMeant
<1>2. /\ job[w].stage # "idle" /\ Changed(w, job[w].id)
      /\ rows' = [rows EXCEPT ![job[w].id] = r]
  BY DEF Save
<1> HIDE DEF r
<1> QED BY <1>1, <1>2, ChangedPreserves

LEMMA DeletePreserves ==
    ASSUME IInv, NEW w \in Workers, Delete(w)
    PROVE  IInv'
<1>1. /\ job[w].stage # "idle" /\ Changed(w, job[w].id)
      /\ rows' = [rows EXCEPT ![job[w].id] = Gone]
  BY DEF Delete
<1> QED BY <1>1, ChangedPreserves

LEMMA FailPreserves ==
    ASSUME IInv, NEW w \in Workers, Fail(w)
    PROVE  IInv'
<1> USE ConsoleAssumption
<1>1. job' = [job EXCEPT ![w] = NoJob] /\ rows' = rows /\ form' = form
  BY DEF Fail
<1>2. job'[w] = NoJob /\ \A v \in Workers \ {w} : job'[v] = job[v]
  BY <1>1 DEF IInv, TypeOK
<1>3. TypeOK'
  <2>1. job' \in [Workers -> Job]
    BY <1>1, Idle DEF IInv, TypeOK
  <2>2. ASSUME NEW v \in Workers
        PROVE  /\ job'[v].stage = "idle" <=> job'[v].id = None
               /\ job'[v].stage = "saving" => job'[v].copy \in Row
               /\ job'[v].stage # "idle" => rows'[job'[v].id] # None
    BY <1>1, <1>2, Idle DEF IInv, TypeOK
  <2> QED BY <2>1, <2>2, <1>1 DEF IInv, TypeOK
<1>4. Fit'
  BY <1>2, Idle DEF IInv, Fit
<1>5. Held'
  BY <1>1, <1>2, Idle DEF IInv, Held
<1>6. Showing'
  BY <1>1 DEF IInv, Showing
<1> QED BY <1>3, <1>4, <1>5, <1>6 DEF IInv

LEMMA Preserve == IInv /\ [Next]_vars => IInv'
<1> SUFFICES ASSUME IInv, [Next]_vars PROVE IInv'
  OBVIOUS
<1>1. CASE UNCHANGED vars
  BY <1>1 DEF vars, IInv, TypeOK, Fit, Held, Showing
<1>2. CASE \E id \in Ids : Insert(id)
  BY <1>2, InsertPreserves
<1>3. CASE \E b \in Browsers, id \in Ids : ShowForm(b, id)
  BY <1>3, ShowFormPreserves
<1>4. CASE \E w \in Workers : Save(w) \/ Delete(w) \/ Fail(w)
  BY <1>4, SavePreserves, DeletePreserves, FailPreserves
<1>5. CASE \E w \in Workers, id \in Ids : BeginDelete(w, id)
  BY <1>5, BeginDeletePreserves
<1>6. CASE \E w \in Workers, id \in Ids, op \in Operation, data \in Data :
              Begin(w, id, op, data)
  BY <1>6, BeginPreserves
<1>7. CASE \E w \in Workers, b \in Browsers, data \in Row : SubmitForm(w, b, data)
  BY <1>7, SubmitFormPreserves
<1> QED BY <1>1, <1>2, <1>3, <1>4, <1>5, <1>6, <1>7 DEF Next

LEMMA Invariant == Spec => []IInv
BY Establish, Preserve, PTL DEF Spec

-----------------------------------------------------------------------------
(* Theorems *)

\* Rows, requests and open forms are well formed, and a request never holds a
\* row that was not there, in every reachable state.
THEOREM TypeCorrect == Spec => []TypeOK
<1>1. IInv => TypeOK
  BY DEF IInv
<1> QED BY <1>1, Invariant, PTL

-----------------------------------------------------------------------------
(* Console implements RowRegister *)

regAsked == [w \in Workers |-> Asked(job[w])]

\* A request under way asks for something.
LEMMA AskedType ==
    ASSUME NEW j \in Job, j.stage # "idle", j.id \in Ids, Fits(j)
    PROVE  /\ Asked(j) = [id |-> j.id, edit |-> Meant(j.op, j.data, j.seen),
                          seen |-> j.seen, late |-> j.stale]
           /\ Asked(j) # None
           /\ j.stage = "saving" => Meant(j.op, j.data, j.seen) \in Register!Edit
           /\ j.stage = "saving" => Meant(j.op, j.data, j.seen) # Gone
           /\ j.stage = "deleting" => Meant(j.op, j.data, j.seen) = Gone
<1> USE ConsoleAssumption
<1> DEFINE e == Meant(j.op, j.data, j.seen)
<1>1. Asked(j) = [id |-> j.id, edit |-> e, seen |-> j.seen, late |-> j.stale]
  BY DEF Asked
<1>2. /\ j.data \in Data /\ j.seen \in Row /\ j.stale \in BOOLEAN
      /\ j.stage \in {"saving", "deleting"}
  BY DEF Job, Fits
<1>3. j.stage = "saving" => e \in Intent
  BY <1>2, MeantType DEF Fits
<1>4. j.stage = "deleting" => e = Gone
  BY DEF Fits, Meant
<1>5. e \in Intent \cup {Gone}
  BY <1>2, <1>3, <1>4
<1>6. Intent = Register!Edit
  BY DEF Intent, Register!Edit
<1> HIDE DEF e
<1>7. Asked(j) \in Ask
  BY <1>1, <1>2, <1>5 DEF Ask
<1>8. Asked(j) # None
  BY <1>7
<1>9. j.stage = "saving" => e # Gone
  BY <1>3
<1> QED BY <1>1, <1>3, <1>4, <1>6, <1>8, <1>9 DEF e

LEMMA InsertStep ==
    ASSUME IInv, NEW id \in Ids, Insert(id)
    PROVE  Register!Insert(id)
<1>1. PICK r \in Row : rows' = [rows EXCEPT ![id] = r]
  BY DEF Insert
<1>2. rows[id] = None /\ regAsked' = regAsked /\ form' = form
  BY DEF Insert, regAsked
<1>3. r \in Register!Row
  BY DEF Row, Register!Row
<1> QED BY <1>1, <1>2, <1>3 DEF Register!Insert, regAsked

LEMMA ShowStep ==
    ASSUME NEW b \in Browsers, NEW id \in Ids, ShowForm(b, id)
    PROVE  Register!Show(b, id)
<1>1. rows[id] \in Register!Row
  BY DEF ShowForm, Exists, Row, Register!Row
<1>2. regAsked' = regAsked
  BY DEF ShowForm, regAsked
<1> QED BY <1>1, <1>2 DEF ShowForm, Register!Show, regAsked

\* A request that begins asks for an edit of the row as it is.
LEMMA RequestStep ==
    ASSUME IInv, NEW w \in Workers, job[w].stage = "idle", NEW j \in Job,
           j.stage # "idle", j.id \in Ids, rows[j.id] \in Row, Fits(j),
           j.stale = FALSE, j.seen = rows[j.id],
           job' = [job EXCEPT ![w] = j], rows' = rows, form' = form
    PROVE  Register!Request(w, j.id)
<1> DEFINE e == Meant(j.op, j.data, j.seen)
           a == [id |-> j.id, edit |-> e, seen |-> rows[j.id], late |-> FALSE]
<1>1. job \in [Workers -> Job]
  BY DEF IInv, TypeOK
<1>2. regAsked[w] = None
  BY DEF regAsked, Asked
<1>3. Asked(j) = a /\ e \in Register!Edit \cup {Gone}
  <2>1. j.stage \in {"saving", "deleting"}
    BY DEF Job
  <2> QED BY <2>1, AskedType
<1>4. rows[j.id] \in Register!Row
  BY DEF Row, Register!Row
<1>5. regAsked' = [regAsked EXCEPT ![w] = Asked(j)]
  BY <1>1 DEF regAsked
<1>6. regAsked' = [regAsked EXCEPT ![w] = a]
  BY <1>3, <1>5
<1> HIDE DEF e
<1> QED BY <1>2, <1>3, <1>4, <1>6 DEF Register!Request, regAsked

\* A form that is sent asks for an edit of the row as its page shows it.
LEMMA SubmitStep ==
    ASSUME IInv, NEW w \in Workers, NEW b \in Browsers, NEW data \in Row,
           SubmitForm(w, b, data)
    PROVE  Register!Submit(w, b)
<1>1. job \in [Workers -> Job]
  BY DEF IInv, TypeOK
<1>2. form[b] # None /\ form[b].id \in Ids
  BY SubmitFormFacts
<1>3. PICK j \in Job :
         /\ job[w].stage = "idle" /\ job' = [job EXCEPT ![w] = j]
         /\ rows' = rows /\ form' = [form EXCEPT ![b] = None]
         /\ j.stage = "saving" /\ j.id = form[b].id /\ rows[j.id] \in Row
         /\ Fits(j) /\ j.stale = form[b].stale /\ j.seen = form[b].shown
  BY SubmitFormFacts
<1> DEFINE e == Meant(j.op, j.data, j.seen)
           a == [id |-> form[b].id, edit |-> e, seen |-> form[b].shown, late |-> form[b].stale]
<1>4. regAsked[w] = None
  BY <1>3 DEF regAsked, Asked
<1>5. Asked(j) = a /\ e \in Register!Edit
  BY <1>2, <1>3, AskedType
<1>6. rows[form[b].id] \in Register!Row
  BY <1>3 DEF Row, Register!Row
<1>7. regAsked' = [regAsked EXCEPT ![w] = Asked(j)]
  BY <1>1, <1>3 DEF regAsked
<1>8. regAsked' = [regAsked EXCEPT ![w] = a]
  BY <1>5, <1>7
<1> HIDE DEF e
<1> QED BY <1>2, <1>3, <1>4, <1>5, <1>6, <1>8 DEF Register!Submit, regAsked

\* Whoever saves or deletes a row answers, and overtakes the others.
LEMMA AnsweredStep ==
    ASSUME IInv, NEW w \in Workers, job[w].stage # "idle", Changed(w, job[w].id)
    PROVE  Register!Answered(w, job[w].id)
<1> USE ConsoleAssumption
<1> DEFINE id == job[w].id
<1>1. job \in [Workers -> Job] /\ id \in Ids
  BY DEF IInv, TypeOK, Job
<1>2. ASSUME NEW v \in Workers
      PROVE  Asked(job'[v]) = IF v = w THEN None
                              ELSE IF Asked(job[v]) # None /\ Asked(job[v]).id = id
                              THEN [Asked(job[v]) EXCEPT !.late = TRUE]
                              ELSE Asked(job[v])
  <2>1. CASE v = w
    BY <2>1 DEF Changed, NoJob, Asked
  <2>2. CASE v # w
    <3>1. job'[v] = [job[v] EXCEPT !.stale = @ \/ job[v].id = id]
      BY <2>2 DEF Changed
    <3>2. /\ job'[v].stage = job[v].stage /\ job'[v].id = job[v].id
          /\ job'[v].op = job[v].op /\ job'[v].data = job[v].data
          /\ job'[v].seen = job[v].seen
          /\ job'[v].stale = (job[v].stale \/ job[v].id = id)
          /\ job[v] \in Job /\ job[v].stale \in BOOLEAN
      BY <3>1, <1>1 DEF Job
    <3>3. CASE job[v].stage = "idle"
      BY <2>2, <3>2, <3>3 DEF Asked
    <3>4. CASE job[v].stage # "idle"
      <4> DEFINE e == Meant(job[v].op, job[v].data, job[v].seen)
                 i == job[v].id
                 l == job[v].stale
                 s == job[v].seen
                 a == Asked(job[v])
      <4>1. i \in Ids /\ Fits(job[v])
        BY <3>2, <3>4 DEF IInv, TypeOK, Fit, Job
      <4>2. a = [id |-> i, edit |-> e, seen |-> s, late |-> l] /\ a # None
        BY <4>1, <3>2, <3>4, AskedType
      <4>3. Asked(job'[v]) = [id |-> i, edit |-> e, seen |-> s, late |-> (l \/ i = id)]
        BY <3>2, <3>4 DEF Asked
      <4>4. l \in BOOLEAN
        BY <3>2
      <4> HIDE DEF a, e, i, l, s, id
      <4>5. a.id = i
        BY ONLY <4>2
      <4>6. CASE i = id
        <5>0. ASSUME NEW z
              PROVE  [a EXCEPT !.late = z] = [id |-> i, edit |-> e, seen |-> s, late |-> z]
          BY ONLY <4>2
        <5>1. [a EXCEPT !.late = TRUE] = [id |-> i, edit |-> e, seen |-> s, late |-> TRUE]
          BY <5>0
        <5>2. (l \/ i = id) = TRUE
          BY <4>6
        <5>3. Asked(job'[v]) = [a EXCEPT !.late = TRUE]
          BY <4>3, <5>1, <5>2
        <5> QED BY <5>3, <4>2, <4>5, <4>6, <2>2 DEF a
      <4>7. CASE i # id
        <5>1. (l \/ i = id) = l
          BY <4>4, <4>7
        <5>2. Asked(job'[v]) = a
          BY <4>2, <4>3, <5>1
        <5> QED BY <5>2, <4>5, <4>7, <2>2 DEF a
      <4> QED BY <4>6, <4>7
    <3> QED BY <3>3, <3>4
  <2> QED BY <2>1, <2>2
<1>3. form' = [b \in Browsers |->
                 IF form[b] # None /\ form[b].id = id
                 THEN [form[b] EXCEPT !.stale = TRUE] ELSE form[b]]
  BY DEF Changed
<1> QED BY <1>2, <1>3 DEF Register!Answered

LEMMA SaveStep ==
    ASSUME IInv, NEW w \in Workers, Save(w)
    PROVE  Register!Perform(w) \/ Register!Overwrite(w)
<1> DEFINE j == job[w]
           e == Meant(j.op, j.data, j.seen)
           r == Edited(j.op, j.copy, j.data)
<1>1. /\ j \in Job /\ j.stage = "saving" /\ j.copy \in Row /\ j.id \in Ids /\ Fits(j)
      /\ rows \in [Ids -> Row \cup {None, Gone}]
  <2>1. j.stage = "saving"
    BY DEF Save
  <2> QED BY <2>1, ConsoleAssumption DEF IInv, TypeOK, Fit, Job
<1>2. rows' = [rows EXCEPT ![j.id] = r] /\ r = Register!Apply(j.seen, e)
  BY <1>1, AsMeant DEF Save
<1>3. Register!Answered(w, j.id)
  BY <1>1, AnsweredStep DEF Save
<1>4. /\ regAsked[w] = [id |-> j.id, edit |-> e, seen |-> j.seen, late |-> j.stale]
      /\ regAsked[w] # None /\ e # Gone
  BY <1>1, AskedType DEF regAsked
<1>5. ~j.stale => rows[j.id] = j.seen
  BY <1>1 DEF IInv, Held
<1> HIDE DEF j, e, r
<1>6. /\ regAsked[w].id = j.id /\ regAsked[w].edit = e
      /\ regAsked[w].seen = j.seen /\ regAsked[w].late = j.stale
  BY <1>4
<1>7. CASE j.stale
  <2>1. rows' = [rows EXCEPT ![j.id] = Register!Apply(j.seen, e)]
    BY <1>2
  <2> QED BY <1>3, <1>4, <1>6, <1>7, <2>1 DEF Register!Overwrite, regAsked
<1>8. CASE ~j.stale
  <2>1. rows' = [rows EXCEPT ![j.id] = Register!Apply(rows[j.id], e)]
    BY <1>2, <1>5, <1>8
  <2> QED BY <1>3, <1>4, <1>6, <1>8, <2>1 DEF Register!Perform, regAsked
<1> QED BY <1>7, <1>8

LEMMA DeleteStep ==
    ASSUME IInv, NEW w \in Workers, Delete(w)
    PROVE  Register!Perform(w)
<1> DEFINE j == job[w]
<1>1. j \in Job /\ j.stage = "deleting" /\ j.id \in Ids /\ Fits(j)
  <2>1. j.stage = "deleting"
    BY DEF Delete
  <2> QED BY <2>1, ConsoleAssumption DEF IInv, TypeOK, Fit, Job
<1>2. rows' = [rows EXCEPT ![j.id] = Gone]
  BY DEF Delete
<1>3. Register!Answered(w, j.id)
  BY <1>1, AnsweredStep DEF Delete
<1>4. /\ regAsked[w] = [id |-> j.id, edit |-> Gone, seen |-> j.seen, late |-> j.stale]
      /\ regAsked[w] # None
  BY <1>1, AskedType DEF regAsked
<1> HIDE DEF j
<1>5. regAsked[w].id = j.id /\ regAsked[w].edit = Gone
  BY <1>4
<1> QED BY <1>2, <1>3, <1>4, <1>5 DEF Register!Perform, regAsked

LEMMA FailStep ==
    ASSUME IInv, NEW w \in Workers, Fail(w)
    PROVE  Register!Withdraw(w)
<1>1. /\ job[w] \in Job /\ job[w].stage # "idle" /\ job[w].id \in Ids /\ Fits(job[w])
      /\ job' = [job EXCEPT ![w] = NoJob] /\ rows' = rows /\ form' = form
  <2>1. job[w].stage # "idle"
    BY DEF Fail
  <2> QED BY <2>1, ConsoleAssumption DEF IInv, TypeOK, Fit, Fail, Job
<1>2. regAsked[w] # None
  BY <1>1, AskedType DEF regAsked
<1>3. regAsked' = [regAsked EXCEPT ![w] = None]
  BY <1>1 DEF regAsked, Asked, NoJob, IInv, TypeOK
<1> QED BY <1>1, <1>2, <1>3 DEF Register!Withdraw, regAsked

LEMMA Implement == IInv /\ [Next]_vars => [Register!Next]_<<rows, regAsked, form>>
<1> SUFFICES ASSUME IInv, [Next]_vars PROVE [Register!Next]_<<rows, regAsked, form>>
  OBVIOUS
<1>1. CASE UNCHANGED vars
  BY <1>1 DEF vars, regAsked
<1>2. CASE \E id \in Ids : Insert(id)
  BY <1>2, InsertStep DEF Register!Next
<1>3. CASE \E b \in Browsers, id \in Ids : ShowForm(b, id)
  BY <1>3, ShowStep DEF Register!Next
<1>4. CASE \E w \in Workers : Save(w) \/ Delete(w) \/ Fail(w)
  BY <1>4, SaveStep, DeleteStep, FailStep DEF Register!Next
<1>5. CASE \E w \in Workers, id \in Ids : BeginDelete(w, id)
  <2>1. PICK w \in Workers, id \in Ids : BeginDelete(w, id)
    BY <1>5
  <2>2. PICK j \in Job :
           /\ job[w].stage = "idle" /\ job' = [job EXCEPT ![w] = j]
           /\ rows' = rows /\ form' = form
           /\ j.stage = "deleting" /\ j.id = id /\ rows[id] \in Row
           /\ Fits(j) /\ j.stale = FALSE /\ j.seen = rows[id]
    BY <2>1, BeginDeleteFacts
  <2>3. Register!Request(w, j.id)
    BY <2>2, RequestStep
  <2>4. Register!Request(w, id)
    BY <2>2, <2>3
  <2> QED BY <2>4 DEF Register!Next
<1>6. CASE \E w \in Workers, id \in Ids, op \in Operation, data \in Data :
              Begin(w, id, op, data)
  <2>1. PICK w \in Workers, id \in Ids, op \in Operation, data \in Data :
              Begin(w, id, op, data)
    BY <1>6
  <2>2. PICK j \in Job :
           /\ job[w].stage = "idle" /\ job' = [job EXCEPT ![w] = j]
           /\ rows' = rows /\ form' = form
           /\ j.stage = "saving" /\ j.id = id /\ rows[id] \in Row /\ j.copy \in Row
           /\ Fits(j) /\ j.stale = FALSE /\ j.seen = rows[id]
    BY <2>1, BeginFacts, ZenonT(40)
  <2>3. Register!Request(w, j.id)
    BY <2>2, RequestStep
  <2>4. Register!Request(w, id)
    BY <2>2, <2>3
  <2> QED BY <2>4 DEF Register!Next
<1>7. CASE \E w \in Workers, b \in Browsers, data \in Row : SubmitForm(w, b, data)
  <2>1. PICK w \in Workers, b \in Browsers : Register!Submit(w, b)
    BY <1>7, SubmitStep
  <2> QED BY <2>1 DEF Register!Next
<1> QED BY <1>1, <1>2, <1>3, <1>4, <1>5, <1>6, <1>7 DEF Next

\* Whatever the pages and the API do to a row, RowRegister allows: an edit that
\* is answered changes what the client asked for and nothing else, in the row as
\* it is or, when the request was overtaken, as the client saw it.
THEOREM ConsoleImplementsRegister == Spec => ImplementsRegister
<1>1. Init => Register!Init
  BY DEF Init, Register!Init, NoJob, Asked
<1>2. IInv /\ [Next]_vars => [Register!Next]_<<rows, regAsked, form>>
  BY Implement
<1> QED BY <1>1, <1>2, Invariant, PTL DEF Spec, ImplementsRegister, Register!Spec, regAsked
=============================================================================
