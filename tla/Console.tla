------------------------------ MODULE Console ------------------------------
(***************************************************************************)
(* The rows people edit in the web console: protected sites, WAF rules and *)
(* messages to the administrator, from accounts/api/views.py,              *)
(* accounts/views.py, accounts/services.py and accounts/forms.py.          *)
(*                                                                         *)
(* Each query is a transaction of its own (autocommit).  An edit loads the *)
(* row and saves its copy: Model.save() updates every column, and inserts  *)
(* the row anew when there is none to update.  The edit form of a rule     *)
(* carries every column of the row as it was when the page was shown.      *)
(*                                                                         *)
(* Of the columns, key is one that holds text (domain, pattern) and on the *)
(* switch (is_protected, is_active, is_read); an edit that names neither,  *)
(* as one of traffic_limit_mb, still saves both.  A request refused with   *)
(* 4xx, who is not the owner's or a superuser's included, changes nothing  *)
(* and is left out.                                                        *)
(***************************************************************************)
CONSTANTS Workers,   \* web workers, one request each at a time
          Browsers,  \* windows of administrators, a rule's form open in each
          Ids,       \* primary keys of the three tables
          KindOf,    \* the table of each
          Keys,      \* values of the text column
          None,      \* no value
          Gone       \* a deleted row

VARIABLES rows,      \* the tables
          job,       \* the requests
          form       \* the forms on people's screens

vars == <<rows, job, form>>

-----------------------------------------------------------------------------

Row == [key : Keys, on : BOOLEAN]

\* What a request carries: None for what it does not name.
Data == [key : Keys \cup {None}, on : BOOLEAN \cup {None}]

Nothing == [key |-> None, on |-> None]

\* A form on a screen.
Form == [id : Ids, shown : Row, stale : BOOLEAN]

\* A client's intention for a row, and a request in the terms of RowRegister.
Intent == [key : Keys \cup {None}, on : {"same", "set", "clear", "flip"}]

Ask == [id : Ids, edit : Intent \cup {Gone}, seen : Row, late : BOOLEAN]

ASSUME ConsoleAssumption ==
    /\ KindOf \in [Ids -> {"site", "rule", "message"}]
    /\ None \notin Ids \cup BOOLEAN
    /\ None # Gone
    /\ {None, Gone} \cap (Row \cup Intent \cup Ask \cup Form \cup Keys) = {}

Operation == {"patch", "toggle", "read", "form", "delete"}

\* copy: the row in the handler's hands.  History: seen, the row the client
\* decided by, which for a form is that of the page; stale: the row has changed
\* since.
Job == [stage : {"idle", "saving", "deleting"},
        op    : Operation \cup {None},
        id    : Ids \cup {None},
        data  : Data,
        copy  : Row \cup {None},
        seen  : Row \cup {None},
        stale : BOOLEAN]

NoJob == [stage |-> "idle", op |-> None, id |-> None, data |-> Nothing,
          copy |-> None, seen |-> None, stale |-> FALSE]

\* get_object_or_404
AnyId(id) == rows[id] # None                                       \* mutant
Exists(id) == rows[id] \in Row

-----------------------------------------------------------------------------
(* New rows, each in one INSERT *)

\* The form of a site has no field for is_protected, the API has; a new
\* message is unread.
Insert(id) ==
    /\ rows[id] = None
    /\ \E row \in Row :
          /\ KindOf[id] = "message" => ~row.on
          /\ rows' = [rows EXCEPT ![id] = row]
    /\ UNCHANGED <<job, form>>

-----------------------------------------------------------------------------
(* Edits: load, change, save *)

\* The serializers, with partial=True: what the request names is replaced.
Reset(copy, data) ==                                               \* mutant
    [key |-> IF data.key = None THEN copy.key ELSE data.key, on |-> data.on # FALSE]
Patched(copy, data) ==
    [key |-> IF data.key = None THEN copy.key ELSE data.key,
     on  |-> IF data.on = None THEN copy.on ELSE data.on]

Toggled(copy) == [copy EXCEPT !.on = ~@]

MarkedRead(copy) == [copy EXCEPT !.on = TRUE]

\* What a handler makes of its copy; the form of a rule replaces every column.
Edited(op, copy, data) ==
    CASE op = "patch"  -> Patched(copy, data)
      [] op = "form"   -> data
      [] op = "toggle" -> Toggled(copy)
      [] op = "read"   -> MarkedRead(copy)

\* Who edits what, and with which data.
Offered(kind, op, data) ==
    \/ op = "patch" /\ kind \in {"site", "rule"}
    \/ op = "toggle" /\ kind \in {"site", "rule"} /\ data = Nothing
    \/ op = "read" /\ kind = "message" /\ data = Nothing

Load(w, id, op, data, seen, stale) ==
    job' = [job EXCEPT ![w] = [stage |-> "saving", op |-> op, id |-> id, data |-> data,
                               copy |-> rows[id], seen |-> seen, stale |-> stale]]

Begin(w, id, op, data) ==
    /\ job[w].stage = "idle"
    /\ Exists(id)
    /\ Offered(KindOf[id], op, data)
    /\ Load(w, id, op, data, rows[id], FALSE)
    /\ UNCHANGED <<rows, form>>

\* admin_rule_edit, GET: the page shows the row.
ShowForm(b, id) ==
    /\ Exists(id) /\ KindOf[id] = "rule"
    /\ form' = [form EXCEPT ![b] = [id |-> id, shown |-> rows[id], stale |-> FALSE]]
    /\ UNCHANGED <<rows, job>>

\* The same, POST: the row is loaded again, for all the columns to be replaced.
SubmitForm(w, b, data) ==
    /\ job[w].stage = "idle"
    /\ form[b] # None
    /\ Exists(form[b].id)
    /\ data \in Row
    /\ Load(w, form[b].id, "form", data, form[b].shown, form[b].stale)
    /\ form' = [form EXCEPT ![b] = None]
    /\ UNCHANGED rows

\* The copies and pages of the row that others have are out of date.
Changed(w, id) ==
    /\ job' = [v \in Workers |->
                 IF v = w THEN NoJob ELSE [job[v] EXCEPT !.stale = @ \/ job[v].id = id]]
    /\ form' = [b \in Browsers |->
                  IF form[b] # None /\ form[b].id = id
                  THEN [form[b] EXCEPT !.stale = TRUE] ELSE form[b]]

\* UPDATE, or INSERT when the row is gone.
Save(w) ==
    /\ job[w].stage = "saving"
    /\ LET j == job[w]
       IN  /\ rows' = [rows EXCEPT ![j.id] = Edited(j.op, j.copy, j.data)]
           /\ Changed(w, j.id)

-----------------------------------------------------------------------------
(* Deletions, and failures *)

BeginDelete(w, id) ==
    /\ job[w].stage = "idle"
    /\ Exists(id) /\ KindOf[id] # "message"
    /\ job' = [job EXCEPT ![w] = [NoJob EXCEPT !.stage = "deleting", !.op = "delete",
                                               !.id = id, !.seen = rows[id]]]
    /\ UNCHANGED <<rows, form>>

\* DELETE, of no row when another request was faster.
Delete(w) ==
    /\ job[w].stage = "deleting"
    /\ rows' = [rows EXCEPT ![job[w].id] = Gone]
    /\ Changed(w, job[w].id)

\* A database error, or the end of the process, before the second query.
Fail(w) ==
    /\ job[w].stage # "idle"
    /\ job' = [job EXCEPT ![w] = NoJob]
    /\ UNCHANGED <<rows, form>>

-----------------------------------------------------------------------------

Init ==
    /\ rows = [id \in Ids |-> None]
    /\ job = [w \in Workers |-> NoJob]
    /\ form = [b \in Browsers |-> None]

Next ==
    \/ \E id \in Ids : Insert(id)
    \/ \E b \in Browsers, id \in Ids : ShowForm(b, id)
    \/ \E w \in Workers :
          \/ Save(w) \/ Delete(w) \/ Fail(w)
          \/ \E id \in Ids : BeginDelete(w, id)
          \/ \E id \in Ids, op \in Operation, data \in Data : Begin(w, id, op, data)
          \/ \E b \in Browsers, data \in Row : SubmitForm(w, b, data)

Spec == Init /\ [][Next]_vars

-----------------------------------------------------------------------------
(* Properties *)

\* The variables have their types, and only rows that exist or existed are in the
\* hands of a request.
TypeOK ==
    /\ rows \in [Ids -> Row \cup {None, Gone}]
    /\ job \in [Workers -> Job]
    /\ form \in [Browsers -> Form \cup {None}]
    /\ \A w \in Workers :
          /\ job[w].stage = "idle" <=> job[w].id = None
          /\ job[w].stage = "saving" => job[w].copy \in Row
          /\ job[w].stage # "idle" => rows[job[w].id] # None

\* The fields of data that differ from what was seen.
Differing(data, seen) ==
    [key |-> IF data.key = seen.key THEN None ELSE data.key,
     on  |-> IF data.on \in {None, seen.on} THEN "same"
             ELSE IF data.on THEN "set" ELSE "clear"]

\* What the client means: with a form, the fields it has changed.
Meant(op, data, seen) ==
    CASE op = "toggle" -> [key |-> None, on |-> "flip"]
      [] op = "read"   -> [key |-> None, on |-> "set"]
      [] op = "patch"  -> Differing(data, Nothing)
      [] op = "form"   -> Differing(data, seen)
      [] op = "delete" -> Gone

\* The requests under way, as RowRegister sees them.
Asked(j) ==
    IF j.stage = "idle" THEN None
    ELSE [id |-> j.id, edit |-> Meant(j.op, j.data, j.seen), seen |-> j.seen, late |-> j.stale]

Register == INSTANCE RowRegister WITH
    Clients <- Workers,
    Pages   <- Browsers,
    row     <- rows,
    asked   <- [w \in Workers |-> Asked(job[w])],
    page    <- form

\* Every edit that is answered takes effect at once and as a whole, on nothing
\* but what the client changed.  One that another request has overtaken, after
\* the handler loaded the row or the page with the form was shown, undoes what
\* was done to the row since, and no more; and no other brings a deleted row
\* back.
ImplementsRegister == Register!Spec
=============================================================================
