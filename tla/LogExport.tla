----------------------------- MODULE LogExport -----------------------------
(***************************************************************************)
(* The export of the request log: a view queues a task, a Celery worker    *)
(* writes accounts_requestlog to media/exports/logs_<user>_<second>.csv,   *)
(* and users list and delete these files (accounts/tasks.py, services.py,  *)
(* views.py and api/views.py), while the engine adds rows.                 *)
(*                                                                         *)
(* Files are kept apart from their names: a deleted file that is open      *)
(* lives until it is closed, and open(.., 'w') empties a file that another *)
(* task is writing.  A file is told by the rows written to it since it was *)
(* last emptied; how the bytes of two writers mix is not told.  A worker   *)
(* acknowledges a task when it takes it, so none is run twice.             *)
(***************************************************************************)
EXTENDS Integers, Sequences

CONSTANTS Users,
          Admins,    \* superusers
          Tasks,     \* identifiers of tasks and of files, bound on the exports
          MaxRows,   \* bound on the rows of the log
          MaxTime,   \* bound on the clock, in seconds
          None       \* no value

ASSUME LogExportAssumption ==
    /\ Admins \subseteq Users
    /\ MaxRows \in Nat /\ MaxTime \in Nat
    /\ None \notin Users \cup Tasks

VARIABLES logs,     \* accounts_requestlog: to whom the site of each row belongs
          dir,      \* media/exports: the file under each name
          file,     \* the rows written to each file
          task,     \* the tasks
          clock,    \* seconds
          asked,    \* history: rows a task had to export when it was queued
          removed   \* history: tasks whose file was deleted after they opened it

vars == <<logs, dir, file, task, clock, asked, removed>>

-----------------------------------------------------------------------------

Time == 0 .. MaxTime
Name == Users \X Time
RowId == 1 .. MaxRows

Task == [stage : {"new", "queued", "begun", "open", "writing", "done", "failed"},
         user  : Users \cup {None},
         second : Time,             \* the time in the file's name
         file  : Tasks \cup {None},
         rows  : SUBSET RowId,      \* the result of the query
         written : SUBSET RowId]

NewTask == [stage |-> "new", user |-> None, second |-> 0, file |-> None,
            rows |-> {}, written |-> {}]

\* The rows a user may export: all, or those of the user's sites.
EveryRow(u) == DOMAIN logs                                         \* mutant
Selected(u) == {i \in DOMAIN logs : u \in Admins \/ logs[i] = u}

OneFile(t) == <<task[t].user, 0>>                                  \* mutant
Timeless(t) == <<task[t].user, clock>>                             \* mutant
FileName(t) == <<task[t].user, task[t].second>>

IsOpen(t) == task[t].stage \in {"open", "writing"}

-----------------------------------------------------------------------------
(* The web application *)

\* trigger_log_export: export_logs_to_csv.delay.
Trigger(t, u) ==
    /\ task[t].stage = "new"
    /\ task' = [task EXCEPT ![t].stage = "queued", ![t].user = u]
    /\ asked' = [asked EXCEPT ![t] = Selected(u)]
    /\ UNCHANGED <<logs, dir, file, clock, removed>>

\* delete_export and LogExportDeleteView: os.remove of a file of one's own.
Delete(u, n) ==
    /\ u \in Admins \/ n[1] = u
    /\ dir[n] # None
    /\ dir' = [dir EXCEPT ![n] = None]
    /\ removed' = removed \cup {t \in Tasks : task[t].file = dir[n]}
    /\ UNCHANGED <<logs, file, task, clock, asked>>

-----------------------------------------------------------------------------
(* export_logs_to_csv *)

\* The name is made of the time at which the task starts.
Begin(t) ==
    /\ task[t].stage = "queued"
    /\ task' = [task EXCEPT ![t].stage = "begun", ![t].second = clock]
    /\ UNCHANGED <<logs, dir, file, clock, asked, removed>>

\* open(file_path, 'w'): the file of that name, emptied, or a new one.
Open(t) ==
    /\ task[t].stage = "begun"
    /\ LET n == FileName(t)
           f == IF dir[n] = None THEN t ELSE dir[n]
       IN  /\ dir' = [dir EXCEPT ![n] = f]
           /\ file' = [file EXCEPT ![f] = {}]
           /\ task' = [task EXCEPT ![t].stage = "open", ![t].file = f]
    /\ UNCHANGED <<logs, clock, asked, removed>>

\* iterator() runs the query when the loop starts; its cursor keeps the result.
Query(t) ==
    /\ task[t].stage = "open"
    /\ task' = [task EXCEPT ![t].stage = "writing", ![t].rows = Selected(task[t].user)]
    /\ UNCHANGED <<logs, dir, file, clock, asked, removed>>

\* The buffer reaches the file, some rows at a time.
Write(t) ==
    /\ task[t].stage = "writing"
    /\ \E chunk \in SUBSET (task[t].rows \ task[t].written) \ {{}} :
          /\ task' = [task EXCEPT ![t].written = @ \cup chunk]
          /\ file' = [file EXCEPT ![task[t].file] = @ \cup chunk]
    /\ UNCHANGED <<logs, dir, clock, asked, removed>>

Started(t) == task[t].written # {} \/ task[t].rows = {}            \* mutant
NeverEmpty(t) == task[t].written = task[t].rows /\ task[t].rows # {}  \* mutant
AllWritten(t) == task[t].written = task[t].rows

\* The file is closed and its URL returned.
Finish(t) ==
    /\ task[t].stage = "writing"
    /\ AllWritten(t)
    /\ task' = [task EXCEPT ![t].stage = "done"]
    /\ UNCHANGED <<logs, dir, file, clock, asked, removed>>

\* The database or the disk fails, or the worker process dies: the file stays.
Fail(t) ==
    /\ task[t].stage \in {"begun", "open", "writing"}
    /\ task' = [task EXCEPT ![t].stage = "failed"]
    /\ UNCHANGED <<logs, dir, file, clock, asked, removed>>

-----------------------------------------------------------------------------
(* Meanwhile *)

\* log_request of the engine.
AddRow(u) ==
    /\ Len(logs) < MaxRows
    /\ logs' = Append(logs, u)
    /\ UNCHANGED <<dir, file, task, clock, asked, removed>>

\* A user deletes a site: its rows keep no site (SET_NULL).
DeleteSite(u) ==
    /\ \E S \in SUBSET {i \in DOMAIN logs : logs[i] = u} \ {{}} :
          logs' = [i \in DOMAIN logs |-> IF i \in S THEN None ELSE logs[i]]
    /\ UNCHANGED <<dir, file, task, clock, asked, removed>>

Tick ==
    /\ clock < MaxTime
    /\ clock' = clock + 1
    /\ UNCHANGED <<logs, dir, file, task, asked, removed>>

-----------------------------------------------------------------------------

Init ==
    /\ logs = <<>>
    /\ dir = [n \in Name |-> None]
    /\ file = [f \in Tasks |-> {}]
    /\ task = [t \in Tasks |-> NewTask]
    /\ clock = 0
    /\ asked = [t \in Tasks |-> {}]
    /\ removed = {}

Run(t) == Begin(t) \/ Open(t) \/ Query(t) \/ Write(t) \/ Finish(t)

Next ==
    \/ \E t \in Tasks : Run(t) \/ Fail(t) \/ \E u \in Users : Trigger(t, u)
    \/ \E u \in Users : AddRow(u) \/ DeleteSite(u) \/ \E n \in Name : Delete(u, n)
    \/ Tick

Spec == Init /\ [][Next]_vars

\* The workers take what is queued, and a task that runs goes on.
FairSpec == Spec /\ \A t \in Tasks : WF_vars(Run(t))

-----------------------------------------------------------------------------
(* Properties *)

\* The variables have their types; a file is known by the name of every task
\* that has it, and holds nothing its writers did not select.
TypeOK ==
    /\ logs \in Seq(Users \cup {None}) /\ Len(logs) <= MaxRows
    /\ dir \in [Name -> Tasks \cup {None}]
    /\ file \in [Tasks -> SUBSET RowId]
    /\ task \in [Tasks -> Task]
    /\ clock \in Time
    /\ asked \in [Tasks -> SUBSET RowId]
    /\ removed \subseteq Tasks
    /\ \A t \in Tasks : IsOpen(t) => task[t].file # None
    /\ \A t \in Tasks, n \in Name :
          task[t].file # None /\ dir[n] = task[t].file
          => n = <<task[t].user, task[t].second>>

\* No other export of the user that was started in the same second has opened
\* the file of that name.
Alone(t) ==
    \A o \in Tasks \ {t} : task[o].file # None => FileName(o) # FileName(t)

\* The URL that a task returned leads to a file with every row the user could
\* see when the export was asked for (and still can), unless the file was
\* deleted after the task had opened it, or another export of the user that was
\* started in the same second has opened it.
ExportKept ==
    \A t \in Tasks :
        /\ task[t].stage = "done"
        /\ Alone(t)
        /\ t \notin removed
        => /\ dir[FileName(t)] # None
           /\ asked[t] \cap Selected(task[t].user) \subseteq file[dir[FileName(t)]]

\* A file listed to a user who is no superuser holds rows of that user's sites
\* (or of sites deleted since) only, whoever else exports at the same time.
ExportPrivate ==
    \A n \in Name :
        dir[n] # None /\ n[1] \notin Admins
        => \A i \in file[dir[n]] : logs[i] \in {n[1], None}

\* Every export that is asked for ends, done or failed.
ExportsEnd ==
    \A t \in Tasks : task[t].stage = "queued" ~> task[t].stage \in {"done", "failed"}
=============================================================================
