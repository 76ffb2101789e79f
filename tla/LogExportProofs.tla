-------------------------- MODULE LogExportProofs --------------------------
(***************************************************************************)
(* Proofs about LogExport: what a finished export holds, for any number of *)
(* tasks, users and rows.                                                  *)
(***************************************************************************)
EXTENDS LogExport, TLAPS

-----------------------------------------------------------------------------

\* A task that is to run has a user; only one that has opened its file has one,
\* and only one that has run its query writes; what is written was selected.
Steps ==
    \A t \in Tasks :
        /\ task[t].stage # "new" => task[t].user # None
        /\ task[t].stage \in {"new", "queued", "begun"} => task[t].file = None
        /\ task[t].stage \in {"open", "writing", "done"} => task[t].file # None
        /\ task[t].stage \in {"new", "queued", "begun", "open"}
           => task[t].rows = {} /\ task[t].written = {}
        /\ task[t].stage = "done" => task[t].written = task[t].rows
        /\ task[t].written \subseteq task[t].rows

\* A file was made by the task it is called after, under the name that all of
\* its writers have.
Files ==
    /\ \A t \in Tasks :
          task[t].file # None
          => /\ task[task[t].file].file = task[t].file
             /\ FileName(task[t].file) = FileName(t)
    /\ \A n \in Name :
          dir[n] # None => task[dir[n]].file = dir[n] /\ FileName(dir[n]) = n

\* What a query found is a row of the user, or of a site deleted since, and
\* everything asked for.
Queried ==
    \A t \in Tasks :
        /\ asked[t] \subseteq DOMAIN logs
        /\ \A i \in task[t].rows :
              /\ i \in DOMAIN logs
              /\ task[t].user \notin Admins => logs[i] \in {task[t].user, None}
        /\ task[t].stage \in {"writing", "done"}
           => asked[t] \cap Selected(task[t].user) \subseteq task[t].rows

\* A file holds rows that its writers found, all those that a task wrote which
\* has it alone; that one is in the directory until it is deleted.
Contents ==
    \A t \in Tasks :
        /\ \A i \in file[t] :
              /\ task[t].file = t /\ i \in DOMAIN logs
              /\ task[t].user \notin Admins => logs[i] \in {task[t].user, None}
        /\ Alone(t) /\ task[t].file # None
           => /\ task[t].written \subseteq file[t]
              /\ t \notin removed => dir[FileName(t)] = t

IInv == TypeOK /\ Steps /\ Files /\ Queried /\ Contents

\* A finished export that is alone has its file in the directory, whole.
LEMMA Consequences == IInv => ExportKept /\ ExportPrivate
<1> SUFFICES ASSUME IInv PROVE ExportKept /\ ExportPrivate
  OBVIOUS
<1> USE LogExportAssumption DEF IInv
<1>1. ExportKept
  <2> SUFFICES ASSUME NEW t \in Tasks, task[t].stage = "done", Alone(t), t \notin removed
               PROVE  /\ dir[FileName(t)] # None
                      /\ asked[t] \cap Selected(task[t].user)
                            \subseteq file[dir[FileName(t)]]
    BY DEF ExportKept
  <2>1. task[t].file # None /\ task[t].written = task[t].rows
    BY DEF Steps
  <2>2. dir[FileName(t)] = t /\ task[t].written \subseteq file[t]
    BY <2>1 DEF Contents
  <2>3. asked[t] \cap Selected(task[t].user) \subseteq task[t].rows
    BY DEF Queried
  <2> QED BY <2>1, <2>2, <2>3
<1>2. ExportPrivate
  <2> SUFFICES ASSUME NEW n \in Name, dir[n] # None, n[1] \notin Admins,
                      NEW i \in file[dir[n]]
               PROVE  logs[i] \in {n[1], None}
    BY DEF ExportPrivate
  <2>1. dir[n] \in Tasks /\ FileName(dir[n]) = n
    BY DEF TypeOK, Files
  <2>2. task[dir[n]].user = n[1]
    BY <2>1 DEF FileName
  <2> QED BY <2>1, <2>2 DEF Contents
<1> QED BY <1>1, <1>2

LEMMA Establish == Init => IInv
<1> SUFFICES ASSUME Init PROVE IInv
  OBVIOUS
<1> USE LogExportAssumption DEF Init
<1>1. NewTask \in Task
  BY DEF NewTask, Task, Time
<1>2. TypeOK
  BY <1>1 DEF TypeOK, NewTask, Time, IsOpen
<1>3. Steps /\ Files /\ Queried /\ Contents
  BY DEF Steps, Files, Queried, Contents, NewTask
<1> QED BY <1>2, <1>3 DEF IInv

\* A step of one task that leaves files, directory and log alone, and does not
\* change the name of a file that is open.
LEMMA OneTask ==
    ASSUME IInv, NEW t \in Tasks, NEW j \in Task, task' = [task EXCEPT ![t] = j],
           logs' = logs, dir' = dir, file' = file, removed' = removed,
           clock' \in Time, asked' \in [Tasks -> SUBSET RowId],
           \A o \in Tasks \ {t} : asked'[o] = asked[o],
           j.file = task[t].file,
           j.file # None => j.user = task[t].user /\ j.second = task[t].second,
           j.file = None => j.written = {},
           j.stage \in {"open", "writing"} => j.file # None
    PROVE  TypeOK' /\ Files' /\ (j.written = task[t].written => Contents')
<1> USE DEF IInv
<1>0. /\ t \in DOMAIN task /\ task'[t] = j
      /\ \A o \in Tasks \ {t} : task'[o] = task[o]
      /\ \A o \in Tasks : task'[o].file = task[o].file
      /\ \A o \in Tasks : task[o].file # None => FileName(o)' = FileName(o)
  BY DEF TypeOK, FileName
<1>1. TypeOK'
  <2>1. /\ logs' \in Seq(Users \cup {None}) /\ Len(logs') <= MaxRows
        /\ dir' \in [Name -> Tasks \cup {None}] /\ file' \in [Tasks -> SUBSET RowId]
        /\ task' \in [Tasks -> Task] /\ removed' \subseteq Tasks
    BY DEF TypeOK
  <2>2. \A o \in Tasks : IsOpen(o)' => task'[o].file # None
    BY <1>0 DEF TypeOK, IsOpen
  <2>3. \A o \in Tasks, n \in Name :
           task'[o].file # None /\ dir'[n] = task'[o].file
           => n = <<task'[o].user, task'[o].second>>
    BY <1>0 DEF TypeOK, FileName
  <2> QED BY <2>1, <2>2, <2>3 DEF TypeOK
<1>2. Files'
  <2>1. \A o \in Tasks :
          task[o].file # None
          => /\ task'[task[o].file].file = task[o].file
             /\ FileName(task[o].file)' = FileName(o)'
    BY <1>0, LogExportAssumption DEF Files, TypeOK, Task
  <2>2. \A n \in Name :
          dir[n] # None => task'[dir[n]].file = dir[n] /\ FileName(dir[n])' = n
    BY <1>0, LogExportAssumption DEF Files, TypeOK
  <2> QED BY <1>0, <2>1, <2>2 DEF Files
<1>3. ASSUME j.written = task[t].written PROVE Contents'
  <2>1. \A o \in Tasks : task[o].file # None => task'[o].user = task[o].user
    BY <1>0 DEF FileName
  <2>2. \A o \in Tasks : task[o].file # None /\ Alone(o)' => Alone(o)
    BY <1>0 DEF Alone
  <2>3. \A o \in Tasks : task'[o].written = task[o].written
    BY <1>0, <1>3
  <2> QED BY <1>0, <2>1, <2>2, <2>3, LogExportAssumption DEF Contents
<1> QED BY <1>1, <1>2, <1>3

\* Everything written to a file is known of the task that made it.
LEMMA Preserve == IInv /\ [Next]_vars => IInv'
<1> SUFFICES ASSUME IInv, [Next]_vars PROVE IInv'
  OBVIOUS
<1> USE LogExportAssumption
<1>0. /\ TypeOK /\ Steps /\ Files /\ Queried /\ Contents
      /\ \A t \in Tasks : task[t] \in Task
  BY DEF IInv, TypeOK
<1>1. ASSUME NEW t \in Tasks, NEW u \in Users, Trigger(t, u)
      PROVE  IInv'
  <2> DEFINE j == [task[t] EXCEPT !.stage = "queued", !.user = u]
  <2>1. /\ j \in Task /\ task' = [task EXCEPT ![t] = j]
        /\ asked' = [asked EXCEPT ![t] = Selected(u)]
        /\ UNCHANGED <<logs, dir, file, clock, removed>> /\ task[t].stage = "new"
    BY <1>0, <1>1 DEF Trigger, Task, TypeOK
  <2>2. /\ j.stage = "queued" /\ j.user = u /\ j.file = None
        /\ j.rows = {} /\ j.written = {} /\ task[t].file = None /\ task[t].written = {}
    BY <1>0, <2>1 DEF Task, Steps
  <2>3. Selected(u) \subseteq DOMAIN logs /\ DOMAIN logs \subseteq RowId
    BY <1>0 DEF Selected, TypeOK, RowId
  <2> HIDE DEF j
  <2>4. asked' \in [Tasks -> SUBSET RowId] /\ clock' \in Time
    BY <1>0, <2>1, <2>3 DEF TypeOK
  <2>5. TypeOK' /\ Files' /\ Contents'
    <3>1. \A o \in Tasks \ {t} : asked'[o] = asked[o]
      BY <1>0, <2>1 DEF TypeOK
    <3>2. logs' = logs /\ dir' = dir /\ file' = file /\ removed' = removed
      BY <2>1
    <3> QED BY <2>1, <2>2, <2>4, <3>1, <3>2, OneTask
  <2>6. Steps'
    BY <1>0, <2>1, <2>2 DEF Steps, TypeOK
  <2>7. Queried'
    BY <1>0, <2>1, <2>2, <2>3 DEF Queried, TypeOK, Selected
  <2> QED BY <2>5, <2>6, <2>7 DEF IInv
<1>2. ASSUME NEW t \in Tasks, Begin(t)
      PROVE  IInv'
  <2> DEFINE j == [task[t] EXCEPT !.stage = "begun", !.second = clock]
  <2>1. /\ j \in Task /\ task' = [task EXCEPT ![t] = j]
        /\ UNCHANGED <<logs, dir, file, clock, asked, removed>> /\ task[t].stage = "queued"
    BY <1>0, <1>2 DEF Begin, Task, TypeOK
  <2>2. /\ j.stage = "begun" /\ j.user = task[t].user /\ j.file = None
        /\ j.rows = {} /\ j.written = {} /\ task[t].file = None /\ task[t].written = {}
    BY <1>0, <2>1 DEF Task, Steps
  <2> HIDE DEF j
  <2>3. TypeOK' /\ Files' /\ Contents'
    <3>1. /\ asked' \in [Tasks -> SUBSET RowId] /\ clock' \in Time
          /\ \A o \in Tasks \ {t} : asked'[o] = asked[o]
      BY <1>0, <2>1 DEF TypeOK
    <3>2. logs' = logs /\ dir' = dir /\ file' = file /\ removed' = removed
      BY <2>1
    <3> QED BY <2>1, <2>2, <3>1, <3>2, OneTask
  <2>4. Steps'
    BY <1>0, <2>1, <2>2 DEF Steps, TypeOK
  <2>5. Queried'
    BY <1>0, <2>1, <2>2 DEF Queried, TypeOK, Selected
  <2> QED BY <2>3, <2>4, <2>5 DEF IInv
<1>3. ASSUME NEW t \in Tasks, Open(t)
      PROVE  IInv'
  <2> DEFINE n == FileName(t)
             f == IF dir[n] = None THEN t ELSE dir[n]
  <2>1. /\ dir' = [dir EXCEPT ![n] = f] /\ file' = [file EXCEPT ![f] = {}]
        /\ task' = [task EXCEPT ![t].stage = "open", ![t].file = f]
        /\ UNCHANGED <<logs, clock, asked, removed>> /\ task[t].stage = "begun"
    BY <1>3 DEF Open
  <2>2. /\ task[t].file = None /\ task[t].rows = {} /\ task[t].written = {}
        /\ task[t].user \in Users /\ task[t].second \in Time
    BY <1>0, <2>1 DEF Steps, Task
  <2>3. n \in Name /\ dir[n] \in Tasks \cup {None}
    BY <1>0, <2>2 DEF FileName, Name, TypeOK
  <2>4. /\ f \in Tasks /\ f # None
        /\ f = t \/ (task[f].file = f /\ FileName(f) = n /\ f # t)
    BY <1>0, <2>2, <2>3 DEF Files
  <2>5. f = t => dir[n] = None
    BY <1>0, <2>2, <2>3 DEF Files
  <2>6. /\ dir' = [dir EXCEPT ![n] = f] /\ file' = [file EXCEPT ![f] = {}]
        /\ task' \in [Tasks -> Task]
        /\ task'[t].stage = "open" /\ task'[t].user = task[t].user
        /\ task'[t].second = task[t].second /\ task'[t].file = f
        /\ task'[t].rows = {} /\ task'[t].written = {}
        /\ \A o \in Tasks \ {t} : task'[o] = task[o]
        /\ logs' = logs /\ clock' = clock /\ asked' = asked /\ removed' = removed
    BY <1>0, <2>1, <2>2, <2>4 DEF TypeOK, Task
  <2>7. \A o \in Tasks : FileName(o)' = FileName(o)
    BY <2>6 DEF FileName
  <2>8. n = FileName(t)
    OBVIOUS
  <2> HIDE DEF n, f
  <2>9. TypeOK'
    <3>1. /\ logs' \in Seq(Users \cup {None}) /\ Len(logs') <= MaxRows
          /\ dir' \in [Name -> Tasks \cup {None}] /\ file' \in [Tasks -> SUBSET RowId]
          /\ clock' \in Time /\ asked' \in [Tasks -> SUBSET RowId] /\ removed' \subseteq Tasks
      BY <1>0, <2>3, <2>4, <2>6 DEF TypeOK
    <3>2. \A o \in Tasks : IsOpen(o)' => task'[o].file # None
      BY <1>0, <2>4, <2>6 DEF TypeOK, IsOpen
    <3>3. ASSUME NEW o \in Tasks, NEW m \in Name, task'[o].file # None, dir'[m] = task'[o].file
          PROVE  m = FileName(o)
      <4>1. CASE m = n
        BY <1>0, <2>2, <2>4, <2>6, <2>8, <3>3, <4>1, <2>3 DEF TypeOK, Files
      <4>2. CASE m # n
        BY <1>0, <2>2, <2>3, <2>4, <2>6, <2>7, <3>3, <4>2 DEF TypeOK, Files
      <4> QED BY <4>1, <4>2
    <3> QED BY <2>6, <2>7, <3>1, <3>2, <3>3 DEF TypeOK, FileName
  <2>10. Steps'
    BY <1>0, <2>2, <2>4, <2>6 DEF Steps
  <2>11. Files'
    <3>1. ASSUME NEW o \in Tasks, task'[o].file # None
          PROVE  /\ task'[task'[o].file].file = task'[o].file
                 /\ FileName(task'[o].file) = FileName(o)
      <4>1. CASE o = t
        BY <2>4, <2>6, <2>8, <4>1
      <4>2. CASE o # t
        <5>1. task[o].file # t /\ task[o].file \in Tasks
          BY <1>0, <2>2, <2>6, <3>1, <4>2 DEF Files, Task
        <5> QED BY <1>0, <2>6, <3>1, <4>2, <5>1 DEF Files
      <4> QED BY <4>1, <4>2
    <3>2. ASSUME NEW m \in Name, dir'[m] # None
          PROVE  task'[dir'[m]].file = dir'[m] /\ FileName(dir'[m]) = m
      <4>1. CASE m = n
        BY <1>0, <2>3, <2>4, <2>6, <2>8, <4>1 DEF TypeOK
      <4>2. CASE m # n
        <5>1. dir'[m] = dir[m] /\ dir[m] \in Tasks
          BY <1>0, <2>6, <3>2, <4>2 DEF TypeOK
        <5> QED BY <1>0, <2>2, <2>6, <3>2, <5>1 DEF Files
      <4> QED BY <4>1, <4>2
    <3>3. \A o \in Tasks : task'[o].file \in Tasks \cup {None}
      BY <2>6 DEF Task
    <3>4. dir' \in [Name -> Tasks \cup {None}]
      BY <2>9 DEF TypeOK
    <3> QED BY <2>7, <3>1, <3>2, <3>3, <3>4 DEF Files
  <2>12. Queried'
    BY <1>0, <2>2, <2>6 DEF Queried, Selected
  <2>13. Contents'
    <3>1. ASSUME NEW o \in Tasks, NEW i \in file'[o]
          PROVE  /\ task'[o].file = o /\ i \in DOMAIN logs
                 /\ task'[o].user \notin Admins => logs[i] \in {task'[o].user, None}
      <4>1. o # f /\ i \in file[o]
        BY <1>0, <2>4, <2>6, <3>1 DEF TypeOK
      <4>2. o # t
        BY <1>0, <2>2, <4>1 DEF Contents
      <4> QED BY <1>0, <2>6, <4>1, <4>2 DEF Contents
    <3>2. ASSUME NEW o \in Tasks, Alone(o)', task'[o].file # None
          PROVE  /\ task'[o].written \subseteq file'[o]
                 /\ o \notin removed => dir'[FileName(o)] = o
      <4>1. \A q \in Tasks \ {o} : task'[q].file # None => FileName(q) # FileName(o)
        BY <2>7, <3>2 DEF Alone
      <4>2. CASE o = t
        <5>1. f = t
          BY <2>4, <2>6, <2>8, <4>1, <4>2
        <5> QED BY <1>0, <2>3, <2>6, <2>8, <4>2, <5>1 DEF TypeOK
      <4>3. CASE o # t
        <5>1. FileName(o) # n /\ o # f
          BY <2>4, <2>6, <2>8, <4>1, <4>3
        <5>2. Alone(o) /\ task[o].file # None
          BY <2>2, <2>6, <3>2, <4>1, <4>3 DEF Alone
        <5>3. FileName(o) \in Name
          <6>1. task[o].user \in Users /\ task[o].second \in Time
            BY <1>0, <5>2 DEF Steps, Task
          <6> QED BY <6>1 DEF FileName, Name
        <5>4. dir'[FileName(o)] = dir[FileName(o)] /\ file'[o] = file[o]
          BY <1>0, <2>6, <5>1, <5>3 DEF TypeOK
        <5> QED BY <1>0, <2>6, <4>3, <5>2, <5>4 DEF Contents
      <4> QED BY <4>2, <4>3
    <3> QED BY <2>6, <2>7, <3>1, <3>2 DEF Contents
  <2> QED BY <2>9, <2>10, <2>11, <2>12, <2>13 DEF IInv
<1>4. ASSUME NEW t \in Tasks, Query(t)
      PROVE  IInv'
  <2> DEFINE j == [task[t] EXCEPT !.stage = "writing", !.rows = Selected(task[t].user)]
  <2>1. Selected(task[t].user) \subseteq DOMAIN logs /\ DOMAIN logs \subseteq RowId
    BY <1>0 DEF Selected, TypeOK, RowId
  <2>2. /\ j \in Task /\ task' = [task EXCEPT ![t] = j]
        /\ UNCHANGED <<logs, dir, file, clock, asked, removed>> /\ task[t].stage = "open"
    BY <1>0, <1>4, <2>1 DEF Query, Task, TypeOK
  <2>3. /\ j.stage = "writing" /\ j.user = task[t].user /\ j.file = task[t].file
        /\ j.second = task[t].second /\ j.rows = Selected(task[t].user)
        /\ j.written = {} /\ task[t].file # None /\ task[t].written = {}
        /\ task[t].user # None
    BY <1>0, <2>2 DEF Task, Steps
  <2> HIDE DEF j
  <2>4. TypeOK' /\ Files' /\ Contents'
    <3>1. /\ asked' \in [Tasks -> SUBSET RowId] /\ clock' \in Time
          /\ \A o \in Tasks \ {t} : asked'[o] = asked[o]
      BY <1>0, <2>2 DEF TypeOK
    <3>2. logs' = logs /\ dir' = dir /\ file' = file /\ removed' = removed
      BY <2>2
    <3> QED BY <2>2, <2>3, <3>1, <3>2, OneTask
  <2>5. Steps'
    BY <1>0, <2>2, <2>3 DEF Steps, TypeOK
  <2>6. \A i \in Selected(task[t].user) :
           task[t].user \notin Admins => logs[i] = task[t].user
    BY DEF Selected
  <2>7. Queried'
    BY <1>0, <2>1, <2>2, <2>3, <2>6 DEF Queried, TypeOK, Selected
  <2> QED BY <2>4, <2>5, <2>7 DEF IInv
<1>5. ASSUME NEW t \in Tasks, Write(t)
      PROVE  IInv'
  <2> DEFINE f == task[t].file
  <2>1. PICK chunk \in SUBSET (task[t].rows \ task[t].written) :
          /\ task' = [task EXCEPT ![t].written = @ \cup chunk]
          /\ file' = [file EXCEPT ![f] = @ \cup chunk]
    BY <1>5 DEF Write
  <2>2. /\ task[t].stage = "writing" /\ logs' = logs /\ dir' = dir
        /\ clock' = clock /\ asked' = asked /\ removed' = removed
    BY <1>5 DEF Write
  <2>3. /\ f \in Tasks /\ task[f].file = f /\ FileName(f) = FileName(t)
        /\ task[f].user = task[t].user /\ file[f] \subseteq RowId
        /\ chunk \subseteq RowId
    BY <1>0, <2>2 DEF Steps, Files, FileName, Task, TypeOK
  <2>4. /\ task' \in [Tasks -> Task] /\ file' \in [Tasks -> SUBSET RowId]
        /\ \A o \in Tasks : /\ task'[o].stage = task[o].stage /\ task'[o].user = task[o].user
                             /\ task'[o].second = task[o].second
                             /\ task'[o].file = task[o].file /\ task'[o].rows = task[o].rows
        /\ \A o \in Tasks \ {t} : task'[o].written = task[o].written
        /\ task'[t].written = task[t].written \cup chunk
        /\ file'[f] = file[f] \cup chunk
        /\ \A o \in Tasks \ {f} : file'[o] = file[o]
    BY <1>0, <2>1, <2>3 DEF TypeOK, Task
  <2>5. \A o \in Tasks : FileName(o)' = FileName(o)
    BY <2>4 DEF FileName
  <2> HIDE DEF f
  <2>6. TypeOK'
    <3>1. /\ logs' \in Seq(Users \cup {None}) /\ Len(logs') <= MaxRows
          /\ dir' \in [Name -> Tasks \cup {None}] /\ clock' \in Time
          /\ asked' \in [Tasks -> SUBSET RowId] /\ removed' \subseteq Tasks
      BY <1>0, <2>2 DEF TypeOK
    <3>2. \A o \in Tasks : IsOpen(o)' => task'[o].file # None
      BY <1>0, <2>4 DEF TypeOK, IsOpen
    <3>3. \A o \in Tasks, n \in Name :
             task'[o].file # None /\ dir'[n] = task'[o].file
             => n = <<task'[o].user, task'[o].second>>
      BY <1>0, <2>2, <2>4 DEF TypeOK
    <3> QED BY <2>4, <3>1, <3>2, <3>3 DEF TypeOK
  <2>7. Steps'
    BY <1>0, <2>2, <2>4 DEF Steps
  <2>8. Files'
    BY <1>0, <2>2, <2>4, <2>5 DEF Files, TypeOK, Task
  <2>9. Queried'
    BY <1>0, <2>2, <2>4 DEF Queried, Selected
  <2>10. Contents'
    <3>1. ASSUME NEW o \in Tasks, NEW i \in file'[o]
          PROVE  /\ task[o].file = o /\ i \in DOMAIN logs
                 /\ task[o].user \notin Admins => logs[i] \in {task[o].user, None}
      <4>1. CASE i \in file[o]
        BY <1>0, <4>1 DEF Contents
      <4>2. CASE i \notin file[o]
        <5>1. o = f /\ i \in task[t].rows
          BY <2>4, <3>1, <4>2
        <5> QED BY <1>0, <2>3, <5>1 DEF Queried
      <4> QED BY <4>1, <4>2
    <3>2. ASSUME NEW o \in Tasks, Alone(o)', task[o].file # None
          PROVE  /\ task'[o].written \subseteq file'[o]
                 /\ o \notin removed => dir[FileName(o)] = o
      <4>1. Alone(o)
        BY <2>4, <2>5, <3>2 DEF Alone
      <4>2. /\ task[o].written \subseteq file[o]
            /\ o \notin removed => dir[FileName(o)] = o
        BY <1>0, <3>2, <4>1 DEF Contents
      <4>3. o = t => f = t
        BY <2>3, <4>1 DEF Alone
      <4>4. task'[o].written \subseteq file'[o]
        BY <2>4, <4>2, <4>3
      <4> QED BY <4>2, <4>4
    <3> QED BY <2>2, <2>4, <2>5, <3>1, <3>2 DEF Contents
  <2> QED BY <2>6, <2>7, <2>8, <2>9, <2>10 DEF IInv
<1>6. ASSUME NEW t \in Tasks, Finish(t) \/ Fail(t)
      PROVE  IInv'
  <2>1. PICK stage \in {"done", "failed"} :
          /\ task' = [task EXCEPT ![t] = [task[t] EXCEPT !.stage = stage]]
          /\ UNCHANGED <<logs, dir, file, clock, asked, removed>>
          /\ stage = "done" => task[t].stage = "writing" /\ task[t].written = task[t].rows
          /\ task[t].stage \in {"begun", "open", "writing"}
    BY <1>0, <1>6 DEF Finish, Fail, AllWritten, TypeOK
  <2> DEFINE j == [task[t] EXCEPT !.stage = stage]
  <2>2. /\ j \in Task /\ task' = [task EXCEPT ![t] = j]
        /\ j.stage = stage /\ j.user = task[t].user /\ j.file = task[t].file
        /\ j.second = task[t].second /\ j.rows = task[t].rows
        /\ j.written = task[t].written
    BY <1>0, <2>1 DEF Task
  <2>3. /\ j.file = None => j.written = {}
        /\ task[t].user # None /\ (stage = "done" => task[t].file # None)
    BY <1>0, <2>1, <2>2 DEF Steps
  <2> HIDE DEF j
  <2>4. TypeOK' /\ Files' /\ Contents'
    <3>1. /\ asked' \in [Tasks -> SUBSET RowId] /\ clock' \in Time
          /\ \A o \in Tasks \ {t} : asked'[o] = asked[o]
      BY <1>0, <2>1 DEF TypeOK
    <3>2. logs' = logs /\ dir' = dir /\ file' = file /\ removed' = removed
      BY <2>1
    <3> QED BY <2>1, <2>2, <2>3, <3>1, <3>2, OneTask
  <2>5. Steps'
    BY <1>0, <2>1, <2>2, <2>3 DEF Steps, TypeOK
  <2>6. Queried'
    BY <1>0, <2>1, <2>2 DEF Queried, TypeOK, Selected
  <2> QED BY <2>4, <2>5, <2>6 DEF IInv
<1>7. ASSUME NEW u \in Users, NEW n \in Name, Delete(u, n)
      PROVE  IInv'
  <2>1. /\ dir' = [dir EXCEPT ![n] = None]
        /\ removed' = removed \cup {t \in Tasks : task[t].file = dir[n]}
        /\ UNCHANGED <<logs, file, task, clock, asked>>
    BY <1>7 DEF Delete
  <2>2. TypeOK'
    BY <1>0, <2>1 DEF TypeOK, IsOpen
  <2>3. Steps' /\ Queried'
    BY <1>0, <2>1 DEF Steps, Queried, Selected
  <2>4. Files'
    BY <1>0, <2>1 DEF Files, FileName, TypeOK
  <2>5. \A t \in Tasks : Alone(t)' => Alone(t)
    BY <2>1 DEF Alone, FileName
  <2>6. ASSUME NEW t \in Tasks, Alone(t), task[t].file # None, t \notin removed'
        PROVE  dir'[FileName(t)] = t
    <3>1. dir[FileName(t)] = t
      BY <1>0, <2>1, <2>6 DEF Contents
    <3>2. task[t].file = t
      <4>1. task[t].user \in Users /\ task[t].second \in Time
        BY <1>0, <2>6 DEF Steps, Task
      <4>2. FileName(t) \in Name
        BY <4>1 DEF FileName, Name
      <4> QED BY <1>0, <3>1, <4>2 DEF Files
    <3>3. dir[n] # t
      BY <2>1, <2>6, <3>2
    <3> QED BY <1>0, <2>1, <3>1, <3>3 DEF TypeOK
  <2>7. Contents'
    BY <1>0, <2>1, <2>5, <2>6 DEF Contents, FileName
  <2> QED BY <2>2, <2>3, <2>4, <2>7 DEF IInv
<1>8. ASSUME NEW u \in Users, AddRow(u) \/ DeleteSite(u)
      PROVE  IInv'
  <2>1. UNCHANGED <<dir, file, task, clock, asked, removed>>
    BY <1>8 DEF AddRow, DeleteSite
  <2>2. /\ logs' \in Seq(Users \cup {None}) /\ Len(logs') <= MaxRows
        /\ DOMAIN logs \subseteq DOMAIN logs'
        /\ \A i \in DOMAIN logs : logs'[i] \in {logs[i], None}
    <3>1. CASE AddRow(u)
      BY <1>0, <3>1 DEF AddRow, TypeOK
    <3>2. CASE DeleteSite(u)
      <4>1. PICK S \in SUBSET (DOMAIN logs) :
              logs' = [i \in DOMAIN logs |-> IF i \in S THEN None ELSE logs[i]]
        BY <3>2 DEF DeleteSite
      <4>2. logs \in Seq(Users \cup {None}) /\ Len(logs) <= MaxRows
        BY <1>0 DEF TypeOK
      <4>3. \A i \in 1 .. Len(logs) :
               (IF i \in S THEN None ELSE logs[i]) \in Users \cup {None}
        BY <4>2
      <4>4. logs' = [i \in 1 .. Len(logs) |-> IF i \in S THEN None ELSE logs[i]]
        BY <4>1, <4>2
      <4>5. logs' \in Seq(Users \cup {None}) /\ Len(logs') = Len(logs)
        BY <4>2, <4>3, <4>4
      <4> QED BY <4>1, <4>2, <4>5
    <3> QED BY <1>8, <3>1, <3>2
  <2>3. TypeOK'
    BY <1>0, <2>1, <2>2 DEF TypeOK, IsOpen
  <2>4. Steps' /\ Files'
    BY <1>0, <2>1 DEF Steps, Files, FileName
  <2>5. Queried'
    <3>1. ASSUME NEW t \in Tasks, NEW i \in asked[t] \cap Selected(task[t].user)',
                 task[t].user # None
          PROVE  i \in Selected(task[t].user)
      BY <1>0, <2>1, <2>2, <3>1 DEF Queried, Selected
    <3>2. ASSUME NEW t \in Tasks, task[t].stage \in {"writing", "done"}
          PROVE  asked[t] \cap Selected(task[t].user)' \subseteq task[t].rows
      BY <1>0, <3>1, <3>2 DEF Steps, Queried
    <3>3. ASSUME NEW t \in Tasks, NEW i \in task[t].rows
          PROVE  /\ i \in DOMAIN logs'
                 /\ task[t].user \notin Admins => logs'[i] \in {task[t].user, None}
      BY <1>0, <2>2 DEF Queried
    <3>4. \A t \in Tasks : asked[t] \subseteq DOMAIN logs'
      BY <1>0, <2>2 DEF Queried
    <3> QED BY <2>1, <3>2, <3>3, <3>4 DEF Queried
  <2>6. \A t \in Tasks : Alone(t)' => Alone(t)
    BY <2>1 DEF Alone, FileName
  <2>7. Contents'
    BY <1>0, <2>1, <2>2, <2>6 DEF Contents, FileName
  <2> QED BY <2>3, <2>4, <2>5, <2>7 DEF IInv
<1>9. CASE Tick \/ UNCHANGED vars
  <2>1. UNCHANGED <<logs, dir, file, task, asked, removed>> /\ clock' \in Time
    BY <1>0, <1>9 DEF Tick, vars, TypeOK, Time
  <2> QED BY <1>0, <2>1 DEF IInv, TypeOK, Steps, Files, Queried, Contents, IsOpen, FileName,
          Alone, Selected
<1> QED BY <1>1, <1>2, <1>3, <1>4, <1>5, <1>6, <1>7, <1>8, <1>9 DEF Next, Run

LEMMA Invariance == Spec => []IInv
<1> QED BY Establish, Preserve, PTL DEF Spec

-----------------------------------------------------------------------------

\* The log, the directory of exports, the files and the tasks of
\* export_logs_to_csv keep their types, and a file is known by its writers' name.
THEOREM TypeCorrect == Spec => []TypeOK
<1>1. IInv => TypeOK
  BY DEF IInv
<1> QED BY <1>1, Invariance, PTL

\* The URL that export_logs_to_csv returned leads to a file with every row the
\* user could see when trigger_log_export queued it and still can, unless the
\* file was deleted or another export of the same user and second opened it.
THEOREM ExportKeptHolds == Spec => []ExportKept
<1> QED BY Invariance, Consequences, PTL

\* However many exports run at once and whatever sites are deleted meanwhile,
\* a file of a user who is no superuser holds rows of the sites of that user.
THEOREM ExportPrivateHolds == Spec => []ExportPrivate
<1> QED BY Invariance, Consequences, PTL
=============================================================================
