---------------------------- MODULE RowRegister ----------------------------
(***************************************************************************)
(* What the web console promises of a row that several people edit.  An    *)
(* edit that is answered takes effect once and as a whole, between its     *)
(* asking and its answer, on the row as it is then, and changes only what  *)
(* was asked for.  A request that another one has overtaken, since its     *)
(* client saw the row, takes effect on the row that was seen: what the     *)
(* others have done to it since is lost, a removal included, and nothing   *)
(* more.  Once gone, a row can be brought back by such a request only, and *)
(* none can begin.                                                         *)
(***************************************************************************)
CONSTANTS Clients,    \* requests that may be under way
          Pages,      \* pages that show a row
          Ids,        \* rows
          Keys,       \* values of a column of text
          None,       \* no row yet; nothing asked, or shown
          Gone        \* a removed row; the edit that removes one

VARIABLES row, asked, page

\* A text and a switch stand for the columns.
Row == [key : Keys, on : BOOLEAN]

\* An edit may leave a column as it is.
Edit == [key : Keys \cup {None}, on : {"same", "set", "clear", "flip"}]

Apply(r, e) ==
    [key |-> IF e.key = None THEN r.key ELSE e.key,
     on  |-> \/ e.on = "set"
             \/ e.on = "same" /\ r.on
             \/ e.on = "flip" /\ ~r.on]

\* c is answered, and has overtaken the others on the row.
Answered(c, id) ==
    /\ asked' = [d \in Clients |->
                   IF d = c THEN None
                   ELSE IF asked[d] # None /\ asked[d].id = id
                   THEN [asked[d] EXCEPT !.late = TRUE]
                   ELSE asked[d]]
    /\ page' = [p \in Pages |->
                  IF page[p] # None /\ page[p].id = id
                  THEN [page[p] EXCEPT !.stale = TRUE]
                  ELSE page[p]]

-----------------------------------------------------------------------------

Init ==
    /\ row = [id \in Ids |-> None]
    /\ asked = [c \in Clients |-> None]
    /\ page = [p \in Pages |-> None]

Insert(id) ==
    /\ row[id] = None
    /\ \E r \in Row : row' = [row EXCEPT ![id] = r]
    /\ UNCHANGED <<asked, page>>

Show(p, id) ==
    /\ row[id] \in Row
    /\ page' = [page EXCEPT ![p] = [id |-> id, shown |-> row[id], stale |-> FALSE]]
    /\ UNCHANGED <<row, asked>>

\* At once, on the row as it is, ...
Request(c, id) ==
    /\ asked[c] = None
    /\ row[id] \in Row
    /\ \E e \in Edit \cup {Gone} :
          asked' = [asked EXCEPT ![c] =
                      [id |-> id, edit |-> e, seen |-> row[id], late |-> FALSE]]
    /\ UNCHANGED <<row, page>>

\* ... or from a page, which may be out of date.
Submit(c, p) ==
    /\ asked[c] = None
    /\ page[p] # None
    /\ row[page[p].id] \in Row
    /\ \E e \in Edit :
          asked' = [asked EXCEPT ![c] = [id |-> page[p].id, edit |-> e,
                                         seen |-> page[p].shown, late |-> page[p].stale]]
    /\ page' = [page EXCEPT ![p] = None]
    /\ UNCHANGED row

Perform(c) ==
    /\ asked[c] # None
    /\ LET a == asked[c]
       IN  /\ a.edit = Gone \/ ~a.late
           /\ row' = [row EXCEPT ![a.id] = IF a.edit = Gone THEN Gone ELSE Apply(@, a.edit)]
           /\ Answered(c, a.id)

Overwrite(c) ==
    /\ asked[c] # None
    /\ LET a == asked[c]
       IN  /\ a.edit # Gone /\ a.late
           /\ row' = [row EXCEPT ![a.id] = Apply(a.seen, a.edit)]
           /\ Answered(c, a.id)

Withdraw(c) ==
    /\ asked[c] # None
    /\ asked' = [asked EXCEPT ![c] = None]
    /\ UNCHANGED <<row, page>>

Next ==
    \/ \E id \in Ids : Insert(id)
    \/ \E p \in Pages, id \in Ids : Show(p, id)
    \/ \E c \in Clients : Perform(c) \/ Overwrite(c) \/ Withdraw(c)
    \/ \E c \in Clients, id \in Ids : Request(c, id)
    \/ \E c \in Clients, p \in Pages : Submit(c, p)

Spec == Init /\ [][Next]_<<row, asked, page>>
=============================================================================
