---- MODULE RecordWriter ----
(***************************************************************************)
(* Writing one table, statement by statement: addNewRecord, update and     *)
(* delete as DataProcessingBasic and SOCIDBClient carry them out.  A       *)
(* request is a sequence of statements, each committed on its own; every   *)
(* operation of the client first checks its connection.  Between any two   *)
(* statements another instance of the service may write the same table,    *)
(* the connection may break, the server may stop, the process may die.     *)
(*                                                                         *)
(* A writer is one instance of the service: its transport thread serves    *)
(* one request at a time over one connection.  The table, the server and   *)
(* the connections are outside the program and modelled by what SQL and    *)
(* the client library do.                                                  *)
(***************************************************************************)
EXTENDS Naturals, Sequences, FiniteSets

CONSTANTS
    Writers,
    Columns,         \* the columns records may have, besides idx
    KeyColumn,       \* the column "unique-name" names
    Values,
    Null,            \* the value of a column a row was not given
    NoKey,           \* no "unique-name" and "unique-value"
    Dynamic,         \* the table is one of those that grow new columns
    ManyTables,      \* the database may hold more tables than getTableNames reads
    AddRequests,     \* requests addNewRecord: the key, the records of toWrite
    UpdateRequests,  \* requests update: the key, the changes
    DeleteKeys,      \* requests delete: the key
    MaxRequests,     \* bound: requests begun
    MaxFaults,       \* bound: connections broken, replies lost, processes died
    Outages          \* whether the server may stop

Cells   == UNION {[S -> Values] : S \in SUBSET Columns}
Keys    == Values \cup {NoKey}
Records == [key : Keys, cells : Cells]
Rows    == [idx : Nat, by : Writers, val : [Columns -> Values \cup {Null}]]

ASSUME ValuesAssumption == Null \notin Values /\ NoKey \notin Values
ASSUME ColumnsAssumption == KeyColumn \in Columns /\ IsFiniteSet(Columns)
ASSUME RequestsAssumption ==
    /\ AddRequests \subseteq [key : Keys, items : Seq(Records)]
    /\ UpdateRequests \subseteq [key : Values, cells : Cells]
    /\ DeleteKeys \subseteq Values
ASSUME BoundsAssumption ==
    MaxRequests \in Nat /\ MaxFaults \in Nat /\ {Dynamic, ManyTables, Outages} \subseteq BOOLEAN

VARIABLES
    \* the database
    created,    \* the table exists
    columns,    \* its columns, besides idx
    rows,       \* its rows, each with the writer whose INSERT made it
    nextIdx,    \* the identity column
    serverUp,
    connected,  \* writer -> its connection is sound
    \* a writer's transport thread
    pc,
    checked,    \* writer -> checkConnectToDB has passed for this operation
    queue,      \* writer -> records of toWrite not begun
    rec,        \* writer -> the record in hand, with the key in force
    todo,       \* writer -> columns still to add or to set
    statusOK,   \* writer -> what the answer will be
    \* bounds and history
    requests, faults,
    refused     \* records refused

database == <<created, columns, rows, nextIdx>>
link     == <<serverUp, connected>>
request  == <<queue, rec, todo, statusOK>>
counts   == <<requests, faults, refused>>
vars     == <<database, link, pc, checked, request, counts>>

\* Where an operation of SOCIDBClient begins: with checkConnectToDB.
OperationStarts == {"names", "columns", "alter", "key", "set_key", "delete_key"}
Points == OperationStarts \cup
          {"idle", "create", "insert", "overwrite", "set", "delete", "answered"}

NoRecord == [key |-> NoKey, cells |-> [c \in {} |-> Null]]

TypeOK ==
    /\ created \in BOOLEAN
    /\ columns \subseteq Columns
    /\ rows \subseteq Rows
    /\ nextIdx \in Nat
    /\ serverUp \in BOOLEAN
    /\ connected \in [Writers -> BOOLEAN]
    /\ pc \in [Writers -> Points]
    /\ checked \in [Writers -> BOOLEAN]
    /\ queue \in [Writers -> Seq(Records)]
    /\ rec \in [Writers -> Records]
    /\ todo \in [Writers -> SUBSET Columns]
    /\ statusOK \in [Writers -> BOOLEAN]
    /\ requests \in 0..MaxRequests
    /\ faults \in 0..MaxFaults
    /\ refused \in Nat

\* No request yet: the table does not exist.
Init ==
    /\ created = FALSE
    /\ columns = {}
    /\ rows = {}
    /\ nextIdx = 1
    /\ serverUp = TRUE
    /\ connected = [w \in Writers |-> TRUE]
    /\ pc = [w \in Writers |-> "idle"]
    /\ checked = [w \in Writers |-> FALSE]
    /\ queue = [w \in Writers |-> <<>>]
    /\ rec = [w \in Writers |-> NoRecord]
    /\ todo = [w \in Writers |-> {}]
    /\ statusOK = [w \in Writers |-> FALSE]
    /\ requests = 0
    /\ faults = 0
    /\ refused = 0

----
\* The connection and the statements it carries.

\* A statement is executed and answered ("done"), executed while the connection
\* breaks before the answer ("lost"), or finds the connection broken ("dead").
Fates(w) ==
    IF ~connected[w] THEN {"dead"}
    ELSE {"done"} \cup (IF faults < MaxFaults THEN {"lost"} ELSE {})

Statement(w, fate) ==
    /\ fate \in Fates(w)
    /\ connected' = [connected EXCEPT ![w] = (fate = "done")]
    /\ faults' = IF fate = "lost" THEN faults + 1 ELSE faults
    /\ UNCHANGED <<serverUp, requests>>

Executed(fate) == fate # "dead"

Matching(key) == {r \in rows : r.val[KeyColumn] = key}

\* INSERT and UPDATE name every column of the record, and at least one.
Writable(cells) == created /\ DOMAIN cells # {} /\ DOMAIN cells \subseteq columns

\* Mutant of Given: a column the statement does not name is gone from the row.
GivenOnly(val, cells) == cells

Given(val, cells) == [c \in Columns |-> IF c \in DOMAIN cells THEN cells[c] ELSE val[c]]

InsertRows(w, cells) ==
    /\ rows' = rows \cup
         {[idx |-> nextIdx, by |-> w, val |-> Given([c \in Columns |-> Null], cells)]}
    /\ nextIdx' = nextIdx + 1
    /\ UNCHANGED <<created, columns>>

UpdateRows(key, cells) ==
    /\ rows' = (rows \ Matching(key)) \cup
         {[r EXCEPT !.val = Given(r.val, cells)] : r \in Matching(key)}
    /\ UNCHANGED <<created, columns, nextIdx>>

DeleteRows(key) ==
    /\ rows' = rows \ Matching(key)
    /\ UNCHANGED <<created, columns, nextIdx>>

----
\* The course of a request.

Goto(w, point) ==
    /\ pc' = [pc EXCEPT ![w] = point]
    /\ checked' = [checked EXCEPT ![w] = FALSE]

\* The next record of toWrite, under its own key or the one still in force:
\* extractValueFromObject overwrites the key only with one the record has.
TakeRecord(w, items, key) ==
    /\ rec' = [rec EXCEPT ![w] =
         [key   |-> IF Head(items).key # NoKey THEN Head(items).key ELSE key,
          cells |-> Head(items).cells]]
    /\ queue' = [queue EXCEPT ![w] = Tail(items)]
    /\ Goto(w, "names")

\* putValueInTable returns.  What it returned for the last record is the answer.
EndRecord(w, ok) ==
    /\ statusOK' = [statusOK EXCEPT ![w] = ok]
    /\ refused' = IF ok THEN refused ELSE refused + 1
    /\ todo' = [todo EXCEPT ![w] = {}]
    /\ IF queue[w] = <<>>
       THEN Goto(w, "answered") /\ UNCHANGED <<rec, queue>>
       ELSE TakeRecord(w, queue[w], rec[w].key)

\* update and delete end; for update it is the status of the last column.
EndRequest(w, ok) ==
    /\ statusOK' = [statusOK EXCEPT ![w] = ok]
    /\ Goto(w, "answered")
    /\ UNCHANGED <<rec, queue, refused>>

BeginAdd(w, r) ==
    /\ pc[w] = "idle"
    /\ requests < MaxRequests
    /\ requests' = requests + 1
    /\ IF r.items = <<>>
       THEN Goto(w, "answered") /\ UNCHANGED <<rec, queue>>
       ELSE TakeRecord(w, r.items, r.key)
    /\ UNCHANGED <<database, link, todo, statusOK, faults, refused>>

BeginUpdate(w, r) ==
    /\ pc[w] = "idle"
    /\ requests < MaxRequests
    /\ requests' = requests + 1
    /\ rec' = [rec EXCEPT ![w] = r]
    /\ todo' = [todo EXCEPT ![w] = DOMAIN r.cells]
    /\ Goto(w, IF DOMAIN r.cells = {} THEN "answered" ELSE "set_key")
    /\ UNCHANGED <<database, link, queue, statusOK, faults, refused>>

BeginDelete(w, key) ==
    /\ pc[w] = "idle"
    /\ requests < MaxRequests
    /\ requests' = requests + 1
    /\ rec' = [rec EXCEPT ![w].key = key]
    /\ Goto(w, "delete_key")
    /\ UNCHANGED <<database, link, queue, todo, statusOK, faults, refused>>

Idle(w) ==
    /\ queue' = [queue EXCEPT ![w] = <<>>]
    /\ rec' = [rec EXCEPT ![w] = NoRecord]
    /\ todo' = [todo EXCEPT ![w] = {}]
    /\ statusOK' = [statusOK EXCEPT ![w] = FALSE]
    /\ Goto(w, "idle")

Return(w) ==
    /\ pc[w] = "answered"
    /\ Idle(w)
    /\ UNCHANGED <<database, link, counts>>

----
\* checkConnectToDB: ping, and when that fails close and open again.

\* Mutant of CheckConnect: an open session is taken for a sound one.
CheckConnectUnpinged(w) ==
    /\ pc[w] \in OperationStarts /\ ~checked[w]
    /\ connected[w] \/ serverUp
    /\ checked' = [checked EXCEPT ![w] = TRUE]
    /\ UNCHANGED <<database, link, pc, request, counts>>

CheckConnect(w) ==
    /\ pc[w] \in OperationStarts /\ ~checked[w]
    /\ connected[w] \/ serverUp
    /\ connected' = [connected EXCEPT ![w] = TRUE]
    /\ checked' = [checked EXCEPT ![w] = TRUE]
    /\ UNCHANGED <<database, serverUp, pc, request, counts>>

\* The operation returns ErrConnectDB.  The loop over columns goes on; the last
\* status of it decides.
Unconnected(w) ==
    /\ pc[w] \in OperationStarts /\ ~checked[w]
    /\ ~connected[w] /\ ~serverUp
    /\ \/ pc[w] \in {"names", "columns", "key"} /\ EndRecord(w, FALSE)
       \/ pc[w] = "delete_key" /\ EndRequest(w, FALSE) /\ UNCHANGED todo
       \/ \E c \in todo[w] :
            \/ /\ pc[w] \in {"alter", "set_key"} /\ todo[w] # {c}
               /\ todo' = [todo EXCEPT ![w] = @ \ {c}]
               /\ UNCHANGED <<pc, checked, queue, rec, statusOK, refused>>
            \/ pc[w] = "alter" /\ todo[w] = {c} /\ EndRecord(w, FALSE)
            \/ /\ pc[w] = "set_key" /\ todo[w] = {c}
               /\ todo' = [todo EXCEPT ![w] = {}]
               /\ EndRequest(w, FALSE)
    /\ UNCHANGED <<database, link, requests, faults>>

----
\* putValueInTable.

\* getTableNames: an error leaves the 3000 names it returns empty, and a table
\* beyond the first 3000 is not seen.
ReadNames(w, fate, found) ==
    /\ pc[w] = "names" /\ checked[w]
    /\ Statement(w, fate)
    /\ IF found THEN created /\ fate = "done"
       ELSE ~created \/ fate # "done" \/ ManyTables
    /\ Goto(w, IF ~found THEN "create" ELSE IF Dynamic THEN "columns" ELSE "key")
    /\ UNCHANGED <<database, request, refused>>

\* Whether CREATE succeeds or not, insertRow is tried.
CreateTable(w, fate) ==
    /\ pc[w] = "create"
    /\ Statement(w, fate)
    /\ IF Executed(fate) /\ ~created
       THEN created' = TRUE /\ columns' = DOMAIN rec[w].cells
       ELSE UNCHANGED <<created, columns>>
    /\ Goto(w, "key")
    /\ UNCHANGED <<rows, nextIdx, request, refused>>

ListExistColumns(w, fate) ==
    /\ pc[w] = "columns" /\ checked[w]
    /\ Statement(w, fate)
    /\ LET missing == IF fate = "done" THEN DOMAIN rec[w].cells \ columns ELSE {}
       IN  /\ todo' = [todo EXCEPT ![w] = missing]
           /\ Goto(w, IF missing = {} THEN "key" ELSE "alter")
    /\ UNCHANGED <<database, queue, rec, statusOK, refused>>

AddNewColumn(w, fate, c) ==
    /\ pc[w] = "alter" /\ checked[w]
    /\ c \in todo[w]
    /\ Statement(w, fate)
    /\ columns' = IF Executed(fate) THEN columns \cup {c} ELSE columns
    /\ todo' = [todo EXCEPT ![w] = @ \ {c}]
    /\ Goto(w, IF todo[w] = {c} THEN "key" ELSE "alter")
    /\ UNCHANGED <<created, rows, nextIdx, queue, rec, statusOK, refused>>

\* Mutant of SelectKey: the SELECT is executed without fetching, so it finds nothing.
SelectKeyUnfetched(w, fate) ==
    /\ pc[w] = "key" /\ checked[w]
    /\ rec[w].key # NoKey
    /\ Statement(w, fate)
    /\ IF fate = "done" /\ KeyColumn \in columns
       THEN Goto(w, "insert") /\ UNCHANGED <<request, refused>>
       ELSE EndRecord(w, FALSE)
    /\ UNCHANGED database

\* insertRow, SELECT 1: which of INSERT and UPDATE is next is settled here.
SelectKey(w, fate) ==
    /\ pc[w] = "key" /\ checked[w]
    /\ rec[w].key # NoKey
    /\ Statement(w, fate)
    /\ IF fate = "done" /\ KeyColumn \in columns
       THEN /\ Goto(w, IF Matching(rec[w].key) = {} THEN "insert" ELSE "overwrite")
            /\ UNCHANGED <<request, refused>>
       ELSE EndRecord(w, FALSE)
    /\ UNCHANGED database

Insert(w, fate) ==
    /\ \/ pc[w] = "insert"
       \/ pc[w] = "key" /\ checked[w] /\ rec[w].key = NoKey
    /\ Statement(w, fate)
    /\ IF Executed(fate) /\ Writable(rec[w].cells)
       THEN InsertRows(w, rec[w].cells)
       ELSE UNCHANGED database
    /\ EndRecord(w, fate = "done" /\ Writable(rec[w].cells))

\* Mutant of Overwrite: whether the UPDATE failed is not looked at.
OverwriteUnchecked(w, fate) ==
    /\ pc[w] = "overwrite"
    /\ Statement(w, fate)
    /\ IF Executed(fate) /\ Writable(rec[w].cells)
       THEN UpdateRows(rec[w].key, rec[w].cells)
       ELSE UNCHANGED database
    /\ EndRecord(w, TRUE)

Overwrite(w, fate) ==
    /\ pc[w] = "overwrite"
    /\ Statement(w, fate)
    /\ IF Executed(fate) /\ Writable(rec[w].cells)
       THEN UpdateRows(rec[w].key, rec[w].cells)
       ELSE UNCHANGED database
    /\ EndRecord(w, fate = "done" /\ Writable(rec[w].cells))

----
\* updateColumn for each change, and deleteRow.

\* Mutant of EndColumn: the loop is left after its first column.
EndColumnReturns(w, c, ok) ==
    /\ todo' = [todo EXCEPT ![w] = {}]
    /\ EndRequest(w, ok)

\* Mutant of EndColumn: a column that failed is tried again.
EndColumnRetries(w, c, ok) ==
    /\ todo' = [todo EXCEPT ![w] = IF ok THEN @ \ {c} ELSE @]
    /\ IF todo[w] = {c} /\ ok THEN EndRequest(w, ok)
       ELSE Goto(w, "set_key") /\ UNCHANGED <<queue, rec, statusOK, refused>>

\* The status of the column c; the loop over the columns goes on in any case.
EndColumn(w, c, ok) ==
    /\ todo' = [todo EXCEPT ![w] = @ \ {c}]
    /\ IF todo[w] = {c} THEN EndRequest(w, ok)
       ELSE Goto(w, "set_key") /\ UNCHANGED <<queue, rec, statusOK, refused>>

SelectForUpdate(w, fate) ==
    /\ pc[w] = "set_key" /\ checked[w]
    /\ Statement(w, fate)
    /\ IF fate = "done" /\ KeyColumn \in columns /\ Matching(rec[w].key) # {}
       THEN Goto(w, "set") /\ UNCHANGED <<request, refused>>
       ELSE \E c \in todo[w] : EndColumn(w, c, FALSE)
    /\ UNCHANGED database

UpdateColumn(w, fate, c) ==
    /\ pc[w] = "set"
    /\ c \in todo[w]
    /\ Statement(w, fate)
    /\ IF Executed(fate) /\ c \in columns
       THEN UpdateRows(rec[w].key, [x \in {c} |-> rec[w].cells[c]])
       ELSE UNCHANGED database
    /\ EndColumn(w, c, fate = "done" /\ c \in columns)

SelectForDelete(w, fate) ==
    /\ pc[w] = "delete_key" /\ checked[w]
    /\ Statement(w, fate)
    /\ IF fate = "done" /\ KeyColumn \in columns /\ Matching(rec[w].key) # {}
       THEN Goto(w, "delete") /\ UNCHANGED <<request, refused>>
       ELSE EndRequest(w, FALSE) /\ UNCHANGED todo
    /\ UNCHANGED database

\* Mutant of DeleteRow: whether the DELETE failed is not looked at.
DeleteRowUnchecked(w, fate) ==
    /\ pc[w] = "delete"
    /\ Statement(w, fate)
    /\ IF Executed(fate) THEN DeleteRows(rec[w].key) ELSE UNCHANGED database
    /\ EndRequest(w, TRUE)
    /\ UNCHANGED todo

DeleteRow(w, fate) ==
    /\ pc[w] = "delete"
    /\ Statement(w, fate)
    /\ IF Executed(fate) THEN DeleteRows(rec[w].key) ELSE UNCHANGED database
    /\ EndRequest(w, fate = "done")
    /\ UNCHANGED todo

----
\* What befalls the service from outside.

ConnectionBreaks(w) ==
    /\ connected[w]
    /\ faults < MaxFaults
    /\ faults' = faults + 1
    /\ connected' = [connected EXCEPT ![w] = FALSE]
    /\ UNCHANGED <<database, serverUp, pc, checked, request, requests, refused>>

ServerStops ==
    /\ Outages /\ serverUp
    /\ faults < MaxFaults
    /\ faults' = faults + 1
    /\ serverUp' = FALSE
    /\ connected' = [w \in Writers |-> FALSE]
    /\ UNCHANGED <<database, pc, checked, request, requests, refused>>

ServerStarts ==
    /\ ~serverUp
    /\ serverUp' = TRUE
    /\ UNCHANGED <<database, connected, pc, checked, request, counts>>

\* The process dies and is started again: the request is gone, the table stays.
\* What connect returns at the start is not looked at.
Restart(w) ==
    /\ pc[w] # "idle"
    /\ faults < MaxFaults
    /\ faults' = faults + 1
    /\ Idle(w)
    /\ connected' = [connected EXCEPT ![w] = serverUp]
    /\ UNCHANGED <<database, serverUp, requests, refused>>

Step(w) ==
    \/ \E r \in AddRequests : BeginAdd(w, r)
    \/ \E r \in UpdateRequests : BeginUpdate(w, r)
    \/ \E k \in DeleteKeys : BeginDelete(w, k)
    \/ Return(w) \/ CheckConnect(w) \/ Unconnected(w)
    \/ \E fate \in {"done", "lost", "dead"} :
         \/ \E found \in BOOLEAN : ReadNames(w, fate, found)
         \/ CreateTable(w, fate) \/ ListExistColumns(w, fate)
         \/ \E c \in Columns : AddNewColumn(w, fate, c) \/ UpdateColumn(w, fate, c)
         \/ SelectKey(w, fate) \/ Insert(w, fate) \/ Overwrite(w, fate)
         \/ SelectForUpdate(w, fate) \/ SelectForDelete(w, fate) \/ DeleteRow(w, fate)
    \/ ConnectionBreaks(w) \/ Restart(w)

Next == (\E w \in Writers : Step(w)) \/ ServerStops \/ ServerStarts

Spec == Init /\ [][Next]_vars

----
\* Properties.

\* Requests as clients of a keyed table send them: every record has its key, carries
\* it in its key column too, and no update changes that column.
KeyedRequests ==
    /\ \A r \in AddRequests : \A i \in DOMAIN r.items :
         LET item == r.items[i]
         IN  /\ item.key # NoKey
             /\ KeyColumn \in DOMAIN item.cells
             /\ item.cells[KeyColumn] = item.key
    /\ \A r \in UpdateRequests : KeyColumn \notin DOMAIN r.cells

\* insertRow chooses between INSERT and UPDATE by a SELECT, and no constraint of
\* the table backs it.  However statements interleave, connections break and
\* processes restart, a writer never gives a key a second row: a key has at most as
\* many rows as there are writers, and with one writer it is unique.
AtMostOneRowPerWriter ==
    \A r1, r2 \in rows :
        r1.by = r2.by /\ r1.val[KeyColumn] = r2.val[KeyColumn] => r1 = r2

\* addNewRecord answers true: the last record of the request is in the table, all
\* its cells in one row, whatever the earlier records and earlier failures left.
AcknowledgedIsThere ==
    \A w \in Writers :
        pc[w] = "answered" /\ statusOK[w] /\ DOMAIN rec[w].cells # {}
          => \E r \in rows : r.val = Given(r.val, rec[w].cells)

\* Every operation checks the connection and opens it again, so a broken connection
\* or a lost answer costs at most one record, also when it hits the creation of
\* the table or of a column; the later records of the same request go through.
LinkLossCostsOneRecord == refused <= faults

\* update writes its columns one statement at a time and answers with the status of
\* the last.  While the server stays up, an answer true leaves at most one column
\* unset for each broken connection or lost answer, columns the table lacks aside.
UpdateLosesOneColumnPerFault ==
    \A w \in Writers :
        pc[w] = "answered" /\ statusOK[w] /\ rec[w] \in UpdateRequests
          /\ DOMAIN rec[w].cells # {}
          => \E r \in Matching(rec[w].key) :
               Cardinality({c \in DOMAIN rec[w].cells \cap columns :
                              r.val[c] # rec[w].cells[c]}) <= faults

\* A bound on the statements that the record, update or deletion in hand still takes.
StatementsLeft(w) ==
    LET undone == Cardinality(todo[w])
    IN  CASE pc[w] = "names"      -> Cardinality(Columns) + 4
          [] pc[w] = "columns"    -> Cardinality(Columns) + 3
          [] pc[w] = "create"     -> 3
          [] pc[w] = "alter"      -> undone + 2
          [] pc[w] \in {"key", "delete_key"} -> 2
          [] pc[w] \in {"insert", "overwrite", "delete"} -> 1
          [] pc[w] = "set_key"    -> 2 * undone + 1
          [] pc[w] = "set"        -> 2 * undone
          [] pc[w] \in {"idle", "answered"} -> 0

\* Before a statement that begins an operation, the connection is checked.
StepsLeft(w) == 2 * StatementsLeft(w) + (IF checked[w] THEN 0 ELSE 1)

\* No request retries or waits: whatever fails, every step of a thread at work begins
\* a later record or brings the one in hand nearer its end.  So a request comes to its
\* answer after a bounded number of statements, with connections that break, lost
\* answers and servers that stop; only the death of the process cuts it short.
RequestsAdvance ==
    [][\A w \in Writers :
         pc[w] \notin {"idle", "answered"} /\ pc'[w] # "idle" =>
           \/ UNCHANGED <<pc[w], checked[w], queue[w], rec[w], todo[w]>>
           \/ Len(queue'[w]) < Len(queue[w])
           \/ queue'[w] = queue[w] /\ StepsLeft(w)' < StepsLeft(w)]_vars

\* A table that grows columns takes a record with any columns: while nothing
\* breaks, none is refused.
GrowingTableTakesEveryRecord == Dynamic /\ faults = 0 => refused = 0
====
