---- MODULE RecordWriter_proofs ----
(***************************************************************************)
(* For every set of writers, columns, values and requests and every bound: *)
(* type correctness, one row per writer and key, the shared store that     *)
(* several writers make, and that every request comes to its end.          *)
(***************************************************************************)
EXTENDS SharedRecords, FiniteSetTheorems, TLAPS

Vals == [Columns -> Values \cup {Null}]

\* update sets columns its request gives: what updateColumn writes is a value.
SetsGivenColumns ==
    \A w \in Writers : pc[w] \in {"set_key", "set"} => todo[w] \subseteq DOMAIN rec[w].cells

TypeInv == TypeOK /\ SetsGivenColumns

\* A record brings its key in its key column.
CarriesKey(item) ==
    /\ item.key # NoKey
    /\ KeyColumn \in DOMAIN item.cells
    /\ item.cells[KeyColumn] = item.key

AddPoints == {"names", "create", "columns", "alter", "key", "insert", "overwrite"}

\* So do the record in hand and those not begun.  No update touches the column.
ThreadKeyed(w) ==
    /\ \A i \in DOMAIN queue[w] : CarriesKey(queue[w][i])
    /\ pc[w] \in AddPoints => CarriesKey(rec[w])
    /\ pc[w] \in {"set_key", "set"} => KeyColumn \notin DOMAIN rec[w].cells

\* The writer about to INSERT has no row with the key: other writers make none in
\* its name.
NoRowYet(w) ==
    pc[w] = "insert" => \A r \in rows : r.by = w => r.val[KeyColumn] # rec[w].key

KeyInv ==
    /\ AtMostOneRowPerWriter
    /\ \A w \in Writers : ThreadKeyed(w) /\ NoRowYet(w)

----
\* Type correctness: the operators actions are made of.

\* Columns not given keep their values.
LEMMA GivenType ==
    ASSUME NEW val \in Vals, NEW cells \in Cells
    PROVE  Given(val, cells) \in Vals
BY DEF Given, Vals, Cells

LEMMA NoRecordType == NoRecord \in Records
<1>1. [c \in {} |-> Null] \in [{} -> Values]
  OBVIOUS
<1>2. [c \in {} |-> Null] \in Cells
  BY <1>1 DEF Cells
<1> QED BY <1>2 DEF NoRecord, Records, Keys

LEMMA StatementType ==
    ASSUME TypeOK, NEW w \in Writers, NEW fate, Statement(w, fate)
    PROVE  /\ connected' \in [Writers -> BOOLEAN]
           /\ faults' \in 0..MaxFaults
           /\ serverUp' = serverUp /\ requests' = requests
BY BoundsAssumption DEF TypeOK, Statement, Fates

LEMMA GotoType ==
    ASSUME TypeOK, NEW w \in Writers, NEW point \in Points, Goto(w, point)
    PROVE  pc' \in [Writers -> Points] /\ checked' \in [Writers -> BOOLEAN]
BY DEF TypeOK, Goto

\* The parts of the type invariant that are a writer's request.
RequestType ==
    /\ pc \in [Writers -> Points]
    /\ checked \in [Writers -> BOOLEAN]
    /\ queue \in [Writers -> Seq(Records)]
    /\ rec \in [Writers -> Records]
    /\ todo \in [Writers -> SUBSET Columns]
    /\ statusOK \in [Writers -> BOOLEAN]
    /\ refused \in Nat

DatabaseType ==
    /\ created \in BOOLEAN
    /\ columns \subseteq Columns
    /\ rows \subseteq Rows
    /\ nextIdx \in Nat

LinkType ==
    /\ serverUp \in BOOLEAN
    /\ connected \in [Writers -> BOOLEAN]
    /\ requests \in 0..MaxRequests
    /\ faults \in 0..MaxFaults

LEMMA TakeRecordType ==
    ASSUME TypeOK, NEW w \in Writers, NEW items \in Seq(Records), items # <<>>,
           NEW key \in Keys, TakeRecord(w, items, key)
    PROVE  /\ pc' \in [Writers -> Points] /\ checked' \in [Writers -> BOOLEAN]
           /\ queue' \in [Writers -> Seq(Records)] /\ rec' \in [Writers -> Records]
<1>1. Head(items) \in Records /\ Tail(items) \in Seq(Records)
  OBVIOUS
<1>2. "names" \in Points
  BY DEF Points, OperationStarts
<1>3. pc' \in [Writers -> Points] /\ checked' \in [Writers -> BOOLEAN]
  BY <1>2, GotoType DEF TakeRecord
<1>4. [key |-> IF Head(items).key # NoKey THEN Head(items).key ELSE key,
       cells |-> Head(items).cells] \in Records
  BY <1>1 DEF Records
<1> QED BY <1>1, <1>3, <1>4 DEF TakeRecord, TypeOK

LEMMA EndRecordType ==
    ASSUME TypeOK, NEW w \in Writers, NEW ok \in BOOLEAN, EndRecord(w, ok)
    PROVE  RequestType'
<1>1. statusOK' \in [Writers -> BOOLEAN] /\ refused' \in Nat
        /\ todo' \in [Writers -> SUBSET Columns]
  BY DEF EndRecord, TypeOK
<1>2. CASE queue[w] = <<>>
  <2>1. "answered" \in Points
    BY DEF Points
  <2> QED BY <1>1, <1>2, <2>1, GotoType DEF EndRecord, TypeOK, RequestType
<1>3. CASE queue[w] # <<>>
  <2>1. queue[w] \in Seq(Records) /\ rec[w].key \in Keys
    BY DEF TypeOK, Records
  <2> QED BY <1>1, <1>3, <2>1, TakeRecordType DEF EndRecord, RequestType
<1> QED BY <1>2, <1>3

LEMMA EndRequestType ==
    ASSUME TypeOK, NEW w \in Writers, NEW ok \in BOOLEAN, EndRequest(w, ok),
           todo' \in [Writers -> SUBSET Columns]
    PROVE  RequestType'
<1>1. "answered" \in Points
  BY DEF Points
<1> QED BY <1>1, GotoType DEF EndRequest, TypeOK, RequestType

LEMMA IdleType ==
    ASSUME TypeOK, NEW w \in Writers, Idle(w), refused' = refused
    PROVE  RequestType'
<1>1. "idle" \in Points
  BY DEF Points
<1> QED BY <1>1, GotoType, NoRecordType DEF Idle, TypeOK, RequestType

LEMMA InsertRowsType ==
    ASSUME TypeOK, NEW w \in Writers, NEW cells \in Cells, InsertRows(w, cells)
    PROVE  DatabaseType'
<1>1. [c \in Columns |-> Null] \in Vals
  BY DEF Vals
<1>2. Given([c \in Columns |-> Null], cells) \in Vals
  BY <1>1, GivenType
<1> QED BY <1>2 DEF InsertRows, TypeOK, DatabaseType, Rows, Vals

LEMMA UpdateRowsType ==
    ASSUME TypeOK, NEW key, NEW cells \in Cells, UpdateRows(key, cells)
    PROVE  DatabaseType'
<1>1. ASSUME NEW r \in Matching(key)
      PROVE  [r EXCEPT !.val = Given(r.val, cells)] \in Rows
  <2>1. r \in Rows
    BY DEF Matching, TypeOK
  <2>2. Given(r.val, cells) \in Vals
    BY <2>1, GivenType DEF Rows, Vals
  <2> QED BY <2>1, <2>2 DEF Rows, Vals
<1> QED BY <1>1 DEF UpdateRows, TypeOK, DatabaseType

LEMMA DeleteRowsType ==
    ASSUME TypeOK, NEW key, DeleteRows(key)
    PROVE  DatabaseType'
BY DEF DeleteRows, TypeOK, DatabaseType

----
\* Type correctness: the actions.

\* A statement that ends the record in hand, or goes on with it.
LEMMA TypeBegin ==
    ASSUME TypeInv, NEW w \in Writers,
           \/ \E r \in AddRequests : BeginAdd(w, r)
           \/ \E r \in UpdateRequests : BeginUpdate(w, r)
           \/ \E k \in DeleteKeys : BeginDelete(w, k)
    PROVE  TypeOK'
<1> USE DEF TypeInv
<1>0. /\ "answered" \in Points /\ "set_key" \in Points /\ "delete_key" \in Points
  BY DEF Points, OperationStarts
<1>1. CASE \E r \in AddRequests : BeginAdd(w, r)
  <2>1. PICK r \in AddRequests : BeginAdd(w, r)
    BY <1>1
  <2>2. r.items \in Seq(Records) /\ r.key \in Keys
    BY RequestsAssumption
  <2>3. /\ pc' \in [Writers -> Points] /\ checked' \in [Writers -> BOOLEAN]
        /\ queue' \in [Writers -> Seq(Records)] /\ rec' \in [Writers -> Records]
    <3>1. CASE r.items = <<>>
      BY <2>1, <3>1, <1>0, GotoType DEF BeginAdd, TypeOK
    <3>2. CASE r.items # <<>>
      BY <2>1, <2>2, <3>2, TakeRecordType DEF BeginAdd
    <3> QED BY <3>1, <3>2
  <2> QED BY <2>1, <2>3, BoundsAssumption DEF BeginAdd, TypeOK, database, link
<1>2. CASE \E r \in UpdateRequests : BeginUpdate(w, r)
  <2>1. PICK r \in UpdateRequests : BeginUpdate(w, r)
    BY <1>2
  <2>2. r \in Records /\ DOMAIN r.cells \subseteq Columns
    BY RequestsAssumption DEF Records, Keys, Cells
  <2>3. pc' \in [Writers -> Points] /\ checked' \in [Writers -> BOOLEAN]
    BY <2>1, <1>0, GotoType DEF BeginUpdate
  <2>4. requests' \in 0..MaxRequests
    BY <2>1, BoundsAssumption DEF BeginUpdate, TypeOK
  <2>5. rec' \in [Writers -> Records]
    BY <2>1, <2>2 DEF BeginUpdate, TypeOK
  <2>6. todo' \in [Writers -> SUBSET Columns]
    BY <2>1, <2>2 DEF BeginUpdate, TypeOK
  <2> QED BY <2>1, <2>3, <2>4, <2>5, <2>6 DEF BeginUpdate, TypeOK, database, link
<1>3. CASE \E k \in DeleteKeys : BeginDelete(w, k)
  <2>1. PICK k \in DeleteKeys : BeginDelete(w, k)
    BY <1>3
  <2>2. k \in Keys
    BY RequestsAssumption DEF Keys
  <2>3. pc' \in [Writers -> Points] /\ checked' \in [Writers -> BOOLEAN]
    BY <2>1, <1>0, GotoType DEF BeginDelete
  <2>4. rec' \in [Writers -> Records]
    <3>1. ASSUME NEW r \in Records PROVE [r EXCEPT !.key = k] \in Records
      BY <2>2 DEF Records
    <3>2. rec[w] \in Records
      BY DEF TypeOK
    <3>3. [rec[w] EXCEPT !.key = k] \in Records
      BY <3>1, <3>2
    <3> QED BY <2>1, <3>3 DEF BeginDelete, TypeOK
  <2> QED BY <2>1, <2>3, <2>4, BoundsAssumption DEF BeginDelete, TypeOK, database, link
<1> QED BY <1>1, <1>2, <1>3

LEMMA TypeConnection ==
    ASSUME TypeInv, NEW w \in Writers, Return(w) \/ CheckConnect(w) \/ Unconnected(w)
    PROVE  TypeOK'
<1> USE DEF TypeInv
<1>1. CASE Return(w)
  BY <1>1, IdleType DEF Return, TypeOK, RequestType, database, link, counts
<1>2. CASE CheckConnect(w)
  BY <1>2 DEF CheckConnect, TypeOK, database, request, counts
<1>3. CASE Unconnected(w)
  <2>1. RequestType'
    <3>1. CASE EndRecord(w, FALSE)
      BY <3>1, EndRecordType
    <3>2. CASE EndRequest(w, FALSE) /\ UNCHANGED todo
      BY <3>2, EndRequestType DEF TypeOK
    <3>3. CASE EndRequest(w, FALSE) /\ todo' = [todo EXCEPT ![w] = {}]
      <4>1. todo' \in [Writers -> SUBSET Columns]
        BY <3>3 DEF TypeOK
      <4> QED BY <3>3, <4>1, EndRequestType
    <3>4. CASE \E c \in todo[w] : /\ todo' = [todo EXCEPT ![w] = @ \ {c}]
                                  /\ UNCHANGED <<pc, checked, queue, rec, statusOK, refused>>
      BY <3>4 DEF TypeOK, RequestType
    <3> QED BY <1>3, <3>1, <3>2, <3>3, <3>4 DEF Unconnected
  <2>2. DatabaseType' /\ LinkType'
    BY <1>3 DEF Unconnected, TypeOK, DatabaseType, LinkType, database, link
  <2> QED BY <2>1, <2>2 DEF RequestType, DatabaseType, LinkType, TypeOK
<1> QED BY <1>1, <1>2, <1>3

\* Statements that leave the database and what is asked of it to Goto.
LEMMA TypePutValue ==
    ASSUME TypeInv, NEW w \in Writers, NEW fate, NEW found \in BOOLEAN, NEW c \in Columns,
           \/ ReadNames(w, fate, found) \/ CreateTable(w, fate)
           \/ ListExistColumns(w, fate) \/ AddNewColumn(w, fate, c)
    PROVE  TypeOK'
<1> USE DEF TypeInv
<1>1. LinkType'
  <2>1. Statement(w, fate)
    BY DEF ReadNames, CreateTable, ListExistColumns, AddNewColumn
  <2> QED BY <2>1, StatementType DEF TypeOK, LinkType
<1>2. \A point \in {"create", "columns", "key", "alter"} : point \in Points
  BY DEF Points, OperationStarts
<1>3. rec[w].cells \in Cells
  BY DEF TypeOK, Records
<1>4. DOMAIN rec[w].cells \subseteq Columns
  BY <1>3 DEF Cells
<1>5. CASE ReadNames(w, fate, found)
  <2>1. PICK point \in {"create", "columns", "key"} : Goto(w, point)
    BY <1>5 DEF ReadNames
  <2> QED BY <1>1, <1>2, <1>5, <2>1, GotoType DEF ReadNames, TypeOK, LinkType, database, request
<1>6. CASE CreateTable(w, fate)
  <2>1. created' \in BOOLEAN /\ columns' \subseteq Columns
    BY <1>6, <1>4 DEF CreateTable, TypeOK
  <2>2. Goto(w, "key")
    BY <1>6 DEF CreateTable
  <2> QED BY <1>1, <1>2, <1>6, <2>1, <2>2, GotoType DEF CreateTable, TypeOK, LinkType, request
<1>7. CASE ListExistColumns(w, fate)
  <2>1. PICK point \in {"key", "alter"} : Goto(w, point)
    BY <1>7 DEF ListExistColumns
  <2>2. todo' \in [Writers -> SUBSET Columns]
    BY <1>7, <1>4 DEF ListExistColumns, TypeOK
  <2> QED
    BY <1>1, <1>2, <1>7, <2>1, <2>2, GotoType DEF ListExistColumns, TypeOK, LinkType, database
<1>8. CASE AddNewColumn(w, fate, c)
  <2>1. PICK point \in {"key", "alter"} : Goto(w, point)
    BY <1>8 DEF AddNewColumn
  <2>2. todo' \in [Writers -> SUBSET Columns] /\ columns' \subseteq Columns
    BY <1>8 DEF AddNewColumn, TypeOK
  <2> QED BY <1>1, <1>2, <1>8, <2>1, <2>2, GotoType DEF AddNewColumn, TypeOK, LinkType
<1> QED BY <1>5, <1>6, <1>7, <1>8

\* insertRow.
LEMMA TypeInsertRow ==
    ASSUME TypeInv, NEW w \in Writers, NEW fate,
           SelectKey(w, fate) \/ Insert(w, fate) \/ Overwrite(w, fate)
    PROVE  TypeOK'
<1> USE DEF TypeInv
<1>1. LinkType'
  <2>1. Statement(w, fate)
    BY DEF SelectKey, Insert, Overwrite
  <2> QED BY <2>1, StatementType DEF TypeOK, LinkType
<1>2. rec[w].cells \in Cells
  BY DEF TypeOK, Records
<1>3. \A point \in {"insert", "overwrite"} : point \in Points
  BY DEF Points
<1>4. UNCHANGED database => DatabaseType'
  BY DEF database, TypeOK, DatabaseType
<1>5. RequestType'
  <2>1. CASE \E ok \in BOOLEAN : EndRecord(w, ok)
    BY <2>1, EndRecordType
  <2>2. CASE \E point \in {"insert", "overwrite"} :
               Goto(w, point) /\ UNCHANGED <<request, refused>>
    BY <2>2, <1>3, GotoType DEF TypeOK, RequestType, request
  <2>3. CASE SelectKey(w, fate)
    BY <2>3, <2>1, <2>2 DEF SelectKey
  <2>4. CASE Insert(w, fate) \/ Overwrite(w, fate)
    <3>1. (fate = "done" /\ Writable(rec[w].cells)) \in BOOLEAN
      OBVIOUS
    <3> QED BY <2>1, <2>4, <3>1 DEF Insert, Overwrite
  <2> QED BY <2>3, <2>4
<1>6. DatabaseType'
  BY <1>2, <1>4, InsertRowsType, UpdateRowsType DEF SelectKey, Insert, Overwrite
<1> QED BY <1>1, <1>5, <1>6 DEF RequestType, DatabaseType, LinkType, TypeOK

\* updateColumn and deleteRow.
LEMMA EndColumnType ==
    ASSUME TypeInv, NEW w \in Writers, NEW c, NEW ok \in BOOLEAN, EndColumn(w, c, ok)
    PROVE  RequestType'
<1>1. todo' \in [Writers -> SUBSET Columns]
  BY DEF EndColumn, TypeOK, TypeInv
<1>2. CASE EndRequest(w, ok)
  BY <1>1, <1>2, EndRequestType DEF TypeInv
<1>3. CASE Goto(w, "set_key") /\ UNCHANGED <<queue, rec, statusOK, refused>>
  <2>1. "set_key" \in Points
    BY DEF Points, OperationStarts
  <2> QED BY <1>1, <1>3, <2>1, GotoType DEF TypeInv, TypeOK, RequestType
<1> QED BY <1>2, <1>3 DEF EndColumn

LEMMA TypeUpdateDelete ==
    ASSUME TypeInv, NEW w \in Writers, NEW fate, NEW c \in Columns,
           \/ SelectForUpdate(w, fate) \/ UpdateColumn(w, fate, c)
           \/ SelectForDelete(w, fate) \/ DeleteRow(w, fate)
    PROVE  TypeOK'
<1>0. TypeOK
  BY DEF TypeInv
<1>1. LinkType'
  <2>1. Statement(w, fate)
    BY DEF SelectForUpdate, UpdateColumn, SelectForDelete, DeleteRow
  <2> QED BY <1>0, <2>1, StatementType DEF TypeOK, LinkType
<1>2. UNCHANGED database => DatabaseType'
  BY <1>0 DEF database, TypeOK, DatabaseType
<1>3. "set" \in Points /\ "delete" \in Points
  BY DEF Points
<1>4. \A point \in Points : Goto(w, point) /\ UNCHANGED <<request, refused>> => RequestType'
  BY <1>0, GotoType DEF TypeOK, RequestType, request
<1>5. \A ok \in BOOLEAN : EndRequest(w, ok) /\ UNCHANGED todo => RequestType'
  BY <1>0, EndRequestType DEF TypeOK
<1>6. CASE SelectForUpdate(w, fate)
  <2>1. RequestType'
    BY <1>3, <1>4, <1>6, EndColumnType DEF SelectForUpdate
  <2> QED
    BY <1>1, <1>2, <1>6, <2>1
       DEF SelectForUpdate, RequestType, DatabaseType, LinkType, TypeOK
<1>7. CASE UpdateColumn(w, fate, c)
  <2>1. RequestType'
    <3>1. (fate = "done" /\ c \in columns) \in BOOLEAN
      OBVIOUS
    <3> QED BY <1>7, <3>1, EndColumnType DEF UpdateColumn
  <2>2. rec[w].cells \in Cells /\ c \in DOMAIN rec[w].cells
    BY <1>7 DEF UpdateColumn, TypeInv, TypeOK, SetsGivenColumns, Records
  <2>3. rec[w].cells[c] \in Values
    BY <2>2 DEF Cells
  <2>4. [x \in {c} |-> rec[w].cells[c]] \in [{c} -> Values]
    BY <2>3
  <2>5. [x \in {c} |-> rec[w].cells[c]] \in Cells
    BY <2>4 DEF Cells
  <2>6. DatabaseType'
    BY <1>0, <1>2, <1>7, <2>5, UpdateRowsType DEF UpdateColumn
  <2> QED BY <1>1, <2>1, <2>6 DEF RequestType, DatabaseType, LinkType, TypeOK
<1>8. CASE SelectForDelete(w, fate)
  <2>1. RequestType'
    BY <1>3, <1>4, <1>5, <1>8 DEF SelectForDelete
  <2> QED
    BY <1>1, <1>2, <1>8, <2>1
       DEF SelectForDelete, RequestType, DatabaseType, LinkType, TypeOK
<1>9. CASE DeleteRow(w, fate)
  <2>1. RequestType'
    BY <1>5, <1>9 DEF DeleteRow
  <2>2. DatabaseType'
    BY <1>0, <1>2, <1>9, DeleteRowsType DEF DeleteRow
  <2> QED BY <1>1, <2>1, <2>2 DEF RequestType, DatabaseType, LinkType, TypeOK
<1> QED BY <1>6, <1>7, <1>8, <1>9

LEMMA FaultType == TypeOK /\ faults < MaxFaults => faults + 1 \in 0..MaxFaults
BY BoundsAssumption DEF TypeOK

LEMMA TypeOutside ==
    ASSUME TypeInv, NEW w \in Writers, ConnectionBreaks(w) \/ Restart(w)
    PROVE  TypeOK'
<1> USE DEF TypeInv
<1>1. CASE ConnectionBreaks(w)
  <2>1. connected' \in [Writers -> BOOLEAN]
    BY <1>1 DEF ConnectionBreaks, TypeOK
  <2> QED BY <1>1, <2>1, FaultType DEF ConnectionBreaks, TypeOK, database, request
<1>2. CASE Restart(w)
  <2>1. RequestType'
    BY <1>2, IdleType DEF Restart
  <2>2. connected' \in [Writers -> BOOLEAN]
    BY <1>2 DEF Restart, TypeOK
  <2> QED BY <1>2, <2>1, <2>2, FaultType DEF Restart, RequestType, TypeOK, database
<1> QED BY <1>1, <1>2

LEMMA TypeServer == ASSUME TypeInv, ServerStops \/ ServerStarts PROVE TypeOK'
<1> USE DEF TypeInv
<1>1. CASE ServerStops
  <2>1. connected' \in [Writers -> BOOLEAN]
    BY <1>1 DEF ServerStops
  <2>2. faults' \in 0..MaxFaults
    BY <1>1, FaultType DEF ServerStops
  <2>3. serverUp' \in BOOLEAN
    BY <1>1 DEF ServerStops
  <2>4. UNCHANGED <<database, pc, checked, request, requests, refused>>
    BY <1>1 DEF ServerStops
  <2> QED BY <2>1, <2>2, <2>3, <2>4 DEF TypeOK, database, request
<1>2. CASE ServerStarts
  BY <1>2 DEF ServerStarts, TypeOK, database, request, counts
<1> QED BY <1>1, <1>2

\* A step of one writer leaves the threads of the others alone.
OthersUntouched(w) ==
    \A v \in Writers \ {w} :
        pc'[v] = pc[v] /\ queue'[v] = queue[v] /\ rec'[v] = rec[v] /\ todo'[v] = todo[v]

LEMMA ControlOthers ==
    ASSUME TypeOK, NEW w \in Writers,
           \/ \E point : Goto(w, point) /\ UNCHANGED <<queue, rec>>
           \/ \E items, key : TakeRecord(w, items, key)
    PROVE  \A v \in Writers \ {w} :
             pc'[v] = pc[v] /\ queue'[v] = queue[v] /\ rec'[v] = rec[v]
BY DEF TypeOK, Goto, TakeRecord

LEMMA EndOthers ==
    ASSUME TypeOK, NEW w \in Writers, NEW ok,
           EndRecord(w, ok) \/ (EndRequest(w, ok) /\ \E T : todo' = [todo EXCEPT ![w] = T])
    PROVE  OthersUntouched(w)
<1>1. \A v \in Writers \ {w} : todo'[v] = todo[v]
  BY DEF EndRecord, TypeOK
<1> QED BY <1>1, ControlOthers DEF EndRecord, EndRequest, OthersUntouched

LEMMA StepOthers ==
    ASSUME TypeOK, NEW w \in Writers, Step(w)
    PROVE  OthersUntouched(w)
<1> USE DEF OthersUntouched
<1>1. CASE UNCHANGED <<pc, request>>
  BY <1>1 DEF request
<1>2. CASE \E point : Goto(w, point) /\ UNCHANGED request
  BY <1>2, ControlOthers DEF request
<1>3. CASE \E ok : EndRecord(w, ok)
  BY <1>3, EndOthers
<1>4. CASE \E ok : EndRequest(w, ok) /\ UNCHANGED todo
  <2>1. todo' = [todo EXCEPT ![w] = todo[w]]
    BY <1>4 DEF TypeOK
  <2> QED BY <1>4, <2>1, EndOthers
<1>5. CASE \E ok, c : EndColumn(w, c, ok)
  <2>1. PICK ok, c : EndColumn(w, c, ok)
    BY <1>5
  <2>2. CASE EndRequest(w, ok)
    BY <2>1, <2>2, EndOthers DEF EndColumn
  <2>3. CASE Goto(w, "set_key") /\ UNCHANGED <<queue, rec, statusOK, refused>>
    BY <2>1, <2>3, ControlOthers DEF EndColumn, TypeOK
  <2> QED BY <2>1, <2>2, <2>3 DEF EndColumn
<1>6. CASE Idle(w)
  BY <1>6 DEF Idle, Goto, TypeOK
<1>7. CASE \E r \in AddRequests : BeginAdd(w, r)
  BY <1>7, ControlOthers DEF BeginAdd
<1>8. CASE \E r \in UpdateRequests : BeginUpdate(w, r)
  BY <1>8 DEF BeginUpdate, Goto, TypeOK
<1>9. CASE \E k \in DeleteKeys : BeginDelete(w, k)
  BY <1>9 DEF BeginDelete, Goto, TypeOK
<1>10. CASE Unconnected(w)
  BY <1>10, <1>3, <1>4, EndOthers DEF Unconnected, TypeOK
<1>11. CASE \E fate, c : ListExistColumns(w, fate) \/ AddNewColumn(w, fate, c)
  <2>1. \E point : Goto(w, point) /\ UNCHANGED <<queue, rec>>
    BY <1>11 DEF ListExistColumns, AddNewColumn
  <2>2. \E T : todo' = [todo EXCEPT ![w] = T]
    BY <1>11 DEF ListExistColumns, AddNewColumn
  <2> QED BY <2>1, <2>2, ControlOthers DEF TypeOK
<1>12. CASE \E fate, found : ReadNames(w, fate, found) \/ CreateTable(w, fate)
  BY <1>12, <1>2 DEF ReadNames, CreateTable
<1>13. CASE \E fate : SelectKey(w, fate) \/ Insert(w, fate) \/ Overwrite(w, fate)
  BY <1>13, <1>2, <1>3 DEF SelectKey, Insert, Overwrite
<1>14. CASE \E fate, c : SelectForUpdate(w, fate) \/ UpdateColumn(w, fate, c)
  BY <1>14, <1>2, <1>5 DEF SelectForUpdate, UpdateColumn
<1>15. CASE \E fate : SelectForDelete(w, fate) \/ DeleteRow(w, fate)
  BY <1>15, <1>2, <1>4 DEF SelectForDelete, DeleteRow
<1>16. CASE Return(w) \/ CheckConnect(w) \/ ConnectionBreaks(w) \/ Restart(w)
  BY <1>16, <1>1, <1>6 DEF Return, CheckConnect, ConnectionBreaks, Restart
<1> QED
  BY <1>7, <1>8, <1>9, <1>10, <1>11, <1>12, <1>13, <1>14, <1>15, <1>16 DEF Step

\* What a writer is about to set stays within what its update gives.
LEMMA SetsGivenInd ==
    ASSUME TypeInv, NEW w \in Writers, Step(w)
    PROVE  SetsGivenColumns'
<1> DEFINE Ok(v) == pc[v] \in {"set_key", "set"} => todo[v] \subseteq DOMAIN rec[v].cells
<1> USE DEF TypeInv
<1>1. \A v \in Writers \ {w} : Ok(v)'
  BY StepOthers DEF OthersUntouched, SetsGivenColumns
<1>2. Ok(w)
  BY DEF SetsGivenColumns
<1>3. Ok(w)'
  <2>1. CASE UNCHANGED <<pc, request>>
    BY <1>2, <2>1 DEF request
  <2>2. CASE pc'[w] \notin {"set_key", "set"}
    BY <2>2
  <2>3. CASE \E point \in Points \ {"set_key", "set"} : Goto(w, point)
    BY <2>2, <2>3 DEF Goto, TypeOK
  <2>4. CASE \E items, key : TakeRecord(w, items, key)
    BY <2>2, <2>4 DEF TakeRecord, Goto, TypeOK
  <2>5. CASE \E ok : EndRecord(w, ok) \/ EndRequest(w, ok)
    BY <2>2, <2>4, <2>5 DEF EndRecord, EndRequest, Goto, TypeOK
  <2>6. CASE /\ \E c \in Columns : todo' = [todo EXCEPT ![w] = @ \ {c}]
             /\ pc[w] \in {"set_key", "set"}
             /\ UNCHANGED rec
    BY <1>2, <2>6 DEF TypeOK
  <2>7. CASE Idle(w)
    BY <2>2, <2>7 DEF Idle, Goto, TypeOK
  <2>8. CASE (\E r \in AddRequests : BeginAdd(w, r)) \/ (\E k \in DeleteKeys : BeginDelete(w, k))
    BY <2>2, <2>4, <2>8 DEF BeginAdd, BeginDelete, Goto, TypeOK
  <2>9. CASE \E r \in UpdateRequests : BeginUpdate(w, r)
    BY <2>9 DEF BeginUpdate, Goto, TypeOK
  <2>10. CASE Unconnected(w)
    BY <1>2, <2>2, <2>5, <2>6, <2>10 DEF Unconnected, TypeOK
  <2>11. CASE \E fate, c : ListExistColumns(w, fate) \/ AddNewColumn(w, fate, c)
    BY <2>2, <2>11 DEF ListExistColumns, AddNewColumn, Goto, TypeOK
  <2>17. CASE \E fate, found : ReadNames(w, fate, found) \/ CreateTable(w, fate)
    BY <2>2, <2>17 DEF ReadNames, CreateTable, Goto, TypeOK
  <2>12. CASE \E fate : SelectKey(w, fate) \/ Insert(w, fate) \/ Overwrite(w, fate)
    BY <2>2, <2>5, <2>12 DEF SelectKey, Insert, Overwrite, Goto, TypeOK
  <2>13. CASE \E fate : SelectForUpdate(w, fate)
    BY <1>2, <2>5, <2>6, <2>13 DEF SelectForUpdate, EndColumn, Goto, TypeOK, request
  <2>14. CASE \E fate : \E c \in Columns : UpdateColumn(w, fate, c)
    BY <1>2, <2>5, <2>6, <2>14 DEF UpdateColumn, EndColumn
  <2>15. CASE \E fate : SelectForDelete(w, fate) \/ DeleteRow(w, fate)
    BY <2>2, <2>5, <2>15 DEF SelectForDelete, DeleteRow, Goto, TypeOK
  <2>16. CASE Return(w) \/ CheckConnect(w) \/ ConnectionBreaks(w) \/ Restart(w)
    BY <2>1, <2>7, <2>16 DEF Return, CheckConnect, ConnectionBreaks, Restart
  <2> QED
    BY <2>8, <2>9, <2>10, <2>11, <2>12, <2>13, <2>14, <2>15, <2>16, <2>17 DEF Step
<1> QED BY <1>1, <1>3 DEF SetsGivenColumns

LEMMA TypeInvInit == Init => TypeInv
<1> SUFFICES ASSUME Init PROVE TypeInv
  OBVIOUS
<1>1. "idle" \in Points
  BY DEF Points
<1>2. /\ pc \in [Writers -> Points] /\ checked \in [Writers -> BOOLEAN]
      /\ queue \in [Writers -> Seq(Records)] /\ todo \in [Writers -> SUBSET Columns]
      /\ statusOK \in [Writers -> BOOLEAN] /\ connected \in [Writers -> BOOLEAN]
  BY <1>1 DEF Init
<1>3. rec \in [Writers -> Records]
  BY NoRecordType DEF Init
<1>4. 0 \in 0..MaxRequests /\ 0 \in 0..MaxFaults
  BY BoundsAssumption
<1>5. TypeOK
  BY <1>2, <1>3, <1>4 DEF Init, TypeOK
<1> QED BY <1>5 DEF Init, TypeInv, SetsGivenColumns

LEMMA TypeInvNext == TypeInv /\ [Next]_vars => TypeInv'
<1> SUFFICES ASSUME TypeInv, [Next]_vars PROVE TypeInv'
  OBVIOUS
<1>1. CASE \E w \in Writers : Step(w)
  <2>1. PICK w \in Writers : Step(w)
    BY <1>1
  <2>2. TypeOK'
    BY <2>1, TypeBegin, TypeConnection, TypePutValue, TypeInsertRow, TypeUpdateDelete,
       TypeOutside, ColumnsAssumption DEF Step
  <2> QED BY <2>1, <2>2, SetsGivenInd DEF TypeInv
<1>2. CASE ServerStops \/ ServerStarts
  <2>1. SetsGivenColumns'
    BY <1>2 DEF ServerStops, ServerStarts, TypeInv, SetsGivenColumns, request
  <2>2. TypeOK'
    BY <1>2, TypeServer
  <2> QED BY <2>1, <2>2 DEF TypeInv
<1>3. CASE UNCHANGED vars
  BY <1>3 DEF vars, database, link, request, counts, TypeInv, TypeOK, SetsGivenColumns
<1> QED BY <1>1, <1>2, <1>3 DEF Next

\* The state of the table, the connections and the writers' threads has its type in
\* every reachable state, for every set of writers and requests and every bound: no
\* update ever writes a column its request does not give.
THEOREM TypeCorrect == Spec => []TypeOK
<1>1. Spec => []TypeInv
  BY TypeInvInit, TypeInvNext, PTL DEF Spec
<1>2. TypeInv => TypeOK
  BY DEF TypeInv
<1> QED BY <1>1, <1>2, PTL

----
\* One row per writer and key: what statements do to the keys of rows.

\* No step of w gives another writer's rows a key they did not have.
OthersKeepKeys(w) ==
    \A r \in rows' : \/ r.by = w
                     \/ \E p \in rows : p.by = r.by /\ p.val[KeyColumn] = r.val[KeyColumn]

LEMMA SubsetKeys ==
    ASSUME AtMostOneRowPerWriter, NEW w, rows' \subseteq rows
    PROVE  AtMostOneRowPerWriter' /\ OthersKeepKeys(w)
BY DEF AtMostOneRowPerWriter, OthersKeepKeys

\* INSERT comes when the writer has no row with the key.
LEMMA InsertKeys ==
    ASSUME TypeOK, AtMostOneRowPerWriter, NEW w \in Writers, NEW cells \in Cells,
           InsertRows(w, cells), KeyColumn \in DOMAIN cells,
           \A r \in rows : r.by = w => r.val[KeyColumn] # cells[KeyColumn]
    PROVE  AtMostOneRowPerWriter' /\ OthersKeepKeys(w)
<1> DEFINE val == Given([c \in Columns |-> Null], cells)
           new == [idx |-> nextIdx, by |-> w, val |-> val]
<1>1. val[KeyColumn] = cells[KeyColumn]
  BY ColumnsAssumption DEF Given
<1>2. new.by = w /\ new.val = val
  OBVIOUS
<1>3. rows' = rows \cup {new}
  BY DEF InsertRows
<1> HIDE DEF val, new
<1> QED BY <1>1, <1>2, <1>3 DEF AtMostOneRowPerWriter, OthersKeepKeys

\* UPDATE leaves the key column alone or sets it to the key it looks for.
LEMMA UpdateKeys ==
    ASSUME TypeOK, AtMostOneRowPerWriter, NEW w \in Writers, NEW key, NEW cells \in Cells,
           UpdateRows(key, cells), KeyColumn \in DOMAIN cells => cells[KeyColumn] = key
    PROVE  AtMostOneRowPerWriter' /\ OthersKeepKeys(w)
<1> DEFINE After(r) == IF r \in Matching(key) THEN [r EXCEPT !.val = Given(r.val, cells)] ELSE r
<1>1. ASSUME NEW r \in rows
      PROVE  After(r).by = r.by /\ After(r).val[KeyColumn] = r.val[KeyColumn]
  <2>1. CASE r \in Matching(key)
    <3>1. r \in [idx : Nat, by : Writers, val : Vals]
      BY DEF TypeOK, Rows, Vals
    <3>2. /\ [r EXCEPT !.val = Given(r.val, cells)].by = r.by
          /\ [r EXCEPT !.val = Given(r.val, cells)].val = Given(r.val, cells)
      BY <3>1
    <3>3. Given(r.val, cells)[KeyColumn] = r.val[KeyColumn]
      BY <2>1, ColumnsAssumption DEF Given, Matching
    <3> QED BY <2>1, <3>2, <3>3
  <2>2. CASE r \notin Matching(key)
    BY <2>2
  <2> QED BY <2>1, <2>2
<1>2. \A r \in rows' : \E p \in rows : r = After(p)
  BY DEF UpdateRows, Matching
<1> HIDE DEF After
<1> QED BY <1>1, <1>2 DEF AtMostOneRowPerWriter, OthersKeepKeys

LEMMA StepKeys ==
    ASSUME TypeInv, KeyInv, NEW w \in Writers, Step(w)
    PROVE  AtMostOneRowPerWriter' /\ OthersKeepKeys(w)
<1>0. /\ TypeOK /\ AtMostOneRowPerWriter /\ ThreadKeyed(w) /\ NoRowYet(w)
      /\ rec[w].cells \in Cells
  BY DEF TypeInv, KeyInv, TypeOK, Records
<1>1. CASE rows' = rows
  BY <1>0, <1>1, SubsetKeys
<1>2. CASE \E fate : Insert(w, fate)
  <2>1. PICK fate : Insert(w, fate)
    BY <1>2
  <2>2. pc[w] = "insert" /\ CarriesKey(rec[w])
    BY <1>0, <2>1 DEF Insert, ThreadKeyed, AddPoints, CarriesKey
  <2>3. CASE InsertRows(w, rec[w].cells)
    BY <1>0, <2>2, <2>3, InsertKeys DEF NoRowYet, CarriesKey
  <2> QED BY <1>1, <2>1, <2>3 DEF Insert, database
<1>3. CASE \E fate : Overwrite(w, fate)
  <2>1. PICK fate : Overwrite(w, fate)
    BY <1>3
  <2>2. CarriesKey(rec[w])
    BY <1>0, <2>1 DEF Overwrite, ThreadKeyed, AddPoints
  <2>3. CASE UpdateRows(rec[w].key, rec[w].cells)
    BY <1>0, <2>2, <2>3, UpdateKeys DEF CarriesKey
  <2> QED BY <1>1, <2>1, <2>3 DEF Overwrite, database
<1>4. CASE \E fate : \E c \in Columns : UpdateColumn(w, fate, c)
  <2>0. PICK fate : \E c \in Columns : UpdateColumn(w, fate, c)
    BY <1>4
  <2>1. PICK c \in Columns : UpdateColumn(w, fate, c)
    BY <2>0
  <2> DEFINE cells == [x \in {c} |-> rec[w].cells[c]]
  <2>2. c \in DOMAIN rec[w].cells /\ c # KeyColumn
    BY <1>0, <2>1 DEF UpdateColumn, TypeInv, SetsGivenColumns, ThreadKeyed
  <2>3. rec[w].cells[c] \in Values
    BY <1>0, <2>2 DEF Cells
  <2>4. cells \in [{c} -> Values]
    BY <2>3
  <2>5. cells \in Cells /\ KeyColumn \notin DOMAIN cells
    BY <2>2, <2>4 DEF Cells
  <2>6. CASE UpdateRows(rec[w].key, cells)
    BY <1>0, <2>5, <2>6, UpdateKeys
  <2> QED BY <1>1, <2>1, <2>6 DEF UpdateColumn, database
<1>5. CASE \E fate : DeleteRow(w, fate)
  <2>1. rows' \subseteq rows
    BY <1>5 DEF DeleteRow, DeleteRows, database
  <2> QED BY <1>0, <2>1, SubsetKeys
<1>6. CASE \/ \E r \in AddRequests : BeginAdd(w, r)
           \/ \E r \in UpdateRequests : BeginUpdate(w, r)
           \/ \E k \in DeleteKeys : BeginDelete(w, k)
           \/ Return(w) \/ CheckConnect(w) \/ Unconnected(w)
           \/ ConnectionBreaks(w) \/ Restart(w)
  BY <1>1, <1>6 DEF BeginAdd, BeginUpdate, BeginDelete, Return, CheckConnect, Unconnected,
                    ConnectionBreaks, Restart, database
<1>7. CASE \E fate, found : ReadNames(w, fate, found) \/ CreateTable(w, fate)
  BY <1>1, <1>7 DEF ReadNames, CreateTable, database
<1>8. CASE \E fate, c : ListExistColumns(w, fate) \/ AddNewColumn(w, fate, c)
  BY <1>1, <1>8 DEF ListExistColumns, AddNewColumn, database
<1>9. CASE \E fate : SelectKey(w, fate) \/ SelectForUpdate(w, fate) \/ SelectForDelete(w, fate)
  BY <1>1, <1>9 DEF SelectKey, SelectForUpdate, SelectForDelete, database
<1> QED BY <1>2, <1>3, <1>4, <1>5, <1>6, <1>7, <1>8, <1>9 DEF Step

----
\* One row per writer and key: the writer's own thread.

\* The record TakeRecord puts in hand, and those it leaves, bring their keys.
LEMMA TakeRecordKeyed ==
    ASSUME TypeOK, NEW w \in Writers, NEW items \in Seq(Records), items # <<>>, NEW key,
           \A i \in DOMAIN items : CarriesKey(items[i]), TakeRecord(w, items, key)
    PROVE  ThreadKeyed(w)' /\ pc'[w] = "names"
<1>1. CarriesKey(items[1]) /\ Head(items) = items[1]
  OBVIOUS
<1>2. \A i \in DOMAIN Tail(items) : i + 1 \in DOMAIN items /\ Tail(items)[i] = items[i + 1]
  OBVIOUS
<1>3. \A i \in DOMAIN Tail(items) : CarriesKey(Tail(items)[i])
  BY <1>2
<1>4. pc'[w] = "names" /\ queue'[w] = Tail(items)
  BY DEF TakeRecord, Goto, TypeOK
<1>5. rec'[w] = [key   |-> IF Head(items).key # NoKey THEN Head(items).key ELSE key,
                 cells |-> Head(items).cells]
  BY DEF TakeRecord, TypeOK
<1>6. CarriesKey(rec'[w])
  BY <1>1, <1>5 DEF CarriesKey
<1> QED BY <1>3, <1>4, <1>6 DEF ThreadKeyed

LEMMA EndKeyed ==
    ASSUME TypeOK, NEW w \in Writers, ThreadKeyed(w), NEW ok,
           EndRecord(w, ok) \/ EndRequest(w, ok)
    PROVE  ThreadKeyed(w)' /\ pc'[w] # "insert"
<1>1. queue[w] \in Seq(Records) /\ \A i \in DOMAIN queue[w] : CarriesKey(queue[w][i])
  BY DEF TypeOK, ThreadKeyed
<1>2. CASE Goto(w, "answered") /\ UNCHANGED <<rec, queue>>
  BY <1>1, <1>2 DEF Goto, TypeOK, ThreadKeyed, AddPoints
<1>3. CASE queue[w] # <<>> /\ TakeRecord(w, queue[w], rec[w].key)
  BY <1>1, <1>3, TakeRecordKeyed
<1> QED BY <1>2, <1>3 DEF EndRecord, EndRequest

\* Going on to another statement of the same kind of request keeps the record.
LEMMA GotoKeyed ==
    ASSUME TypeOK, NEW w \in Writers, ThreadKeyed(w), NEW point, Goto(w, point),
           UNCHANGED <<queue, rec>>,
           \/ pc[w] \in AddPoints /\ point \in AddPoints
           \/ pc[w] \in {"set_key", "set"} /\ point \in {"set_key", "set"}
           \/ point = "delete"
    PROVE  ThreadKeyed(w)' /\ pc'[w] = point
BY DEF Goto, TypeOK, ThreadKeyed, AddPoints

\* Requests begin with records that bring their keys, and end with none.
LEMMA BeginKeyed ==
    ASSUME KeyedRequests, TypeOK, NEW w \in Writers, ThreadKeyed(w),
           \/ \E r \in AddRequests : BeginAdd(w, r)
           \/ \E r \in UpdateRequests : BeginUpdate(w, r)
           \/ \E k \in DeleteKeys : BeginDelete(w, k)
           \/ Idle(w)
    PROVE  ThreadKeyed(w)' /\ pc'[w] # "insert"
<1>1. CASE \E r \in AddRequests : BeginAdd(w, r)
  <2>1. PICK r \in AddRequests : BeginAdd(w, r)
    BY <1>1
  <2>2. r.items \in Seq(Records)
    BY RequestsAssumption
  <2>3. \A i \in DOMAIN r.items : CarriesKey(r.items[i])
    BY DEF KeyedRequests, CarriesKey
  <2>4. CASE r.items # <<>>
    BY <2>1, <2>2, <2>3, <2>4, TakeRecordKeyed DEF BeginAdd
  <2>5. CASE r.items = <<>>
    BY <2>1, <2>5 DEF BeginAdd, Goto, TypeOK, ThreadKeyed, AddPoints
  <2> QED BY <2>4, <2>5
<1>2. CASE \E r \in UpdateRequests : BeginUpdate(w, r)
  <2>1. PICK r \in UpdateRequests : BeginUpdate(w, r)
    BY <1>2
  <2>2. rec'[w] = r /\ queue' = queue /\ pc'[w] \in {"answered", "set_key"}
    BY <2>1 DEF BeginUpdate, Goto, TypeOK
  <2>3. KeyColumn \notin DOMAIN r.cells
    BY DEF KeyedRequests
  <2> QED BY <2>2, <2>3 DEF ThreadKeyed, AddPoints
<1>3. CASE \E k \in DeleteKeys : BeginDelete(w, k)
  BY <1>3 DEF BeginDelete, Goto, TypeOK, ThreadKeyed, AddPoints
<1>4. CASE Idle(w)
  BY <1>4 DEF Idle, Goto, TypeOK, ThreadKeyed, AddPoints
<1> QED BY <1>1, <1>2, <1>3, <1>4

LEMMA StepThread ==
    ASSUME KeyedRequests, TypeInv, KeyInv, NEW w \in Writers, Step(w)
    PROVE  ThreadKeyed(w)' /\ NoRowYet(w)'
<1>0. TypeOK /\ ThreadKeyed(w) /\ NoRowYet(w)
  BY DEF TypeInv, KeyInv
<1>1. CASE UNCHANGED <<pc, queue, rec, rows>>
  BY <1>0, <1>1 DEF ThreadKeyed, NoRowYet
<1>2. CASE ThreadKeyed(w)' /\ pc'[w] # "insert"
  BY <1>2 DEF NoRowYet
<1>3. CASE \E ok : EndRecord(w, ok) \/ EndRequest(w, ok)
  BY <1>0, <1>2, <1>3, EndKeyed
<1>4. CASE \/ \E r \in AddRequests : BeginAdd(w, r)
           \/ \E r \in UpdateRequests : BeginUpdate(w, r)
           \/ \E k \in DeleteKeys : BeginDelete(w, k)
           \/ Idle(w)
  BY <1>0, <1>2, <1>4, BeginKeyed
<1>5. CASE Return(w) \/ CheckConnect(w) \/ ConnectionBreaks(w) \/ Restart(w)
  BY <1>1, <1>4, <1>5
     DEF Return, CheckConnect, ConnectionBreaks, Restart, request, database
<1>6. CASE Unconnected(w)
  BY <1>1, <1>3, <1>6 DEF Unconnected, database
<1>7. CASE \E fate, found : ReadNames(w, fate, found) \/ CreateTable(w, fate)
  BY <1>0, <1>2, <1>7, GotoKeyed DEF ReadNames, CreateTable, AddPoints, request
<1>8. CASE \E fate, c : ListExistColumns(w, fate) \/ AddNewColumn(w, fate, c)
  BY <1>0, <1>2, <1>8, GotoKeyed DEF ListExistColumns, AddNewColumn, AddPoints
<1>9. CASE \E fate : SelectKey(w, fate)
  <2>1. PICK fate : SelectKey(w, fate)
    BY <1>9
  <2>2. CASE Goto(w, "overwrite") /\ UNCHANGED <<request, refused>>
    BY <1>0, <1>2, <2>1, <2>2, GotoKeyed DEF SelectKey, AddPoints, request
  <2>3. CASE Goto(w, "insert") /\ Matching(rec[w].key) = {} /\ UNCHANGED <<request, refused>>
    <3>1. ThreadKeyed(w)'
      BY <1>0, <2>1, <2>3, GotoKeyed DEF SelectKey, AddPoints, request
    <3>2. UNCHANGED <<rec, rows>>
      BY <2>1, <2>3 DEF SelectKey, request, database
    <3> QED BY <2>3, <3>1, <3>2 DEF NoRowYet, Matching
  <2> QED BY <1>3, <2>1, <2>2, <2>3 DEF SelectKey
<1>10. CASE \E fate : Insert(w, fate) \/ Overwrite(w, fate)
  BY <1>3, <1>10 DEF Insert, Overwrite
<1>11. CASE \E fate : SelectForUpdate(w, fate)
  <2>1. CASE \E ok, c : EndColumn(w, c, ok) /\ pc[w] = "set_key"
    BY <1>0, <1>2, <1>3, <2>1, GotoKeyed DEF EndColumn
  <2>2. CASE Goto(w, "set") /\ UNCHANGED <<queue, rec>> /\ pc[w] = "set_key"
    BY <1>0, <1>2, <2>2, GotoKeyed
  <2> QED BY <1>11, <2>1, <2>2 DEF SelectForUpdate, request
<1>12. CASE \E fate, c : UpdateColumn(w, fate, c)
  <2>1. PICK fate, c : UpdateColumn(w, fate, c)
    BY <1>12
  <2>2. \E ok : EndColumn(w, c, ok)
    BY <2>1 DEF UpdateColumn
  <2>3. CASE Goto(w, "set_key") /\ UNCHANGED <<queue, rec, statusOK, refused>>
    BY <1>0, <1>2, <2>1, <2>3, GotoKeyed DEF UpdateColumn
  <2> QED BY <1>3, <2>2, <2>3 DEF EndColumn
<1>13. CASE \E fate : SelectForDelete(w, fate)
  <2>1. PICK fate : SelectForDelete(w, fate)
    BY <1>13
  <2>2. CASE Goto(w, "delete") /\ UNCHANGED <<request, refused>>
    BY <1>0, <1>2, <2>2, GotoKeyed DEF request
  <2> QED BY <1>3, <2>1, <2>2 DEF SelectForDelete
<1>14. CASE \E fate : DeleteRow(w, fate)
  BY <1>3, <1>14 DEF DeleteRow
<1> QED
  BY <1>4, <1>5, <1>6, <1>7, <1>8, <1>9, <1>10, <1>11, <1>12, <1>13, <1>14 DEF Step

----
\* One row per writer and key: the invariant holds.

LEMMA KeyInvInit == Init => KeyInv
BY DEF Init, KeyInv, AtMostOneRowPerWriter, ThreadKeyed, NoRowYet, AddPoints

LEMMA KeyInvNext ==
    ASSUME KeyedRequests, TypeInv, KeyInv, [Next]_vars
    PROVE  KeyInv'
<1>1. CASE \E w \in Writers : Step(w)
  <2>1. PICK w \in Writers : Step(w)
    BY <1>1
  <2>2. AtMostOneRowPerWriter' /\ OthersKeepKeys(w)
    BY <2>1, StepKeys
  <2>3. ASSUME NEW v \in Writers \ {w} PROVE ThreadKeyed(v)' /\ NoRowYet(v)'
    <3>1. pc'[v] = pc[v] /\ queue'[v] = queue[v] /\ rec'[v] = rec[v]
      BY <2>1, StepOthers DEF OthersUntouched, TypeInv
    <3>2. ThreadKeyed(v) /\ NoRowYet(v)
      BY DEF KeyInv
    <3> QED BY <2>2, <3>1, <3>2 DEF ThreadKeyed, NoRowYet, OthersKeepKeys
  <2> QED BY <2>1, <2>2, <2>3, StepThread DEF KeyInv
<1>2. CASE ServerStops \/ ServerStarts \/ UNCHANGED vars
  <2>1. UNCHANGED <<pc, queue, rec, rows>>
    BY <1>2 DEF ServerStops, ServerStarts, vars, request, database
  <2> QED BY <2>1 DEF KeyInv, AtMostOneRowPerWriter, ThreadKeyed, NoRowYet
<1> QED BY <1>1, <1>2 DEF Next

\* When every record brings its key and no update changes it, a key has at most one
\* row of each writer, for every number of writers, every mix of requests, and every
\* number of broken connections, lost answers, outages and restarts.  insertRow,
\* which chooses between INSERT and UPDATE by a SELECT, thus keeps the key unique in
\* a table that one instance of the service writes.
THEOREM OneRowPerWriter == KeyedRequests => (Spec => []AtMostOneRowPerWriter)
<1> SUFFICES ASSUME KeyedRequests PROVE Spec => []AtMostOneRowPerWriter
  OBVIOUS
<1>1. Init => TypeInv /\ KeyInv
  BY TypeInvInit, KeyInvInit
<1>2. TypeInv /\ KeyInv /\ [Next]_vars => (TypeInv /\ KeyInv)'
  BY TypeInvNext, KeyInvNext
<1>3. TypeInv /\ KeyInv => AtMostOneRowPerWriter
  BY DEF KeyInv
<1> QED BY <1>1, <1>2, <1>3, PTL DEF Spec

----
\* Any number of writers make a SharedStore: each action of a writer is a step of that
\* store which looks for, writes or refuses the same record, column or deletion, or a
\* stutter.

\* What a writer's thread holds between requests, and within an update or a deletion.
ThreadReady(w) ==
    /\ pc[w] = "idle" => rec[w] = NoRecord /\ queue[w] = <<>>
    /\ pc[w] \in {"set_key", "set"} =>
         queue[w] = <<>> /\ todo[w] # {} /\ rec[w].key \in Values
    /\ pc[w] \in {"delete_key", "delete"} => queue[w] = <<>> /\ rec[w].key \in Values

SharedInv == TypeInv /\ KeyInv /\ \A w \in Writers : ThreadReady(w)

----
\* What statements do to the shared rows.

LEMMA SharedKept == ASSUME rows' = rows PROVE SharedRows' = SharedRows
BY DEF SharedRows, SharedAt, RowsOf, Matching

\* A client has one row of a key at most, and its values are what the store has there.
LEMMA OwnRow ==
    ASSUME TypeOK, AtMostOneRowPerWriter, NEW w \in Writers, NEW key
    PROVE  /\ RowsOf(w, key) = {} => SharedAt(w, key) = Absent
           /\ \A r \in RowsOf(w, key) :
                RowsOf(w, key) = {r} /\ r.val \in Vals /\ SharedAt(w, key) = r.val
<1>1. ASSUME NEW r \in RowsOf(w, key)
      PROVE  RowsOf(w, key) = {r} /\ r.val \in Vals /\ SharedAt(w, key) = r.val
  <2>1. \A p \in RowsOf(w, key) : p \in rows /\ p.by = w /\ p.val[KeyColumn] = key
    BY DEF RowsOf, Matching
  <2>2. \A p \in RowsOf(w, key) : p = r
    BY <2>1 DEF AtMostOneRowPerWriter
  <2>3. RowsOf(w, key) = {r}
    BY <2>2
  <2>4. r.val \in Vals
    BY <2>1 DEF TypeOK, Rows, Vals
  <2>5. (CHOOSE p \in RowsOf(w, key) : TRUE) = r
    BY <2>2
  <2> QED BY <2>3, <2>4, <2>5 DEF SharedAt
<1> QED BY <1>1 DEF SharedAt

\* Someone has the key exactly when a row has it.
LEMMA HasRows ==
    ASSUME TypeOK, AtMostOneRowPerWriter, NEW key \in Values
    PROVE  Shared!Has(key) <=> Matching(key) # {}
<1>1. ASSUME NEW w \in Writers
      PROVE  SharedRows[key][w] # Absent <=> RowsOf(w, key) # {}
  <2>1. \A val \in Vals : val # Absent
    BY StoreAssumption DEF Vals
  <2>2. SharedRows[key][w] = SharedAt(w, key)
    BY DEF SharedRows
  <2> QED BY <2>1, <2>2, OwnRow
<1>2. Matching(key) # {} <=> \E w \in Writers : RowsOf(w, key) # {}
  BY DEF Matching, RowsOf, TypeOK, Rows
<1> QED BY <1>1, <1>2 DEF Shared!Has

\* INSERT gives the key a row of the writer, who had none.
LEMMA InsertShares ==
    ASSUME TypeOK, AtMostOneRowPerWriter, NEW w \in Writers, NEW key \in Values,
           NEW cells \in Cells, KeyColumn \in DOMAIN cells, cells[KeyColumn] = key,
           RowsOf(w, key) = {}, InsertRows(w, cells)
    PROVE  /\ SharedRows[key][w] = Absent
           /\ SharedRows' = [SharedRows EXCEPT ![key][w] =
                               Shared!Given([c \in Columns |-> Null], cells)]
<1> DEFINE val == Given([c \in Columns |-> Null], cells)
           new == [idx |-> nextIdx, by |-> w, val |-> val]
<1>1. val[KeyColumn] = key
  BY ColumnsAssumption DEF Given
<1>2. new.val = val /\ new.by = w
  OBVIOUS
<1>3. rows' = rows \cup {new}
  BY DEF InsertRows
<1>4. val = Shared!Given([c \in Columns |-> Null], cells)
  BY DEF Given, Shared!Given
<1> HIDE DEF val, new
<1>5. RowsOf(w, key)' = {new}
  BY <1>1, <1>2, <1>3 DEF RowsOf, Matching
<1>6. SharedAt(w, key)' = val
  <2>1. (CHOOSE p \in {new} : TRUE) = new
    OBVIOUS
  <2> QED BY <1>2, <1>5, <2>1 DEF SharedAt
<1>7. ASSUME NEW k \in Values, NEW v \in Writers, k # key \/ v # w
      PROVE  SharedAt(v, k)' = SharedAt(v, k)
  <2>1. RowsOf(v, k)' = RowsOf(v, k)
    BY <1>1, <1>2, <1>3, <1>7 DEF RowsOf, Matching
  <2> QED BY <2>1 DEF SharedAt
<1>8. SharedRows[key][w] = Absent
  BY OwnRow DEF SharedRows
<1>9. SharedRows' = [SharedRows EXCEPT ![key][w] = val]
  BY <1>6, <1>7 DEF SharedRows
<1> QED BY <1>4, <1>8, <1>9

\* UPDATE reaches every row of the key.
LEMMA UpdateShares ==
    ASSUME TypeOK, AtMostOneRowPerWriter, NEW key \in Values, NEW cells \in Cells,
           KeyColumn \in DOMAIN cells => cells[KeyColumn] = key, UpdateRows(key, cells)
    PROVE  Shared!Put(key, cells)
<1> DEFINE new(r) == [r EXCEPT !.val = Given(r.val, cells)]
<1>1. rows' = (rows \ Matching(key)) \cup {new(r) : r \in Matching(key)}
  BY DEF UpdateRows
<1>2. ASSUME NEW r \in Matching(key)
      PROVE  /\ new(r).val = Given(r.val, cells) /\ new(r).by = r.by
             /\ new(r).val[KeyColumn] = key
  <2>1. r \in [idx : Nat, by : Writers, val : Vals] /\ r.val[KeyColumn] = key
    BY DEF Matching, TypeOK, Rows, Vals
  <2>2. new(r).val = Given(r.val, cells) /\ new(r).by = r.by
    BY <2>1
  <2>3. Given(r.val, cells)[KeyColumn] = key
    BY <2>1, ColumnsAssumption DEF Given
  <2> QED BY <2>2, <2>3
<1> HIDE DEF new
<1>3. ASSUME NEW k \in Values, NEW v \in Writers, k # key
      PROVE  SharedAt(v, k)' = SharedAt(v, k)
  <2>1. RowsOf(v, k)' = RowsOf(v, k)
    BY <1>1, <1>2, <1>3 DEF RowsOf, Matching
  <2> QED BY <2>1 DEF SharedAt
<1>4. ASSUME NEW v \in Writers
      PROVE  SharedAt(v, key)' = IF SharedAt(v, key) = Absent THEN Absent
                                 ELSE Shared!Given(SharedAt(v, key), cells)
  <2>1. CASE RowsOf(v, key) = {}
    <3>1. RowsOf(v, key)' = {}
      BY <1>1, <1>2, <2>1 DEF RowsOf, Matching
    <3> QED BY <2>1, <3>1 DEF SharedAt
  <2>2. CASE RowsOf(v, key) # {}
    <3>1. PICK r \in RowsOf(v, key) : TRUE
      BY <2>2
    <3>2. RowsOf(v, key) = {r} /\ r.val \in Vals /\ SharedAt(v, key) = r.val
      BY OwnRow
    <3>3. SharedAt(v, key) # Absent
      BY <3>2, StoreAssumption DEF Vals
    <3>4. r \in Matching(key)
      BY DEF RowsOf
    <3>5. RowsOf(v, key)' = {new(r)}
      BY <1>1, <1>2, <3>2, <3>4 DEF RowsOf, Matching
    <3>6. SharedAt(v, key)' = new(r).val
      <4>1. (CHOOSE p \in {new(r)} : TRUE) = new(r)
        OBVIOUS
      <4> QED BY <3>5, <4>1 DEF SharedAt
    <3>7. new(r).val = Shared!Given(r.val, cells)
      BY <1>2, <3>4 DEF Given, Shared!Given
    <3> QED BY <3>2, <3>3, <3>6, <3>7
  <2> QED BY <2>1, <2>2
<1>5. SharedRows' = [SharedRows EXCEPT ![key] =
        [v \in Writers |-> IF SharedRows[key][v] = Absent THEN Absent
                           ELSE Shared!Given(SharedRows[key][v], cells)]]
  BY <1>3, <1>4 DEF SharedRows
<1> QED BY <1>5 DEF Shared!Put

\* DELETE removes every row of the key.
LEMMA DeleteShares ==
    ASSUME NEW key \in Values, DeleteRows(key)
    PROVE  SharedRows' = [SharedRows EXCEPT ![key] = [v \in Writers |-> Absent]]
<1>1. rows' = rows \ Matching(key)
  BY DEF DeleteRows
<1>2. ASSUME NEW v \in Writers PROVE SharedAt(v, key)' = Absent
  <2>1. RowsOf(v, key)' = {}
    BY <1>1 DEF RowsOf, Matching
  <2> QED BY <2>1 DEF SharedAt
<1>3. ASSUME NEW k \in Values, NEW v \in Writers, k # key
      PROVE  SharedAt(v, k)' = SharedAt(v, k)
  <2>1. RowsOf(v, k)' = RowsOf(v, k)
    BY <1>1, <1>3 DEF RowsOf, Matching
  <2> QED BY <2>1 DEF SharedAt
<1> QED BY <1>2, <1>3 DEF SharedRows

----
\* What the course of a request does to the work of the store.

\* A step of w sets no other client's answer.
LEMMA StepStatus ==
    ASSUME TypeOK, NEW w \in Writers, Step(w)
    PROVE  statusOK' = [statusOK EXCEPT ![w] = statusOK'[w]]
<1>1. CASE statusOK' = statusOK
  BY <1>1 DEF TypeOK
<1>2. CASE \E ok : statusOK' = [statusOK EXCEPT ![w] = ok]
  <2>1. PICK ok : statusOK' = [statusOK EXCEPT ![w] = ok]
    BY <1>2
  <2>2. statusOK'[w] = ok
    BY <2>1 DEF TypeOK
  <2> QED BY <2>1, <2>2
<1>3. CASE \/ \E r \in AddRequests : BeginAdd(w, r)
           \/ \E r \in UpdateRequests : BeginUpdate(w, r)
           \/ \E k \in DeleteKeys : BeginDelete(w, k)
           \/ CheckConnect(w) \/ ConnectionBreaks(w)
  BY <1>1, <1>3 DEF BeginAdd, BeginUpdate, BeginDelete, CheckConnect, ConnectionBreaks, request
<1>4. CASE Return(w) \/ Restart(w)
  BY <1>2, <1>4 DEF Return, Restart, Idle
<1>5. CASE \E ok : EndRecord(w, ok) \/ EndRequest(w, ok)
  BY <1>2, <1>5 DEF EndRecord, EndRequest
<1>6. CASE \E ok, c : EndColumn(w, c, ok)
  BY <1>1, <1>5, <1>6 DEF EndColumn
<1>7. CASE Unconnected(w)
  BY <1>1, <1>5, <1>7 DEF Unconnected
<1>8. CASE \E fate, found : ReadNames(w, fate, found) \/ CreateTable(w, fate)
  BY <1>1, <1>8 DEF ReadNames, CreateTable, request
<1>9. CASE \E fate, c : ListExistColumns(w, fate) \/ AddNewColumn(w, fate, c)
  BY <1>1, <1>9 DEF ListExistColumns, AddNewColumn
<1>10. CASE \E fate : SelectKey(w, fate) \/ Insert(w, fate) \/ Overwrite(w, fate)
  BY <1>1, <1>5, <1>10 DEF SelectKey, Insert, Overwrite, request
<1>11. CASE \E fate, c : SelectForUpdate(w, fate) \/ UpdateColumn(w, fate, c)
  BY <1>1, <1>6, <1>11 DEF SelectForUpdate, UpdateColumn, request
<1>12. CASE \E fate : SelectForDelete(w, fate) \/ DeleteRow(w, fate)
  BY <1>1, <1>5, <1>12 DEF SelectForDelete, DeleteRow, request
<1> QED
  BY <1>3, <1>4, <1>7, <1>8, <1>9, <1>10, <1>11, <1>12 DEF Step

\* Whatever the step, it is the turn of w and of no other client.
LEMMA StepTurns ==
    ASSUME TypeOK, NEW w \in Writers, Step(w)
    PROVE  Shared!Turn(w, SharedPoint(w)', SharedWork(w)', SharedLeft(w)', statusOK'[w])
<1>1. ASSUME NEW v \in Writers \ {w}
      PROVE  /\ SharedPoint(v)' = SharedPoint(v) /\ SharedWork(v)' = SharedWork(v)
             /\ SharedLeft(v)' = SharedLeft(v)
  <2>1. pc'[v] = pc[v] /\ queue'[v] = queue[v] /\ rec'[v] = rec[v] /\ todo'[v] = todo[v]
    BY StepOthers DEF OthersUntouched
  <2> QED BY <2>1 DEF SharedPoint, SharedWork, SharedLeft
<1>2. statusOK' = [statusOK EXCEPT ![w] = statusOK'[w]]
  BY StepStatus
<1> QED BY <1>1, <1>2 DEF Shared!Turn

\* What the step has made of the thread of w, in terms of the store.
Turned(w, point, work, undone, ok) ==
    /\ SharedPoint(w)' = point /\ SharedWork(w)' = work
    /\ SharedLeft(w)' = undone /\ statusOK'[w] = ok

\* A step that leaves the rows and the work as they are is a stutter.
LEMMA SharedStutters ==
    ASSUME TypeOK, NEW w \in Writers, Step(w), rows' = rows,
           Turned(w, SharedPoint(w), SharedWork(w), SharedLeft(w), statusOK[w])
    PROVE  UNCHANGED Shared!vars
<1>1. ASSUME NEW v \in Writers
      PROVE  /\ SharedPoint(v)' = SharedPoint(v) /\ SharedWork(v)' = SharedWork(v)
             /\ SharedLeft(v)' = SharedLeft(v)
  <2>1. CASE v = w
    BY <2>1 DEF Turned
  <2>2. CASE v # w
    <3>1. pc'[v] = pc[v] /\ queue'[v] = queue[v] /\ rec'[v] = rec[v] /\ todo'[v] = todo[v]
      BY <2>2, StepOthers DEF OthersUntouched
    <3> QED BY <3>1 DEF SharedPoint, SharedWork, SharedLeft
  <2> QED BY <2>1, <2>2
<1>2. statusOK' = statusOK
  BY StepStatus DEF Turned, TypeOK
<1>3. SharedRows' = SharedRows
  BY SharedKept
<1> QED BY <1>1, <1>2, <1>3 DEF Shared!vars

LEMMA FirstAndRest ==
    ASSUME NEW S, NEW x \in S, NEW q \in Seq(S)
    PROVE  /\ Head(<<x>> \o q) = x /\ Tail(<<x>> \o q) = q
           /\ q # <<>> => <<Head(q)>> \o Tail(q) = q
           /\ <<x>> \o <<>> = <<x>>
OBVIOUS

\* The record in hand is the first of those unwritten.
LEMMA InHandNow ==
    ASSUME TypeOK, NEW w \in Writers, pc[w] \notin {"idle", "answered"}
    PROVE  /\ Shared!InHand(w) = rec[w] /\ Shared!Key(w) = rec[w].key
           /\ Tail(SharedWork(w)) = queue[w]
           /\ rec[w] \in Records /\ queue[w] \in Seq(Records)
<1>1. rec[w] \in Records /\ queue[w] \in Seq(Records)
  BY DEF TypeOK
<1>2. SharedWork(w) = <<rec[w]>> \o queue[w]
  BY DEF SharedWork
<1>3. Shared!InHand(w) = Head(SharedWork(w))
  BY DEF Shared!InHand
<1> QED BY <1>1, <1>2, <1>3, FirstAndRest DEF Shared!Key

\* putValueInTable returns: the record is decided, the next one is in hand.
LEMMA RecordTurned ==
    ASSUME TypeOK, NEW w \in Writers, ThreadKeyed(w), pc[w] \in AddPoints, NEW ok \in BOOLEAN,
           EndRecord(w, ok)
    PROVE  /\ Turned(w, IF queue[w] = <<>> THEN "answered" ELSE "key", queue[w], {}, ok)
           /\ ThreadReady(w)'
<1>1. queue[w] \in Seq(Records)
  BY DEF TypeOK
<1>2. statusOK'[w] = ok
  BY DEF EndRecord, TypeOK
<1>3. CASE queue[w] = <<>>
  <2>1. pc'[w] = "answered"
    BY <1>3 DEF EndRecord, Goto, TypeOK
  <2>2. SharedPoint(w)' = "answered" /\ SharedWork(w)' = <<>> /\ SharedLeft(w)' = {}
    BY <2>1 DEF SharedPoint, SharedWork, SharedLeft, Preparing
  <2>3. ThreadReady(w)'
    BY <2>1 DEF ThreadReady
  <2> QED BY <1>2, <1>3, <2>2, <2>3 DEF Turned
<1>4. CASE queue[w] # <<>>
  <2>1. TakeRecord(w, queue[w], rec[w].key)
    BY <1>4 DEF EndRecord
  <2>2. pc'[w] = "names" /\ queue'[w] = Tail(queue[w])
    BY <2>1 DEF TakeRecord, Goto, TypeOK
  <2>3. Head(queue[w]) \in Records /\ Head(queue[w]).key # NoKey
    <3>1. 1 \in DOMAIN queue[w] /\ Head(queue[w]) = queue[w][1]
      BY <1>1, <1>4
    <3>2. queue[w][1].key # NoKey
      BY <3>1 DEF ThreadKeyed, CarriesKey
    <3> QED BY <1>1, <1>4, <3>1, <3>2
  <2>4. rec'[w] = Head(queue[w])
    <3>1. rec'[w] = [key |-> Head(queue[w]).key, cells |-> Head(queue[w]).cells]
      BY <2>1, <2>3 DEF TakeRecord, TypeOK
    <3> QED BY <2>3, <3>1 DEF Records
  <2>5. /\ SharedPoint(w)' = "key" /\ SharedLeft(w)' = {}
        /\ SharedWork(w)' = <<rec'[w]>> \o queue'[w]
    BY <2>2 DEF SharedPoint, SharedWork, SharedLeft, Preparing
  <2>6. SharedWork(w)' = queue[w]
    BY <1>1, <1>4, <2>2, <2>3, <2>4, <2>5, FirstAndRest
  <2>7. ThreadReady(w)'
    BY <2>2 DEF ThreadReady
  <2> QED BY <1>2, <1>4, <2>5, <2>6, <2>7 DEF Turned
<1> QED BY <1>3, <1>4

\* The store decides the record with it.
LEMMA RecordDecides ==
    ASSUME TypeOK, NEW w \in Writers, Step(w), pc[w] \in AddPoints, NEW ok \in BOOLEAN,
           Turned(w, IF queue[w] = <<>> THEN "answered" ELSE "key", queue[w], {}, ok)
    PROVE  Shared!Decide(w, ok)
<1>1. Tail(SharedWork(w)) = queue[w] /\ SharedLeft(w) = {}
  BY InHandNow DEF AddPoints, SharedLeft
<1>2. Shared!Turn(w, SharedPoint(w)', SharedWork(w)', SharedLeft(w)', statusOK'[w])
  BY StepTurns
<1> QED BY <1>1, <1>2 DEF Shared!Decide, Turned

\* update and delete end.
LEMMA RequestTurned ==
    ASSUME TypeOK, NEW w \in Writers, NEW ok \in BOOLEAN, EndRequest(w, ok)
    PROVE  Turned(w, "answered", <<>>, {}, ok) /\ ThreadReady(w)'
<1>1. statusOK'[w] = ok /\ pc'[w] = "answered"
  BY DEF EndRequest, Goto, TypeOK
<1> QED BY <1>1 DEF Turned, SharedPoint, SharedWork, SharedLeft, Preparing, ThreadReady

\* One column of an update is decided.
LEMMA ColumnDecides ==
    ASSUME TypeOK, NEW w \in Writers, Step(w), ThreadReady(w), pc[w] \in {"set_key", "set"},
           NEW c \in todo[w], NEW ok \in BOOLEAN, EndColumn(w, c, ok)
    PROVE  Shared!DecideColumn(w, c, ok) /\ c \in SharedLeft(w) /\ ThreadReady(w)'
<1>1. SharedLeft(w) = todo[w]
  BY DEF SharedLeft
<1>2. Shared!Turn(w, SharedPoint(w)', SharedWork(w)', SharedLeft(w)', statusOK'[w])
  BY StepTurns
<1>3. CASE todo[w] = {c}
  <2>1. Turned(w, "answered", <<>>, {}, ok) /\ ThreadReady(w)'
    BY <1>3, RequestTurned DEF EndColumn
  <2> QED BY <1>1, <1>2, <1>3, <2>1 DEF Shared!DecideColumn, Turned
<1>4. CASE todo[w] # {c}
  <2>1. /\ pc'[w] = "set_key" /\ rec' = rec /\ queue' = queue /\ statusOK' = statusOK
        /\ todo'[w] = todo[w] \ {c}
    BY <1>4 DEF EndColumn, Goto, TypeOK
  <2>2. Turned(w, "set_key", SharedWork(w), todo[w] \ {c}, statusOK[w])
    BY <2>1 DEF Turned, SharedPoint, SharedWork, SharedLeft, Preparing
  <2>3. ThreadReady(w)'
    BY <1>4, <2>1 DEF ThreadReady
  <2> QED BY <1>1, <1>2, <1>4, <2>2, <2>3 DEF Shared!DecideColumn, Turned
<1> QED BY <1>3, <1>4

----
\* One lemma per group of actions.

Shares(w) == (Shared!Step(w) \/ UNCHANGED Shared!vars) /\ ThreadReady(w)'

LEMMA SharedFacts ==
    ASSUME SharedInv, NEW w \in Writers
    PROVE  /\ TypeOK /\ AtMostOneRowPerWriter /\ ThreadKeyed(w) /\ NoRowYet(w) /\ ThreadReady(w)
           /\ rec[w] \in Records /\ rec[w].cells \in Cells /\ queue[w] \in Seq(Records)
           /\ pc[w] \in AddPoints => CarriesKey(rec[w]) /\ rec[w].key \in Values
<1>1. TypeOK /\ AtMostOneRowPerWriter /\ ThreadKeyed(w) /\ NoRowYet(w) /\ ThreadReady(w)
  BY DEF SharedInv, TypeInv, KeyInv
<1>2. /\ rec[w] \in Records /\ rec[w].cells \in Cells /\ rec[w].key \in Keys
      /\ queue[w] \in Seq(Records)
  BY <1>1 DEF TypeOK, Records
<1>3. pc[w] \in AddPoints => CarriesKey(rec[w])
  BY <1>1 DEF ThreadKeyed
<1> QED BY <1>1, <1>2, <1>3 DEF CarriesKey, Keys

\* A step that touches neither the request nor the rows.
LEMMA OutsideShares ==
    ASSUME SharedInv, NEW w \in Writers, Step(w), UNCHANGED <<pc, request, rows>>
    PROVE  Shares(w)
<1>1. ThreadReady(w)'
  BY SharedFacts DEF ThreadReady, request
<1>2. Turned(w, SharedPoint(w), SharedWork(w), SharedLeft(w), statusOK[w])
  BY DEF Turned, SharedPoint, SharedWork, SharedLeft, request
<1> QED BY <1>1, <1>2, SharedFacts, SharedStutters DEF Shares

\* The statements before insertRow.
LEMMA PreparationShares ==
    ASSUME SharedInv, NEW w \in Writers, Step(w), pc[w] \in Preparing,
           NEW point \in Preparing, Goto(w, point), UNCHANGED <<rows, rec, queue, statusOK>>
    PROVE  Shares(w)
<1>1. pc'[w] = point
  BY SharedFacts DEF Goto, TypeOK
<1>2. Turned(w, SharedPoint(w), SharedWork(w), SharedLeft(w), statusOK[w])
  BY <1>1 DEF Turned, SharedPoint, SharedWork, SharedLeft, Preparing
<1>3. ThreadReady(w)'
  BY <1>1 DEF ThreadReady, Preparing
<1> QED BY <1>2, <1>3, SharedFacts, SharedStutters DEF Shares

\* A record, a column or a deletion is refused.
LEMMA RefusalShares ==
    ASSUME SharedInv, NEW w \in Writers, Step(w), rows' = rows,
           \/ pc[w] \in AddPoints /\ EndRecord(w, FALSE)
           \/ pc[w] \in {"delete_key", "delete"} /\ EndRequest(w, FALSE)
           \/ pc[w] \in {"set_key", "set"} /\ \E c \in todo[w] : EndColumn(w, c, FALSE)
    PROVE  Shares(w)
<1>0. TypeOK /\ ThreadKeyed(w) /\ ThreadReady(w)
  BY SharedFacts
<1>1. SharedRows' = SharedRows
  BY SharedKept
<1>2. CASE pc[w] \in AddPoints /\ EndRecord(w, FALSE)
  <2>1. Shared!Decide(w, FALSE) /\ ThreadReady(w)'
    BY <1>0, <1>2, RecordTurned, RecordDecides
  <2>2. SharedPoint(w) \in {"key", "insert", "overwrite"}
    BY <1>2 DEF SharedPoint, Preparing, AddPoints
  <2> QED BY <1>1, <2>1, <2>2 DEF Shares, Shared!Step, Shared!Refuse
<1>3. CASE pc[w] \in {"delete_key", "delete"} /\ EndRequest(w, FALSE)
  <2>1. Turned(w, "answered", <<>>, {}, FALSE) /\ ThreadReady(w)'
    BY <1>0, <1>3, RequestTurned
  <2>2. Tail(SharedWork(w)) = <<>> /\ SharedLeft(w) = {} /\ SharedPoint(w) = pc[w]
    BY <1>0, <1>3, InHandNow DEF ThreadReady, SharedLeft, SharedPoint, Preparing
  <2>3. Shared!Turn(w, SharedPoint(w)', SharedWork(w)', SharedLeft(w)', statusOK'[w])
    BY <1>0, StepTurns
  <2>4. Shared!Decide(w, FALSE)
    BY <2>1, <2>2, <2>3 DEF Turned, Shared!Decide
  <2> QED BY <1>1, <1>3, <2>1, <2>2, <2>4 DEF Shares, Shared!Step, Shared!Refuse
<1>4. CASE pc[w] \in {"set_key", "set"} /\ \E c \in todo[w] : EndColumn(w, c, FALSE)
  <2>1. PICK c \in todo[w] : EndColumn(w, c, FALSE)
    BY <1>4
  <2>2. Shared!DecideColumn(w, c, FALSE) /\ c \in SharedLeft(w) /\ ThreadReady(w)'
    BY <1>0, <1>4, <2>1, ColumnDecides
  <2>3. SharedPoint(w) \in {"set_key", "set"}
    BY <1>4 DEF SharedPoint, Preparing
  <2> QED BY <1>1, <2>2, <2>3 DEF Shares, Shared!Step, Shared!RefuseColumn
<1> QED BY <1>2, <1>3, <1>4

\* An operation that finds no connection.
LEMMA UnconnectedShares ==
    ASSUME SharedInv, NEW w \in Writers, Step(w), Unconnected(w)
    PROVE  Shares(w)
<1>0. TypeOK /\ ThreadReady(w) /\ rows' = rows
  BY SharedFacts DEF Unconnected, database
<1>1. CASE pc[w] \in {"names", "columns", "key"} /\ EndRecord(w, FALSE)
  BY <1>0, <1>1, RefusalShares DEF AddPoints
<1>2. CASE pc[w] = "delete_key" /\ EndRequest(w, FALSE) /\ UNCHANGED todo
  BY <1>0, <1>2, RefusalShares
<1>3. ASSUME NEW c \in todo[w],
             \/ /\ pc[w] \in {"alter", "set_key"} /\ todo[w] # {c}
                /\ todo' = [todo EXCEPT ![w] = @ \ {c}]
                /\ UNCHANGED <<pc, checked, queue, rec, statusOK, refused>>
             \/ pc[w] = "alter" /\ todo[w] = {c} /\ EndRecord(w, FALSE)
             \/ /\ pc[w] = "set_key" /\ todo[w] = {c}
                /\ todo' = [todo EXCEPT ![w] = {}]
                /\ EndRequest(w, FALSE)
      PROVE  Shares(w)
  <2>1. CASE pc[w] = "alter" /\ EndRecord(w, FALSE)
    BY <1>0, <2>1, RefusalShares DEF AddPoints
  <2>2. CASE pc[w] = "alter" /\ UNCHANGED <<pc, queue, rec, statusOK>>
    <3>1. Turned(w, SharedPoint(w), SharedWork(w), SharedLeft(w), statusOK[w])
      BY <2>2 DEF Turned, SharedPoint, SharedWork, SharedLeft
    <3>2. ThreadReady(w)'
      BY <2>2 DEF ThreadReady
    <3> QED BY <1>0, <3>1, <3>2, SharedStutters DEF Shares
  <2>3. CASE /\ pc[w] = "set_key" /\ todo[w] = {c}
             /\ todo' = [todo EXCEPT ![w] = {}]
             /\ EndRequest(w, FALSE)
    <3>1. todo' = [todo EXCEPT ![w] = @ \ {c}]
      BY <2>3
    <3>2. EndColumn(w, c, FALSE)
      BY <2>3, <3>1 DEF EndColumn
    <3> QED BY <1>0, <2>3, <3>2, RefusalShares
  <2>4. CASE /\ pc[w] = "set_key" /\ todo[w] # {c}
             /\ todo' = [todo EXCEPT ![w] = @ \ {c}]
             /\ UNCHANGED <<pc, queue, rec, statusOK>>
    <3>1. todo'[w] = todo[w] \ {c}
      BY <1>0, <2>4 DEF TypeOK
    <3>2. SharedPoint(w) = "set_key" /\ SharedLeft(w) = todo[w]
      BY <2>4 DEF SharedPoint, SharedLeft, Preparing
    <3>3. Turned(w, "set_key", SharedWork(w), todo[w] \ {c}, statusOK[w])
      BY <2>4, <3>1 DEF Turned, SharedPoint, SharedWork, SharedLeft, Preparing
    <3>4. ThreadReady(w)'
      BY <1>0, <2>4, <3>1 DEF ThreadReady
    <3>5. Shared!Turn(w, SharedPoint(w)', SharedWork(w)', SharedLeft(w)', statusOK'[w])
      BY <1>0, StepTurns
    <3>6. Shared!DecideColumn(w, c, FALSE)
      BY <2>4, <3>2, <3>3, <3>5 DEF Turned, Shared!DecideColumn
    <3>7. SharedRows' = SharedRows
      BY <1>0, SharedKept
    <3> QED BY <3>2, <3>4, <3>6, <3>7 DEF Shares, Shared!Step, Shared!RefuseColumn
  <2> QED BY <1>3, <2>1, <2>2, <2>3, <2>4
<1> QED BY <1>1, <1>2, <1>3 DEF Unconnected

\* The SELECTs of insertRow, updateColumn and deleteRow are the client's look.
LEMMA SelectShares ==
    ASSUME SharedInv, NEW w \in Writers, Step(w), NEW fate,
           SelectKey(w, fate) \/ SelectForUpdate(w, fate) \/ SelectForDelete(w, fate)
    PROVE  Shares(w)
<1>0. TypeOK /\ ThreadReady(w) /\ rows' = rows
  BY SharedFacts DEF SelectKey, SelectForUpdate, SelectForDelete, database
<1>1. SharedRows' = SharedRows
  BY <1>0, SharedKept
<1>2. Shared!Turn(w, SharedPoint(w)', SharedWork(w)', SharedLeft(w)', statusOK'[w])
  BY <1>0, StepTurns
<1>3. CASE SelectKey(w, fate)
  <2>1. pc[w] = "key" /\ pc[w] \in AddPoints
    BY <1>3 DEF SelectKey, AddPoints
  <2>2. CASE EndRecord(w, FALSE)
    BY <1>0, <2>1, <2>2, RefusalShares
  <2>3. CASE /\ Goto(w, IF Matching(rec[w].key) = {} THEN "insert" ELSE "overwrite")
             /\ UNCHANGED <<request, refused>>
    <3>1. pc'[w] = (IF Matching(rec[w].key) = {} THEN "insert" ELSE "overwrite")
          /\ UNCHANGED request
      BY <1>0, <2>3 DEF Goto, TypeOK
    <3>2. Shared!Has(rec[w].key) <=> Matching(rec[w].key) # {}
      BY <2>1, SharedFacts, HasRows
    <3>3. Turned(w, IF Shared!Has(rec[w].key) THEN "overwrite" ELSE "insert",
                 SharedWork(w), SharedLeft(w), statusOK[w])
      BY <2>1, <3>1, <3>2 DEF Turned, SharedPoint, SharedWork, SharedLeft, Preparing, request
    <3>4. ThreadReady(w)'
      BY <3>1 DEF ThreadReady
    <3>5. SharedPoint(w) = "key" /\ Shared!Key(w) = rec[w].key
      BY <1>0, <2>1, InHandNow DEF SharedPoint, Preparing
    <3>6. Shared!LookForKey(w)
      BY <1>1, <1>2, <3>3, <3>5 DEF Turned, Shared!LookForKey, Shared!Look
    <3> QED BY <3>4, <3>6 DEF Shares, Shared!Step
  <2> QED BY <1>3, <2>2, <2>3 DEF SelectKey
<1>4. ASSUME NEW point \in {"set", "delete"}, Goto(w, point), UNCHANGED <<request, refused>>,
             pc[w] = IF point = "set" THEN "set_key" ELSE "delete_key",
             Matching(rec[w].key) # {}
      PROVE  Shares(w)
  <2>1. pc'[w] = point /\ UNCHANGED request
    BY <1>0, <1>4 DEF Goto, TypeOK
  <2>2. rec[w].key \in Values
    BY <1>0, <1>4 DEF ThreadReady
  <2>3. Shared!Has(Shared!Key(w))
    <3>1. Shared!Key(w) = rec[w].key
      BY <1>0, <1>4, InHandNow
    <3> QED BY <1>4, <2>2, <3>1, SharedFacts, HasRows
  <2>4. Turned(w, point, SharedWork(w), SharedLeft(w), statusOK[w])
    BY <1>4, <2>1 DEF Turned, SharedPoint, SharedWork, SharedLeft, Preparing, request
  <2>5. ThreadReady(w)'
    BY <1>0, <1>4, <2>1 DEF ThreadReady, request
  <2>6. SharedPoint(w) = pc[w]
    BY <1>4 DEF SharedPoint, Preparing
  <2>7. Shared!Find(w)
    BY <1>1, <1>2, <1>4, <2>3, <2>4, <2>6 DEF Turned, Shared!Find, Shared!Look
  <2> QED BY <2>5, <2>7 DEF Shares, Shared!Step
<1>5. CASE SelectForUpdate(w, fate)
  <2>1. CASE \E c \in todo[w] : EndColumn(w, c, FALSE)
    BY <1>0, <1>5, <2>1, RefusalShares DEF SelectForUpdate
  <2>2. CASE Goto(w, "set") /\ UNCHANGED <<request, refused>> /\ Matching(rec[w].key) # {}
    BY <1>4, <1>5, <2>2 DEF SelectForUpdate
  <2> QED BY <1>5, <2>1, <2>2 DEF SelectForUpdate
<1>6. CASE SelectForDelete(w, fate)
  <2>1. CASE EndRequest(w, FALSE)
    BY <1>0, <1>6, <2>1, RefusalShares DEF SelectForDelete
  <2>2. CASE Goto(w, "delete") /\ UNCHANGED <<request, refused>> /\ Matching(rec[w].key) # {}
    BY <1>4, <1>6, <2>2 DEF SelectForDelete
  <2> QED BY <1>6, <2>1, <2>2 DEF SelectForDelete
<1> QED BY <1>3, <1>5, <1>6

\* INSERT and UPDATE write the record, or refuse it.
LEMMA WriteShares ==
    ASSUME SharedInv, NEW w \in Writers, Step(w), NEW fate, Insert(w, fate) \/ Overwrite(w, fate)
    PROVE  Shares(w)
<1>0. /\ TypeOK /\ AtMostOneRowPerWriter /\ ThreadKeyed(w) /\ NoRowYet(w)
      /\ pc[w] \in AddPoints /\ CarriesKey(rec[w]) /\ rec[w].key \in Values
      /\ rec[w].cells \in Cells
  <2>1. pc[w] \in AddPoints
    BY DEF Insert, Overwrite, AddPoints
  <2> QED BY <2>1, SharedFacts
<1>1. PICK ok \in BOOLEAN : ok = (fate = "done" /\ Writable(rec[w].cells))
  OBVIOUS
<1>2. EndRecord(w, ok)
  BY <1>1 DEF Insert, Overwrite
<1>3. CASE ~(Executed(fate) /\ Writable(rec[w].cells))
  <2>1. rows' = rows /\ ok = FALSE
    BY <1>1, <1>3 DEF Insert, Overwrite, database, Executed
  <2> QED BY <1>0, <1>2, <2>1, RefusalShares
<1>4. CASE Executed(fate) /\ Writable(rec[w].cells)
  <2>1. Shared!Decide(w, ok) /\ ThreadReady(w)'
    BY <1>0, <1>2, RecordTurned, RecordDecides
  <2>2. Shared!InHand(w) = rec[w] /\ Shared!Key(w) = rec[w].key
    BY <1>0, InHandNow DEF AddPoints
  <2>3. PICK key \in Values : key = rec[w].key
    BY <1>0
  <2>4. PICK cells \in Cells : cells = rec[w].cells
    BY <1>0
  <2>5. KeyColumn \in DOMAIN cells /\ cells[KeyColumn] = key
    BY <1>0, <2>3, <2>4 DEF CarriesKey
  <2>6. CASE Insert(w, fate)
    <3>1. InsertRows(w, cells) /\ pc[w] = "insert"
      BY <1>0, <1>4, <2>4, <2>6 DEF Insert, CarriesKey
    <3>2. RowsOf(w, key) = {}
      BY <1>0, <2>3, <3>1 DEF NoRowYet, RowsOf, Matching
    <3>3. /\ SharedRows[key][w] = Absent
          /\ SharedRows' = [SharedRows EXCEPT ![key][w] =
                              Shared!Given([c \in Columns |-> Null], cells)]
      BY <1>0, <2>5, <3>1, <3>2, InsertShares
    <3>4. SharedPoint(w) = "insert"
      BY <3>1 DEF SharedPoint, Preparing
    <3>5. Shared!Insert(w, ok)
      BY <2>1, <2>2, <2>3, <2>4, <3>3, <3>4 DEF Shared!Insert
    <3> QED BY <2>1, <3>5 DEF Shares, Shared!Step
  <2>7. CASE Overwrite(w, fate)
    <3>1. UpdateRows(key, cells) /\ pc[w] = "overwrite"
      BY <1>4, <2>3, <2>4, <2>7 DEF Overwrite
    <3>2. Shared!Put(key, cells)
      BY <1>0, <2>5, <3>1, UpdateShares
    <3>3. SharedPoint(w) = "overwrite"
      BY <3>1 DEF SharedPoint, Preparing
    <3>4. Shared!Overwrite(w, ok)
      BY <2>1, <2>2, <2>3, <2>4, <3>2, <3>3 DEF Shared!Overwrite
    <3> QED BY <2>1, <3>4 DEF Shares, Shared!Step
  <2> QED BY <2>6, <2>7
<1> QED BY <1>3, <1>4

\* UPDATE of one column sets it, or leaves it.
LEMMA ColumnShares ==
    ASSUME SharedInv, NEW w \in Writers, Step(w), NEW fate, NEW c \in Columns,
           UpdateColumn(w, fate, c)
    PROVE  Shares(w)
<1>0. /\ TypeOK /\ AtMostOneRowPerWriter /\ ThreadReady(w) /\ ThreadKeyed(w)
      /\ pc[w] = "set" /\ c \in todo[w] /\ rec[w].key \in Values /\ rec[w].cells \in Cells
  <2>1. pc[w] = "set" /\ c \in todo[w]
    BY DEF UpdateColumn
  <2> QED BY <2>1, SharedFacts DEF ThreadReady
<1>1. PICK ok \in BOOLEAN : ok = (fate = "done" /\ c \in columns)
  OBVIOUS
<1>2. EndColumn(w, c, ok)
  BY <1>1 DEF UpdateColumn
<1>3. CASE ~(Executed(fate) /\ c \in columns)
  <2>1. rows' = rows /\ ok = FALSE
    BY <1>1, <1>3 DEF UpdateColumn, database, Executed
  <2> QED BY <1>0, <1>2, <2>1, RefusalShares
<1>4. CASE Executed(fate) /\ c \in columns
  <2>1. Shared!DecideColumn(w, c, ok) /\ c \in SharedLeft(w) /\ ThreadReady(w)'
    BY <1>0, <1>2, ColumnDecides
  <2>2. Shared!InHand(w) = rec[w] /\ Shared!Key(w) = rec[w].key
    BY <1>0, InHandNow
  <2>3. PICK key \in Values : key = rec[w].key
    BY <1>0
  <2>4. c \in DOMAIN rec[w].cells /\ c # KeyColumn
    BY <1>0 DEF SharedInv, TypeInv, SetsGivenColumns, ThreadKeyed
  <2>5. rec[w].cells[c] \in Values
    BY <1>0, <2>4 DEF Cells
  <2>6. [x \in {c} |-> rec[w].cells[c]] \in [{c} -> Values]
    BY <2>5
  <2>7. [x \in {c} |-> rec[w].cells[c]] \in Cells
    BY <2>6 DEF Cells
  <2>8. PICK cells \in Cells : cells = [x \in {c} |-> rec[w].cells[c]]
    BY <2>7
  <2>9. UpdateRows(key, cells)
    BY <1>4, <2>3, <2>8 DEF UpdateColumn
  <2>10. KeyColumn \notin DOMAIN cells
    BY <2>4, <2>8
  <2>11. Shared!Put(key, cells)
    BY <1>0, <2>9, <2>10, UpdateShares
  <2>12. SharedPoint(w) = "set"
    BY <1>0 DEF SharedPoint, Preparing
  <2>13. Shared!SetColumn(w, c, ok)
    BY <2>1, <2>2, <2>3, <2>8, <2>11, <2>12 DEF Shared!SetColumn
  <2> QED BY <2>1, <2>13 DEF Shares, Shared!Step
<1> QED BY <1>3, <1>4

\* DELETE removes the rows of the key, or leaves them.
LEMMA DeletionShares ==
    ASSUME SharedInv, NEW w \in Writers, Step(w), NEW fate, DeleteRow(w, fate)
    PROVE  Shares(w)
<1>0. TypeOK /\ ThreadReady(w) /\ pc[w] = "delete" /\ rec[w].key \in Values
  <2>1. pc[w] = "delete"
    BY DEF DeleteRow
  <2> QED BY <2>1, SharedFacts DEF ThreadReady
<1>1. PICK ok \in BOOLEAN : ok = (fate = "done")
  OBVIOUS
<1>2. EndRequest(w, ok)
  BY <1>1 DEF DeleteRow
<1>3. CASE ~Executed(fate)
  <2>1. rows' = rows /\ ok = FALSE
    BY <1>1, <1>3 DEF DeleteRow, database, Executed
  <2> QED BY <1>0, <1>2, <2>1, RefusalShares
<1>4. CASE Executed(fate)
  <2>1. Turned(w, "answered", <<>>, {}, ok) /\ ThreadReady(w)'
    BY <1>0, <1>2, RequestTurned
  <2>2. /\ Tail(SharedWork(w)) = <<>> /\ SharedLeft(w) = {} /\ SharedPoint(w) = "delete"
        /\ Shared!Key(w) = rec[w].key
    BY <1>0, InHandNow DEF ThreadReady, SharedLeft, SharedPoint, Preparing
  <2>3. Shared!Turn(w, SharedPoint(w)', SharedWork(w)', SharedLeft(w)', statusOK'[w])
    BY <1>0, StepTurns
  <2>4. Shared!Decide(w, ok)
    BY <2>1, <2>2, <2>3 DEF Turned, Shared!Decide
  <2>5. PICK key \in Values : key = rec[w].key
    BY <1>0
  <2>6. SharedRows' = [SharedRows EXCEPT ![key] = [v \in Writers |-> Absent]]
    BY <1>4, <2>5, DeleteShares DEF DeleteRow
  <2>7. Shared!Delete(w, ok)
    BY <2>2, <2>4, <2>5, <2>6 DEF Shared!Delete
  <2> QED BY <2>1, <2>7 DEF Shares, Shared!Step
<1> QED BY <1>3, <1>4

\* Requests begin and end.
LEMMA BeginShares ==
    ASSUME KeyedRequests, SharedInv, NEW w \in Writers, Step(w),
           \/ \E r \in AddRequests : BeginAdd(w, r)
           \/ \E r \in UpdateRequests : BeginUpdate(w, r)
           \/ \E k \in DeleteKeys : BeginDelete(w, k)
    PROVE  Shares(w)
<1>1. /\ TypeOK /\ pc[w] = "idle" /\ UNCHANGED <<rows, statusOK>>
      /\ SharedPoint(w) = "idle"
  BY SharedFacts DEF BeginAdd, BeginUpdate, BeginDelete, database, SharedPoint, Preparing
<1>2. rec[w] = NoRecord /\ queue[w] = <<>>
  BY <1>1, SharedFacts DEF ThreadReady
<1>3. SharedRows' = SharedRows
  BY <1>1, SharedKept
<1>4. Shared!Turn(w, SharedPoint(w)', SharedWork(w)', SharedLeft(w)', statusOK'[w])
  BY <1>1, StepTurns
<1>5. ASSUME NEW point, NEW work, NEW undone, Turned(w, point, work, undone, statusOK[w])
      PROVE  Shared!Begin(w, point, work, undone)
  BY <1>1, <1>3, <1>4, <1>5 DEF Turned, Shared!Begin
<1>6. CASE \E r \in AddRequests : BeginAdd(w, r)
  <2>1. PICK r \in AddRequests : BeginAdd(w, r)
    BY <1>6
  <2>2. r.items \in Seq(Records)
    BY RequestsAssumption
  <2>3. CASE r.items = <<>>
    <3>1. pc'[w] = "answered"
      BY <1>1, <2>1, <2>3 DEF BeginAdd, Goto, TypeOK
    <3>2. Turned(w, "answered", r.items, {}, statusOK[w])
      BY <1>1, <2>3, <3>1 DEF Turned, SharedPoint, SharedWork, SharedLeft, Preparing
    <3>3. Shared!BeginAdd(w, r)
      BY <1>5, <2>3, <3>2 DEF Shared!BeginAdd
    <3>4. ThreadReady(w)'
      BY <3>1 DEF ThreadReady
    <3> QED BY <3>3, <3>4 DEF Shares, Shared!Step
  <2>4. CASE r.items # <<>>
    <3>1. TakeRecord(w, r.items, r.key)
      BY <2>1, <2>4 DEF BeginAdd
    <3>2. pc'[w] = "names" /\ queue'[w] = Tail(r.items)
      BY <1>1, <3>1 DEF TakeRecord, Goto, TypeOK
    <3>3. Head(r.items) \in Records /\ Head(r.items).key # NoKey
      <4>1. 1 \in DOMAIN r.items /\ Head(r.items) = r.items[1]
        BY <2>2, <2>4
      <4>2. r.items[1].key # NoKey
        BY <4>1 DEF KeyedRequests
      <4> QED BY <2>2, <2>4, <4>1, <4>2
    <3>4. rec'[w] = Head(r.items)
      <4>1. rec'[w] = [key |-> Head(r.items).key, cells |-> Head(r.items).cells]
        BY <1>1, <3>1, <3>3 DEF TakeRecord, TypeOK
      <4> QED BY <3>3, <4>1 DEF Records
    <3>5. SharedWork(w)' = r.items
      <4>1. SharedWork(w)' = <<rec'[w]>> \o queue'[w]
        BY <3>2 DEF SharedWork
      <4> QED BY <2>2, <2>4, <3>2, <3>3, <3>4, <4>1, FirstAndRest
    <3>6. Turned(w, "key", r.items, {}, statusOK[w])
      BY <1>1, <3>2, <3>5 DEF Turned, SharedPoint, SharedLeft, Preparing
    <3>7. Shared!BeginAdd(w, r)
      BY <1>5, <2>4, <3>6 DEF Shared!BeginAdd
    <3>8. ThreadReady(w)'
      BY <3>2 DEF ThreadReady
    <3> QED BY <3>7, <3>8 DEF Shares, Shared!Step
  <2> QED BY <2>3, <2>4
<1>7. CASE \E r \in UpdateRequests : BeginUpdate(w, r)
  <2>1. PICK r \in UpdateRequests : BeginUpdate(w, r)
    BY <1>7
  <2>2. /\ rec'[w] = r /\ queue'[w] = <<>> /\ todo'[w] = DOMAIN r.cells
        /\ pc'[w] = IF DOMAIN r.cells = {} THEN "answered" ELSE "set_key"
    BY <1>1, <1>2, <2>1 DEF BeginUpdate, Goto, TypeOK
  <2>3. r \in Records /\ r.key \in Values
    BY RequestsAssumption DEF Records, Keys
  <2>4. ThreadReady(w)'
    BY <2>2, <2>3 DEF ThreadReady
  <2>5. CASE DOMAIN r.cells = {}
    <3>1. Turned(w, "answered", <<>>, {}, statusOK[w])
      BY <1>1, <2>2, <2>5 DEF Turned, SharedPoint, SharedWork, SharedLeft, Preparing
    <3>2. Shared!BeginUpdate(w, r)
      BY <1>5, <2>5, <3>1 DEF Shared!BeginUpdate
    <3> QED BY <2>4, <3>2 DEF Shares, Shared!Step
  <2>6. CASE DOMAIN r.cells # {}
    <3>1. SharedWork(w)' = <<r>>
      BY <2>2, <2>3, <2>6, FirstAndRest DEF SharedWork
    <3>2. Turned(w, "set_key", <<r>>, DOMAIN r.cells, statusOK[w])
      BY <1>1, <2>2, <2>6, <3>1 DEF Turned, SharedPoint, SharedLeft, Preparing
    <3>3. Shared!BeginUpdate(w, r)
      BY <1>5, <2>6, <3>2 DEF Shared!BeginUpdate
    <3> QED BY <2>4, <3>3 DEF Shares, Shared!Step
  <2> QED BY <2>5, <2>6
<1>8. CASE \E k \in DeleteKeys : BeginDelete(w, k)
  <2>1. PICK k \in DeleteKeys : BeginDelete(w, k)
    BY <1>8
  <2> DEFINE r == [key |-> k, cells |-> [c \in {} |-> Null]]
  <2>2. rec'[w] = r /\ queue'[w] = <<>> /\ pc'[w] = "delete_key"
    BY <1>1, <1>2, <2>1 DEF BeginDelete, Goto, TypeOK, NoRecord
  <2>3. k \in Values /\ r.key = k
    BY RequestsAssumption
  <2> HIDE DEF r
  <2>4. SharedWork(w)' = <<r>>
    BY <2>2 DEF SharedWork
  <2>5. Turned(w, "delete_key", <<r>>, {}, statusOK[w])
    BY <1>1, <2>2, <2>4 DEF Turned, SharedPoint, SharedLeft, Preparing
  <2>6. Shared!BeginDelete(w, r)
    BY <1>5, <2>5 DEF Shared!BeginDelete
  <2>7. ThreadReady(w)'
    BY <2>2, <2>3 DEF ThreadReady
  <2> QED BY <2>6, <2>7 DEF Shares, Shared!Step, r
<1> QED BY <1>6, <1>7, <1>8

LEMMA EndShares ==
    ASSUME SharedInv, NEW w \in Writers, Step(w), pc[w] # "idle", Idle(w), rows' = rows
    PROVE  Shares(w)
<1>0. TypeOK
  BY SharedFacts
<1>1. /\ pc'[w] = "idle" /\ rec'[w] = NoRecord /\ queue'[w] = <<>> /\ statusOK'[w] = FALSE
  BY <1>0 DEF Idle, Goto, TypeOK
<1>2. Turned(w, "idle", <<>>, {}, FALSE) /\ ThreadReady(w)'
  BY <1>1 DEF Turned, SharedPoint, SharedWork, SharedLeft, Preparing, ThreadReady
<1>3. SharedPoint(w) # "idle" /\ SharedRows' = SharedRows
  BY SharedKept DEF SharedPoint, Preparing
<1>4. Shared!Turn(w, SharedPoint(w)', SharedWork(w)', SharedLeft(w)', statusOK'[w])
  BY <1>0, StepTurns
<1>5. Shared!End(w)
  BY <1>2, <1>3, <1>4 DEF Turned, Shared!End
<1> QED BY <1>2, <1>5 DEF Shares, Shared!Step

LEMMA StepShares ==
    ASSUME KeyedRequests, SharedInv, NEW w \in Writers, Step(w)
    PROVE  Shares(w)
<1>1. CASE \/ \E r \in AddRequests : BeginAdd(w, r)
           \/ \E r \in UpdateRequests : BeginUpdate(w, r)
           \/ \E k \in DeleteKeys : BeginDelete(w, k)
  BY <1>1, BeginShares
<1>2. CASE Return(w) \/ Restart(w)
  BY <1>2, EndShares DEF Return, Restart, database
<1>3. CASE CheckConnect(w) \/ ConnectionBreaks(w)
  BY <1>3, OutsideShares DEF CheckConnect, ConnectionBreaks, database
<1>4. CASE Unconnected(w)
  BY <1>4, UnconnectedShares
<1>5. ASSUME NEW fate, NEW found, NEW c,
             \/ ReadNames(w, fate, found) \/ CreateTable(w, fate)
             \/ ListExistColumns(w, fate) \/ AddNewColumn(w, fate, c)
      PROVE  Shares(w)
  <2>1. UNCHANGED <<rows, rec, queue, statusOK>> /\ pc[w] \in Preparing
    BY <1>5 DEF ReadNames, CreateTable, ListExistColumns, AddNewColumn, database, request, Preparing
  <2>2. PICK point \in Preparing : Goto(w, point)
    BY <1>5 DEF ReadNames, CreateTable, ListExistColumns, AddNewColumn, Preparing
  <2> QED BY <2>1, <2>2, PreparationShares
<1>6. ASSUME NEW fate, NEW c \in Columns, UpdateColumn(w, fate, c)
      PROVE  Shares(w)
  BY <1>6, ColumnShares
<1>7. ASSUME NEW fate, \/ SelectKey(w, fate) \/ Insert(w, fate) \/ Overwrite(w, fate)
                       \/ SelectForUpdate(w, fate) \/ SelectForDelete(w, fate)
                       \/ DeleteRow(w, fate)
      PROVE  Shares(w)
  BY <1>7, SelectShares, WriteShares, DeletionShares
<1> QED BY <1>1, <1>2, <1>3, <1>4, <1>5, <1>6, <1>7 DEF Step

LEMMA SharedInit == Init => Shared!Init /\ \A w \in Writers : ThreadReady(w)
<1> SUFFICES ASSUME Init PROVE Shared!Init /\ \A w \in Writers : ThreadReady(w)
  OBVIOUS
<1>1. /\ rows = {} /\ statusOK = [w \in Writers |-> FALSE]
      /\ \A w \in Writers : pc[w] = "idle" /\ rec[w] = NoRecord /\ queue[w] = <<>>
  BY DEF Init
<1>2. SharedRows = [key \in Values |-> [w \in Writers |-> Absent]]
  BY <1>1 DEF SharedRows, SharedAt, RowsOf, Matching
<1>3. \A w \in Writers : SharedPoint(w) = "idle" /\ SharedWork(w) = <<>> /\ SharedLeft(w) = {}
  BY <1>1 DEF SharedPoint, SharedWork, SharedLeft, Preparing
<1>4. \A w \in Writers : ThreadReady(w)
  BY <1>1 DEF ThreadReady
<1> QED BY <1>1, <1>2, <1>3, <1>4 DEF Shared!Init

LEMMA SharedNext ==
    ASSUME KeyedRequests, SharedInv, [Next]_vars
    PROVE  [Shared!Next]_Shared!vars /\ \A w \in Writers : ThreadReady(w)'
<1>1. ASSUME NEW w \in Writers, Step(w)
      PROVE  [Shared!Next]_Shared!vars /\ \A v \in Writers : ThreadReady(v)'
  <2>1. Shares(w)
    BY <1>1, StepShares
  <2>2. ASSUME NEW v \in Writers \ {w} PROVE ThreadReady(v)'
    <3>1. pc'[v] = pc[v] /\ queue'[v] = queue[v] /\ rec'[v] = rec[v] /\ todo'[v] = todo[v]
      BY <1>1, SharedFacts, StepOthers DEF OthersUntouched
    <3> QED BY <3>1, SharedFacts DEF ThreadReady
  <2> QED BY <2>1, <2>2 DEF Shares, Shared!Next
<1>2. CASE ServerStops \/ ServerStarts \/ UNCHANGED vars
  <2>1. UNCHANGED <<pc, request, rows>>
    BY <1>2 DEF ServerStops, ServerStarts, vars, database
  <2>2. \A w \in Writers : ThreadReady(w)'
    BY <2>1 DEF SharedInv, ThreadReady, request
  <2>3. SharedRows' = SharedRows
    BY <2>1, SharedKept
  <2>4. UNCHANGED Shared!vars
    BY <2>1, <2>3 DEF Shared!vars, SharedPoint, SharedWork, SharedLeft, request
  <2> QED BY <2>2, <2>4
<1> QED BY <1>1, <1>2 DEF Next

\* Instances that write one keyed table at once see a shared store, for every number
\* of instances, columns and values, every mix of keyed requests and every number of
\* broken connections, lost answers, outages and restarts between the statements.
THEOREM WritersShareAStore == KeyedRequests => (Spec => ImplementsSharedStore)
<1> SUFFICES ASSUME KeyedRequests PROVE Spec => ImplementsSharedStore
  OBVIOUS
<1>1. Init => SharedInv /\ Shared!Init
  BY TypeInvInit, KeyInvInit, SharedInit DEF SharedInv
<1>2. SharedInv /\ [Next]_vars => SharedInv' /\ [Shared!Next]_Shared!vars
  <2> SUFFICES ASSUME SharedInv, [Next]_vars
               PROVE  SharedInv' /\ [Shared!Next]_Shared!vars
    OBVIOUS
  <2>1. TypeInv' /\ KeyInv'
    BY TypeInvNext, KeyInvNext DEF SharedInv
  <2>2. [Shared!Next]_Shared!vars /\ \A w \in Writers : ThreadReady(w)'
    BY SharedNext
  <2> QED BY <2>1, <2>2 DEF SharedInv
<1> QED BY <1>1, <1>2, PTL DEF Spec, ImplementsSharedStore, Shared!Spec

----
\* Requests end: what each statement leaves to be done.

LEMMA UndoneCounts ==
    ASSUME TypeOK, NEW w \in Writers
    PROVE  /\ IsFiniteSet(todo[w]) /\ Cardinality(todo[w]) \in Nat
           /\ Cardinality(Columns) \in Nat
           /\ \A c \in todo[w] : Cardinality(todo[w] \ {c}) = Cardinality(todo[w]) - 1
<1>1. todo[w] \subseteq Columns
  BY DEF TypeOK
<1>2. IsFiniteSet(todo[w])
  BY <1>1, ColumnsAssumption, FS_Subset
<1>3. ASSUME NEW c \in todo[w]
      PROVE  Cardinality(todo[w] \ {c}) = Cardinality(todo[w]) - 1
  BY <1>2, FS_RemoveElement
<1> QED BY <1>2, <1>3, ColumnsAssumption, FS_CardinalityType

\* The bound is a natural number at every point.
LEMMA StatementsCount ==
    ASSUME TypeOK, NEW w \in Writers
    PROVE  StatementsLeft(w) \in Nat /\ StepsLeft(w) \in Nat
<1>1. Cardinality(todo[w]) \in Nat /\ Cardinality(Columns) \in Nat
  BY UndoneCounts
<1>2. pc[w] \in Points /\ checked[w] \in BOOLEAN
  BY DEF TypeOK
<1>3. StatementsLeft(w) \in Nat
  BY <1>1, <1>2 DEF StatementsLeft, Points, OperationStarts
<1> QED BY <1>2, <1>3 DEF StepsLeft

Advances(w) ==
    \/ UNCHANGED <<pc[w], checked[w], queue[w], rec[w], todo[w]>>
    \/ Len(queue'[w]) < Len(queue[w])
    \/ queue'[w] = queue[w] /\ StepsLeft(w)' < StepsLeft(w)

\* A statement less outweighs the check of the connection before the next one.
LEMMA StatementAdvances ==
    ASSUME TypeOK, TypeOK', NEW w \in Writers, queue'[w] = queue[w],
           StatementsLeft(w)' < StatementsLeft(w)
    PROVE  Advances(w)
<1>1. StatementsLeft(w) \in Nat /\ StatementsLeft(w)' \in Nat
  <2>1. Cardinality(todo'[w]) \in Nat /\ pc'[w] \in Points /\ Cardinality(Columns) \in Nat
    <3>1. todo'[w] \subseteq Columns /\ pc'[w] \in Points
      BY DEF TypeOK
    <3> QED BY <3>1, ColumnsAssumption, FS_Subset, FS_CardinalityType
  <2>2. StatementsLeft(w)' \in Nat
    <3>1. PICK n \in Nat : n = Cardinality(todo'[w])
      BY <2>1
    <3>2. CASE pc'[w] \in {"names", "columns", "create", "alter", "key"}
      BY <2>1, <3>1, <3>2 DEF StatementsLeft
    <3>3. CASE pc'[w] \in {"insert", "overwrite", "set_key", "set", "delete_key", "delete"}
      BY <2>1, <3>1, <3>3 DEF StatementsLeft
    <3>4. CASE pc'[w] \in {"idle", "answered"}
      BY <3>4 DEF StatementsLeft
    <3> QED BY <2>1, <3>2, <3>3, <3>4 DEF Points, OperationStarts
  <2> QED BY <2>2, StatementsCount
<1>2. checked[w] \in BOOLEAN /\ checked'[w] \in BOOLEAN
  BY DEF TypeOK
<1>3. StepsLeft(w)' < StepsLeft(w)
  BY <1>1, <1>2 DEF StepsLeft
<1> QED BY <1>3 DEF Advances

LEMMA RecordAdvances ==
    ASSUME TypeOK, TypeOK', NEW w \in Writers, pc[w] \in AddPoints, NEW ok, EndRecord(w, ok)
    PROVE  Advances(w)
<1>1. queue[w] \in Seq(Records)
  BY DEF TypeOK
<1>2. CASE queue[w] # <<>>
  <2>1. queue'[w] = Tail(queue[w])
    BY <1>2 DEF EndRecord, TakeRecord, TypeOK
  <2> QED BY <1>1, <1>2, <2>1 DEF Advances
<1>3. CASE queue[w] = <<>>
  <2>1. pc'[w] = "answered" /\ queue'[w] = queue[w]
    BY <1>3 DEF EndRecord, Goto, TypeOK
  <2>2. StatementsLeft(w)' = 0
    BY <2>1 DEF StatementsLeft
  <2>3. StatementsLeft(w) > 0
    BY UndoneCounts DEF StatementsLeft, AddPoints
  <2> QED BY <2>1, <2>2, <2>3, StatementAdvances
<1> QED BY <1>2, <1>3

LEMMA RequestAdvances ==
    ASSUME TypeOK, TypeOK', NEW w \in Writers, NEW ok, EndRequest(w, ok),
           \/ pc[w] \in {"delete_key", "delete", "set_key"}
           \/ pc[w] = "set" /\ todo[w] # {}
    PROVE  Advances(w)
<1>1. pc'[w] = "answered" /\ queue'[w] = queue[w]
  BY DEF EndRequest, Goto, TypeOK
<1>2. StatementsLeft(w)' = 0
  BY <1>1 DEF StatementsLeft
<1>3. StatementsLeft(w) > 0
  <2>1. CASE pc[w] \in {"delete_key", "delete", "set_key"}
    BY <2>1, UndoneCounts DEF StatementsLeft
  <2>2. CASE pc[w] = "set" /\ todo[w] # {}
    <3>1. Cardinality(todo[w]) # 0 /\ Cardinality(todo[w]) \in Nat
      BY <2>2, UndoneCounts, FS_EmptySet
    <3> QED BY <2>2, <3>1 DEF StatementsLeft
  <2> QED BY <2>1, <2>2
<1> QED BY <1>1, <1>2, <1>3, StatementAdvances

LEMMA ColumnAdvances ==
    ASSUME TypeOK, TypeOK', NEW w \in Writers, pc[w] \in {"set_key", "set"},
           NEW c \in todo[w], NEW ok, EndColumn(w, c, ok)
    PROVE  Advances(w)
<1>1. CASE todo[w] = {c}
  BY <1>1, RequestAdvances DEF EndColumn
<1>2. CASE todo[w] # {c}
  <2>1. pc'[w] = "set_key" /\ queue'[w] = queue[w] /\ todo'[w] = todo[w] \ {c}
    BY <1>2 DEF EndColumn, Goto, TypeOK
  <2>2. Cardinality(todo'[w]) = Cardinality(todo[w]) - 1 /\ Cardinality(todo[w]) \in Nat
    BY <2>1, UndoneCounts
  <2>3. StatementsLeft(w)' < StatementsLeft(w)
    BY <2>1, <2>2 DEF StatementsLeft
  <2> QED BY <2>1, <2>3, StatementAdvances
<1> QED BY <1>1, <1>2

\* The statements before insertRow, and its SELECT.
LEMMA PutValueAdvances ==
    ASSUME TypeOK, TypeOK', NEW w \in Writers, NEW fate, NEW found, NEW c,
           \/ ReadNames(w, fate, found) \/ CreateTable(w, fate)
           \/ ListExistColumns(w, fate) \/ AddNewColumn(w, fate, c) \/ SelectKey(w, fate)
    PROVE  Advances(w)
<1>0. /\ Cardinality(todo[w]) \in Nat /\ Cardinality(Columns) \in Nat
      /\ \A x \in todo[w] : Cardinality(todo[w] \ {x}) = Cardinality(todo[w]) - 1
  BY UndoneCounts
<1>1. CASE ReadNames(w, fate, found)
  <2>1. /\ pc[w] = "names" /\ pc'[w] \in {"create", "columns", "key"}
        /\ queue'[w] = queue[w]
    BY <1>1 DEF ReadNames, Goto, TypeOK, request
  <2>2. StatementsLeft(w)' < StatementsLeft(w)
    BY <1>0, <2>1 DEF StatementsLeft
  <2> QED BY <2>1, <2>2, StatementAdvances
<1>2. CASE CreateTable(w, fate)
  <2>1. pc[w] = "create" /\ pc'[w] = "key" /\ queue'[w] = queue[w]
    BY <1>2 DEF CreateTable, Goto, TypeOK, request
  <2>2. StatementsLeft(w)' < StatementsLeft(w)
    BY <2>1 DEF StatementsLeft
  <2> QED BY <2>1, <2>2, StatementAdvances
<1>3. CASE ListExistColumns(w, fate)
  <2>1. pc[w] = "columns" /\ pc'[w] \in {"key", "alter"} /\ queue'[w] = queue[w]
    BY <1>3 DEF ListExistColumns, Goto, TypeOK
  <2>2. Cardinality(todo'[w]) \in Nat /\ Cardinality(todo'[w]) <= Cardinality(Columns)
    <3>1. todo'[w] \subseteq Columns
      BY DEF TypeOK
    <3> QED BY <3>1, ColumnsAssumption, FS_Subset, FS_CardinalityType
  <2>3. StatementsLeft(w)' < StatementsLeft(w)
    BY <1>0, <2>1, <2>2 DEF StatementsLeft
  <2> QED BY <2>1, <2>3, StatementAdvances
<1>4. CASE AddNewColumn(w, fate, c)
  <2>1. /\ pc[w] = "alter" /\ pc'[w] \in {"key", "alter"} /\ queue'[w] = queue[w]
        /\ c \in todo[w] /\ todo'[w] = todo[w] \ {c}
    BY <1>4 DEF AddNewColumn, Goto, TypeOK
  <2>2. Cardinality(todo'[w]) = Cardinality(todo[w]) - 1 /\ Cardinality(todo[w]) > 0
    <3>1. Cardinality(todo[w]) # 0
      BY <2>1, UndoneCounts, FS_EmptySet
    <3> QED BY <1>0, <2>1, <3>1
  <2>3. StatementsLeft(w)' < StatementsLeft(w)
    BY <1>0, <2>1, <2>2 DEF StatementsLeft
  <2> QED BY <2>1, <2>3, StatementAdvances
<1>5. CASE SelectKey(w, fate)
  <2>1. CASE EndRecord(w, FALSE)
    BY <1>5, <2>1, RecordAdvances DEF SelectKey, AddPoints
  <2>2. CASE /\ Goto(w, IF Matching(rec[w].key) = {} THEN "insert" ELSE "overwrite")
             /\ UNCHANGED <<request, refused>>
    <3>1. pc[w] = "key" /\ pc'[w] \in {"insert", "overwrite"} /\ queue'[w] = queue[w]
      BY <1>5, <2>2 DEF SelectKey, Goto, TypeOK, request
    <3>2. StatementsLeft(w)' < StatementsLeft(w)
      BY <3>1 DEF StatementsLeft
    <3> QED BY <3>1, <3>2, StatementAdvances
  <2> QED BY <1>5, <2>1, <2>2 DEF SelectKey
<1> QED BY <1>1, <1>2, <1>3, <1>4, <1>5

LEMMA UnconnectedAdvances ==
    ASSUME TypeOK, TypeOK', NEW w \in Writers, Unconnected(w)
    PROVE  Advances(w)
<1>1. CASE pc[w] \in {"names", "columns", "key"} /\ EndRecord(w, FALSE)
  BY <1>1, RecordAdvances DEF AddPoints
<1>2. CASE pc[w] = "delete_key" /\ EndRequest(w, FALSE)
  BY <1>2, RequestAdvances
<1>3. ASSUME NEW c \in todo[w],
             \/ /\ pc[w] \in {"alter", "set_key"} /\ todo[w] # {c}
                /\ todo' = [todo EXCEPT ![w] = @ \ {c}]
                /\ UNCHANGED <<pc, checked, queue, rec, statusOK, refused>>
             \/ pc[w] = "alter" /\ todo[w] = {c} /\ EndRecord(w, FALSE)
             \/ /\ pc[w] = "set_key" /\ todo[w] = {c}
                /\ todo' = [todo EXCEPT ![w] = {}]
                /\ EndRequest(w, FALSE)
      PROVE  Advances(w)
  <2>1. CASE pc[w] = "alter" /\ EndRecord(w, FALSE)
    BY <2>1, RecordAdvances DEF AddPoints
  <2>2. CASE pc[w] = "set_key" /\ EndRequest(w, FALSE)
    BY <2>2, RequestAdvances
  <2>3. CASE /\ pc[w] \in {"alter", "set_key"} /\ todo' = [todo EXCEPT ![w] = @ \ {c}]
             /\ UNCHANGED <<pc, checked, queue, rec, statusOK, refused>>
    <3>1. pc'[w] = pc[w] /\ queue'[w] = queue[w] /\ todo'[w] = todo[w] \ {c}
      BY <2>3 DEF TypeOK
    <3>2. Cardinality(todo'[w]) = Cardinality(todo[w]) - 1 /\ Cardinality(todo[w]) \in Nat
      BY <3>1, UndoneCounts
    <3>3. StatementsLeft(w)' < StatementsLeft(w)
      BY <2>3, <3>1, <3>2 DEF StatementsLeft
    <3> QED BY <3>1, <3>3, StatementAdvances
  <2> QED BY <1>3, <2>1, <2>2, <2>3
<1> QED BY <1>1, <1>2, <1>3 DEF Unconnected

LEMMA StepAdvances ==
    ASSUME TypeOK, TypeOK', NEW w \in Writers, Step(w),
           pc[w] \notin {"idle", "answered"}, pc'[w] # "idle"
    PROVE  Advances(w)
<1>1. ~Return(w) /\ ~Restart(w)
  BY DEF Return, Restart, Idle, Goto, TypeOK
<1>2. \A r : ~BeginAdd(w, r) /\ ~BeginUpdate(w, r) /\ ~BeginDelete(w, r)
  BY DEF BeginAdd, BeginUpdate, BeginDelete
<1>3. CASE CheckConnect(w)
  <2>1. pc'[w] = pc[w] /\ queue'[w] = queue[w] /\ todo'[w] = todo[w] /\ ~checked[w] /\ checked'[w]
    BY <1>3 DEF CheckConnect, request, TypeOK
  <2>2. StatementsLeft(w)' = StatementsLeft(w) /\ StatementsLeft(w) \in Nat
    BY <2>1, StatementsCount DEF StatementsLeft
  <2>3. StepsLeft(w)' < StepsLeft(w)
    BY <2>1, <2>2 DEF StepsLeft
  <2> QED BY <2>1, <2>3 DEF Advances
<1>4. CASE ConnectionBreaks(w)
  BY <1>4 DEF ConnectionBreaks, request, Advances
<1>5. CASE Unconnected(w)
  BY <1>5, UnconnectedAdvances
<1>6. ASSUME NEW fate, NEW found, NEW c,
             \/ ReadNames(w, fate, found) \/ CreateTable(w, fate)
             \/ ListExistColumns(w, fate) \/ AddNewColumn(w, fate, c) \/ SelectKey(w, fate)
      PROVE  Advances(w)
  BY <1>6, PutValueAdvances
<1>7. ASSUME NEW fate, Insert(w, fate) \/ Overwrite(w, fate)
      PROVE  Advances(w)
  <2>1. pc[w] \in AddPoints
    BY <1>7 DEF Insert, Overwrite, AddPoints
  <2>2. PICK ok : EndRecord(w, ok)
    BY <1>7 DEF Insert, Overwrite
  <2> QED BY <2>1, <2>2, RecordAdvances
<1>8. ASSUME NEW fate, NEW c, UpdateColumn(w, fate, c)
      PROVE  Advances(w)
  <2>1. pc[w] \in {"set_key", "set"} /\ c \in todo[w]
    BY <1>8 DEF UpdateColumn
  <2>2. PICK ok : EndColumn(w, c, ok)
    BY <1>8 DEF UpdateColumn
  <2> QED BY <2>1, <2>2, ColumnAdvances
<1>9. ASSUME NEW fate, SelectForUpdate(w, fate)
      PROVE  Advances(w)
  <2>1. pc[w] = "set_key"
    BY <1>9 DEF SelectForUpdate
  <2>2. CASE \E c \in todo[w] : EndColumn(w, c, FALSE)
    BY <2>1, <2>2, ColumnAdvances
  <2>3. CASE Goto(w, "set") /\ UNCHANGED <<request, refused>>
    <3>1. pc'[w] = "set" /\ queue'[w] = queue[w] /\ todo'[w] = todo[w]
      BY <2>3 DEF Goto, TypeOK, request
    <3>2. StatementsLeft(w)' < StatementsLeft(w)
      BY <2>1, <3>1, UndoneCounts DEF StatementsLeft
    <3> QED BY <3>1, <3>2, StatementAdvances
  <2> QED BY <1>9, <2>2, <2>3 DEF SelectForUpdate
<1>10. ASSUME NEW fate, SelectForDelete(w, fate) \/ DeleteRow(w, fate)
      PROVE  Advances(w)
  <2>1. pc[w] \in {"delete_key", "delete"}
    BY <1>10 DEF SelectForDelete, DeleteRow
  <2>2. CASE \E ok : EndRequest(w, ok)
    BY <2>1, <2>2, RequestAdvances
  <2>3. CASE pc[w] = "delete_key" /\ Goto(w, "delete") /\ UNCHANGED <<request, refused>>
    <3>1. pc'[w] = "delete" /\ queue'[w] = queue[w]
      BY <2>3 DEF Goto, TypeOK, request
    <3>2. StatementsLeft(w)' < StatementsLeft(w)
      BY <2>3, <3>1 DEF StatementsLeft
    <3> QED BY <3>1, <3>2, StatementAdvances
  <2> QED BY <1>10, <2>2, <2>3 DEF SelectForDelete, DeleteRow
<1> QED
  BY <1>1, <1>2, <1>3, <1>4, <1>5, <1>6, <1>7, <1>8, <1>9, <1>10 DEF Step

\* A step of one writer checks no other's connection.
LEMMA StepChecked ==
    ASSUME TypeOK, NEW w \in Writers, Step(w)
    PROVE  \A v \in Writers \ {w} : checked'[v] = checked[v]
<1>1. CASE checked' = checked
  BY <1>1
<1>2. CASE \E b : checked' = [checked EXCEPT ![w] = b]
  BY <1>2 DEF TypeOK
<1>3. CASE \E point : Goto(w, point)
  BY <1>2, <1>3 DEF Goto
<1>4. CASE \E ok, c : EndRecord(w, ok) \/ EndRequest(w, ok) \/ EndColumn(w, c, ok)
  BY <1>3, <1>4 DEF EndRecord, EndRequest, EndColumn, TakeRecord
<1>5. CASE \/ \E r \in AddRequests : BeginAdd(w, r)
           \/ \E r \in UpdateRequests : BeginUpdate(w, r)
           \/ \E k \in DeleteKeys : BeginDelete(w, k)
           \/ Return(w) \/ Restart(w)
  BY <1>3, <1>5 DEF BeginAdd, BeginUpdate, BeginDelete, Return, Restart, Idle, TakeRecord
<1>6. CASE CheckConnect(w) \/ ConnectionBreaks(w) \/ Unconnected(w)
  BY <1>1, <1>2, <1>4, <1>6 DEF CheckConnect, ConnectionBreaks, Unconnected
<1>7. ASSUME NEW fate, NEW found, NEW c,
             \/ ReadNames(w, fate, found) \/ CreateTable(w, fate)
             \/ ListExistColumns(w, fate) \/ AddNewColumn(w, fate, c)
      PROVE  \A v \in Writers \ {w} : checked'[v] = checked[v]
  BY <1>3, <1>7 DEF ReadNames, CreateTable, ListExistColumns, AddNewColumn
<1>8. ASSUME NEW fate, NEW c,
             \/ SelectKey(w, fate) \/ Insert(w, fate) \/ Overwrite(w, fate)
             \/ SelectForUpdate(w, fate) \/ UpdateColumn(w, fate, c)
             \/ SelectForDelete(w, fate) \/ DeleteRow(w, fate)
      PROVE  \A v \in Writers \ {w} : checked'[v] = checked[v]
  BY <1>3, <1>4, <1>8 DEF SelectKey, Insert, Overwrite, SelectForUpdate, UpdateColumn,
                          SelectForDelete, DeleteRow
<1> QED BY <1>5, <1>6, <1>7, <1>8 DEF Step

\* A request ends: for every number of writers, columns and records, and whatever
\* breaks, no step of its thread repeats or delays what it has still to do.
THEOREM RequestsEnd == Spec => RequestsAdvance
<1>1. TypeInv /\ [Next]_vars => TypeInv'
  BY TypeInvNext
<1>2. TypeInv /\ TypeInv' /\ [Next]_vars =>
        [\A w \in Writers :
           pc[w] \notin {"idle", "answered"} /\ pc'[w] # "idle" => Advances(w)]_vars
  <2> SUFFICES ASSUME TypeInv, TypeInv', Next, NEW w \in Writers,
                      pc[w] \notin {"idle", "answered"}, pc'[w] # "idle"
               PROVE  Advances(w)
    OBVIOUS
  <2>0. TypeOK /\ TypeOK'
    BY DEF TypeInv
  <2>1. CASE Step(w)
    BY <2>0, <2>1, StepAdvances
  <2>2. ASSUME NEW v \in Writers \ {w}, Step(v)
        PROVE  Advances(w)
    <3>1. pc'[w] = pc[w] /\ queue'[w] = queue[w] /\ rec'[w] = rec[w] /\ todo'[w] = todo[w]
      BY <2>0, <2>2, StepOthers DEF OthersUntouched
    <3>2. checked'[w] = checked[w]
      BY <2>0, <2>2, StepChecked
    <3> QED BY <3>1, <3>2 DEF Advances
  <2>3. CASE ServerStops \/ ServerStarts
    BY <2>3 DEF ServerStops, ServerStarts, request, Advances
  <2> QED BY <2>1, <2>2, <2>3 DEF Next
<1>3. Spec => []TypeInv
  BY TypeInvInit, TypeInvNext, PTL DEF Spec
<1>4. TypeInv /\ TypeInv' /\ [Next]_vars =>
        [\A w \in Writers :
           pc[w] \notin {"idle", "answered"} /\ pc'[w] # "idle" =>
             \/ UNCHANGED <<pc[w], checked[w], queue[w], rec[w], todo[w]>>
             \/ Len(queue'[w]) < Len(queue[w])
             \/ queue'[w] = queue[w] /\ StepsLeft(w)' < StepsLeft(w)]_vars
  BY <1>2 DEF Advances
<1> QED BY <1>3, <1>4, PTL DEF Spec, RequestsAdvance
====
