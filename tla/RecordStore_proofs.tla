---- MODULE RecordStore_proofs ----
(***************************************************************************)
(* RecordWriter with one writer implements KeyedStore, for every set of    *)
(* keyed requests and every number of faults.  Each action of the writer   *)
(* maps to the action of the store that decides the same record, column or *)
(* deletion, or to a stutter.  The last three sections say what faults     *)
(* cost: a record each, nothing that was acknowledged, a column each.      *)
(***************************************************************************)
EXTENDS RecordStore, RecordWriter_proofs

OneWriter == \E w : Writers = {w}

\* What the thread holds between requests and within one, and what its SELECT found.
Ready ==
    /\ pc[Writer] = "idle" =>
         rec[Writer] = NoRecord /\ queue[Writer] = <<>> /\ statusOK[Writer] = FALSE
    /\ Changing => queue[Writer] = <<>> /\ todo[Writer] # {} /\ rec[Writer].key \in Values
    /\ Removing => queue[Writer] = <<>> /\ rec[Writer].key \in Values
    /\ pc[Writer] \in {"overwrite", "set"} => Matching(rec[Writer].key) # {}

LEMMA TheWriter ==
    ASSUME OneWriter
    PROVE  Writer \in Writers /\ \A w \in Writers : w = Writer
PROOF
  BY DEF OneWriter, Writer

----
\* What statements do to the store.

LEMMA StoredKept ==
    ASSUME rows' = rows
    PROVE  Stored' = Stored
PROOF
  BY DEF Stored, StoredAt, Matching

\* With one writer a key has one row at most, and the store holds its values.
LEMMA OneRow ==
    ASSUME OneWriter, TypeOK, AtMostOneRowPerWriter, NEW key
    PROVE  /\ Matching(key) = {} => StoredAt(key) = Absent
           /\ \A r \in Matching(key) :
                Matching(key) = {r} /\ r.val \in Vals /\ StoredAt(key) = r.val
PROOF
  <1>1. ASSUME NEW r \in Matching(key)
        PROVE  Matching(key) = {r} /\ r.val \in Vals /\ StoredAt(key) = r.val
    <2>1. \A p \in Matching(key) : p \in rows /\ p.by \in Writers /\ p.val[KeyColumn] = key
      BY DEF Matching, TypeOK, Rows
    <2>2. \A p \in Matching(key) : p = r
      BY <2>1, TheWriter DEF AtMostOneRowPerWriter
    <2>3. Matching(key) = {r}
      BY <2>2
    <2>4. r.val \in Vals
      BY DEF Matching, TypeOK, Rows, Vals
    <2>5. (CHOOSE p \in Matching(key) : TRUE) = r
      BY <2>2
    <2> QED BY <2>3, <2>4, <2>5 DEF StoredAt
  <1> QED BY <1>1 DEF StoredAt

\* INSERT puts the record where there was none.
LEMMA InsertPuts ==
    ASSUME OneWriter, TypeOK, AtMostOneRowPerWriter, NEW key \in Values, NEW cells \in Cells,
           KeyColumn \in DOMAIN cells, cells[KeyColumn] = key,
           Matching(key) = {}, InsertRows(Writer, cells)
    PROVE  Store!Put(key, cells)
PROOF
  <1> DEFINE val == Given([c \in Columns |-> Null], cells)
             new == [idx |-> nextIdx, by |-> Writer, val |-> val]
  <1>1. val[KeyColumn] = key
    BY ColumnsAssumption DEF Given
  <1>2. new.val = val
    OBVIOUS
  <1>3. rows' = rows \cup {new}
    BY DEF InsertRows
  <1>4. val = [c \in Columns |-> IF c \in DOMAIN cells THEN cells[c] ELSE Null]
    BY DEF Given
  <1> HIDE DEF val, new
  <1>5. Matching(key)' = {new}
    BY <1>1, <1>2, <1>3 DEF Matching
  <1>6. StoredAt(key)' = val
    <2>1. (CHOOSE p \in {new} : TRUE) = new
      OBVIOUS
    <2> QED BY <1>2, <1>5, <2>1 DEF StoredAt
  <1>7. ASSUME NEW k \in Values, k # key
        PROVE  StoredAt(k)' = StoredAt(k)
    <2>1. Matching(k)' = Matching(k)
      BY <1>1, <1>2, <1>3, <1>7 DEF Matching
    <2> QED BY <2>1 DEF StoredAt
  <1>8. Stored[key] = Absent
    BY OneRow DEF Stored
  <1>9. Stored' = [Stored EXCEPT ![key] = val]
    BY <1>6, <1>7 DEF Stored
  <1>10. val = [c \in Columns |-> IF c \in DOMAIN cells THEN cells[c] ELSE Store!Old(key, c)]
    BY <1>4, <1>8 DEF Store!Old
  <1> QED BY <1>9, <1>10 DEF Store!Put

\* UPDATE puts the values it names into the one row of the key.
LEMMA UpdatePuts ==
    ASSUME OneWriter, TypeOK, AtMostOneRowPerWriter, NEW key \in Values, NEW cells \in Cells,
           KeyColumn \in DOMAIN cells => cells[KeyColumn] = key,
           Matching(key) # {}, UpdateRows(key, cells)
    PROVE  Store!Put(key, cells) /\ Stored[key] # Absent
PROOF
  <1>1. PICK r \in Matching(key) : TRUE
    OBVIOUS
  <1>2. Matching(key) = {r} /\ r.val \in Vals /\ StoredAt(key) = r.val
    BY OneRow
  <1> DEFINE val == Given(r.val, cells)
             new == [r EXCEPT !.val = val]
  <1>3. new.val = val
    <2>1. r \in [idx : Nat, by : Writers, val : Vals]
      BY DEF Matching, TypeOK, Rows, Vals
    <2> QED BY <2>1
  <1>4. r.val[KeyColumn] = key
    BY DEF Matching
  <1>5. val[KeyColumn] = key
    BY <1>4, ColumnsAssumption DEF Given
  <1>6. rows' = (rows \ {r}) \cup {new}
    BY <1>2 DEF UpdateRows
  <1>7. val = [c \in Columns |-> IF c \in DOMAIN cells THEN cells[c] ELSE r.val[c]]
    BY DEF Given
  <1> HIDE DEF val, new
  <1>8. Matching(key)' = {new}
    BY <1>2, <1>3, <1>5, <1>6 DEF Matching
  <1>9. StoredAt(key)' = val
    <2>1. (CHOOSE p \in {new} : TRUE) = new
      OBVIOUS
    <2> QED BY <1>3, <1>8, <2>1 DEF StoredAt
  <1>10. ASSUME NEW k \in Values, k # key
         PROVE  StoredAt(k)' = StoredAt(k)
    <2>1. Matching(k)' = Matching(k)
      BY <1>3, <1>4, <1>5, <1>6, <1>10 DEF Matching
    <2> QED BY <2>1 DEF StoredAt
  <1>11. Stored[key] = r.val /\ Stored[key] # Absent
    BY <1>2, StoreAssumption DEF Stored, Vals
  <1>12. Stored' = [Stored EXCEPT ![key] = val]
    BY <1>9, <1>10 DEF Stored
  <1>13. val = [c \in Columns |-> IF c \in DOMAIN cells THEN cells[c] ELSE Store!Old(key, c)]
    BY <1>7, <1>11 DEF Store!Old
  <1> QED BY <1>11, <1>12, <1>13 DEF Store!Put

LEMMA DeleteRemoves ==
    ASSUME NEW key \in Values, DeleteRows(key)
    PROVE  Stored' = [Stored EXCEPT ![key] = Absent]
PROOF
  <1>1. rows' = rows \ Matching(key)
    BY DEF DeleteRows
  <1>2. Matching(key)' = {}
    BY <1>1 DEF Matching
  <1>3. ASSUME NEW k \in Values, k # key
        PROVE  StoredAt(k)' = StoredAt(k)
    <2>1. Matching(k)' = Matching(k)
      BY <1>1, <1>3 DEF Matching
    <2> QED BY <2>1 DEF StoredAt
  <1>4. StoredAt(key)' = Absent
    BY <1>2 DEF StoredAt
  <1> QED BY <1>3, <1>4 DEF Stored

----
\* What the course of a request does to the work of the store.

LEMMA HeadAndTail ==
    ASSUME NEW S, NEW x \in S, NEW q \in Seq(S)
    PROVE  /\ Head(<<x>> \o q) = x /\ Tail(<<x>> \o q) = q
           /\ q # <<>> => <<Head(q)>> \o Tail(q) = q
PROOF
  OBVIOUS

\* The record in hand is the first of those unwritten.
LEMMA RecordInHand ==
    ASSUME OneWriter, TypeOK, Adding \/ Changing \/ Removing
    PROVE  /\ Store!InHand = rec[Writer]
           /\ Tail(Unwritten) = queue[Writer]
           /\ rec[Writer] \in Records
PROOF
  <1>1. rec[Writer] \in Records /\ queue[Writer] \in Seq(Records)
    BY TheWriter DEF TypeOK
  <1>2. Unwritten = <<rec[Writer]>> \o queue[Writer]
    BY DEF Unwritten
  <1> QED BY <1>1, <1>2, HeadAndTail DEF Store!InHand

\* Statements that decide nothing are stutters.
LEMMA Stutters ==
    ASSUME rows' = rows, rec'[Writer] = rec[Writer], queue'[Writer] = queue[Writer],
           statusOK'[Writer] = statusOK[Writer],
           \/ pc'[Writer] = pc[Writer] /\ todo'[Writer] = todo[Writer]
           \/ Adding /\ Adding'
           \/ Changing /\ Changing' /\ todo'[Writer] = todo[Writer]
           \/ Removing /\ Removing'
    PROVE  UNCHANGED Store!vars
PROOF
  <1>1. Stored' = Stored
    BY StoredKept
  <1>2. Adding' = Adding /\ Changing' = Changing /\ Removing' = Removing
    BY DEF Adding, Changing, Removing
  <1>3. Unwritten' = Unwritten
    BY <1>2 DEF Unwritten
  <1>4. Unset' = Unset
    BY DEF Unset, Adding, Changing, Removing
  <1>5. Doing' = Doing
    BY DEF Doing, Adding, Changing, Removing
  <1> QED BY <1>1, <1>3, <1>4, <1>5 DEF Store!vars

\* Points at which Ready asks for nothing.
LEMMA ReadyThere ==
    ASSUME pc'[Writer] \in (AddPoints \ {"overwrite"}) \cup {"answered"}
    PROVE  Ready'
PROOF
  BY DEF Ready, AddPoints, Changing, Removing

\* putValueInTable returns: the record is decided, the next one is in hand.
LEMMA RecordDecided ==
    ASSUME OneWriter, TypeOK, ThreadKeyed(Writer), Adding, NEW ok \in BOOLEAN,
           EndRecord(Writer, ok)
    PROVE  Doing = "adding" /\ Store!Decide(ok) /\ UNCHANGED Unset /\ Ready'
PROOF
  <1>1. Writer \in Writers /\ queue[Writer] \in Seq(Records)
    BY TheWriter DEF TypeOK
  <1>2. statusOK'[Writer] = ok
    BY <1>1 DEF EndRecord, TypeOK
  <1>3. Tail(Unwritten) = queue[Writer]
    BY RecordInHand
  <1>4. Doing = "adding" /\ Unset = {}
    BY DEF Doing, Unset, Adding, Changing
  <1>5. CASE queue[Writer] = <<>>
    <2>1. pc'[Writer] = "answered"
      BY <1>1, <1>5 DEF EndRecord, Goto, TypeOK
    <2>2. Doing' = "answered" /\ Unwritten' = <<>> /\ Unset' = {}
      BY <2>1 DEF Doing, Unwritten, Unset, Adding, Changing, Removing
    <2>3. Ready'
      BY <2>1, ReadyThere
    <2> QED BY <1>2, <1>3, <1>4, <1>5, <2>2, <2>3 DEF Store!Decide
  <1>6. CASE queue[Writer] # <<>>
    <2>1. TakeRecord(Writer, queue[Writer], rec[Writer].key)
      BY <1>6 DEF EndRecord
    <2>2. pc'[Writer] = "names" /\ queue'[Writer] = Tail(queue[Writer])
      BY <1>1, <2>1 DEF TakeRecord, Goto, TypeOK
    <2>3. Head(queue[Writer]) \in Records /\ Head(queue[Writer]).key # NoKey
      <3>1. 1 \in DOMAIN queue[Writer] /\ Head(queue[Writer]) = queue[Writer][1]
        BY <1>1, <1>6
      <3>2. queue[Writer][1].key # NoKey
        BY <3>1 DEF ThreadKeyed, CarriesKey
      <3> QED BY <1>1, <1>6, <3>1, <3>2
    <2>4. rec'[Writer] = Head(queue[Writer])
      <3>1. rec'[Writer] = [key |-> Head(queue[Writer]).key, cells |-> Head(queue[Writer]).cells]
        BY <1>1, <2>1, <2>3 DEF TakeRecord, TypeOK
      <3> QED BY <2>3, <3>1 DEF Records
    <2>5. Doing' = "adding" /\ Unset' = {} /\ Unwritten' = <<rec'[Writer]>> \o queue'[Writer]
      BY <2>2 DEF Doing, Unwritten, Unset, Adding, Changing, Removing
    <2>6. Unwritten' = queue[Writer]
      BY <1>1, <1>6, <2>2, <2>3, <2>4, <2>5, HeadAndTail
    <2>7. Ready'
      BY <2>2, ReadyThere DEF AddPoints
    <2> QED BY <1>2, <1>3, <1>4, <1>6, <2>5, <2>6, <2>7 DEF Store!Decide
  <1> QED BY <1>5, <1>6

\* update and delete end.
LEMMA RequestDecided ==
    ASSUME OneWriter, TypeOK, Ready, Changing \/ Removing, NEW ok \in BOOLEAN,
           EndRequest(Writer, ok)
    PROVE  Store!Decide(ok) /\ Unset' = {} /\ Ready'
PROOF
  <1>1. Writer \in Writers
    BY TheWriter
  <1>2. statusOK'[Writer] = ok /\ pc'[Writer] = "answered"
    BY <1>1 DEF EndRequest, Goto, TypeOK
  <1>3. Tail(Unwritten) = <<>>
    BY RecordInHand DEF Ready
  <1>4. Doing' = "answered" /\ Unwritten' = <<>> /\ Unset' = {}
    BY <1>2 DEF Doing, Unwritten, Unset, Adding, Changing, Removing
  <1>5. Ready'
    BY <1>2, ReadyThere
  <1> QED BY <1>2, <1>3, <1>4, <1>5 DEF Store!Decide

\* One column of an update is decided.
LEMMA ColumnDecided ==
    ASSUME OneWriter, TypeOK, Ready, Changing, NEW c \in todo[Writer], NEW ok \in BOOLEAN,
           EndColumn(Writer, c, ok)
    PROVE  Doing = "changing" /\ c \in Unset /\ Store!DecideColumn(c, ok) /\ Ready'
PROOF
  <1>1. Writer \in Writers
    BY TheWriter
  <1>2. todo'[Writer] = todo[Writer] \ {c}
    BY <1>1 DEF EndColumn, TypeOK
  <1>3. Doing = "changing" /\ Unset = todo[Writer]
    BY DEF Doing, Unset, Adding, Changing
  <1>4. CASE todo[Writer] = {c}
    <2>1. EndRequest(Writer, ok)
      BY <1>4 DEF EndColumn
    <2>2. Store!Decide(ok) /\ Unset' = {} /\ Ready'
      BY <2>1, RequestDecided
    <2> QED BY <1>3, <1>4, <2>2 DEF Store!DecideColumn
  <1>5. CASE todo[Writer] # {c}
    <2>1. Goto(Writer, "set_key") /\ UNCHANGED <<queue, rec, statusOK>>
      BY <1>5 DEF EndColumn
    <2>2. pc'[Writer] = "set_key"
      BY <1>1, <2>1 DEF Goto, TypeOK
    <2>3. Doing' = "changing" /\ Unset' = todo[Writer] \ {c} /\ Changing'
      BY <1>2, <2>2 DEF Doing, Unset, Adding, Changing
    <2>4. Unwritten' = Unwritten
      BY <2>1, <2>3 DEF Unwritten
    <2>5. Ready'
      <3>1. todo'[Writer] # {}
        BY <1>2, <1>5
      <3> QED BY <2>1, <2>2, <3>1 DEF Ready, Changing, Removing
    <2> QED BY <1>3, <1>5, <2>1, <2>3, <2>4, <2>5 DEF Store!DecideColumn
  <1> QED BY <1>4, <1>5

----
\* One lemma per group of actions.

Inv == TypeInv /\ KeyInv /\ Ready

Implemented == (Store!Next \/ UNCHANGED Store!vars) /\ Ready'

LEMMA InvFacts ==
    ASSUME OneWriter, Inv
    PROVE  /\ TypeOK /\ AtMostOneRowPerWriter /\ Ready /\ Writer \in Writers
           /\ ThreadKeyed(Writer) /\ NoRowYet(Writer)
           /\ rec[Writer] \in Records /\ rec[Writer].cells \in Cells
           /\ Adding => CarriesKey(rec[Writer]) /\ rec[Writer].key \in Values
PROOF
  <1>1. TypeOK /\ AtMostOneRowPerWriter /\ Ready /\ Writer \in Writers
    BY TheWriter DEF Inv, TypeInv, KeyInv
  <1>2. ThreadKeyed(Writer) /\ NoRowYet(Writer)
    BY <1>1 DEF Inv, KeyInv
  <1>3. rec[Writer] \in Records /\ rec[Writer].cells \in Cells /\ rec[Writer].key \in Keys
    BY <1>1 DEF TypeOK, Records
  <1>4. Adding => CarriesKey(rec[Writer])
    BY <1>2 DEF ThreadKeyed, AddPoints, Adding
  <1> QED BY <1>1, <1>2, <1>3, <1>4 DEF CarriesKey, Keys

\* A step that keeps to statements of the same kind and decides nothing.
LEMMA MoveImplements ==
    ASSUME OneWriter, Inv, NEW point, Goto(Writer, point), UNCHANGED <<rows, rec, queue, statusOK>>,
           \/ Adding /\ point \in AddPoints \ {"overwrite"}
           \/ Removing /\ point \in {"delete"}
    PROVE  Implemented
PROOF
  <1>1. pc'[Writer] = point
    BY InvFacts DEF Goto, TypeOK
  <1>2. CASE Adding /\ point \in AddPoints \ {"overwrite"}
    <2>1. Adding' /\ Ready'
      BY <1>1, <1>2, ReadyThere DEF Adding, AddPoints
    <2> QED BY <1>2, <2>1, Stutters DEF Implemented
  <1>3. CASE Removing /\ point \in {"delete"}
    <2>1. Removing'
      BY <1>1, <1>3 DEF Removing
    <2>2. Ready'
      BY <1>1, <1>3, InvFacts DEF Ready, Changing, Removing
    <2> QED BY <1>3, <2>1, <2>2, Stutters DEF Implemented
  <1> QED BY <1>2, <1>3

LEMMA RefusalImplements ==
    ASSUME OneWriter, Inv, rows' = rows,
           \/ Adding /\ EndRecord(Writer, FALSE)
           \/ Removing /\ EndRequest(Writer, FALSE)
           \/ Changing /\ \E c \in todo[Writer] : EndColumn(Writer, c, FALSE)
    PROVE  Implemented
PROOF
  <1>1. Stored' = Stored
    BY StoredKept
  <1>2. CASE Adding /\ EndRecord(Writer, FALSE)
    <2>1. Doing = "adding" /\ Store!Decide(FALSE) /\ UNCHANGED Unset /\ Ready'
      BY <1>2, InvFacts, RecordDecided
    <2> QED BY <1>1, <2>1 DEF Implemented, Store!Next, Store!Refuse
  <1>3. CASE Removing /\ EndRequest(Writer, FALSE)
    <2>1. Store!Decide(FALSE) /\ Unset' = {} /\ Ready'
      BY <1>3, InvFacts, RequestDecided
    <2>2. Doing = "removing" /\ Unset = {}
      BY <1>3 DEF Doing, Unset, Adding, Changing, Removing
    <2> QED BY <1>1, <2>1, <2>2 DEF Implemented, Store!Next, Store!Refuse
  <1>4. CASE Changing /\ \E c \in todo[Writer] : EndColumn(Writer, c, FALSE)
    <2>1. PICK c \in todo[Writer] : EndColumn(Writer, c, FALSE)
      BY <1>4
    <2>2. Doing = "changing" /\ c \in Unset /\ Store!DecideColumn(c, FALSE) /\ Ready'
      BY <1>4, <2>1, InvFacts, ColumnDecided
    <2> QED BY <1>1, <2>2 DEF Implemented, Store!Next, Store!RefuseColumn
  <1> QED BY <1>2, <1>3, <1>4

\* Requests begin and end.
LEMMA BeginImplements ==
    ASSUME KeyedRequests, OneWriter, Inv,
           \/ \E r \in AddRequests : BeginAdd(Writer, r)
           \/ \E r \in UpdateRequests : BeginUpdate(Writer, r)
           \/ \E k \in DeleteKeys : BeginDelete(Writer, k)
    PROVE  Implemented
PROOF
  <1>1. /\ Writer \in Writers /\ pc[Writer] = "idle" /\ UNCHANGED <<rows, statusOK>>
        /\ Doing = "nothing" /\ Unset = {}
    BY InvFacts DEF BeginAdd, BeginUpdate, BeginDelete, database, Doing, Unset,
                    Adding, Changing, Removing
  <1>2. rec[Writer] = NoRecord /\ queue[Writer] = <<>>
    BY <1>1, InvFacts DEF Ready
  <1>3. Stored' = Stored
    BY <1>1, StoredKept
  <1>4. CASE \E r \in AddRequests : BeginAdd(Writer, r)
    <2>1. PICK r \in AddRequests : BeginAdd(Writer, r)
      BY <1>4
    <2>2. r.items \in Seq(Records)
      BY RequestsAssumption
    <2>3. CASE r.items = <<>>
      <3>1. pc'[Writer] = "answered"
        BY <1>1, <2>1, <2>3, InvFacts DEF BeginAdd, Goto, TypeOK
      <3>2. Doing' = "answered" /\ Unwritten' = <<>> /\ Unset' = {}
        BY <3>1 DEF Doing, Unwritten, Unset, Adding, Changing, Removing
      <3>3. Store!BeginAdd(r)
        BY <1>1, <1>3, <2>3, <3>2 DEF Store!BeginAdd, Store!Begin
      <3> QED BY <3>1, <3>3, ReadyThere DEF Implemented, Store!Next
    <2>4. CASE r.items # <<>>
      <3>1. TakeRecord(Writer, r.items, r.key)
        BY <2>1, <2>4 DEF BeginAdd
      <3>2. pc'[Writer] = "names" /\ queue'[Writer] = Tail(r.items)
        BY <1>1, <3>1, InvFacts DEF TakeRecord, Goto, TypeOK
      <3>3. Head(r.items) \in Records /\ Head(r.items).key # NoKey
        <4>1. 1 \in DOMAIN r.items /\ Head(r.items) = r.items[1]
          BY <2>2, <2>4
        <4>2. r.items[1].key # NoKey
          BY <4>1 DEF KeyedRequests
        <4> QED BY <2>2, <2>4, <4>1, <4>2
      <3>4. rec'[Writer] = Head(r.items)
        <4>1. rec'[Writer] = [key |-> Head(r.items).key, cells |-> Head(r.items).cells]
          BY <1>1, <3>1, <3>3, InvFacts DEF TakeRecord, TypeOK
        <4> QED BY <3>3, <4>1 DEF Records
      <3>5. Doing' = "adding" /\ Unset' = {} /\ Unwritten' = <<rec'[Writer]>> \o queue'[Writer]
        BY <3>2 DEF Doing, Unwritten, Unset, Adding, Changing, Removing
      <3>6. Unwritten' = r.items
        BY <2>2, <2>4, <3>2, <3>3, <3>4, <3>5, HeadAndTail
      <3>7. Store!BeginAdd(r)
        BY <1>1, <1>3, <2>4, <3>5, <3>6 DEF Store!BeginAdd, Store!Begin
      <3> QED BY <3>2, <3>7, ReadyThere DEF Implemented, Store!Next, AddPoints
    <2> QED BY <2>3, <2>4
  <1>5. CASE \E r \in UpdateRequests : BeginUpdate(Writer, r)
    <2>1. PICK r \in UpdateRequests : BeginUpdate(Writer, r)
      BY <1>5
    <2>2. /\ rec'[Writer] = r /\ queue'[Writer] = <<>> /\ todo'[Writer] = DOMAIN r.cells
          /\ pc'[Writer] = IF DOMAIN r.cells = {} THEN "answered" ELSE "set_key"
      BY <1>1, <1>2, <2>1, InvFacts DEF BeginUpdate, Goto, TypeOK
    <2>3. CASE DOMAIN r.cells = {}
      <3>1. Doing' = "answered" /\ Unwritten' = <<>> /\ Unset' = {}
        BY <2>2, <2>3 DEF Doing, Unwritten, Unset, Adding, Changing, Removing
      <3>2. Store!BeginUpdate(r)
        BY <1>1, <1>3, <2>3, <3>1 DEF Store!BeginUpdate, Store!Begin
      <3> QED BY <2>2, <2>3, <3>2, ReadyThere DEF Implemented, Store!Next
    <2>4. CASE DOMAIN r.cells # {}
      <3>1. r \in Records /\ r.key \in Values
        BY RequestsAssumption DEF Records, Keys
      <3>2. Doing' = "changing" /\ Unwritten' = <<r>> /\ Unset' = DOMAIN r.cells
        <4>1. <<r>> \o <<>> = <<r>>
          BY <3>1
        <4> QED BY <2>2, <2>4, <4>1 DEF Doing, Unwritten, Unset, Adding, Changing, Removing
      <3>3. Store!BeginUpdate(r)
        BY <1>1, <1>3, <2>4, <3>2 DEF Store!BeginUpdate, Store!Begin
      <3>4. Ready'
        BY <2>2, <2>4, <3>1 DEF Ready, Changing, Removing
      <3> QED BY <3>3, <3>4 DEF Implemented, Store!Next
    <2> QED BY <2>3, <2>4
  <1>6. CASE \E k \in DeleteKeys : BeginDelete(Writer, k)
    <2>1. PICK k \in DeleteKeys : BeginDelete(Writer, k)
      BY <1>6
    <2> DEFINE r == [key |-> k, cells |-> [c \in {} |-> Null]]
    <2>2. rec'[Writer] = r /\ queue'[Writer] = <<>> /\ pc'[Writer] = "delete_key"
      BY <1>1, <1>2, <2>1, InvFacts DEF BeginDelete, Goto, TypeOK, NoRecord
    <2>3. k \in Values /\ r.key = k
      BY RequestsAssumption
    <2> HIDE DEF r
    <2>4. Doing' = "removing" /\ Unwritten' = <<r>> /\ Unset' = {}
      <3>1. <<r>> \o <<>> = <<r>>
        OBVIOUS
      <3> QED BY <2>2, <3>1 DEF Doing, Unwritten, Unset, Adding, Changing, Removing
    <2>5. Store!BeginDelete(r)
      BY <1>1, <1>3, <2>4 DEF Store!BeginDelete, Store!Begin
    <2>6. Ready'
      BY <2>2, <2>3 DEF Ready, Changing, Removing
    <2> QED BY <2>5, <2>6 DEF Implemented, Store!Next, r
  <1> QED BY <1>4, <1>5, <1>6

LEMMA EndImplements ==
    ASSUME OneWriter, Inv, pc[Writer] # "idle", Idle(Writer), rows' = rows
    PROVE  Implemented
PROOF
  <1>1. /\ pc'[Writer] = "idle" /\ rec'[Writer] = NoRecord /\ queue'[Writer] = <<>>
        /\ statusOK'[Writer] = FALSE
    BY InvFacts DEF Idle, Goto, TypeOK
  <1>2. Doing' = "nothing" /\ Unwritten' = <<>> /\ Unset' = {} /\ Stored' = Stored
    BY <1>1, StoredKept DEF Doing, Unwritten, Unset, Adding, Changing, Removing
  <1>3. Doing # "nothing"
    BY InvFacts DEF TypeOK, Points, OperationStarts, Doing, Adding, Changing, Removing
  <1>4. Ready'
    BY <1>1 DEF Ready, Changing, Removing
  <1> QED BY <1>1, <1>2, <1>3, <1>4 DEF Implemented, Store!Next, Store!End

\* INSERT and UPDATE write the record, or refuse it.
LEMMA WriteImplements ==
    ASSUME OneWriter, Inv, NEW fate, Insert(Writer, fate) \/ Overwrite(Writer, fate)
    PROVE  Implemented
PROOF
  <1> DEFINE key   == rec[Writer].key
             cells == rec[Writer].cells
             ok    == fate = "done" /\ Writable(cells)
  <1>1. Adding /\ EndRecord(Writer, ok) /\ ok \in BOOLEAN
    BY DEF Insert, Overwrite, Adding
  <1>2. /\ key \in Values /\ cells \in Cells /\ KeyColumn \in DOMAIN cells
        /\ cells[KeyColumn] = key
    BY <1>1, InvFacts DEF CarriesKey
  <1>3. Doing = "adding" /\ Store!Decide(ok) /\ UNCHANGED Unset /\ Ready'
    BY <1>1, InvFacts, RecordDecided
  <1>4. Store!InHand = rec[Writer]
    BY <1>1, InvFacts, RecordInHand
  <1>5. ASSUME Store!Put(key, cells)
        PROVE  Implemented
    BY <1>1, <1>3, <1>4, <1>5 DEF Implemented, Store!Next, Store!Write
  <1>6. CASE Executed(fate) /\ Writable(cells)
    <2>1. CASE Insert(Writer, fate)
      <3>1. InsertRows(Writer, cells) /\ pc[Writer] = "insert"
        BY <1>1, <1>2, <1>6, <2>1, InvFacts DEF Insert, CarriesKey
      <3>2. \A r \in rows : r.by = Writer
        BY InvFacts, TheWriter DEF TypeOK, Rows
      <3>3. Matching(key) = {}
        BY <3>1, <3>2, InvFacts DEF NoRowYet, Matching
      <3>4. Store!Put(key, cells)
        BY <1>2, <3>1, <3>3, InvFacts, InsertPuts
      <3> QED BY <1>5, <3>4
    <2>2. CASE Overwrite(Writer, fate)
      <3>1. UpdateRows(key, cells) /\ pc[Writer] = "overwrite"
        BY <1>6, <2>2 DEF Overwrite
      <3>2. Matching(key) # {}
        BY <3>1, InvFacts DEF Ready
      <3>3. Store!Put(key, cells)
        BY <1>2, <3>1, <3>2, InvFacts, UpdatePuts
      <3> QED BY <1>5, <3>3
    <2> QED BY <2>1, <2>2
  <1>7. CASE ~(Executed(fate) /\ Writable(cells))
    <2>1. rows' = rows
      BY <1>7 DEF Insert, Overwrite, database
    <2>2. ok = FALSE
      BY <1>7 DEF Executed
    <2>3. EndRecord(Writer, FALSE)
      BY <1>1, <2>2
    <2> QED BY <1>1, <2>1, <2>3, RefusalImplements
  <1> QED BY <1>6, <1>7

\* UPDATE of one column sets it, or leaves it.
LEMMA ColumnImplements ==
    ASSUME OneWriter, Inv, NEW fate, NEW c \in Columns, UpdateColumn(Writer, fate, c)
    PROVE  Implemented
PROOF
  <1> DEFINE key   == rec[Writer].key
             cells == [x \in {c} |-> rec[Writer].cells[c]]
             ok    == fate = "done" /\ c \in columns
  <1>1. Changing /\ c \in todo[Writer] /\ EndColumn(Writer, c, ok) /\ ok \in BOOLEAN
    BY DEF UpdateColumn, Changing
  <1>2. CASE Executed(fate) /\ c \in columns
    <2>1. UpdateRows(key, cells) /\ Matching(key) # {} /\ key \in Values
      BY <1>1, <1>2, InvFacts DEF UpdateColumn, Ready
    <2>2. c \in DOMAIN rec[Writer].cells /\ c # KeyColumn
      BY <1>1, InvFacts DEF UpdateColumn, Inv, TypeInv, SetsGivenColumns, ThreadKeyed
    <2>3. rec[Writer].cells[c] \in Values
      BY <2>2, InvFacts DEF Cells
    <2>4. cells \in [{c} -> Values]
      BY <2>3
    <2>5. cells \in Cells /\ KeyColumn \notin DOMAIN cells
      BY <2>2, <2>4 DEF Cells
    <2>6. Store!Put(key, cells) /\ Stored[key] # Absent
      BY <2>1, <2>5, InvFacts, UpdatePuts
    <2>7. Doing = "changing" /\ c \in Unset /\ Store!DecideColumn(c, ok) /\ Ready'
      BY <1>1, InvFacts, ColumnDecided
    <2>8. Store!InHand = rec[Writer]
      BY <1>1, InvFacts, RecordInHand
    <2>9. Store!SetColumn(c, ok)
      BY <2>6, <2>7, <2>8 DEF Store!SetColumn
    <2> QED BY <1>1, <2>7, <2>9 DEF Implemented, Store!Next
  <1>3. CASE ~(Executed(fate) /\ c \in columns)
    <2>1. rows' = rows
      BY <1>3 DEF UpdateColumn, database
    <2>2. ok = FALSE
      BY <1>3 DEF Executed
    <2> QED BY <1>1, <2>1, <2>2, RefusalImplements
  <1> QED BY <1>2, <1>3

\* DELETE removes the key, or leaves it.
LEMMA DeletionImplements ==
    ASSUME OneWriter, Inv, NEW fate, DeleteRow(Writer, fate)
    PROVE  Implemented
PROOF
  <1> DEFINE ok == fate = "done"
  <1>1. Removing /\ EndRequest(Writer, ok) /\ ok \in BOOLEAN
    BY DEF DeleteRow, Removing
  <1>2. rec[Writer].key \in Values
    BY <1>1, InvFacts DEF Ready
  <1>3. CASE Executed(fate)
    <2>1. Stored' = [Stored EXCEPT ![rec[Writer].key] = Absent]
      BY <1>2, <1>3, DeleteRemoves DEF DeleteRow
    <2>2. Store!Decide(ok) /\ Unset' = {} /\ Ready'
      BY <1>1, InvFacts, RequestDecided
    <2>3. Doing = "removing" /\ Unset = {}
      BY <1>1 DEF Doing, Unset, Adding, Changing, Removing
    <2>4. Store!InHand = rec[Writer]
      BY <1>1, InvFacts, RecordInHand
    <2>5. Store!Remove(ok)
      BY <2>1, <2>2, <2>3, <2>4 DEF Store!Remove
    <2> QED BY <1>1, <2>2, <2>5 DEF Implemented, Store!Next
  <1>4. CASE ~Executed(fate)
    <2>1. rows' = rows
      BY <1>4 DEF DeleteRow, database
    <2>2. EndRequest(Writer, FALSE)
      BY <1>1, <1>4 DEF Executed
    <2> QED BY <1>1, <2>1, <2>2, RefusalImplements
  <1> QED BY <1>3, <1>4

\* The SELECTs of insertRow, updateColumn and deleteRow.
LEMMA SelectImplements ==
    ASSUME OneWriter, Inv, NEW fate,
           SelectKey(Writer, fate) \/ SelectForUpdate(Writer, fate) \/ SelectForDelete(Writer, fate)
    PROVE  Implemented
PROOF
  <1>0. Writer \in Writers /\ rows' = rows
    BY InvFacts DEF SelectKey, SelectForUpdate, SelectForDelete, database
  <1>1. CASE SelectKey(Writer, fate)
    <2>1. Adding
      BY <1>1 DEF SelectKey, Adding
    <2>2. CASE EndRecord(Writer, FALSE)
      BY <1>0, <2>1, <2>2, RefusalImplements
    <2>3. CASE /\ Goto(Writer, IF Matching(rec[Writer].key) = {} THEN "insert" ELSE "overwrite")
               /\ UNCHANGED <<request, refused>>
      <3>1. CASE Matching(rec[Writer].key) = {}
        BY <1>0, <2>1, <2>3, <3>1, MoveImplements DEF request, AddPoints
      <3>2. CASE Matching(rec[Writer].key) # {}
        <4>1. pc'[Writer] = "overwrite" /\ UNCHANGED request
          BY <1>0, <2>3, <3>2, InvFacts DEF Goto, TypeOK
        <4>2. Matching(rec[Writer].key)' # {}
          BY <1>0, <3>2, <4>1 DEF Matching, request
        <4>3. Adding' /\ Ready'
          BY <4>1, <4>2 DEF Adding, Ready, Changing, Removing
        <4> QED BY <1>0, <2>1, <4>1, <4>3, Stutters DEF Implemented, request
      <3> QED BY <3>1, <3>2
    <2> QED BY <1>1, <2>2, <2>3 DEF SelectKey
  <1>2. CASE SelectForUpdate(Writer, fate)
    <2>1. Changing
      BY <1>2 DEF SelectForUpdate, Changing
    <2>2. CASE \E c \in todo[Writer] : EndColumn(Writer, c, FALSE)
      BY <1>0, <2>1, <2>2, RefusalImplements
    <2>3. CASE Goto(Writer, "set") /\ UNCHANGED <<request, refused>> /\ Matching(rec[Writer].key) # {}
      <3>1. pc'[Writer] = "set" /\ UNCHANGED request
        BY <1>0, <2>3, InvFacts DEF Goto, TypeOK
      <3>2. Matching(rec[Writer].key)' # {}
        BY <1>0, <2>3, <3>1 DEF Matching, request
      <3>3. Changing'
        BY <3>1 DEF Changing
      <3>4. Ready'
        BY <2>1, <3>1, <3>2, InvFacts DEF Ready, Changing, Removing, request
      <3> QED BY <1>0, <2>1, <3>1, <3>3, <3>4, Stutters DEF Implemented, request
    <2> QED BY <1>2, <2>2, <2>3 DEF SelectForUpdate
  <1>3. CASE SelectForDelete(Writer, fate)
    <2>1. Removing
      BY <1>3 DEF SelectForDelete, Removing
    <2>2. CASE EndRequest(Writer, FALSE)
      BY <1>0, <2>1, <2>2, RefusalImplements
    <2>3. CASE Goto(Writer, "delete") /\ UNCHANGED <<request, refused>>
      BY <1>0, <2>1, <2>3, MoveImplements DEF request
    <2> QED BY <1>3, <2>2, <2>3 DEF SelectForDelete
  <1> QED BY <1>1, <1>2, <1>3

\* The statements before insertRow.
LEMMA PreparationImplements ==
    ASSUME OneWriter, Inv, NEW fate, NEW found, NEW c,
           \/ ReadNames(Writer, fate, found) \/ CreateTable(Writer, fate)
           \/ ListExistColumns(Writer, fate) \/ AddNewColumn(Writer, fate, c)
    PROVE  Implemented
PROOF
  <1>1. UNCHANGED <<rows, rec, queue, statusOK>> /\ Adding
    BY DEF ReadNames, CreateTable, ListExistColumns, AddNewColumn, database, request, Adding
  <1>2. PICK point \in AddPoints \ {"overwrite"} : Goto(Writer, point)
    BY DEF ReadNames, CreateTable, ListExistColumns, AddNewColumn, AddPoints
  <1> QED BY <1>1, <1>2, MoveImplements

\* An operation that finds no connection.
LEMMA UnconnectedImplements ==
    ASSUME OneWriter, Inv, Unconnected(Writer)
    PROVE  Implemented
PROOF
  <1>0. Writer \in Writers /\ rows' = rows
    BY InvFacts DEF Unconnected, database
  <1>1. CASE pc[Writer] \in {"names", "columns", "key"} /\ EndRecord(Writer, FALSE)
    BY <1>0, <1>1, RefusalImplements DEF Adding
  <1>2. CASE pc[Writer] = "delete_key" /\ EndRequest(Writer, FALSE) /\ UNCHANGED todo
    BY <1>0, <1>2, RefusalImplements DEF Removing
  <1>3. ASSUME NEW c \in todo[Writer],
               \/ /\ pc[Writer] \in {"alter", "set_key"} /\ todo[Writer] # {c}
                  /\ todo' = [todo EXCEPT ![Writer] = @ \ {c}]
                  /\ UNCHANGED <<pc, checked, queue, rec, statusOK, refused>>
               \/ pc[Writer] = "alter" /\ todo[Writer] = {c} /\ EndRecord(Writer, FALSE)
               \/ /\ pc[Writer] = "set_key" /\ todo[Writer] = {c}
                  /\ todo' = [todo EXCEPT ![Writer] = {}]
                  /\ EndRequest(Writer, FALSE)
        PROVE  Implemented
    <2>1. CASE pc[Writer] = "alter" /\ EndRecord(Writer, FALSE)
      BY <1>0, <2>1, RefusalImplements DEF Adding
    <2>2. CASE pc[Writer] = "alter" /\ UNCHANGED <<pc, queue, rec, statusOK>>
      <3>1. Adding /\ Adding' /\ Ready'
        BY <2>2, ReadyThere DEF Adding, AddPoints
      <3> QED BY <1>0, <2>2, <3>1, Stutters DEF Implemented
    <2>3. CASE /\ pc[Writer] = "set_key" /\ todo[Writer] = {c}
               /\ todo' = [todo EXCEPT ![Writer] = {}]
               /\ EndRequest(Writer, FALSE)
      <3>1. Changing /\ Unset = {c}
        BY <2>3 DEF Changing, Unset
      <3>2. Store!Decide(FALSE) /\ Unset' = {} /\ Ready'
        BY <2>3, <3>1, InvFacts, RequestDecided
      <3>3. Stored' = Stored /\ Doing = "changing"
        BY <1>0, <3>1, StoredKept DEF Doing, Changing, Adding
      <3> QED BY <3>1, <3>2, <3>3 DEF Implemented, Store!Next, Store!RefuseColumn, Store!DecideColumn
    <2>4. CASE /\ pc[Writer] = "set_key" /\ todo[Writer] # {c}
               /\ todo' = [todo EXCEPT ![Writer] = @ \ {c}]
               /\ UNCHANGED <<pc, queue, rec, statusOK>>
      <3>1. todo'[Writer] = todo[Writer] \ {c}
        BY <1>0, <2>4, InvFacts DEF TypeOK
      <3>2. Changing /\ Changing' /\ Unset = todo[Writer] /\ Unset' = todo[Writer] \ {c}
        BY <2>4, <3>1 DEF Changing, Unset
      <3>3. Doing = "changing" /\ UNCHANGED <<Doing, Unwritten, Stored>>
        BY <1>0, <2>4, <3>2, StoredKept DEF Doing, Unwritten, Changing, Adding, Removing
      <3>4. Ready'
        BY <2>4, <3>1, InvFacts DEF Ready, Changing, Removing
      <3> QED BY <2>4, <3>2, <3>3, <3>4
              DEF Implemented, Store!Next, Store!RefuseColumn, Store!DecideColumn
    <2> QED BY <1>3, <2>1, <2>2, <2>3, <2>4
  <1> QED BY <1>1, <1>2, <1>3 DEF Unconnected

\* Steps that touch neither the request nor the rows.
LEMMA OutsideImplements ==
    ASSUME OneWriter, Inv, UNCHANGED <<pc, request, rows>>
    PROVE  Implemented
PROOF
  <1>1. Ready'
    BY InvFacts DEF Ready, Changing, Removing, Matching, request
  <1> QED BY <1>1, Stutters DEF Implemented, request

LEMMA NextImplements ==
    ASSUME KeyedRequests, OneWriter, Inv, [Next]_vars
    PROVE  Implemented
PROOF
  <1>1. CASE UNCHANGED vars \/ ServerStops \/ ServerStarts
    BY <1>1, OutsideImplements DEF vars, ServerStops, ServerStarts, database, request
  <1>2. ASSUME NEW w \in Writers, Step(w)
        PROVE  Implemented
    <2>0. w = Writer /\ Step(Writer)
      BY <1>2, TheWriter
    <2>1. CASE \/ \E r \in AddRequests : BeginAdd(Writer, r)
               \/ \E r \in UpdateRequests : BeginUpdate(Writer, r)
               \/ \E k \in DeleteKeys : BeginDelete(Writer, k)
      BY <2>1, BeginImplements
    <2>2. CASE Return(Writer) \/ Restart(Writer)
      BY <2>2, EndImplements DEF Return, Restart, database
    <2>3. CASE CheckConnect(Writer) \/ ConnectionBreaks(Writer)
      BY <2>3, OutsideImplements DEF CheckConnect, ConnectionBreaks, database
    <2>4. CASE Unconnected(Writer)
      BY <2>4, UnconnectedImplements
    <2>5. ASSUME NEW fate, \E found \in BOOLEAN : ReadNames(Writer, fate, found)
          PROVE  Implemented
      BY <2>5, PreparationImplements
    <2>6. ASSUME NEW fate, CreateTable(Writer, fate) \/ ListExistColumns(Writer, fate)
          PROVE  Implemented
      BY <2>6, PreparationImplements
    <2>7. ASSUME NEW fate, NEW c \in Columns,
                 AddNewColumn(Writer, fate, c) \/ UpdateColumn(Writer, fate, c)
          PROVE  Implemented
      BY <2>7, PreparationImplements, ColumnImplements
    <2>8. ASSUME NEW fate, SelectKey(Writer, fate) \/ Insert(Writer, fate) \/ Overwrite(Writer, fate)
          PROVE  Implemented
      BY <2>8, SelectImplements, WriteImplements
    <2>9. ASSUME NEW fate, \/ SelectForUpdate(Writer, fate) \/ SelectForDelete(Writer, fate)
                           \/ DeleteRow(Writer, fate)
          PROVE  Implemented
      BY <2>9, SelectImplements, DeletionImplements
    <2> QED BY <2>0, <2>1, <2>2, <2>3, <2>4, <2>5, <2>6, <2>7, <2>8, <2>9 DEF Step
  <1> QED BY <1>1, <1>2 DEF Next

LEMMA InitImplements ==
    ASSUME OneWriter, Init
    PROVE  Store!Init /\ Ready
PROOF
  <1>1. Writer \in Writers
    BY TheWriter
  <1>2. /\ pc[Writer] = "idle" /\ rec[Writer] = NoRecord /\ queue[Writer] = <<>>
        /\ statusOK[Writer] = FALSE /\ rows = {}
    BY <1>1 DEF Init
  <1>3. Doing = "nothing" /\ Unwritten = <<>> /\ Unset = {}
    BY <1>2 DEF Doing, Unwritten, Unset, Adding, Changing, Removing
  <1>4. Stored = [key \in Values |-> Absent]
    BY <1>2 DEF Stored, StoredAt, Matching
  <1>5. Ready
    BY <1>2 DEF Ready, Changing, Removing
  <1> QED BY <1>2, <1>3, <1>4, <1>5 DEF Store!Init

\* Clients of the only instance that writes a table see a keyed store, for every mix of
\* keyed requests, every number of columns and values, and every number of broken
\* connections, lost answers, outages and restarts between the statements.
THEOREM OneWriterIsAStore == KeyedRequests /\ OneWriter => (Spec => ImplementsKeyedStore)
PROOF
  <1> SUFFICES ASSUME KeyedRequests, OneWriter
               PROVE  Spec => ImplementsKeyedStore
    OBVIOUS
  <1>1. Init => Inv /\ Store!Init
    BY TypeInvInit, KeyInvInit, InitImplements DEF Inv
  <1>2. Inv /\ [Next]_vars => Inv' /\ [Store!Next]_Store!vars
    <2> SUFFICES ASSUME Inv, [Next]_vars
                 PROVE  Inv' /\ [Store!Next]_Store!vars
      OBVIOUS
    <2>1. TypeInv' /\ KeyInv'
      BY TypeInvNext, KeyInvNext DEF Inv
    <2>2. Implemented
      BY NextImplements
    <2> QED BY <2>1, <2>2 DEF Inv, Implemented
  <1> QED BY <1>1, <1>2, PTL DEF Spec, ImplementsKeyedStore, Store!Spec

----
\* What a broken connection costs.  A fault is charged to the record in hand when it
\* harms it, and the record is then refused once.

\* The statement the writer is about to run goes over a sound connection.
WillBeCarried ==
    connected[Writer] \/ (~checked[Writer] /\ pc[Writer] \notin {"create", "insert", "overwrite"})

\* The table is as the record in hand needs it.
TableFits ==
    /\ pc[Writer] = "create" => ~created
    /\ pc[Writer] \in {"columns", "alter", "key", "insert", "overwrite"} => created
    /\ pc[Writer] = "alter" => DOMAIN rec[Writer].cells \subseteq columns \cup todo[Writer]
    /\ pc[Writer] \in {"key", "insert", "overwrite"} => DOMAIN rec[Writer].cells \subseteq columns

Unharmed == WillBeCarried /\ TableFits

LossInv == serverUp /\ refused <= faults /\ (Unharmed \/ refused < faults)

\* What a step may do to the account: nothing to a record unharmed, or one more fault, or
\* the end of a record, which is refused only if it was harmed or with one more fault.
Accounted ==
    \/ faults' = faults /\ refused' = refused /\ (Unharmed => Unharmed')
    \/ faults' = faults + 1 /\ refused' = refused
    \/ Unharmed' /\ faults' = faults /\ refused' = refused
    \/ Unharmed' /\ faults' = faults /\ refused' = refused + 1 /\ ~Unharmed
    \/ Unharmed' /\ faults' = faults + 1 /\ refused' = refused + 1

LEMMA AccountedKeeps ==
    ASSUME TypeOK, LossInv, serverUp' = serverUp, Accounted
    PROVE  LossInv'
PROOF
  <1>1. refused \in Nat /\ faults \in Nat
    BY BoundsAssumption DEF TypeOK
  <1> QED BY <1>1 DEF LossInv, Accounted

\* After putValueInTable nothing is wrong with the next record yet.
LEMMA FreshRecord ==
    ASSUME OneWriter, TypeOK, NEW ok, EndRecord(Writer, ok)
    PROVE  Unharmed'
PROOF
  <1>1. \/ Goto(Writer, "answered")
        \/ Goto(Writer, "names")
    BY DEF EndRecord, TakeRecord
  <1>2. pc'[Writer] \in {"answered", "names"} /\ ~checked'[Writer]
    BY <1>1, TheWriter DEF Goto, TypeOK
  <1> QED BY <1>2 DEF Unharmed, WillBeCarried, TableFits

\* A record that ends, with the statement that ended it.
LEMMA EndAccounted ==
    ASSUME OneWriter, TypeOK, NEW fate, Statement(Writer, fate), NEW ok \in BOOLEAN,
           EndRecord(Writer, ok), Unharmed /\ fate = "done" => ok, Unharmed => fate # "dead"
    PROVE  Accounted
PROOF
  <1>1. Unharmed'
    BY FreshRecord
  <1>2. fate \in {"done", "lost", "dead"}
    BY DEF Statement, Fates
  <1>3. faults' = (IF fate = "lost" THEN faults + 1 ELSE faults)
    BY DEF Statement
  <1>4. refused' = (IF ok THEN refused ELSE refused + 1)
    BY DEF EndRecord
  <1>5. CASE ok
    BY <1>1, <1>3, <1>4, <1>5 DEF Accounted
  <1>6. CASE ~ok
    BY <1>1, <1>2, <1>3, <1>4, <1>6 DEF Accounted
  <1> QED BY <1>5, <1>6

\* A statement within a record.
LEMMA StepAccounted ==
    ASSUME OneWriter, TypeOK, NEW fate, Statement(Writer, fate), refused' = refused,
           Unharmed => fate # "dead", Unharmed /\ fate = "done" => Unharmed'
    PROVE  Accounted
PROOF
  <1>1. fate \in {"done", "lost", "dead"}
    BY DEF Statement, Fates
  <1>2. faults' = (IF fate = "lost" THEN faults + 1 ELSE faults)
    BY DEF Statement
  <1> QED BY <1>1, <1>2 DEF Accounted

\* Where a statement is due, it fails only if its record is harmed; one that is answered
\* leaves a sound connection.
LEMMA StatementSound ==
    ASSUME OneWriter, TypeOK, NEW fate, Statement(Writer, fate),
           checked[Writer] \/ pc[Writer] \in {"create", "insert", "overwrite"}
    PROVE  /\ Unharmed => fate # "dead"
           /\ fate = "done" => WillBeCarried'
           /\ serverUp' = serverUp
PROOF
  <1>1. Unharmed => connected[Writer]
    BY DEF Unharmed, WillBeCarried
  <1>2. connected[Writer] => fate # "dead"
    BY DEF Statement, Fates
  <1>3. connected'[Writer] = (fate = "done")
    BY TheWriter DEF Statement, TypeOK
  <1> QED BY <1>1, <1>2, <1>3 DEF Statement, WillBeCarried

LEMMA PreparationAccounted ==
    ASSUME OneWriter, Inv, Dynamic, ~ManyTables, NEW fate, NEW found, NEW c,
           \/ ReadNames(Writer, fate, found) \/ CreateTable(Writer, fate)
           \/ ListExistColumns(Writer, fate) \/ AddNewColumn(Writer, fate, c)
    PROVE  Accounted /\ serverUp' = serverUp
PROOF
  <1>1. /\ Statement(Writer, fate) /\ refused' = refused /\ rec' = rec
        /\ checked[Writer] \/ pc[Writer] \in {"create", "insert", "overwrite"}
    BY DEF ReadNames, CreateTable, ListExistColumns, AddNewColumn, request
  <1>2. /\ Unharmed => fate # "dead"
        /\ fate = "done" => WillBeCarried'
        /\ serverUp' = serverUp
    BY <1>1, InvFacts, StatementSound
  <1>3. ASSUME TableFits, fate = "done"
        PROVE  TableFits'
    <2>1. CASE ReadNames(Writer, fate, found)
      <3>1. UNCHANGED <<created, columns>> /\ Goto(Writer, IF ~found THEN "create" ELSE "columns")
        BY <2>1 DEF ReadNames, database
      <3>2. pc'[Writer] = IF ~found THEN "create" ELSE "columns"
        BY <3>1, InvFacts DEF Goto, TypeOK
      <3>3. IF found THEN created ELSE ~created
        BY <1>3, <2>1 DEF ReadNames
      <3> QED BY <3>1, <3>2, <3>3 DEF TableFits
    <2>2. CASE CreateTable(Writer, fate)
      <3>1. pc'[Writer] = "key"
        BY <2>2, InvFacts DEF CreateTable, Goto, TypeOK
      <3>2. ~created
        BY <1>3, <2>2 DEF CreateTable, TableFits
      <3>3. created' /\ columns' = DOMAIN rec[Writer].cells
        BY <1>3, <2>2, <3>2 DEF CreateTable, Executed
      <3> QED BY <1>1, <3>1, <3>3 DEF TableFits
    <2>3. CASE ListExistColumns(Writer, fate)
      <3> DEFINE missing == DOMAIN rec[Writer].cells \ columns
      <3>1. created /\ UNCHANGED <<created, columns>>
        BY <1>3, <2>3 DEF ListExistColumns, TableFits, database
      <3>2. todo' = [todo EXCEPT ![Writer] = missing]
            /\ Goto(Writer, IF missing = {} THEN "key" ELSE "alter")
        BY <1>3, <2>3 DEF ListExistColumns
      <3>3. todo'[Writer] = missing /\ pc'[Writer] = IF missing = {} THEN "key" ELSE "alter"
        BY <3>2, InvFacts DEF Goto, TypeOK
      <3> QED BY <1>1, <3>1, <3>3 DEF TableFits
    <2>4. CASE AddNewColumn(Writer, fate, c)
      <3>1. created /\ created' = created /\ columns' = columns \cup {c}
        BY <1>3, <2>4 DEF AddNewColumn, TableFits, Executed
      <3>2. DOMAIN rec[Writer].cells \subseteq columns \cup todo[Writer]
        BY <1>3, <2>4 DEF AddNewColumn, TableFits
      <3>3. /\ todo'[Writer] = todo[Writer] \ {c}
            /\ pc'[Writer] = IF todo[Writer] = {c} THEN "key" ELSE "alter"
        BY <2>4, InvFacts DEF AddNewColumn, Goto, TypeOK
      <3> QED BY <1>1, <3>1, <3>2, <3>3 DEF TableFits
    <2> QED BY <2>1, <2>2, <2>3, <2>4
  <1> QED BY <1>1, <1>2, <1>3, InvFacts, StepAccounted DEF Unharmed

LEMMA InsertRowAccounted ==
    ASSUME OneWriter, Inv, NEW fate,
           SelectKey(Writer, fate) \/ Insert(Writer, fate) \/ Overwrite(Writer, fate)
    PROVE  Accounted /\ serverUp' = serverUp
PROOF
  <1>1. /\ Statement(Writer, fate) /\ Adding
        /\ checked[Writer] \/ pc[Writer] \in {"create", "insert", "overwrite"}
        /\ pc[Writer] \in {"key", "insert", "overwrite"}
    BY DEF SelectKey, Insert, Overwrite, Adding
  <1>2. /\ Unharmed => fate # "dead"
        /\ fate = "done" => WillBeCarried'
        /\ serverUp' = serverUp
    BY <1>1, InvFacts, StatementSound
  <1>3. KeyColumn \in DOMAIN rec[Writer].cells
    BY <1>1, InvFacts DEF CarriesKey
  <1>4. Unharmed => Writable(rec[Writer].cells) /\ KeyColumn \in columns
    BY <1>1, <1>3 DEF Unharmed, TableFits, Writable
  <1>5. CASE SelectKey(Writer, fate)
    <2>1. CASE EndRecord(Writer, FALSE)
      <3>1. CASE ~(fate = "done" /\ KeyColumn \in columns)
        BY <1>1, <1>2, <1>4, <2>1, <3>1, InvFacts, EndAccounted
      <3>2. CASE fate = "done" /\ KeyColumn \in columns
        <4>1. refused' = refused
          BY <1>5, <3>2 DEF SelectKey
        <4>2. Unharmed'
          BY <2>1, InvFacts, FreshRecord
        <4> QED BY <1>1, <1>2, <4>1, <4>2, InvFacts, StepAccounted
      <3> QED BY <3>1, <3>2
    <2>2. CASE /\ Goto(Writer, IF Matching(rec[Writer].key) = {} THEN "insert" ELSE "overwrite")
               /\ UNCHANGED <<request, refused>>
      <3>1. pc'[Writer] \in {"insert", "overwrite"} /\ rec' = rec /\ refused' = refused
        BY <2>2, InvFacts DEF Goto, TypeOK, request
      <3>2. UNCHANGED <<created, columns>>
        BY <1>5 DEF SelectKey, database
      <3>3. TableFits => TableFits'
        BY <1>1, <3>1, <3>2 DEF TableFits
      <3> QED BY <1>1, <1>2, <3>1, <3>3, InvFacts, StepAccounted DEF Unharmed
    <2> QED BY <1>5, <2>1, <2>2 DEF SelectKey
  <1>6. CASE Insert(Writer, fate) \/ Overwrite(Writer, fate)
    <2>1. EndRecord(Writer, fate = "done" /\ Writable(rec[Writer].cells))
      BY <1>6 DEF Insert, Overwrite
    <2> QED BY <1>1, <1>2, <1>4, <2>1, InvFacts, EndAccounted
  <1> QED BY <1>5, <1>6

\* update and delete refuse no record; what fails there harms none.
LEMMA OthersAccounted ==
    ASSUME OneWriter, Inv, NEW fate, NEW c,
           \/ SelectForUpdate(Writer, fate) \/ UpdateColumn(Writer, fate, c)
           \/ SelectForDelete(Writer, fate) \/ DeleteRow(Writer, fate)
    PROVE  Accounted /\ serverUp' = serverUp
PROOF
  <1>1. PICK point \in {"set_key", "set", "delete", "answered"} : Goto(Writer, point)
    BY DEF SelectForUpdate, UpdateColumn, SelectForDelete, DeleteRow, EndColumn, EndRequest
  <1>2. Statement(Writer, fate) /\ refused' = refused
    BY DEF SelectForUpdate, UpdateColumn, SelectForDelete, DeleteRow, EndColumn, EndRequest
  <1>3. pc'[Writer] = point /\ ~checked'[Writer]
    BY <1>1, InvFacts DEF Goto, TypeOK
  <1>4. Unharmed'
    BY <1>3 DEF Unharmed, WillBeCarried, TableFits
  <1>5. fate \in {"done", "lost", "dead"} /\ serverUp' = serverUp
        /\ faults' = (IF fate = "lost" THEN faults + 1 ELSE faults)
    BY <1>2 DEF Statement, Fates
  <1> QED BY <1>2, <1>4, <1>5 DEF Accounted

LEMMA BeginAccounted ==
    ASSUME OneWriter, Inv,
           \/ \E r \in AddRequests : BeginAdd(Writer, r)
           \/ \E r \in UpdateRequests : BeginUpdate(Writer, r)
           \/ \E k \in DeleteKeys : BeginDelete(Writer, k)
           \/ Return(Writer)
    PROVE  Accounted /\ serverUp' = serverUp
PROOF
  <1>1. PICK point \in {"names", "answered", "set_key", "delete_key", "idle"} : Goto(Writer, point)
    BY DEF BeginAdd, BeginUpdate, BeginDelete, Return, Idle, TakeRecord
  <1>2. UNCHANGED <<serverUp, faults, refused>>
    BY DEF BeginAdd, BeginUpdate, BeginDelete, Return, link, counts
  <1>3. pc'[Writer] = point /\ ~checked'[Writer]
    BY <1>1, InvFacts DEF Goto, TypeOK
  <1>4. Unharmed'
    BY <1>3 DEF Unharmed, WillBeCarried, TableFits
  <1> QED BY <1>2, <1>4 DEF Accounted

LEMMA OutsideAccounted ==
    ASSUME OneWriter, Inv, CheckConnect(Writer) \/ ConnectionBreaks(Writer) \/ Restart(Writer)
    PROVE  Accounted /\ serverUp' = serverUp
PROOF
  <1>1. CASE CheckConnect(Writer)
    <2>1. connected'[Writer] = TRUE
      BY <1>1, InvFacts DEF CheckConnect, TypeOK
    <2>2. TableFits => TableFits'
      BY <1>1 DEF CheckConnect, TableFits, database, request
    <2> QED BY <1>1, <2>1, <2>2 DEF CheckConnect, Accounted, Unharmed, WillBeCarried, counts
  <1>2. CASE ConnectionBreaks(Writer) \/ Restart(Writer)
    BY <1>2 DEF ConnectionBreaks, Restart, Accounted
  <1> QED BY <1>1, <1>2

\* For one instance on a server that stays up, as many records are refused as there were
\* broken connections, lost answers and restarts, or fewer: for every mix of keyed
\* requests and a table that grows columns.
THEOREM FaultsCostOneRecordEach ==
    KeyedRequests /\ OneWriter /\ Dynamic /\ ~ManyTables /\ ~Outages
      => (Spec => []LinkLossCostsOneRecord)
PROOF
  <1> SUFFICES ASSUME KeyedRequests, OneWriter, Dynamic, ~ManyTables, ~Outages
               PROVE  Spec => []LinkLossCostsOneRecord
    OBVIOUS
  <1>1. Init => Inv /\ LossInv
    <2>1. Init => Inv
      BY TypeInvInit, KeyInvInit, InitImplements DEF Inv
    <2>2. Init => LossInv
      BY TheWriter DEF Init, LossInv, Unharmed, WillBeCarried, TableFits
    <2> QED BY <2>1, <2>2
  <1>2. Inv /\ LossInv /\ [Next]_vars => Inv' /\ LossInv'
    <2> SUFFICES ASSUME Inv, LossInv, [Next]_vars
                 PROVE  Inv' /\ LossInv'
      OBVIOUS
    <2>1. Inv'
      BY TypeInvNext, KeyInvNext, NextImplements DEF Inv, Implemented
    <2>2. CASE UNCHANGED vars
      BY <2>1, <2>2 DEF vars, LossInv, Unharmed, WillBeCarried, TableFits, database, link, request, counts
    <2>3. CASE ServerStops \/ ServerStarts
      BY <2>1, <2>3 DEF ServerStops, ServerStarts, LossInv
    <2>4. ASSUME NEW w \in Writers, Step(w)
          PROVE  Accounted /\ serverUp' = serverUp
      <3>0. Step(Writer)
        BY <2>4, TheWriter
      <3>1. ~Unconnected(Writer)
        BY DEF Unconnected, LossInv
      <3>2. ASSUME NEW fate, \E found \in BOOLEAN : ReadNames(Writer, fate, found)
            PROVE  Accounted /\ serverUp' = serverUp
        BY <3>2, PreparationAccounted
      <3>3. ASSUME NEW fate, CreateTable(Writer, fate) \/ ListExistColumns(Writer, fate)
            PROVE  Accounted /\ serverUp' = serverUp
        BY <3>3, PreparationAccounted
      <3>4. ASSUME NEW fate, NEW c \in Columns,
                   AddNewColumn(Writer, fate, c) \/ UpdateColumn(Writer, fate, c)
            PROVE  Accounted /\ serverUp' = serverUp
        BY <3>4, PreparationAccounted, OthersAccounted
      <3>5. ASSUME NEW fate, SelectKey(Writer, fate) \/ Insert(Writer, fate) \/ Overwrite(Writer, fate)
            PROVE  Accounted /\ serverUp' = serverUp
        BY <3>5, InsertRowAccounted
      <3>6. ASSUME NEW fate, \/ SelectForUpdate(Writer, fate) \/ SelectForDelete(Writer, fate)
                             \/ DeleteRow(Writer, fate)
            PROVE  Accounted /\ serverUp' = serverUp
        BY <3>6, OthersAccounted
      <3> QED BY <3>0, <3>1, <3>2, <3>3, <3>4, <3>5, <3>6, BeginAccounted, OutsideAccounted DEF Step
    <2>5. ASSUME NEW w \in Writers, Step(w)
          PROVE  LossInv'
      BY <2>4, <2>5, InvFacts, AccountedKeeps
    <2>6. \/ \E w \in Writers : Step(w)
          \/ ServerStops \/ ServerStarts \/ UNCHANGED vars
      BY DEF Next
    <2> QED BY <2>1, <2>2, <2>3, <2>5, <2>6
  <1>3. LossInv => LinkLossCostsOneRecord
    BY DEF LossInv, LinkLossCostsOneRecord
  <1> QED BY <1>1, <1>2, <1>3, PTL DEF Spec

----
\* An acknowledged record is in the table.  Here records need no key of their own.

\* What the SELECT found stays there till the UPDATE, and what was written till the answer.
Acknowledged ==
    pc[Writer] = "answered" /\ statusOK[Writer] /\ DOMAIN rec[Writer].cells # {}
      => \E r \in rows : r.val = Given(r.val, rec[Writer].cells)

AckInv ==
    /\ ~Changing
    /\ pc[Writer] = "idle" \/ Removing => rec[Writer].cells = NoRecord.cells
    /\ pc[Writer] = "overwrite" => Matching(rec[Writer].key) # {}
    /\ Acknowledged

LEMMA GivenTwice ==
    ASSUME NEW val, NEW cells
    PROVE  Given(Given(val, cells), cells) = Given(val, cells)
PROOF
  BY DEF Given

\* Points at which AckInv asks for nothing.
LEMMA AckThere ==
    ASSUME pc'[Writer] \in AddPoints \ {"overwrite"}
    PROVE  AckInv'
PROOF
  BY DEF AckInv, Acknowledged, AddPoints, Changing, Removing

\* A record ends, written if it is acknowledged.
LEMMA EndAcknowledged ==
    ASSUME OneWriter, TypeOK, NEW ok \in BOOLEAN, EndRecord(Writer, ok),
           ok => \E r \in rows' : r.val = Given(r.val, rec[Writer].cells)
    PROVE  AckInv'
PROOF
  <1>1. Writer \in Writers
    BY TheWriter
  <1>2. CASE queue[Writer] = <<>>
    <2>1. pc'[Writer] = "answered" /\ rec' = rec /\ statusOK'[Writer] = ok
      BY <1>1, <1>2 DEF EndRecord, Goto, TypeOK
    <2> QED BY <2>1 DEF AckInv, Acknowledged, Changing, Removing
  <1>3. CASE queue[Writer] # <<>>
    <2>1. TakeRecord(Writer, queue[Writer], rec[Writer].key)
      BY <1>3 DEF EndRecord
    <2>2. pc'[Writer] = "names"
      BY <1>1, <2>1 DEF TakeRecord, Goto, TypeOK
    <2> QED BY <2>2, AckThere DEF AddPoints
  <1> QED BY <1>2, <1>3

LEMMA WriteAcknowledged ==
    ASSUME OneWriter, TypeOK, AckInv, NEW fate, Insert(Writer, fate) \/ Overwrite(Writer, fate)
    PROVE  AckInv'
PROOF
  <1> DEFINE cells == rec[Writer].cells
             ok    == fate = "done" /\ Writable(cells)
  <1>1. EndRecord(Writer, ok) /\ ok \in BOOLEAN
    BY DEF Insert, Overwrite
  <1>2. ASSUME ok
        PROVE  \E r \in rows' : r.val = Given(r.val, cells)
    <2>1. Executed(fate) /\ Writable(cells)
      BY <1>2 DEF Executed
    <2>2. CASE Insert(Writer, fate)
      <3> DEFINE val == Given([c \in Columns |-> Null], cells)
                 new == [idx |-> nextIdx, by |-> Writer, val |-> val]
      <3>1. rows' = rows \cup {new}
        BY <2>1, <2>2 DEF Insert, InsertRows
      <3>2. new.val = val
        OBVIOUS
      <3>3. Given(val, cells) = val
        BY GivenTwice
      <3> HIDE DEF val, new
      <3> QED BY <3>1, <3>2, <3>3
    <2>3. CASE Overwrite(Writer, fate)
      <3>1. UpdateRows(rec[Writer].key, cells) /\ Matching(rec[Writer].key) # {}
        BY <2>1, <2>3 DEF Overwrite, AckInv
      <3>2. PICK r \in Matching(rec[Writer].key) : TRUE
        BY <3>1
      <3> DEFINE new == [r EXCEPT !.val = Given(r.val, cells)]
      <3>3. new \in rows'
        BY <3>1, <3>2 DEF UpdateRows
      <3>4. new.val = Given(r.val, cells)
        BY <3>2 DEF Matching, TypeOK, Rows
      <3>5. Given(Given(r.val, cells), cells) = Given(r.val, cells)
        BY GivenTwice
      <3> HIDE DEF new
      <3> QED BY <3>3, <3>4, <3>5
    <2> QED BY <2>2, <2>3
  <1> HIDE DEF ok
  <1> QED BY <1>1, <1>2, EndAcknowledged

LEMMA SelectAcknowledged ==
    ASSUME OneWriter, TypeOK, AckInv, NEW fate,
           SelectKey(Writer, fate) \/ SelectForDelete(Writer, fate)
    PROVE  AckInv'
PROOF
  <1>0. Writer \in Writers /\ rows' = rows
    BY TheWriter DEF SelectKey, SelectForDelete, database
  <1>1. CASE SelectKey(Writer, fate) /\ EndRecord(Writer, FALSE)
    BY <1>1, EndAcknowledged
  <1>2. CASE /\ Goto(Writer, IF Matching(rec[Writer].key) = {} THEN "insert" ELSE "overwrite")
             /\ UNCHANGED request
    <2>1. /\ pc'[Writer] = IF Matching(rec[Writer].key) = {} THEN "insert" ELSE "overwrite"
          /\ Matching(rec[Writer].key)' = Matching(rec[Writer].key)
      BY <1>0, <1>2 DEF Goto, TypeOK, request, Matching
    <2> QED BY <1>2, <2>1 DEF AckInv, Acknowledged, Changing, Removing
  <1>3. CASE SelectForDelete(Writer, fate)
    <2>1. rec' = rec /\ Removing
      BY <1>3 DEF SelectForDelete, EndRequest, request, Removing
    <2>2. pc'[Writer] \in {"delete", "answered"}
      BY <1>0, <1>3 DEF SelectForDelete, EndRequest, Goto, TypeOK
    <2> QED BY <2>1, <2>2 DEF AckInv, Acknowledged, Changing, Removing, NoRecord
  <1> QED BY <1>1, <1>2, <1>3 DEF SelectKey

LEMMA UnconnectedAcknowledged ==
    ASSUME OneWriter, TypeOK, AckInv, Unconnected(Writer)
    PROVE  AckInv'
PROOF
  <1>0. Writer \in Writers /\ rows' = rows
    BY TheWriter DEF Unconnected, database
  <1>1. CASE EndRecord(Writer, FALSE)
    BY <1>1, EndAcknowledged
  <1>2. CASE pc[Writer] = "delete_key" /\ EndRequest(Writer, FALSE)
    <2>1. pc'[Writer] = "answered" /\ rec' = rec
      BY <1>0, <1>2 DEF EndRequest, Goto, TypeOK
    <2> QED BY <1>2, <2>1 DEF AckInv, Acknowledged, Changing, Removing, NoRecord
  <1>3. CASE pc[Writer] = "alter" /\ UNCHANGED pc
    BY <1>3, AckThere DEF AddPoints
  <1> QED BY <1>1, <1>2, <1>3 DEF Unconnected, AckInv, Changing

LEMMA StepAcknowledged ==
    ASSUME OneWriter, UpdateRequests = {}, TypeOK, AckInv, Step(Writer)
    PROVE  AckInv'
PROOF
  <1>0. Writer \in Writers
    BY TheWriter
  <1>1. CASE \E r \in AddRequests : BeginAdd(Writer, r)
    <2>1. PICK r \in AddRequests : BeginAdd(Writer, r)
      BY <1>1
    <2>2. CASE r.items = <<>>
      <3>1. pc'[Writer] = "answered" /\ rec' = rec
        BY <1>0, <2>1, <2>2 DEF BeginAdd, Goto, TypeOK
      <3> QED BY <2>1, <3>1 DEF BeginAdd, AckInv, Acknowledged, Changing, Removing, NoRecord
    <2>3. CASE r.items # <<>>
      <3>1. pc'[Writer] = "names"
        BY <1>0, <2>1, <2>3 DEF BeginAdd, TakeRecord, Goto, TypeOK
      <3> QED BY <3>1, AckThere DEF AddPoints
    <2> QED BY <2>2, <2>3
  <1>2. CASE \E k \in DeleteKeys : BeginDelete(Writer, k)
    <2>1. PICK k \in DeleteKeys : BeginDelete(Writer, k)
      BY <1>2
    <2>2. pc'[Writer] = "delete_key" /\ rec'[Writer].cells = rec[Writer].cells
      BY <1>0, <2>1 DEF BeginDelete, Goto, TypeOK, Records
    <2> QED BY <2>1, <2>2 DEF BeginDelete, AckInv, Acknowledged, Changing, Removing
  <1>3. CASE Return(Writer) \/ Restart(Writer)
    <2>1. pc'[Writer] = "idle" /\ rec'[Writer] = NoRecord
      BY <1>0, <1>3 DEF Return, Restart, Idle, Goto, TypeOK
    <2> QED BY <2>1 DEF AckInv, Acknowledged, Changing, Removing
  <1>4. CASE CheckConnect(Writer) \/ ConnectionBreaks(Writer)
    BY <1>4 DEF CheckConnect, ConnectionBreaks, AckInv, Acknowledged, Changing, Removing,
                Matching, database, request
  <1>5. CASE Unconnected(Writer)
    BY <1>5, UnconnectedAcknowledged
  <1>6. ASSUME NEW fate, NEW found, NEW c,
               \/ ReadNames(Writer, fate, found) \/ CreateTable(Writer, fate)
               \/ ListExistColumns(Writer, fate) \/ AddNewColumn(Writer, fate, c)
        PROVE  AckInv'
    <2>1. PICK point \in AddPoints \ {"overwrite"} : Goto(Writer, point)
      BY <1>6 DEF ReadNames, CreateTable, ListExistColumns, AddNewColumn, AddPoints
    <2>2. pc'[Writer] = point
      BY <1>0, <2>1 DEF Goto, TypeOK
    <2> QED BY <2>2, AckThere
  <1>7. ASSUME NEW fate, SelectKey(Writer, fate) \/ Insert(Writer, fate) \/ Overwrite(Writer, fate)
        PROVE  AckInv'
    BY <1>7, SelectAcknowledged, WriteAcknowledged
  <1>8. ASSUME NEW fate, NEW c, SelectForUpdate(Writer, fate) \/ UpdateColumn(Writer, fate, c)
        PROVE  FALSE
    BY <1>8 DEF SelectForUpdate, UpdateColumn, AckInv, Changing
  <1>9. ASSUME NEW fate, SelectForDelete(Writer, fate) \/ DeleteRow(Writer, fate)
        PROVE  AckInv'
    <2>1. CASE SelectForDelete(Writer, fate)
      BY <2>1, SelectAcknowledged
    <2>2. CASE DeleteRow(Writer, fate)
      <3>1. pc'[Writer] = "answered" /\ rec' = rec /\ Removing
        BY <1>0, <2>2 DEF DeleteRow, EndRequest, Goto, TypeOK, Removing
      <3> QED BY <3>1 DEF AckInv, Acknowledged, Changing, Removing, NoRecord
    <2> QED BY <1>9, <2>1, <2>2
  <1>10. ~ \E r \in UpdateRequests : BeginUpdate(Writer, r)
    OBVIOUS
  <1>11. ASSUME NEW fate, \E found \in BOOLEAN : ReadNames(Writer, fate, found)
         PROVE  AckInv'
    BY <1>6, <1>11
  <1>12. ASSUME NEW fate, NEW c \in Columns, AddNewColumn(Writer, fate, c) \/ UpdateColumn(Writer, fate, c)
         PROVE  AckInv'
    BY <1>6, <1>8, <1>12
  <1>13. ASSUME NEW fate, CreateTable(Writer, fate) \/ ListExistColumns(Writer, fate)
         PROVE  AckInv'
    BY <1>6, <1>13
  <1> QED BY <1>1, <1>2, <1>3, <1>4, <1>5, <1>7, <1>8, <1>9, <1>10, <1>11, <1>12, <1>13 DEF Step

\* For one instance and any mix of records, with keys or without: a record answered
\* true is in the table, whole and in one row, whatever failed before.
THEOREM AcknowledgedRecordsAreThere ==
    OneWriter /\ UpdateRequests = {} => (Spec => []AcknowledgedIsThere)
PROOF
  <1> SUFFICES ASSUME OneWriter, UpdateRequests = {}
               PROVE  Spec => []AcknowledgedIsThere
    OBVIOUS
  <1>1. Init => TypeInv /\ AckInv
    <2>1. Init => AckInv
      BY TheWriter DEF Init, AckInv, Acknowledged, Changing, Removing
    <2> QED BY <2>1, TypeInvInit
  <1>2. TypeInv /\ AckInv /\ [Next]_vars => TypeInv' /\ AckInv'
    <2> SUFFICES ASSUME TypeInv, AckInv, [Next]_vars
                 PROVE  TypeInv' /\ AckInv'
      OBVIOUS
    <2>1. TypeInv' /\ TypeOK
      BY TypeInvNext DEF TypeInv
    <2>2. CASE UNCHANGED vars \/ ServerStops \/ ServerStarts
      BY <2>1, <2>2 DEF vars, ServerStops, ServerStarts, AckInv, Acknowledged, Changing,
                        Removing, Matching, database, request
    <2>3. ASSUME NEW w \in Writers, Step(w)
          PROVE  AckInv'
      BY <2>1, <2>3, TheWriter, StepAcknowledged
    <2>4. \/ \E w \in Writers : Step(w)
          \/ ServerStops \/ ServerStarts \/ UNCHANGED vars
      BY DEF Next
    <2> QED BY <2>1, <2>2, <2>3, <2>4
  <1>3. AckInv => AcknowledgedIsThere
    BY TheWriter DEF AckInv, Acknowledged, AcknowledgedIsThere
  <1> QED BY <1>1, <1>2, <1>3, PTL DEF Spec
----
\* What a fault costs an update.  It is charged to the column in hand when it harms it.

\* Columns decided, and there, that do not have the value the request gave.
Unequal(r, undecided) ==
    {c \in (DOMAIN rec[Writer].cells \ undecided) \cap columns : r.val[c] # rec[Writer].cells[c]}

\* The connection broke after it was checked for the column in hand.
Harmed == ~connected[Writer] /\ (checked[Writer] \/ pc[Writer] = "set")

Charged(r) ==
    /\ IsFiniteSet(Unequal(r, todo[Writer]))
    /\ Cardinality(Unequal(r, todo[Writer])) + (IF Harmed THEN 1 ELSE 0) <= faults

ColumnsCharged ==
    Changing /\ KeyColumn \in columns => \A r \in Matching(rec[Writer].key) : Charged(r)

UpdateSettled ==
    pc[Writer] = "answered" /\ statusOK[Writer] /\ rec[Writer] \in UpdateRequests
      /\ DOMAIN rec[Writer].cells # {}
      => \E r \in Matching(rec[Writer].key) :
           IsFiniteSet(Unequal(r, {})) /\ Cardinality(Unequal(r, {})) <= faults

UpdateInv ==
    /\ serverUp
    /\ pc[Writer] = "set" => KeyColumn \in columns
    /\ pc[Writer] = "idle" \/ Removing => DOMAIN rec[Writer].cells = {}
    /\ ColumnsCharged
    /\ UpdateSettled

LEMMA OneMore ==
    ASSUME NEW S, IsFiniteSet(S), NEW c, NEW T, T \subseteq S \cup {c}, NEW n \in Nat,
           Cardinality(S) + 1 <= n \/ (T \subseteq S /\ Cardinality(S) <= n)
    PROVE  IsFiniteSet(T) /\ Cardinality(T) <= n
PROOF
  <1>1. Cardinality(S) \in Nat
    BY FS_CardinalityType
  <1>2. CASE T \subseteq S /\ Cardinality(S) <= n
    <2>1. IsFiniteSet(T) /\ Cardinality(T) <= Cardinality(S) /\ Cardinality(T) \in Nat
      BY <1>2, FS_Subset, FS_CardinalityType
    <2> QED BY <1>1, <1>2, <2>1
  <1>3. CASE Cardinality(S) + 1 <= n
    <2>1. IsFiniteSet(S \cup {c}) /\ Cardinality(S \cup {c}) \in {Cardinality(S), Cardinality(S) + 1}
      BY FS_AddElement
    <2>2. IsFiniteSet(T) /\ Cardinality(T) <= Cardinality(S \cup {c}) /\ Cardinality(T) \in Nat
      BY <2>1, FS_Subset, FS_CardinalityType
    <2> QED BY <1>1, <1>3, <2>1, <2>2
  <1> QED BY <1>2, <1>3

\* Points at which UpdateInv asks for little, or nothing.
LEMMA UpdateElsewhere ==
    ASSUME UpdateInv, serverUp' = serverUp,
           \/ pc'[Writer] \in AddPoints
           \/ pc'[Writer] = "answered" /\ ~statusOK'[Writer]
           \/ /\ pc'[Writer] \in {"answered", "idle", "delete_key", "delete"}
              /\ DOMAIN rec'[Writer].cells = {}
    PROVE  UpdateInv'
PROOF
  <1>1. pc'[Writer] \notin {"set_key", "set"}
    BY DEF AddPoints
  <1>2. ColumnsCharged' /\ UpdateSettled'
    BY <1>1 DEF ColumnsCharged, UpdateSettled, Changing, AddPoints
  <1> QED BY <1>1, <1>2 DEF UpdateInv, Removing, AddPoints

\* A record addNewRecord wrote is no update: it carries its key column.
LEMMA RecordEndsUpdate ==
    ASSUME KeyedRequests, OneWriter, Inv, UpdateInv, Adding, NEW ok, EndRecord(Writer, ok),
           serverUp' = serverUp
    PROVE  UpdateInv'
PROOF
  <1>1. KeyColumn \in DOMAIN rec[Writer].cells
    BY InvFacts DEF CarriesKey
  <1>2. CASE queue[Writer] = <<>>
    <2>1. pc'[Writer] = "answered" /\ rec' = rec
      BY <1>2, InvFacts DEF EndRecord, Goto, TypeOK
    <2>2. rec'[Writer] \notin UpdateRequests
      BY <1>1, <2>1 DEF KeyedRequests
    <2> QED BY <2>1, <2>2 DEF UpdateInv, ColumnsCharged, UpdateSettled, Changing, Removing
  <1>3. CASE queue[Writer] # <<>>
    <2>1. TakeRecord(Writer, queue[Writer], rec[Writer].key)
      BY <1>3 DEF EndRecord
    <2>2. pc'[Writer] = "names"
      BY <2>1, InvFacts DEF TakeRecord, Goto, TypeOK
    <2> QED BY <2>2, UpdateElsewhere DEF AddPoints
  <1> QED BY <1>2, <1>3

LEMMA BeginUpdateInv ==
    ASSUME KeyedRequests, OneWriter, Inv, UpdateInv,
           \/ \E r \in AddRequests : BeginAdd(Writer, r)
           \/ \E r \in UpdateRequests : BeginUpdate(Writer, r)
           \/ \E k \in DeleteKeys : BeginDelete(Writer, k)
           \/ Return(Writer) \/ Restart(Writer)
    PROVE  UpdateInv'
PROOF
  <1>0. TypeOK /\ Writer \in Writers /\ serverUp' = serverUp
    BY InvFacts DEF BeginAdd, BeginUpdate, BeginDelete, Return, Restart, link
  <1>1. CASE \E r \in AddRequests : BeginAdd(Writer, r)
    <2>1. PICK r \in AddRequests : BeginAdd(Writer, r)
      BY <1>1
    <2>2. CASE r.items = <<>>
      <3>1. pc'[Writer] = "answered" /\ rec' = rec /\ pc[Writer] = "idle"
        BY <1>0, <2>1, <2>2 DEF BeginAdd, Goto, TypeOK
      <3> QED BY <1>0, <3>1, UpdateElsewhere DEF UpdateInv
    <2>3. CASE r.items # <<>>
      <3>1. pc'[Writer] = "names"
        BY <1>0, <2>1, <2>3 DEF BeginAdd, TakeRecord, Goto, TypeOK
      <3> QED BY <1>0, <3>1, UpdateElsewhere DEF AddPoints
    <2> QED BY <2>2, <2>3
  <1>2. CASE \E r \in UpdateRequests : BeginUpdate(Writer, r)
    <2>1. PICK r \in UpdateRequests : BeginUpdate(Writer, r)
      BY <1>2
    <2>2. /\ rec'[Writer] = r /\ todo'[Writer] = DOMAIN r.cells /\ ~checked'[Writer]
          /\ pc'[Writer] = IF DOMAIN r.cells = {} THEN "answered" ELSE "set_key"
          /\ faults' = faults
      BY <1>0, <2>1 DEF BeginUpdate, Goto, TypeOK
    <2>3. CASE DOMAIN r.cells = {}
      BY <1>0, <2>2, <2>3, UpdateElsewhere
    <2>4. CASE DOMAIN r.cells # {}
      <3>1. \A s : Unequal(s, todo[Writer])' = {} /\ ~Harmed'
        BY <2>2, <2>4 DEF Unequal, Harmed
      <3>2. IsFiniteSet({}) /\ Cardinality({}) = 0 /\ faults \in Nat
        BY <1>0, FS_EmptySet, BoundsAssumption DEF TypeOK
      <3>3. \A s : Charged(s)'
        BY <2>2, <3>1, <3>2 DEF Charged
      <3>4. ColumnsCharged'
        BY <3>3 DEF ColumnsCharged
      <3> QED BY <1>0, <2>2, <2>4, <3>4 DEF UpdateInv, UpdateSettled, Removing
    <2> QED BY <2>3, <2>4
  <1>3. CASE \E k \in DeleteKeys : BeginDelete(Writer, k)
    <2>1. PICK k \in DeleteKeys : BeginDelete(Writer, k)
      BY <1>3
    <2>2. pc'[Writer] = "delete_key" /\ rec'[Writer].cells = rec[Writer].cells /\ pc[Writer] = "idle"
      BY <1>0, <2>1 DEF BeginDelete, Goto, TypeOK, Records
    <2> QED BY <1>0, <2>2, UpdateElsewhere DEF UpdateInv
  <1>4. CASE Return(Writer) \/ Restart(Writer)
    <2>1. pc'[Writer] = "idle" /\ rec'[Writer] = NoRecord
      BY <1>0, <1>4 DEF Return, Restart, Idle, Goto, TypeOK
    <2>2. DOMAIN rec'[Writer].cells = {}
      BY <2>1 DEF NoRecord
    <2> QED BY <1>0, <2>1, <2>2, UpdateElsewhere
  <1> QED BY <1>1, <1>2, <1>3, <1>4

\* The connection is checked, or breaks.
LEMMA ConnectionUpdateInv ==
    ASSUME OneWriter, Inv, UpdateInv, CheckConnect(Writer) \/ ConnectionBreaks(Writer)
    PROVE  UpdateInv'
PROOF
  <1>0. TypeOK /\ Writer \in Writers /\ faults \in Nat /\ faults' \in Nat
    BY InvFacts, BoundsAssumption DEF TypeOK, CheckConnect, ConnectionBreaks, counts
  <1>1. /\ UNCHANGED <<rows, columns, rec, todo, pc, statusOK, serverUp>>
        /\ faults' = faults \/ faults' = faults + 1
        /\ faults' = faults => ~Harmed'
    BY <1>0 DEF CheckConnect, ConnectionBreaks, database, request, counts, Harmed, TypeOK
  <1>2. \A r, left : Unequal(r, left)' = Unequal(r, left)
    BY <1>1 DEF Unequal
  <1>3. \A key : Matching(key)' = Matching(key)
    BY <1>1 DEF Matching
  <1>4. ASSUME NEW r, Charged(r) PROVE Charged(r)'
    <2>1. Unequal(r, todo[Writer])' = Unequal(r, todo[Writer])
      BY <1>1 DEF Unequal
    <2>2. Cardinality(Unequal(r, todo[Writer])) \in Nat
      BY <1>4, FS_CardinalityType DEF Charged
    <2>3. Cardinality(Unequal(r, todo[Writer])) + (IF Harmed' THEN 1 ELSE 0) <= faults'
      BY <1>0, <1>1, <1>4, <2>2 DEF Charged
    <2> QED BY <1>4, <2>1, <2>3 DEF Charged
  <1>5. ColumnsCharged'
    BY <1>1, <1>3, <1>4 DEF UpdateInv, ColumnsCharged, Changing
  <1>6. UpdateSettled'
    <2> SUFFICES ASSUME pc[Writer] = "answered" /\ statusOK[Writer] /\ rec[Writer] \in UpdateRequests
                          /\ DOMAIN rec[Writer].cells # {}
                 PROVE  \E r \in Matching(rec[Writer].key) :
                          IsFiniteSet(Unequal(r, {})) /\ Cardinality(Unequal(r, {})) <= faults'
      BY <1>1, <1>2, <1>3 DEF UpdateSettled
    <2>1. CheckConnect(Writer) => FALSE
      BY DEF CheckConnect, OperationStarts
    <2>2. PICK r \in Matching(rec[Writer].key) :
            IsFiniteSet(Unequal(r, {})) /\ Cardinality(Unequal(r, {})) <= faults
      BY DEF UpdateInv, UpdateSettled
    <2>3. faults' = faults + 1
      BY <2>1 DEF ConnectionBreaks
    <2>4. Cardinality(Unequal(r, {})) \in Nat
      BY <2>2, FS_CardinalityType
    <2> QED BY <1>0, <2>2, <2>3, <2>4
  <1> QED BY <1>1, <1>5, <1>6 DEF UpdateInv, Removing

\* The column c is decided: charged to a fault unless it was set, or is not there.
LEMMA ColumnCharged ==
    ASSUME OneWriter, TypeOK, NEW c \in todo[Writer], NEW r, NEW s, Charged(r),
           UNCHANGED <<rec, columns>>, todo'[Writer] = todo[Writer] \ {c},
           ~Harmed', faults' \in Nat,
           \A x \in DOMAIN rec[Writer].cells \ {c} : s.val[x] = r.val[x],
           \/ faults' = faults + 1
           \/ faults' = faults /\ Harmed
           \/ faults' = faults /\ (c \notin columns \/ s.val[c] = rec[Writer].cells[c])
    PROVE  Charged(s)'
PROOF
  <1> DEFINE S == Unequal(r, todo[Writer])
             T == Unequal(s, todo[Writer])'
  <1>1. S \subseteq DOMAIN rec[Writer].cells /\ c \notin S
    BY DEF Unequal
  <1>2. T = {x \in (DOMAIN rec[Writer].cells \ (todo[Writer] \ {c})) \cap columns :
               s.val[x] # rec[Writer].cells[x]}
    BY DEF Unequal
  <1>3. T \subseteq S \cup {c}
    BY <1>2 DEF Unequal
  <1>4. c \notin columns \/ s.val[c] = rec[Writer].cells[c] => T \subseteq S
    BY <1>2, <1>3
  <1>5. IsFiniteSet(S) /\ Cardinality(S) \in Nat /\ faults \in Nat
        /\ Cardinality(S) + (IF Harmed THEN 1 ELSE 0) <= faults
    BY FS_CardinalityType, BoundsAssumption DEF Charged, TypeOK
  <1> HIDE DEF S, T
  <1>6. Cardinality(S) + 1 <= faults' \/ (T \subseteq S /\ Cardinality(S) <= faults')
    BY <1>4, <1>5
  <1>7. IsFiniteSet(T) /\ Cardinality(T) <= faults'
    BY <1>3, <1>5, <1>6, OneMore
  <1>8. Cardinality(T) \in Nat
    BY <1>7, FS_CardinalityType
  <1> QED BY <1>7, <1>8 DEF Charged, T

LEMMA SelectUpdateInv ==
    ASSUME KeyedRequests, OneWriter, Inv, UpdateInv, NEW fate, SelectForUpdate(Writer, fate)
    PROVE  UpdateInv'
PROOF
  <1>0. /\ TypeOK /\ Writer \in Writers /\ UNCHANGED <<rows, columns, serverUp>>
        /\ pc[Writer] = "set_key" /\ checked[Writer] /\ Statement(Writer, fate)
        /\ faults \in Nat /\ faults' \in Nat /\ Changing
    BY InvFacts, BoundsAssumption
       DEF SelectForUpdate, Statement, TypeOK, database, Changing
  <1>1. fate \in {"done", "lost", "dead"} /\ connected'[Writer] = (fate = "done")
        /\ faults' = (IF fate = "lost" THEN faults + 1 ELSE faults)
        /\ (fate = "dead" => ~connected[Writer])
    BY <1>0 DEF Statement, Fates, TypeOK
  <1>2. \A key : Matching(key)' = Matching(key)
    BY <1>0 DEF Matching
  <1>3. CASE fate = "done" /\ KeyColumn \in columns /\ Matching(rec[Writer].key) # {}
    <2>1. UNCHANGED <<rec, todo>> /\ pc'[Writer] = "set"
      BY <1>0, <1>3 DEF SelectForUpdate, Goto, TypeOK, request
    <2>2. ~Harmed' /\ faults' = faults
      BY <1>1, <1>3 DEF Harmed
    <2>3. ASSUME NEW r, Charged(r) PROVE Charged(r)'
      <3>1. Unequal(r, todo[Writer])' = Unequal(r, todo[Writer])
        BY <1>0, <2>1 DEF Unequal
      <3>2. Cardinality(Unequal(r, todo[Writer])) \in Nat
        BY <2>3, FS_CardinalityType DEF Charged
      <3>3. Cardinality(Unequal(r, todo[Writer])) + (IF Harmed' THEN 1 ELSE 0) <= faults'
        BY <1>0, <2>2, <2>3, <3>2 DEF Charged
      <3> QED BY <2>3, <3>1, <3>3 DEF Charged
    <2>4. ColumnsCharged'
      BY <1>0, <1>2, <2>1, <2>3 DEF UpdateInv, ColumnsCharged
    <2> QED BY <1>0, <1>3, <2>1, <2>4 DEF UpdateInv, UpdateSettled, Removing
  <1>4. CASE \E c \in todo[Writer] : EndColumn(Writer, c, FALSE)
    <2>1. PICK c \in todo[Writer] : EndColumn(Writer, c, FALSE)
      BY <1>4
    <2>2. CASE todo[Writer] = {c}
      <3>1. pc'[Writer] = "answered" /\ statusOK'[Writer] = FALSE
        BY <1>0, <2>1, <2>2 DEF EndColumn, EndRequest, Goto, TypeOK
      <3> QED BY <1>0, <3>1, UpdateElsewhere
    <2>3. CASE todo[Writer] # {c}
      <3>1. /\ pc'[Writer] = "set_key" /\ ~checked'[Writer] /\ rec' = rec
            /\ todo'[Writer] = todo[Writer] \ {c}
        BY <1>0, <2>1, <2>3 DEF EndColumn, Goto, TypeOK
      <3>2. ASSUME KeyColumn \in columns, NEW r \in Matching(rec[Writer].key)
            PROVE  Charged(r)'
        <4>1. fate # "done" \/ KeyColumn \notin columns \/ Matching(rec[Writer].key) = {}
              \/ pc'[Writer] = "set"
          BY <1>0 DEF SelectForUpdate, Goto, TypeOK
        <4>2. fate # "done"
          BY <3>1, <3>2, <4>1
        <4>3. Charged(r)
          BY <1>0, <3>2 DEF UpdateInv, ColumnsCharged
        <4>4. faults' = faults + 1 \/ (faults' = faults /\ Harmed)
          BY <1>0, <1>1, <4>2 DEF Harmed
        <4>5. ~Harmed'
          BY <3>1 DEF Harmed
        <4> QED BY <1>0, <3>1, <4>3, <4>4, <4>5, ColumnCharged
      <3>3. ColumnsCharged'
        BY <1>0, <1>2, <3>1, <3>2 DEF ColumnsCharged
      <3> QED BY <1>0, <3>1, <3>3 DEF UpdateInv, UpdateSettled, Removing
    <2> QED BY <2>2, <2>3
  <1> QED BY <1>3, <1>4 DEF SelectForUpdate

LEMMA UpdateColumnInv ==
    ASSUME KeyedRequests, OneWriter, Inv, UpdateInv, NEW fate, NEW c \in Columns,
           UpdateColumn(Writer, fate, c)
    PROVE  UpdateInv'
PROOF
  <1> DEFINE key   == rec[Writer].key
             value == rec[Writer].cells[c]
             ok    == fate = "done" /\ c \in columns
  <1>0. /\ TypeOK /\ Writer \in Writers /\ UNCHANGED <<columns, serverUp>>
        /\ pc[Writer] = "set" /\ c \in todo[Writer] /\ Statement(Writer, fate)
        /\ faults \in Nat /\ faults' \in Nat /\ Changing
        /\ EndColumn(Writer, c, ok)
    BY InvFacts, BoundsAssumption
       DEF UpdateColumn, Statement, TypeOK, database, Changing, UpdateRows
  <1>1. /\ fate \in {"done", "lost", "dead"}
        /\ faults' = (IF fate = "lost" THEN faults + 1 ELSE faults)
        /\ (fate = "dead" => Harmed)
    BY <1>0 DEF Statement, Fates, Harmed
  <1>2. /\ rec' = rec /\ todo'[Writer] = todo[Writer] \ {c} /\ ~checked'[Writer]
        /\ pc'[Writer] = IF todo[Writer] = {c} THEN "answered" ELSE "set_key"
        /\ todo[Writer] = {c} => statusOK'[Writer] = ok
    BY <1>0 DEF EndColumn, EndRequest, Goto, TypeOK
  <1>3. c # KeyColumn /\ KeyColumn \in columns /\ Matching(key) # {}
        /\ DOMAIN rec[Writer].cells \subseteq Columns
    <2>1. c \in DOMAIN rec[Writer].cells /\ KeyColumn \notin DOMAIN rec[Writer].cells
      BY <1>0, InvFacts DEF Inv, TypeInv, SetsGivenColumns, KeyInv, ThreadKeyed
    <2>2. KeyColumn \in columns /\ Matching(key) # {}
      BY <1>0 DEF UpdateInv, Inv, Ready
    <2>3. rec[Writer].cells \in Cells
      BY <1>0 DEF TypeOK, Records
    <2> QED BY <2>1, <2>2, <2>3 DEF Cells
  <1>4. /\ Matching(key)' # {}
        /\ \A s \in Matching(key)' : \E r \in Matching(key) :
             /\ \A x \in DOMAIN rec[Writer].cells \ {c} : s.val[x] = r.val[x]
             /\ fate # "dead" /\ c \in columns => s.val[c] = value
    <2>1. CASE Executed(fate) /\ c \in columns
      <3>1. PICK k : k = key
        OBVIOUS
      <3>5. PICK v : v = value
        OBVIOUS
      <3>6. PICK cells : cells = [x \in {c} |-> v]
        OBVIOUS
      <3>2. UpdateRows(k, cells)
        BY <2>1, <3>1, <3>5, <3>6 DEF UpdateColumn
      <3>3. /\ Matching(k) # {} => \E s \in rows' : s.val[KeyColumn] = k
            /\ \A s \in rows' : s.val[KeyColumn] = k =>
                 \E r \in Matching(k) :
                    s.val[c] = v /\ \A x \in Columns \ {c} : s.val[x] = r.val[x]
        <4> DEFINE new(r) == [r EXCEPT !.val = Given(r.val, cells)]
        <4>1. rows' = (rows \ Matching(k)) \cup {new(r) : r \in Matching(k)}
          BY <3>2 DEF UpdateRows
        <4>2. ASSUME NEW r \in Matching(k)
              PROVE  /\ new(r).val[c] = v
                     /\ \A x \in Columns \ {c} : new(r).val[x] = r.val[x]
                     /\ new(r).val[KeyColumn] = k
          <5>1. r \in rows /\ rows \subseteq Rows /\ r.val[KeyColumn] = k
            BY <1>0 DEF Matching, TypeOK
          <5>2. new(r).val = Given(r.val, cells)
            BY <5>1 DEF Rows
          <5>3. new(r).val = [x \in Columns |-> IF x \in {c} THEN v ELSE r.val[x]]
            BY <3>6, <5>2 DEF Given
          <5> QED BY <1>3, <5>1, <5>3, ColumnsAssumption
        <4> HIDE DEF new
        <4>3. \A s \in rows' : s.val[KeyColumn] = k => \E r \in Matching(k) : s = new(r)
          BY <4>1 DEF Matching
        <4>4. \A r \in Matching(k) : new(r) \in rows'
          BY <4>1
        <4> HIDE DEF key, value, ok
        <4> QED BY <4>2, <4>3, <4>4
      <3>4. Matching(key)' = {s \in rows' : s.val[KeyColumn] = k} /\ Matching(key) = Matching(k)
        BY <1>2, <3>1 DEF Matching
      <3> HIDE DEF key, value
      <3> QED BY <1>3, <3>3, <3>4, <3>5
    <2>2. CASE ~(Executed(fate) /\ c \in columns)
      <3>1. rows' = rows
        BY <2>2 DEF UpdateColumn, database
      <3>2. Matching(key)' = Matching(key)
        BY <1>2, <3>1 DEF Matching
      <3> QED BY <1>3, <2>2, <3>2 DEF Executed
    <2> QED BY <2>1, <2>2
  <1>5. ~Harmed'
    BY <1>2 DEF Harmed
  <1>6. ASSUME NEW s \in Matching(key)' PROVE Charged(s)'
    <2>1. PICK r \in Matching(key) :
             /\ \A x \in DOMAIN rec[Writer].cells \ {c} : s.val[x] = r.val[x]
             /\ fate # "dead" /\ c \in columns => s.val[c] = value
      BY <1>4
    <2>2. Charged(r)
      BY <1>0, <1>3 DEF UpdateInv, ColumnsCharged
    <2>3. \/ faults' = faults + 1
          \/ faults' = faults /\ Harmed
          \/ faults' = faults /\ (c \notin columns \/ s.val[c] = rec[Writer].cells[c])
      BY <1>1, <2>1
    <2> QED BY <1>0, <1>2, <1>5, <2>1, <2>2, <2>3, ColumnCharged
  <1>7. CASE todo[Writer] # {c}
    <2>1. ColumnsCharged'
      BY <1>2, <1>6, <1>7 DEF ColumnsCharged
    <2> QED BY <1>0, <1>2, <1>7, <2>1 DEF UpdateInv, UpdateSettled, Removing
  <1>8. CASE todo[Writer] = {c}
    <2>1. pc'[Writer] = "answered" /\ todo'[Writer] = {}
      BY <1>2, <1>8
    <2>2. ColumnsCharged'
      BY <2>1 DEF ColumnsCharged, Changing
    <2>3. PICK s \in Matching(key)' : TRUE
      BY <1>4
    <2>4. IsFiniteSet(Unequal(s, {})') /\ Cardinality(Unequal(s, {})') <= faults'
      <3>1. Unequal(s, todo[Writer])' = Unequal(s, {})'
        BY <2>1 DEF Unequal
      <3>2. /\ IsFiniteSet(Unequal(s, todo[Writer])')
            /\ Cardinality(Unequal(s, todo[Writer])') + (IF Harmed' THEN 1 ELSE 0) <= faults'
        BY <1>6 DEF Charged
      <3>3. Cardinality(Unequal(s, todo[Writer])') \in Nat
        BY <3>2, FS_CardinalityType
      <3> QED BY <1>5, <3>1, <3>2, <3>3
    <2>5. UpdateSettled'
      BY <1>2, <2>4 DEF UpdateSettled
    <2> QED BY <1>0, <2>1, <2>2, <2>5 DEF UpdateInv, Removing
  <1> QED BY <1>7, <1>8

LEMMA DeletionUpdateInv ==
    ASSUME OneWriter, Inv, UpdateInv, NEW fate,
           SelectForDelete(Writer, fate) \/ DeleteRow(Writer, fate)
    PROVE  UpdateInv'
PROOF
  <1>1. rec' = rec /\ serverUp' = serverUp /\ Removing
    BY DEF SelectForDelete, DeleteRow, EndRequest, Statement, Removing, request
  <1>2. pc'[Writer] \in {"delete", "answered"}
    BY InvFacts DEF SelectForDelete, DeleteRow, EndRequest, Goto, TypeOK
  <1>3. DOMAIN rec'[Writer].cells = {}
    BY <1>1 DEF UpdateInv
  <1> QED BY <1>1, <1>2, <1>3, UpdateElsewhere

LEMMA AddUpdateInv ==
    ASSUME KeyedRequests, OneWriter, Inv, UpdateInv, NEW fate, NEW found, NEW c,
           \/ ReadNames(Writer, fate, found) \/ CreateTable(Writer, fate)
           \/ ListExistColumns(Writer, fate) \/ AddNewColumn(Writer, fate, c)
           \/ SelectKey(Writer, fate) \/ Insert(Writer, fate) \/ Overwrite(Writer, fate)
    PROVE  UpdateInv'
PROOF
  <1>1. Adding /\ serverUp' = serverUp
    BY DEF ReadNames, CreateTable, ListExistColumns, AddNewColumn, SelectKey, Insert,
           Overwrite, Statement, Adding
  <1>2. \/ \E point \in AddPoints : Goto(Writer, point)
        \/ \E ok \in BOOLEAN : EndRecord(Writer, ok)
    BY DEF ReadNames, CreateTable, ListExistColumns, AddNewColumn, SelectKey, Insert,
           Overwrite, AddPoints
  <1>3. CASE \E ok \in BOOLEAN : EndRecord(Writer, ok)
    BY <1>1, <1>3, RecordEndsUpdate
  <1>4. CASE \E point \in AddPoints : Goto(Writer, point)
    <2>1. pc'[Writer] \in AddPoints
      BY <1>4, InvFacts DEF Goto, TypeOK
    <2> QED BY <1>1, <2>1, UpdateElsewhere
  <1> QED BY <1>2, <1>3, <1>4

LEMMA StepUpdateInv ==
    ASSUME KeyedRequests, OneWriter, Inv, UpdateInv, Step(Writer)
    PROVE  UpdateInv'
PROOF
  <1>1. ~Unconnected(Writer)
    BY DEF Unconnected, UpdateInv
  <1>2. ASSUME NEW fate, \E found \in BOOLEAN : ReadNames(Writer, fate, found)
        PROVE  UpdateInv'
    BY <1>2, AddUpdateInv
  <1>3. ASSUME NEW fate, \/ CreateTable(Writer, fate) \/ ListExistColumns(Writer, fate)
                         \/ SelectKey(Writer, fate) \/ Insert(Writer, fate)
                         \/ Overwrite(Writer, fate)
        PROVE  UpdateInv'
    BY <1>3, AddUpdateInv
  <1>4. ASSUME NEW fate, NEW c \in Columns,
               AddNewColumn(Writer, fate, c) \/ UpdateColumn(Writer, fate, c)
        PROVE  UpdateInv'
    BY <1>4, AddUpdateInv, UpdateColumnInv
  <1>5. ASSUME NEW fate, \/ SelectForUpdate(Writer, fate) \/ SelectForDelete(Writer, fate)
                         \/ DeleteRow(Writer, fate)
        PROVE  UpdateInv'
    BY <1>5, SelectUpdateInv, DeletionUpdateInv
  <1> QED BY <1>1, <1>2, <1>3, <1>4, <1>5, BeginUpdateInv, ConnectionUpdateInv DEF Step

\* For one instance on a server that stays up, an update answered true left at most as
\* many of its columns unset as there were broken connections, lost answers and
\* restarts: for every number of columns, values and keyed requests.
THEOREM FaultsCostOneColumnEach ==
    KeyedRequests /\ OneWriter /\ ~Outages => (Spec => []UpdateLosesOneColumnPerFault)
PROOF
  <1> SUFFICES ASSUME KeyedRequests, OneWriter, ~Outages
               PROVE  Spec => []UpdateLosesOneColumnPerFault
    OBVIOUS
  <1>1. Init => Inv /\ UpdateInv
    <2>1. Init => Inv
      BY TypeInvInit, KeyInvInit, InitImplements DEF Inv
    <2>2. Init => UpdateInv
      BY TheWriter DEF Init, NoRecord, UpdateInv, ColumnsCharged, UpdateSettled, Changing, Removing
    <2> QED BY <2>1, <2>2
  <1>2. Inv /\ UpdateInv /\ [Next]_vars => Inv' /\ UpdateInv'
    <2> SUFFICES ASSUME Inv, UpdateInv, [Next]_vars
                 PROVE  Inv' /\ UpdateInv'
      OBVIOUS
    <2>1. Inv'
      BY TypeInvNext, KeyInvNext, NextImplements DEF Inv, Implemented
    <2>2. CASE UNCHANGED vars
      BY <2>1, <2>2 DEF vars, UpdateInv, ColumnsCharged, UpdateSettled, Charged, Unequal, Harmed,
                        Changing, Removing, Matching, database, link, request, counts
    <2>3. ~ServerStops /\ ~ServerStarts
      BY DEF ServerStops, ServerStarts, UpdateInv
    <2>4. ASSUME NEW w \in Writers, Step(w)
          PROVE  UpdateInv'
      BY <2>4, TheWriter, StepUpdateInv
    <2>5. (\E w \in Writers : Step(w)) \/ UNCHANGED vars
      BY <2>3 DEF Next
    <2> QED BY <2>1, <2>2, <2>4, <2>5
  <1>3. UpdateInv => UpdateLosesOneColumnPerFault
    <2> SUFFICES ASSUME UpdateInv, NEW w \in Writers, pc[w] = "answered", statusOK[w],
                        rec[w] \in UpdateRequests, DOMAIN rec[w].cells # {}
                 PROVE  \E r \in Matching(rec[w].key) :
                          Cardinality({c \in DOMAIN rec[w].cells \cap columns :
                                         r.val[c] # rec[w].cells[c]}) <= faults
      BY DEF UpdateLosesOneColumnPerFault
    <2>1. w = Writer
      BY TheWriter
    <2>2. PICK r \in Matching(rec[w].key) : Cardinality(Unequal(r, {})) <= faults
      BY <2>1 DEF UpdateInv, UpdateSettled
    <2>3. Unequal(r, {}) = {c \in DOMAIN rec[w].cells \cap columns :
                              r.val[c] # rec[w].cells[c]}
      BY <2>1 DEF Unequal
    <2> QED BY <2>2, <2>3
  <1> QED BY <1>1, <1>2, <1>3, PTL DEF Spec
====
