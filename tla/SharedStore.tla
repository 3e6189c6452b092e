---- MODULE SharedStore ----
(***************************************************************************)
(* What several instances of the service make of one keyed table when they *)
(* write it at once.  Every write of a client is two steps: it looks       *)
(* whether anyone has a row with the key, and later acts on what it saw.   *)
(* In between the others look and write too.  So a client may add a row    *)
(* beside another's, and a client that saw a row may change or delete none *)
(* and still be answered true.  But a client adds no row beside one of its *)
(* own, a write reaches every row the key has by then and no other, and no *)
(* answer is true unless the last write was carried out.                   *)
(***************************************************************************)
EXTENDS Sequences

CONSTANTS
    Clients, Columns, Values,
    Null,            \* the value of a column nobody gave
    Absent,          \* what a client without a row of the key has there
    AddRequests,     \* requests addNewRecord: the records, each with its key
    UpdateRequests,  \* requests update: the key, the changes
    DeleteKeys       \* requests delete: the key

VARIABLES
    store,    \* key -> client -> the values of the row it added
    doing,    \* client -> "idle", the statement it is at, "answered"
    records,  \* client -> the record in hand and those not begun
    left,     \* client -> the columns of an update not begun
    ok        \* client -> what the answer will be

vars == <<store, doing, records, left, ok>>

Init ==
    /\ store = [key \in Values |-> [w \in Clients |-> Absent]]
    /\ doing = [w \in Clients |-> "idle"]
    /\ records = [w \in Clients |-> <<>>]
    /\ left = [w \in Clients |-> {}]
    /\ ok = [w \in Clients |-> FALSE]

InHand(w) == Head(records[w])
Key(w)    == InHand(w).key

\* Some client has a row with the key.
Has(key) == \E v \in Clients : store[key][v] # Absent

Turn(w, point, work, undone, answer) ==
    /\ doing' = [doing EXCEPT ![w] = point]
    /\ records' = [records EXCEPT ![w] = work]
    /\ left' = [left EXCEPT ![w] = undone]
    /\ ok' = [ok EXCEPT ![w] = answer]

Begin(w, point, work, undone) ==
    /\ doing[w] = "idle"
    /\ Turn(w, point, work, undone, ok[w])
    /\ UNCHANGED store

BeginAdd(w, r) == Begin(w, IF r.items = <<>> THEN "answered" ELSE "key", r.items, {})

BeginUpdate(w, r) ==
    IF DOMAIN r.cells = {} THEN Begin(w, "answered", <<>>, {})
    ELSE Begin(w, "set_key", <<r>>, DOMAIN r.cells)

BeginDelete(w, r) == Begin(w, "delete_key", <<r>>, {})

----
\* The first step of a write: what is there.

Look(w, point, next) ==
    /\ doing[w] = point
    /\ Turn(w, next, records[w], left[w], ok[w])
    /\ UNCHANGED store

LookForKey(w) == Look(w, "key", IF Has(Key(w)) THEN "overwrite" ELSE "insert")

Find(w) ==
    /\ Look(w, "set_key", "set") \/ Look(w, "delete_key", "delete")
    /\ Has(Key(w))

----
\* The second: the write itself, or none.

Given(val, cells) == [c \in Columns |-> IF c \in DOMAIN cells THEN cells[c] ELSE val[c]]

\* Every row the key has takes the cells; a key without rows stays without.
Put(key, cells) ==
    store' = [store EXCEPT ![key] =
       [v \in Clients |-> IF store[key][v] = Absent THEN Absent ELSE Given(store[key][v], cells)]]

Decide(w, answer) ==
    LET rest == Tail(records[w])
    IN  Turn(w, IF rest = <<>> THEN "answered" ELSE "key", rest, left[w], answer)

Insert(w, answer) ==
    /\ doing[w] = "insert"
    /\ store[Key(w)][w] = Absent
    /\ store' = [store EXCEPT ![Key(w)][w] = Given([c \in Columns |-> Null], InHand(w).cells)]
    /\ Decide(w, answer)

Overwrite(w, answer) ==
    /\ doing[w] = "overwrite"
    /\ Put(Key(w), InHand(w).cells)
    /\ Decide(w, answer)

Delete(w, answer) ==
    /\ doing[w] = "delete"
    /\ store' = [store EXCEPT ![Key(w)] = [v \in Clients |-> Absent]]
    /\ Decide(w, answer)

Refuse(w) ==
    /\ doing[w] \in {"key", "insert", "overwrite", "delete_key", "delete"}
    /\ Decide(w, FALSE)
    /\ UNCHANGED store

\* The status of the column decided last is the answer.
DecideColumn(w, c, answer) ==
    /\ c \in left[w]
    /\ IF left[w] = {c} THEN Turn(w, "answered", <<>>, {}, answer)
       ELSE Turn(w, "set_key", records[w], left[w] \ {c}, ok[w])

SetColumn(w, c, answer) ==
    /\ doing[w] = "set"
    /\ Put(Key(w), [x \in {c} |-> InHand(w).cells[c]])
    /\ DecideColumn(w, c, answer)

RefuseColumn(w, c) ==
    /\ doing[w] \in {"set_key", "set"}
    /\ DecideColumn(w, c, FALSE)
    /\ UNCHANGED store

\* The answer is sent, or the process dies.
End(w) ==
    /\ doing[w] # "idle"
    /\ Turn(w, "idle", <<>>, {}, FALSE)
    /\ UNCHANGED store

Step(w) ==
    \/ \E r \in AddRequests : BeginAdd(w, r)
    \/ \E r \in UpdateRequests : BeginUpdate(w, r)
    \/ \E key \in DeleteKeys : BeginDelete(w, [key |-> key, cells |-> [c \in {} |-> Null]])
    \/ LookForKey(w) \/ Find(w)
    \/ \E answer \in BOOLEAN :
         \/ Insert(w, answer) \/ Overwrite(w, answer) \/ Delete(w, answer)
         \/ \E c \in left[w] : SetColumn(w, c, answer)
    \/ Refuse(w) \/ End(w)
    \/ \E c \in left[w] : RefuseColumn(w, c)

Next == \E w \in Clients : Step(w)

Spec == Init /\ [][Next]_vars
====
