---- MODULE KeyedStore ----
(***************************************************************************)
(* What one instance of the service promises the clients of a keyed table, *)
(* statements and connections aside: a key has one value at most; the      *)
(* records of a request are taken in their order, each written whole and   *)
(* once or not at all; the columns of an update in any order, each set     *)
(* once or not at all; and the answer is true only if the last of them was *)
(* written.  A request may be cut off after any of them.                   *)
(***************************************************************************)
EXTENDS Sequences

CONSTANTS
    Columns, KeyColumn, Values,
    Null,            \* the value of a column nobody gave
    Absent,          \* what a key without a record has
    AddRequests,     \* requests addNewRecord: the records, each with its key
    UpdateRequests,  \* requests update: the key, the changes
    DeleteKeys       \* requests delete: the key

VARIABLES
    store,    \* key -> the values of its columns
    doing,
    records,  \* the record in hand and those not begun
    left,     \* the columns of an update not begun
    ok        \* what the answer will be

vars == <<store, doing, records, left, ok>>

Init ==
    /\ store = [key \in Values |-> Absent]
    /\ doing = "nothing"
    /\ records = <<>>
    /\ left = {}
    /\ ok = FALSE

InHand == Head(records)

Begin(work, columns, what) ==
    /\ doing = "nothing"
    /\ records' = work
    /\ left' = columns
    /\ doing' = what
    /\ UNCHANGED <<store, ok>>

BeginAdd(r) == Begin(r.items, {}, IF r.items = <<>> THEN "answered" ELSE "adding")

\* An update without changes is answered at once, and false.
BeginUpdate(r) ==
    IF DOMAIN r.cells = {} THEN Begin(<<>>, {}, "answered")
    ELSE Begin(<<r>>, DOMAIN r.cells, "changing")

BeginDelete(r) == Begin(<<r>>, {}, "removing")

----
\* A step decides one record, one column or one deletion: done, or refused.

Old(key, c) == IF store[key] = Absent THEN Null ELSE store[key][c]

Put(key, cells) ==
    store' = [store EXCEPT ![key] =
       [c \in Columns |-> IF c \in DOMAIN cells THEN cells[c] ELSE Old(key, c)]]

Decide(answer) ==
    /\ records' = Tail(records)
    /\ doing' = IF Tail(records) = <<>> THEN "answered" ELSE doing
    /\ ok' = answer

Write(answer) ==
    /\ doing = "adding"
    /\ Put(InHand.key, InHand.cells)
    /\ Decide(answer)
    /\ UNCHANGED left

Remove(answer) ==
    /\ doing = "removing"
    /\ store' = [store EXCEPT ![InHand.key] = Absent]
    /\ Decide(answer)
    /\ UNCHANGED left

Refuse ==
    /\ doing \in {"adding", "removing"}
    /\ Decide(FALSE)
    /\ UNCHANGED <<store, left>>

\* The status of the column decided last is the answer.
DecideColumn(c, answer) ==
    /\ left' = left \ {c}
    /\ IF left = {c} THEN Decide(answer) ELSE UNCHANGED <<records, doing, ok>>

SetColumn(c, answer) ==
    /\ doing = "changing" /\ c \in left
    /\ store[InHand.key] # Absent
    /\ Put(InHand.key, [x \in {c} |-> InHand.cells[c]])
    /\ DecideColumn(c, answer)

RefuseColumn(c) ==
    /\ doing = "changing" /\ c \in left
    /\ DecideColumn(c, FALSE)
    /\ UNCHANGED store

\* The answer is sent, or the process dies.
End ==
    /\ doing # "nothing"
    /\ doing' = "nothing"
    /\ records' = <<>> /\ left' = {} /\ ok' = FALSE
    /\ UNCHANGED store

Next ==
    \/ \E r \in AddRequests : BeginAdd(r)
    \/ \E r \in UpdateRequests : BeginUpdate(r)
    \/ \E key \in DeleteKeys : BeginDelete([key |-> key, cells |-> [c \in {} |-> Null]])
    \/ \E answer \in BOOLEAN :
         \/ Write(answer) \/ Remove(answer)
         \/ \E c \in left : SetColumn(c, answer)
    \/ Refuse \/ End
    \/ \E c \in left : RefuseColumn(c)

Spec == Init /\ [][Next]_vars
====
