---- MODULE SharedRecords ----
(***************************************************************************)
(* RecordWriter with any number of writers implements SharedStore: each    *)
(* write is the SELECT that looks for the key and the statement that acts  *)
(* on it; all other statements, the connections and the columns of the     *)
(* table are stutters.                                                     *)
(***************************************************************************)
EXTENDS RecordWriter

CONSTANTS
    Absent,    \* no row has the key
    Twice      \* two rows have it, which is no value of a store

ASSUME StoreAssumption ==
    /\ Absent # Twice
    /\ {Absent, Twice} \cap [Columns -> Values \cup {Null}] = {}

\* The rows with the key that came from INSERTs of w.
RowsOf(w, key) == {r \in Matching(key) : r.by = w}

SharedAt(w, key) ==
    IF RowsOf(w, key) = {} THEN Absent
    ELSE IF \E r \in RowsOf(w, key) : RowsOf(w, key) = {r}
    THEN (CHOOSE r \in RowsOf(w, key) : TRUE).val
    ELSE Twice

SharedRows == [key \in Values |-> [w \in Writers |-> SharedAt(w, key)]]

\* putValueInTable before its SELECT.
Preparing == {"names", "create", "columns", "alter", "key"}

SharedPoint(w) == IF pc[w] \in Preparing THEN "key" ELSE pc[w]

SharedWork(w) == IF pc[w] \in {"idle", "answered"} THEN <<>> ELSE <<rec[w]>> \o queue[w]

SharedLeft(w) == IF pc[w] \in {"set_key", "set"} THEN todo[w] ELSE {}

Shared == INSTANCE SharedStore WITH
    Clients <- Writers,
    store   <- SharedRows,
    doing   <- [w \in Writers |-> SharedPoint(w)],
    records <- [w \in Writers |-> SharedWork(w)],
    left    <- [w \in Writers |-> SharedLeft(w)],
    ok      <- statusOK

\* Instances that write one keyed table at once see a shared store: whatever they
\* interleave, lose or repeat, an instance adds a row only where it has none of its
\* own and nobody had one when it looked, a write reaches all the rows its key has at
\* that moment and none of another key, and an answer true says the last write of the
\* request was carried out.
ImplementsSharedStore == Shared!Spec
====
