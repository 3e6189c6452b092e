---- MODULE RecordStore ----
(***************************************************************************)
(* RecordWriter with one writer implements KeyedStore: the statements      *)
(* between two records, the connection and the columns of the table are    *)
(* stutters, and each record, column or deletion takes effect in the one   *)
(* statement that writes it.                                               *)
(***************************************************************************)
EXTENDS SharedRecords

Writer == CHOOSE w \in Writers : TRUE

StoredAt(key) ==
    IF Matching(key) = {} THEN Absent
    ELSE IF \E r \in Matching(key) : Matching(key) = {r}
    THEN (CHOOSE r \in Matching(key) : TRUE).val
    ELSE Twice

Stored == [key \in Values |-> StoredAt(key)]

Adding   == pc[Writer] \in {"names", "create", "columns", "alter", "key", "insert", "overwrite"}
Changing == pc[Writer] \in {"set_key", "set"}
Removing == pc[Writer] \in {"delete_key", "delete"}

Doing ==
    IF Adding THEN "adding" ELSE IF Changing THEN "changing"
    ELSE IF Removing THEN "removing"
    ELSE IF pc[Writer] = "answered" THEN "answered" ELSE "nothing"

Unwritten ==
    IF Adding \/ Changing \/ Removing THEN <<rec[Writer]>> \o queue[Writer] ELSE <<>>

Unset == IF Changing THEN todo[Writer] ELSE {}

Store == INSTANCE KeyedStore WITH
    store <- Stored, doing <- Doing, records <- Unwritten, left <- Unset,
    ok <- statusOK[Writer]

\* Clients of one instance see a keyed store: however connections break, answers get
\* lost, the server stops or the process restarts between the statements, records and
\* columns are written whole, in their order, at most once and under their own key,
\* and an answer true says that the last of them was.
ImplementsKeyedStore == Store!Spec
====
