---- MODULE MCRecordWriter ----
(***************************************************************************)
(* Requests for RecordWriter: small records over the columns id (the key), *)
(* a and b, with the values x and y.                                       *)
(***************************************************************************)
EXTENDS RecordWriter, TLC

MCColumns == {"id", "a", "b"}
MCValues  == {"x", "y"}

IdA(k, v) == "id" :> k @@ "a" :> v
IdB(k, v) == "id" :> k @@ "b" :> v
NoCells   == [c \in {} |-> Null]

Keyed(k, cells) == [key |-> k, cells |-> cells]
Single(item)    == [key |-> NoKey, items |-> <<item>>]

\* Records with a key each and columns that differ, alone and in an array.
KeyedAdds ==
    {Single(Keyed("x", IdA("x", "x"))), Single(Keyed("x", IdB("x", "y"))),
     Single(Keyed("y", IdA("y", "y"))),
     [key |-> NoKey, items |-> <<Keyed("x", IdA("x", "y")), Keyed("y", IdB("y", "x"))>>]}

\* Besides these: no record at all, a request without toWrite, a record without a
\* key, a key given once for all records, and one that the second record inherits.
MixedAdds == KeyedAdds \cup
    {[key |-> NoKey, items |-> <<>>],
     Single(Keyed(NoKey, NoCells)),
     Single(Keyed(NoKey, IdA("x", "x"))),
     [key |-> "x", items |-> <<Keyed(NoKey, IdA("x", "y"))>>],
     [key |-> NoKey, items |-> <<Keyed("x", IdA("x", "x")), Keyed(NoKey, IdA("y", "y"))>>]}

SomeUpdates == {[key |-> "x", cells |-> "a" :> "y" @@ "b" :> "x"],
                [key |-> "y", cells |-> NoCells]}
NoUpdates   == {}
SomeDeletes == {"x"}
NoDeletes   == {}

WriterSymmetry == Permutations(Writers)
====
