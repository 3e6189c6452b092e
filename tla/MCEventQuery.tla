---- MODULE MCEventQuery ----
(***************************************************************************)
(* A registry of three analytics, one of them without a table, and         *)
(* requests of every form for EventQuery.                                  *)
(***************************************************************************)
EXTENDS EventQuery

Registered(idx, table) == [idx |-> idx, table |-> table, enable |-> TRUE]
MCRegistry == {Registered(1, "t"), Registered(2, "u"), Registered(3, NoTable)}

Request(kind, types) == [kind |-> kind, types |-> types, union |-> FALSE, badCams |-> FALSE]

SomeTypes == {All, <<1, 2>>, <<2, 1>>, <<1, 9>>, <<3, 4, 2>>}
MCRequests ==
    {Request(kind, types) : kind \in Kinds, types \in SomeTypes}
    \cup {Request("asis", <<>>), Request("timeline", <<>>), Request("asis", <<1, Mistyped>>),
          [Request("asis", All) EXCEPT !.union = TRUE],
          [Request("asis", All) EXCEPT !.badCams = TRUE]}
====
