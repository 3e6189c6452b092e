---- MODULE MCTimeline ----
(***************************************************************************)
(* Times and periods for Timeline: the gap is two units.                   *)
(***************************************************************************)
EXTENDS Timeline

MCTimes   == 0..7
MCPeriods == {[begin |-> 0, end |-> 7], [begin |-> 2, end |-> 5], [begin |-> 5, end |-> 2]}
====
