---- MODULE Session ----
(***************************************************************************)
(* What the clients of the service may count on.  They ask one request     *)
(* after another.  A request may name a table, which stays in force for    *)
(* the generic requests after it (update, addNewRecord, getAll, delete).   *)
(* A request of another kind may lose it, and then it is lost until a      *)
(* request names one again; a generic request loses nothing and runs on    *)
(* the table in force.  Every request is answered, unless it is malformed, *)
(* and an answer true means that the work was done, unless the request is  *)
(* one whose failures are not told.                                        *)
(***************************************************************************)
CONSTANTS
    Tables,    \* the names clients put in "table"
    NoTable,   \* nobody has named one, or the request names none
    Lost,      \* any table may be in force
    Places     \* the tables of the database

Requests == [names : Tables \cup {NoTable}, generic : BOOLEAN, untold : BOOLEAN,
             malformed : BOOLEAN]

VARIABLES
    inForce,   \* the table generic requests run on
    phase,     \* "idle", "serving", "answered", "broken", "over"
    request,   \* the request in hand
    outcome    \* whether it was done, what was answered, where a generic one ran

vars == <<inForce, phase, request, outcome>>

NoRequest == [names |-> NoTable, generic |-> FALSE, untold |-> FALSE, malformed |-> FALSE]
NoOutcome == [done |-> FALSE, said |-> "nothing", ran |-> {}]

Init ==
    /\ inForce = NoTable
    /\ phase = "idle"
    /\ request = NoRequest
    /\ outcome = NoOutcome

Ask(r) ==
    /\ phase = "idle"
    /\ phase' = "serving"
    /\ request' = r
    /\ inForce' = IF r.names # NoTable THEN r.names ELSE inForce
    /\ UNCHANGED outcome

\* Only a request that is not generic loses the table in force.
MayLose == inForce' = inForce \/ (inForce' = Lost /\ ~request.generic)

Lose ==
    /\ phase = "serving"
    /\ MayLose
    /\ UNCHANGED <<phase, request, outcome>>

RunsInForce(ran) == request.generic /\ inForce # Lost => ran \subseteq {inForce}

Answer(done, said, ran) ==
    /\ phase = "serving"
    /\ said = "true" => done \/ request.untold
    /\ RunsInForce(ran)
    /\ phase' = "answered"
    /\ outcome' = [done |-> done, said |-> said, ran |-> ran]
    /\ UNCHANGED <<inForce, request>>

\* No answer: the exception of a malformed request.
Break(done, ran) ==
    /\ phase = "serving"
    /\ request.malformed
    /\ RunsInForce(ran)
    /\ MayLose
    /\ phase' = "broken"
    /\ outcome' = [done |-> done, said |-> "nothing", ran |-> ran]
    /\ UNCHANGED request

\* A malformed request may fail before its table is read.
Drop(r) ==
    /\ phase = "idle"
    /\ r.malformed
    /\ phase' = "broken"
    /\ request' = r
    /\ UNCHANGED <<inForce, outcome>>

End ==
    /\ phase \in {"answered", "broken"}
    /\ phase' = "idle"
    /\ request' = NoRequest
    /\ outcome' = NoOutcome
    /\ UNCHANGED inForce

ProcessDies ==
    /\ phase = "broken"
    /\ phase' = "over"
    /\ UNCHANGED <<inForce, request, outcome>>

Next ==
    \/ \E r \in Requests : Ask(r) \/ Drop(r)
    \/ Lose \/ End \/ ProcessDies
    \/ \E done \in BOOLEAN, ran \in SUBSET Places :
         \/ \E said \in {"true", "false"} : Answer(done, said, ran)
         \/ Break(done, ran)

Spec == Init /\ [][Next]_vars
====
