---- MODULE ClientSession ----
(***************************************************************************)
(* RequestParser implements Session: of a request only what a client knows *)
(* of it is kept, of its course the answer or the exception it ends with,  *)
(* and of the current table the name in force.                             *)
(***************************************************************************)
EXTENDS RequestParser

CONSTANT Lost      \* no table is in force that a client named

ASSUME LostAssumption == Lost \notin Tables \cup {NoTable}

\* A request as its client sees it.
Terms(r) ==
    [names     |-> IF NamesTable(r) THEN r.table ELSE NoTable,
     generic   |-> r.method \in BasicRequests,
     untold    |-> r.method \in UnsetStatus,
     malformed |-> ~Answerable(r)]

InForce == IF since = {} THEN named ELSE Lost

Phase == IF pc = "idle" THEN "idle" ELSE IF pc = "sent" THEN "answered"
         ELSE IF pc = "escaped" THEN "broken" ELSE IF pc = "dead" THEN "over" ELSE "serving"

\* Where the statements of a generic request ran; the others have tables of their own.
Ran == IF req.method \in BasicRequests THEN used ELSE {}

Ended ==
    IF Phase \in {"idle", "serving"} THEN [done |-> FALSE, said |-> "nothing", ran |-> {}]
    ELSE [done |-> done, said |-> IF pc = "sent" THEN out.status ELSE "nothing", ran |-> Ran]

Client == INSTANCE Session WITH
    Places  <- AllTables,
    inForce <- InForce,
    phase   <- Phase,
    request <- Terms(req),
    outcome <- Ended

\* A client may take the service for a session, however requests of all kinds follow each
\* other, fail and throw: a generic request runs on the table named last, unless a request
\* of another kind lost it; only a malformed one is not answered; true means done.
ImplementsSession == Client!Spec
====
