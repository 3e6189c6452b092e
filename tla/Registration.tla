---- MODULE Registration ----
(***************************************************************************)
(* The registry of analytics: analyticsRegister as                         *)
(* DataProcessingAnalytic::registerAnalytics carries it out.  The old      *)
(* registrations of a module are listed, deleted one by one and a new one  *)
(* is added; each statement commits on its own.  Several instances of the  *)
(* service share the registry, statements fail or lose their answers,      *)
(* processes die, and clients change the comment of a registration.        *)
(*                                                                         *)
(* Each operation of the client checks the connection and opens it again,  *)
(* and none goes on after a statement of its own failed, so one failure    *)
(* says nothing of the next operation.  The new registration is written by *)
(* addNewRecord, whose statements on tables and columns RecordWriter tells *)
(* apart; here are the ones on rows.  addNewRecord takes "unique-name" and *)
(* "unique-value" from the client's request: with them insertRow looks for *)
(* rows by that pair and overwrites all it finds, whoever registered them. *)
(***************************************************************************)
EXTENDS Naturals, FiniteSets

CONSTANTS
    Writers,         \* the instances of the service
    Modules,         \* values of "module_name"
    NoModule,        \* no "module_name"
    Proxies,         \* values of "proxy_ip", and of the sender's address
    NoProxy,         \* no "proxy_ip"
    Comments,        \* values of "comment"
    NoComment,       \* the "-" a module gets that has no registration yet
    Requests,        \* the requests TLC runs
    ListLimit,       \* c_MAXLIMIT: rows a SELECT without a limit returns
    MaxRequests,     \* bound: registrations begun
    MaxFaults,       \* bound: statements failed, processes died
    MaxComments      \* bound: comments changed

Keys == Modules \X Proxies
Rows == [idx : Nat, module : Modules, proxy : Proxies,
         comment : Comments \cup {NoComment}, by : Writers]

\* What "unique-name" may be: absent, one of two columns, one that is not kept here, or
\* none of the table's.
UniqNames == {"absent", "module_name", "proxy_ip", "other", "unknown"}

ASSUME NamesAssumption == NoModule \notin Modules /\ NoProxy \notin Proxies
ASSUME RequestsAssumption ==
    /\ Requests # {}
    /\ Requests \subseteq [module : Modules \cup {NoModule}, proxy : Proxies \cup {NoProxy},
                           sender : Proxies, uniqName : UniqNames,
                           uniqValue : Modules \cup Proxies]
ASSUME BoundsAssumption ==
    /\ ListLimit \in Nat \ {0}
    /\ MaxRequests \in Nat /\ MaxFaults \in Nat /\ MaxComments \in Nat

VARIABLES
    \* the table registeredanalytics
    rows,
    nextIdx,    \* its identity column, the "type" clients ask events of
    \* an instance's transport thread
    pc,
    req,        \* instance -> the request in hand
    todo,       \* instance -> the rows it listed, as it read them, not yet deleted
    inHand,     \* instance -> the row deleteRow was called for
    saveComment,
    statusOK,
    \* history
    whole,      \* instance -> the listing returned every row it asked for
    blind,      \* instance -> keys it last registered without a whole listing
    last,       \* key -> the rows last acknowledged for it, {} when none or in doubt
    noted,      \* key -> the comments its registration may have, all when in doubt
    requests, faults, comments

table   == <<rows, nextIdx>>
thread  == <<pc, req, todo, inHand, saveComment, statusOK>>
history == <<whole, blind, last, noted>>
counts  == <<requests, faults, comments>>
vars    == <<table, thread, history, counts>>

Points == {"idle", "list", "rows", "delete", "add", "insert", "overwrite", "answered"}
Working(w) == pc[w] \in Points \ {"idle", "answered"}

Key(row) == <<row.module, row.proxy>>

\* The keys the SELECT of a request covers: without proxy_ip those of every proxy.
Concerns(r) == {k \in Keys : k[1] = r.module /\ r.proxy \in {NoProxy, k[2]}}

\* The keys whose rows the unique pair of a request may name.
PairKeys(r) ==
    {k \in Keys : \/ r.uniqName = "module_name" /\ k[1] = r.uniqValue
                  \/ r.uniqName = "proxy_ip" /\ k[2] = r.uniqValue
                  \/ r.uniqName = "other"}

\* The keys whose registrations a request may change.
Touches(r) == Concerns(r) \cup PairKeys(r)

\* Mutant of Target: an empty proxy_ip stays empty.
TargetAsGiven(r) == <<r.module, r.proxy>>

\* The key the new row gets: an empty proxy_ip is replaced by the sender's address.
Target(r) == <<r.module, IF r.proxy = NoProxy THEN r.sender ELSE r.proxy>>

NoRow == [idx |-> 0]

TypeOK ==
    /\ rows \subseteq Rows
    /\ nextIdx \in Nat \ {0}
    /\ pc \in [Writers -> Points]
    /\ req \in [Writers -> Requests]
    /\ todo \in [Writers -> SUBSET Rows]
    /\ inHand \in [Writers -> Rows \cup {NoRow}]
    /\ saveComment \in [Writers -> Comments \cup {NoComment}]
    /\ statusOK \in [Writers -> BOOLEAN]
    /\ whole \in [Writers -> BOOLEAN]
    /\ blind \in [Writers -> SUBSET Keys]
    /\ last \in [Keys -> SUBSET Nat]
    /\ noted \in [Keys -> SUBSET (Comments \cup {NoComment})]
    /\ requests \in Nat /\ faults \in Nat /\ comments \in Nat

\* An idle instance has no request; what stands for it is never looked at.
AnyRequest == CHOOSE r \in Requests : TRUE

Init ==
    /\ rows = {}
    /\ nextIdx = 1
    /\ pc = [w \in Writers |-> "idle"]
    /\ req = [w \in Writers |-> AnyRequest]
    /\ todo = [w \in Writers |-> {}]
    /\ inHand = [w \in Writers |-> NoRow]
    /\ saveComment = [w \in Writers |-> NoComment]
    /\ statusOK = [w \in Writers |-> FALSE]
    /\ whole = [w \in Writers |-> FALSE]
    /\ blind = [w \in Writers |-> {}]
    /\ last = [k \in Keys |-> {}]
    /\ noted = [k \in Keys |-> {NoComment}]
    /\ requests = 0 /\ faults = 0 /\ comments = 0

----
\* A statement is executed and answered, executed with the answer lost, or fails.
Fates == {"done", "lost", "failed"}

Statement(fate) ==
    /\ fate = "done" \/ faults < MaxFaults
    /\ faults' = IF fate = "done" THEN faults ELSE faults + 1
    /\ UNCHANGED <<requests, comments>>

Executed(fate) == fate # "failed"

Goto(w, point) == pc' = [pc EXCEPT ![w] = point]

\* A request ends without its row: whatever it may have changed is in doubt.
InDoubt(r) == last' = [k \in Keys |-> IF k \in Touches(r) THEN {} ELSE last[k]]

Denied(w) ==
    /\ Goto(w, "answered")
    /\ statusOK' = [statusOK EXCEPT ![w] = FALSE]
    /\ InDoubt(req[w])

\* The answer is "true", and idxs are the rows the registration is in.
Acknowledged(w, idxs) ==
    /\ Goto(w, "answered")
    /\ statusOK' = [statusOK EXCEPT ![w] = TRUE]
    /\ last' = [k \in Keys |-> IF k = Target(req[w]) THEN idxs
                               ELSE IF k \in Touches(req[w]) THEN {} ELSE last[k]]

\* One of the instances has read the row and is still to delete it.
Listed(row, instances) ==
    \E v \in instances : Working(v) /\ \E t \in todo[v] : t.idx = row.idx

----
\* What the registration of k carries is in doubt from here: the request may replace
\* it under another proxy, or by its unique pair, or another instance is at work on it.
Contested(w, r) ==
    {k \in Touches(r) :
       \/ r.proxy = NoProxy
       \/ r.uniqName # "absent"
       \/ \E v \in Writers \ {w} : Working(v) /\ k \in Touches(req[v])}

Begin(w, r) ==
    /\ pc[w] = "idle"
    /\ requests < MaxRequests
    /\ requests' = requests + 1
    /\ req' = [req EXCEPT ![w] = r]
    /\ statusOK' = [statusOK EXCEPT ![w] = FALSE]
    /\ saveComment' = [saveComment EXCEPT ![w] = NoComment]
    /\ todo' = [todo EXCEPT ![w] = {}]
    /\ Goto(w, IF r.module = NoModule THEN "answered" ELSE "list")
    /\ noted' = [k \in Keys |-> IF k \in Contested(w, r) THEN Comments \cup {NoComment}
                                ELSE noted[k]]
    /\ UNCHANGED <<table, inHand, whole, blind, last, faults, comments>>

\* Mutant of Registered: proxy_ip is no part of the filter.
RegisteredAnywhere(r) == {row \in rows : row.module = r.module}

Registered(r) == {row \in rows : Key(row) \in Concerns(r)}

\* getFilterRow: at most ListLimit of the rows, in no order.  When it fails the
\* request goes on as if nothing were registered.
List(w, fate, found) ==
    /\ pc[w] = "list"
    /\ Statement(fate)
    /\ IF fate = "done"
       THEN /\ found \subseteq Registered(req[w])
            /\ found = Registered(req[w]) \/ Cardinality(found) = ListLimit
            /\ Cardinality(found) <= ListLimit
       ELSE found = {}
    /\ todo' = [todo EXCEPT ![w] = found]
    /\ whole' = [whole EXCEPT ![w] = fate = "done" /\ found = Registered(req[w])]
    /\ Goto(w, IF found = {} THEN "add" ELSE "rows")
    /\ UNCHANGED <<table, req, inHand, saveComment, statusOK, blind, last, noted>>

\* deleteRow by idx, SELECT 1: a row another instance deleted ends the request.
SelectRow(w, fate, row) ==
    /\ pc[w] = "rows"
    /\ row \in todo[w]
    /\ Statement(fate)
    /\ saveComment' = [saveComment EXCEPT ![w] = row.comment]
    /\ inHand' = [inHand EXCEPT ![w] = row]
    /\ IF fate = "done" /\ \E r \in rows : r.idx = row.idx
       THEN Goto(w, "delete") /\ UNCHANGED <<statusOK, last>>
       ELSE Denied(w)
    /\ UNCHANGED <<table, req, todo, whole, blind, noted>>

\* Mutant of DeleteRow: whether the DELETE failed is not looked at.
DeleteRowUnchecked(w, fate) ==
    /\ pc[w] = "delete"
    /\ Statement(fate)
    /\ rows' = IF Executed(fate) THEN {r \in rows : r.idx # inHand[w].idx} ELSE rows
    /\ todo' = [todo EXCEPT ![w] = @ \ {inHand[w]}]
    /\ Goto(w, IF todo[w] = {inHand[w]} THEN "add" ELSE "rows")
    /\ UNCHANGED <<nextIdx, req, inHand, saveComment, statusOK, history>>

DeleteRow(w, fate) ==
    /\ pc[w] = "delete"
    /\ Statement(fate)
    /\ rows' = IF Executed(fate) THEN {r \in rows : r.idx # inHand[w].idx} ELSE rows
    /\ todo' = [todo EXCEPT ![w] = @ \ {inHand[w]}]
    /\ IF fate = "done"
       THEN /\ Goto(w, IF todo[w] = {inHand[w]} THEN "add" ELSE "rows")
            /\ UNCHANGED <<statusOK, last>>
       ELSE Denied(w)
    /\ UNCHANGED <<nextIdx, req, inHand, saveComment, whole, blind, noted>>

\* Mutant of NewRow: the comment of the old registration is not carried over.
NewRowUncommented(w) ==
    [idx |-> nextIdx, module |-> req[w].module, proxy |-> Target(req[w])[2],
     comment |-> NoComment, by |-> w]

NewRow(w) ==
    [idx |-> nextIdx, module |-> req[w].module, proxy |-> Target(req[w])[2],
     comment |-> saveComment[w], by |-> w]

\* Whether w now has a key twice it cannot know: it has not seen every row of it, or
\* gave it to several rows.
Blinded(w, hit) ==
    blind' = [blind EXCEPT ![w] =
        IF whole[w] /\ \A r1, r2 \in hit : r1 = r2 THEN @ \ Concerns(req[w])
        ELSE @ \cup {Target(req[w])}]

\* insertRow, the INSERT: without a unique pair, or when no row was found by it.  A lost
\* answer leaves the row and denies the request.
Insert(w, fate) ==
    /\ pc[w] = "insert" \/ (pc[w] = "add" /\ req[w].uniqName = "absent")
    /\ Statement(fate)
    /\ IF Executed(fate)
       THEN /\ rows' = rows \cup {NewRow(w)}
            /\ nextIdx' = nextIdx + 1
            /\ Blinded(w, {})
       ELSE UNCHANGED <<rows, nextIdx, blind>>
    /\ IF fate = "done" THEN Acknowledged(w, {nextIdx}) ELSE Denied(w)
    /\ UNCHANGED <<req, todo, inHand, saveComment, whole, noted>>

\* The sets of rows a statement may find by the unique pair; what the rows hold in a
\* column that is not kept here is open.
Matches(r) ==
    IF r.uniqName = "other" THEN SUBSET rows
    ELSE {{row \in rows : Key(row) \in PairKeys(r)}}

\* insertRow, SELECT 1: it fails when the table has no such column.
SelectPair(w, fate, hit) ==
    /\ pc[w] = "add" /\ req[w].uniqName # "absent"
    /\ Statement(fate)
    /\ IF fate = "done" /\ req[w].uniqName # "unknown"
       THEN /\ Goto(w, IF hit = {} THEN "insert" ELSE "overwrite")
            /\ UNCHANGED <<statusOK, last>>
       ELSE Denied(w)
    /\ UNCHANGED <<table, req, todo, inHand, saveComment, whole, blind, noted>>

\* A row the UPDATE finds keeps its idx and becomes the registration of w.
Written(w, row) ==
    [row EXCEPT !.module = req[w].module, !.proxy = Target(req[w])[2],
                !.comment = saveComment[w], !.by = w]

\* insertRow, the UPDATE: every row the pair names now, which may be none.  A row another
\* instance has listed will be deleted by it, so that what it holds is in doubt.
Overwrite(w, fate, hit) ==
    /\ pc[w] = "overwrite"
    /\ Statement(fate)
    /\ IF Executed(fate)
       THEN /\ rows' = (rows \ hit) \cup {Written(w, row) : row \in hit}
            /\ Blinded(w, hit)
       ELSE UNCHANGED <<rows, blind>>
    /\ IF fate = "done"
       THEN Acknowledged(w, {row.idx : row \in {r \in hit : ~Listed(r, Writers \ {w})}})
       ELSE Denied(w)
    /\ UNCHANGED <<nextIdx, req, todo, inHand, saveComment, whole, noted>>

Idle(w) ==
    /\ Goto(w, "idle")
    /\ req' = [req EXCEPT ![w] = AnyRequest]
    /\ todo' = [todo EXCEPT ![w] = {}]
    /\ inHand' = [inHand EXCEPT ![w] = NoRow]
    /\ saveComment' = [saveComment EXCEPT ![w] = NoComment]
    /\ statusOK' = [statusOK EXCEPT ![w] = FALSE]
    /\ whole' = [whole EXCEPT ![w] = FALSE]

Return(w) ==
    /\ pc[w] = "answered"
    /\ Idle(w)
    /\ UNCHANGED <<table, blind, last, noted, counts>>

\* The process dies and is started again; the request is gone.
Die(w) ==
    /\ Working(w)
    /\ faults < MaxFaults
    /\ faults' = faults + 1
    /\ Idle(w)
    /\ InDoubt(req[w])
    /\ UNCHANGED <<table, blind, noted, requests, comments>>

\* A client changes the comment of a registration (request update).  What a
\* registration in progress has read may be older.
SetComment(row, comment) ==
    /\ comments < MaxComments
    /\ comments' = comments + 1
    /\ rows' = (rows \ {row}) \cup {[row EXCEPT !.comment = comment]}
    /\ noted' = [noted EXCEPT ![Key(row)] =
         IF \/ \E w \in Writers : Working(w) /\ Key(row) \in Touches(req[w])
            \/ Listed(row, Writers)
            \/ \E other \in rows \ {row} : Key(other) = Key(row)
         THEN @ \cup {comment} ELSE {comment}]
    /\ UNCHANGED <<nextIdx, thread, whole, blind, last, requests, faults>>

Step(w) ==
    \/ \E r \in Requests : Begin(w, r)
    \/ \E fate \in Fates :
         \/ \E found \in SUBSET rows : List(w, fate, found)
         \/ \E row \in todo[w] : SelectRow(w, fate, row)
         \/ DeleteRow(w, fate) \/ Insert(w, fate)
         \/ \E hit \in Matches(req[w]) : SelectPair(w, fate, hit) \/ Overwrite(w, fate, hit)
    \/ Return(w) \/ Die(w)

Next == (\E w \in Writers : Step(w))
        \/ \E row \in rows, c \in Comments : SetComment(row, c)

Spec == Init /\ [][Next]_vars

----
\* Properties.

\* registerAnalytics deletes before it adds.  Even so, with any number of
\* instances, failures and deaths in between, the rows a registration was acknowledged in
\* stay, and stay its own, unless a later request for it is under way, failed, came
\* without proxy_ip from elsewhere, or reached them by its unique pair: no registration is
\* lost silently.  Two acknowledgements promise nothing: of an UPDATE whose rows went
\* after they were looked for, and of a row another instance was about to delete.
AcknowledgedStaysRegistered ==
    \A k \in Keys :
        (\A w \in Writers : ~(Working(w) /\ k \in Touches(req[w])))
          => \A i \in last[k] : \E row \in rows : row.idx = i /\ Key(row) = k

\* No constraint of the table keeps a module from being registered twice.  An instance
\* still never does it, whatever the others do, except when its listing failed or
\* was cut at the limit, or its unique pair named several rows, which all become the one
\* registration; and the next registration with a whole listing heals that.
OneRegistrationPerInstance ==
    \A r1, r2 \in rows :
        r1.by = r2.by /\ Key(r1) = Key(r2) /\ Key(r1) \notin blind[r1.by] => r1 = r2

\* While nothing fails, a comment a client gave a registration outlives any number of
\* re-registrations, which delete the row that carries it.  Only one that comes while
\* a registration is under way may be lost, or one of a registration that two
\* instances replace at once, that is replaced without proxy_ip, or that a request with a
\* unique pair may change.
CommentSurvives ==
    faults = 0 => \A row \in rows : row.comment \in noted[Key(row)]

\* The rows are deleted by an idx read some statements before, and the events of a
\* module carry that idx as their type.  A registration never goes, nor changes its
\* idx, module or proxy, while no request at work covers it or may name it by its unique
\* pair: a stale listing takes no other module's registration with it, unless the row
\* was made another's by a unique pair after it was listed.
RegistrationsOfOthersStay ==
    [][\A row \in rows :
         (\A w \in Writers : Working(w) =>
            /\ Key(row) \notin Touches(req[w])
            /\ \A t \in todo[w] : t.idx = row.idx => Key(t) = Key(row))
           => \E new \in rows' : new.idx = row.idx /\ Key(new) = Key(row)]_vars
====
