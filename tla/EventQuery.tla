---- MODULE EventQuery ----
(***************************************************************************)
(* The events of several analytics under one status: the requests          *)
(* archive-event-cctv@asis and archive-timeline-cctv.  The analytics are   *)
(* looked up in the registry type by type, or all at once; then the table  *)
(* of each is read.  Meanwhile other instances register, unregister and    *)
(* disable analytics and write their tables, and statements fail.          *)
(*                                                                         *)
(* One transport thread; a statement's outcome is the status getFilterRow  *)
(* or getTimeLine returns.  Of the events only their type is kept.         *)
(***************************************************************************)
EXTENDS ErrStatus, Sequences, FiniteSets

CONSTANTS
    Tables,        \* tables of events
    NoTable,       \* the empty table name of a half-filled registration
    All,           \* "types" is ["*"], or absent
    Mistyped,      \* an element of "types" that is no number
    Requests,      \* the requests clients send
    Registry,      \* the registry to begin with
    ListLimit,     \* c_MAXLIMIT: rows a SELECT without a limit returns
    MaxIdx,        \* bound: registrations made
    MaxFaults,     \* bound: statements failed
    MaxChanges,    \* bound: changes of the registry and of the tables
    MaxRequests    \* bound: requests begun

Kinds     == {"asis", "timeline"}
Analytics == [idx : 1..MaxIdx, table : Tables \cup {NoTable}, enable : BOOLEAN]
Contents  == {"absent", "empty", "full"}
SelectStatus == [absent |-> NotCreateTable, empty |-> NotExists, full |-> NoError]
Asked     == {All} \cup Seq(Nat \cup {Mistyped})

ASSUME NamesAssumption == NoTable \notin Tables /\ Mistyped \notin Nat /\ All \notin Seq(Nat \cup {Mistyped})
\* The time line asks for the events of every camera, type by type.
ASSUME RequestsAssumption ==
    /\ Requests \subseteq [kind : Kinds, types : Asked, union : BOOLEAN, badCams : BOOLEAN]
    /\ \A r \in Requests : r.kind = "timeline" => ~r.union /\ ~r.badCams
ASSUME RegistryAssumption ==
    /\ IsFiniteSet(Registry)
    /\ Registry \subseteq Analytics
    /\ \A a, b \in Registry : a.idx = b.idx => a = b
    /\ \A a \in Registry : a.idx <= Cardinality(Registry)
ASSUME BoundsAssumption ==
    /\ ListLimit \in Nat \ {0}
    /\ {MaxIdx, MaxFaults, MaxChanges, MaxRequests} \subseteq Nat

VARIABLES
    \* the database
    registry,     \* the table registeredanalytics
    nextIdx,
    contents,     \* table -> what the filters of the request find in it
    \* the thread
    pc,
    req,
    next,         \* the position in types, then in infoAboutAns
    infoAboutAns, \* the analytics found
    retErr,
    data,         \* the types of the events collected
    error,        \* answerPack.error of the event request is not empty
    \* the answer
    ok, shown,
    \* history
    due,          \* idx of analytics registered, enabled and with events since the request began
    live,         \* idx of analytics registered and enabled at some moment since then
    unread,       \* lookups of the request that failed
    cut,          \* the listing of all analytics was cut
    lost,         \* idx of the analytics whose own table could not be read
    faults, changes, requests

database == <<registry, nextIdx, contents>>
work     == <<next, infoAboutAns, retErr, data, error>>
answer   == <<ok, shown>>
history  == <<due, live, unread, cut, lost>>
counts   == <<faults, changes, requests>>
vars     == <<database, pc, req, work, answer, history, counts>>

Points == {"idle", "ranges", "types", "all", "read", "answered"}

TypeOK ==
    /\ registry \subseteq Analytics
    /\ nextIdx \in Nat
    /\ contents \in [Tables -> Contents]
    /\ pc \in Points
    /\ req \in Requests
    /\ next \in Nat \ {0}
    /\ infoAboutAns \in Seq(Analytics)
    /\ retErr \in Statuses
    /\ data \subseteq 1..MaxIdx
    /\ error \in BOOLEAN
    /\ ok \in BOOLEAN /\ shown \subseteq 1..MaxIdx
    /\ due \subseteq 1..MaxIdx /\ live \subseteq 1..MaxIdx
    /\ unread \in Nat /\ cut \in BOOLEAN /\ lost \subseteq 1..MaxIdx
    /\ faults \in Nat /\ changes \in Nat /\ requests \in Nat

Init ==
    /\ registry = Registry
    /\ nextIdx = 1 + Cardinality(Registry)
    /\ contents \in [Tables -> Contents]
    /\ pc = "idle"
    /\ req \in Requests
    /\ next = 1 /\ infoAboutAns = <<>> /\ retErr = UndefinedError
    /\ data = {} /\ error = FALSE
    /\ ok = FALSE /\ shown = {}
    /\ due = {} /\ live = {} /\ unread = 0 /\ cut = FALSE /\ lost = {}
    /\ faults = 0 /\ changes = 0 /\ requests = 0

----
\* The status of a statement: what it would return, or one of the two failures.
Failures == {ErrSendQuery, ErrConnectDB}

Statement(status, good) ==
    /\ status = good \/ (status \in Failures /\ faults < MaxFaults)
    /\ faults' = IF status = good THEN faults ELSE faults + 1
    /\ UNCHANGED <<changes, requests>>

Enabled(a) == a.enable /\ a.table # NoTable

Due == {a.idx : a \in {b \in registry : Enabled(b) /\ contents[b.table] = "full"}}
Live == {a.idx : a \in {b \in registry : Enabled(b)}}

Begin(r) ==
    /\ pc = "idle"
    /\ requests < MaxRequests
    /\ requests' = requests + 1
    /\ req' = r
    /\ next' = 1 /\ infoAboutAns' = <<>> /\ data' = {} /\ error' = FALSE
    /\ retErr' = UndefinedError
    /\ due' = Due /\ live' = Live /\ unread' = 0 /\ cut' = FALSE /\ lost' = {}
    /\ pc' = IF r.kind = "timeline" THEN "ranges" ELSE IF r.types = All THEN "all" ELSE "types"
    /\ UNCHANGED <<database, answer, faults, changes>>

Answer(status, events) ==
    /\ pc' = "answered"
    /\ ok' = status
    /\ shown' = events

\* archiveTimeline, before it asks for events: no ranges, no events.
GetTimeLine(status) ==
    /\ pc = "ranges"
    /\ \E good \in {NoError, NotExists} : Statement(status, good)
    /\ retErr' = status
    /\ IF status = NoError
       THEN pc' = (IF req.types = All THEN "all" ELSE "types") /\ UNCHANGED answer
       ELSE Answer(FALSE, {})
    /\ UNCHANGED <<database, req, next, infoAboutAns, data, error, history>>

\* What the callers of realTimeArchiveEventCCTV make of an exception: an error text,
\* which turns the answer false.
Thrown == Answer(FALSE, {}) /\ UNCHANGED work

\* Mutant of Decided: the error text of an earlier table is not looked at.
DecidedByLast(status, failedText) ==
    Answer(~IsFailure(status), IF req.kind = "asis" \/ status = NoError THEN data' ELSE {})

\* What they make of its status.  An event request is answered false when any table
\* left an error text; the time line looks at the last status only, and an
\* error text of the events does not reach its answer.
Decided(status, failedText) ==
    IF req.kind = "asis"
    THEN Answer(~IsFailure(status) /\ ~failedText, data')
    ELSE Answer(~IsFailure(status) \/ failedText, IF status = NoError THEN data' ELSE {})

----
\* getInfoByTypes.

\* What follows the lookup of the last type: the last status decides.  Union-types
\* and cams without camera-id end the request here.
LookedUp(status, infos) ==
    /\ infoAboutAns' = infos
    /\ next' = 1
    /\ retErr' = status
    /\ UNCHANGED data
    /\ IF status \in {ErrSendQuery, NotExists} \/ req.union
       THEN Answer(FALSE, {}) /\ UNCHANGED error
       ELSE IF req.badCams
       THEN error' = TRUE /\ Decided(NotExists, TRUE)
       ELSE IF infos = <<>>
       THEN UNCHANGED error /\ Decided(status, error)
       ELSE pc' = "read" /\ UNCHANGED <<error, answer>>

\* Mutant of Usable: whether an analytics is enabled is not looked at.
UsableAnyway(rows) == {a \in rows : a.table # NoTable}

\* The rows of the registry that give an analytics to read.
Usable(rows) == {a \in rows : Enabled(a)}

\* fillInfoAboutAllAnalytics: enabled ones, in no order; a name of a table is needed.
FillAll(status, found) ==
    /\ pc = "all"
    /\ LET enabled == {a \in registry : a.enable}
       IN  /\ Statement(status, IF enabled = {} THEN NotExists ELSE NoError)
           /\ IF status # NoError THEN found = <<>>
              ELSE \E listed \in SUBSET enabled :
                     /\ listed = enabled \/ Cardinality(listed) = ListLimit
                     /\ Cardinality(listed) <= ListLimit
                     /\ {found[i] : i \in DOMAIN found} = Usable(listed)
                     /\ cut' = (listed # enabled)
           /\ status # NoError => UNCHANGED cut
    /\ LookedUp(IF status = ErrConnectDB THEN NotExists ELSE status, found)
    /\ UNCHANGED <<database, req, due, live, unread, lost>>

\* fillInfoAboutAnalytic: only ErrSendQuery is told from "not there".
FillOne(status) ==
    /\ pc = "types"
    /\ next \in DOMAIN req.types
    /\ req.types[next] # Mistyped
    /\ LET rows   == {a \in registry : a.idx = req.types[next]}
           usable == Usable(rows)
           known  == status = NoError /\ usable # {}
           ret    == IF status = ErrSendQuery THEN status
                     ELSE IF known THEN NoError ELSE NotExists
           infos  == IF known THEN Append(infoAboutAns, CHOOSE a \in usable : TRUE)
                     ELSE infoAboutAns
       IN  /\ Statement(status, IF rows = {} THEN NotExists ELSE NoError)
           /\ unread' = IF status \in Failures THEN unread + 1 ELSE unread
           /\ IF next = Len(req.types)
              THEN LookedUp(ret, infos)
              ELSE /\ infoAboutAns' = infos /\ next' = next + 1 /\ retErr' = ret
                   /\ UNCHANGED <<pc, data, error, answer>>
    /\ UNCHANGED <<database, req, due, live, cut, lost>>

\* An element of "types" that is no number: the conversion throws.
TypeThrows ==
    /\ pc = "types"
    /\ next \in DOMAIN req.types
    /\ req.types[next] = Mistyped
    /\ Thrown
    /\ UNCHANGED <<database, req, history, counts>>

\* An empty array of types: the status stays UndefinedError.
NoTypes ==
    /\ pc = "types"
    /\ req.types = <<>>
    /\ LookedUp(UndefinedError, <<>>)
    /\ UNCHANGED <<database, req, history, counts>>

----
\* The loop over infoAboutAns.

\* Mutant of Collect: the events get no type of their own.
CollectUntyped(info, status) ==
    /\ Statement(status, SelectStatus[contents[info.table]])
    /\ data' = IF status = NoError THEN data \cup {0} ELSE data
    /\ retErr' = status

\* Mutant of Collect: the events of a table replace those of the tables before it.
CollectLast(info, status) ==
    /\ Statement(status, SelectStatus[contents[info.table]])
    /\ data' = IF status = NoError THEN {info.idx} ELSE data
    /\ retErr' = status

\* The SELECT on the table of one analytics.
Collect(info, status) ==
    /\ Statement(status, SelectStatus[contents[info.table]])
    /\ data' = IF status = NoError THEN data \cup {info.idx} ELSE data
    /\ retErr' = status

\* getDiffCCTVAnalyticEventsAsis.
ReadTable(status) ==
    /\ pc = "read"
    /\ Collect(infoAboutAns[next], status)
    /\ error' = (error \/ status \notin {NoError, NotExists})
    /\ lost' = IF status \in Failures THEN lost \cup {infoAboutAns[next].idx} ELSE lost
    /\ IF next = Len(infoAboutAns)
       THEN Decided(status, error') /\ UNCHANGED next
       ELSE next' = next + 1 /\ UNCHANGED <<pc, answer>>
    /\ UNCHANGED <<database, req, infoAboutAns, due, live, unread, cut>>

Return ==
    /\ pc = "answered"
    /\ pc' = "idle"
    /\ UNCHANGED <<database, req, work, answer, history, counts>>

----
\* What other instances and clients do meanwhile.

Changed ==
    /\ changes < MaxChanges
    /\ changes' = changes + 1
    /\ due' = due \cap Due'
    /\ live' = live \cup Live'
    /\ UNCHANGED <<pc, req, work, answer, unread, cut, lost, faults, requests>>

\* A registration is deleted, or replaced by one with a new idx.
Unregister(a) ==
    /\ registry' = registry \ {a}
    /\ UNCHANGED <<nextIdx, contents>>
    /\ Changed

Reregister(a) ==
    /\ nextIdx <= MaxIdx
    /\ registry' = (registry \ {a}) \cup {[a EXCEPT !.idx = nextIdx, !.enable = TRUE]}
    /\ nextIdx' = nextIdx + 1
    /\ UNCHANGED contents
    /\ Changed

Toggle(a) ==
    /\ registry' = (registry \ {a}) \cup {[a EXCEPT !.enable = ~@]}
    /\ UNCHANGED <<nextIdx, contents>>
    /\ Changed

SetContents(t, c) ==
    /\ contents[t] # c /\ c # "absent"
    /\ contents' = [contents EXCEPT ![t] = c]
    /\ UNCHANGED <<registry, nextIdx>>
    /\ Changed

Orders(S) == {s \in [1..Cardinality(S) -> S] : \A i, j \in DOMAIN s : s[i] = s[j] => i = j}

Next ==
    \/ \E r \in Requests : Begin(r)
    \/ \E status \in Statuses :
         \/ GetTimeLine(status) \/ FillOne(status) \/ ReadTable(status)
         \/ \E S \in SUBSET registry : \E found \in Orders(S) : FillAll(status, found)
    \/ TypeThrows \/ NoTypes \/ Return
    \/ \E a \in registry : Unregister(a) \/ Reregister(a) \/ Toggle(a)
    \/ \E t \in Tables, c \in Contents : SetContents(t, c)

Spec == Init /\ [][Next]_vars

----
\* Properties.

AskedFor(idx) == req.types = All \/ \E i \in DOMAIN req.types : req.types[i] = idx

\* Nothing kept the request from learning of an analytics.
AllLookedUp == unread = 0 /\ ~cut

\* An event request is answered true: unless a lookup failed, the answer has the events
\* of every analytics asked for that was registered, enabled and had events all
\* the while, however the registry changed between the lookups and the reads and
\* whichever table failed on the way.  One status serves all of them.
AsisTrueIsComplete ==
    pc = "answered" /\ req.kind = "asis" /\ ok /\ AllLookedUp
      => \A idx \in due : AskedFor(idx) => idx \in shown

\* A time line is answered true whichever tables of events failed, and tells nothing of
\* it: none of the events are shown when the last table failed or had none.  When the
\* last one gave some, though, a failed table costs its own events and no others: every
\* analytics asked for and due is shown or is itself one that could not be read.
TimelineLosesFailedTablesOnly ==
    pc = "answered" /\ req.kind = "timeline" /\ ok /\ AllLookedUp /\ retErr = NoError
      => \A idx \in due : AskedFor(idx) => idx \in shown \cup lost

\* Between the lookup and the read an analytics may be disabled, replaced or gone, and
\* its events are shown all the same.  Yet nothing is shown that was not asked for, or
\* that was at no moment of the request registered, enabled and with a table.
ShownWasEnabled ==
    pc = "answered" => \A idx \in shown : AskedFor(idx) /\ idx \in live
====
