---- MODULE RequestParser ----
(***************************************************************************)
(* One request after another through RequestParser::slotRequestProc, on    *)
(* the transport thread: dispatch by name to one of four handlers, the     *)
(* work of the handler, the conversion of its answer, the reply.           *)
(*                                                                         *)
(* All handlers share one database client and with it one current table,   *)
(* m_tableName, on which every statement without an explicit table runs.   *)
(* A request may name it ("table"); a handler may move it for its own      *)
(* statements and puts the former one back when it ends.  The module keeps *)
(* all of that control, and abstracts the database to the status each      *)
(* operation may return: what the statements do is in RecordWriter.        *)
(***************************************************************************)
EXTENDS ErrStatus

CONSTANTS Tables,        \* the names clients put in "table"
          EventTables    \* tables of analytics, and their _emb companions

NoTable == ""

RegisteredAnalytics == "registeredanalytics"
InfoNodes           == "info_nodes"
InfoSystem          == "info_system"
ArchiveWriter       == "archivewriter"

ASSUME NamesAssumption == NoTable \notin Tables \cup EventTables

BasicRequests    == {"update", "addNewRecord", "getAll", "delete", "deleteLayout"}
AnalyticRequests == {"metaData2Db", "getEmbeddingInfo", "analyticsRegister"}
LegacyEvents     == {"realtime-event-cctv", "archive-event-cctv"}
EventRequests    == LegacyEvents \cup
                    {"realtime-event-cctv@asis", "archive-event-cctv@asis"}
VMSRequests      == {"read-archive", "archive-timeline-cctv"}
NoRequest        == "no_request_field"

Methods == BasicRequests \cup AnalyticRequests \cup EventRequests \cup VMSRequests
             \cup {"heartbeat", "unknown", NoRequest}

\* "mistyped": a field of the wrong JSON type makes value() throw, either one
\* slotRequestProc reads itself ("envelope"), one the handler reads, in the request or
\* in a row the request leads it to ("body"), or the magic word, which slotRequestProc
\* reads when the handler is done ("magic").
\* "uniq": the "unique-name" with its "unique-value"; the pair may be absent, may
\* lack its value, and may name any column, "status" and "error" included.
Requests == [method    : Methods,
             table     : Tables \cup {NoTable},
             uniq      : {"none", "name_only", "pair", "status", "error"},
             mistyped  : {"no", "envelope", "body", "magic"}]

VARIABLES
    tableName,     \* SOCIDBClient::m_tableName
    pc,            \* where the transport thread is
    req,           \* the request being served, or served last
    lastUsedTable, \* the local of doWorkByRequest
    retErr,        \* the status doWorkByRequest decides by
    pack,          \* answerOnRequest_t: status, and whether error is non-empty
    out,           \* the answer: its "status", and whether it has "error"
    notFound,      \* the answer says that the handler does not know the name
    \* history
    named,         \* the table named last by a client
    since,         \* what has happened to the current table since then
    used,          \* the tables this request's statements ran on
    done           \* what this request asked for was done

locals  == <<lastUsedTable, retErr, pack>>
answer  == <<out, notFound>>
history == <<named, since, used, done>>
vars    == <<tableName, pc, req, locals, answer, history>>

Handlers == {"basic", "analytic", "event", "vms"}
Answers  == [status : {"absent", "true", "false", "text"}, error : BOOLEAN]
Packs    == [status : BOOLEAN, error : BOOLEAN]
Hazards  == {"unnamed", "legacy_event", "exception"}
AllTables == Tables \cup EventTables \cup
             {NoTable, RegisteredAnalytics, InfoNodes, InfoSystem, ArchiveWriter}

TypeOK ==
    /\ tableName \in AllTables
    /\ pc \in {"idle", "finish", "reply", "sent", "escaped", "dead"} \cup Handlers
    /\ req \in Requests
    /\ lastUsedTable \in AllTables
    /\ retErr \in Statuses
    /\ pack \in Packs
    /\ out \in Answers
    /\ notFound \in BOOLEAN
    /\ named \in Tables \cup {NoTable}
    /\ since \subseteq Hazards
    /\ used \subseteq AllTables
    /\ done \in BOOLEAN

Nothing == [method |-> NoRequest, table |-> NoTable, uniq |-> "none", mistyped |-> "no"]

Init ==
    /\ tableName = NoTable
    /\ pc = "idle"
    /\ req = Nothing
    /\ lastUsedTable = NoTable
    /\ retErr = UndefinedError
    /\ pack = [status |-> FALSE, error |-> FALSE]
    /\ out = [status |-> "absent", error |-> FALSE]
    /\ notFound = FALSE
    /\ named = NoTable
    /\ since = {}
    /\ used = {}
    /\ done = FALSE

----
\* Receiving: slotRequestProc up to the call of the handler.

HandlerOf(method) ==
    IF method \in BasicRequests         THEN "basic"
    ELSE IF method \in AnalyticRequests THEN "analytic"
    ELSE IF method \in EventRequests    THEN "event"
    ELSE IF method \in VMSRequests      THEN "vms"
    ELSE "reply"

\* A request without "query" and "request" is dropped before "table" is read.
NamesTable(r) == r.method # NoRequest /\ r.table # NoTable

Receive(r) ==
    /\ pc = "idle"
    /\ r.mistyped # "envelope"
    /\ req' = r
    /\ tableName' = IF NamesTable(r) THEN r.table ELSE tableName
    /\ pc' = HandlerOf(r.method)
    /\ lastUsedTable' = IF pc' = "reply" THEN NoTable ELSE tableName'
    /\ out' = [status |-> IF r.method = "heartbeat" THEN "true" ELSE "absent",
               error  |-> r.method \in {"unknown", NoRequest}]
    /\ notFound' = FALSE
    /\ named' = IF NamesTable(r) THEN r.table ELSE named
    /\ since' = IF NamesTable(r) THEN {} ELSE since
    /\ used' = {}
    /\ done' = (r.method = "heartbeat")
    /\ UNCHANGED <<retErr, pack>>

ReceiveMistyped(r) ==
    /\ pc = "idle"
    /\ r.mistyped = "envelope"
    /\ r.method # NoRequest
    /\ req' = r
    /\ pc' = "escaped"
    /\ UNCHANGED <<tableName, locals, answer, history>>

----
\* The work of the handlers: which tables they set, on which tables their
\* statements run, what status they come back with.

\* doWorkByRequest is left: its locals are gone.
LocalsGone ==
    /\ lastUsedTable' = NoTable
    /\ retErr' = UndefinedError
    /\ pack' = [status |-> FALSE, error |-> FALSE]

\* The handler of this class has moved the current table to t, run statements
\* on the tables ts, and goes on to decide its answer.
WorkDone(handler, t, ts, ret, status, error, did) ==
    /\ pc = handler
    /\ tableName' = t
    /\ used' = ts
    /\ retErr' = ret
    /\ pack' = [status |-> status, error |-> error]
    /\ done' = did
    /\ pc' = "finish"
    /\ UNCHANGED <<req, lastUsedTable, answer, named, since>>

\* An exception leaves the handler: nothing puts the current table back.  Generic
\* requests have not moved it.
HandlerThrows(handler, t, ts) ==
    /\ pc = handler
    /\ req.mistyped = "body"
    /\ tableName' = t
    /\ used' = ts
    /\ done' = FALSE
    /\ since' = IF handler = "basic" THEN since ELSE since \cup {"exception"}
    /\ LocalsGone
    /\ pc' = "escaped"
    /\ UNCHANGED <<req, answer, named>>

\* update, delete, deleteLayout: DataProcessingBasic leaves answerPack.status
\* unset on this path, so it holds whatever was on the stack (junk).
BasicModify ==
    /\ req.method \in {"update", "delete", "deleteLayout"}
    /\ \/ /\ req.uniq = "none"
          /\ WorkDone("basic", tableName, {}, ErrSendQuery, FALSE, TRUE, FALSE)
       \/ /\ req.uniq # "none"
          /\ \E ret \in {NoError, ErrSendQuery, ErrConnectDB}, junk \in BOOLEAN :
               WorkDone("basic", tableName, {tableName}, ret, junk, FALSE, ret = NoError)

\* Mutant of BasicAddNewRecord: retErr starts as NoError.
BasicAddNewRecordOptimistic ==
    /\ req.method = "addNewRecord"
    /\ \E stored \in BOOLEAN :
         WorkDone("basic", tableName, {tableName}, NoError, stored, FALSE, stored)

BasicAddNewRecord ==
    /\ req.method = "addNewRecord"
    /\ \E stored \in BOOLEAN :
         WorkDone("basic", tableName, {tableName}, ErrSendQuery, stored, FALSE, stored)

BasicGetAll ==
    /\ req.method = "getAll"
    /\ \E ret \in {NoError, NotExists, NotCreateTable, ErrSendQuery, ErrConnectDB},
          junk \in BOOLEAN :
         WorkDone("basic", tableName, {tableName}, ret, junk, FALSE, ~IsFailure(ret))

BasicThrows == \E ts \in SUBSET {tableName} : HandlerThrows("basic", tableName, ts)

AnalyticsRegister ==
    /\ req.method = "analyticsRegister"
    /\ \/ WorkDone("analytic", RegisteredAnalytics, {}, UndefinedError, FALSE, TRUE, FALSE)
       \/ \E stored \in BOOLEAN :
            WorkDone("analytic", RegisteredAnalytics, {RegisteredAnalytics},
                     UndefinedError, stored, FALSE, stored)

\* The event's table is analytics_type + analytics_sub_type.  It stays empty
\* when the request gives neither and was named otherwise than by "request".
MetaData2Db ==
    /\ req.method = "metaData2Db"
    /\ \/ WorkDone("analytic", tableName, {}, UndefinedError, FALSE, TRUE, FALSE)
       \/ \E eventDbTable \in EventTables \cup {NoTable},
            source \in SUBSET {InfoNodes}, stored \in BOOLEAN :
            WorkDone("analytic", eventDbTable, source \cup {eventDbTable},
                     UndefinedError, stored, FALSE, stored)

GetEmbeddingInfo ==
    /\ req.method = "getEmbeddingInfo"
    /\ WorkDone("analytic", tableName, {}, UndefinedError, FALSE, FALSE, FALSE)

AnalyticThrows ==
    \/ /\ req.method = "analyticsRegister"
       /\ \E ts \in SUBSET {RegisteredAnalytics} :
            HandlerThrows("analytic", RegisteredAnalytics, ts)
    \/ /\ req.method = "metaData2Db"
       /\ \/ HandlerThrows("analytic", tableName, {})
          \/ \E t \in EventTables \cup {NoTable}, source \in SUBSET {InfoNodes} :
               HandlerThrows("analytic", t, source)

\* What realTimeArchiveEventCCTV may have done when it ends: it returns with or
\* without an error in the answer, or throws.
Outcome(t, ts, ret, end) == [table |-> t, used |-> ts, ret |-> ret, end |-> end]

\* A request without @asis reads info_system before the table of each analytics.
SystemTables(method) == IF method \in LegacyEvents THEN {InfoSystem} ELSE {}

\* It moves the current table to registeredanalytics, and goes no further.
NoEventsRead ==
    {Outcome(tableName, {}, UndefinedError, "thrown"),
     Outcome(RegisteredAnalytics, {}, UndefinedError, "thrown"),
     Outcome(RegisteredAnalytics, {RegisteredAnalytics}, UndefinedError, "thrown"),
     Outcome(RegisteredAnalytics, {}, UndefinedError, "plain"),
     Outcome(RegisteredAnalytics, {}, NotExists, "error"),
     Outcome(RegisteredAnalytics, {RegisteredAnalytics}, NoError, "plain"),
     Outcome(RegisteredAnalytics, {RegisteredAnalytics}, NotExists, "error")}

\* Then it moves it to the table of each analytics in turn, and its status is that
\* of the last one.  "others" are the tables of those before.
LastEvents(method, t, others) ==
    {RegisteredAnalytics, t} \cup SystemTables(method) \cup others

EventStatuses == {NoError, NotExists, NotCreateTable, ErrSendQuery, ErrConnectDB}

\* The last query's status.  With @asis every failure leaves an error as well, and
\* the error of an earlier query stays; without, a failed query leaves none, and
\* one without rows counts as NotExists.
LastStatuses(method, end) ==
    IF method \in LegacyEvents THEN {NoError, NotExists, ErrSendQuery}
    ELSE IF end = "plain" THEN {NoError, NotExists}
    ELSE EventStatuses

EventsRead(method) ==
    {o \in {Outcome(t, LastEvents(method, t, others), ret, end) :
              t \in EventTables, others \in SUBSET EventTables,
              ret \in EventStatuses, end \in {"plain", "error"}} :
        o.ret \in LastStatuses(method, o.end)}

SystemUnread(method) ==
    {Outcome(t, LastEvents(method, t, others), ret, "error") :
        t \in SystemTables(method), others \in SUBSET EventTables,
        ret \in {NotCreateTable, ErrSendQuery, ErrConnectDB}}

\* Only the events without @asis read fields of the rows that may be mistyped.
RowsMistyped(method) ==
    IF method \notin LegacyEvents THEN {}
    ELSE {Outcome(t, LastEvents(method, t, others), UndefinedError, "thrown") :
            t \in EventTables, others \in SUBSET EventTables}

EventOutcomes(method) ==
    NoEventsRead \cup EventsRead(method) \cup SystemUnread(method) \cup RowsMistyped(method)

\* An exception of the work is caught here, and gives the answer its error.
EventWork ==
    \E o \in EventOutcomes(req.method) :
        /\ o.end = "thrown" \/ req.method \notin LegacyEvents
        /\ WorkDone("event", o.table, o.used, o.ret, FALSE, o.end # "plain",
                    ~IsFailure(o.ret) /\ o.end = "plain")

\* Without @asis the work is done by the first if, and the else of the second
\* answers that the name is unknown and returns: no table is put back.
EventFallsThrough ==
    /\ pc = "event"
    /\ req.method \in LegacyEvents
    /\ \E o \in EventOutcomes(req.method) :
         /\ o.end # "thrown"
         /\ tableName' = o.table
         /\ used' = o.used
         /\ done' = (~IsFailure(o.ret) /\ o.end = "plain")
    /\ out' = [status |-> "false", error |-> TRUE]
    /\ notFound' = TRUE
    /\ since' = since \cup {"legacy_event"}
    /\ pc' = "reply"
    /\ LocalsGone
    /\ UNCHANGED <<req, named>>

\* Mutant of ReadArchiveTables: an absent "table" is read as "NONE".
ReadArchiveTablesDefault == IF req.table # NoTable THEN {req.table} ELSE {NoTable, "NONE"}

\* The parameter "table" of the request wins over archivewriter, even when empty.
ReadArchiveTables ==
    IF req.table # NoTable THEN {req.table} ELSE {NoTable, ArchiveWriter}

ReadArchive ==
    /\ req.method = "read-archive"
    /\ \E t \in ReadArchiveTables, found \in BOOLEAN :
         WorkDone("vms", t, {t}, UndefinedError, found, FALSE, found)

\* The ranges come from archivewriter, whatever the current table is; only when
\* there are some are the events of the period read.
ArchiveTimeline ==
    /\ req.method = "archive-timeline-cctv"
    /\ \/ \E error \in BOOLEAN :
            WorkDone("vms", tableName, {ArchiveWriter}, UndefinedError, FALSE, error, FALSE)
       \/ \E o \in EventOutcomes("archive-event-cctv@asis") :
            WorkDone("vms", o.table, {ArchiveWriter} \cup o.used, UndefinedError, TRUE,
                     o.end = "thrown" \/ (IsFailure(o.ret) /\ o.end = "plain"), TRUE)

VMSThrows ==
    \/ /\ req.method = "read-archive"
       /\ \E t \in ReadArchiveTables : HandlerThrows("vms", t, {})
    \/ /\ req.method = "archive-timeline-cctv"
       /\ \E ts \in SUBSET {ArchiveWriter} : HandlerThrows("vms", tableName, ts)

----
\* The end of doWorkByRequest: the decision, the current table, the conversion.

\* Mutant of Converted: the error leaves the status alone.
ConvertedStatusOnly(p) ==
    [status |-> IF p.status THEN "true" ELSE "false", error |-> p.error]

\* convertAnswerPackToJson: a non-empty error overrides the status.
Converted(p) ==
    [status |-> IF p.status /\ ~p.error THEN "true" ELSE "false", error |-> p.error]

\* The decision of DataProcessingBasic and DataProcessingEvent; the other two
\* handlers take the status of the work as it is.
Decided(method) ==
    IF method \notin BasicRequests \cup EventRequests THEN pack
    ELSE IF ~IsFailure(retErr) THEN [pack EXCEPT !.status = TRUE]
    ELSE IF method \in BasicRequests /\ pack.status THEN pack
    ELSE [pack EXCEPT !.error = TRUE]

\* Mutants of Restored: nothing put back; put back after a success only.
NotRestored == tableName
RestoredOnSuccess == IF lastUsedTable # NoTable /\ pack.status THEN lastUsedTable ELSE tableName

\* Only a former table that is not empty is put back.
Restored == IF lastUsedTable # NoTable THEN lastUsedTable ELSE tableName

Finish ==
    /\ pc = "finish"
    /\ tableName' = Restored
    /\ out' = Converted(Decided(req.method))
    /\ pc' = "reply"
    /\ since' = IF lastUsedTable = NoTable /\ req.method \notin BasicRequests
                THEN since \cup {"unnamed"} ELSE since
    /\ LocalsGone
    /\ UNCHANGED <<req, notFound, named, used, done>>

\* Mutant of Echoed: a name without a value is echoed as well, into the status.
EchoedUnnamed(o, r) ==
    IF r.method = NoRequest THEN o
    ELSE [status |-> IF r.uniq \in {"status", "name_only"} THEN "text" ELSE o.status,
          error  |-> o.error \/ r.uniq = "error"]

\* slotRequestProc after the handler: the echo of the unique pair goes into the
\* answer first, and may take the place of its "status" or its "error".
Echoed(o, r) ==
    IF r.method = NoRequest THEN o
    ELSE [status |-> IF r.uniq = "status" THEN "text" ELSE o.status,
          error  |-> o.error \/ r.uniq = "error"]

\* value("status", false) throws on a status that is not a boolean, and the echo of the
\* magic word on one that is no string.
ReplyThrows ==
    /\ pc = "reply"
    /\ Echoed(out, req).status = "text" \/ req.mistyped = "magic"
    /\ out' = Echoed(out, req)
    /\ pc' = "escaped"
    /\ UNCHANGED <<tableName, req, locals, notFound, history>>

Reply ==
    /\ pc = "reply"
    /\ LET o == Echoed(out, req)
           unknown == req.method \in {"unknown", NoRequest}
       IN  /\ o.status # "text" /\ req.mistyped # "magic"
           /\ out' = IF unknown \/ o.status = "absent"
                     THEN [o EXCEPT !.status = "false"] ELSE o
    /\ pc' = "sent"
    /\ UNCHANGED <<tableName, req, locals, notFound, history>>

\* The callback returns, and the request and its answer are gone.  An exception
\* that leaves slotRequestProc leaves the callback too (only JSON::parse is inside
\* its try): whether the transport library catches it or the process dies of it is
\* not visible here.
CallbackReturns ==
    /\ pc \in {"sent", "escaped"}
    /\ pc' = "idle"
    /\ req' = Nothing
    /\ out' = [status |-> "absent", error |-> FALSE]
    /\ notFound' = FALSE
    /\ used' = {}
    /\ done' = FALSE
    /\ UNCHANGED <<tableName, locals, named, since>>

ProcessDies ==
    /\ pc = "escaped"
    /\ pc' = "dead"
    /\ UNCHANGED <<tableName, req, locals, answer, history>>

Work ==
    \/ BasicModify \/ BasicAddNewRecord \/ BasicGetAll \/ BasicThrows
    \/ AnalyticsRegister \/ MetaData2Db \/ GetEmbeddingInfo \/ AnalyticThrows
    \/ EventWork \/ EventFallsThrough
    \/ ReadArchive \/ ArchiveTimeline \/ VMSThrows

Serve == Work \/ Finish \/ ReplyThrows \/ Reply \/ CallbackReturns

Next ==
    \/ \E r \in Requests : Receive(r) \/ ReceiveMistyped(r)
    \/ Serve
    \/ ProcessDies

\* The transport thread goes on with a request it has begun: every statement
\* returns.  Nothing makes a client send another one.
Spec == Init /\ [][Next]_vars /\ WF_vars(Serve)

----
\* Properties.

\* The current table is the one a client named last, unless since then a handler
\* started with no current table to put back (an analytics, event or archive
\* request before anybody named one), an event request without @asis fell through
\* to its early return, or an exception skipped the end of a handler that is not
\* generic.  It is what "if(!lastUsedTable.empty()) setTableName(lastUsedTable)" is for.
TableFollowsName ==
    pc \in {"idle", "reply", "sent", "escaped"} /\ since = {} => tableName = named

\* A generic request (update, addNewRecord, getAll, delete) that names no table
\* runs on the table named last, however many other requests with tables of their
\* own came between.
BasicRunsOnNamedTable ==
    pc \in {"finish", "reply", "sent", "escaped"} /\ req.method \in BasicRequests /\ since = {}
      => used \subseteq {named}

\* The methods whose answerPack.status nobody has set when their work fails.
UnsetStatus == {"update", "delete", "deleteLayout", "getAll"}

\* An answer says true only of work that was done, whatever path led to it, save
\* for the methods that decide by a status nobody set.
TrueMeansDone ==
    pc = "sent" /\ out.status = "true" /\ req.method \notin UnsetStatus => done

\* An answer that carries an error is not a success, unless the error is the echo
\* of a key column with that name.
ErrorMeansFalse ==
    pc = "sent" /\ out.error /\ out.status = "true" => req.uniq = "error"

\* A request stays without an answer only when one of its fields, or one of a row it
\* reads, has the wrong type, or its unique pair overwrites the status.
Answerable(r) == r.mistyped = "no" /\ (r.uniq = "status" => r.method = NoRequest)

AnswerableNeverThrows == pc = "escaped" => ~Answerable(req)

\* Every other request, known or unknown, is answered in the end.
AnswerableIsAnswered == (pc # "idle" /\ Answerable(req)) ~> (pc = "sent")

\* A failed statement is answered with status false: the client logs the failure
\* as an error and returns ErrSendQuery or ErrConnectDB for it.
FailureIsReported == pc = "sent" /\ out.status = "true" => done
====
