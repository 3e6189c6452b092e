---- MODULE RequestParser_proofs ----
(***************************************************************************)
(* For every set of tables: the current table follows the name given last, *)
(* every request leaves the state with its types, an answer of true stands *)
(* for work that was done, and to its clients the service is a Session.    *)
(***************************************************************************)
EXTENDS ClientSession, TLAPS

\* A request is with the handler its method names.
RightHandler == pc \in Handlers => pc = HandlerOf(req.method)

\* While a handler has not started, the current table is still the one it will
\* save; while it ends, the saved one is what the current table was.  A generic
\* handler has not moved it at all.
SavedTable ==
    /\ pc \in Handlers => lastUsedTable = tableName
    /\ pc = "finish" /\ req.method \in BasicRequests => tableName = lastUsedTable
    /\ pc = "finish" /\ since = {} => lastUsedTable = named

\* Wherever no handler is between its first setTableName and its last.
FollowsOutsideWork == pc # "finish" /\ since = {} => tableName = named

\* Between requests nothing has been used yet.
NothingUsedYet == pc = "idle" => used = {}

TableInv ==
    /\ NothingUsedYet
    /\ RightHandler
    /\ SavedTable
    /\ FollowsOutsideWork
    /\ BasicRunsOnNamedTable

\* No table has been named yet.
LEMMA TableInvInit == Init => TableInv
BY DEF Init, TableInv, NothingUsedYet, RightHandler, SavedTable, FollowsOutsideWork,
       BasicRunsOnNamedTable, Handlers, NoTable, Nothing

\* Receiving sets the current table and remembers the name together.
LEMMA TableInvReceive ==
    ASSUME TableInv, NEW r \in Requests, Receive(r) \/ ReceiveMistyped(r)
    PROVE  TableInv'
<1>1. CASE Receive(r)
  BY <1>1 DEF TableInv, NothingUsedYet, RightHandler, SavedTable, FollowsOutsideWork, BasicRunsOnNamedTable,
              Receive, Handlers, HandlerOf, NamesTable
<1>2. CASE ReceiveMistyped(r)
  BY <1>2 DEF TableInv, NothingUsedYet, RightHandler, SavedTable, FollowsOutsideWork, BasicRunsOnNamedTable,
              ReceiveMistyped, Handlers, history, locals
<1> QED BY <1>1, <1>2

\* A handler's work leaves the saved table alone, and a generic handler's leaves
\* the current table alone.
LEMMA TableInvWorkDone ==
    ASSUME TableInv, NEW h \in Handlers, NEW t, NEW ts, NEW ret, NEW status, NEW error,
           NEW did, WorkDone(h, t, ts, ret, status, error, did),
           req.method \in BasicRequests => t = tableName /\ ts \subseteq {tableName}
    PROVE  TableInv'
BY DEF TableInv, NothingUsedYet, RightHandler, SavedTable, FollowsOutsideWork,
       BasicRunsOnNamedTable, WorkDone, Handlers

\* An exception is a hazard of its own, except where no table was moved.
LEMMA TableInvHandlerThrows ==
    ASSUME TableInv, NEW h \in Handlers, NEW t, NEW ts, HandlerThrows(h, t, ts),
           h = "basic" => t = tableName /\ ts \subseteq {tableName}
    PROVE  TableInv'
BY DEF TableInv, NothingUsedYet, RightHandler, SavedTable, FollowsOutsideWork,
       BasicRunsOnNamedTable, HandlerThrows, Handlers

\* The handler classes do not overlap.
LEMMA OnlyItsOwnHandler ==
    ASSUME TableInv, pc \in Handlers
    PROVE  /\ req.method \in BasicRequests => pc = "basic"
           /\ pc = "basic" => req.method \in BasicRequests
BY DEF TableInv, RightHandler, HandlerOf, Handlers, BasicRequests, AnalyticRequests,
       EventRequests, LegacyEvents, VMSRequests

\* No work of any handler breaks the invariant.
LEMMA TableInvWork == ASSUME TableInv, Work PROVE TableInv'
<1> USE DEF Handlers
<1>1. CASE BasicModify
  <2>1. CASE WorkDone("basic", tableName, {}, ErrSendQuery, FALSE, TRUE, FALSE)
    BY <2>1, TableInvWorkDone
  <2>2. CASE \E ret \in {NoError, ErrSendQuery, ErrConnectDB}, junk \in BOOLEAN :
               WorkDone("basic", tableName, {tableName}, ret, junk, FALSE, ret = NoError)
    BY <2>2, TableInvWorkDone
  <2> QED BY <1>1, <2>1, <2>2 DEF BasicModify
<1>2. CASE BasicAddNewRecord
  BY <1>2, TableInvWorkDone DEF BasicAddNewRecord
<1>3. CASE BasicGetAll
  BY <1>3, TableInvWorkDone DEF BasicGetAll
<1>4. CASE BasicThrows
  BY <1>4, TableInvHandlerThrows DEF BasicThrows
<1>5. CASE AnalyticsRegister \/ MetaData2Db \/ GetEmbeddingInfo
  <2>1. PICK t, ts, ret, status, error, did :
          WorkDone("analytic", t, ts, ret, status, error, did)
    BY <1>5 DEF AnalyticsRegister, MetaData2Db, GetEmbeddingInfo
  <2>2. req.method \notin BasicRequests
    BY <2>1, OnlyItsOwnHandler DEF WorkDone
  <2> QED BY <2>1, <2>2, TableInvWorkDone
<1>6. CASE AnalyticThrows
  <2>1. PICK t, ts : HandlerThrows("analytic", t, ts)
    BY <1>6 DEF AnalyticThrows
  <2> QED BY <2>1, TableInvHandlerThrows
<1>7. CASE EventWork
  <2>1. PICK o : WorkDone("event", o.table, o.used, o.ret, FALSE, o.end # "plain",
                          ~IsFailure(o.ret) /\ o.end = "plain")
    BY <1>7 DEF EventWork
  <2>2. req.method \notin BasicRequests
    BY <2>1, OnlyItsOwnHandler DEF WorkDone
  <2> QED BY <2>1, <2>2, TableInvWorkDone
<1>8. CASE EventFallsThrough
  BY <1>8, OnlyItsOwnHandler
     DEF EventFallsThrough, TableInv, NothingUsedYet, RightHandler, SavedTable,
         FollowsOutsideWork, BasicRunsOnNamedTable
<1>9. CASE ReadArchive \/ ArchiveTimeline
  <2>1. PICK t, ts, ret, status, error, did :
          WorkDone("vms", t, ts, ret, status, error, did)
    BY <1>9 DEF ReadArchive, ArchiveTimeline
  <2>2. req.method \notin BasicRequests
    BY <2>1, OnlyItsOwnHandler DEF WorkDone
  <2> QED BY <2>1, <2>2, TableInvWorkDone
<1>10. CASE VMSThrows
  <2>1. PICK t, ts : HandlerThrows("vms", t, ts)
    BY <1>10 DEF VMSThrows
  <2> QED BY <2>1, TableInvHandlerThrows
<1> QED
  BY <1>1, <1>2, <1>3, <1>4, <1>5, <1>6, <1>7, <1>8, <1>9, <1>10 DEF Work

\* The table put back is the one named last, when there is one.
LEMMA TableInvFinish == ASSUME TableInv, Finish PROVE TableInv'
BY DEF TableInv, NothingUsedYet, RightHandler, SavedTable, FollowsOutsideWork,
       BasicRunsOnNamedTable, Finish, Restored, Handlers, LocalsGone

\* The reply and the end of the callback move no table.
LEMMA TableInvReply ==
    ASSUME TableInv, ReplyThrows \/ Reply \/ CallbackReturns \/ ProcessDies
    PROVE  TableInv'
<1> USE DEF TableInv, NothingUsedYet, RightHandler, SavedTable, FollowsOutsideWork,
            BasicRunsOnNamedTable, Handlers, locals, history, answer
<1>1. CASE ReplyThrows     BY <1>1 DEF ReplyThrows
<1>2. CASE Reply           BY <1>2 DEF Reply
<1>3. CASE CallbackReturns BY <1>3 DEF CallbackReturns
<1>4. CASE ProcessDies     BY <1>4 DEF ProcessDies
<1> QED BY <1>1, <1>2, <1>3, <1>4

\* The inductive invariant of the current table, for every set of client tables
\* and of event tables.
THEOREM TableInvHolds == Spec => []TableInv
<1>1. Init => TableInv
  BY TableInvInit
<1>2. TableInv /\ [Next]_vars => TableInv'
  <2> SUFFICES ASSUME TableInv, [Next]_vars PROVE TableInv'
    OBVIOUS
  <2>1. CASE UNCHANGED vars
    BY <2>1 DEF TableInv, NothingUsedYet, RightHandler, SavedTable, FollowsOutsideWork,
                BasicRunsOnNamedTable, vars, locals, history
  <2>2. CASE Next
    BY <2>2, TableInvReceive, TableInvWork, TableInvFinish, TableInvReply DEF Next, Serve
  <2> QED BY <2>1, <2>2
<1> QED BY <1>1, <1>2, PTL DEF Spec

\* Whatever requests come in whatever order, the current table outside of a
\* handler's work is the one named last, up to the three hazards of "since".
THEOREM CurrentTableIsNamedTable == Spec => []TableFollowsName
<1>1. TableInv => TableFollowsName
  BY DEF TableInv, FollowsOutsideWork, TableFollowsName
<1> QED BY <1>1, TableInvHolds, PTL

\* A generic request without a table runs on the table named last, up to the same
\* hazards.
THEOREM GenericRequestsRunOnNamedTable == Spec => []BasicRunsOnNamedTable
<1>1. TableInv => BasicRunsOnNamedTable
  BY DEF TableInv
<1> QED BY <1>1, TableInvHolds, PTL

----
\* Type correctness.  The parts of the type invariant that work and its end change.

LEMMA WorkDoneType ==
    ASSUME TypeOK, NEW h \in Handlers, NEW t \in AllTables, NEW ts \in SUBSET AllTables,
           NEW ret \in Statuses, NEW status \in BOOLEAN, NEW error \in BOOLEAN,
           NEW did \in BOOLEAN, WorkDone(h, t, ts, ret, status, error, did)
    PROVE  TypeOK'
BY DEF TypeOK, WorkDone, Packs, answer

LEMMA HandlerThrowsType ==
    ASSUME TypeOK, NEW h \in Handlers, NEW t \in AllTables, NEW ts \in SUBSET AllTables,
           HandlerThrows(h, t, ts)
    PROVE  TypeOK'
<1>1. lastUsedTable' \in AllTables /\ retErr' \in Statuses /\ pack' \in Packs
  BY DEF HandlerThrows, LocalsGone, AllTables, Statuses, Packs
<1> QED BY <1>1 DEF TypeOK, HandlerThrows, Hazards, answer

Outcomes == [table : AllTables, used : SUBSET AllTables, ret : Statuses,
             end : {"plain", "error", "thrown"}]

LEMMA EventOutcomesType ==
    ASSUME TypeOK, NEW method, NEW o \in EventOutcomes(method)
    PROVE  o \in Outcomes
<1>1. /\ RegisteredAnalytics \in AllTables /\ SystemTables(method) \subseteq AllTables
      /\ tableName \in AllTables /\ EventTables \subseteq AllTables
  BY DEF AllTables, TypeOK, SystemTables
<1>2. {UndefinedError, NoError, NotExists, NotCreateTable, ErrSendQuery, ErrConnectDB}
        \subseteq Statuses
  BY DEF Statuses
<1>3. ASSUME NEW t \in AllTables, NEW others \in SUBSET EventTables
      PROVE  LastEvents(method, t, others) \in SUBSET AllTables
  BY <1>1 DEF LastEvents
<1>4. CASE o \in NoEventsRead
  BY <1>1, <1>2, <1>4 DEF NoEventsRead, Outcome, Outcomes
<1>5. CASE o \in SystemUnread(method)
  <2>1. PICK t \in SystemTables(method), others \in SUBSET EventTables,
             ret \in {NotCreateTable, ErrSendQuery, ErrConnectDB} :
          o = Outcome(t, LastEvents(method, t, others), ret, "error")
    BY <1>5 DEF SystemUnread
  <2> QED BY <1>1, <1>2, <1>3, <2>1 DEF Outcome, Outcomes
<1>6. CASE o \in EventsRead(method)
  <2>1. PICK t \in EventTables, others \in SUBSET EventTables, end \in {"plain", "error"},
             ret \in EventStatuses :
          o = Outcome(t, LastEvents(method, t, others), ret, end)
    BY <1>6 DEF EventsRead
  <2> QED BY <1>1, <1>2, <1>3, <2>1 DEF Outcome, Outcomes, EventStatuses
<1>7. CASE o \in RowsMistyped(method)
  <2>1. PICK t \in EventTables, others \in SUBSET EventTables :
          o = Outcome(t, LastEvents(method, t, others), UndefinedError, "thrown")
    BY <1>7 DEF RowsMistyped
  <2> QED BY <1>1, <1>2, <1>3, <2>1 DEF Outcome, Outcomes
<1> QED BY <1>4, <1>5, <1>6, <1>7 DEF EventOutcomes

LEMMA TypeOKInit == Init => TypeOK
<1> SUFFICES ASSUME Init PROVE TypeOK
  OBVIOUS
<1>1. NoTable \in AllTables
  BY DEF AllTables
<1>2. Nothing \in Requests
  BY DEF Nothing, Requests, Methods
<1>3. UndefinedError \in Statuses
  BY DEF Statuses
<1>4. out \in Answers /\ pack \in Packs
  BY DEF Init, Answers, Packs
<1> QED BY <1>1, <1>2, <1>3, <1>4 DEF Init, TypeOK

LEMMA TypeOKReceive ==
    ASSUME TypeOK, NEW r \in Requests, Receive(r) \/ ReceiveMistyped(r)
    PROVE  TypeOK'
<1>1. CASE Receive(r)
  <2>1. r.table \in Tables \cup {NoTable} /\ Tables \cup {NoTable} \subseteq AllTables
    BY DEF Requests, AllTables
  <2>2. pc' \in Handlers \cup {"reply"}
    BY <1>1 DEF Receive, HandlerOf, Handlers
  <2>3. out' \in Answers
    BY <1>1 DEF Receive, Answers
  <2>4. tableName' \in AllTables /\ named' \in Tables \cup {NoTable} /\ lastUsedTable' \in AllTables
    BY <1>1, <2>1 DEF Receive, NamesTable, TypeOK
  <2>5. since' \subseteq Hazards /\ done' \in BOOLEAN /\ used' \subseteq AllTables
    BY <1>1 DEF Receive, TypeOK
  <2>6. notFound' \in BOOLEAN /\ retErr' \in Statuses /\ pack' \in Packs /\ req' \in Requests
    BY <1>1 DEF Receive, TypeOK
  <2> QED BY <2>2, <2>3, <2>4, <2>5, <2>6 DEF TypeOK
<1>2. CASE ReceiveMistyped(r)
  BY <1>2 DEF ReceiveMistyped, TypeOK, locals, answer, history
<1> QED BY <1>1, <1>2

LEMMA TypeOKWork == ASSUME TypeOK, Work PROVE TypeOK'
<1>0. /\ {RegisteredAnalytics, InfoNodes, ArchiveWriter, NoTable} \subseteq AllTables
      /\ EventTables \subseteq AllTables /\ tableName \in AllTables
      /\ \A t \in ReadArchiveTables : t \in AllTables
      /\ {NoError, NotExists, NotCreateTable, ErrSendQuery, ErrConnectDB, UndefinedError}
           \subseteq Statuses
      /\ Handlers = {"basic", "analytic", "event", "vms"}
  BY DEF AllTables, TypeOK, Requests, ReadArchiveTables, Statuses, Handlers
<1>1. CASE BasicModify
  <2>1. CASE WorkDone("basic", tableName, {}, ErrSendQuery, FALSE, TRUE, FALSE)
    BY <1>0, <2>1, WorkDoneType
  <2>2. CASE \E ret \in {NoError, ErrSendQuery, ErrConnectDB}, junk \in BOOLEAN :
               WorkDone("basic", tableName, {tableName}, ret, junk, FALSE, ret = NoError)
    <3>1. PICK ret \in {NoError, ErrSendQuery, ErrConnectDB} : \E junk \in BOOLEAN :
            WorkDone("basic", tableName, {tableName}, ret, junk, FALSE, ret = NoError)
      BY <2>2
    <3>2. PICK junk \in BOOLEAN :
            WorkDone("basic", tableName, {tableName}, ret, junk, FALSE, ret = NoError)
      BY <3>1
    <3>3. (ret = NoError) \in BOOLEAN
      OBVIOUS
    <3>4. ret \in Statuses /\ {tableName} \in SUBSET AllTables
      BY <1>0
    <3> QED BY <1>0, <3>2, <3>3, <3>4 DEF WorkDone, TypeOK, Packs, answer
  <2> QED BY <1>1, <2>1, <2>2 DEF BasicModify
<1>2. CASE BasicAddNewRecord
  BY <1>0, <1>2, WorkDoneType DEF BasicAddNewRecord
<1>3. CASE BasicGetAll
  <2> DEFINE Rets == {NoError, NotExists, NotCreateTable, ErrSendQuery, ErrConnectDB}
  <2>1. PICK ret \in Rets : \E junk \in BOOLEAN :
          WorkDone("basic", tableName, {tableName}, ret, junk, FALSE, ~IsFailure(ret))
    BY <1>3 DEF BasicGetAll
  <2>2. PICK junk \in BOOLEAN :
          WorkDone("basic", tableName, {tableName}, ret, junk, FALSE, ~IsFailure(ret))
    BY <2>1
  <2>3. (~IsFailure(ret)) \in BOOLEAN
    OBVIOUS
  <2>4. ret \in Statuses /\ {tableName} \in SUBSET AllTables
    BY <1>0
  <2> QED BY <1>0, <2>2, <2>3, <2>4 DEF WorkDone, TypeOK, Packs, answer
<1>4. CASE BasicThrows
  BY <1>0, <1>4, HandlerThrowsType DEF BasicThrows
<1>5. CASE AnalyticsRegister
  BY <1>0, <1>5, WorkDoneType DEF AnalyticsRegister
<1>6. CASE MetaData2Db
  BY <1>0, <1>6, WorkDoneType DEF MetaData2Db
<1>7. CASE GetEmbeddingInfo
  BY <1>0, <1>7, WorkDoneType DEF GetEmbeddingInfo
<1>8. CASE AnalyticThrows
  BY <1>0, <1>8, HandlerThrowsType DEF AnalyticThrows
<1>9. CASE EventWork
  <2>1. PICK o \in EventOutcomes(req.method) :
          WorkDone("event", o.table, o.used, o.ret, FALSE, o.end # "plain",
                   ~IsFailure(o.ret) /\ o.end = "plain")
    BY <1>9 DEF EventWork
  <2>2. o.table \in AllTables /\ o.used \in SUBSET AllTables /\ o.ret \in Statuses
    BY EventOutcomesType DEF Outcomes
  <2>3. (o.end # "plain") \in BOOLEAN /\ (~IsFailure(o.ret) /\ o.end = "plain") \in BOOLEAN
    OBVIOUS
  <2> QED BY <1>0, <2>1, <2>2, <2>3, WorkDoneType
<1>10. CASE EventFallsThrough
  <2>1. PICK o \in EventOutcomes(req.method) :
          /\ tableName' = o.table
          /\ used' = o.used
          /\ done' = (~IsFailure(o.ret) /\ o.end = "plain")
    BY <1>10 DEF EventFallsThrough
  <2>2. o.table \in AllTables /\ o.used \in SUBSET AllTables
    BY EventOutcomesType DEF Outcomes
  <2>3. done' \in BOOLEAN
    BY <2>1
  <2>4. lastUsedTable' \in AllTables /\ retErr' \in Statuses /\ pack' \in Packs
    BY <1>0, <1>10 DEF EventFallsThrough, LocalsGone, Packs
  <2>5. out' \in Answers
    BY <1>10 DEF EventFallsThrough, Answers
  <2> QED BY <1>10, <2>1, <2>2, <2>3, <2>4, <2>5 DEF EventFallsThrough, TypeOK, Hazards
<1>11. CASE ReadArchive
  BY <1>0, <1>11, WorkDoneType DEF ReadArchive, ReadArchiveTables
<1>12. CASE ArchiveTimeline
  <2>1. CASE \E error \in BOOLEAN :
               WorkDone("vms", tableName, {ArchiveWriter}, UndefinedError, FALSE, error, FALSE)
    BY <1>0, <2>1, WorkDoneType
  <2>2. CASE \E o \in EventOutcomes("archive-event-cctv@asis") :
               WorkDone("vms", o.table, {ArchiveWriter} \cup o.used, UndefinedError, TRUE,
                        o.end = "thrown" \/ (IsFailure(o.ret) /\ o.end = "plain"), TRUE)
    <3>1. PICK o \in EventOutcomes("archive-event-cctv@asis") :
            WorkDone("vms", o.table, {ArchiveWriter} \cup o.used, UndefinedError, TRUE,
                     o.end = "thrown" \/ (IsFailure(o.ret) /\ o.end = "plain"), TRUE)
      BY <2>2
    <3>2. o.table \in AllTables /\ {ArchiveWriter} \cup o.used \in SUBSET AllTables
      BY <1>0, EventOutcomesType DEF Outcomes
    <3>3. (o.end = "thrown" \/ (IsFailure(o.ret) /\ o.end = "plain")) \in BOOLEAN
      OBVIOUS
    <3> QED BY <1>0, <3>1, <3>2, <3>3, WorkDoneType
  <2> QED BY <1>12, <2>1, <2>2 DEF ArchiveTimeline
<1>13. CASE VMSThrows
  BY <1>0, <1>13, HandlerThrowsType DEF VMSThrows, ReadArchiveTables
<1> QED
  BY <1>1, <1>2, <1>3, <1>4, <1>5, <1>6, <1>7, <1>8, <1>9, <1>10, <1>11, <1>12, <1>13 DEF Work

LEMMA TypeOKFinish == ASSUME TypeOK, Finish PROVE TypeOK'
<1>1. lastUsedTable' \in AllTables /\ retErr' \in Statuses /\ pack' \in Packs
  BY DEF Finish, LocalsGone, AllTables, Statuses, Packs
<1>2. tableName' \in AllTables
  BY DEF Finish, Restored, TypeOK
<1>3. out' \in Answers
  <2> DEFINE d == Decided(req.method)
  <2>1. d \in Packs
    <3>1. \A p \in Packs : [p EXCEPT !.status = TRUE] \in Packs
                         /\ [p EXCEPT !.error = TRUE] \in Packs
      BY DEF Packs
    <3> QED BY <3>1 DEF Decided, TypeOK
  <2> HIDE DEF d
  <2>2. Converted(d) \in Answers
    BY <2>1 DEF Converted, Packs, Answers
  <2> QED BY <2>2 DEF Finish, d
<1> QED BY <1>1, <1>2, <1>3 DEF Finish, TypeOK, Hazards

LEMMA EchoedType == ASSUME TypeOK PROVE Echoed(out, req) \in Answers
BY DEF TypeOK, Echoed, Answers

LEMMA TypeOKReply ==
    ASSUME TypeOK, ReplyThrows \/ Reply \/ CallbackReturns \/ ProcessDies
    PROVE  TypeOK'
<1>1. CASE ReplyThrows
  BY <1>1, EchoedType DEF ReplyThrows, TypeOK, locals, history
<1>2. CASE Reply
  <2>0. \A o \in Answers : [o EXCEPT !.status = "false"] \in Answers
    BY DEF Answers
  <2>1. out' \in Answers
    BY <1>2, <2>0, EchoedType DEF Reply
  <2> QED BY <1>2, <2>1 DEF Reply, TypeOK, locals, history
<1>3. CASE CallbackReturns
  <2>1. out' \in Answers
    BY <1>3 DEF CallbackReturns, Answers
  <2>2. req' \in Requests
    BY <1>3 DEF CallbackReturns, Nothing, Requests, Methods
  <2> QED BY <1>3, <2>1, <2>2 DEF CallbackReturns, TypeOK, locals
<1>4. CASE ProcessDies
  BY <1>4 DEF ProcessDies, TypeOK, locals, answer, history
<1> QED BY <1>1, <1>2, <1>3, <1>4

LEMMA TypeOKNext == TypeOK /\ [Next]_vars => TypeOK'
<1> SUFFICES ASSUME TypeOK, [Next]_vars PROVE TypeOK'
  OBVIOUS
<1>1. CASE UNCHANGED vars
  BY <1>1 DEF TypeOK, vars, locals, answer, history
<1>2. CASE Next
  BY <1>2, TypeOKReceive, TypeOKWork, TypeOKFinish, TypeOKReply DEF Next, Serve
<1> QED BY <1>1, <1>2

\* The current table, the answer and the locals have their types in every reachable
\* state, for every set of table names: no handler leaves a table, a status or
\* an answer of another kind behind.
THEOREM RequestsTypeCorrect == Spec => []TypeOK
BY TypeOKInit, TypeOKNext, PTL DEF Spec

----
\* What an answer says.

\* A decision to answer true was preceded by the work, unless nobody set the status.
DecisionRight ==
    pc = "finish" /\ req.method \notin UnsetStatus
      /\ Converted(Decided(req.method)).status = "true" => done

\* The answer of a handler, before the unique pair is echoed into it.
AnswerRight ==
    pc = "reply" =>
        /\ out.status # "text"
        /\ out.status = "true" => ~out.error
        /\ out.status = "true" /\ req.method \notin UnsetStatus => done

AnswerInv ==
    /\ DecisionRight
    /\ AnswerRight
    /\ TrueMeansDone
    /\ ErrorMeansFalse
    /\ AnswerableNeverThrows

LEMMA AnswerInvInit == Init => AnswerInv
BY DEF Init, AnswerInv, DecisionRight, AnswerRight, TrueMeansDone, ErrorMeansFalse,
       AnswerableNeverThrows

\* A heartbeat is true at once; a field of the wrong type may throw.
LEMMA AnswerInvReceive ==
    ASSUME AnswerInv, NEW r \in Requests, Receive(r) \/ ReceiveMistyped(r)
    PROVE  AnswerInv'
<1>1. CASE Receive(r)
  <2>1. pc' \in Handlers \cup {"reply"}
    BY <1>1 DEF Receive, HandlerOf, Handlers
  <2>2. /\ out'.status = (IF r.method = "heartbeat" THEN "true" ELSE "absent")
        /\ out'.error <=> r.method \in {"unknown", NoRequest}
        /\ done' <=> r.method = "heartbeat"
    BY <1>1 DEF Receive
  <2>3. AnswerRight'
    BY <2>2 DEF AnswerRight, NoRequest
  <2> QED BY <2>1, <2>3 DEF AnswerInv, DecisionRight, TrueMeansDone, ErrorMeansFalse,
                            AnswerableNeverThrows, Handlers
<1>2. CASE ReceiveMistyped(r)
  BY <1>2 DEF ReceiveMistyped, AnswerInv, DecisionRight, AnswerRight, TrueMeansDone,
              ErrorMeansFalse, AnswerableNeverThrows, Answerable
<1> QED BY <1>1, <1>2

\* The work of a handler only has to justify the decision it leads to.
LEMMA AnswerInvFinishing ==
    ASSUME pc' = "finish", DecisionRight' PROVE AnswerInv'
BY DEF AnswerInv, AnswerRight, TrueMeansDone, ErrorMeansFalse, AnswerableNeverThrows

LEMMA AnswerInvHandlerThrows ==
    ASSUME NEW h, NEW t, NEW ts, HandlerThrows(h, t, ts) PROVE AnswerInv'
BY DEF HandlerThrows, AnswerInv, DecisionRight, AnswerRight, TrueMeansDone,
       ErrorMeansFalse, AnswerableNeverThrows, Answerable

\* Work that takes its status from the database: it says true when the row is there.
LEMMA StatusOfTheWork ==
    ASSUME NEW h, NEW t, NEW ts, NEW ret, NEW stored \in BOOLEAN,
           WorkDone(h, t, ts, ret, stored, FALSE, stored),
           req.method \notin EventRequests, req.method \in BasicRequests => IsFailure(ret)
    PROVE  AnswerInv'
<1>1. pc' = "finish" /\ req' = req /\ retErr' = ret /\ done' = stored
      /\ pack' = [status |-> stored, error |-> FALSE]
  BY DEF WorkDone
<1>2. DecisionRight'
  BY <1>1 DEF DecisionRight, Decided, Converted
<1> QED BY <1>1, <1>2, AnswerInvFinishing

\* Work that gave up before it had anything to say.
LEMMA NothingDone ==
    ASSUME NEW h, NEW t, NEW ts, NEW ret, NEW error \in BOOLEAN,
           WorkDone(h, t, ts, ret, FALSE, error, FALSE), IsFailure(ret)
    PROVE  AnswerInv'
<1>1. pc' = "finish" /\ req' = req /\ retErr' = ret
      /\ pack' = [status |-> FALSE, error |-> error]
  BY DEF WorkDone
<1>2. DecisionRight'
  BY <1>1 DEF DecisionRight, Decided, Converted
<1> QED BY <1>1, <1>2, AnswerInvFinishing

LEMMA AnswerInvWork == ASSUME AnswerInv, Work PROVE AnswerInv'
<1>0. IsFailure(ErrSendQuery) /\ IsFailure(UndefinedError)
  BY DEF IsFailure
<1>1. CASE BasicModify \/ BasicGetAll
  <2>1. req.method \in UnsetStatus /\ req' = req /\ pc' = "finish"
    BY <1>1 DEF BasicModify, BasicGetAll, WorkDone, UnsetStatus
  <2> QED BY <2>1, AnswerInvFinishing DEF DecisionRight
<1>2. CASE BasicAddNewRecord
  BY <1>0, <1>2, StatusOfTheWork
     DEF BasicAddNewRecord, EventRequests, LegacyEvents
<1>3. CASE AnalyticsRegister
  <2>1. req.method \notin EventRequests /\ req.method \notin BasicRequests
    BY <1>3 DEF AnalyticsRegister, EventRequests, LegacyEvents, BasicRequests
  <2> QED BY <1>0, <1>3, <2>1, StatusOfTheWork, NothingDone DEF AnalyticsRegister
<1>4. CASE MetaData2Db
  <2>1. req.method \notin EventRequests /\ req.method \notin BasicRequests
    BY <1>4 DEF MetaData2Db, EventRequests, LegacyEvents, BasicRequests
  <2> QED BY <1>0, <1>4, <2>1, StatusOfTheWork, NothingDone DEF MetaData2Db
<1>5. CASE GetEmbeddingInfo
  BY <1>0, <1>5, NothingDone DEF GetEmbeddingInfo
<1>6. CASE BasicThrows \/ AnalyticThrows \/ VMSThrows
  <2>1. PICK h, t, ts : HandlerThrows(h, t, ts)
    BY <1>6 DEF BasicThrows, AnalyticThrows, VMSThrows
  <2> QED BY <2>1, AnswerInvHandlerThrows
<1>7. CASE EventWork
  <2>1. PICK o : WorkDone("event", o.table, o.used, o.ret, FALSE, o.end # "plain",
                          ~IsFailure(o.ret) /\ o.end = "plain")
    BY <1>7 DEF EventWork
  <2>2. /\ pc' = "finish" /\ req' = req /\ retErr' = o.ret
        /\ pack' = [status |-> FALSE, error |-> (o.end # "plain")]
        /\ done' = (~IsFailure(o.ret) /\ o.end = "plain")
    BY <2>1 DEF WorkDone
  <2>3. DecisionRight'
    BY <2>2 DEF DecisionRight, Decided, Converted
  <2> QED BY <2>2, <2>3, AnswerInvFinishing
<1>8. CASE EventFallsThrough
  BY <1>8 DEF EventFallsThrough, AnswerInv, DecisionRight, AnswerRight, TrueMeansDone,
              ErrorMeansFalse, AnswerableNeverThrows
<1>9. CASE ReadArchive
  <2>1. req.method \notin EventRequests /\ req.method \notin BasicRequests
    BY <1>9 DEF ReadArchive, EventRequests, LegacyEvents, BasicRequests
  <2> QED BY <1>9, <2>1, StatusOfTheWork DEF ReadArchive
<1>10. CASE ArchiveTimeline
  <2>1. CASE \E error \in BOOLEAN :
               WorkDone("vms", tableName, {ArchiveWriter}, UndefinedError, FALSE, error, FALSE)
    BY <1>0, <2>1, NothingDone
  <2>2. CASE \E o \in EventOutcomes("archive-event-cctv@asis") :
               WorkDone("vms", o.table, {ArchiveWriter} \cup o.used, UndefinedError, TRUE,
                        o.end = "thrown" \/ (IsFailure(o.ret) /\ o.end = "plain"), TRUE)
    BY <2>2, AnswerInvFinishing DEF WorkDone, DecisionRight
  <2> QED BY <1>10, <2>1, <2>2 DEF ArchiveTimeline
<1> QED
  BY <1>1, <1>2, <1>3, <1>4, <1>5, <1>6, <1>7, <1>8, <1>9, <1>10 DEF Work

\* Converted never answers true with an error.
LEMMA AnswerInvFinish == ASSUME AnswerInv, Finish PROVE AnswerInv'
<1>1. pc = "finish" /\ pc' = "reply" /\ req' = req /\ done' = done
      /\ out' = Converted(Decided(req.method))
  BY DEF Finish
<1>2. Converted(Decided(req.method)).status \in {"true", "false"}
      /\ (Converted(Decided(req.method)).status = "true"
            => ~Converted(Decided(req.method)).error)
  BY DEF Converted
<1>3. AnswerRight'
  BY <1>1, <1>2 DEF AnswerInv, DecisionRight, AnswerRight
<1> QED BY <1>1, <1>3 DEF AnswerInv, DecisionRight, TrueMeansDone, ErrorMeansFalse,
                          AnswerableNeverThrows

\* The echo adds an error only under a unique name "error", and a status that is no
\* boolean only under a unique name "status".
LEMMA AnswerInvReply ==
    ASSUME AnswerInv, TypeOK, ReplyThrows \/ Reply \/ CallbackReturns \/ ProcessDies
    PROVE  AnswerInv'
<1> USE DEF AnswerInv, DecisionRight, AnswerRight, TrueMeansDone, ErrorMeansFalse,
            AnswerableNeverThrows
<1>1. CASE ReplyThrows
  BY <1>1 DEF ReplyThrows, Echoed, Answerable
<1>2. CASE Reply
  <2>1. Echoed(out, req) \in Answers
    BY EchoedType
  <2>2. /\ pc = "reply" /\ pc' = "sent" /\ req' = req /\ done' = done
        /\ out'.error = Echoed(out, req).error
        /\ out'.status = "true" => Echoed(out, req).status = "true"
    BY <1>2, <2>1 DEF Reply, Answers, history
  <2>3. /\ Echoed(out, req).status = "true" => out.status = "true"
        /\ Echoed(out, req).error /\ ~out.error => req.uniq = "error"
    BY DEF Echoed
  <2> QED BY <2>2, <2>3
<1>3. CASE CallbackReturns
  BY <1>3 DEF CallbackReturns
<1>4. CASE ProcessDies
  BY <1>4 DEF ProcessDies
<1> QED BY <1>1, <1>2, <1>3, <1>4

\* The inductive invariant of the answers, for every set of tables.
THEOREM AnswerInvHolds == Spec => []AnswerInv
<1>1. Init => AnswerInv
  BY AnswerInvInit
<1>2. AnswerInv /\ TypeOK /\ [Next]_vars => AnswerInv'
  <2> SUFFICES ASSUME AnswerInv, TypeOK, [Next]_vars PROVE AnswerInv'
    OBVIOUS
  <2>1. CASE UNCHANGED vars
    BY <2>1 DEF AnswerInv, DecisionRight, AnswerRight, TrueMeansDone, ErrorMeansFalse,
                AnswerableNeverThrows, Decided, vars, locals, answer, history
  <2>2. CASE Next
    BY <2>2, AnswerInvReceive, AnswerInvWork, AnswerInvFinish, AnswerInvReply DEF Next, Serve
  <2> QED BY <2>1, <2>2
<1> QED BY <1>1, <1>2, RequestsTypeCorrect, PTL DEF Spec

\* No path through dispatch, work, decision, conversion and echo turns a request
\* that failed into an answer of true, save where nobody set the status.
THEOREM TrueIsDone == Spec => []TrueMeansDone
<1>1. AnswerInv => TrueMeansDone
  BY DEF AnswerInv
<1> QED BY <1>1, AnswerInvHolds, PTL

\* An answer of true with an error has it from the echo of the unique pair.
THEOREM ErrorIsFalse == Spec => []ErrorMeansFalse
<1>1. AnswerInv => ErrorMeansFalse
  BY DEF AnswerInv
<1> QED BY <1>1, AnswerInvHolds, PTL

\* An exception leaves the callback only for a field of the wrong type or a unique
\* name "status".
THEOREM OnlyBadFieldsEscape == Spec => []AnswerableNeverThrows
<1>1. AnswerInv => AnswerableNeverThrows
  BY DEF AnswerInv
<1> QED BY <1>1, AnswerInvHolds, PTL
----
\* The service is a session.

\* Between requests nothing has been done yet.
NothingDoneYet == pc = "idle" => done = FALSE

SessionInv == TypeOK /\ TableInv /\ AnswerInv /\ NothingDoneYet

LEMMA NothingDoneInit == Init => NothingDoneYet
BY DEF Init, NothingDoneYet

\* Work that neither falls through nor throws goes on to the end of its handler.
LEMMA WorkGoesOn ==
    ASSUME Work, ~(EventFallsThrough \/ BasicThrows \/ AnalyticThrows \/ VMSThrows)
    PROVE  pc \in Handlers /\ pc' = "finish" /\ UNCHANGED <<req, named, since>>
<1> USE DEF WorkDone, Handlers
<1>1. CASE BasicModify        BY <1>1 DEF BasicModify
<1>2. CASE BasicAddNewRecord  BY <1>2 DEF BasicAddNewRecord
<1>3. CASE BasicGetAll        BY <1>3 DEF BasicGetAll
<1>4. CASE AnalyticsRegister  BY <1>4 DEF AnalyticsRegister
<1>5. CASE MetaData2Db        BY <1>5 DEF MetaData2Db
<1>6. CASE GetEmbeddingInfo   BY <1>6 DEF GetEmbeddingInfo
<1>7. CASE EventWork          BY <1>7 DEF EventWork
<1>8. CASE ReadArchive        BY <1>8 DEF ReadArchive
<1>9. CASE ArchiveTimeline    BY <1>9 DEF ArchiveTimeline
<1> QED
  BY <1>1, <1>2, <1>3, <1>4, <1>5, <1>6, <1>7, <1>8, <1>9 DEF Work

LEMMA WorkLeavesIdle == ASSUME Work PROVE pc' # "idle"
<1>1. CASE EventFallsThrough
  BY <1>1 DEF EventFallsThrough
<1>2. CASE BasicThrows \/ AnalyticThrows \/ VMSThrows
  BY <1>2 DEF BasicThrows, AnalyticThrows, VMSThrows, HandlerThrows
<1>3. CASE ~(EventFallsThrough \/ BasicThrows \/ AnalyticThrows \/ VMSThrows)
  BY <1>3, WorkGoesOn
<1> QED BY <1>1, <1>2, <1>3

LEMMA NothingDoneNext == NothingDoneYet /\ [Next]_vars => NothingDoneYet'
<1> SUFFICES ASSUME NothingDoneYet, [Next]_vars PROVE NothingDoneYet'
  OBVIOUS
<1>1. CASE Work
  BY <1>1, WorkLeavesIdle DEF NothingDoneYet
<1>2. CASE \E r \in Requests : Receive(r) \/ ReceiveMistyped(r)
  BY <1>2 DEF Receive, ReceiveMistyped, HandlerOf, NothingDoneYet
<1>3. CASE Finish \/ ReplyThrows \/ Reply \/ CallbackReturns \/ ProcessDies
  BY <1>3 DEF Finish, ReplyThrows, Reply, CallbackReturns, ProcessDies, NothingDoneYet
<1>4. CASE UNCHANGED vars
  BY <1>4 DEF vars, history, NothingDoneYet
<1> QED BY <1>1, <1>2, <1>3, <1>4 DEF Next, Serve

LEMMA SessionInvAlways == Spec => []SessionInv
BY NothingDoneInit, NothingDoneNext, RequestsTypeCorrect, TableInvHolds, AnswerInvHolds, PTL
   DEF Spec, SessionInv

\* A request's terms are a request of the session.
LEMMA TermsType == ASSUME NEW r \in Requests PROVE Terms(r) \in Client!Requests
<1>1. (IF NamesTable(r) THEN r.table ELSE NoTable) \in Tables \cup {NoTable}
  BY DEF Requests
<1>2. (~Answerable(r)) \in BOOLEAN
  BY DEF Answerable
<1> QED BY <1>1, <1>2 DEF Terms, Client!Requests

\* While a table is in force it is the one named last, and the current one.
LEMMA InForceNamed ==
    ASSUME SessionInv
    PROVE  /\ InForce # Lost => since = {} /\ InForce = named
           /\ since = {} => InForce = named
           /\ named # Lost
BY LostAssumption DEF SessionInv, TypeOK, InForce

LEMMA RanPlaces == ASSUME TypeOK PROVE Ran \in SUBSET AllTables
BY DEF TypeOK, Ran

\* A generic request that is over ran on the table in force.
LEMMA RanInForce ==
    ASSUME SessionInv, pc \in {"finish", "reply", "sent", "escaped"}
    PROVE  Terms(req).generic /\ InForce # Lost => Ran \subseteq {InForce}
BY InForceNamed DEF SessionInv, TableInv, BasicRunsOnNamedTable, Ran, Terms

LEMMA ReceiveAsks ==
    ASSUME SessionInv, NEW r \in Requests, Receive(r)
    PROVE  Client!Ask(Terms(r))
<1>1. /\ pc = "idle" /\ pc' \in Handlers \cup {"reply"} /\ req' = r
      /\ named' = (IF NamesTable(r) THEN r.table ELSE named)
      /\ since' = (IF NamesTable(r) THEN {} ELSE since)
  BY DEF Receive, HandlerOf, Handlers
<1>2. Phase = "idle" /\ Phase' = "serving"
  BY <1>1 DEF Phase, Handlers
<1>3. Ended' = Ended
  BY <1>2 DEF Ended
<1>4. Terms(r).names # NoTable <=> NamesTable(r)
  BY DEF Terms, NamesTable
<1>5. InForce' = IF Terms(r).names # NoTable THEN Terms(r).names ELSE InForce
  BY <1>1, <1>4 DEF InForce, Terms
<1>6. Terms(req)' = Terms(r)
  BY <1>1 DEF Terms
<1> QED BY <1>2, <1>3, <1>5, <1>6 DEF Client!Ask

LEMMA MistypedIsDropped ==
    ASSUME SessionInv, NEW r \in Requests, ReceiveMistyped(r)
    PROVE  Client!Drop(Terms(r))
<1>1. /\ pc = "idle" /\ pc' = "escaped" /\ req' = r /\ ~Answerable(r)
      /\ UNCHANGED <<named, since, used, done>>
  BY DEF ReceiveMistyped, history, Answerable
<1>2. Phase = "idle" /\ Phase' = "broken"
  BY <1>1 DEF Phase
<1>3. used' = {} /\ done' = FALSE
  BY <1>1 DEF SessionInv, TableInv, NothingUsedYet, NothingDoneYet
<1>4. Ended = [done |-> FALSE, said |-> "nothing", ran |-> {}]
  BY <1>2 DEF Ended
<1>5. Ran' = {}
  BY <1>3 DEF Ran
<1>6. Ended' = [done |-> FALSE, said |-> "nothing", ran |-> {}]
  BY <1>1, <1>2, <1>3, <1>5 DEF Ended
<1>7. Terms(req)' = Terms(r) /\ Terms(r).malformed
  BY <1>1 DEF Terms
<1>8. InForce' = InForce
  BY <1>1 DEF InForce
<1> QED BY <1>2, <1>4, <1>6, <1>7, <1>8 DEF Client!Drop

\* Work in progress is not seen.
LEMMA WorkIsHidden ==
    ASSUME Work, ~(EventFallsThrough \/ BasicThrows \/ AnalyticThrows \/ VMSThrows)
    PROVE  UNCHANGED Client!vars
<1>1. pc \in Handlers /\ pc' = "finish" /\ UNCHANGED <<req, named, since>>
  BY WorkGoesOn
<1>2. Phase = "serving" /\ Phase' = "serving"
  BY <1>1 DEF Phase, Handlers
<1>3. Ended' = Ended /\ InForce' = InForce /\ Terms(req)' = Terms(req)
  BY <1>1, <1>2 DEF Ended, InForce, Terms
<1> QED BY <1>2, <1>3 DEF Client!vars

\* An exception of a handler: only one that is not generic has moved the table.
LEMMA ThrowBreaks ==
    ASSUME SessionInv, SessionInv', NEW h \in Handlers, NEW t, NEW ts, HandlerThrows(h, t, ts),
           h = "basic" => req.method \in BasicRequests,
           h # "basic" => req.method \notin BasicRequests
    PROVE  Client!Next
<1>1. /\ pc \in Handlers /\ pc' = "escaped" /\ req' = req /\ done' = FALSE /\ named' = named
      /\ since' = (IF h = "basic" THEN since ELSE since \cup {"exception"})
      /\ ~Answerable(req)
  BY DEF HandlerThrows, Answerable
<1>2. Phase = "serving" /\ Phase' = "broken"
  BY <1>1 DEF Phase, Handlers
<1>3. Ended' = [done |-> FALSE, said |-> "nothing", ran |-> Ran']
  BY <1>1, <1>2 DEF Ended
<1>4. Terms(req)' = Terms(req) /\ Terms(req).malformed
  BY <1>1 DEF Terms
<1>5. Terms(req).generic <=> req.method \in BasicRequests
  BY DEF Terms
<1>6. InForce' = InForce \/ (InForce' = Lost /\ ~Terms(req).generic)
  <2>1. CASE h = "basic"
    BY <1>1, <2>1 DEF InForce
  <2>2. CASE h # "basic"
    BY <1>1, <1>5, <2>2 DEF InForce
  <2> QED BY <2>1, <2>2
<1>7. Terms(req).generic /\ InForce # Lost => Ran' \subseteq {InForce}
  <2>1. SUFFICES ASSUME Terms(req).generic, InForce # Lost PROVE Ran' \subseteq {InForce}
    OBVIOUS
  <2>2. since = {} /\ InForce = named /\ h = "basic"
    BY <1>5, <2>1, InForceNamed
  <2>3. used' \subseteq {named'}
    BY <1>1, <1>5, <2>1, <2>2 DEF SessionInv, TableInv, BasicRunsOnNamedTable
  <2> QED BY <1>1, <2>2, <2>3 DEF Ran
<1>8. Ran' \in SUBSET AllTables
  BY DEF SessionInv, TypeOK, Ran
<1>9. Client!Break(FALSE, Ran')
  BY <1>2, <1>3, <1>4, <1>6, <1>7 DEF Client!Break, Client!RunsInForce, Client!MayLose
<1> QED BY <1>8, <1>9 DEF Client!Next

\* An event request without @asis leaves its own table behind, and is not generic.
LEMMA FallThroughLoses == ASSUME SessionInv, EventFallsThrough PROVE Client!Lose
<1>1. /\ pc = "event" /\ pc' = "reply" /\ req' = req /\ named' = named
      /\ since' = since \cup {"legacy_event"}
  BY DEF EventFallsThrough
<1>2. Phase = "serving" /\ Phase' = "serving"
  BY <1>1 DEF Phase
<1>3. Ended' = Ended /\ Terms(req)' = Terms(req)
  BY <1>1, <1>2 DEF Ended, Terms
<1>4. InForce' = Lost
  BY <1>1 DEF InForce
<1>5. ~Terms(req).generic
  BY <1>1, OnlyItsOwnHandler DEF SessionInv, Handlers, TableInv, RightHandler, Terms,
     HandlerOf
<1> QED BY <1>2, <1>3, <1>4, <1>5 DEF Client!Lose, Client!MayLose

\* The end of a handler puts the table back, or there was none when it started.
LEMMA FinishKeepsOrLoses ==
    ASSUME SessionInv, Finish PROVE Client!Lose \/ UNCHANGED Client!vars
<1>1. /\ pc = "finish" /\ pc' = "reply" /\ req' = req /\ named' = named
      /\ since' = since \/ (req.method \notin BasicRequests /\ since' = since \cup {"unnamed"})
  BY DEF Finish
<1>2. Phase = "serving" /\ Phase' = "serving"
  BY <1>1 DEF Phase
<1>3. Ended' = Ended /\ Terms(req)' = Terms(req)
  BY <1>1, <1>2 DEF Ended, Terms
<1>4. CASE since' = since
  <2>1. InForce' = InForce
    BY <1>1, <1>4 DEF InForce
  <2> QED BY <1>2, <1>3, <2>1 DEF Client!vars
<1>5. CASE req.method \notin BasicRequests /\ since' = since \cup {"unnamed"}
  <2>1. InForce' = Lost /\ ~Terms(req).generic
    BY <1>5 DEF InForce, Terms
  <2> QED BY <1>2, <1>3, <2>1 DEF Client!Lose, Client!MayLose
<1> QED BY <1>1, <1>4, <1>5

\* The work of every handler is hidden, loses the table or breaks off.
LEMMA WorkIsOfTheSession ==
    ASSUME SessionInv, SessionInv', Work PROVE [Client!Next]_(Client!vars)
<1>1. CASE EventFallsThrough
  BY <1>1, FallThroughLoses DEF Client!Next
<1>2. CASE BasicThrows
  <2>1. PICK ts : HandlerThrows("basic", tableName, ts)
    BY <1>2 DEF BasicThrows
  <2>2. req.method \in BasicRequests
    BY <2>1, OnlyItsOwnHandler DEF HandlerThrows, SessionInv, Handlers
  <2> QED BY <2>1, <2>2, ThrowBreaks DEF Handlers
<1>3. CASE AnalyticThrows \/ VMSThrows
  <2>1. PICK h, t, ts : h \in {"analytic", "vms"} /\ HandlerThrows(h, t, ts)
    BY <1>3 DEF AnalyticThrows, VMSThrows
  <2>2. req.method \notin BasicRequests
    BY <2>1, OnlyItsOwnHandler DEF HandlerThrows, SessionInv, Handlers
  <2> QED BY <2>1, <2>2, ThrowBreaks DEF Handlers
<1>4. CASE ~(EventFallsThrough \/ BasicThrows \/ AnalyticThrows \/ VMSThrows)
  BY <1>4, WorkIsHidden
<1> QED BY <1>1, <1>2, <1>3, <1>4

\* The echo of a unique pair "status" makes the answer throw.
LEMMA ReplyThrowsBreaks == ASSUME SessionInv, ReplyThrows PROVE Client!Next
<1>1. /\ pc = "reply" /\ pc' = "escaped" /\ req' = req
      /\ UNCHANGED <<named, since, used, done>>
  BY DEF ReplyThrows, history
<1>2. Phase = "serving" /\ Phase' = "broken"
  BY <1>1 DEF Phase
<1>3. Terms(req)' = Terms(req) /\ InForce' = InForce /\ Ran' = Ran
  BY <1>1 DEF Terms, InForce, Ran
<1>4. Ended' = [done |-> done, said |-> "nothing", ran |-> Ran]
  BY <1>1, <1>2, <1>3 DEF Ended
<1>5. ~Answerable(req)
  BY <1>1 DEF ReplyThrows, Echoed, Answerable, SessionInv, AnswerInv, AnswerRight
<1>6. Terms(req).malformed
  BY <1>5 DEF Terms
<1>7. Terms(req).generic /\ InForce # Lost => Ran \subseteq {InForce}
  BY <1>1, RanInForce
<1>8. Client!Break(done, Ran)
  BY <1>2, <1>3, <1>4, <1>6, <1>7 DEF Client!Break, Client!RunsInForce, Client!MayLose
<1>9. done \in BOOLEAN /\ Ran \in SUBSET AllTables
  BY RanPlaces DEF SessionInv, TypeOK
<1> QED BY <1>8, <1>9 DEF Client!Next

LEMMA ReplyAnswers == ASSUME SessionInv, SessionInv', Reply PROVE Client!Next
<1>1. /\ pc = "reply" /\ pc' = "sent" /\ req' = req
      /\ UNCHANGED <<named, since, used, done>>
  BY DEF Reply, history
<1>2. Phase = "serving" /\ Phase' = "answered"
  BY <1>1 DEF Phase
<1>3. Terms(req)' = Terms(req) /\ InForce' = InForce /\ Ran' = Ran
  BY <1>1 DEF Terms, InForce, Ran
<1>4. Ended' = [done |-> done, said |-> out'.status, ran |-> Ran]
  BY <1>1, <1>2, <1>3 DEF Ended
<1>5. out'.status \in {"true", "false"}
  <2> DEFINE o == Echoed(out, req)
  <2>1. o \in Answers
    BY EchoedType DEF SessionInv
  <2>2. /\ o.status # "text"
        /\ out' = [o EXCEPT !.status = "false"] \/ (out' = o /\ o.status # "absent")
    BY DEF Reply
  <2> HIDE DEF o
  <2> QED BY <2>1, <2>2 DEF Answers
<1>6. out'.status = "true" => done \/ Terms(req).untold
  <2>1. out'.status = "true" /\ req.method \notin UnsetStatus => done
    BY <1>1 DEF SessionInv, AnswerInv, TrueMeansDone
  <2>2. Terms(req).untold <=> req.method \in UnsetStatus
    BY DEF Terms
  <2> QED BY <2>1, <2>2
<1>7. Terms(req).generic /\ InForce # Lost => Ran \subseteq {InForce}
  BY <1>1, RanInForce
<1>8. Client!Answer(done, out'.status, Ran)
  BY <1>2, <1>3, <1>4, <1>6, <1>7 DEF Client!Answer, Client!RunsInForce
<1>9. done \in BOOLEAN /\ Ran \in SUBSET AllTables
  BY RanPlaces DEF SessionInv, TypeOK
<1> QED BY <1>5, <1>8, <1>9 DEF Client!Next

LEMMA NothingsTerms == Terms(Nothing) = Client!NoRequest
<1>1. (IF NamesTable(Nothing) THEN Nothing.table ELSE NoTable) = NoTable
  BY DEF Nothing, NamesTable, NoRequest
<1>2. /\ (Nothing.method \in BasicRequests) = FALSE
      /\ (Nothing.method \in UnsetStatus) = FALSE
  BY DEF Nothing, NoRequest, BasicRequests, UnsetStatus
<1>3. (~Answerable(Nothing)) = FALSE
  BY DEF Nothing, Answerable
<1> QED BY <1>1, <1>2, <1>3, Zenon DEF Terms, Client!NoRequest

LEMMA CallbackEnds == ASSUME SessionInv, CallbackReturns PROVE Client!End
<1>1. pc \in {"sent", "escaped"} /\ pc' = "idle" /\ req' = Nothing /\ UNCHANGED <<named, since>>
  BY DEF CallbackReturns
<1>2. Phase \in {"answered", "broken"} /\ Phase' = "idle"
  BY <1>1 DEF Phase
<1>3. InForce' = InForce /\ Ended' = Client!NoOutcome
  BY <1>1, <1>2 DEF InForce, Ended, Client!NoOutcome
<1>4. Terms(req)' = Client!NoRequest
  BY <1>1, NothingsTerms DEF Terms
<1> QED BY <1>2, <1>3, <1>4 DEF Client!End

LEMMA DeathEndsTheSession == ASSUME SessionInv, ProcessDies PROVE Client!ProcessDies
<1>1. /\ pc = "escaped" /\ pc' = "dead" /\ UNCHANGED <<req, named, since, used, done>>
  BY DEF ProcessDies, history
<1>2. Phase = "broken" /\ Phase' = "over"
  BY <1>1 DEF Phase
<1>3. Terms(req)' = Terms(req) /\ InForce' = InForce /\ Ran' = Ran
  BY <1>1 DEF Terms, InForce, Ran
<1>4. Ended' = Ended
  BY <1>1, <1>2, <1>3 DEF Ended
<1> QED BY <1>2, <1>3, <1>4 DEF Client!ProcessDies

LEMMA SessionInit == Init => Client!Init
<1> SUFFICES ASSUME Init PROVE Client!Init
  OBVIOUS
<1>1. Phase = "idle" /\ InForce = NoTable
  BY DEF Init, Phase, InForce
<1>2. Ended = Client!NoOutcome
  BY <1>1 DEF Ended, Client!NoOutcome
<1>3. Terms(req) = Client!NoRequest
  BY NothingsTerms DEF Init
<1> QED BY <1>1, <1>2, <1>3 DEF Client!Init

\* Every step of the service is one of the session, or does not show in it.
LEMMA SessionStep ==
    SessionInv /\ SessionInv' /\ [Next]_vars => [Client!Next]_(Client!vars)
<1> SUFFICES ASSUME SessionInv, SessionInv', [Next]_vars PROVE [Client!Next]_(Client!vars)
  OBVIOUS
<1>1. ASSUME NEW r \in Requests, Receive(r) \/ ReceiveMistyped(r) PROVE Client!Next
  BY <1>1, TermsType, ReceiveAsks, MistypedIsDropped DEF Client!Next
<1>2. CASE Work
  BY <1>2, WorkIsOfTheSession
<1>3. CASE Finish
  BY <1>3, FinishKeepsOrLoses DEF Client!Next
<1>4. CASE ReplyThrows \/ Reply
  BY <1>4, ReplyThrowsBreaks, ReplyAnswers
<1>5. CASE CallbackReturns \/ ProcessDies
  BY <1>5, CallbackEnds, DeathEndsTheSession DEF Client!Next
<1>6. CASE UNCHANGED vars
  BY <1>6 DEF vars, history, answer, Client!vars, Phase, InForce, Ended, Ran, Terms
<1> QED BY <1>1, <1>2, <1>3, <1>4, <1>5, <1>6 DEF Next, Serve

\* For every set of tables the service is a session to its clients: whatever requests
\* come in whatever order, generic ones run on the table in force, only malformed ones
\* go without an answer, and an answer of true means done where the failure is told.
THEOREM ServiceIsASession == Spec => ImplementsSession
BY SessionInit, SessionStep, SessionInvAlways, PTL DEF Spec, ImplementsSession, Client!Spec
====
