# A verification development of mtp-tiny-database-client

The program is a service that stands between a message transport and a database.
Clients send JSON requests ("addNewRecord", "analyticsRegister",
"archive-event-cctv@asis", ...); the service turns each into SQL statements over
one PostgreSQL or SQLite session and answers with JSON. This directory holds TLA+
modules for the parts of it that decide something, the TLC configurations that
check them on small instances, and TLAPS proofs of what can be said for every
instance. All of it is translated from the code; `PROJECT.json` names the lines
each definition stands for.

How to run it, in this directory:

    tlasany M.tla                      parse a module
    tlc -workers 2 -config X.cfg M     check a run (the pairs are listed below)
    tlapm M_proofs.tla                 check the proofs of a component

## 1. The system

### Components

| Component | State | Operations |
|---|---|---|
| `main.cpp` | `s_isWorking`, the thread of the logger, the objects it owns | arguments, construction, `sigStop`, destruction in order |
| `DBMainManager` | threads of the configuration monitor, the transport server and the watchdog; `m_newParams`, `m_currParams`; `m_transportServer`, `m_reqParser`, `m_watchDogWorker`, `m_wdClient` | `startMonitoringConfig`, `startProcess`, `parseConfig`, the transport callback, destructor |
| `RequestParser` | four handlers, one database client | `slotRequestProc`: dispatch, echo of the request's fields, final status |
| `DataProcessingBasic` | none of its own | update, delete, deleteLayout, addNewRecord, getAll |
| `DataProcessingAnalytic` | none | analyticsRegister, metaData2Db, getEmbeddingInfo |
| `DataProcessingEvent`, `EventBase`, `EventsModelCCTV` | none | realtime and archive events, with and without `@asis` |
| `DataProcessingVMS` | none | read-archive, archive-timeline-cctv |
| `SOCIDBClient`, `PostgreSQLClient`, `SQLite3Client` | the session, `m_tableName` (the *current table*) | createTable, addNewColumn, insertRow, updateColumn, deleteRow, getFilterRow, getTimeLine, checkConnectToDB |
| outside the repository | transport library, logger, configuration manager, watchdog client, SOCI, the database | called by the above; modelled by what the code expects of them |

### How they interact

The transport server runs on a thread of its own and calls
`RequestParser::slotRequestProc` once per message. The call goes synchronously
through one handler to the database client and back; there is no queue and no
second request at a time in one process. Three things outlive a request:

* the **current table** `m_tableName`, shared by all handlers;
* the **database**, shared with every other instance of the service (and
  with anybody else who writes it);
* the **connection**, which every operation of the client checks first and opens again.

Four more threads (logger, configuration monitor, transport server, watchdog) and
the signal handler share one flag, `s_isWorking`.

### What is hard here, and what makes each part correct

* **Request dispatch.** A handler moves the current table for its own statements
  and has to put it back on *every* way out: normal end, early return, exception. A
  request that names no table depends on it. An answer "true" must mean that the work
  was done, and every request that is well formed must get an answer.
* **Writing.** `insertRow` decides between INSERT and UPDATE by a SELECT,
  createTable by a list of table names, the dynamic columns by a list of columns; each
  statement commits on its own. Another instance, a broken connection, a stopped server
  or a dead process may come between any two of them. A key must not get a second row,
  an acknowledged record must be in the table, a broken connection must cost no more
  than the record it hit.
* **Registration and events.** `registerAnalytics` deletes before it adds, on a table that
  other instances write too and that has no constraint. The events of several analytics
  are collected type by type and table by table under one status, while the registry
  changes. An acknowledged registration must not get lost, an answer "true" must not hide
  what a client asked for.
* **Reading.** Filters are put together from text and taken apart again by looking for
  words in it; a limit is added when the text has none. A client that polls for new events
  has nothing but the time of the last one. Time lines are merged by a window query over
  rows that arrive late.
* **Life cycle.** `startProcess` returns early in several places, with threads running
  that use what `main` is about to delete. No thread may outlive its objects, and a
  stop signal must end the process.

The `hazards` of `PROJECT.json` list these one by one, at the line where each bites and
with the properties that would catch it.

## 2. The modules

| Module | Extends | What it is |
|---|---|---|
| `ErrStatus` | | the status codes of `IDbClient.h` and which of them count as failures |
| `RequestParser` | `ErrStatus` | one request after another through dispatch, handler, decision and reply |
| `Session` | | abstract: what the clients of the service may count on, request after request |
| `ClientSession` | `RequestParser` | the refinement mapping: `RequestParser` implements `Session` |
| `RecordWriter` | | addNewRecord, update and delete statement by statement, several writers, faults |
| `KeyedStore` | | abstract: what one instance promises the clients of a keyed table |
| `SharedStore` | | abstract: what several instances make of one keyed table they all write |
| `SharedRecords` | `RecordWriter` | the refinement mapping: `RecordWriter` with any number of writers implements `SharedStore` |
| `RecordStore` | `SharedRecords` | the refinement mapping: `RecordWriter` with one writer implements `KeyedStore` |
| `Registration` | | analyticsRegister statement by statement, several instances, faults, comments |
| `EventQuery` | `ErrStatus` | archive-event-cctv@asis and archive-timeline-cctv over a registry that changes |
| `Queries` | | filters, limits and orders of every reading request, and a client that polls |
| `Timeline` | | the frames `getTimeLine` merges out of recordings |
| `Lifecycle` | | main, startProcess, four threads, signals, destructors |
| `MCRecordWriter`, `MCRecordStore`, `MCRegistration`, `MCEventQuery`, `MCQueries`, `MCTimeline` | the module they are named after | the requests, rows and symmetries TLC runs it on |
| `RequestParser_proofs`, `RecordWriter_proofs`, `RecordStore_proofs`, `Registration_proofs`, `EventQuery_proofs`, `Queries_proofs`, `Timeline_proofs`, `Lifecycle_proofs` | the module they are named after | theorems for every value of its constants |

How they fit together. `RequestParser` and the others are the two halves of one path, cut
at the interface `IDbClient` and below the handlers: `RequestParser` keeps the control
above and takes any status an operation may return; the other modules keep the statements
below and say which status comes when. The table `RecordWriter` writes is the current
table of `RequestParser`; `BasicRunsOnNamedTable` says that it is the one the client
named. `ClientSession` composes `RequestParser` with its abstract specification, `SharedRecords`
and `RecordStore` compose `RecordWriter` with its two. `Registration`
takes of addNewRecord the statements on rows, the INSERT or the SELECT by the request's
unique pair and what follows it, and leaves those on tables and columns to `RecordWriter`;
the registry it keeps is the one `EventQuery` looks analytics up in; `EventQuery` takes the
ranges of a time line as one statement, which is `Timeline`, and the filters of its
SELECTs as their result, which is `Queries`.

### RequestParser

State: `tableName` is `SOCIDBClient::m_tableName`; `lastUsedTable`, `retErr` and
`pack` are the locals of `doWorkByRequest`; `out` is the answer under construction, of
which only "status" and "error" are kept; `pc` is where the transport thread
is. `named`, `since`, `used`, `done` are history: the table a client named last, which
of three hazards occurred since, the tables statements ran on, and whether the
work was done.

| Action | Code |
|---|---|
| `Receive`, `ReceiveMistyped` | `slotRequestProc` up to the call of the handler |
| `BasicModify`, `BasicAddNewRecord`, `BasicGetAll`, `BasicThrows` | `DataProcessingBasic` |
| `AnalyticsRegister`, `MetaData2Db`, `GetEmbeddingInfo`, `AnalyticThrows` | `DataProcessingAnalytic` |
| `EventWork`, `EventFallsThrough` | `DataProcessingEvent`, `EventBase`, `EventsModelCCTV` |
| `ReadArchive`, `ArchiveTimeline`, `VMSThrows` | `DataProcessingVMS` |
| `Finish` | the end of `doWorkByRequest`: decision, restored table, conversion |
| `Reply`, `ReplyThrows` | the end of `slotRequestProc` |
| `CallbackReturns`, `ProcessDies` | the transport library, after an answer or an exception |

A request is its method, whether and which table it names, what its unique pair is
called (the name "status" and the name "error" matter, since the pair is echoed into
the answer), and whether a field has the wrong JSON type, which makes
`nlohmann::json::value()` throw; a field of a row the request reads counts as one of its
own. Where the field is decides when it throws: before the table is set ("envelope"), in
the handler ("body"), or after it, when the answer is all but sent ("magic", the word a
client recognizes its answers by). The value of a `bool` nobody has set
(`answerOnRequest_t::status`) is a nondeterministic choice, `junk`.

### Session and ClientSession

`Session` is the service without handlers, statements and saved tables: a table in force
(`inForce`), a request in hand, and how it ended (`outcome`: done or not, the status answered,
the tables a generic request ran on). A request comes (`Ask`, or `Drop` when it fails before
its table is read), may lose the table in force if it is not a generic one (`Lose`), and is
answered (`Answer`) or, if malformed, ends in an exception (`Break`). `Answer` and `Break` carry
the promises: a generic request ran on the table in force, unless that has been lost, and
"true" means done unless the method is one whose failures are not told.

`ClientSession` maps `RequestParser` to it: `Terms` is a request as its client sees it,
`InForce` the name given last, or `Lost` once `since` records a hazard; the state of the
current table while a handler moves it does not show. `Phase` and `Ended` come from `pc`. The
work of a handler is a stutter unless it throws or falls through; so is its end, unless
there was no table to put back.

### RecordWriter

A writer is one instance of the service. `pc` is the statement it is about to run,
`checked` whether `checkConnectToDB` has passed for the operation in hand,
`rec` the record with the key in force (`uniqName`/`uniqValue`, which the array loop
passes by reference), `queue` the rest of "toWrite", `todo` the columns still to add or
to set, `statusOK` the status that will be the answer. The database is `created`,
`columns`, `rows` and the identity counter `nextIdx`; a row carries the writer whose
INSERT made it, for the properties only.

Each statement has a *fate*: executed and answered, executed with the
answer lost, or not executed because the connection is broken. Connections break, the
server stops and starts, a process dies and is started again, at any point. The
actions follow `addNewRecord` -> `putValueInTable` (`ReadNames`, `CreateTable`,
`ListExistColumns`, `AddNewColumn`) -> `insertRow` (`SelectKey`, `Insert`,
`Overwrite`), `update` -> `updateColumn` (`SelectForUpdate`, `UpdateColumn`) and
`delete` -> `deleteRow` (`SelectForDelete`, `DeleteRow`).

### SharedStore and SharedRecords

`SharedStore` says how far several instances may disturb each other. `store` gives each key
and each client the values of the row that client added, or `Absent`. A write is two steps:
it looks whether anybody has a row with the key (`LookForKey`, `Find`), and acts later on
what it saw (`Insert`, `Overwrite`, `SetColumn`, `Delete`), the others looking and writing
in between. Hence a client may add a row beside another's, and one that saw a row may
change none and be answered true. What is left is the promise: a client adds no row beside
one of its own (`Insert` demands `Absent`), a write reaches every row its key has by then,
whoever added it, and none of another key, and no answer is true unless the last write was
carried out.

`SharedRecords` maps `RecordWriter` to it: `SharedAt` is the one row of a key that came from
a writer's INSERTs (`Twice`, which is no value of a store, if there are two),
`SharedPoint`, `SharedWork` and `SharedLeft` come from `pc`, `queue`, `rec` and `todo`.
Naming tables, creating and growing them and the connections are stutters; an operation
that finds no connection is a `Refuse`.

### KeyedStore and RecordStore

`KeyedStore` is what a client may count on, without statements and connections: `store`
gives each key the values of its columns or `Absent`, and a step decides one record
(`Write`, `Refuse`), one deletion (`Remove`, `Refuse`) or one column of an update
(`SetColumn`, `RefuseColumn`), whole and once; `ok` is the answer, which is the status of
the last step. A write may be answered false, since answers get lost; it is never answered
true without having been made.

`RecordStore` maps `RecordWriter` to it: `Stored` is the value of the one row with the key
(`Twice`, which is no value of a store, if there are two), `Doing`, `Unwritten` and `Unset`
come from `pc`, `queue`, `rec` and `todo`. Creating the table, growing it, checking the
connection and the SELECT before a write are stutters. The abstract step is the one
statement that writes.

### Registration

`rows` and `nextIdx` are the table `registeredanalytics`. Each instance has `pc`, `req`,
`todo` (the rows listed and not yet deleted, as they were read), `inHand`, `saveComment`
and `statusOK`, the locals of `registerAnalytics`. History: `whole` (the listing returned
everything), `blind` (keys registered without a whole listing, or given to several rows at
once), `last` (the rows last acknowledged for a key), `noted` (the comments a key may have).

`registerAnalytics` hands the client's JSON to `addNewRecord`, and that takes "unique-name"
and "unique-value" from it. With such a pair the new registration is no INSERT but an UPDATE
of every row the pair names, if there is one: rows of other proxies, with "module_name" as
the name. The rows keep their idx and become the registration of the sender. `Touches` are
the keys a request may change, by its module and proxy or by its pair; a pair over a column
the model does not keep ("other") may name any rows, one over a column the table does not
have ("unknown") fails.

| Action | Code |
|---|---|
| `Begin` | the fields of the request, `proxy_ip` and the sender's address |
| `List` | `getFilterRow` over module and proxy, with its limit |
| `SelectRow`, `DeleteRow` | `deleteRow` by idx for each listed row, with the early return |
| `Insert` | `insertRow` of the new registration with the comment saved, without a unique pair or when no row has it |
| `SelectPair` | `insertRow`, the SELECT by the unique pair |
| `Overwrite` | `insertRow`, the UPDATE of every row that has the pair by then, which may be none |
| `Return`, `Die` | the answer; the process dies and starts again |
| `SetComment` | another client's update of a comment |

### EventQuery

`registry`, `nextIdx` and `contents` (what the filters of the request find in each table)
are the database; `next`, `infoAboutAns`, `retErr`, `data` and `error` are the locals of
`getInfoByTypes` and `getDiffCCTVAnalyticEventsAsis`; `ok` and `shown` are the answer, of
which only the types of the events are kept. History: `due`, the analytics that were
registered, enabled and had events all the while; `live`, those that were registered and
enabled at some moment; `unread` and `cut`, lookups that failed
or were cut at the limit; `lost`, the analytics whose own table could not be read. A time
line asks for events itself, of every camera and without "union-types".

| Action | Code |
|---|---|
| `GetTimeLine` | `archiveTimeline` up to its call for events |
| `FillAll`, `FillOne`, `TypeThrows`, `NoTypes` | `getInfoByTypes` for `["*"]`, for one type, for a type that is no number, for `[]` |
| `ReadTable` | one turn of the loop over the analytics found |
| `Decided`, `Thrown` | what the two callers make of the status, the error text and an exception |
| `Unregister`, `Reregister`, `Toggle`, `SetContents` | other instances and modules |

### Queries

A table of `rows`; `req`, `ran` and `shown` are the last request and its answer; `since`,
`seen` and `late` belong to a client that polls with the time of its last event. A filter
is a set of conditions, an order and a limit; a condition is the rows it keeps and what
`filterToStr` finds in its text (LIMIT or ORDER BY in the key of a comparison, LIMIT
elsewhere, no SQL at all). Three texts of a client are pasted into the statement as they
are: the unique-name of getAll, the direction ("order"), and a condition that is more than
a comparison. Where such a text is no column and no direction, the condition is the client's
`Own`: the statement fails, or shows any rows, within the limit if the text cannot have
hidden it. `EventFilters`, `KeyFilters`, `AllFilters` and `ArchiveFilters` are the filters of
the handlers; `Sound`, `RowLimit` and `Answers` are `filterToStr` and what the statement it
makes returns. `Store` adds a row, `AskOnce` is any request, `AskForNew` the poll.

### Timeline

`recordings` are the rows of one camera in `archivewriter`; `Record` and `Finish` add one
and write its end, in any order. The query is a definition, `Frames`: `Selected` is its
WHERE, `IsStep` the `lag` over begins, `Grp` the running count of steps, `Groups` the
partition, `Opening` and `Closing` the two `FIRST_VALUE`s (descending order puts NULL first),
and `FramesOf` the `SELECT DISTINCT`. Its LIMIT of 100000 frames is left out.

### Lifecycle

`main` goes through named stages, those of `startProcess` and of the destructors
included; a thread is in the head or the body of `while(*p_isWorking)`, or ended;
`Uses` says which objects a thread's body and its callbacks reach; `freed` is what has
been deleted. `MayFail` chooses the parts of the start that may fail. `SigStop` may
come at any moment; the fourth signal calls `exit`.

## 3. The runs

| Run | Module, configuration | Question |
|---|---|---|
| `request_parser` | `ClientSession`, `RequestParser.cfg` | Which table do requests run on, what do answers mean, is every well-formed request answered, what session do clients see? |
| `unset_status` | `RequestParser`, `RequestParserFailure.cfg` | Is a failure reported as one? **No** |
| `writer_single` | `MCRecordWriter`, `RecordWriterSingle.cfg` | Is an acknowledged record in the table, after any faults? |
| `writer_race` | `MCRecordStore`, `RecordWriterRace.cfg` | Can two instances, faults and restarts give a key two rows of one writer? What store do the two share? Does every request come to an end? |
| `record_store` | `MCRecordStore`, `RecordStore.cfg` | Do clients of one instance see a keyed store, and what does a fault cost? |
| `create_race` | `MCRecordWriter`, `RecordWriterCreateRace.cfg` | Does a growing table take every record? **No** |
| `registration_race` | `MCRegistration`, `RegistrationRace.cfg` | What stays registered, how often, with which comment, and whose registration may a request take away? |
| `event_query` | `MCEventQuery`, `EventQuery.cfg` | What may an answer "true" leave out, what may no answer show? |
| `queries` | `MCQueries`, `Queries.cfg` | What does a polling client miss, what do words and limits do to an answer? |
| `timeline` | `MCTimeline`, `Timeline.cfg` | What do the merged frames show? |
| `lifecycle` | `Lifecycle`, `Lifecycle.cfg` | Use after delete, abort of a running service, end of a stopped one |
| `failed_start` | `Lifecycle`, `LifecycleFailedStart.cfg` | Does a failed start leave `main` in order? **No** |

### What the passing runs show

* `TableFollowsName`, `BasicRunsOnNamedTable`: the current table is the one named last,
  and generic requests run on it, *unless* a handler started with no table
  to put back, a legacy event request returned early, or an exception left a
  handler that is not generic. Each exception is needed: without it TLC finds a counterexample.
* `ImplementsSession`: the two above, and what answers mean, as one specification of the
  steps. The invariants say nothing of how a table is lost or found again: here only a request
  that is not generic can lose it, and only a request that names one brings it back.
* `TrueMeansDone`, `ErrorMeansFalse`: what an answer says is what happened, with the
  exceptions the definitions name.
* `AnswerableNeverThrows`, `AnswerableIsAnswered`: only a mistyped field, of the
  request or of a row it reads (a time line frame that has no end yet is one), or a unique
  pair called "status" keeps a request without an answer.
* `AcknowledgedIsThere`: with one writer, "true" for a record means all its cells are in
  one row, whatever faults came before. (With several writers another one may delete it
  before the answer is out, so this is asked of one writer.)
* `AtMostOneRowPerWriter`: a key has at most as many rows as there are instances; with
  one instance it is unique. Two rows for one key do occur with two writers.
* `ImplementsSharedStore`: several instances share a store; two rows for a key and writes
  into nothing are all they can do to each other, as `SharedStore` says.
* `ImplementsKeyedStore`: one instance is a keyed store, through all faults.
* `RequestsAdvance`: every step of a request at work brings it nearer its answer, by the
  measure `StepsLeft`, or begins a later record. No failure sends it back; there is no retry
  and no wait.
* `LinkLossCostsOneRecord`, `UpdateLosesOneColumnPerFault`: while the server stays up a
  fault costs at most one record, or one column of an update, also when it strikes in the
  middle of creating the table or a column. An update answers with the status of its last
  column, so "true" alone says nothing of the others; this is how much it can hide.
* `AcknowledgedStaysRegistered`: deleting before adding loses no acknowledged registration
  silently, unless a client asks for it: a request that covers the key is under way, or was
  answered false, or was one without `proxy_ip` that registered the module under another
  address, or one whose unique pair names the row. Such a pair does take the registrations
  of others, and they are not told. Two acknowledgements promise nothing from the start: of
  an UPDATE whose rows have gone since the SELECT, and of a row another instance has already
  listed for deletion.
* `OneRegistrationPerInstance`: two registrations of one key by the same instance are
  possible only after a listing that failed or was cut at the limit, or after a unique pair
  that named several rows, which all become that key.
* `CommentSurvives`: re-registration carries comments over; one is lost only if it is set
  while a registration is under way, or that of a registration which a request with a unique
  pair overwrites, and in the further cases the definition names.
* `RegistrationsOfOthersStay`: rows are deleted by an idx read earlier, while others delete,
  add, overwrite and comment. A registration still goes, or becomes another's, only while a
  request for its module and proxy is at work or one whose unique pair names it, or when such
  a pair made another's row of one already listed. It never changes its idx, which the events
  of the module carry.
* `AsisTrueIsComplete`: in spite of the one status for all tables, an `@asis` answer
  "true" leaves out nothing that was there all the while, unless a lookup failed.
* `TimelineLosesFailedTablesOnly`: a time line is answered "true" whichever tables of events
  failed. When the last one failed or was empty it has no events at all. When the last one
  gave some, a failed table costs its own events and no others.
* `ShownWasEnabled`: an analytics may be disabled or replaced between its lookup and the read
  of its table, and its events are shown all the same. Nothing is shown that was not asked
  for, or that was at no moment of the request registered, enabled and with a table.
* `PollMissesOnlyLateAndTied`, `NothingIsPolledTwice`: a polling client misses exactly the
  events it must be expected to miss, those stored too late and those with the same time
  as one it got.
* `NothingUnaskedIsShown`: the words LIMIT and ORDER BY in a value make a statement fail,
  not show more. This is so of values only: in the unique-name of getAll they make valid SQL
  without the condition. `LongAnswersAreAskedFor`: the ways round the default limit, which
  are the request's own limit, events, LIMIT in the value of a key or of an archive's
  filter, in a unique-name, and in a direction or condition of the client's own.
* `FramesDisjoint`, `PausesAreShort`, `MissedOnlyAtTheEdge`, `FramesOnlyGrow`: what a frame
  means, although frames are grouped by begins alone.
* `NothingUsedAfterDelete`, `ServiceNeverAborts`, `StopEnds`: see Lifecycle.

### Bounds, and why they are enough

* `RequestParser` is unbounded in length. `Tables` has a name that is also a handler's
  own table (`info_nodes`) and one that is not; `EventTables` one table. The handlers
  compare no two table names, so more of them add no behaviour.
* `RecordWriter`: three columns: the key, one the first record has, one it has not; two
  values. Two requests are what a repetition or a race takes, a third and fourth are the
  update or the delete that comes between; arrays of two records have a middle.
  `writer_single`: `MaxRequests` 4, `MaxFaults` 2, a table that does not grow, more tables
  than the listing reads, outages, requests of every form. `writer_race`: two writers, 3
  requests, 1 fault, outages; the writers are symmetric (no property there tells them
  apart). `record_store`: 4 requests, 3 faults, keyed requests; no outages, because a server
  that stays away refuses any number of records for one fault. `create_race`: 2 requests,
  no faults, and the violation is there.
* `Registration`: two instances, one module from two proxies, 4 requests, 1 fault, 1
  comment, and a listing cut at 2 rows. The requests: each proxy, none, no module, a unique
  pair that names every row of the module, one that may name any rows, one that fails. Two
  requests race, the third finds what they left doubled, the fourth is the one that heals
  it; three rows for a module are reached, so the cut happens. One fault separates a
  deletion from the row that should follow, makes one listing fail, or loses one answer; a
  request ends at its first fault, except for a listing, and a second request can have no
  worse start than the rows a first one leaves.
* `EventQuery`: a registry of three analytics, one without a table; one request, since
  nothing but the database outlives it; two failures and two changes, as a property about
  the order of tables needs one before and one after; a listing cut at 2 of 3.
* `Queries`: up to three rows, and `DefaultLimit` 1 < `MaxLimit` 2 < 3 rows stands for
  300 < 100000 < a full table. Two of the four contents have the same time. The requests
  use every operator, order and form of the handlers, and every kind of text of the
  client's own.
* `Timeline`: three recordings over eight moments with lengths up to 3 and a gap of 2: some
  run past the gap, some nest, three are what it takes to join two frames. Three periods:
  all, the middle, the wrong way round.
* `Lifecycle`: signals are bounded by the code itself (`cntRepeat > 3` exits).

The largest run, `registration_race`, has some 2.6 million states; `writer_race`,
`event_query`, `request_parser` and `record_store` have 488, 477, 316 and 117 thousand.

Deadlock checking is off where the system really stops: after the process died, after
the bound on requests, after `main` has returned. `queries` checks it.

### Fairness

* `RequestParser`: `WF_vars(Serve)`. The transport thread goes on with a request it has
  begun; statements return. Nothing makes a client send a request, and nothing
  makes the process survive an escaped exception.
* `Lifecycle`: weak fairness of `Main` and of each thread's loop, that is, the operating
  system schedules every thread and loop bodies return. No signal is forced.
* The others: none; they have safety properties only. That a writer's request ends is stated
  without fairness: `RequestsAdvance` gives a measure each of its steps lowers.

### Findings

The violation runs each check one statement of the repository that the code
does not keep; `findings` in `PROJECT.json` quotes both.

1. `unset_status`: a failed update, delete or getAll may be answered "true":
   `answerOnRequest_t::status` is read without having been set.
2. `create_race`: when two instances create the same table, the second adds no columns and
   its record is refused.
3. `failed_start`: when the transport server cannot be created, the process ends in
   `std::terminate` because the thread of the configuration monitor is still joinable.

Other behaviour the models contain and that may surprise, without a run of its own:

* `realtime-event-cctv` and `archive-event-cctv` are listed as supported
  (`DataProcessingEvent.h:30-36`), served, and then answered as unknown, because the second
  condition is an `if` without `else`; the early return leaves the current table on an
  analytics table (`DataProcessingEvent.cpp:38`).
* The status of an array of records is that of its last record
  (`DataProcessingBasic.cpp:203`, `220`), and a record without a key inherits the key of
  the one before it (`DataProcessingBasic.cpp:219`, `285`) and overwrites that row. Both
  are in `KeyedStore` and `RecordWriter` as they are.
* A failed listing of the registry counts as "nothing registered"
  (`DataProcessingAnalytic.cpp:182`), so the module is registered twice.
* `analyticsRegister` with "unique-name" and "unique-value" overwrites every row the pair
  names (`DataProcessingAnalytic.cpp:195`, `206`, `DataProcessingBasic.cpp:188-192`,
  `SOCIDBClient.cpp:440-467`): registrations and comments of other proxies become those of
  the sender, several rows may become the same key, and an UPDATE whose rows have gone since
  the SELECT is acknowledged. `Registration` has it, and its properties except it.
* The events of a time line are lost without a word when the last table of the list cannot
  be read or has none (`DataProcessingVMS.cpp:190-195`): its error text stays in the inner
  answer, and the time line is answered "true" without any event.
* An unknown type at the end of the list denies the known ones before it
  (`DataProcessingEvent.cpp:110`, `277`).
* An UPDATE that finds no row any more, since another writer deleted it after the SELECT,
  is acknowledged (`SOCIDBClient.cpp:382`).
* `readArchive` asks for an order that never reaches the statement: the direction is the
  value of its filter (`DataProcessingVMS.cpp:93`), which is not written
  (`SOCIDBClient.cpp:84-86`).
* getAll by key is cut at 300 rows, although it logs "Get info about all rows"
  (`DataProcessingBasic.cpp:102`); the word LIMIT in the value of the key lifts the cut.
* The unique-name of getAll is a part of the statement (`DataProcessingBasic.cpp:100-102`):
  one with LIMIT or ORDER BY in it leaves WHERE, its value is dropped
  (`SOCIDBClient.cpp:84-91`), and the statement is valid SQL that shows the table, for
  "SPEED_LIMIT" and "LIMIT n" without the default limit. With an empty value the name stands
  alone in WHERE. The direction of getAll and of the event requests is pasted in too
  (`DataProcessingBasic.cpp:114-117`), so that it may bring a LIMIT of its own, past the
  default and MAX_LIMIT.

## 4. The proofs

TLC checks one instance; TLAPS proves the following for every value of the constants,
under the named assumptions of the modules only. Three things are beyond the prover and
stay with TLC: liveness and ENABLED; induction over data, whose library theorems take an
operator as parameter; and RECURSIVE operators, which no module here
needs.

**RequestParser_proofs.** `TableFollowsName` is not inductive: in the middle of a handler
the current table is wherever the handler put it. `TableInv` adds what holds there: the
table saved before the work is the one named (`SavedTable`), a request is with the
handler of its method (`RightHandler`), generic handlers do not move the table, and
nothing has been used between requests (`NothingUsedYet`). Work goes through two
operators, `WorkDone` and `HandlerThrows`, so the induction is over those two lemmas,
`Finish`, and the actions that do not touch the table. Theorems:
`CurrentTableIsNamedTable`, `GenericRequestsRunOnNamedTable`.

`RequestsTypeCorrect` is the type invariant, which is inductive as it stands. The answers
need more: `TrueMeansDone` speaks of a request that has been answered, and what makes it
true is settled two steps earlier. `AnswerInv` adds `DecisionRight` (when the decision
about to be taken is true, the work was done or the method leaves its status unset) and
`AnswerRight` (the answer a handler hands over has a Boolean status, and is not true with
an error). The work of every handler is then one of three kinds: it takes its status
from the store (`StatusOfTheWork`), it gave up (`NothingDone`), or it leaves the status
unset. Theorems: `TrueIsDone`, `ErrorIsFalse`, `OnlyBadFieldsEscape`.

`ServiceIsASession` is the refinement, for every set of tables that leaves a value for `Lost`.
Its invariant, `SessionInv`, conjoins the three above with `NothingDoneYet`, in this state and
the next: a request that throws in the middle of its work keeps the promise of `Break` by what
`BasicRunsOnNamedTable` says of the state it throws into. One lemma per kind of step: the work
that goes on is hidden (`WorkIsHidden`), an exception breaks off (`ThrowBreaks`,
`ReplyThrowsBreaks`), the fall through loses the table (`FallThroughLoses`), the end of a
handler loses it or is hidden (`FinishKeepsOrLoses`).

**RecordWriter_proofs.** `TypeOK` is not inductive either: what `UpdateColumn` writes is a
value only because the column is one its request gives, so `TypeInv` adds
`SetsGivenColumns`. `TypeCorrect` is the type invariant for every set of writers,
columns, values and requests. `OneRowPerWriter` is `AtMostOneRowPerWriter` for all
of them, under `KeyedRequests` (every record brings its key and carries it in its key
column, no update changes that column). Its invariant `KeyInv` says of every thread that the
records it holds bring their keys (`ThreadKeyed`) and of a writer about to INSERT that
it has no row with the key (`NoRowYet`). The argument: the SELECT establishes
`NoRowYet`; between it and the INSERT only other writers step, and no statement of
theirs makes a row in this writer's name or gives one of its rows another key
(`OthersKeepKeys`, proved for INSERT, UPDATE and DELETE apart).

`WritersShareAStore` is the refinement for any number of writers, under `KeyedRequests`. Its
invariant, `SharedInv`, is `TypeInv`, `KeyInv` and, of each thread, `ThreadReady`: one
without a request holds no record, one at an update or a deletion holds just that, with
a key, and an update has a column left. `KeyInv`
carries the argument: a writer has at most one row of a key, so `SharedAt` is a value of
the store, and `NoRowYet` is what `Insert` of the abstract store demands. The rest is one
lemma per statement: INSERT changes the store of one writer at one key, UPDATE and DELETE
change those of all writers at one key, since `Matching` is the union of their `RowsOf`;
everything else leaves the rows alone.

`RequestsEnd` is `RequestsAdvance` for every number of writers, columns and records. It
needs `TypeInv`, and that the columns are finitely many (`ColumnsAssumption`), since the
measure counts those still to add or to set. A step either checks a connection, or is the
one statement its point allows, and that statement lowers `StatementsLeft` or ends the
record.

**RecordStore_proofs.** All four theorems assume one writer (`OneWriter`).

* `OneWriterIsAStore`, under `KeyedRequests`: the refinement. Its invariant is `TypeInv`,
  `KeyInv` and `Ready` (what the thread holds at each point, and that a writer about to
  UPDATE has the row its SELECT found). `KeyInv` gives that a key has one row at most, so
  `Stored` is a value of the store; then each of the 16 actions is shown to be the step of
  `KeyedStore` that decides the same record, column or deletion, or a stutter.
* `FaultsCostOneRecordEach`, on a growing table of a server that stays up and has no more
  tables than are listed: `LossInv` keeps an account. A record in hand is `Unharmed` (its
  next statement goes over a sound connection, and the table fits it) or one fault has
  not been paid for yet: `Unharmed \/ refused < faults`. Each action keeps the account
  balanced (`Accounted`).
* `AcknowledgedRecordsAreThere`, without updates, for requests of every form: `AckInv`
  carries the row from the statement that wrote it to the answer.
* `FaultsCostOneColumnEach`, under `KeyedRequests`, server up: `UpdateInv` charges each
  column that was decided and is not set to a fault, and one more fault to the column in
  hand when the connection broke after it had been checked (`Charged`, `Harmed`). This is
  a statement about the cardinality of a set, and the induction is one lemma,
  `ColumnCharged`: deciding a column adds it to the set only together with a fault.

**Registration_proofs**, with no assumptions but the module's, for any number of instances.
`RegistrationTypeCorrect` is the base. `IdxInv` says that an idx names one row, and never
another later, and that an instance has listed only rows its request covers. A row that was
listed may since have been made another key's by a unique pair (`Moved`), and the instance
that listed it will delete it all the same. `AckInv` says that such a row is none that was
acknowledged, and that an acknowledged row, if it is there, has the key it was acknowledged
for; it rests on `Listed`, which keeps out of `last` what another instance is about to
delete. `RegistrationStays` follows from `StaysInv` (the rows in `last` are there, or
somebody at work touches their key) with it: nobody deletes a row he did not list, and an
UPDATE makes rows of touched keys only others' (`MatchesTouched`, `OverwrittenRows`).
`OneRegistration` needs `OwnInv`: after a whole listing the rows an instance has in its own
name are among those it has still to delete, and while it adds there are none but those its
UPDATE makes, which are one or make the key `blind`. `CommentsSurvive` needs `CommentInv`:
while nothing failed, an instance at work on an undisputed key has no unique pair, is alone
with the key, holds a comment it may have, and the rows it listed are still there
(`CarriedOver`). `OthersAreLeftAlone` is an action property that follows from `IdxInv`: the
idx an instance deletes names a registration its request covers, nothing, or a row that a
unique pair made another's after it was listed.

**EventQuery_proofs.** `TypeInv` adds that an idx names one registration. `QueryInv` follows
the request: the analytics found still have the tables they had (`InfosKept`), what is
`due` is there, the types before the position are looked up (`LookupInv`), the tables
before it are read or counted (`ReadInv`: a table that failed has left an error text and is
in `lost`), and what that makes of the answer (`AnswerInv`). Theorems:
`TrueEventsAreComplete`, `FailedTablesCostTheirOwn`.
`ShownWasAskedFor` needs `ShownInv` beside it: the analytics found, the events collected and
the events shown are all of types asked for and `live`, and whatever is enabled now is
`live`; `QueryInv` adds that the lookup of all analytics is done only for a request of all.

**Queries_proofs.** `PollInv` (the client has nothing newer than the time it asks with, and
has missed only late or tied events) is inductive with the order and the limit of the
answer: the rows shown are the oldest of those asked for. It gives `PollsMissOnlyLateAndTied`
and `PollsShowOnce`, an action property. `ShownIsWanted` and `LongAnswers` hold of every
answer by what the four kinds of filters are; the steps are one per kind. The first speaks of
requests whose texts are values (`ValuesOnly`), the second of all of them.

**Timeline_proofs.** Statements about one state: a group of begins has a least and a
greatest element (the well-foundedness of `<`), and two begins are in one group exactly when
no step lies between them (`GroupsCountSteps`, on cardinalities of finite sets). From
that: `FramesAreDisjoint`, `FramesAreRecorded`, `MomentsAreFramed`. `FramesAreKept` is the
action property: a new begin can only remove steps between old ones.

**Lifecycle_proofs.** `LifeInv` conjoins the type invariant with `SignalsCounted` (a
running process has taken at most three signals), `OnlyJoinableRun`, `JoinedInOrder` and
`DeletedInOrder` (at each stage of `main`, which threads have been joined and which
objects may have been deleted), `PointersByStage` and `NoWatchDogYet`.
`NothingIsUsedAfterDelete` then follows stage by stage: an object is in `freed` only at
a stage by which every thread that `Uses` it has been joined. `AbortOnlyBeforeService`
comes from the same invariant, `LifeTypeCorrect` too.

**Only model-checked.** The liveness properties `AnswerableIsAnswered` and `StopEnds`,
and everything the violation runs show. Every other property of a passing run is also the
statement of a theorem.

## 5. Assumptions about what is outside

* The transport library calls the callback from one thread, one message at a time.
* The PostgreSQL session notices a broken connection when asked (`is_connected` pings);
  a statement on a broken connection fails. SQLite, which has no connection to lose, is
  the same model with no faults.
* Statements are atomic and see all committed ones; each commits on its own, since the
  code opens no transaction.
* A SELECT without an order returns rows in any order, and with a limit any rows its order
  does not tell apart. A statement with a condition in the wrong place fails.
* The identity column never gives a number twice.
* The value of a key is what `insertRow` compares: it strips apostrophes from it for the
  SELECT, while the column value keeps them (`SOCIDBClient.cpp:438-440`,
  `DataProcessingBasic.cpp:430-431`) and, where the statement accepts it, is stored with
  them. A record whose key has an apostrophe is not keyed in the sense of
  `KeyedRequests`, and the theorems do not speak of it.

## 6. What is not modelled

* The conversion of JSON values to SQL text and back (`autoDefineType`,
  `defineTypeAndValue`, `getAsJsonValue`): no state, no interaction; a table of cases that
  a unit test covers as well.
* `parseConfig` and the settings: the monitor may write them while `startProcess` copies
  them (`DBMainManager.cpp:72`), but nothing says which settings a start uses, and the check
  of them is not implemented (`DBMainManager.cpp:238`). The thread itself and its join are
  in `Lifecycle`.
* A stop signal between the installation of the handlers and the assignment of the flag
  (`main.cpp:66`) is lost; nothing promises otherwise, and `StopEnds` starts from the flag.
* `CREATE OR REPLACE FUNCTION` by two instances at once (`PostgreSQLClient.cpp:75`): the
  failure is a status of `GetTimeLine`, its cause is not modelled.
* The key an array's record inherits (`DataProcessingBasic.cpp:219`) is modelled; no
  property forbids it, since nothing in the code or its documents does.
* `SQLite3Client`, `PostgreSQLClient::connect`: names of types, a connection string.
* SQL of a client's own in a unique-name, a direction or a condition: what it does is not
  parsed. It is taken as an error or any choice of rows, which is more than the database
  would do. Values are taken to have no apostrophes.
* A registration request that brings a column "idx" of its own, and generic requests on the
  registry other than an update of the comment.
* JSON layout, log texts, the contents of events.
* Build files, packaging, configuration templates, the vendored SOCI headers.

## 7. Where it could go on

The plan this development followed is done: the request path, the writer and its abstract
store, the registry, the event requests, the filters, the time line and the life cycle
are modelled, checked and proved. In the order of what would add most:

| Module | Code | What it should say |
|---|---|---|
| `Service` | composition | `Session` over `KeyedStore`: the answers of a session against the rows of the tables it named |
| `Values` | `DataProcessingBasic.cpp:313-434` | the type a JSON value is given, and what is read back |
| `Config` | `DBMainManager.cpp:58-72`, `184-234` | a changed configuration after the start, once the code says what it should do |
