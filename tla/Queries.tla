---- MODULE Queries ----
(***************************************************************************)
(* What the reading requests ask of the database: the filters of getAll,   *)
(* read-archive and the event requests, the statement filterToStr makes of *)
(* them, and the rows that come back.  Rows are stored meanwhile, and a    *)
(* client polls realtime-event-cctv@asis for one type, with the time of    *)
(* the last event it got.                                                  *)
(*                                                                         *)
(* One table stands for all: a row is an event of a camera at a time, or a *)
(* recording from a time till another.  A condition is kept as the rows it *)
(* selects and as what filterToStr finds in its text.                      *)
(***************************************************************************)
EXTENDS Naturals, Sequences, FiniteSets

CONSTANTS
    Cams,
    AllCams,       \* "*" among the cams
    NoCam,         \* an object of "cams" without camera-id
    Texts,         \* values clients filter by
    NoText,
    LimitTexts,    \* those with the word LIMIT
    OrderTexts,    \* those with the words ORDER BY
    NoTime,        \* a time the request does not give
    Contents,      \* what is stored
    Requests,      \* what is asked, besides polls
    PollLimits,    \* the limits of the polling client
    DefaultLimit,  \* c_MAXLIMIT
    MaxLimit,      \* MAX_LIMIT
    MaxRows        \* bound: rows stored

Times     == Nat \cup {NoTime}
Operators == {"none", "equal", "LIKE", "NOT LIKE", "IN", "NOT IN"}
Orders    == {"ASC", "DESC"}
\* Any other text is pasted into the statement as it is, and so is a condition that is
\* more than a comparison ("param-condition", "result-condition"): "own" stands for both.
Directions == Orders \cup {"own"}
\* The unique-name of a request by key: a column, or a text that is pasted in too,
\* with LIMIT in it, with ORDER BY, or with SQL of the client's own.
KeyNames  == {"column", "limit", "order", "own"}
Periods   == [begin : Times, end : Times]

\* A limit that is no positive number is 0.
EventRequests ==
    [kind : {"events"}, cams : Seq(Cams \cup {AllCams, NoCam}), outer : Periods,
     inner : Periods, op : Operators, texts : SUBSET Texts, order : Directions, limit : Nat]
KeyRequests     == [kind : {"key"}, name : KeyNames, text : Texts \cup {NoText}]
AllRequests     == [kind : {"all"}, text : Texts \cup {NoText}, order : Directions, limit : Nat]
ArchiveRequests == [kind : {"archive"}, text : Texts \cup {NoText}, begin : Nat, end : Nat]

ASSUME NamesAssumption ==
    /\ NoTime \notin Nat /\ NoText \notin Texts
    /\ AllCams \notin Cams /\ NoCam \notin Cams /\ AllCams # NoCam
ASSUME ContentsAssumption ==
    Contents \subseteq [at : Nat \ {0}, till : Nat, cam : Cams, text : Texts]
ASSUME RequestsAssumption ==
    /\ Requests \subseteq EventRequests \cup KeyRequests \cup AllRequests \cup ArchiveRequests
    /\ PollLimits \subseteq Nat
ASSUME LimitsAssumption ==
    DefaultLimit \in Nat \ {0} /\ MaxLimit \in Nat \ {0} /\ MaxRows \in Nat

VARIABLES
    rows,
    \* the last request and its answer
    req,
    ran,      \* its statement was executed
    shown,
    \* the polling client
    since,    \* the time of the last event it got
    seen,     \* the events it got
    late      \* the events stored when since had passed their time

answer == <<req, ran, shown>>
poller == <<since, seen, late>>
vars   == <<rows, answer, poller>>

Rows == [idx : Nat \ {0}, at : Nat \ {0}, till : Nat, cam : Cams, text : Texts]

NoRequest == [kind |-> "none"]

\* The poll: what came after the time, oldest first.
Poll(n) ==
    [kind |-> "events", cams |-> <<AllCams>>, outer |-> [begin |-> since, end |-> NoTime],
     inner |-> [begin |-> NoTime, end |-> NoTime], op |-> "none", texts |-> {},
     order |-> "ASC", limit |-> n]

TypeOK ==
    /\ rows \subseteq Rows /\ IsFiniteSet(rows)
    /\ req \in {NoRequest} \cup EventRequests \cup KeyRequests \cup AllRequests
               \cup ArchiveRequests
    /\ ran \in BOOLEAN
    /\ shown \subseteq rows
    /\ since \in Nat
    /\ seen \subseteq rows /\ late \subseteq rows

Init ==
    /\ rows = {}
    /\ req = NoRequest /\ ran = FALSE /\ shown = {}
    /\ since = 0 /\ seen = {} /\ late = {}

----
\* A condition: the rows it keeps, whether LIMIT or ORDER BY is in its key, whether
\* LIMIT is in its text outside such a key, whether it is SQL at all, whether it is a
\* text of the client's own.

Plain(keeps) ==
    [keeps |-> keeps, keyword |-> FALSE, limitInText |-> FALSE, sound |-> TRUE, own |-> FALSE]

\* What the client's text makes of the statement: an error, or any choice of the rows.
Own(limit) == [Plain(rows) EXCEPT !.limitInText = limit, !.own = TRUE]

InKey(keeps, texts) ==
    [Plain(keeps) EXCEPT !.keyword = texts \cap (LimitTexts \cup OrderTexts) # {}]

InValue(keeps, text) == [Plain(keeps) EXCEPT !.limitInText = text \in LimitTexts]

With(text) == {r \in rows : r.text = text}

\* fillNodesStrForEvent: a "*" further on empties the list, but "pid_node IN" stays.
CamConditions(cams) ==
    IF cams = <<>> \/ Head(cams) = AllCams THEN {}
    ELSE {[Plain({r \in rows : \E i \in DOMAIN cams : cams[i] = r.cam})
             EXCEPT !.sound = \A i \in DOMAIN cams : cams[i] # AllCams]}

\* A camera without camera-id before any "*" ends the request.
CamsRefused(cams) ==
    \E i \in DOMAIN cams : cams[i] = NoCam /\ \A j \in 1..i : cams[j] # AllCams

TextConditions(op, texts) ==
    LET kept == {r \in rows : r.text \in texts <=> op \notin {"NOT LIKE", "NOT IN"}}
    IN  IF op = "none" THEN {}
        ELSE IF op = "equal" THEN {Plain(kept)}
        ELSE {[InKey(kept, texts) EXCEPT !.sound = op \in {"IN", "NOT IN"} => texts # {}]}

\* Mutant of TimeConditions: an open period includes its end.
TimeConditionsClosed(begin, end) ==
    IF begin = NoTime /\ end = NoTime THEN {}
    ELSE {Plain({r \in rows : /\ begin = NoTime \/ begin <= r.at
                              /\ end = NoTime \/ r.at <= end})}

\* BETWEEN includes both ends; an open period does not include the one it has.
TimeConditions(begin, end) ==
    IF begin = NoTime /\ end = NoTime THEN {}
    ELSE IF begin = NoTime THEN {Plain({r \in rows : r.at < end})}
    ELSE IF end = NoTime THEN {Plain({r \in rows : r.at > begin})}
    ELSE {Plain({r \in rows : begin <= r.at /\ r.at <= end})}

\* An end of the period in "filters" is preferred to that of the request.
Preferred(inner, outer) == IF inner # NoTime THEN inner ELSE outer

Begin(r) == Preferred(r.inner.begin, r.outer.begin)
End(r)   == Preferred(r.inner.end, r.outer.end)

Capped(limit) == IF limit > MaxLimit THEN MaxLimit ELSE limit

\* Filters: the conditions, the column and direction of ORDER BY, the LIMIT; 0 is none.

EventWhere(r) ==
    CamConditions(r.cams) \cup TextConditions(r.op, r.texts) \cup TimeConditions(Begin(r), End(r))

\* Mutant of EventFilters: the events come in no order.
EventFiltersUnordered(r) ==
    [where |-> EventWhere(r), by |-> "nothing", direction |-> r.order,
     limit |-> IF r.limit > 0 THEN Capped(r.limit) ELSE MaxLimit]

\* setFilterGetCCTVEvents.
EventFilters(r) ==
    [where |-> EventWhere(r), by |-> "time", direction |-> r.order,
     limit |-> IF r.limit > 0 THEN Capped(r.limit) ELSE MaxLimit]

\* getAll with a unique pair: its name is the key of the condition.  A name with LIMIT
\* or ORDER BY leaves WHERE without its value and is SQL where it lands (as the name of
\* the table, as the clause it is); a value that is empty leaves the name alone there.
KeyCondition(r) ==
    IF r.name = "column" /\ r.text # NoText THEN InValue(With(r.text), r.text)
    ELSE Own(r.name \in {"limit", "own"})

KeyFilters(r) ==
    [where |-> {KeyCondition(r)}, by |-> "nothing", direction |-> "ASC", limit |-> 0]

\* getAll without a unique pair.

AllFilters(r) ==
    [where |-> IF r.text = NoText THEN {} ELSE {InKey(With(r.text), {r.text})},
     by |-> "idx", direction |-> r.order, limit |-> Capped(r.limit)]

\* readArchive.  The direction it asks for is the value of the filter "ORDER BY idx ",
\* and filterToStr writes no value there.
ArchiveFilters(r) ==
    [where |-> {Plain({row \in rows : r.begin <= row.at /\ row.at <= r.end}),
                Plain({row \in rows : r.begin <= row.till /\ row.till <= r.end})}
               \cup (IF r.text = NoText THEN {} ELSE {InValue(With(r.text), r.text)}),
     by |-> "idx", direction |-> "ASC", limit |-> 0]

\* A direction or a condition of the client's own is part of the statement that getAll
\* and the event requests build, and may hide the limit that follows.
OwnFilters ==
    [where |-> {Own(TRUE)}, by |-> "nothing", direction |-> "ASC", limit |-> 0]

OwnDirection(r) == r.kind \in {"events", "all"} /\ r.order \notin Orders

Filters(r) ==
    IF OwnDirection(r) THEN OwnFilters
    ELSE IF r.kind = "events" THEN EventFilters(r)
    ELSE IF r.kind = "key" THEN KeyFilters(r)
    ELSE IF r.kind = "all" THEN AllFilters(r)
    ELSE ArchiveFilters(r)

----
\* filterToStr.

\* Mutant of Sound: a condition outside WHERE is taken for none.
SoundAnyway(f) == \A c \in f.where : c.sound

\* A comparison with a keyword in its key leaves WHERE for the end of the statement,
\* which is no SQL then: ... ORDER BY idx desc "column" LIKE '...'.
Sound(f) == \A c \in f.where : c.sound /\ ~c.keyword

\* Mutant of RowLimit: there is no default.
RowLimitGiven(f) == f.limit

\* The word LIMIT anywhere in the statement keeps the default away: as the limit of the
\* request, in a value, in a name or behind the direction.
RowLimit(f) ==
    IF f.limit > 0 THEN f.limit
    ELSE IF \E c \in f.where : c.limitInText THEN 0
    ELSE DefaultLimit

Precedes(f, r, s) ==
    LET ahead(m, n) == IF f.direction = "ASC" THEN m < n ELSE n < m
    IN  \/ f.by = "time" /\ ahead(r.at, s.at)
        \/ f.by = "idx" /\ ahead(r.idx, s.idx)

Selected(f) == {r \in rows : \A c \in f.where : c.keyword \/ r \in c.keeps}

HasOwnText(f) == \E c \in f.where : c.own

\* The first rows of the order, any of those it does not tell apart; a text of the
\* client's own may choose others.
Answers(f, found) ==
    LET all   == Selected(f)
        limit == RowLimit(f)
    IN  /\ found \subseteq all
        /\ limit > 0 => Cardinality(found) <= limit
        /\ ~HasOwnText(f) => found = all \/ (limit > 0 /\ Cardinality(found) = limit)
        /\ ~HasOwnText(f) => \A r \in all \ found, s \in found : ~Precedes(f, r, s)

----
\* A module stores an event, or the recorder a recording.
Store(c) ==
    /\ Cardinality(rows) < MaxRows
    /\ LET row == [idx |-> Cardinality(rows) + 1, at |-> c.at, till |-> c.till,
                   cam |-> c.cam, text |-> c.text]
       IN  /\ rows' = rows \cup {row}
           /\ late' = IF c.at <= since THEN late \cup {row} ELSE late
    /\ req' = NoRequest /\ ran' = FALSE /\ shown' = {}
    /\ UNCHANGED <<since, seen>>

Refused(r) == (r.kind = "events" /\ CamsRefused(r.cams)) \/ ~Sound(Filters(r))

\* One request and its answer: a single SELECT.
Ask(r, found) ==
    /\ req' = r
    /\ \/ ran' = FALSE /\ found = {} /\ (Refused(r) \/ HasOwnText(Filters(r)))
       \/ ran' = TRUE /\ ~Refused(r) /\ Answers(Filters(r), found)
    /\ shown' = found
    /\ UNCHANGED rows

AskOnce(r, found) == Ask(r, found) /\ UNCHANGED poller

\* Mutant of AskForNew: an answer without events forgets the time.
AskForNewForgetful(n, found) ==
    /\ Ask(Poll(n), found)
    /\ seen' = seen \cup found
    /\ \/ found = {} /\ since' = NoTime
       \/ \E last \in found : since' = last.at /\ \A r \in found : r.at <= last.at
    /\ UNCHANGED late

AskForNew(n, found) ==
    /\ Ask(Poll(n), found)
    /\ seen' = seen \cup found
    /\ \/ found = {} /\ since' = since
       \/ \E last \in found : since' = last.at /\ \A r \in found : r.at <= last.at
    /\ UNCHANGED late

Next ==
    \/ \E c \in Contents : Store(c)
    \/ \E found \in SUBSET rows :
         \/ \E r \in Requests : AskOnce(r, found)
         \/ \E n \in PollLimits : AskForNew(n, found)

Spec == Init /\ [][Next]_vars

----
\* Properties.

\* A client that asks again and again for what came after the last event it got, with
\* any limits, misses an event only if it was stored when its time had passed, or
\* has the time of another one the client did get.
PollMissesOnlyLateAndTied ==
    \A r \in rows :
        r.at <= since /\ r \notin seen /\ r \notin late => \E s \in seen : s.at = r.at

\* Such a client gets no event twice.
NothingIsPolledTwice == [][seen' # seen => shown' \cap seen = {}]_vars

\* The rows a request is for, by what it says rather than by its statement.
Wanted(r) ==
    IF r.kind = "events"
    THEN {row \in rows :
            /\ r.cams = <<>> \/ \E i \in DOMAIN r.cams : r.cams[i] \in {AllCams, row.cam}
            /\ \/ r.op = "none"
               \/ row.text \in r.texts <=> r.op \notin {"NOT LIKE", "NOT IN"}
            /\ Begin(r) # NoTime => Begin(r) <= row.at
            /\ End(r) # NoTime => row.at <= End(r)}
    ELSE {row \in rows :
            /\ r.text \in {NoText, row.text}
            /\ r.kind = "archive" => /\ r.begin <= row.at /\ row.at <= r.end
                                     /\ r.begin <= row.till /\ row.till <= r.end}

\* A request whose texts are values: its key is a column with a value for it, and its
\* direction is one.
ValuesOnly(r) ==
    /\ r.kind = "key" => r.name = "column" /\ r.text # NoText
    /\ ~OwnDirection(r)

\* filterToStr takes conditions out of WHERE when their key says LIMIT or ORDER BY.
\* Whatever the words in the values of a request, no row is shown that it does not ask
\* for.  The words are free in values only: as the unique-name of getAll they show the
\* rows of the table whatever the value says.
NothingUnaskedIsShown ==
    req # NoRequest /\ ValuesOnly(req) => shown \subseteq Wanted(req)

\* A table of any size gives a short answer, unless the request asks for more, is for
\* events, or has the word LIMIT, which turns the default off, in the value of a key or
\* of an archive's filter, in the name of a key, or in a text of its own.
LongAnswersAreAskedFor ==
    Cardinality(shown) > DefaultLimit =>
        \/ req.kind = "all" /\ Cardinality(shown) <= req.limit
        \/ req.kind = "events" /\ Cardinality(shown) <= MaxLimit
        \/ req.kind \in {"key", "archive"} /\ req.text \in LimitTexts
        \/ req.kind = "key" /\ req.name \in {"limit", "own"}
        \/ OwnDirection(req)
====
