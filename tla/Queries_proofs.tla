---- MODULE Queries_proofs ----
(***************************************************************************)
(* Proofs about Queries, for every set of rows, requests and limits: what  *)
(* a polling client gets and misses, and that no words in the values of a  *)
(* request widen its answer.                                               *)
(***************************************************************************)
EXTENDS Queries, FiniteSetTheorems, TLAPS

\* What the client has got is not newer than the time it asks with.
PollInv ==
    /\ \A s \in seen : s.at <= since
    /\ PollMissesOnlyLateAndTied

----
\* The filters of a poll.

LEMMA PollRequest ==
    ASSUME TypeOK, NEW n \in PollLimits
    PROVE  Poll(n) \in EventRequests
<1>1. n \in Nat /\ since \in Nat
  BY RequestsAssumption DEF TypeOK
<1>2. <<AllCams>> \in Seq(Cams \cup {AllCams, NoCam})
  OBVIOUS
<1>3. [begin |-> since, end |-> NoTime] \in Periods /\ [begin |-> NoTime, end |-> NoTime] \in Periods
  BY <1>1 DEF Periods, Times
<1> QED BY <1>1, <1>2, <1>3 DEF Poll, EventRequests, Operators, Directions, Orders

\* A poll selects what came after the time and wants the oldest first.
LEMMA PollFilters ==
    ASSUME TypeOK, NEW n \in PollLimits
    PROVE  /\ Selected(Filters(Poll(n))) = {r \in rows : r.at > since}
           /\ ~HasOwnText(Filters(Poll(n)))
           /\ \A r, s : Precedes(Filters(Poll(n)), r, s) <=> r.at < s.at
<1> DEFINE p == Poll(n)
<1>1. /\ p.kind = "events" /\ p.cams = <<AllCams>> /\ p.op = "none" /\ p.order = "ASC"
      /\ p.texts = {}
      /\ p.inner = [begin |-> NoTime, end |-> NoTime]
      /\ p.outer = [begin |-> since, end |-> NoTime]
  BY DEF Poll
<1> HIDE DEF p
<1>2. CamConditions(p.cams) = {} /\ TextConditions(p.op, p.texts) = {}
  BY <1>1 DEF CamConditions, TextConditions
<1>3. Begin(p) = since /\ End(p) = NoTime
  BY <1>1 DEF Begin, End, Preferred
<1>4. since # NoTime
  BY NamesAssumption DEF TypeOK
<1>5. TimeConditions(Begin(p), End(p)) = {Plain({r \in rows : r.at > since})}
  BY <1>3, <1>4 DEF TimeConditions
<1>6. Filters(p) = EventFilters(p)
  BY <1>1 DEF Filters, OwnDirection, Orders
<1>7. Filters(p).where = {Plain({r \in rows : r.at > since})}
      /\ Filters(p).by = "time" /\ Filters(p).direction = "ASC"
  BY <1>1, <1>2, <1>5, <1>6 DEF EventFilters, EventWhere
<1>8. Selected(Filters(p)) = {r \in rows : r.at > since}
  BY <1>7 DEF Selected, Plain
<1>9. \A r, s : Precedes(Filters(p), r, s) <=> r.at < s.at
  BY <1>7 DEF Precedes
<1>10. ~HasOwnText(Filters(p))
  BY <1>7 DEF HasOwnText, Plain
<1> QED BY <1>8, <1>9, <1>10 DEF p

\* What a poll shows is new, and whatever else is new is not older.
LEMMA PollAnswers ==
    ASSUME TypeOK, NEW n \in PollLimits, NEW found \in SUBSET rows, Ask(Poll(n), found)
    PROVE  /\ \A s \in found : s.at > since
           /\ \A r \in rows \ found, s \in found : r.at > since => ~(r.at < s.at)
<1>1. CASE found = {}
  BY <1>1
<1>2. CASE found # {}
  <2>1. Answers(Filters(Poll(n)), found)
    BY <1>2 DEF Ask
  <2>2. /\ found \subseteq Selected(Filters(Poll(n)))
        /\ \A r \in Selected(Filters(Poll(n))) \ found, s \in found :
             ~Precedes(Filters(Poll(n)), r, s)
    BY <2>1, PollFilters DEF Answers
  <2> QED BY <2>2, PollFilters
<1> QED BY <1>1, <1>2

----
\* Type correctness.

LEMMA TypeInit == Init => TypeOK
<1>1. IsFiniteSet({})
  BY FS_EmptySet
<1> SUFFICES ASSUME Init PROVE TypeOK
  OBVIOUS
<1>2. IsFiniteSet(rows) /\ rows \subseteq Rows
  BY <1>1 DEF Init
<1>3. req = NoRequest /\ ran = FALSE /\ shown = {} /\ since = 0 /\ seen = {} /\ late = {}
  BY DEF Init
<1> QED BY <1>2, <1>3 DEF TypeOK

LEMMA StoreType ==
    ASSUME TypeOK, NEW c \in Contents, Store(c)
    PROVE  TypeOK'
<1> DEFINE row == [idx |-> Cardinality(rows) + 1, at |-> c.at, till |-> c.till,
                   cam |-> c.cam, text |-> c.text]
<1>1. c.at \in Nat \ {0} /\ c.till \in Nat /\ c.cam \in Cams /\ c.text \in Texts
  BY ContentsAssumption
<1>2. Cardinality(rows) \in Nat
  BY FS_CardinalityType DEF TypeOK
<1>3. row \in Rows
  BY <1>1, <1>2 DEF Rows
<1>4. /\ rows' = rows \cup {row}
      /\ late' = late \/ late' = late \cup {row}
      /\ req' = NoRequest /\ ran' = FALSE /\ shown' = {}
      /\ UNCHANGED <<since, seen>>
  BY DEF Store
<1>5. IsFiniteSet(rows')
  BY <1>4, FS_AddElement DEF TypeOK
<1> HIDE DEF row
<1> QED BY <1>3, <1>4, <1>5 DEF TypeOK

LEMMA AskType ==
    ASSUME TypeOK, NEW r, NEW found \in SUBSET rows, Ask(r, found),
           r \in EventRequests \cup KeyRequests \cup AllRequests \cup ArchiveRequests,
           since' \in Nat, seen' \subseteq rows, late' = late
    PROVE  TypeOK'
<1>1. req' = r /\ shown' = found /\ rows' = rows /\ ran' \in BOOLEAN
  BY DEF Ask
<1> QED BY <1>1 DEF TypeOK

LEMMA PollType ==
    ASSUME TypeOK, NEW n \in PollLimits, NEW found \in SUBSET rows, AskForNew(n, found)
    PROVE  TypeOK'
<1>1. \A r \in rows : r.at \in Nat
  BY DEF TypeOK, Rows
<1>2. since' \in Nat /\ seen' \subseteq rows /\ late' = late
  BY <1>1 DEF AskForNew, TypeOK
<1> QED BY <1>2, AskType, PollRequest DEF AskForNew

LEMMA TypeNext == TypeOK /\ [Next]_vars => TypeOK'
<1> SUFFICES ASSUME TypeOK, [Next]_vars PROVE TypeOK'
  OBVIOUS
<1>1. ASSUME NEW found \in SUBSET rows, NEW r \in Requests, AskOnce(r, found) PROVE TypeOK'
  <2>1. r \in EventRequests \cup KeyRequests \cup AllRequests \cup ArchiveRequests
    BY RequestsAssumption
  <2>2. since' \in Nat /\ seen' \subseteq rows /\ late' = late
    BY <1>1 DEF AskOnce, poller, TypeOK
  <2> QED BY <1>1, <2>1, <2>2, AskType DEF AskOnce
<1>2. CASE UNCHANGED vars
  BY <1>2 DEF TypeOK, vars, answer, poller
<1> QED BY <1>1, <1>2, StoreType, PollType DEF Next

\* The types of the rows, the last answer and what the polling client knows, for every
\* set of requests.
THEOREM QueriesTypeCorrect == Spec => []TypeOK
BY TypeInit, TypeNext, PTL DEF Spec

----
\* The polling client.

LEMMA PollInvInit == Init => PollInv
BY DEF Init, PollInv, PollMissesOnlyLateAndTied

LEMMA PollInvStore ==
    ASSUME TypeOK, PollInv, NEW c \in Contents, Store(c)
    PROVE  PollInv'
<1> DEFINE row == [idx |-> Cardinality(rows) + 1, at |-> c.at, till |-> c.till,
                   cam |-> c.cam, text |-> c.text]
<1>1. /\ rows' = rows \cup {row}
      /\ row.at <= since => row \in late'
      /\ late \subseteq late'
      /\ UNCHANGED <<since, seen>>
  BY DEF Store
<1> HIDE DEF row
<1> QED BY <1>1 DEF PollInv, PollMissesOnlyLateAndTied

LEMMA PollInvPoll ==
    ASSUME TypeOK, PollInv, NEW n \in PollLimits, NEW found \in SUBSET rows,
           AskForNew(n, found)
    PROVE  PollInv' /\ found \cap seen = {}
<1>1. \A r \in rows : r.at \in Nat
  BY DEF TypeOK, Rows
<1>2. seen \subseteq rows /\ since \in Nat
  BY DEF TypeOK
<1>3. /\ \A s \in found : s.at > since
      /\ \A r \in rows \ found, s \in found : r.at > since => ~(r.at < s.at)
  BY PollAnswers DEF AskForNew
<1>4. rows' = rows /\ late' = late /\ seen' = seen \cup found
  BY DEF AskForNew, Ask
<1>5. found \cap seen = {}
  BY <1>1, <1>2, <1>3 DEF PollInv
<1>6. CASE found = {} /\ since' = since
  <2>1. seen' = seen
    BY <1>4, <1>6
  <2> QED BY <1>4, <1>5, <1>6, <2>1 DEF PollInv, PollMissesOnlyLateAndTied
<1>7. CASE \E last \in found : since' = last.at /\ \A r \in found : r.at <= last.at
  <2> PICK last \in found : since' = last.at /\ \A r \in found : r.at <= last.at
    BY <1>7
  <2>1. last \in rows /\ last.at \in Nat /\ last.at > since
    BY <1>1, <1>3
  <2>2. \A s \in seen' : s.at <= since'
    BY <1>1, <1>2, <1>4, <2>1 DEF PollInv
  <2>3. ASSUME NEW r \in rows, r.at <= since', r \notin seen', r \notin late
        PROVE  \E s \in seen' : s.at = r.at
    <3>1. r.at \in Nat /\ r \notin seen /\ r \notin found
      BY <1>1, <1>4, <2>3
    <3>2. CASE r.at <= since
      BY <1>4, <2>3, <3>1, <3>2 DEF PollInv, PollMissesOnlyLateAndTied
    <3>3. CASE r.at > since
      <4>1. ~(r.at < last.at)
        BY <1>3, <3>1, <3>3
      <4>2. r.at = last.at
        BY <2>1, <2>3, <3>1, <4>1
      <4> QED BY <1>4, <4>2
    <3> QED BY <1>2, <3>1, <3>2, <3>3
  <2> QED BY <1>4, <1>5, <2>2, <2>3 DEF PollInv, PollMissesOnlyLateAndTied
<1>8. \/ found = {} /\ since' = since
      \/ \E last \in found : since' = last.at /\ \A r \in found : r.at <= last.at
  BY DEF AskForNew
<1> QED BY <1>5, <1>6, <1>7, <1>8

LEMMA PollInvNext == TypeOK /\ PollInv /\ [Next]_vars => PollInv'
<1> SUFFICES ASSUME TypeOK, PollInv, [Next]_vars PROVE PollInv'
  OBVIOUS
<1>1. ASSUME NEW found \in SUBSET rows, NEW r \in Requests, AskOnce(r, found) PROVE PollInv'
  BY <1>1 DEF AskOnce, Ask, poller, PollInv, PollMissesOnlyLateAndTied
<1>2. CASE UNCHANGED vars
  BY <1>2 DEF PollInv, PollMissesOnlyLateAndTied, vars, answer, poller
<1> QED BY <1>1, <1>2, PollInvStore, PollInvPoll DEF Next

\* A client that polls with the time of the last event it got misses an event only if
\* it was stored too late for its time or has the time of one it got, for every
\* sequence of events, limits and answers.
THEOREM PollsMissOnlyLateAndTied == Spec => []PollMissesOnlyLateAndTied
<1>1. PollInv => PollMissesOnlyLateAndTied
  BY DEF PollInv
<1>2. Init => TypeOK /\ PollInv
  BY TypeInit, PollInvInit
<1>3. TypeOK /\ PollInv /\ [Next]_vars => (TypeOK /\ PollInv)'
  BY TypeNext, PollInvNext
<1> QED BY <1>1, <1>2, <1>3, PTL DEF Spec

\* The bound of an open period is strict, so no poll shows an event again.
THEOREM PollsShowOnce == Spec => NothingIsPolledTwice
<1> DEFINE Once == seen' # seen => shown' \cap seen = {}
<1>1. Init => TypeOK /\ PollInv
  BY TypeInit, PollInvInit
<1>2. TypeOK /\ PollInv /\ [Next]_vars => (TypeOK /\ PollInv)'
  BY TypeNext, PollInvNext
<1>3. TypeOK /\ PollInv /\ [Next]_vars => [Once]_vars
  <2> SUFFICES ASSUME TypeOK, PollInv, [Next]_vars, seen' # seen PROVE shown' \cap seen = {}
    OBVIOUS
  <2>1. ASSUME NEW c \in Contents, Store(c) PROVE FALSE
    BY <2>1 DEF Store
  <2>2. ASSUME NEW found \in SUBSET rows, NEW r \in Requests, AskOnce(r, found) PROVE FALSE
    BY <2>2 DEF AskOnce, poller
  <2>3. ASSUME NEW found \in SUBSET rows, NEW n \in PollLimits, AskForNew(n, found)
        PROVE  shown' \cap seen = {}
    BY <2>3, PollInvPoll DEF AskForNew, Ask
  <2> QED BY <2>1, <2>2, <2>3 DEF Next, vars, poller
<1> QED BY <1>1, <1>2, <1>3, PTL DEF Spec, NothingIsPolledTwice

----
\* Words in a request.

AskedRequests == EventRequests \cup KeyRequests \cup AllRequests \cup ArchiveRequests

\* A row the conditions of a sound statement keep fits the request, one lemma for each
\* kind of it.
LEMMA EventsFit ==
    ASSUME TypeOK, NEW r \in EventRequests, NEW row \in rows,
           \A c \in EventWhere(r) : row \in c.keeps
    PROVE  row \in Wanted(r)
<1>1. r.kind = "events" /\ r.cams \in Seq(Cams \cup {AllCams, NoCam}) /\ r.op \in Operators
  BY DEF EventRequests
<1>2. r.cams = <<>> \/ \E i \in DOMAIN r.cams : r.cams[i] \in {AllCams, row.cam}
  <2>1. CASE r.cams # <<>> /\ Head(r.cams) = AllCams
    BY <1>1, <2>1
  <2>2. CASE r.cams # <<>> /\ Head(r.cams) # AllCams
    <3> DEFINE c == [Plain({x \in rows : \E i \in DOMAIN r.cams : r.cams[i] = x.cam})
                       EXCEPT !.sound = \A i \in DOMAIN r.cams : r.cams[i] # AllCams]
    <3>1. c \in EventWhere(r)
      BY <2>2 DEF EventWhere, CamConditions
    <3>2. c.keeps = {x \in rows : \E i \in DOMAIN r.cams : r.cams[i] = x.cam}
      BY DEF Plain
    <3> HIDE DEF c
    <3> QED BY <3>1, <3>2
  <2> QED BY <2>1, <2>2
<1>3. r.op = "none" \/ (row.text \in r.texts <=> r.op \notin {"NOT LIKE", "NOT IN"})
  <2> DEFINE kept == {x \in rows : x.text \in r.texts <=> r.op \notin {"NOT LIKE", "NOT IN"}}
  <2>1. CASE r.op = "equal"
    <3>1. Plain(kept) \in EventWhere(r)
      BY <2>1 DEF EventWhere, TextConditions
    <3>2. Plain(kept).keeps = kept
      BY DEF Plain
    <3> HIDE DEF kept
    <3>3. row \in kept
      BY <3>1, <3>2
    <3> QED BY <3>3 DEF kept
  <2>2. CASE r.op \notin {"none", "equal"}
    <3> DEFINE c == [InKey(kept, r.texts)
                       EXCEPT !.sound = r.op \in {"IN", "NOT IN"} => r.texts # {}]
    <3>1. c \in EventWhere(r)
      BY <2>2 DEF EventWhere, TextConditions
    <3>2. c.keeps = kept
      BY DEF InKey, Plain
    <3> HIDE DEF c
    <3>3. row \in kept
      BY <3>1, <3>2
    <3> QED BY <3>3
  <2> QED BY <2>1, <2>2
<1>4. /\ Begin(r) # NoTime => Begin(r) <= row.at
      /\ End(r) # NoTime => row.at <= End(r)
  <2>1. row.at \in Nat
    BY DEF TypeOK, Rows
  <2>2. Begin(r) \in Times /\ End(r) \in Times
    BY DEF EventRequests, Periods, Begin, End, Preferred
  <2> DEFINE b == Begin(r)
             e == End(r)
  <2>3. \A c \in TimeConditions(b, e) : row \in c.keeps
    BY DEF EventWhere
  <2> HIDE DEF b, e
  <2>4. CASE b # NoTime /\ e # NoTime
    <3>1. row \in {x \in rows : b <= x.at /\ x.at <= e}
      BY <2>3, <2>4 DEF TimeConditions, Plain
    <3> QED BY <3>1 DEF b, e
  <2>5. CASE b # NoTime /\ e = NoTime
    <3>1. row \in {x \in rows : x.at > b}
      BY <2>3, <2>5 DEF TimeConditions, Plain
    <3> QED BY <2>1, <2>2, <2>5, <3>1 DEF b, e, Times
  <2>6. CASE b = NoTime /\ e # NoTime
    <3>1. row \in {x \in rows : x.at < e}
      BY <2>3, <2>6 DEF TimeConditions, Plain
    <3> QED BY <2>1, <2>2, <2>6, <3>1 DEF b, e, Times
  <2>7. CASE b = NoTime /\ e = NoTime
    BY <2>7 DEF b, e
  <2> QED BY <2>4, <2>5, <2>6, <2>7
<1> QED BY <1>1, <1>2, <1>3, <1>4 DEF Wanted

LEMMA OthersFit ==
    ASSUME NEW r \in KeyRequests \cup AllRequests \cup ArchiveRequests, ValuesOnly(r),
           NEW row \in rows,
           \A c \in Filters(r).where : row \in c.keeps
    PROVE  row \in Wanted(r)
<1>1. CASE r \in KeyRequests
  <2>1. r.kind = "key"
    BY <1>1 DEF KeyRequests
  <2>2. InValue(With(r.text), r.text) \in Filters(r).where
    BY <2>1 DEF Filters, OwnDirection, KeyFilters, KeyCondition, ValuesOnly
  <2>3. row \in With(r.text)
    BY <2>2 DEF InValue, Plain
  <2> QED BY <2>1, <2>3 DEF Wanted, With
<1>2. CASE r \in AllRequests
  <2>1. r.kind = "all"
    BY <1>2 DEF AllRequests
  <2>2. CASE r.text # NoText
    <3>1. InKey(With(r.text), {r.text}) \in Filters(r).where
      BY <2>1, <2>2 DEF Filters, ValuesOnly, AllFilters
    <3>2. row \in With(r.text)
      BY <3>1 DEF InKey, Plain
    <3> QED BY <2>1, <3>2 DEF Wanted, With
  <2>3. CASE r.text = NoText
    BY <2>1, <2>3 DEF Wanted
  <2> QED BY <2>2, <2>3
<1>3. CASE r \in ArchiveRequests
  <2>1. r.kind = "archive"
    BY <1>3 DEF ArchiveRequests
  <2> DEFINE begins == {x \in rows : r.begin <= x.at /\ x.at <= r.end}
             ends   == {x \in rows : r.begin <= x.till /\ x.till <= r.end}
  <2>2. Plain(begins) \in Filters(r).where /\ Plain(ends) \in Filters(r).where
    BY <2>1 DEF Filters, OwnDirection, ArchiveFilters
  <2>3. Plain(begins).keeps = begins /\ Plain(ends).keeps = ends
    BY DEF Plain
  <2> HIDE DEF begins, ends
  <2>4. row \in begins /\ row \in ends
    BY <2>2, <2>3
  <2>5. r.text \in {NoText, row.text}
    <3>1. CASE r.text # NoText
      <4>1. InValue(With(r.text), r.text) \in Filters(r).where
        BY <2>1, <3>1 DEF Filters, OwnDirection, ArchiveFilters
      <4>2. row \in With(r.text)
        BY <4>1 DEF InValue, Plain
      <4> QED BY <4>2 DEF With
    <3> QED BY <3>1
  <2> QED BY <2>1, <2>4, <2>5 DEF Wanted, begins, ends
<1> QED BY <1>1, <1>2, <1>3

LEMMA AskShowsWanted ==
    ASSUME TypeOK, NEW r \in AskedRequests, NEW found \in SUBSET rows, Ask(r, found)
    PROVE  NothingUnaskedIsShown'
<1>1. rows' = rows /\ req' = r /\ shown' = found
  BY DEF Ask
<1>2. Wanted(r)' = Wanted(r)
  BY <1>1 DEF Wanted, Begin, End
<1>3. CASE found = {} \/ ~ValuesOnly(r)
  BY <1>1, <1>3 DEF NothingUnaskedIsShown, ValuesOnly, OwnDirection
<1>4. CASE found # {} /\ ValuesOnly(r)
  <2>1. Sound(Filters(r)) /\ found \subseteq Selected(Filters(r))
    BY <1>4 DEF Refused, Ask, Answers
  <2>2. ASSUME NEW row \in found PROVE row \in Wanted(r)
    <3>1. row \in rows /\ \A c \in Filters(r).where : row \in c.keeps
      BY <2>1 DEF Sound, Selected
    <3>2. CASE r \in EventRequests
      <4>1. Filters(r).where = EventWhere(r)
        BY <1>4, <3>2 DEF Filters, ValuesOnly, EventFilters, EventRequests
      <4> QED BY <3>1, <3>2, <4>1, EventsFit
    <3>3. CASE r \notin EventRequests
      BY <1>4, <3>1, <3>3, OthersFit DEF AskedRequests
    <3> QED BY <3>2, <3>3
  <2>3. Wanted(req)' = Wanted(r)'
    BY <1>1 DEF Wanted, Begin, End
  <2> QED BY <1>1, <1>2, <2>2, <2>3 DEF NothingUnaskedIsShown
<1> QED BY <1>3, <1>4

\* Conditions whose key says LIMIT or ORDER BY leave WHERE.  For every request whose
\* texts are values, whatever their words, and for every table, no row is shown that the
\* request does not ask for.
THEOREM ShownIsWanted == Spec => []NothingUnaskedIsShown
<1>1. Init => TypeOK /\ NothingUnaskedIsShown
  BY TypeInit DEF Init, NothingUnaskedIsShown
<1>2. TypeOK /\ NothingUnaskedIsShown /\ [Next]_vars => (TypeOK /\ NothingUnaskedIsShown)'
  <2> SUFFICES ASSUME TypeOK, NothingUnaskedIsShown, [Next]_vars
               PROVE  NothingUnaskedIsShown'
    BY TypeNext
  <2>1. ASSUME NEW c \in Contents, Store(c) PROVE NothingUnaskedIsShown'
    BY <2>1 DEF Store, NothingUnaskedIsShown
  <2>2. ASSUME NEW found \in SUBSET rows, NEW r \in Requests, AskOnce(r, found)
        PROVE  NothingUnaskedIsShown'
    BY <2>2, RequestsAssumption, AskShowsWanted DEF AskOnce, AskedRequests
  <2>3. ASSUME NEW found \in SUBSET rows, NEW n \in PollLimits, AskForNew(n, found)
        PROVE  NothingUnaskedIsShown'
    BY <2>3, PollRequest, AskShowsWanted DEF AskForNew, AskedRequests
  <2>4. CASE UNCHANGED vars
    BY <2>4 DEF vars, answer, NothingUnaskedIsShown, ValuesOnly, OwnDirection, Wanted,
                Begin, End
  <2> QED BY <2>1, <2>2, <2>3, <2>4 DEF Next
<1> QED BY <1>1, <1>2, PTL DEF Spec

----
\* The length of an answer.

LEMMA ShownIsBounded ==
    ASSUME NEW r \in AskedRequests, NEW found \in SUBSET rows, Answers(Filters(r), found),
           Cardinality(found) \in Nat, Cardinality(found) > DefaultLimit
    PROVE  \/ r.kind = "all" /\ Cardinality(found) <= r.limit
           \/ r.kind = "events" /\ Cardinality(found) <= MaxLimit
           \/ r.kind \in {"key", "archive"} /\ r.text \in LimitTexts
           \/ r.kind = "key" /\ r.name \in {"limit", "own"}
           \/ OwnDirection(r)
<1> DEFINE n == Cardinality(found)
<1>0. DefaultLimit \in Nat \ {0} /\ MaxLimit \in Nat \ {0}
  BY LimitsAssumption
<1>1. RowLimit(Filters(r)) > 0 => n <= RowLimit(Filters(r))
  BY DEF Answers
<1>2. CASE r \in EventRequests /\ ~OwnDirection(r)
  <2>1. r.kind = "events" /\ r.limit \in Nat
    BY <1>2 DEF EventRequests
  <2>2. Filters(r).limit = IF r.limit > 0 THEN Capped(r.limit) ELSE MaxLimit
    BY <1>2, <2>1 DEF Filters, EventFilters
  <2>3. Filters(r).limit \in Nat \ {0} /\ Filters(r).limit <= MaxLimit
    BY <1>0, <2>1, <2>2 DEF Capped
  <2>4. n <= Filters(r).limit
    BY <1>1, <2>3 DEF RowLimit
  <2> QED BY <1>0, <2>1, <2>3, <2>4
<1>3. CASE r \in AllRequests /\ ~OwnDirection(r)
  <2>1. r.kind = "all" /\ r.limit \in Nat
    BY <1>3 DEF AllRequests
  <2>2. Filters(r).limit = Capped(r.limit)
        /\ \A c \in Filters(r).where : c.limitInText = FALSE
    BY <1>3, <2>1 DEF Filters, AllFilters, InKey, Plain
  <2>3. Capped(r.limit) \in Nat /\ Capped(r.limit) <= r.limit
    BY <1>0, <2>1 DEF Capped
  <2>4. CASE Capped(r.limit) > 0
    <3>1. RowLimit(Filters(r)) = Capped(r.limit)
      BY <2>2, <2>4 DEF RowLimit
    <3> QED BY <1>1, <2>1, <2>3, <2>4, <3>1
  <2>5. CASE Capped(r.limit) = 0
    <3>1. RowLimit(Filters(r)) = DefaultLimit
      BY <2>2, <2>5 DEF RowLimit
    <3> QED BY <1>0, <1>1, <3>1
  <2> QED BY <2>3, <2>4, <2>5
<1>4. CASE r \in KeyRequests \cup ArchiveRequests
  <2>1. r.kind \in {"key", "archive"}
    BY <1>4 DEF KeyRequests, ArchiveRequests
  <2>2. CASE r.text \notin LimitTexts /\ ~(r.kind = "key" /\ r.name \in {"limit", "own"})
    <3>1. Filters(r).limit = 0 /\ \A c \in Filters(r).where : ~c.limitInText
      <4>1. /\ \A keeps : ~Plain(keeps).limitInText /\ ~InValue(keeps, r.text).limitInText
            /\ ~Own(FALSE).limitInText
        BY <2>2 DEF InValue, Own, Plain
      <4>2. CASE r.kind = "key"
        <5>1. Filters(r).where = {KeyCondition(r)} /\ Filters(r).limit = 0
          BY <4>2 DEF Filters, OwnDirection, KeyFilters
        <5>2. (r.name \in {"limit", "own"}) = FALSE
          BY <2>2, <4>2
        <5>3. ~KeyCondition(r).limitInText
          BY <4>1, <5>2 DEF KeyCondition
        <5> QED BY <5>1, <5>3
      <4>3. CASE r.kind = "archive"
        BY <4>1, <4>3 DEF Filters, OwnDirection, ArchiveFilters
      <4> QED BY <2>1, <4>2, <4>3
    <3>2. RowLimit(Filters(r)) = DefaultLimit
      BY <3>1 DEF RowLimit
    <3> QED BY <1>0, <1>1, <3>2
  <2> QED BY <2>1, <2>2
<1> QED BY <1>2, <1>3, <1>4 DEF AskedRequests

LEMMA AskIsBounded ==
    ASSUME TypeOK, NEW r \in AskedRequests, NEW found \in SUBSET rows, Ask(r, found)
    PROVE  LongAnswersAreAskedFor'
<1>1. req' = r /\ shown' = found
  BY DEF Ask
<1>2. IsFiniteSet(found) /\ Cardinality(found) \in Nat
  BY FS_Subset, FS_CardinalityType DEF TypeOK
<1>3. CASE found = {}
  <2>1. Cardinality(found) = 0
    BY <1>3, FS_EmptySet
  <2> QED BY <1>1, <2>1, LimitsAssumption DEF LongAnswersAreAskedFor
<1>4. CASE found # {}
  <2>1. Answers(Filters(r), found)
    BY <1>4 DEF Ask
  <2>2. OwnDirection(req)' = OwnDirection(r)
    BY <1>1 DEF OwnDirection
  <2> QED BY <1>1, <1>2, <2>1, <2>2, ShownIsBounded DEF LongAnswersAreAskedFor
<1> QED BY <1>3, <1>4

\* However many rows a table has, an answer longer than the default limit was asked
\* for, is for events, or comes from the word LIMIT in a value, in the name of a key or
\* in a direction of the client's own.
THEOREM LongAnswers == Spec => []LongAnswersAreAskedFor
<1>0. ~(Cardinality({}) > DefaultLimit)
  BY FS_EmptySet, LimitsAssumption
<1>1. Init => TypeOK /\ LongAnswersAreAskedFor
  BY <1>0, TypeInit DEF Init, LongAnswersAreAskedFor
<1>2. TypeOK /\ LongAnswersAreAskedFor /\ [Next]_vars => (TypeOK /\ LongAnswersAreAskedFor)'
  <2> SUFFICES ASSUME TypeOK, LongAnswersAreAskedFor, [Next]_vars
               PROVE  LongAnswersAreAskedFor'
    BY TypeNext
  <2>1. ASSUME NEW c \in Contents, Store(c) PROVE LongAnswersAreAskedFor'
    <3>1. shown' = {}
      BY <2>1 DEF Store
    <3> QED BY <1>0, <3>1 DEF LongAnswersAreAskedFor
  <2>2. ASSUME NEW found \in SUBSET rows, NEW r \in Requests, AskOnce(r, found)
        PROVE  LongAnswersAreAskedFor'
    BY <2>2, RequestsAssumption, AskIsBounded DEF AskOnce, AskedRequests
  <2>3. ASSUME NEW found \in SUBSET rows, NEW n \in PollLimits, AskForNew(n, found)
        PROVE  LongAnswersAreAskedFor'
    BY <2>3, PollRequest, AskIsBounded DEF AskForNew, AskedRequests
  <2>4. CASE UNCHANGED vars
    BY <2>4 DEF vars, answer, LongAnswersAreAskedFor, OwnDirection
  <2> QED BY <2>1, <2>2, <2>3, <2>4 DEF Next
<1> QED BY <1>1, <1>2, PTL DEF Spec
====
