---- MODULE EventQuery_proofs ----
(***************************************************************************)
(* The events of several analytics under one status: what an answer true   *)
(* leaves out, and what no answer shows, for every registry, set of tables *)
(* and requests and for every number of changes and failures meanwhile.    *)
(***************************************************************************)
EXTENDS EventQuery, FiniteSetTheorems, SequenceTheorems, TLAPS

\* An idx names one registration, and never another one later.
RegistryKept ==
    /\ IsFiniteSet(registry)
    /\ nextIdx >= 1
    /\ \A a \in registry : a.idx < nextIdx
    /\ \A a, b \in registry : a.idx = b.idx => a = b

\* The loop over the analytics found stays within them.
ReadsWithin == pc = "read" => next \in DOMAIN infoAboutAns

TypeInv == TypeOK /\ RegistryKept /\ ReadsWithin

\* What is being read was registered, with the table it still has if it is still there.
InfosKept ==
    \A j \in DOMAIN infoAboutAns :
        /\ infoAboutAns[j].idx < nextIdx
        /\ infoAboutAns[j].table \in Tables
        /\ \A b \in registry :
             b.idx = infoAboutAns[j].idx => b.table = infoAboutAns[j].table

Found(idx) == \E j \in DOMAIN infoAboutAns : infoAboutAns[j].idx = idx

\* The types before the position are looked up.
LookupInv ==
    /\ pc = "ranges" => next = 1
    /\ pc = "all" => req.types = All
    /\ pc = "types" => req.types # All
    /\ pc \in {"ranges", "types", "all"} => lost = {}
    /\ pc = "types" /\ AllLookedUp =>
         \A idx \in due : \A j \in DOMAIN req.types :
            j < next /\ req.types[j] = idx => Found(idx)

\* All of them are, and the tables before the position are read, or were not and left
\* an error text.
ReadInv ==
    pc = "read" =>
        /\ AllLookedUp => \A idx \in due : AskedFor(idx) => Found(idx)
        /\ lost # {} => error
        /\ \A j \in DOMAIN infoAboutAns :
             j < next /\ infoAboutAns[j].idx \in due => infoAboutAns[j].idx \in data \cup lost

Told == \A idx \in due : AskedFor(idx) => idx \in shown \cup lost

AnswerInv ==
    pc = "answered" /\ ok /\ AllLookedUp =>
        /\ req.kind = "asis" => ~error
        /\ lost # {} => error
        /\ req.kind = "asis" \/ retErr = NoError => Told

QueryInv == InfosKept /\ due \subseteq Due /\ LookupInv /\ ReadInv /\ AnswerInv

----
\* Types, and the registry.

\* A listing of the registry is a sequence of its rows.
LEMMA ListingType ==
    ASSUME TypeInv, NEW S \in SUBSET registry, NEW found \in Orders(S)
    PROVE  found \in Seq(registry) /\ found \in Seq(Analytics)
PROOF
  <1>1. Cardinality(S) \in Nat
    BY FS_Subset, FS_CardinalityType DEF TypeInv, RegistryKept
  <1>2. found \in [1..Cardinality(S) -> S]
    BY DEF Orders
  <1>3. found \in Seq(S)
    BY <1>1, <1>2, SeqDef
  <1> QED BY <1>3, SeqMonotonic DEF TypeInv, TypeOK

LEMMA StatementType ==
    ASSUME TypeOK, NEW status \in Statuses, NEW good, Statement(status, good)
    PROVE  faults' \in Nat /\ UNCHANGED <<changes, requests>>
PROOF
  BY DEF Statement, TypeOK

LEMMA AnswerType ==
    ASSUME NEW status \in BOOLEAN, NEW events \in SUBSET (1..MaxIdx), Answer(status, events)
    PROVE  pc' \in Points /\ ok' \in BOOLEAN /\ shown' \subseteq 1..MaxIdx
PROOF
  BY DEF Answer, Points

LEMMA DecidedType ==
    ASSUME TypeOK, NEW status \in Statuses, NEW text \in BOOLEAN, data' \subseteq 1..MaxIdx,
           Decided(status, text)
    PROVE  pc' \in Points /\ ok' \in BOOLEAN /\ shown' \subseteq 1..MaxIdx
PROOF
  <1>1. IsFailure(status) \in BOOLEAN
    BY DEF IsFailure
  <1>2. PICK b \in BOOLEAN, e \in SUBSET (1..MaxIdx) : Answer(b, e)
    <2>1. CASE req.kind = "asis"
      BY <1>1, <2>1 DEF Decided
    <2>2. CASE req.kind # "asis" /\ status = NoError
      BY <1>1, <2>2 DEF Decided
    <2>3. CASE req.kind # "asis" /\ status # NoError
      BY <1>1, <2>3 DEF Decided
    <2> QED BY <2>1, <2>2, <2>3
  <1> QED BY <1>2, AnswerType

WorkTypes ==
    /\ pc \in Points
    /\ next \in Nat \ {0}
    /\ infoAboutAns \in Seq(Analytics)
    /\ retErr \in Statuses
    /\ data \subseteq 1..MaxIdx
    /\ error \in BOOLEAN
    /\ ok \in BOOLEAN /\ shown \subseteq 1..MaxIdx

\* How the lookup ends.
LEMMA LookedUpCases ==
    ASSUME NEW status, NEW infos, LookedUp(status, infos)
    PROVE  /\ infoAboutAns' = infos /\ next' = 1 /\ retErr' = status /\ data' = data
           /\ \/ Answer(FALSE, {}) /\ error' = error
              \/ req.badCams /\ error' = TRUE /\ Decided(NotExists, TRUE)
              \/ infos = <<>> /\ error' = error /\ Decided(status, error)
              \/ /\ infos # <<>> /\ status \notin {ErrSendQuery, NotExists}
                 /\ pc' = "read" /\ UNCHANGED <<error, answer>>
           /\ status \in {ErrSendQuery, NotExists} => Answer(FALSE, {}) /\ error' = error
PROOF
  <1>1. CASE status \in {ErrSendQuery, NotExists} \/ req.union
    BY <1>1, Zenon DEF LookedUp
  <1>2. CASE ~(status \in {ErrSendQuery, NotExists} \/ req.union) /\ req.badCams
    BY <1>2, Zenon DEF LookedUp
  <1>3. CASE /\ ~(status \in {ErrSendQuery, NotExists} \/ req.union) /\ ~req.badCams
             /\ infos = <<>>
    BY <1>3, Zenon DEF LookedUp
  <1>4. CASE /\ ~(status \in {ErrSendQuery, NotExists} \/ req.union) /\ ~req.badCams
             /\ infos # <<>>
    BY <1>4, Zenon DEF LookedUp
  <1> QED BY <1>1, <1>2, <1>3, <1>4

LEMMA LookedUpType ==
    ASSUME TypeOK, NEW status \in Statuses, NEW infos \in Seq(Analytics), LookedUp(status, infos)
    PROVE  WorkTypes' /\ ReadsWithin'
PROOF
  <1>1. /\ infoAboutAns' = infos /\ next' = 1 /\ retErr' = status /\ data' = data
        /\ \/ Answer(FALSE, {}) /\ error' = error
           \/ error' = TRUE /\ Decided(NotExists, TRUE)
           \/ infos = <<>> /\ error' = error /\ Decided(status, error)
           \/ infos # <<>> /\ pc' = "read" /\ UNCHANGED <<error, answer>>
    BY LookedUpCases
  <1>2. data' \subseteq 1..MaxIdx /\ error' \in BOOLEAN /\ NotExists \in Statuses
    BY <1>1 DEF TypeOK, Statuses
  <1>3. pc' \in Points /\ ok' \in BOOLEAN /\ shown' \subseteq 1..MaxIdx
    <2>1. CASE Answer(FALSE, {})
      BY <2>1, AnswerType
    <2>2. CASE Decided(NotExists, TRUE) \/ Decided(status, error)
      <3>1. error \in BOOLEAN
        BY DEF TypeOK
      <3> QED BY <1>2, <2>2, <3>1, DecidedType
    <2>3. CASE pc' = "read" /\ UNCHANGED answer
      BY <2>3 DEF answer, Points, TypeOK
    <2> QED BY <1>1, <2>1, <2>2, <2>3
  <1>4. ReadsWithin'
    <2>1. CASE pc' = "read"
      <3>1. infos # <<>>
        BY <1>1, <2>1 DEF Answer, Decided
      <3>2. 1 \in DOMAIN infos
        BY <3>1
      <3> QED BY <1>1, <3>2 DEF ReadsWithin
    <2> QED BY <2>1 DEF ReadsWithin
  <1> QED BY <1>1, <1>2, <1>3, <1>4 DEF WorkTypes

LEMMA DueType == ASSUME TypeOK PROVE Due \subseteq 1..MaxIdx /\ Live \subseteq 1..MaxIdx
PROOF
  BY DEF Due, Live, TypeOK, Analytics

\* The thread's own steps leave the database alone.
LEMMA ThreadType ==
    ASSUME TypeInv, WorkTypes', ReadsWithin', UNCHANGED <<database, req, due, live>>, unread' \in Nat,
           cut' \in BOOLEAN, lost' \subseteq 1..MaxIdx, faults' \in Nat,
           UNCHANGED <<changes, requests>>
    PROVE  TypeInv'
PROOF
  BY DEF TypeInv, TypeOK, WorkTypes, RegistryKept, database

LEMMA BeginType == ASSUME TypeInv, NEW r \in Requests, Begin(r) PROVE TypeInv'
PROOF
  <1>1. pc' \in Points \ {"read"}
    BY DEF Begin, Points
  <1>2. due' \subseteq 1..MaxIdx /\ live' \subseteq 1..MaxIdx
    BY DueType DEF Begin, TypeInv
  <1>3. retErr' \in Statuses /\ infoAboutAns' \in Seq(Analytics)
    BY EmptySeq DEF Begin, Statuses
  <1>4. UNCHANGED <<registry, nextIdx, contents, ok, shown, faults, changes>>
    BY DEF Begin, database, answer
  <1>5. next' = 1 /\ data' = {} /\ error' = FALSE /\ unread' = 0 /\ cut' = FALSE
        /\ lost' = {} /\ req' = r /\ requests' = requests + 1
    BY DEF Begin
  <1>6. RegistryKept' /\ ReadsWithin'
    BY <1>1, <1>4 DEF TypeInv, RegistryKept, ReadsWithin
  <1>7. pc' \in Points /\ 1 \in Nat \ {0} /\ {} \subseteq 1..MaxIdx /\ 0 \in Nat
    BY <1>1
  <1>8. requests + 1 \in Nat
    BY DEF TypeInv, TypeOK
  <1>9. TypeOK
    BY DEF TypeInv
  <1> HIDE DEF TypeInv
  <1>10. TypeOK'
    BY <1>2, <1>3, <1>4, <1>5, <1>7, <1>8, <1>9 DEF TypeOK
  <1> QED BY <1>6, <1>10 DEF TypeInv

LEMMA TimeLineType == ASSUME TypeInv, NEW status \in Statuses, GetTimeLine(status) PROVE TypeInv'
PROOF
  <1>0. TypeOK
    BY DEF TypeInv
  <1>1. faults' \in Nat /\ UNCHANGED <<changes, requests>>
    BY <1>0, StatementType DEF GetTimeLine
  <1>2. pc' \in Points \ {"read"} /\ ok' \in BOOLEAN /\ shown' \subseteq 1..MaxIdx
    <2>1. CASE status = NoError
      BY <1>0, <2>1 DEF GetTimeLine, Points, TypeOK, answer
    <2>2. CASE status # NoError
      BY <1>0, <2>2, AnswerType DEF GetTimeLine, Answer, Points
    <2> QED BY <2>1, <2>2
  <1> QED BY <1>0, <1>1, <1>2, ThreadType DEF GetTimeLine, WorkTypes, history, TypeOK, ReadsWithin

LEMMA FillAllType ==
    ASSUME TypeInv, NEW status \in Statuses, NEW S \in SUBSET registry, NEW found \in Orders(S),
           FillAll(status, found)
    PROVE  TypeInv'
PROOF
  <1>0. TypeOK
    BY DEF TypeInv
  <1>1. found \in Seq(Analytics)
    BY ListingType
  <1> DEFINE ret == IF status = ErrConnectDB THEN NotExists ELSE status
  <1>2. LookedUp(ret, found) /\ ret \in Statuses
    BY DEF FillAll, Statuses
  <1>3. WorkTypes' /\ ReadsWithin'
    BY <1>0, <1>1, <1>2, LookedUpType
  <1>4. faults' \in Nat /\ UNCHANGED <<changes, requests>>
    BY <1>0, StatementType DEF FillAll
  <1>5. unread' \in Nat /\ cut' \in BOOLEAN /\ lost' \subseteq 1..MaxIdx
    <2>1. CASE status = NoError
      <3>1. cut' \in BOOLEAN
        BY <2>1 DEF FillAll
      <3> QED BY <1>0, <3>1 DEF FillAll, TypeOK
    <2>2. CASE status # NoError
      BY <1>0, <2>2 DEF FillAll, TypeOK
    <2> QED BY <2>1, <2>2
  <1> QED BY <1>3, <1>4, <1>5, ThreadType DEF FillAll

LEMMA FillOneType == ASSUME TypeInv, NEW status \in Statuses, FillOne(status) PROVE TypeInv'
PROOF
  <1>0. TypeOK
    BY DEF TypeInv
  <1> DEFINE rows   == {a \in registry : a.idx = req.types[next]}
             usable == Usable(rows)
             known  == status = NoError /\ usable # {}
             ret    == IF status = ErrSendQuery THEN status
                       ELSE IF known THEN NoError ELSE NotExists
             infos  == IF known THEN Append(infoAboutAns, CHOOSE a \in usable : TRUE)
                       ELSE infoAboutAns
  <1>1. faults' \in Nat /\ UNCHANGED <<changes, requests>>
    BY <1>0, StatementType DEF FillOne
  <1>2. ret \in Statuses
    BY DEF Statuses
  <1>3. infos \in Seq(Analytics)
    <2>1. known => (CHOOSE a \in usable : TRUE) \in Analytics
      BY <1>0 DEF TypeOK, Usable
    <2> QED BY <1>0, <2>1, AppendProperties DEF TypeOK
  <1>4. unread' \in Nat /\ cut' \in BOOLEAN /\ lost' \subseteq 1..MaxIdx
    BY <1>0 DEF FillOne, TypeOK
  <1>5. WorkTypes' /\ ReadsWithin'
    <2>1. CASE next = Len(req.types)
      <3>1. LookedUp(ret, infos)
        BY <2>1 DEF FillOne
      <3> HIDE DEF ret, infos
      <3> QED BY <1>0, <1>2, <1>3, <3>1, LookedUpType
    <2>2. CASE next # Len(req.types)
      <3>1. /\ infoAboutAns' = infos /\ next' = next + 1 /\ retErr' = ret
            /\ UNCHANGED <<pc, data, error, answer>> /\ pc = "types"
        BY <2>2 DEF FillOne
      <3> HIDE DEF ret, infos
      <3> QED BY <1>0, <1>2, <1>3, <3>1 DEF WorkTypes, TypeOK, answer, ReadsWithin
    <2> QED BY <2>1, <2>2
  <1> QED BY <1>1, <1>4, <1>5, ThreadType DEF FillOne

LEMMA ReadTableType == ASSUME TypeInv, NEW status \in Statuses, ReadTable(status) PROVE TypeInv'
PROOF
  <1>0. TypeOK /\ next \in DOMAIN infoAboutAns
    BY DEF TypeInv, ReadTable, ReadsWithin
  <1>1. faults' \in Nat /\ UNCHANGED <<changes, requests>>
    BY <1>0, StatementType DEF ReadTable, Collect
  <1>2. retErr' = status /\ error' \in BOOLEAN
    BY DEF ReadTable, Collect
  <1>3. data' \subseteq 1..MaxIdx /\ lost' \subseteq 1..MaxIdx
    <2>1. infoAboutAns[next] \in Analytics
      BY <1>0, ElementOfSeq DEF TypeOK
    <2>2. infoAboutAns[next].idx \in 1..MaxIdx
      BY <2>1 DEF Analytics
    <2> QED BY <1>0, <2>2 DEF ReadTable, Collect, TypeOK
  <1>4. /\ pc' \in Points /\ ok' \in BOOLEAN /\ shown' \subseteq 1..MaxIdx
        /\ next' \in Nat \ {0} /\ ReadsWithin'
    <2>1. CASE next = Len(infoAboutAns)
      <3>1. Decided(status, error') /\ next' = next
        BY <2>1 DEF ReadTable
      <3>2. pc' = "answered"
        BY <3>1 DEF Decided, Answer
      <3> QED BY <1>0, <1>2, <1>3, <3>1, <3>2, DecidedType DEF TypeOK, ReadsWithin
    <2>2. CASE next # Len(infoAboutAns)
      <3>1. next' = next + 1 /\ UNCHANGED <<pc, answer, infoAboutAns>>
        BY <2>2 DEF ReadTable
      <3>2. next + 1 \in DOMAIN infoAboutAns
        BY <1>0, <2>2 DEF TypeOK
      <3> QED BY <1>0, <3>1, <3>2 DEF TypeOK, answer, ReadsWithin
    <2> QED BY <2>1, <2>2
  <1>5. WorkTypes'
    BY <1>0, <1>2, <1>3, <1>4 DEF ReadTable, WorkTypes, TypeOK
  <1> QED BY <1>0, <1>1, <1>3, <1>4, <1>5, ThreadType DEF ReadTable, TypeOK

LEMMA OtherType == ASSUME TypeInv, TypeThrows \/ NoTypes \/ Return PROVE TypeInv'
PROOF
  <1>0. TypeOK
    BY DEF TypeInv
  <1>1. /\ UNCHANGED <<database, req, due, live, faults, changes, requests>>
        /\ unread' \in Nat /\ cut' \in BOOLEAN /\ faults' \in Nat
        /\ lost' \subseteq 1..MaxIdx
    BY <1>0 DEF TypeThrows, NoTypes, Return, history, counts, TypeOK
  <1>2. CASE TypeThrows
    <2>1. pc' = "answered" /\ ok' = FALSE /\ shown' = {} /\ UNCHANGED work
      BY <1>2 DEF TypeThrows, Thrown, Answer
    <2>2. WorkTypes' /\ ReadsWithin'
      BY <1>0, <2>1 DEF WorkTypes, ReadsWithin, work, TypeOK, Points
    <2> QED BY <1>1, <2>2, ThreadType
  <1>3. CASE NoTypes
    <2>1. UndefinedError \in Statuses /\ <<>> \in Seq(Analytics)
      BY EmptySeq DEF Statuses
    <2>2. WorkTypes' /\ ReadsWithin'
      BY <1>0, <1>3, <2>1, LookedUpType DEF NoTypes
    <2> QED BY <1>1, <2>2, ThreadType
  <1>4. CASE Return
    <2>1. WorkTypes' /\ ReadsWithin'
      BY <1>0, <1>4 DEF Return, WorkTypes, ReadsWithin, work, answer, TypeOK, Points
    <2> QED BY <1>1, <2>1, ThreadType
  <1> QED BY <1>2, <1>3, <1>4

\* What other instances do.
Outside ==
    \/ \E a \in registry : Unregister(a) \/ Reregister(a) \/ Toggle(a)
    \/ \E t \in Tables, c \in Contents : SetContents(t, c)

\* A row keeps its idx and its table; a new one gets the next idx.
LEMMA RegistryChanges ==
    ASSUME TypeInv, Outside
    PROVE  /\ RegistryKept' /\ registry' \subseteq Analytics
           /\ nextIdx \in Nat /\ nextIdx' \in Nat /\ nextIdx' >= nextIdx
           /\ \A b \in registry' :
                b.idx = nextIdx \/ \E a \in registry : a.idx = b.idx /\ a.table = b.table
           /\ contents' \in [Tables -> Contents]
           /\ Changed
PROOF
  <1>0. /\ registry \subseteq Analytics /\ nextIdx \in Nat /\ nextIdx >= 1
        /\ IsFiniteSet(registry) /\ contents \in [Tables -> Contents]
        /\ \A r \in registry : r.idx < nextIdx
        /\ \A r1, r2 \in registry : r1.idx = r2.idx => r1 = r2
    BY DEF TypeInv, TypeOK, RegistryKept
  <1>1. CASE \E t \in Tables, c \in Contents : SetContents(t, c)
    <2>1. PICK t \in Tables, c \in Contents : SetContents(t, c)
      BY <1>1
    <2>2. UNCHANGED <<registry, nextIdx>> /\ Changed /\ contents' \in [Tables -> Contents]
      BY <1>0, <2>1 DEF SetContents
    <2> QED BY <1>0, <2>2 DEF RegistryKept
  <1>2. ASSUME NEW a \in registry, Unregister(a)
        PROVE  /\ RegistryKept' /\ registry' \subseteq Analytics
               /\ nextIdx' = nextIdx /\ contents' = contents /\ Changed
               /\ registry' \subseteq registry
    <2>1. /\ registry' = registry \ {a} /\ Changed
          /\ nextIdx' = nextIdx /\ contents' = contents
      BY <1>2 DEF Unregister
    <2>2. IsFiniteSet(registry \ {a})
      BY <1>0, FS_RemoveElement
    <2> QED BY <1>0, <2>1, <2>2 DEF RegistryKept
  <1>3. ASSUME NEW a \in registry, Reregister(a)
        PROVE  /\ RegistryKept' /\ registry' \subseteq Analytics
               /\ nextIdx' = nextIdx + 1 /\ contents' = contents /\ Changed
               /\ \A b \in registry' : b.idx = nextIdx \/ b \in registry
    <2> DEFINE new == [a EXCEPT !.idx = nextIdx, !.enable = TRUE]
    <2>1. /\ registry' = (registry \ {a}) \cup {new} /\ Changed
          /\ nextIdx' = nextIdx + 1 /\ contents' = contents /\ nextIdx <= MaxIdx
      BY <1>3 DEF Reregister
    <2>2. new \in Analytics /\ new.idx = nextIdx
      <3>1. a \in Analytics /\ nextIdx \in 1..MaxIdx
        BY <1>0, <2>1, BoundsAssumption
      <3> QED BY <3>1 DEF Analytics
    <2> HIDE DEF new
    <2>3. IsFiniteSet((registry \ {a}) \cup {new})
      BY <1>0, FS_RemoveElement, FS_AddElement
    <2>4. \A r \in registry : r.idx \in Nat
      BY <1>0 DEF Analytics
    <2>5. \A b \in registry' : b.idx < nextIdx'
      BY <1>0, <2>1, <2>2, <2>4
    <2>6. \A r1, r2 \in registry' : r1.idx = r2.idx => r1 = r2
      BY <1>0, <2>1, <2>2, <2>4
    <2> QED BY <1>0, <2>1, <2>2, <2>3, <2>5, <2>6 DEF RegistryKept
  <1>4. ASSUME NEW a \in registry, Toggle(a)
        PROVE  /\ RegistryKept' /\ registry' \subseteq Analytics
               /\ nextIdx' = nextIdx /\ contents' = contents /\ Changed
               /\ \A b \in registry' : \E r \in registry : r.idx = b.idx /\ r.table = b.table
    <2> DEFINE new == [a EXCEPT !.enable = ~@]
    <2>1. /\ registry' = (registry \ {a}) \cup {new} /\ Changed
          /\ nextIdx' = nextIdx /\ contents' = contents
      BY <1>4 DEF Toggle
    <2>2. new \in Analytics /\ new.idx = a.idx /\ new.table = a.table
      <3>1. a \in Analytics
        BY <1>0
      <3>2. a \in [idx : 1..MaxIdx, table : Tables \cup {NoTable}, enable : BOOLEAN]
        BY <3>1 DEF Analytics
      <3>3. new.idx = a.idx /\ new.table = a.table
        BY <3>2
      <3>4. new = [idx |-> a.idx, table |-> a.table, enable |-> ~a.enable]
        BY <3>2
      <3>5. (~a.enable) \in BOOLEAN /\ a.idx \in 1..MaxIdx /\ a.table \in Tables \cup {NoTable}
        BY <3>2
      <3> QED BY <3>3, <3>4, <3>5 DEF Analytics
    <2> HIDE DEF new
    <2>3. IsFiniteSet((registry \ {a}) \cup {new})
      BY <1>0, FS_RemoveElement, FS_AddElement
    <2>4. \A b \in registry' : b = new \/ b \in registry
      BY <2>1
    <2>5. \A b \in registry' : b.idx < nextIdx'
      BY <1>0, <2>1, <2>2, <2>4
    <2>6. \A r1, r2 \in registry' : r1.idx = r2.idx => r1 = r2
      BY <1>0, <2>1, <2>2
    <2>7. \A b \in registry' : \E r \in registry : r.idx = b.idx /\ r.table = b.table
      BY <2>2, <2>4
    <2> QED BY <1>0, <2>1, <2>2, <2>3, <2>5, <2>6, <2>7 DEF RegistryKept
  <1> QED BY <1>0, <1>1, <1>2, <1>3, <1>4 DEF Outside

LEMMA OutsideType == ASSUME TypeInv, Outside PROVE TypeInv'
PROOF
  <1>1. /\ RegistryKept' /\ registry' \subseteq Analytics /\ nextIdx' \in Nat
        /\ contents' \in [Tables -> Contents] /\ Changed
    BY RegistryChanges
  <1>2. /\ due' \subseteq due /\ changes' = changes + 1
        /\ live' \subseteq live \cup {a.idx : a \in registry'}
        /\ UNCHANGED <<pc, req, work, answer, unread, cut, lost, faults, requests>>
    BY <1>1 DEF Changed, Live
  <1>3. \A a \in registry' : a.idx \in 1..MaxIdx
    BY <1>1 DEF Analytics
  <1> QED BY <1>1, <1>2, <1>3 DEF TypeInv, TypeOK, ReadsWithin, work, answer

LEMMA TypeInvInit == Init => TypeInv
PROOF
  <1> SUFFICES ASSUME Init PROVE TypeInv
    OBVIOUS
  <1>1. Cardinality(Registry) \in Nat
    BY RegistryAssumption, FS_CardinalityType
  <1>2. \A a \in Registry : a.idx \in Nat
    BY RegistryAssumption DEF Analytics
  <1>3. RegistryKept
    BY <1>1, <1>2, RegistryAssumption DEF Init, RegistryKept
  <1>4. pc \in Points /\ retErr \in Statuses /\ infoAboutAns \in Seq(Analytics)
    BY EmptySeq DEF Init, Points, Statuses
  <1>5. nextIdx \in Nat /\ next \in Nat \ {0} /\ registry \subseteq Analytics
    BY <1>1, RegistryAssumption DEF Init
  <1>6. /\ contents \in [Tables -> Contents] /\ req \in Requests
        /\ data = {} /\ error = FALSE /\ ok = FALSE /\ shown = {} /\ due = {} /\ live = {} /\ unread = 0
        /\ cut = FALSE /\ lost = {} /\ faults = 0 /\ changes = 0 /\ requests = 0
    BY DEF Init
  <1>7. TypeOK
    BY <1>4, <1>5, <1>6 DEF TypeOK
  <1> QED BY <1>3, <1>7 DEF TypeInv, ReadsWithin, Init

LEMMA TypeInvNext == TypeInv /\ [Next]_vars => TypeInv'
PROOF
  <1> SUFFICES ASSUME TypeInv, [Next]_vars PROVE TypeInv'
    OBVIOUS
  <1>1. CASE UNCHANGED vars
    BY <1>1 DEF vars, TypeInv, TypeOK, RegistryKept, ReadsWithin, database, work, answer,
                history, counts
  <1>2. ASSUME NEW status \in Statuses, GetTimeLine(status) \/ FillOne(status) \/ ReadTable(status)
        PROVE  TypeInv'
    BY <1>2, TimeLineType, FillOneType, ReadTableType
  <1>3. ASSUME NEW status \in Statuses, NEW S \in SUBSET registry, NEW found \in Orders(S),
               FillAll(status, found)
        PROVE  TypeInv'
    BY <1>3, FillAllType
  <1>4. CASE Outside
    BY <1>4, OutsideType
  <1>5. CASE (\E r \in Requests : Begin(r)) \/ TypeThrows \/ NoTypes \/ Return
    BY <1>5, BeginType, OtherType
  <1> QED BY <1>1, <1>2, <1>3, <1>4, <1>5 DEF Next, Outside

\* Types, for every registry and every set of requests.
THEOREM EventQueryTypeCorrect == Spec => []TypeOK
PROOF
  <1>1. TypeInv => TypeOK
    BY DEF TypeInv
  <1> QED BY <1>1, TypeInvInit, TypeInvNext, PTL DEF Spec

----
\* What an answer true leaves out.

LEMMA DueRow ==
    ASSUME TypeInv, NEW idx \in Due
    PROVE  \E b \in registry : /\ b.idx = idx /\ b.enable /\ b.table # NoTable
                               /\ b.table \in Tables /\ contents[b.table] = "full"
PROOF
  <1>1. PICK b \in registry : b.idx = idx /\ Enabled(b) /\ contents[b.table] = "full"
    BY DEF Due
  <1>2. b.table \in Tables \cup {NoTable}
    BY DEF TypeInv, TypeOK, Analytics
  <1> QED BY <1>1, <1>2 DEF Enabled

LEMMA DecidedStatus ==
    ASSUME NEW status, NEW text \in BOOLEAN, Decided(status, text)
    PROVE  /\ pc' = "answered"
           /\ ok' /\ req.kind = "asis" => ~text
           /\ req.kind = "asis" \/ status = NoError => shown' = data'
PROOF
  <1>1. CASE req.kind = "asis"
    BY <1>1 DEF Decided, Answer
  <1>2. CASE req.kind # "asis"
    BY <1>2 DEF Decided, Answer
  <1> QED BY <1>1, <1>2

\* The lookup ends with everything due that was asked for.
LEMMA LookedUpRight ==
    ASSUME TypeInv, NEW status, NEW infos \in Seq(Analytics), LookedUp(status, infos),
           UNCHANGED <<req, due, lost>>, lost = {},
           status \notin {ErrSendQuery, NotExists} /\ AllLookedUp' =>
             \A idx \in due : AskedFor(idx) => \E j \in DOMAIN infos : infos[j].idx = idx
    PROVE  LookupInv' /\ ReadInv' /\ AnswerInv'
PROOF
  <1>1. /\ infoAboutAns' = infos /\ next' = 1 /\ retErr' = status /\ data' = data
        /\ \/ Answer(FALSE, {}) /\ error' = error
           \/ req.badCams /\ error' = TRUE /\ Decided(NotExists, TRUE)
           \/ infos = <<>> /\ error' = error /\ Decided(status, error)
           \/ /\ infos # <<>> /\ status \notin {ErrSendQuery, NotExists}
              /\ pc' = "read" /\ UNCHANGED <<error, answer>>
        /\ status \in {ErrSendQuery, NotExists} => Answer(FALSE, {}) /\ error' = error
    BY LookedUpCases
  <1>2. \A idx : AskedFor(idx)' = AskedFor(idx)
    BY DEF AskedFor
  <1>3. CASE Answer(FALSE, {})
    BY <1>3 DEF Answer, LookupInv, ReadInv, AnswerInv
  <1>4. CASE req.badCams /\ error' = TRUE /\ Decided(NotExists, TRUE)
    <2>1. pc' = "answered" /\ (ok' => req.kind # "asis")
      BY <1>4, DecidedStatus
    <2>2. req.kind = "asis"
      BY <1>4, RequestsAssumption DEF TypeInv, TypeOK, Kinds
    <2> QED BY <2>1, <2>2 DEF LookupInv, ReadInv, AnswerInv
  <1>5. CASE /\ status \notin {ErrSendQuery, NotExists}
             /\ infos = <<>> /\ error' = error /\ Decided(status, error)
    <2>1. error \in BOOLEAN
      BY DEF TypeInv, TypeOK
    <2>2. pc' = "answered" /\ (ok' /\ req.kind = "asis" => ~error')
      BY <1>5, <2>1, DecidedStatus
    <2>3. DOMAIN infos = {}
      BY <1>5
    <2>4. AllLookedUp' => Told'
      BY <1>2, <1>5, <2>3 DEF Told
    <2> QED BY <2>2, <2>4 DEF LookupInv, ReadInv, AnswerInv
  <1>6. CASE status \notin {ErrSendQuery, NotExists} /\ pc' = "read"
    <2>1. AllLookedUp' => \A idx \in due' : AskedFor(idx)' => Found(idx)'
      BY <1>1, <1>2, <1>6 DEF Found
    <2>2. \A j \in DOMAIN infos : ~(j < 1)
      OBVIOUS
    <2> QED BY <1>1, <1>6, <2>1, <2>2 DEF LookupInv, ReadInv, AnswerInv
  <1> QED BY <1>1, <1>3, <1>4, <1>5, <1>6

LEMMA BeginRight == ASSUME TypeInv, NEW r \in Requests, Begin(r) PROVE QueryInv'
PROOF
  <1>1. infoAboutAns' = <<>> /\ next' = 1 /\ req' = r /\ due' = Due
        /\ registry' = registry /\ contents' = contents /\ lost' = {}
    BY DEF Begin, database
  <1>2. /\ pc' \in {"ranges", "all", "types"}
        /\ pc' = "all" => r.types = All
        /\ pc' = "types" => r.types # All
    BY DEF Begin
  <1>3. Due' = Due
    BY <1>1 DEF Due
  <1>4. r.types # All => \A j \in DOMAIN r.types : ~(j < 1)
    BY RequestsAssumption DEF Asked
  <1> QED BY <1>1, <1>2, <1>3, <1>4 DEF QueryInv, InfosKept, LookupInv, ReadInv, AnswerInv

LEMMA TimeLineRight ==
    ASSUME TypeInv, QueryInv, NEW status, GetTimeLine(status)
    PROVE  QueryInv'
PROOF
  <1>1. /\ pc = "ranges" /\ next = 1 /\ next' = next
        /\ UNCHANGED <<registry, nextIdx, contents, req, infoAboutAns, due, lost>> /\ lost = {}
    BY DEF GetTimeLine, database, history, QueryInv, LookupInv
  <1>2. InfosKept' /\ due' \subseteq Due'
    BY <1>1 DEF QueryInv, InfosKept, Due
  <1>3. CASE status = NoError
    <2>1. pc' = (IF req.types = All THEN "all" ELSE "types")
      BY <1>3 DEF GetTimeLine
    <2>2. req.types # All => \A j \in DOMAIN req.types : ~(j < 1)
      BY RequestsAssumption DEF Asked, TypeInv, TypeOK
    <2>3. LookupInv' /\ ReadInv' /\ AnswerInv'
      BY <1>1, <2>1, <2>2 DEF LookupInv, ReadInv, AnswerInv
    <2> QED BY <1>2, <2>3 DEF QueryInv
  <1>4. CASE status # NoError
    <2>1. pc' = "answered" /\ ok' = FALSE
      BY <1>4 DEF GetTimeLine, Answer
    <2> QED BY <1>2, <2>1 DEF QueryInv, LookupInv, ReadInv, AnswerInv
  <1> QED BY <1>3, <1>4

LEMMA FillAllRight ==
    ASSUME TypeInv, QueryInv, NEW status \in Statuses, NEW S \in SUBSET registry,
           NEW found \in Orders(S), FillAll(status, found)
    PROVE  QueryInv'
PROOF
  <1> DEFINE ret == IF status = ErrConnectDB THEN NotExists ELSE status
             enabled == {a \in registry : a.enable}
  <1>1. LookedUp(ret, found) /\ UNCHANGED <<registry, nextIdx, contents, req, due, unread, lost>>
        /\ lost = {}
    BY DEF FillAll, database, QueryInv, LookupInv
  <1>2. found \in Seq(Analytics) /\ found \in Seq(registry)
    BY ListingType
  <1>3. infoAboutAns' = found
    BY <1>1 DEF LookedUp
  <1>4. ASSUME status = NoError
        PROVE  \E listed \in SUBSET enabled :
                  /\ {found[i] : i \in DOMAIN found} = Usable(listed)
                  /\ cut' = (listed # enabled)
    BY <1>4 DEF FillAll
  <1>5. status # NoError => found = <<>>
    BY DEF FillAll
  <1>6. InfosKept'
    <2>1. CASE status = NoError
      <3>1. \A j \in DOMAIN found : found[j] \in registry /\ found[j].table \in Tables
        <4>1. PICK listed \in SUBSET enabled :
                 {found[i] : i \in DOMAIN found} = Usable(listed)
          BY <1>4, <2>1
        <4>2. \A j \in DOMAIN found : found[j] \in registry /\ Enabled(found[j])
          BY <4>1 DEF Usable
        <4>3. \A a \in registry : a.table \in Tables \cup {NoTable}
          BY DEF TypeInv, TypeOK, Analytics
        <4> QED BY <4>2, <4>3 DEF Enabled
      <3> QED BY <1>1, <1>3, <3>1 DEF InfosKept, TypeInv, RegistryKept
    <2>2. CASE status # NoError
      <3>1. DOMAIN found = {}
        BY <1>5, <2>2
      <3> QED BY <1>3, <3>1 DEF InfosKept
    <2> QED BY <2>1, <2>2
  <1>7. ASSUME ret \notin {ErrSendQuery, NotExists}, AllLookedUp', NEW idx \in due
        PROVE  \E j \in DOMAIN found : found[j].idx = idx
    <2>1. PICK b \in registry : b.idx = idx /\ b.enable /\ b.table # NoTable
      BY DueRow DEF QueryInv
    <2>2. status = NoError
      <3>1. b \in enabled
        BY <2>1
      <3>2. status = NoError \/ status \in Failures
        BY <3>1 DEF FillAll, Statement
      <3> QED BY <1>7, <3>2 DEF Failures
    <2>3. PICK listed \in SUBSET enabled :
             /\ {found[i] : i \in DOMAIN found} = Usable(listed)
             /\ cut' = (listed # enabled)
      BY <1>4, <2>2
    <2>4. ~cut'
      BY <1>7 DEF AllLookedUp
    <2>5. listed = enabled
      BY <2>3, <2>4
    <2>6. b \in Usable(listed)
      BY <2>1, <2>5 DEF Enabled, Usable
    <2> QED BY <2>1, <2>3, <2>6
  <1>8. LookupInv' /\ ReadInv' /\ AnswerInv'
    <2> HIDE DEF ret
    <2> QED BY <1>1, <1>2, <1>7, LookedUpRight
  <1>9. due' \subseteq Due'
    BY <1>1 DEF QueryInv, Due
  <1> QED BY <1>6, <1>8, <1>9 DEF QueryInv

\* One type looked up: unless the statement failed, its analytics is found if it is due.
LEMMA FillOneRight ==
    ASSUME TypeInv, QueryInv, NEW status \in Statuses, FillOne(status)
    PROVE  QueryInv'
PROOF
  <1> DEFINE rows   == {a \in registry : a.idx = req.types[next]}
             usable == Usable(rows)
             known  == status = NoError /\ usable # {}
             ret    == IF status = ErrSendQuery THEN status
                       ELSE IF known THEN NoError ELSE NotExists
             new    == CHOOSE a \in usable : TRUE
             infos  == IF known THEN Append(infoAboutAns, new) ELSE infoAboutAns
  <1>1. /\ pc = "types" /\ next \in DOMAIN req.types /\ req.types # All
        /\ UNCHANGED <<registry, nextIdx, contents, req, due, lost>> /\ lost = {}
    BY DEF FillOne, database, QueryInv, LookupInv
  <1>2. infoAboutAns \in Seq(Analytics) /\ req.types \in Seq(Nat \cup {Mistyped})
    BY <1>1, RequestsAssumption DEF TypeInv, TypeOK, Asked
  <1>3. known => new \in registry /\ new.table \in Tables /\ new \in Analytics
    <2>1. known => new \in registry /\ Enabled(new)
      BY DEF Usable
    <2> QED BY <2>1 DEF TypeInv, TypeOK, Analytics, Enabled
  <1>4. /\ infos \in Seq(Analytics)
        /\ DOMAIN infoAboutAns \subseteq DOMAIN infos
        /\ \A j \in DOMAIN infoAboutAns : infos[j] = infoAboutAns[j]
        /\ \A j \in DOMAIN infos :
              \/ infos[j] = new /\ known
              \/ j \in DOMAIN infoAboutAns /\ infos[j] = infoAboutAns[j]
        /\ known => \E j \in DOMAIN infos : infos[j] = new
    <2>1. CASE known
      <3>1. infos = Append(infoAboutAns, new) /\ new \in Analytics
        BY <1>3, <2>1
      <3> HIDE DEF new, known, infos
      <3>2. Len(infos) = Len(infoAboutAns) + 1 /\ infos[Len(infoAboutAns) + 1] = new
            /\ infos \in Seq(Analytics)
            /\ \A j \in 1..Len(infoAboutAns) : infos[j] = infoAboutAns[j]
        BY <1>2, <3>1, AppendProperties
      <3>3. Len(infoAboutAns) \in Nat /\ DOMAIN infoAboutAns = 1..Len(infoAboutAns)
            /\ DOMAIN infos = 1..(Len(infoAboutAns) + 1)
        BY <1>2, <3>2
      <3>4. \A j \in DOMAIN infos :
               infos[j] = new \/ (j \in DOMAIN infoAboutAns /\ infos[j] = infoAboutAns[j])
        BY <3>2, <3>3
      <3>5. /\ DOMAIN infoAboutAns \subseteq DOMAIN infos
            /\ \A j \in DOMAIN infoAboutAns : infos[j] = infoAboutAns[j]
            /\ \E j \in DOMAIN infos : infos[j] = new
        BY <3>2, <3>3
      <3> QED BY <2>1, <3>2, <3>4, <3>5, Zenon
    <2>2. CASE ~known
      BY <1>2, <2>2
    <2> QED BY <2>1, <2>2
  <1>5. infoAboutAns' = infos
    <2>1. CASE next = Len(req.types)
      BY <2>1 DEF FillOne, LookedUp
    <2>2. CASE next # Len(req.types)
      BY <2>2 DEF FillOne
    <2> QED BY <2>1, <2>2
  <1>6. AllLookedUp' => AllLookedUp /\ status \notin Failures
    BY DEF FillOne, AllLookedUp, TypeInv, TypeOK
  <1>7. ASSUME NEW idx \in due, req.types[next] = idx, status \notin Failures
        PROVE  known /\ new.idx = idx
    <2>1. PICK b \in registry : b.idx = idx /\ b.enable /\ b.table # NoTable
      BY DueRow DEF QueryInv
    <2>2. b \in usable /\ rows # {}
      BY <1>7, <2>1 DEF Enabled, Usable
    <2>3. Statement(status, IF rows = {} THEN NotExists ELSE NoError)
      BY DEF FillOne
    <2>4. status = NoError
      BY <1>7, <2>2, <2>3 DEF Statement
    <2> QED BY <1>7, <2>2, <2>4 DEF Usable
  <1> HIDE DEF known, new, infos
  <1>8. ASSUME AllLookedUp', NEW idx \in due, NEW k \in DOMAIN req.types, k <= next,
               req.types[k] = idx
        PROVE  \E j \in DOMAIN infos : infos[j].idx = idx
    <2>1. CASE k = next
      BY <1>4, <1>6, <1>7, <1>8, <2>1
    <2>2. CASE k # next
      <3>1. k < next
        BY <1>2, <1>8, <2>2 DEF TypeInv, TypeOK
      <3>2. Found(idx)
        BY <1>1, <1>6, <1>8, <3>1 DEF QueryInv, LookupInv
      <3> QED BY <1>4, <3>2 DEF Found
    <2> QED BY <2>1, <2>2
  <1>9. InfosKept'
    <2>1. ASSUME NEW j \in DOMAIN infos
          PROVE  /\ infos[j].idx < nextIdx /\ infos[j].table \in Tables
                 /\ \A b \in registry : b.idx = infos[j].idx => b.table = infos[j].table
      <3>1. CASE infos[j] = new /\ known
        BY <1>3, <3>1 DEF TypeInv, RegistryKept
      <3>2. CASE j \in DOMAIN infoAboutAns /\ infos[j] = infoAboutAns[j]
        BY <3>2 DEF QueryInv, InfosKept
      <3> QED BY <1>4, <3>1, <3>2
    <2> QED BY <1>1, <1>5, <2>1 DEF InfosKept
  <1>10. due' \subseteq Due'
    BY <1>1 DEF QueryInv, Due
  <1>11. LookupInv' /\ ReadInv' /\ AnswerInv'
    <2>1. CASE next = Len(req.types)
      <3>1. LookedUp(ret, infos)
        BY <2>1 DEF FillOne, known, new, infos
      <3>2. \A k \in DOMAIN req.types : k <= next
        BY <1>2, <2>1
      <3>3. ASSUME AllLookedUp', NEW idx \in due, AskedFor(idx)
            PROVE  \E j \in DOMAIN infos : infos[j].idx = idx
        BY <1>1, <1>8, <3>2, <3>3 DEF AskedFor
      <3> HIDE DEF ret
      <3> QED BY <1>1, <1>4, <3>1, <3>3, LookedUpRight
    <2>2. CASE next # Len(req.types)
      <3>1. pc' = "types" /\ next' = next + 1
        BY <1>1, <2>2 DEF FillOne
      <3>2. \A k \in DOMAIN req.types : k < next + 1 => k <= next
        BY <1>2 DEF TypeInv, TypeOK
      <3>3. LookupInv'
        BY <1>1, <1>5, <1>8, <3>1, <3>2 DEF LookupInv, Found
      <3> QED BY <3>1, <3>3 DEF ReadInv, AnswerInv
    <2> QED BY <2>1, <2>2
  <1> QED BY <1>9, <1>10, <1>11 DEF QueryInv

\* A table read: its events are collected if they are due, or it is lost, with an error
\* text.
LEMMA ReadTableRight ==
    ASSUME TypeInv, QueryInv, NEW status \in Statuses, ReadTable(status)
    PROVE  QueryInv'
PROOF
  <1> DEFINE info == infoAboutAns[next]
  <1>1. /\ pc = "read" /\ next \in DOMAIN infoAboutAns /\ next \in Nat
        /\ infoAboutAns \in Seq(Analytics)
        /\ UNCHANGED <<registry, nextIdx, contents, req, infoAboutAns, due, unread, cut>>
    BY DEF ReadTable, TypeInv, ReadsWithin, TypeOK, database
  <1>2. /\ error' = (error \/ status \notin {NoError, NotExists})
        /\ data' = (IF status = NoError THEN data \cup {info.idx} ELSE data)
        /\ lost' = (IF status \in Failures THEN lost \cup {info.idx} ELSE lost)
        /\ retErr' = status
        /\ Statement(status, SelectStatus[contents[info.table]])
    BY DEF ReadTable, Collect
  <1>3. InfosKept' /\ due' \subseteq Due'
    BY <1>1 DEF QueryInv, InfosKept, Due
  <1>4. ASSUME info.idx \in due
        PROVE  info.idx \in data' \cup lost'
    <2>1. PICK b \in registry : b.idx = info.idx /\ contents[b.table] = "full"
      BY <1>4, DueRow DEF QueryInv
    <2>2. b.table = info.table
      BY <1>1, <2>1 DEF QueryInv, InfosKept
    <2>3. SelectStatus[contents[info.table]] = NoError
      BY <2>1, <2>2 DEF SelectStatus
    <2> HIDE DEF info
    <2>4. status = NoError \/ status \in Failures
      BY <1>2, <2>3 DEF Statement
    <2>5. CASE status = NoError
      BY <1>2, <2>5
    <2>6. CASE status \in Failures
      BY <1>2, <2>6
    <2> QED BY <2>4, <2>5, <2>6
  <1>5. ASSUME NEW j \in DOMAIN infoAboutAns, j <= next, infoAboutAns[j].idx \in due
        PROVE  infoAboutAns[j].idx \in data' \cup lost'
    <2>1. CASE j = next
      BY <1>4, <1>5, <2>1
    <2>2. CASE j # next
      <3>1. j < next
        BY <1>1, <1>5, <2>2
      <3>2. infoAboutAns[j].idx \in data \cup lost
        BY <1>1, <1>5, <3>1 DEF QueryInv, ReadInv
      <3> QED BY <1>2, <3>2
    <2> QED BY <2>1, <2>2
  <1>6. AllLookedUp' = AllLookedUp /\ \A idx : AskedFor(idx)' = AskedFor(idx)
    BY <1>1 DEF AllLookedUp, AskedFor
  <1>6a. lost' # {} => error'
    <2>1. lost # {} => error
      BY <1>1 DEF QueryInv, ReadInv
    <2> HIDE DEF info
    <2>2. CASE status \in Failures
      <3>1. (status \notin {NoError, NotExists}) = TRUE
        BY <2>2 DEF Failures, ErrSendQuery, ErrConnectDB, NoError, NotExists
      <3>2. error' = (error \/ status \notin {NoError, NotExists})
        BY <1>2
      <3> QED BY <3>1, <3>2, Zenon
    <2>3. CASE status \notin Failures
      <3>1. lost' = lost
        BY <1>2, <2>3
      <3>2. error => error'
        BY <1>2, Zenon
      <3> QED BY <2>1, <3>1, <3>2
    <2> QED BY <2>2, <2>3
  <1>7. AllLookedUp => \A idx \in due : AskedFor(idx) => Found(idx)
    BY <1>1 DEF QueryInv, ReadInv
  <1>8. CASE next = Len(infoAboutAns)
    <2>1. Decided(status, error') /\ error' \in BOOLEAN
      BY <1>2, <1>8 DEF ReadTable
    <2>2. /\ pc' = "answered"
          /\ ok' /\ req.kind = "asis" => ~error'
          /\ req.kind = "asis" \/ status = NoError => shown' = data'
      BY <2>1, DecidedStatus
    <2>3. \A j \in DOMAIN infoAboutAns : j <= next
      BY <1>1, <1>8
    <2>4. ASSUME AllLookedUp, shown' = data'
          PROVE  Told'
      <3>1. ASSUME NEW idx \in due, AskedFor(idx)
            PROVE  idx \in data' \cup lost'
        <4>1. PICK j \in DOMAIN infoAboutAns : infoAboutAns[j].idx = idx
          BY <1>7, <2>4, <3>1 DEF Found
        <4> QED BY <1>5, <2>3, <2>4, <3>1, <4>1
      <3> QED BY <1>1, <1>6, <2>4, <3>1 DEF Told
    <2> QED BY <1>1, <1>2, <1>3, <1>6, <1>6a, <2>2, <2>4 DEF QueryInv, LookupInv, ReadInv, AnswerInv
  <1>9. CASE next # Len(infoAboutAns)
    <2>1. pc' = "read" /\ next' = next + 1
      BY <1>1, <1>9 DEF ReadTable
    <2>2. \A j \in DOMAIN infoAboutAns : j < next + 1 => j <= next
      BY <1>1
    <2>3. ReadInv'
      BY <1>1, <1>5, <1>6, <1>6a, <1>7, <2>1, <2>2 DEF ReadInv, Found
    <2> QED BY <1>3, <2>1, <2>3 DEF QueryInv, LookupInv, AnswerInv
  <1> QED BY <1>8, <1>9

LEMMA OtherRight == ASSUME TypeInv, QueryInv, TypeThrows \/ NoTypes \/ Return PROVE QueryInv'
PROOF
  <1>1. UNCHANGED <<registry, nextIdx, contents, req, due, lost>>
    BY DEF TypeThrows, NoTypes, Return, database, history
  <1>2. due' \subseteq Due'
    BY <1>1 DEF QueryInv, Due
  <1>3. CASE TypeThrows
    <2>1. pc' = "answered" /\ ok' = FALSE /\ infoAboutAns' = infoAboutAns
      BY <1>3 DEF TypeThrows, Thrown, Answer, work
    <2> QED BY <1>1, <1>2, <2>1 DEF QueryInv, InfosKept, LookupInv, ReadInv, AnswerInv
  <1>4. CASE NoTypes
    <2>1. LookedUp(UndefinedError, <<>>) /\ req.types = <<>> /\ <<>> \in Seq(Analytics)
          /\ req.types # All /\ lost = {}
      BY <1>4, EmptySeq DEF NoTypes, QueryInv, LookupInv
    <2>2. \A idx : ~AskedFor(idx)
      BY <2>1 DEF AskedFor
    <2>3. LookupInv' /\ ReadInv' /\ AnswerInv'
      BY <1>1, <2>1, <2>2, LookedUpRight
    <2>4. infoAboutAns' = <<>>
      BY <2>1 DEF LookedUp
    <2>5. InfosKept'
      BY <2>4 DEF InfosKept
    <2> QED BY <1>2, <2>3, <2>5 DEF QueryInv
  <1>5. CASE Return
    <2>1. pc' = "idle" /\ infoAboutAns' = infoAboutAns
      BY <1>5 DEF Return, work
    <2> QED BY <1>1, <1>2, <2>1 DEF QueryInv, InfosKept, LookupInv, ReadInv, AnswerInv
  <1> QED BY <1>3, <1>4, <1>5

\* Other instances only make less due.
LEMMA OutsideRight == ASSUME TypeInv, QueryInv, Outside PROVE QueryInv'
PROOF
  <1>1. /\ nextIdx \in Nat /\ nextIdx' \in Nat /\ nextIdx' >= nextIdx
        /\ \A b \in registry' :
             b.idx = nextIdx \/ \E a \in registry : a.idx = b.idx /\ a.table = b.table
        /\ Changed
    BY RegistryChanges
  <1>2. /\ due' \subseteq due /\ due' \subseteq Due'
        /\ UNCHANGED <<pc, req, work, answer, unread, cut, lost>>
    BY <1>1 DEF Changed
  <1>3. infoAboutAns' = infoAboutAns
    BY <1>2 DEF work
  <1>4. InfosKept'
    <2>1. ASSUME NEW j \in DOMAIN infoAboutAns
          PROVE  infoAboutAns[j].idx \in Nat
      <3>1. infoAboutAns \in Seq(Analytics)
        BY DEF TypeInv, TypeOK
      <3>2. infoAboutAns[j] \in Analytics
        BY <3>1
      <3> QED BY <3>2 DEF Analytics
    <2> QED BY <1>1, <1>3, <2>1 DEF QueryInv, InfosKept
  <1>5. AllLookedUp' = AllLookedUp /\ \A idx : AskedFor(idx)' = AskedFor(idx)
                                               /\ Found(idx)' = Found(idx)
    BY <1>2, <1>3 DEF AllLookedUp, AskedFor, Found
  <1>6. LookupInv'
    BY <1>2, <1>5 DEF QueryInv, LookupInv, work
  <1>7. ReadInv'
    BY <1>2, <1>5 DEF QueryInv, ReadInv, work
  <1>8. AnswerInv'
    BY <1>2, <1>5 DEF QueryInv, AnswerInv, Told, work, answer
  <1> QED BY <1>2, <1>4, <1>6, <1>7, <1>8 DEF QueryInv

LEMMA QueryInvInit == Init => QueryInv
PROOF
  BY DEF Init, QueryInv, InfosKept, LookupInv, ReadInv, AnswerInv

LEMMA QueryInvNext == TypeInv /\ QueryInv /\ [Next]_vars => QueryInv'
PROOF
  <1> SUFFICES ASSUME TypeInv, QueryInv, [Next]_vars PROVE QueryInv'
    OBVIOUS
  <1>1. CASE UNCHANGED vars
    <2>1. UNCHANGED <<registry, nextIdx, contents, pc, req, work, answer, due, unread, cut, lost>>
      BY <1>1 DEF vars, database, history
    <2> QED BY <2>1 DEF QueryInv, InfosKept, LookupInv, ReadInv, AnswerInv, Due, Enabled, AllLookedUp,
                AskedFor, Found, Told, work, answer
  <1>2. ASSUME NEW status \in Statuses, GetTimeLine(status) \/ FillOne(status) \/ ReadTable(status)
        PROVE  QueryInv'
    BY <1>2, TimeLineRight, FillOneRight, ReadTableRight
  <1>3. ASSUME NEW status \in Statuses, NEW S \in SUBSET registry, NEW found \in Orders(S),
               FillAll(status, found)
        PROVE  QueryInv'
    BY <1>3, FillAllRight
  <1>4. CASE Outside
    BY <1>4, OutsideRight
  <1>5. CASE (\E r \in Requests : Begin(r)) \/ TypeThrows \/ NoTypes \/ Return
    BY <1>5, BeginRight, OtherRight
  <1> QED BY <1>1, <1>2, <1>3, <1>4, <1>5 DEF Next, Outside

LEMMA QueryInvAlways == Spec => [](TypeInv /\ QueryInv)
PROOF
  <1> QED BY TypeInvInit, TypeInvNext, QueryInvInit, QueryInvNext, PTL DEF Spec

\* An event request answered true has the events of every analytics asked for that was
\* there all the while, unless a lookup failed: for every registry and set of requests,
\* and every number of changes and failures meanwhile.
THEOREM TrueEventsAreComplete == Spec => []AsisTrueIsComplete
PROOF
  <1>1. QueryInv => AsisTrueIsComplete
    BY DEF QueryInv, AnswerInv, Told, AsisTrueIsComplete
  <1> QED BY <1>1, QueryInvAlways, PTL

\* A time line whose last table gave events has those of every analytics that was due,
\* but for those whose own table could not be read: for every registry and every number
\* of changes and failures.
THEOREM FailedTablesCostTheirOwn == Spec => []TimelineLosesFailedTablesOnly
PROOF
  <1>1. QueryInv => TimelineLosesFailedTablesOnly
    BY DEF QueryInv, AnswerInv, Told, TimelineLosesFailedTablesOnly
  <1> QED BY <1>1, QueryInvAlways, PTL

----
\* Nothing is shown that was not asked for and live.

Proper(idx) == AskedFor(idx) /\ idx \in live

ShownInv ==
    /\ pc # "idle" => Live \subseteq live
    /\ \A j \in DOMAIN infoAboutAns : Proper(infoAboutAns[j].idx)
    /\ \A idx \in data : Proper(idx)
    /\ pc = "answered" => \A idx \in shown : Proper(idx)

\* An answer shows nothing, or what was collected.
LEMMA DecidedShows ==
    ASSUME NEW status, NEW text, Decided(status, text)
    PROVE  pc' = "answered" /\ shown' \subseteq data'
PROOF
  <1>1. CASE req.kind = "asis"
    BY <1>1 DEF Decided, Answer
  <1>2. CASE req.kind # "asis" /\ status = NoError
    BY <1>2 DEF Decided, Answer
  <1>3. CASE req.kind # "asis" /\ status # NoError
    BY <1>3 DEF Decided, Answer
  <1> QED BY <1>1, <1>2, <1>3

\* A lookup that found only proper analytics.
LEMMA LookedUpShows ==
    ASSUME ShownInv, NEW status, NEW infos, LookedUp(status, infos),
           UNCHANGED <<registry, req, live>>, pc # "idle",
           \A j \in DOMAIN infos : Proper(infos[j].idx)
    PROVE  ShownInv'
PROOF
  <1>1. /\ infoAboutAns' = infos /\ data' = data
        /\ \/ Answer(FALSE, {})
           \/ Decided(NotExists, TRUE)
           \/ Decided(status, error)
           \/ pc' = "read"
    BY LookedUpCases
  <1>2. pc' = "answered" => shown' \subseteq data
    BY <1>1, DecidedShows DEF Answer
  <1>3. Live' = Live /\ \A idx : Proper(idx)' = Proper(idx)
    BY DEF Live, Enabled, Proper, AskedFor
  <1> QED BY <1>1, <1>2, <1>3 DEF ShownInv

LEMMA BeginShows ==
    ASSUME TypeInv, NEW r \in Requests, Begin(r)
    PROVE  ShownInv'
PROOF
  <1>1. infoAboutAns' = <<>> /\ data' = {} /\ live' = Live /\ registry' = registry
    BY DEF Begin, database
  <1>2. pc' # "answered"
    BY DEF Begin
  <1>3. Live' = Live
    BY <1>1 DEF Live, Enabled
  <1> QED BY <1>1, <1>2, <1>3 DEF ShownInv

LEMMA FillAllShows ==
    ASSUME TypeInv, QueryInv, ShownInv, NEW status \in Statuses, NEW S \in SUBSET registry,
           NEW found \in Orders(S), FillAll(status, found)
    PROVE  ShownInv'
PROOF
  <1> DEFINE ret == IF status = ErrConnectDB THEN NotExists ELSE status
  <1>1. LookedUp(ret, found) /\ UNCHANGED <<registry, req, live>> /\ pc = "all"
    BY DEF FillAll, database
  <1>2. req.types = All
    BY <1>1 DEF QueryInv, LookupInv
  <1>3. CASE status = NoError
    <2>1. PICK listed \in SUBSET registry :
             {found[i] : i \in DOMAIN found} = Usable(listed)
      BY <1>3 DEF FillAll
    <2>2. \A j \in DOMAIN found : found[j] \in registry /\ Enabled(found[j])
      BY <2>1 DEF Usable
    <2>3. \A j \in DOMAIN found : found[j].idx \in live
      BY <1>1, <2>2 DEF ShownInv, Live
    <2>4. \A j \in DOMAIN found : Proper(found[j].idx)
      BY <1>2, <2>3 DEF Proper, AskedFor
    <2> HIDE DEF ret
    <2> QED BY <1>1, <2>4, LookedUpShows
  <1>4. CASE status # NoError
    <2>1. found = <<>>
      BY <1>4 DEF FillAll
    <2>2. \A j \in DOMAIN found : Proper(found[j].idx)
      BY <2>1
    <2> HIDE DEF ret
    <2> QED BY <1>1, <2>2, LookedUpShows
  <1> QED BY <1>3, <1>4

LEMMA FillOneShows ==
    ASSUME TypeInv, ShownInv, NEW status \in Statuses, FillOne(status)
    PROVE  ShownInv'
PROOF
  <1> DEFINE rows   == {a \in registry : a.idx = req.types[next]}
             usable == Usable(rows)
             known  == status = NoError /\ usable # {}
             ret    == IF status = ErrSendQuery THEN status
                       ELSE IF known THEN NoError ELSE NotExists
             new    == CHOOSE a \in usable : TRUE
             infos  == IF known THEN Append(infoAboutAns, new) ELSE infoAboutAns
  <1>1. /\ pc = "types" /\ next \in DOMAIN req.types
        /\ UNCHANGED <<registry, req, live>>
    BY DEF FillOne, database
  <1>2. infoAboutAns \in Seq(Analytics)
    BY DEF TypeInv, TypeOK
  <1>3. known => new \in registry /\ Enabled(new) /\ new.idx = req.types[next]
    BY DEF Usable
  <1>4. known => Proper(new.idx)
    BY <1>1, <1>3 DEF ShownInv, Live, Proper, AskedFor
  <1>5. \A j \in DOMAIN infos : Proper(infos[j].idx)
    <2>1. CASE known
      <3>1. infos = Append(infoAboutAns, new) /\ new \in Analytics
        BY <1>3, <2>1 DEF TypeInv, TypeOK
      <3>2. Proper(new.idx) /\ \A j \in DOMAIN infoAboutAns : Proper(infoAboutAns[j].idx)
        BY <1>4, <2>1 DEF ShownInv
      <3> HIDE DEF new, known, infos
      <3>3. Len(infos) = Len(infoAboutAns) + 1 /\ infos[Len(infoAboutAns) + 1] = new
            /\ infos \in Seq(Analytics)
            /\ \A j \in 1..Len(infoAboutAns) : infos[j] = infoAboutAns[j]
        BY <1>2, <3>1, AppendProperties
      <3>4. Len(infoAboutAns) \in Nat /\ DOMAIN infoAboutAns = 1..Len(infoAboutAns)
            /\ DOMAIN infos = 1..(Len(infoAboutAns) + 1)
        BY <1>2, <3>3
      <3>5. \A j \in DOMAIN infos :
               infos[j] = new \/ (j \in DOMAIN infoAboutAns /\ infos[j] = infoAboutAns[j])
        BY <3>3, <3>4
      <3> QED BY <3>2, <3>5
    <2>2. CASE ~known
      BY <2>2 DEF ShownInv
    <2> QED BY <2>1, <2>2
  <1>6. CASE next = Len(req.types)
    <2>1. LookedUp(ret, infos)
      BY <1>6 DEF FillOne
    <2> HIDE DEF ret, infos
    <2> QED BY <1>1, <1>5, <2>1, LookedUpShows
  <1>7. CASE next # Len(req.types)
    <2>1. infoAboutAns' = infos /\ UNCHANGED <<pc, data>>
      BY <1>7 DEF FillOne
    <2> HIDE DEF infos
    <2>2. Live' = Live /\ \A idx : Proper(idx)' = Proper(idx)
      BY <1>1 DEF Live, Enabled, Proper, AskedFor
    <2> QED BY <1>1, <1>5, <2>1, <2>2 DEF ShownInv
  <1> QED BY <1>6, <1>7

LEMMA ReadTableShows ==
    ASSUME TypeInv, ShownInv, NEW status \in Statuses, ReadTable(status)
    PROVE  ShownInv'
PROOF
  <1>1. /\ pc = "read" /\ next \in DOMAIN infoAboutAns
        /\ UNCHANGED <<registry, req, live, infoAboutAns>>
    BY DEF ReadTable, TypeInv, ReadsWithin, database
  <1>2. data' \subseteq data \cup {infoAboutAns[next].idx}
    BY DEF ReadTable, Collect
  <1>3. Live' = Live /\ \A idx : Proper(idx)' = Proper(idx)
    BY <1>1 DEF Live, Enabled, Proper, AskedFor
  <1>4. \A idx \in data' : Proper(idx)
    BY <1>1, <1>2 DEF ShownInv
  <1>5. pc' = "answered" => shown' \subseteq data'
    <2>1. CASE next = Len(infoAboutAns)
      BY <2>1, DecidedShows DEF ReadTable
    <2>2. CASE next # Len(infoAboutAns)
      BY <1>1, <2>2 DEF ReadTable
    <2> QED BY <2>1, <2>2
  <1> QED BY <1>1, <1>3, <1>4, <1>5 DEF ShownInv

\* Steps that look nothing up and collect nothing.
LEMMA OtherShows ==
    ASSUME TypeInv, ShownInv,
           TypeThrows \/ NoTypes \/ Return \/ \E status \in Statuses : GetTimeLine(status)
    PROVE  ShownInv'
PROOF
  <1>1. UNCHANGED <<registry, req, live>> /\ pc # "idle"
    BY DEF TypeThrows, NoTypes, Return, GetTimeLine, database, history
  <1>2. Live' = Live /\ \A idx : Proper(idx)' = Proper(idx)
    BY <1>1 DEF Live, Enabled, Proper, AskedFor
  <1>3. CASE NoTypes
    <2>1. LookedUp(UndefinedError, <<>>)
      BY <1>3 DEF NoTypes
    <2>2. \A j \in DOMAIN <<>> : Proper(<<>>[j].idx)
      OBVIOUS
    <2> QED BY <1>1, <2>1, <2>2, LookedUpShows
  <1>4. CASE TypeThrows \/ Return \/ \E status \in Statuses : GetTimeLine(status)
    <2>1. infoAboutAns' = infoAboutAns /\ data' = data /\ (pc' = "answered" => shown' = {})
      BY <1>4 DEF TypeThrows, Thrown, Return, GetTimeLine, Answer, work
    <2> QED BY <1>1, <1>2, <2>1 DEF ShownInv
  <1> QED BY <1>3, <1>4

\* Other instances only make more live.
LEMMA OutsideShows == ASSUME TypeInv, ShownInv, Outside PROVE ShownInv'
PROOF
  <1>1. Changed
    BY RegistryChanges
  <1>2. live' = live \cup Live' /\ UNCHANGED <<pc, req, infoAboutAns, data, shown>>
    BY <1>1 DEF Changed, work, answer
  <1>3. \A idx : Proper(idx) => Proper(idx)'
    BY <1>2 DEF Proper, AskedFor
  <1> QED BY <1>2, <1>3 DEF ShownInv

LEMMA ShownInvNext == TypeInv /\ QueryInv /\ ShownInv /\ [Next]_vars => ShownInv'
PROOF
  <1> SUFFICES ASSUME TypeInv, QueryInv, ShownInv, [Next]_vars PROVE ShownInv'
    OBVIOUS
  <1>1. CASE UNCHANGED vars
    <2>1. UNCHANGED <<registry, pc, req, infoAboutAns, data, shown, live>>
      BY <1>1 DEF vars, database, history, work, answer
    <2> QED BY <2>1 DEF ShownInv, Live, Enabled, Proper, AskedFor
  <1>2. ASSUME NEW status \in Statuses, GetTimeLine(status) \/ FillOne(status) \/ ReadTable(status)
        PROVE  ShownInv'
    BY <1>2, FillOneShows, ReadTableShows, OtherShows
  <1>3. ASSUME NEW status \in Statuses, NEW S \in SUBSET registry, NEW found \in Orders(S),
               FillAll(status, found)
        PROVE  ShownInv'
    BY <1>3, FillAllShows
  <1>4. CASE Outside
    BY <1>4, OutsideShows
  <1>5. CASE (\E r \in Requests : Begin(r)) \/ TypeThrows \/ NoTypes \/ Return
    BY <1>5, BeginShows, OtherShows
  <1> QED BY <1>1, <1>2, <1>3, <1>4, <1>5 DEF Next, Outside

\* What an answer shows was asked for, and was registered, enabled and with a table at
\* some moment of the request: for every number of requests, changes and failures.
THEOREM ShownWasAskedFor == Spec => []ShownWasEnabled
PROOF
  <1>1. Init => ShownInv
    BY DEF Init, ShownInv
  <1>2. ShownInv => ShownWasEnabled
    BY DEF ShownInv, Proper, ShownWasEnabled
  <1> QED BY <1>1, <1>2, ShownInvNext, QueryInvAlways, PTL DEF Spec
====
