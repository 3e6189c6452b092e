---- MODULE Registration_proofs ----
(***************************************************************************)
(* No registration is lost silently, no instance registers a module twice, *)
(* comments outlive re-registrations, and a request takes away no          *)
(* registration it neither covers nor names by its unique pair, for every  *)
(* set of instances, modules, proxies and requests and every bound.        *)
(***************************************************************************)
EXTENDS Registration, FiniteSetTheorems, TLAPS

Text == Comments \cup {NoComment}

\* addNewRecord is under way.
Adding(w) == pc[w] \in {"add", "insert", "overwrite"}

\* A request at work names a module, what it deletes it has listed, it adds when nothing
\* it listed is left, and looks for rows only with a unique pair.
ThreadSound(w) ==
    /\ Working(w) => req[w].module \in Modules
    /\ pc[w] = "delete" => inHand[w] \in todo[w]
    /\ Adding(w) => todo[w] = {}
    /\ pc[w] \in {"insert", "overwrite"} => req[w].uniqName # "absent"

TypeInv == TypeOK /\ \A w \in Writers : ThreadSound(w)

\* An idx names one row, and never another one later.
IdxUnique ==
    /\ \A r \in rows : r.idx # 0 /\ r.idx < nextIdx
    /\ \A r1, r2 \in rows : r1.idx = r2.idx => r1 = r2

\* What an instance has listed is what its request covers.
ListedSound(w) ==
    Working(w) => \A t \in todo[w] : t.idx < nextIdx /\ Key(t) \in Concerns(req[w])

IdxInv == IdxUnique /\ \A w \in Writers : ListedSound(w)

InProgress(k) == \E w \in Writers : Working(w) /\ k \in Touches(req[w])

\* v has listed a row that a unique pair has since made another module's or proxy's.
Moved(v, t, r) == Working(v) /\ t \in todo[v] /\ r.idx = t.idx /\ Key(r) # Key(t)

\* The rows acknowledged for a key are that key's, and v deletes none of them by mistake.
AckInv ==
    /\ \A k \in Keys : \A i \in last[k] : i < nextIdx /\ \A r \in rows : r.idx = i => Key(r) = k
    /\ \A v \in Writers : \A t \in todo[v], r \in rows :
         Moved(v, t, r) => \A k \in Keys : r.idx \notin last[k]

\* The rows acknowledged for k are there.
Stays(k) == InProgress(k) \/ \A i \in last[k] : \E row \in rows : row.idx = i /\ Key(row) = k

StaysInv == \A k \in Keys : Stays(k)

\* After a whole listing an instance's own rows are those it is still to delete.
OwnListed(w) ==
    /\ pc[w] \in {"rows", "delete"} /\ whole[w] =>
         \A r \in rows : r.by = w /\ Key(r) \in Concerns(req[w])
            => \E t \in todo[w] : t.idx = r.idx
    /\ Adding(w) /\ whole[w] =>
         \A r \in rows : r.by = w => Key(r) \notin Concerns(req[w])

OwnInv == OneRegistrationPerInstance /\ \A w \in Writers : OwnListed(w)

----
\* The operators actions are made of.

\* The new row's key is one the request covers.
LEMMA TargetConcerned ==
    ASSUME NEW r \in Requests, r.module \in Modules
    PROVE  Target(r) \in Keys /\ Target(r) \in Concerns(r) /\ Target(r) \in Touches(r)
           /\ Target(r)[1] = r.module /\ Target(r)[2] \in Proxies
BY RequestsAssumption, NamesAssumption DEF Target, Concerns, Touches, Keys

LEMMA StatementType ==
    ASSUME TypeOK, NEW fate, Statement(fate)
    PROVE  faults' \in Nat /\ requests' = requests /\ comments' = comments
BY DEF TypeOK, Statement

LEMMA DeniedType ==
    ASSUME TypeOK, NEW w \in Writers, Denied(w)
    PROVE  /\ pc' \in [Writers -> Points]
           /\ statusOK' \in [Writers -> BOOLEAN]
           /\ last' \in [Keys -> SUBSET Nat]
           /\ pc' = [pc EXCEPT ![w] = "answered"]
BY DEF TypeOK, Denied, Goto, InDoubt, Points

LEMMA AcknowledgedType ==
    ASSUME TypeOK, NEW w \in Writers, NEW idxs \in SUBSET Nat, Acknowledged(w, idxs)
    PROVE  /\ pc' \in [Writers -> Points]
           /\ statusOK' \in [Writers -> BOOLEAN]
           /\ last' \in [Keys -> SUBSET Nat]
           /\ pc' = [pc EXCEPT ![w] = "answered"]
BY DEF TypeOK, Acknowledged, Goto, Points

LEMMA SomeRequest == AnyRequest \in Requests
BY RequestsAssumption DEF AnyRequest

\* An instance that forgets its request leaves the others as they are.
LEMMA IdleType ==
    ASSUME TypeOK, NEW w \in Writers, Idle(w)
    PROVE  /\ pc' \in [Writers -> Points] /\ pc'[w] = "idle"
           /\ req' \in [Writers -> Requests]
           /\ todo' \in [Writers -> SUBSET Rows]
           /\ inHand' \in [Writers -> Rows \cup {NoRow}]
           /\ saveComment' \in [Writers -> Comments \cup {NoComment}]
           /\ statusOK' \in [Writers -> BOOLEAN]
           /\ whole' \in [Writers -> BOOLEAN]
           /\ \A v \in Writers \ {w} :
                /\ pc'[v] = pc[v] /\ req'[v] = req[v] /\ todo'[v] = todo[v]
                /\ whole'[v] = whole[v] /\ inHand'[v] = inHand[v]
BY SomeRequest DEF TypeOK, Idle, Goto, Points

LEMMA NewRowType ==
    ASSUME TypeOK, NEW w \in Writers, ThreadSound(w), Adding(w)
    PROVE  NewRow(w) \in Rows /\ Key(NewRow(w)) = Target(req[w])
<1>1. req[w] \in Requests /\ req[w].module \in Modules /\ saveComment[w] \in Text /\ nextIdx \in Nat
  BY DEF TypeOK, ThreadSound, Adding, Working, Points, Text
<1>2. Target(req[w])[1] = req[w].module /\ Target(req[w])[2] \in Proxies
  BY <1>1, TargetConcerned
<1>3. NewRow(w) \in Rows
  BY <1>1, <1>2 DEF NewRow, Rows, Text
<1> QED BY <1>2, <1>3 DEF NewRow, Key, Target

LEMMA WrittenType ==
    ASSUME TypeOK, NEW w \in Writers, ThreadSound(w), Adding(w), NEW row \in rows
    PROVE  /\ Written(w, row) \in Rows /\ Key(Written(w, row)) = Target(req[w])
           /\ Written(w, row).idx = row.idx /\ Written(w, row).by = w
           /\ Written(w, row).comment = saveComment[w]
<1>1. req[w] \in Requests /\ req[w].module \in Modules /\ saveComment[w] \in Text /\ row \in Rows
  BY DEF TypeOK, ThreadSound, Adding, Working, Points, Text
<1>2. Target(req[w])[1] = req[w].module /\ Target(req[w])[2] \in Proxies
  BY <1>1, TargetConcerned
<1>3. Written(w, row) \in Rows
  BY <1>1, <1>2 DEF Written, Rows, Text
<1> QED BY <1>1, <1>2, <1>3 DEF Written, Key, Target, Rows

\* The rows a unique pair names are rows of the keys the request may change.
LEMMA MatchesTouched ==
    ASSUME TypeOK, NEW r, NEW hit \in Matches(r)
    PROVE  hit \subseteq rows /\ \A row \in hit : Key(row) \in Touches(r)
<1>1. \A row \in rows : Key(row) \in Keys
  BY DEF TypeOK, Rows, Key, Keys
<1>2. CASE r.uniqName = "other"
  BY <1>1, <1>2 DEF Matches, Touches, PairKeys
<1>3. CASE r.uniqName # "other"
  BY <1>3 DEF Matches, Touches
<1> QED BY <1>2, <1>3

\* What the UPDATE makes of the rows: each keeps its idx, and those it does not name
\* stay as they are.
LEMMA OverwrittenRows ==
    ASSUME TypeOK, NEW w \in Writers, ThreadSound(w), Adding(w), NEW hit \in Matches(req[w]),
           rows' = (rows \ hit) \cup {Written(w, row) : row \in hit}
    PROVE  /\ rows' \subseteq Rows
           /\ \A r2 \in rows' :
                \/ r2 \in rows \ hit
                \/ \E r \in hit : /\ r2.idx = r.idx /\ r2.by = w /\ r2.comment = saveComment[w]
                                  /\ Key(r2) = Target(req[w])
           /\ \A r \in rows : \E r2 \in rows' : r2.idx = r.idx
           /\ \A r \in hit : \E r2 \in rows' : r2.idx = r.idx /\ Key(r2) = Target(req[w])
<1>1. hit \subseteq rows
  BY MatchesTouched
<1>2. \A r \in hit : /\ Written(w, r) \in Rows /\ Key(Written(w, r)) = Target(req[w])
                     /\ Written(w, r).idx = r.idx /\ Written(w, r).by = w
                     /\ Written(w, r).comment = saveComment[w]
  BY <1>1, WrittenType
<1> QED BY <1>1, <1>2 DEF TypeOK

\* A changed comment changes nothing else.
LEMMA CommentedRow ==
    ASSUME NEW row \in Rows, NEW c \in Comments
    PROVE  LET new == [row EXCEPT !.comment = c]
           IN  /\ new \in Rows /\ new.idx = row.idx /\ new.by = row.by
               /\ new.comment = c /\ Key(new) = Key(row)
BY DEF Rows, Key

----
\* Type correctness.

LEMMA TypeInvInit == Init => TypeInv
BY SomeRequest, BoundsAssumption
   DEF Init, TypeInv, TypeOK, ThreadSound, Adding, Working, Points, Keys

LEMMA BeginType ==
    ASSUME TypeInv, NEW w \in Writers, NEW r \in Requests, Begin(w, r)
    PROVE  TypeInv'
<1>1. TypeOK'
  BY DEF TypeInv, TypeOK, Begin, Goto, Points, table, history
<1>2. ASSUME NEW v \in Writers PROVE ThreadSound(v)'
  <2>1. r.module \in Modules \cup {NoModule}
    BY RequestsAssumption
  <2> QED BY <2>1 DEF TypeInv, TypeOK, Begin, Goto, Points, ThreadSound, Adding, Working
<1> QED BY <1>1, <1>2 DEF TypeInv

LEMMA ListType ==
    ASSUME TypeInv, NEW w \in Writers, NEW fate, NEW found \in SUBSET rows,
           List(w, fate, found)
    PROVE  TypeInv'
<1>1. TypeOK'
  BY StatementType DEF TypeInv, TypeOK, List, Goto, Points, table
<1>2. ASSUME NEW v \in Writers PROVE ThreadSound(v)'
  BY DEF TypeInv, TypeOK, List, Goto, Points, ThreadSound, Adding, Working
<1> QED BY <1>1, <1>2 DEF TypeInv

LEMMA SelectRowType ==
    ASSUME TypeInv, NEW w \in Writers, NEW fate, NEW row \in todo[w],
           SelectRow(w, fate, row)
    PROVE  TypeInv'
<1>0. TypeOK /\ row \in Rows /\ row.comment \in Text
  BY DEF TypeInv, TypeOK, Rows, Text
<1>1. /\ pc' \in [Writers -> Points] /\ statusOK' \in [Writers -> BOOLEAN]
      /\ last' \in [Keys -> SUBSET Nat]
      /\ pc' = [pc EXCEPT ![w] = pc'[w]] /\ pc'[w] \in {"delete", "answered"}
  BY <1>0, DeniedType DEF SelectRow, Goto, TypeOK, Points, Denied
<1>2. TypeOK'
  BY <1>0, <1>1, StatementType DEF TypeOK, SelectRow, table, Text
<1>3. ASSUME NEW v \in Writers PROVE ThreadSound(v)'
  BY <1>0, <1>1 DEF TypeInv, TypeOK, SelectRow, Points, ThreadSound, Adding, Working
<1> QED BY <1>2, <1>3 DEF TypeInv

LEMMA DeleteRowType ==
    ASSUME TypeInv, NEW w \in Writers, NEW fate, DeleteRow(w, fate)
    PROVE  TypeInv'
<1>0. TypeOK
  BY DEF TypeInv
<1>1. /\ pc' \in [Writers -> Points] /\ statusOK' \in [Writers -> BOOLEAN]
      /\ last' \in [Keys -> SUBSET Nat]
      /\ pc' = [pc EXCEPT ![w] = pc'[w]] /\ pc'[w] \in {"add", "rows", "answered"}
  BY <1>0, DeniedType DEF DeleteRow, Goto, TypeOK, Points, Denied
<1>2. rows' \subseteq rows /\ todo' \in [Writers -> SUBSET Rows]
  BY <1>0 DEF DeleteRow, TypeOK
<1>3. TypeOK'
  BY <1>0, <1>1, <1>2, StatementType DEF TypeOK, DeleteRow
<1>4. todo' = [todo EXCEPT ![w] = @ \ {inHand[w]}] /\ UNCHANGED <<req, inHand>>
      /\ (pc'[w] = "add" => todo[w] = {inHand[w]})
  BY <1>0, DeniedType DEF DeleteRow, Goto, TypeOK
<1>5. ASSUME NEW v \in Writers PROVE ThreadSound(v)'
  <2>1. CASE v = w
    BY <1>0, <1>1, <1>4, <2>1 DEF TypeInv, TypeOK, DeleteRow, Points, ThreadSound, Adding, Working
  <2>2. CASE v # w
    BY <1>0, <1>1, <1>4, <2>2 DEF TypeInv, TypeOK, Points, ThreadSound, Adding, Working
  <2> QED BY <2>1, <2>2
<1> QED BY <1>3, <1>5 DEF TypeInv

\* The two writing statements: what they do to the instance's thread.
LEMMA InsertThread ==
    ASSUME TypeInv, NEW w \in Writers, NEW fate, Insert(w, fate)
    PROVE  /\ Adding(w) /\ Working(w) /\ todo[w] = {} /\ req[w] \in Requests
           /\ Target(req[w]) \in Keys /\ Target(req[w]) \in Concerns(req[w])
           /\ Target(req[w]) \in Touches(req[w])
           /\ pc' = [pc EXCEPT ![w] = "answered"] /\ UNCHANGED <<req, todo, whole, saveComment, noted>>
           /\ statusOK' \in [Writers -> BOOLEAN] /\ last' \in [Keys -> SUBSET Nat]
<1>0. TypeOK /\ ThreadSound(w) /\ Adding(w) /\ Working(w) /\ nextIdx \in Nat
  BY DEF TypeInv, TypeOK, Insert, Adding, Working, Points
<1>1. todo[w] = {} /\ req[w] \in Requests /\ req[w].module \in Modules
  BY <1>0 DEF ThreadSound, TypeOK
<1>2. Acknowledged(w, {nextIdx}) \/ Denied(w)
  BY DEF Insert
<1>3. /\ pc' = [pc EXCEPT ![w] = "answered"] /\ statusOK' \in [Writers -> BOOLEAN]
      /\ last' \in [Keys -> SUBSET Nat]
  BY <1>0, <1>2, DeniedType, AcknowledgedType
<1> QED BY <1>0, <1>1, <1>3, TargetConcerned DEF Insert

LEMMA OverwriteThread ==
    ASSUME TypeInv, NEW w \in Writers, NEW fate, NEW hit \in Matches(req[w]),
           Overwrite(w, fate, hit)
    PROVE  /\ Adding(w) /\ Working(w) /\ todo[w] = {} /\ req[w] \in Requests
           /\ Target(req[w]) \in Keys /\ Target(req[w]) \in Concerns(req[w])
           /\ Target(req[w]) \in Touches(req[w])
           /\ pc' = [pc EXCEPT ![w] = "answered"] /\ UNCHANGED <<req, todo, whole, saveComment, noted>>
           /\ statusOK' \in [Writers -> BOOLEAN] /\ last' \in [Keys -> SUBSET Nat]
<1> DEFINE idxs == {row.idx : row \in {r \in hit : ~Listed(r, Writers \ {w})}}
<1>0. TypeOK /\ ThreadSound(w) /\ Adding(w) /\ Working(w)
  BY DEF TypeInv, TypeOK, Overwrite, Adding, Working, Points
<1>1. todo[w] = {} /\ req[w] \in Requests /\ req[w].module \in Modules
  BY <1>0 DEF ThreadSound, TypeOK
<1>2. idxs \in SUBSET Nat
  BY <1>0, MatchesTouched DEF TypeOK, Rows
<1>3. Acknowledged(w, idxs) \/ Denied(w)
  BY DEF Overwrite
<1> HIDE DEF idxs
<1>4. /\ pc' = [pc EXCEPT ![w] = "answered"] /\ statusOK' \in [Writers -> BOOLEAN]
      /\ last' \in [Keys -> SUBSET Nat]
  BY <1>0, <1>2, <1>3, DeniedType, AcknowledgedType
<1> QED BY <1>0, <1>1, <1>4, TargetConcerned DEF Overwrite

LEMMA BlindedType ==
    ASSUME TypeOK, NEW w \in Writers, NEW hit, Blinded(w, hit), Target(req[w]) \in Keys
    PROVE  blind' \in [Writers -> SUBSET Keys]
BY DEF TypeOK, Blinded

LEMMA InsertType ==
    ASSUME TypeInv, NEW w \in Writers, NEW fate, Insert(w, fate)
    PROVE  TypeInv'
<1>0. TypeOK /\ ThreadSound(w) /\ Adding(w)
  BY InsertThread DEF TypeInv
<1>1. rows' \subseteq Rows /\ nextIdx' \in Nat \ {0}
  BY <1>0, NewRowType DEF Insert, TypeOK
<1>2. blind' \in [Writers -> SUBSET Keys]
  BY <1>0, InsertThread, BlindedType DEF Insert, TypeOK
<1>3. TypeOK'
  BY <1>0, <1>1, <1>2, StatementType, InsertThread DEF TypeOK, Insert, Points
<1>4. ASSUME NEW v \in Writers PROVE ThreadSound(v)'
  BY <1>0, InsertThread DEF TypeInv, TypeOK, Insert, Points, ThreadSound, Adding, Working
<1> QED BY <1>3, <1>4 DEF TypeInv

LEMMA SelectPairType ==
    ASSUME TypeInv, NEW w \in Writers, NEW fate, NEW hit, SelectPair(w, fate, hit)
    PROVE  TypeInv'
<1>0. TypeOK /\ ThreadSound(w) /\ pc[w] = "add"
  BY DEF TypeInv, SelectPair
<1>1. /\ pc' \in [Writers -> Points] /\ statusOK' \in [Writers -> BOOLEAN]
      /\ last' \in [Keys -> SUBSET Nat]
      /\ pc' = [pc EXCEPT ![w] = pc'[w]] /\ pc'[w] \in {"insert", "overwrite", "answered"}
  BY <1>0, DeniedType DEF SelectPair, Goto, TypeOK, Points, Denied
<1>2. TypeOK'
  BY <1>0, <1>1, StatementType DEF TypeOK, SelectPair, table
<1>3. ASSUME NEW v \in Writers PROVE ThreadSound(v)'
  BY <1>0, <1>1 DEF TypeInv, TypeOK, SelectPair, Points, ThreadSound, Adding, Working
<1> QED BY <1>2, <1>3 DEF TypeInv

LEMMA OverwriteType ==
    ASSUME TypeInv, NEW w \in Writers, NEW fate, NEW hit \in Matches(req[w]),
           Overwrite(w, fate, hit)
    PROVE  TypeInv'
<1>0. TypeOK /\ ThreadSound(w) /\ Adding(w)
  BY OverwriteThread DEF TypeInv
<1>1. rows' \subseteq Rows
  BY <1>0, OverwrittenRows DEF Overwrite, TypeOK
<1>2. blind' \in [Writers -> SUBSET Keys]
  BY <1>0, OverwriteThread, BlindedType DEF Overwrite, TypeOK
<1>3. TypeOK'
  BY <1>0, <1>1, <1>2, StatementType, OverwriteThread DEF TypeOK, Overwrite, Points
<1>4. ASSUME NEW v \in Writers PROVE ThreadSound(v)'
  BY <1>0, OverwriteThread DEF TypeInv, TypeOK, Overwrite, Points, ThreadSound, Adding, Working
<1> QED BY <1>3, <1>4 DEF TypeInv

LEMMA ReturnType ==
    ASSUME TypeInv, NEW w \in Writers, Return(w)
    PROVE  TypeInv'
<1>1. TypeOK'
  BY IdleType DEF TypeInv, TypeOK, Return, table, counts
<1>2. ASSUME NEW v \in Writers PROVE ThreadSound(v)'
  BY IdleType DEF TypeInv, TypeOK, Return, ThreadSound, Adding, Working, Points
<1> QED BY <1>1, <1>2 DEF TypeInv

LEMMA DieType ==
    ASSUME TypeInv, NEW w \in Writers, Die(w)
    PROVE  TypeInv'
<1>1. TypeOK'
  BY IdleType DEF TypeInv, TypeOK, Die, InDoubt, table
<1>2. ASSUME NEW v \in Writers PROVE ThreadSound(v)'
  BY IdleType DEF TypeInv, TypeOK, Die, ThreadSound, Adding, Working, Points
<1> QED BY <1>1, <1>2 DEF TypeInv

LEMMA SetCommentType ==
    ASSUME TypeInv, NEW row \in rows, NEW c \in Comments, SetComment(row, c)
    PROVE  TypeInv'
<1>1. [row EXCEPT !.comment = c] \in Rows
  BY CommentedRow DEF TypeInv, TypeOK
<1>2. rows' \subseteq Rows
  BY <1>1 DEF TypeInv, TypeOK, SetComment
<1>3. noted' \in [Keys -> SUBSET Text]
  <2>1. noted \in [Keys -> SUBSET Text]
    BY DEF TypeInv, TypeOK, Text
  <2> QED BY <2>1 DEF SetComment, Text
<1>4. TypeOK'
  BY <1>2, <1>3 DEF TypeInv, TypeOK, SetComment, thread, Text
<1>5. ASSUME NEW v \in Writers PROVE ThreadSound(v)'
  BY DEF TypeInv, SetComment, thread, ThreadSound, Adding, Working
<1> QED BY <1>4, <1>5 DEF TypeInv

LEMMA TypeInvNext == TypeInv /\ [Next]_vars => TypeInv'
<1> SUFFICES ASSUME TypeInv, [Next]_vars PROVE TypeInv'
  OBVIOUS
<1>1. CASE \E w \in Writers : Step(w)
  BY <1>1, BeginType, ListType, SelectRowType, DeleteRowType, InsertType, SelectPairType,
     OverwriteType, ReturnType, DieType DEF Step
<1>2. CASE \E row \in rows, c \in Comments : SetComment(row, c)
  BY <1>2, SetCommentType
<1>3. CASE UNCHANGED vars
  BY <1>3 DEF TypeInv, TypeOK, ThreadSound, Adding, Working, vars, table, thread, history, counts
<1> QED BY <1>1, <1>2, <1>3 DEF Next

\* The types of the registry's state, for every set of instances and requests.
THEOREM RegistrationTypeCorrect == Spec => []TypeOK
<1>1. TypeInv => TypeOK
  BY DEF TypeInv
<1> QED BY <1>1, TypeInvInit, TypeInvNext, PTL DEF Spec

----
\* An idx names one registration.

\* What a request covers does not change while it is at work.
LEMMA SameRequest ==
    ASSUME NEW v \in Writers, UNCHANGED <<pc, req>>
    PROVE  /\ Working(v)' <=> Working(v)
           /\ Concerns(req[v])' = Concerns(req[v])
BY DEF Working, Points, Concerns

LEMMA IdxInvInit == Init => IdxInv
BY DEF Init, IdxInv, IdxUnique, ListedSound

\* A step that adds no row and makes no instance list more leaves every listing sound.
LEMMA FewerRows ==
    ASSUME IdxInv, rows' \subseteq rows, nextIdx' = nextIdx,
           \A v \in Writers :
              Working(v)' => Working(v) /\ req'[v] = req[v] /\ todo'[v] \subseteq todo[v]
    PROVE  IdxInv'
<1>1. IdxUnique'
  BY DEF IdxInv, IdxUnique
<1>2. ASSUME NEW v \in Writers PROVE ListedSound(v)'
  BY DEF IdxInv, ListedSound
<1> QED BY <1>1, <1>2 DEF IdxInv

LEMMA BeginIdx ==
    ASSUME TypeInv, IdxInv, NEW w \in Writers, NEW r \in Requests, Begin(w, r)
    PROVE  IdxInv'
<1>1. IdxUnique'
  BY DEF Begin, table, IdxInv, IdxUnique
<1>2. todo' = [todo EXCEPT ![w] = {}] /\ pc' = [pc EXCEPT ![w] = pc'[w]]
      /\ req' = [req EXCEPT ![w] = r] /\ UNCHANGED table
  BY DEF Begin, Goto, TypeInv, TypeOK
<1>3. ASSUME NEW v \in Writers PROVE ListedSound(v)'
  BY <1>2 DEF TypeInv, TypeOK, IdxInv, ListedSound, Working, table
<1> QED BY <1>1, <1>3 DEF IdxInv

LEMMA ListIdx ==
    ASSUME TypeInv, IdxInv, NEW w \in Writers, NEW fate, NEW found \in SUBSET rows,
           List(w, fate, found)
    PROVE  IdxInv'
<1>1. IdxUnique'
  BY DEF List, table, IdxInv, IdxUnique
<1>2. found \subseteq Registered(req[w]) /\ todo' = [todo EXCEPT ![w] = found]
      /\ pc' = [pc EXCEPT ![w] = pc'[w]] /\ UNCHANGED <<rows, nextIdx, req>>
  BY DEF List, Goto, table, TypeInv, TypeOK
<1>3. ListedSound(w)'
  BY <1>2 DEF TypeInv, TypeOK, IdxInv, IdxUnique, ListedSound, Registered
<1>4. ASSUME NEW v \in Writers \ {w} PROVE ListedSound(v)'
  BY <1>2 DEF TypeInv, TypeOK, IdxInv, ListedSound, Working
<1> QED BY <1>1, <1>3, <1>4 DEF IdxInv

LEMMA InsertIdx ==
    ASSUME TypeInv, IdxInv, NEW w \in Writers, NEW fate, Insert(w, fate)
    PROVE  IdxInv'
<1>0. \/ rows' = rows /\ nextIdx' = nextIdx
      \/ rows' = rows \cup {NewRow(w)} /\ nextIdx' = nextIdx + 1
  BY DEF Insert
<1>1. nextIdx \in Nat \ {0} /\ NewRow(w).idx = nextIdx
  BY DEF NewRow, TypeInv, TypeOK
<1>2. \A r \in rows : r.idx \in Nat
  BY DEF TypeInv, TypeOK, Rows
<1>3. IdxUnique'
  BY <1>0, <1>1, <1>2 DEF IdxInv, IdxUnique
<1>4. pc' = [pc EXCEPT ![w] = "answered"] /\ UNCHANGED <<todo, req>>
  BY InsertThread
<1>5. ASSUME NEW v \in Writers PROVE ListedSound(v)'
  <2>1. CASE v = w
    BY <1>4, <2>1 DEF ListedSound, Working, TypeInv, TypeOK
  <2>2. CASE v # w
    <3>1. Working(v)' <=> Working(v)
      BY <1>4, <2>2 DEF Working, TypeInv, TypeOK
    <3>2. \A t \in todo[v] : t.idx \in Nat
      BY DEF TypeInv, TypeOK, Rows
    <3> QED BY <1>0, <1>1, <1>4, <3>1, <3>2 DEF ListedSound, IdxInv
  <2> QED BY <2>1, <2>2
<1> QED BY <1>3, <1>5 DEF IdxInv

LEMMA OverwriteIdx ==
    ASSUME TypeInv, IdxInv, NEW w \in Writers, NEW fate, NEW hit \in Matches(req[w]),
           Overwrite(w, fate, hit)
    PROVE  IdxInv'
<1>0. TypeOK /\ ThreadSound(w) /\ Adding(w) /\ UNCHANGED <<nextIdx, req, todo>>
  BY OverwriteThread DEF TypeInv, Overwrite
<1>1. pc' = [pc EXCEPT ![w] = "answered"]
  BY OverwriteThread
<1>2. IdxUnique'
  <2>1. CASE rows' = rows
    BY <1>0, <2>1 DEF IdxInv, IdxUnique
  <2>2. CASE rows' = (rows \ hit) \cup {Written(w, row) : row \in hit}
    <3>1. hit \subseteq rows
      BY <1>0, MatchesTouched
    <3>2. \A r \in hit : Written(w, r).idx = r.idx
      BY <1>0, <3>1, WrittenType
    <3> QED BY <1>0, <2>2, <3>1, <3>2 DEF IdxInv, IdxUnique
  <2> QED BY <2>1, <2>2 DEF Overwrite
<1>3. ASSUME NEW v \in Writers PROVE ListedSound(v)'
  BY <1>0, <1>1 DEF IdxInv, ListedSound, Working, TypeOK
<1> QED BY <1>2, <1>3 DEF IdxInv

LEMMA SetCommentIdx ==
    ASSUME TypeInv, IdxInv, NEW row \in rows, NEW c \in Comments, SetComment(row, c)
    PROVE  IdxInv'
<1> DEFINE new == [row EXCEPT !.comment = c]
<1>1. new.idx = row.idx /\ Key(new) = Key(row)
  BY CommentedRow DEF TypeInv, TypeOK
<1>2. rows' = (rows \ {row}) \cup {new} /\ UNCHANGED <<nextIdx, pc, req, todo>>
  BY DEF SetComment, thread
<1> HIDE DEF new
<1>3. IdxUnique'
  BY <1>1, <1>2 DEF IdxInv, IdxUnique
<1>4. ASSUME NEW v \in Writers PROVE ListedSound(v)'
  BY <1>1, <1>2 DEF IdxInv, ListedSound, Working
<1> QED BY <1>3, <1>4 DEF IdxInv

LEMMA IdxInvNext == TypeInv /\ IdxInv /\ [Next]_vars => IdxInv'
<1> SUFFICES ASSUME TypeInv, IdxInv, [Next]_vars PROVE IdxInv'
  OBVIOUS
<1>0. TypeOK
  BY DEF TypeInv
<1>1. ASSUME NEW w \in Writers, NEW fate, NEW row, SelectRow(w, fate, row) PROVE IdxInv'
  BY <1>0, <1>1, FewerRows DEF SelectRow, table, Denied, Goto, TypeOK, Working, Points
<1>2. ASSUME NEW w \in Writers, NEW fate, DeleteRow(w, fate) PROVE IdxInv'
  BY <1>0, <1>2, FewerRows DEF DeleteRow, Denied, Goto, TypeOK, Working, Points
<1>3. ASSUME NEW w \in Writers, NEW fate, NEW hit, SelectPair(w, fate, hit) PROVE IdxInv'
  BY <1>0, <1>3, FewerRows DEF SelectPair, table, Denied, Goto, TypeOK, Working, Points
<1>4. ASSUME NEW w \in Writers, Return(w) \/ Die(w) PROVE IdxInv'
  BY <1>0, <1>4, IdleType, FewerRows DEF Return, Die, table, Working
<1>5. CASE UNCHANGED vars
  BY <1>0, <1>5, FewerRows DEF vars, table, thread, Working
<1> QED
  BY <1>1, <1>2, <1>3, <1>4, <1>5, BeginIdx, ListIdx, InsertIdx, OverwriteIdx, SetCommentIdx
     DEF Next, Step

----
\* What was acknowledged for a key is that key's.

LEMMA AckInit == Init => AckInv
BY DEF Init, AckInv, Moved

\* A step that acknowledges nothing, gives no row another key and makes no instance list
\* more takes nothing from what was acknowledged.
LEMMA NothingAcknowledged ==
    ASSUME AckInv, nextIdx' = nextIdx, \A k \in Keys : last'[k] \subseteq last[k],
           \A r2 \in rows' : \E r \in rows : r.idx = r2.idx /\ Key(r) = Key(r2),
           \A v \in Writers : Working(v)' => Working(v) /\ todo'[v] \subseteq todo[v]
    PROVE  AckInv'
<1>1. ASSUME NEW k \in Keys, NEW i \in last'[k]
      PROVE  i < nextIdx' /\ \A r \in rows' : r.idx = i => Key(r) = k
  BY <1>1 DEF AckInv
<1>2. ASSUME NEW v \in Writers, NEW t \in todo'[v], NEW r2 \in rows', Moved(v, t, r2)',
             NEW k \in Keys
      PROVE  r2.idx \notin last'[k]
  <2>1. PICK r \in rows : r.idx = r2.idx /\ Key(r) = Key(r2)
    OBVIOUS
  <2>2. Moved(v, t, r) /\ t \in todo[v]
    BY <1>2, <2>1 DEF Moved, Key
  <2> QED BY <2>1, <2>2 DEF AckInv
<1> QED BY <1>1, <1>2 DEF AckInv

LEMMA DeniedAck ==
    ASSUME TypeOK, NEW w \in Writers, Denied(w)
    PROVE  \A k \in Keys : last'[k] \subseteq last[k]
BY DEF Denied, InDoubt, TypeOK

LEMMA ListAck ==
    ASSUME TypeInv, IdxInv, AckInv, NEW w \in Writers, NEW fate, NEW found \in SUBSET rows,
           List(w, fate, found)
    PROVE  AckInv'
<1>1. UNCHANGED <<rows, nextIdx, last>> /\ todo'[w] = found
      /\ \A v \in Writers \ {w} : pc'[v] = pc[v] /\ todo'[v] = todo[v]
  BY DEF List, table, Goto, TypeInv, TypeOK
<1>2. ASSUME NEW v \in Writers, NEW t \in todo'[v], NEW r \in rows, Moved(v, t, r)',
             NEW k \in Keys
      PROVE  r.idx \notin last[k]
  <2>1. CASE v = w
    BY <1>1, <1>2, <2>1 DEF Moved, IdxInv, IdxUnique, Key
  <2>2. CASE v # w
    BY <1>1, <1>2, <2>2 DEF Moved, Working, AckInv, Key
  <2> QED BY <2>1, <2>2
<1> QED BY <1>1, <1>2 DEF AckInv

LEMMA InsertAck ==
    ASSUME TypeInv, IdxInv, AckInv, NEW w \in Writers, NEW fate \in Fates, Insert(w, fate)
    PROVE  AckInv'
<1>0. /\ TypeOK /\ ThreadSound(w) /\ Adding(w) /\ nextIdx \in Nat
      /\ UNCHANGED todo /\ todo[w] = {}
      /\ \A v \in Writers \ {w} : Working(v)' <=> Working(v)
  BY InsertThread DEF TypeInv, TypeOK, Working
<1>1. CASE rows' = rows /\ nextIdx' = nextIdx /\ Denied(w)
  <2>1. \A v \in Writers : Working(v)' => Working(v) /\ todo'[v] \subseteq todo[v]
    BY <1>0, InsertThread
  <2> QED BY <1>0, <1>1, <2>1, DeniedAck, NothingAcknowledged
<1>2. CASE rows' = rows \cup {NewRow(w)} /\ nextIdx' = nextIdx + 1
  <2>1. NewRow(w).idx = nextIdx /\ Key(NewRow(w)) = Target(req[w])
    BY <1>0, NewRowType DEF NewRow
  <2>2. \A k \in Keys : last'[k] \subseteq last[k] \/ (k = Target(req[w]) /\ last'[k] = {nextIdx})
    <3>1. Acknowledged(w, {nextIdx}) \/ Denied(w)
      BY DEF Insert
    <3> QED BY <1>0, <3>1, DeniedAck DEF Acknowledged
  <2>3. \A k \in Keys : last[k] \subseteq Nat
    BY <1>0 DEF TypeOK
  <2>4. \A r \in rows : r.idx \in Nat /\ r.idx < nextIdx
    BY <1>0 DEF TypeOK, Rows, IdxInv, IdxUnique
  <2>5. ASSUME NEW k \in Keys, NEW i \in last'[k]
        PROVE  i < nextIdx' /\ \A r \in rows' : r.idx = i => Key(r) = k
    <3>1. CASE i \in last[k]
      BY <1>0, <1>2, <2>1, <2>3, <2>4, <3>1 DEF AckInv
    <3>2. CASE k = Target(req[w]) /\ i = nextIdx
      BY <1>0, <1>2, <2>1, <2>4, <3>2
    <3> QED BY <2>2, <3>1, <3>2
  <2>6. ASSUME NEW v \in Writers, NEW t \in todo'[v], NEW r \in rows', Moved(v, t, r)',
               NEW k \in Keys
        PROVE  r.idx \notin last'[k]
    <3>1. v # w /\ t \in todo[v] /\ Working(v)
      BY <1>0, <2>6 DEF Moved
    <3>2. t.idx < nextIdx /\ t.idx \in Nat
      BY <1>0, <3>1 DEF IdxInv, ListedSound, TypeOK, Rows
    <3>3. r \in rows /\ Moved(v, t, r)
      BY <1>0, <1>2, <2>1, <2>6, <3>1, <3>2 DEF Moved, Key
    <3> QED BY <2>2, <2>4, <3>1, <3>3 DEF AckInv
  <2> QED BY <2>5, <2>6 DEF AckInv
<1> QED BY <1>1, <1>2 DEF Insert, Executed

LEMMA OverwriteAck ==
    ASSUME TypeInv, IdxInv, AckInv, NEW w \in Writers, NEW fate \in Fates,
           NEW hit \in Matches(req[w]), Overwrite(w, fate, hit)
    PROVE  AckInv'
<1> DEFINE idxs == {row.idx : row \in {r \in hit : ~Listed(r, Writers \ {w})}}
<1>0. /\ TypeOK /\ ThreadSound(w) /\ Adding(w)
      /\ UNCHANGED <<nextIdx, todo>> /\ todo[w] = {}
      /\ \A v \in Writers \ {w} : Working(v)' <=> Working(v)
  BY OverwriteThread DEF TypeInv, TypeOK, Working, Overwrite
<1>1. CASE rows' = rows /\ Denied(w)
  <2>1. \A v \in Writers : Working(v)' => Working(v) /\ todo'[v] \subseteq todo[v]
    BY <1>0, OverwriteThread
  <2> QED BY <1>0, <1>1, <2>1, DeniedAck, NothingAcknowledged
<1>2. CASE rows' = (rows \ hit) \cup {Written(w, row) : row \in hit}
  <2>1. hit \subseteq rows /\ \A r \in hit : Key(r) \in Touches(req[w])
    BY <1>0, MatchesTouched
  <2>2. \A r2 \in rows' : \/ r2 \in rows \ hit
                          \/ \E r \in hit : r2.idx = r.idx /\ Key(r2) = Target(req[w])
    <3>1. \A r \in hit : Written(w, r).idx = r.idx /\ Key(Written(w, r)) = Target(req[w])
      BY <1>0, <2>1, WrittenType
    <3> QED BY <1>2, <3>1
  <2>3. Acknowledged(w, idxs) \/ Denied(w)
    BY DEF Overwrite
  <2>4. ASSUME NEW k \in Keys, NEW i \in last'[k]
        PROVE  \/ k = Target(req[w]) /\ i \in idxs
               \/ k \notin Touches(req[w]) /\ i \in last[k]
    <3> HIDE DEF idxs
    <3>1. CASE Acknowledged(w, idxs)
      BY <2>4, <3>1, OverwriteThread DEF Acknowledged
    <3>2. CASE Denied(w)
      BY <2>4, <3>2 DEF Denied, InDoubt
    <3> QED BY <2>3, <3>1, <3>2
  <2>5. \A r \in rows : r.idx < nextIdx /\ \A s \in rows : r.idx = s.idx => r = s
    BY DEF IdxInv, IdxUnique
  <2>6. ASSUME NEW k \in Keys, NEW i \in last'[k]
        PROVE  i < nextIdx' /\ \A r \in rows' : r.idx = i => Key(r) = k
    <3>1. CASE k = Target(req[w]) /\ i \in idxs
      <4>1. PICK row \in hit : i = row.idx
        BY <3>1
      <4> HIDE DEF idxs
      <4> QED BY <1>0, <2>1, <2>2, <2>5, <3>1, <4>1
    <3>2. CASE k \notin Touches(req[w]) /\ i \in last[k]
      BY <1>0, <2>1, <2>2, <3>2 DEF AckInv
    <3> QED BY <2>4, <3>1, <3>2
  <2>7. ASSUME NEW v \in Writers, NEW t \in todo'[v], NEW r2 \in rows', Moved(v, t, r2)',
               NEW k \in Keys, r2.idx \in last'[k]
        PROVE  FALSE
    <3>1. v # w /\ t \in todo[v] /\ Working(v) /\ r2.idx = t.idx /\ Key(r2) # Key(t)
      BY <1>0, <2>7 DEF Moved, Key
    <3>2. CASE k = Target(req[w]) /\ r2.idx \in idxs
      <4>1. PICK row \in hit : r2.idx = row.idx /\ ~Listed(row, Writers \ {w})
        BY <3>2
      <4> QED BY <3>1, <4>1 DEF Listed
    <3>3. CASE k \notin Touches(req[w]) /\ r2.idx \in last[k]
      <4>1. CASE r2 \in rows \ hit
        BY <3>1, <3>3, <4>1 DEF AckInv, Moved
      <4>2. CASE \E r \in hit : r2.idx = r.idx
        BY <2>1, <3>3, <4>2 DEF AckInv
      <4> QED BY <2>2, <4>1, <4>2
    <3> QED BY <2>4, <2>7, <3>2, <3>3
  <2> QED BY <2>6, <2>7 DEF AckInv
<1> QED BY <1>1, <1>2 DEF Overwrite, Executed

LEMMA AckNext == TypeInv /\ IdxInv /\ AckInv /\ [Next]_vars => AckInv'
<1> SUFFICES ASSUME TypeInv, IdxInv, AckInv, [Next]_vars PROVE AckInv'
  OBVIOUS
<1>0. TypeOK
  BY DEF TypeInv
<1>1. ASSUME NEW w \in Writers, NEW r \in Requests, Begin(w, r) PROVE AckInv'
  <2>1. \A v \in Writers : Working(v)' => (Working(v) /\ todo'[v] \subseteq todo[v]) \/ v = w
    BY <1>0, <1>1 DEF Begin, Goto, TypeOK, Working
  <2>2. UNCHANGED <<rows, nextIdx, last>> /\ todo'[w] = {}
        /\ \A v \in Writers \ {w} : todo'[v] = todo[v]
    BY <1>0, <1>1 DEF Begin, table, TypeOK
  <2> QED BY <2>1, <2>2 DEF AckInv, Moved, Key
<1>2. ASSUME NEW w \in Writers, NEW fate, NEW row, SelectRow(w, fate, row) PROVE AckInv'
  <2>1. \A v \in Writers : Working(v)' => Working(v) /\ todo'[v] \subseteq todo[v]
    BY <1>0, <1>2 DEF SelectRow, Denied, Goto, TypeOK, Working, Points
  <2>2. \A k \in Keys : last'[k] \subseteq last[k]
    BY <1>0, <1>2, DeniedAck DEF SelectRow
  <2> QED BY <1>2, <2>1, <2>2, NothingAcknowledged DEF SelectRow, table
<1>3. ASSUME NEW w \in Writers, NEW fate, DeleteRow(w, fate) PROVE AckInv'
  <2>1. \A v \in Writers : Working(v)' => Working(v) /\ todo'[v] \subseteq todo[v]
    BY <1>0, <1>3 DEF DeleteRow, Denied, Goto, TypeOK, Working, Points
  <2>2. \A k \in Keys : last'[k] \subseteq last[k]
    BY <1>0, <1>3, DeniedAck DEF DeleteRow
  <2>3. rows' \subseteq rows /\ nextIdx' = nextIdx
    BY <1>3 DEF DeleteRow
  <2> QED BY <2>1, <2>2, <2>3, NothingAcknowledged
<1>4. ASSUME NEW w \in Writers, NEW fate, NEW hit, SelectPair(w, fate, hit) PROVE AckInv'
  <2>1. \A v \in Writers : Working(v)' => Working(v) /\ todo'[v] \subseteq todo[v]
    BY <1>0, <1>4 DEF SelectPair, Denied, Goto, TypeOK, Working, Points
  <2>2. \A k \in Keys : last'[k] \subseteq last[k]
    BY <1>0, <1>4, DeniedAck DEF SelectPair
  <2> QED BY <1>4, <2>1, <2>2, NothingAcknowledged DEF SelectPair, table
<1>5. ASSUME NEW w \in Writers, Return(w) \/ Die(w) PROVE AckInv'
  <2>1. \A v \in Writers : Working(v)' => Working(v) /\ todo'[v] \subseteq todo[v]
    BY <1>0, <1>5, IdleType DEF Return, Die, Working
  <2>2. \A k \in Keys : last'[k] \subseteq last[k]
    BY <1>0, <1>5 DEF Return, Die, InDoubt, TypeOK
  <2> QED BY <1>5, <2>1, <2>2, NothingAcknowledged DEF Return, Die, table
<1>6. ASSUME NEW row \in rows, NEW c \in Comments, SetComment(row, c) PROVE AckInv'
  <2> DEFINE new == [row EXCEPT !.comment = c]
  <2>1. new.idx = row.idx /\ Key(new) = Key(row)
    BY <1>0, CommentedRow DEF TypeOK
  <2>2. rows' = (rows \ {row}) \cup {new} /\ UNCHANGED <<nextIdx, pc, todo, last>>
    BY <1>6 DEF SetComment, thread
  <2> HIDE DEF new
  <2>3. \A r2 \in rows' : \E r \in rows : r.idx = r2.idx /\ Key(r) = Key(r2)
    BY <2>1, <2>2
  <2> QED BY <2>2, <2>3, NothingAcknowledged DEF Working
<1>7. CASE UNCHANGED vars
  BY <1>7, NothingAcknowledged DEF vars, table, thread, history, Working
<1> QED
  BY <1>1, <1>2, <1>3, <1>4, <1>5, <1>6, <1>7, ListAck, InsertAck, OverwriteAck DEF Next, Step

----
\* An acknowledged registration stays.

\* While the requests in progress stay the same and no row goes, nothing is lost.
LEMMA NothingLost ==
    ASSUME StaysInv, UNCHANGED last,
           \A v \in Writers : Working(v) => Working(v)' /\ req'[v] = req[v],
           \A r \in rows : \E r2 \in rows' : r2.idx = r.idx /\ Key(r2) = Key(r)
    PROVE  StaysInv'
<1> SUFFICES ASSUME NEW k \in Keys PROVE Stays(k)'
  BY DEF StaysInv
<1>1. InProgress(k) => InProgress(k)'
  BY DEF InProgress
<1> QED BY <1>1 DEF StaysInv, Stays

\* A request that ends, whatever it answers, leaves nothing behind that it may have
\* changed but, when acknowledged, its own registration.
LEMMA Ends ==
    ASSUME TypeInv, StaysInv, NEW w \in Writers,
           \A k \in Touches(req[w]) : \A i \in last'[k] :
              \E row \in rows' : row.idx = i /\ Key(row) = k,
           \A k \in Keys : k \notin Touches(req[w]) => last'[k] = last[k],
           \A v \in Writers \ {w} : Working(v) => Working(v)' /\ req'[v] = req[v],
           \A r \in rows : \/ \E r2 \in rows' : r2.idx = r.idx /\ Key(r2) = Key(r)
                           \/ Key(r) \in Touches(req[w])
                           \/ \A k \in Keys : r.idx \notin last[k]
    PROVE  StaysInv'
<1> SUFFICES ASSUME NEW k \in Keys PROVE Stays(k)'
  BY DEF StaysInv
<1>1. CASE k \in Touches(req[w])
  BY <1>1 DEF Stays
<1>2. CASE k \notin Touches(req[w])
  <2>1. last'[k] = last[k]
    BY <1>2
  <2>2. InProgress(k) => InProgress(k)'
    BY <1>2 DEF InProgress
  <2> QED BY <1>2, <2>1, <2>2 DEF StaysInv, Stays
<1> QED BY <1>1, <1>2

LEMMA DeniedEnds ==
    ASSUME TypeOK, NEW w \in Writers, InDoubt(req[w])
    PROVE  /\ \A k \in Touches(req[w]) : k \in Keys /\ last'[k] = {}
           /\ \A k \in Keys : k \notin Touches(req[w]) => last'[k] = last[k]
BY DEF InDoubt, Touches, Concerns, PairKeys

LEMMA AcknowledgedEnds ==
    ASSUME TypeOK, NEW w \in Writers, NEW idxs, Acknowledged(w, idxs),
           Target(req[w]) \in Keys, Target(req[w]) \in Touches(req[w])
    PROVE  /\ \A k \in Touches(req[w]) : last'[k] = IF k = Target(req[w]) THEN idxs ELSE {}
           /\ \A k \in Keys : k \notin Touches(req[w]) => last'[k] = last[k]
BY DEF Acknowledged, Touches, Concerns, PairKeys

\* The step of one instance leaves the others at work on their requests.
LEMMA OthersAtWork ==
    ASSUME NEW w \in Writers, TypeOK,
           \/ \E r \in Requests : Begin(w, r)
           \/ \E fate \in Fates :
                \/ \E found \in SUBSET rows : List(w, fate, found)
                \/ \E row \in todo[w] : SelectRow(w, fate, row)
                \/ DeleteRow(w, fate) \/ Insert(w, fate)
                \/ \E hit \in Matches(req[w]) : SelectPair(w, fate, hit) \/ Overwrite(w, fate, hit)
           \/ Return(w) \/ Die(w)
    PROVE  \A v \in Writers \ {w} : pc'[v] = pc[v] /\ req'[v] = req[v] /\ todo'[v] = todo[v]
<1>1. CASE Return(w) \/ Die(w)
  BY <1>1, IdleType DEF Return, Die
<1>2. CASE \E fate \in Fates : Insert(w, fate)
  BY <1>2 DEF Insert, Acknowledged, Denied, Goto, TypeOK
<1>3. CASE \E fate \in Fates : \E hit \in Matches(req[w]) : Overwrite(w, fate, hit)
  BY <1>3 DEF Overwrite, Acknowledged, Denied, Goto, TypeOK
<1>4. CASE \E fate \in Fates : \E hit \in Matches(req[w]) : SelectPair(w, fate, hit)
  BY <1>4 DEF SelectPair, Denied, Goto, TypeOK
<1>5. CASE \/ \E r \in Requests : Begin(w, r)
           \/ \E fate \in Fates :
                \/ \E found \in SUBSET rows : List(w, fate, found)
                \/ \E row \in todo[w] : SelectRow(w, fate, row)
                \/ DeleteRow(w, fate)
  BY <1>5 DEF Begin, List, SelectRow, DeleteRow, Denied, Goto, TypeOK
<1> QED BY <1>1, <1>2, <1>3, <1>4, <1>5

LEMMA StaysInit == Init => StaysInv
BY DEF Init, StaysInv, Stays

\* A row goes with the one that listed it: it is covered by his request, or was
\* made another's by a unique pair and never acknowledged since.
LEMMA DeleteStays ==
    ASSUME TypeInv, IdxInv, AckInv, StaysInv, NEW w \in Writers, NEW fate \in Fates,
           DeleteRow(w, fate)
    PROVE  StaysInv'
<1>0. TypeOK /\ ThreadSound(w) /\ Working(w) /\ ListedSound(w) /\ inHand[w] \in todo[w]
  BY DEF TypeInv, IdxInv, DeleteRow, Working, Points, ThreadSound
<1>1. ASSUME NEW r \in rows
      PROVE  r \in rows' \/ Key(r) \in Touches(req[w]) \/ \A k \in Keys : r.idx \notin last[k]
  <2>1. CASE r.idx # inHand[w].idx
    BY <2>1 DEF DeleteRow
  <2>2. CASE r.idx = inHand[w].idx /\ Key(r) = Key(inHand[w])
    BY <1>0, <2>2 DEF ListedSound, Touches
  <2>3. CASE r.idx = inHand[w].idx /\ Key(r) # Key(inHand[w])
    BY <1>0, <2>3 DEF AckInv, Moved
  <2> QED BY <2>1, <2>2, <2>3
<1>2. \A v \in Writers \ {w} : Working(v) => Working(v)' /\ req'[v] = req[v]
  BY <1>0, OthersAtWork DEF Working
<1>3. CASE fate = "done"
  <2>1. Working(w)' /\ req' = req /\ last' = last
    BY <1>0, <1>3 DEF DeleteRow, Goto, Working, Points, TypeOK
  <2> SUFFICES ASSUME NEW k \in Keys PROVE Stays(k)'
    BY DEF StaysInv
  <2>2. InProgress(k) => InProgress(k)'
    BY <1>2, <2>1 DEF InProgress
  <2>3. k \in Touches(req[w]) => InProgress(k)'
    BY <2>1 DEF InProgress
  <2> QED BY <1>1, <2>1, <2>2, <2>3 DEF StaysInv, Stays
<1>4. CASE fate # "done"
  <2>1. InDoubt(req[w])
    BY <1>4 DEF DeleteRow, Denied
  <2> QED BY <1>0, <1>1, <1>2, <2>1, DeniedEnds, Ends
<1> QED BY <1>3, <1>4

LEMMA InsertStays ==
    ASSUME TypeInv, StaysInv, NEW w \in Writers, NEW fate \in Fates, Insert(w, fate)
    PROVE  StaysInv'
<1>0. TypeOK /\ ThreadSound(w) /\ Adding(w)
  BY InsertThread DEF TypeInv
<1>1. rows \subseteq rows'
  BY DEF Insert
<1>2. \A v \in Writers \ {w} : Working(v) => Working(v)' /\ req'[v] = req[v]
  BY <1>0, OthersAtWork DEF Working
<1>3. CASE fate = "done"
  <2>1. NewRow(w) \in rows' /\ NewRow(w).idx = nextIdx /\ Key(NewRow(w)) = Target(req[w])
    BY <1>0, <1>3, NewRowType DEF Insert, Executed, NewRow
  <2>2. /\ \A k \in Touches(req[w]) : last'[k] = IF k = Target(req[w]) THEN {nextIdx} ELSE {}
        /\ \A k \in Keys : k \notin Touches(req[w]) => last'[k] = last[k]
    BY <1>0, <1>3, InsertThread, AcknowledgedEnds DEF Insert
  <2> QED BY <1>1, <1>2, <2>1, <2>2, Ends
<1>4. CASE fate # "done"
  <2>1. InDoubt(req[w])
    BY <1>4 DEF Insert, Denied
  <2> QED BY <1>0, <1>1, <1>2, <2>1, DeniedEnds, Ends
<1> QED BY <1>3, <1>4

LEMMA OverwriteStays ==
    ASSUME TypeInv, StaysInv, NEW w \in Writers, NEW fate \in Fates,
           NEW hit \in Matches(req[w]), Overwrite(w, fate, hit)
    PROVE  StaysInv'
<1> DEFINE idxs == {row.idx : row \in {r \in hit : ~Listed(r, Writers \ {w})}}
<1>0. TypeOK /\ ThreadSound(w) /\ Adding(w)
  BY OverwriteThread DEF TypeInv
<1>1. \A r \in rows : r \in rows' \/ Key(r) \in Touches(req[w])
  BY <1>0, MatchesTouched DEF Overwrite
<1>2. \A v \in Writers \ {w} : Working(v) => Working(v)' /\ req'[v] = req[v]
  BY <1>0, OthersAtWork DEF Working
<1>3. CASE fate = "done"
  <2>1. \A i \in idxs : \E r2 \in rows' : r2.idx = i /\ Key(r2) = Target(req[w])
    <3>1. \A r \in hit : Written(w, r).idx = r.idx /\ Key(Written(w, r)) = Target(req[w])
      BY <1>0, MatchesTouched, WrittenType
    <3>2. \A r \in hit : Written(w, r) \in rows'
      BY <1>3 DEF Overwrite, Executed
    <3> QED BY <3>1, <3>2
  <2>2. Acknowledged(w, idxs)
    BY <1>3 DEF Overwrite
  <2> HIDE DEF idxs
  <2>3. /\ \A k \in Touches(req[w]) : last'[k] = IF k = Target(req[w]) THEN idxs ELSE {}
        /\ \A k \in Keys : k \notin Touches(req[w]) => last'[k] = last[k]
    BY <1>0, <2>2, OverwriteThread, AcknowledgedEnds
  <2> QED BY <1>1, <1>2, <2>1, <2>3, Ends
<1>4. CASE fate # "done"
  <2>1. InDoubt(req[w])
    BY <1>4 DEF Overwrite, Denied
  <2> QED BY <1>0, <1>1, <1>2, <2>1, DeniedEnds, Ends
<1> QED BY <1>3, <1>4

LEMMA StaysNext == TypeInv /\ IdxInv /\ AckInv /\ StaysInv /\ [Next]_vars => StaysInv'
<1> SUFFICES ASSUME TypeInv, IdxInv, AckInv, StaysInv, [Next]_vars PROVE StaysInv'
  OBVIOUS
<1>0. TypeOK
  BY DEF TypeInv
<1>1. ASSUME NEW w \in Writers, NEW r \in Requests, Begin(w, r) PROVE StaysInv'
  <2>1. \A v \in Writers : Working(v) => Working(v)' /\ req'[v] = req[v]
    BY <1>0, <1>1, OthersAtWork DEF Begin, Working, Points
  <2> QED BY <1>1, <2>1, NothingLost DEF Begin, table, history
<1>2. ASSUME NEW w \in Writers, NEW fate \in Fates, NEW found \in SUBSET rows,
             List(w, fate, found) PROVE StaysInv'
  <2>1. \A v \in Writers : Working(v) => Working(v)' /\ req'[v] = req[v]
    BY <1>0, <1>2 DEF List, Goto, Working, Points, TypeOK
  <2> QED BY <1>2, <2>1, NothingLost DEF List, table
<1>3. ASSUME NEW w \in Writers, NEW fate \in Fates, NEW row \in todo[w],
             SelectRow(w, fate, row) PROVE StaysInv'
  <2>1. \A v \in Writers \ {w} : Working(v) => Working(v)' /\ req'[v] = req[v]
    BY <1>0, <1>3, OthersAtWork DEF Working
  <2>2. CASE InDoubt(req[w])
    <3>1. rows' = rows
      BY <1>3 DEF SelectRow, table
    <3> QED BY <1>0, <2>1, <2>2, <3>1, DeniedEnds, Ends
  <2>3. CASE Goto(w, "delete") /\ UNCHANGED <<statusOK, last>>
    <3>1. \A v \in Writers : Working(v) => Working(v)' /\ req'[v] = req[v]
      BY <1>0, <1>3, <2>3 DEF SelectRow, Goto, Working, Points, TypeOK
    <3> QED BY <1>3, <2>3, <3>1, NothingLost DEF SelectRow, table
  <2> QED BY <1>3, <2>2, <2>3 DEF SelectRow, Denied
<1>4. ASSUME NEW w \in Writers, NEW fate \in Fates, NEW hit \in Matches(req[w]),
             SelectPair(w, fate, hit) PROVE StaysInv'
  <2>0. rows' = rows
    BY <1>4 DEF SelectPair, table
  <2>1. \A v \in Writers \ {w} : Working(v) => Working(v)' /\ req'[v] = req[v]
    BY <1>0, <1>4, OthersAtWork DEF Working
  <2>2. CASE InDoubt(req[w])
    BY <1>0, <2>0, <2>1, <2>2, DeniedEnds, Ends
  <2>3. CASE Goto(w, IF hit = {} THEN "insert" ELSE "overwrite") /\ UNCHANGED <<statusOK, last>>
    <3>1. \A v \in Writers : Working(v) => Working(v)' /\ req'[v] = req[v]
      BY <1>0, <1>4, <2>3 DEF SelectPair, Goto, Working, Points, TypeOK
    <3> QED BY <2>0, <2>3, <3>1, NothingLost
  <2> QED BY <1>4, <2>2, <2>3 DEF SelectPair, Denied
<1>5. ASSUME NEW w \in Writers, Return(w) PROVE StaysInv'
  <2>1. \A v \in Writers : Working(v) => Working(v)' /\ req'[v] = req[v]
    BY <1>0, <1>5, IdleType DEF Return, Working
  <2> QED BY <1>5, <2>1, NothingLost DEF Return, table, history
<1>6. ASSUME NEW w \in Writers, Die(w) PROVE StaysInv'
  <2>1. \A v \in Writers \ {w} : Working(v) => Working(v)' /\ req'[v] = req[v]
    BY <1>0, <1>6, OthersAtWork DEF Working
  <2>2. rows' = rows /\ InDoubt(req[w])
    BY <1>6 DEF Die, table
  <2> QED BY <1>0, <2>1, <2>2, DeniedEnds, Ends
<1>7. ASSUME NEW row \in rows, NEW c \in Comments, SetComment(row, c) PROVE StaysInv'
  <2> DEFINE new == [row EXCEPT !.comment = c]
  <2>1. new.idx = row.idx /\ Key(new) = Key(row)
    BY <1>0, CommentedRow DEF TypeOK
  <2>2. rows' = (rows \ {row}) \cup {new} /\ UNCHANGED <<pc, req, last>>
    BY <1>7 DEF SetComment, thread
  <2> HIDE DEF new
  <2>3. \A r \in rows : \E r2 \in rows' : r2.idx = r.idx /\ Key(r2) = Key(r)
    BY <2>1, <2>2
  <2> QED BY <2>2, <2>3, NothingLost DEF Working
<1>8. CASE UNCHANGED vars
  BY <1>8, NothingLost DEF vars, table, thread, history, Working
<1> QED
  BY <1>1, <1>2, <1>3, <1>4, <1>5, <1>6, <1>7, <1>8, DeleteStays, InsertStays, OverwriteStays
     DEF Next, Step

\* registerAnalytics deletes the old registrations before it adds the new one.  For
\* every number of instances, failures, lost answers and deaths, the rows it acknowledged
\* a registration in are there and are that registration's, unless a later request for it
\* is under way, failed, came without proxy_ip, or reached them by its unique pair.
THEOREM RegistrationStays == Spec => []AcknowledgedStaysRegistered
<1>1. Init => TypeInv /\ IdxInv /\ AckInv /\ StaysInv
  BY TypeInvInit, IdxInvInit, AckInit, StaysInit
<1>2. TypeInv /\ IdxInv /\ AckInv /\ StaysInv /\ [Next]_vars
        => (TypeInv /\ IdxInv /\ AckInv /\ StaysInv)'
  BY TypeInvNext, IdxInvNext, AckNext, StaysNext
<1>3. StaysInv => AcknowledgedStaysRegistered
  BY DEF StaysInv, Stays, InProgress, AcknowledgedStaysRegistered
<1> QED BY <1>1, <1>2, <1>3, PTL DEF Spec

----
\* One registration per instance.

\* An instance whose thread does not step keeps its listing; steps of others take rows
\* away, change comments, and add rows of their own only.
LEMMA OthersListed ==
    ASSUME NEW v \in Writers, OwnListed(v),
           pc'[v] = pc[v], whole'[v] = whole[v], req'[v] = req[v], todo'[v] = todo[v],
           \A r2 \in rows' : r2.by = v =>
              \E r \in rows : r.by = v /\ r.idx = r2.idx /\ Key(r) = Key(r2)
    PROVE  OwnListed(v)'
BY DEF OwnListed, Adding

\* Rows that only go or change comments stay one per instance and key.
LEMMA FewerOwn ==
    ASSUME IdxUnique, IdxUnique', OneRegistrationPerInstance, UNCHANGED blind,
           \A r2 \in rows' : \E r \in rows : r.by = r2.by /\ r.idx = r2.idx /\ Key(r) = Key(r2)
    PROVE  OneRegistrationPerInstance'
<1> SUFFICES ASSUME NEW r1 \in rows', NEW r2 \in rows', r1.by = r2.by, Key(r1) = Key(r2),
                    Key(r1) \notin blind[r1.by]
             PROVE  r1 = r2
  BY DEF OneRegistrationPerInstance
<1>1. PICK o1 \in rows : o1.by = r1.by /\ o1.idx = r1.idx /\ Key(o1) = Key(r1)
  OBVIOUS
<1>2. PICK o2 \in rows : o2.by = r2.by /\ o2.idx = r2.idx /\ Key(o2) = Key(r2)
  OBVIOUS
<1>3. o1 = o2
  BY <1>1, <1>2 DEF OneRegistrationPerInstance
<1> QED BY <1>1, <1>2, <1>3 DEF IdxUnique

LEMMA OwnInit == Init => OwnInv
BY DEF Init, OwnInv, OneRegistrationPerInstance, OwnListed, Adding

LEMMA ListOwn ==
    ASSUME TypeInv, IdxInv, OwnInv, NEW w \in Writers, NEW fate \in Fates,
           NEW found \in SUBSET rows, List(w, fate, found)
    PROVE  OwnInv'
<1>0. TypeOK
  BY DEF TypeInv
<1>1. OneRegistrationPerInstance'
  BY DEF List, table, OwnInv, OneRegistrationPerInstance
<1>2. UNCHANGED <<rows, req>> /\ todo'[w] = found /\ pc'[w] = IF found = {} THEN "add" ELSE "rows"
  BY <1>0 DEF List, table, Goto, TypeOK
<1>3. whole'[w] => found = Registered(req[w])
  BY <1>0 DEF List, TypeOK
<1>4. OwnListed(w)'
  BY <1>2, <1>3 DEF OwnListed, Adding, Registered
<1>5. ASSUME NEW v \in Writers \ {w} PROVE OwnListed(v)'
  <2>1. pc'[v] = pc[v] /\ whole'[v] = whole[v] /\ todo'[v] = todo[v]
    BY <1>0 DEF List, Goto, TypeOK
  <2> QED BY <1>2, <2>1, OthersListed DEF OwnInv
<1> QED BY <1>1, <1>4, <1>5 DEF OwnInv

LEMMA DeleteOwn ==
    ASSUME TypeInv, IdxInv, OwnInv, NEW w \in Writers, NEW fate \in Fates,
           DeleteRow(w, fate)
    PROVE  OwnInv'
<1>0. TypeOK
  BY DEF TypeInv
<1>1. rows' \subseteq rows /\ UNCHANGED <<req, whole, blind>>
      /\ todo' = [todo EXCEPT ![w] = @ \ {inHand[w]}]
  BY DEF DeleteRow
<1>2. OneRegistrationPerInstance'
  BY <1>1 DEF OwnInv, OneRegistrationPerInstance
<1>3. OwnListed(w)'
  <2>1. CASE fate = "done"
    <3>1. \A r \in rows' : r \in rows /\ r.idx # inHand[w].idx
      BY <2>1 DEF DeleteRow, Executed
    <3>2. todo'[w] = todo[w] \ {inHand[w]} /\ pc[w] = "delete"
          /\ pc'[w] = IF todo[w] = {inHand[w]} THEN "add" ELSE "rows"
      BY <1>0, <2>1 DEF DeleteRow, Goto, TypeOK
    <3> QED BY <1>1, <3>1, <3>2 DEF OwnInv, OwnListed, Adding
  <2>2. CASE fate # "done"
    <3>1. pc'[w] = "answered"
      BY <1>0, <2>2, DeniedType DEF DeleteRow, TypeOK
    <3> QED BY <3>1 DEF OwnListed, Adding
  <2> QED BY <2>1, <2>2
<1>4. ASSUME NEW v \in Writers \ {w} PROVE OwnListed(v)'
  <2>1. pc'[v] = pc[v] /\ todo'[v] = todo[v]
    BY <1>0 DEF DeleteRow, Denied, Goto, TypeOK
  <2> QED BY <1>1, <2>1, OthersListed DEF OwnInv
<1> QED BY <1>2, <1>3, <1>4 DEF OwnInv

\* What both writing statements leave: rows of w that were there and are not written
\* now, and those that are.
LEMMA WrittenOwn ==
    ASSUME TypeInv, OwnInv, NEW w \in Writers, Adding(w), NEW hit, Blinded(w, hit),
           Target(req[w]) \in Concerns(req[w]), NEW written,
           \A r \in rows' : r \in rows \/ r \in written,
           \A r \in written : r.by = w /\ Key(r) = Target(req[w]),
           (\A r1, r2 \in hit : r1 = r2) => \A r1, r2 \in written : r1 = r2,
           pc' = [pc EXCEPT ![w] = "answered"], UNCHANGED <<req, todo, whole>>
    PROVE  OwnInv'
<1>0. TypeOK
  BY DEF TypeInv
<1>1. whole[w] => \A r \in rows : r.by = w => Key(r) \notin Concerns(req[w])
  BY DEF OwnInv, OwnListed
<1>2. \A v \in Writers \ {w} : blind'[v] = blind[v]
  BY <1>0 DEF TypeOK, Blinded
<1>3. blind'[w] = IF whole[w] /\ \A r1, r2 \in hit : r1 = r2 THEN blind[w] \ Concerns(req[w])
                  ELSE blind[w] \cup {Target(req[w])}
  BY <1>0 DEF TypeOK, Blinded
<1>4. \A r \in rows : r.by \in Writers
  BY <1>0 DEF TypeOK, Rows
<1>5. OneRegistrationPerInstance'
  <2> SUFFICES ASSUME NEW r1 \in rows', NEW r2 \in rows', r1.by = r2.by, Key(r1) = Key(r2),
                      Key(r1) \notin blind'[r1.by]
               PROVE  r1 = r2
    BY DEF OneRegistrationPerInstance
  <2>1. CASE r1 \in rows /\ r2 \in rows
    <3>1. Key(r1) \notin blind[r1.by]
      BY <1>1, <1>2, <1>3, <1>4, <2>1
    <3> QED BY <2>1, <3>1 DEF OwnInv, OneRegistrationPerInstance
  <2>2. CASE r1 \in written \/ r2 \in written
    <3>1. r1.by = w /\ Key(r1) = Target(req[w])
      BY <2>2
    <3>2. whole[w] /\ \A h1, h2 \in hit : h1 = h2
      BY <1>3, <3>1
    <3>3. r1 \notin rows /\ r2 \notin rows
      BY <1>1, <3>1, <3>2
    <3> QED BY <3>2, <3>3
  <2> QED BY <2>1, <2>2
<1>6. OwnListed(w)'
  BY <1>0 DEF OwnListed, Adding, TypeOK
<1>7. ASSUME NEW v \in Writers \ {w} PROVE OwnListed(v)'
  <2>1. pc'[v] = pc[v]
    BY <1>0 DEF TypeOK
  <2> QED BY <2>1, OthersListed DEF OwnInv
<1> QED BY <1>5, <1>6, <1>7 DEF OwnInv

\* A statement that writes nothing leaves them all.
LEMMA UnwrittenOwn ==
    ASSUME TypeInv, OwnInv, NEW w \in Writers, UNCHANGED <<rows, blind>>,
           pc' = [pc EXCEPT ![w] = "answered"], UNCHANGED <<req, todo, whole>>
    PROVE  OwnInv'
<1>1. OneRegistrationPerInstance'
  BY DEF OwnInv, OneRegistrationPerInstance
<1>2. ASSUME NEW v \in Writers PROVE OwnListed(v)'
  BY DEF OwnInv, OwnListed, Adding, TypeInv, TypeOK
<1> QED BY <1>1, <1>2 DEF OwnInv

LEMMA InsertOwn ==
    ASSUME TypeInv, IdxInv, OwnInv, NEW w \in Writers, NEW fate \in Fates, Insert(w, fate)
    PROVE  OwnInv'
<1>0. TypeOK /\ ThreadSound(w) /\ Adding(w)
  BY InsertThread DEF TypeInv
<1>1. NewRow(w).by = w /\ Key(NewRow(w)) = Target(req[w])
  BY <1>0, NewRowType DEF NewRow
<1>2. CASE rows' = rows /\ blind' = blind
  BY <1>2, InsertThread, UnwrittenOwn
<1>3. CASE rows' = rows \cup {NewRow(w)} /\ Blinded(w, {})
  <2> DEFINE written == {NewRow(w)}
  <2>1. /\ \A r \in rows' : r \in rows \/ r \in written
        /\ \A r \in written : r.by = w /\ Key(r) = Target(req[w])
        /\ \A r1, r2 \in written : r1 = r2
    BY <1>1, <1>3
  <2>2. /\ pc' = [pc EXCEPT ![w] = "answered"] /\ UNCHANGED <<req, todo, whole>>
        /\ Target(req[w]) \in Concerns(req[w])
    BY InsertThread
  <2> HIDE DEF written
  <2> QED BY <1>0, <1>3, <2>1, <2>2, WrittenOwn
<1> QED BY <1>2, <1>3 DEF Insert

LEMMA OverwriteOwn ==
    ASSUME TypeInv, IdxInv, OwnInv, NEW w \in Writers, NEW fate \in Fates,
           NEW hit \in Matches(req[w]), Overwrite(w, fate, hit)
    PROVE  OwnInv'
<1>0. TypeOK /\ ThreadSound(w) /\ Adding(w)
  BY OverwriteThread DEF TypeInv
<1>1. CASE rows' = rows /\ blind' = blind
  BY <1>1, OverwriteThread, UnwrittenOwn
<1>2. CASE rows' = (rows \ hit) \cup {Written(w, row) : row \in hit} /\ Blinded(w, hit)
  <2> DEFINE written == {Written(w, row) : row \in hit}
  <2>1. \A r \in hit : Written(w, r).by = w /\ Key(Written(w, r)) = Target(req[w])
    BY <1>0, MatchesTouched, WrittenType
  <2>2. /\ \A r \in rows' : r \in rows \/ r \in written
        /\ \A r \in written : r.by = w /\ Key(r) = Target(req[w])
        /\ (\A r1, r2 \in hit : r1 = r2) => \A r1, r2 \in written : r1 = r2
    BY <1>2, <2>1
  <2>3. /\ pc' = [pc EXCEPT ![w] = "answered"] /\ UNCHANGED <<req, todo, whole>>
        /\ Target(req[w]) \in Concerns(req[w])
    BY OverwriteThread
  <2> HIDE DEF written
  <2> QED BY <1>0, <1>2, <2>2, <2>3, WrittenOwn
<1> QED BY <1>1, <1>2 DEF Overwrite

LEMMA OwnNext == TypeInv /\ IdxInv /\ OwnInv /\ [Next]_vars => OwnInv'
<1> SUFFICES ASSUME TypeInv, IdxInv, OwnInv, [Next]_vars PROVE OwnInv'
  OBVIOUS
<1>0. TypeOK
  BY DEF TypeInv
<1>1. ASSUME UNCHANGED <<rows, blind>>, NEW w \in Writers,
             \/ pc'[w] \notin {"rows", "delete"} /\ ~Adding(w)'
             \/ /\ \/ pc[w] \in {"rows", "delete"} /\ pc'[w] \in {"rows", "delete"}
                   \/ Adding(w) /\ pc'[w] \notin {"rows", "delete"}
                /\ UNCHANGED <<req, whole, todo>>,
             \A v \in Writers \ {w} : /\ pc'[v] = pc[v] /\ req'[v] = req[v]
                                       /\ todo'[v] = todo[v] /\ whole'[v] = whole[v]
      PROVE  OwnInv'
  <2>1. OneRegistrationPerInstance'
    BY <1>1 DEF OwnInv, OneRegistrationPerInstance
  <2>2. OwnListed(w)'
    BY <1>1 DEF OwnInv, OwnListed, Adding
  <2>3. ASSUME NEW v \in Writers \ {w} PROVE OwnListed(v)'
    BY <1>1, OthersListed DEF OwnInv
  <2> QED BY <2>1, <2>2, <2>3 DEF OwnInv
<1>2. ASSUME NEW w \in Writers, NEW r \in Requests, Begin(w, r) PROVE OwnInv'
  <2>1. pc'[w] \in {"answered", "list"} /\ UNCHANGED <<rows, blind, whole>>
    BY <1>0, <1>2 DEF Begin, Goto, TypeOK, table, history
  <2> QED BY <1>0, <1>1, <1>2, <2>1, OthersAtWork DEF Adding
<1>3. ASSUME NEW w \in Writers, NEW fate \in Fates, NEW row \in todo[w],
             SelectRow(w, fate, row) PROVE OwnInv'
  <2>1. pc'[w] \in {"answered", "delete"} /\ UNCHANGED <<rows, blind, req, whole, todo>>
        /\ pc[w] = "rows"
    BY <1>0, <1>3 DEF SelectRow, Denied, Goto, TypeOK, table
  <2> QED BY <1>0, <1>1, <1>3, <2>1, OthersAtWork DEF Adding
<1>4. ASSUME NEW w \in Writers, NEW fate \in Fates, NEW hit \in Matches(req[w]),
             SelectPair(w, fate, hit) PROVE OwnInv'
  <2>1. pc'[w] \in {"answered", "insert", "overwrite"} /\ pc[w] = "add"
        /\ UNCHANGED <<rows, blind, req, whole, todo>>
    BY <1>0, <1>4 DEF SelectPair, Denied, Goto, TypeOK, table
  <2> QED BY <1>0, <1>1, <1>4, <2>1, OthersAtWork DEF Adding
<1>5. ASSUME NEW w \in Writers, Return(w) \/ Die(w) PROVE OwnInv'
  <2>1. /\ pc'[w] = "idle" /\ UNCHANGED <<rows, blind>>
        /\ \A v \in Writers \ {w} : /\ pc'[v] = pc[v] /\ req'[v] = req[v]
                                      /\ todo'[v] = todo[v] /\ whole'[v] = whole[v]
    BY <1>0, <1>5, IdleType DEF Return, Die, table
  <2> QED BY <1>1, <2>1 DEF Adding
<1>6. ASSUME NEW row \in rows, NEW c \in Comments, SetComment(row, c) PROVE OwnInv'
  <2> DEFINE new == [row EXCEPT !.comment = c]
  <2>1. new.idx = row.idx /\ new.by = row.by /\ Key(new) = Key(row)
    BY <1>0, CommentedRow DEF TypeOK
  <2>2. rows' = (rows \ {row}) \cup {new} /\ UNCHANGED <<pc, req, todo, whole, blind>>
    BY <1>6 DEF SetComment, thread
  <2> HIDE DEF new
  <2>3. \A r2 \in rows' : \E r \in rows : r.by = r2.by /\ r.idx = r2.idx /\ Key(r) = Key(r2)
    BY <2>1, <2>2
  <2>4. IdxUnique /\ IdxUnique'
    BY IdxInvNext DEF IdxInv
  <2>5. OneRegistrationPerInstance'
    BY <2>2, <2>3, <2>4, FewerOwn DEF OwnInv
  <2>6. ASSUME NEW v \in Writers PROVE OwnListed(v)'
    BY <2>2, <2>3, OthersListed DEF OwnInv
  <2> QED BY <2>5, <2>6 DEF OwnInv
<1>7. CASE UNCHANGED vars
  BY <1>7 DEF vars, table, thread, history, OwnInv, OneRegistrationPerInstance, OwnListed, Adding
<1> QED
  BY <1>2, <1>3, <1>4, <1>5, <1>6, <1>7, ListOwn, DeleteOwn, InsertOwn, OverwriteOwn
     DEF Next, Step

\* The table has no constraint that keeps a module from being registered twice.  For
\* every number of instances, failures and deaths, an instance never does it, except
\* for a module and proxy it last registered without a whole listing, or whose unique pair
\* then named several rows.
THEOREM OneRegistration == Spec => []OneRegistrationPerInstance
<1>1. Init => TypeInv /\ IdxInv /\ OwnInv
  BY TypeInvInit, IdxInvInit, OwnInit
<1>2. TypeInv /\ IdxInv /\ OwnInv /\ [Next]_vars => (TypeInv /\ IdxInv /\ OwnInv)'
  BY TypeInvNext, IdxInvNext, OwnNext
<1>3. OwnInv => OneRegistrationPerInstance
  BY DEF OwnInv
<1> QED BY <1>1, <1>2, <1>3, PTL DEF Spec
----
\* Comments that outlive the rows that carried them.

AtWorkOn(w, k) == Working(w) /\ k \in Touches(req[w])

\* A key nobody knows anything of has a row, or one who listed it is about to add it.
SomethingThere(k) ==
    \/ NoComment \in noted[k]
    \/ \E row \in rows : Key(row) = k
    \/ \E w \in Writers : AtWorkOn(w, k) /\ pc[w] # "list"

\* Unless k is in doubt, an instance that registers it is alone with it, the rows it
\* listed are there until it deletes them, and it holds a comment k may have.
CarriedOver(w, k) ==
    \/ noted[k] = Text
    \/ /\ req[w].proxy # NoProxy /\ req[w].uniqName = "absent"
       /\ \A v \in Writers \ {w} : ~AtWorkOn(v, k)
       /\ pc[w] = "list" => saveComment[w] = NoComment
       /\ pc[w] \in {"delete", "add"} => saveComment[w] \in noted[k]
       /\ \A t \in todo[w] : t.comment \in noted[k] /\ \E r \in rows : r.idx = t.idx

RowsNoted == \A row \in rows : row.comment \in noted[Key(row)]

\* A row a unique pair took from one key to another after it was listed: nothing is known
\* of the comments of either.
MovedNoted ==
    \A v \in Writers : \A t \in todo[v], r \in rows :
        Moved(v, t, r) => noted[Key(t)] = Text /\ noted[Key(r)] = Text

Kept ==
    /\ RowsNoted /\ MovedNoted
    /\ \A k \in Keys : SomethingThere(k)
    /\ \A w \in Writers, k \in Keys : AtWorkOn(w, k) => CarriedOver(w, k)

TodoUnique == \A w \in Writers : \A t1, t2 \in todo[w] : t1.idx = t2.idx => t1 = t2

CommentInv == TodoUnique /\ (faults = 0 => Kept)

\* Without a failure a statement is executed and answered.
LEMMA NoFault ==
    ASSUME TypeOK, NEW fate, Statement(fate), faults' = 0
    PROVE  fate = "done" /\ faults = 0
BY DEF TypeOK, Statement

\* A request with a proxy and without a unique pair changes one key.
LEMMA OneConcern ==
    ASSUME NEW r, r.proxy # NoProxy, r.uniqName = "absent",
           NEW k \in Touches(r), NEW j \in Touches(r)
    PROVE  k = j /\ k \in Concerns(r)
BY DEF Touches, PairKeys, Concerns, Keys

LEMMA KeyOfRow == ASSUME NEW row \in Rows PROVE Key(row) \in Keys
BY DEF Rows, Key, Keys

LEMMA CommentInit == Init => CommentInv
BY DEF Init, CommentInv, TodoUnique, Kept, RowsNoted, MovedNoted, SomethingThere, AtWorkOn, Working,
       Points

\* A step that notes nothing and takes no listed row to another key keeps what is known of
\* the rows that were.
LEMMA NothingMoved ==
    ASSUME MovedNoted, UNCHANGED noted,
           \A v \in Writers : \A t \in todo'[v], r2 \in rows' : Moved(v, t, r2)' =>
              \E r \in rows : Moved(v, t, r) /\ Key(r) = Key(r2)
    PROVE  MovedNoted'
<1> SUFFICES ASSUME NEW v \in Writers, NEW t \in todo'[v], NEW r2 \in rows', Moved(v, t, r2)'
             PROVE  noted[Key(t)] = Text /\ noted[Key(r2)] = Text
  BY DEF MovedNoted
<1>1. PICK r \in rows : Moved(v, t, r) /\ Key(r) = Key(r2)
  OBVIOUS
<1> QED BY <1>1 DEF MovedNoted, Moved

\* An instance that does not step carries its comment on while nobody else comes to
\* its key and the rows it listed stay.
LEMMA OthersCarry ==
    ASSUME NEW v \in Writers, NEW k \in Keys, AtWorkOn(v, k) => CarriedOver(v, k),
           pc'[v] = pc[v], req'[v] = req[v], todo'[v] = todo[v],
           saveComment'[v] = saveComment[v],
           noted'[k] = noted[k],
           \A u \in Writers \ {v} : AtWorkOn(u, k)' => AtWorkOn(u, k),
           AtWorkOn(v, k) /\ noted[k] # Text =>
              \A t \in todo[v] : (\E r \in rows : r.idx = t.idx)
                                    => \E r \in rows' : r.idx = t.idx
    PROVE  (AtWorkOn(v, k) => CarriedOver(v, k))'
<1>1. AtWorkOn(v, k)' <=> AtWorkOn(v, k)
  BY DEF AtWorkOn, Working
<1>2. CASE ~AtWorkOn(v, k)
  BY <1>1, <1>2
<1>3. CASE AtWorkOn(v, k)
  BY <1>3 DEF CarriedOver, Text
<1> QED BY <1>2, <1>3

LEMMA BeginComment ==
    ASSUME TypeInv, CommentInv, NEW w \in Writers, NEW r \in Requests, Begin(w, r)
    PROVE  CommentInv'
<1>0. TypeOK
  BY DEF TypeInv
<1>1. /\ pc[w] = "idle" /\ pc'[w] \in {"answered", "list"} /\ req'[w] = r
      /\ todo'[w] = {} /\ saveComment'[w] = NoComment /\ UNCHANGED <<rows, faults>>
      /\ \A v \in Writers \ {w} :
           /\ pc'[v] = pc[v] /\ req'[v] = req[v] /\ todo'[v] = todo[v]
           /\ saveComment'[v] = saveComment[v]
  BY <1>0 DEF Begin, Goto, TypeOK, table
<1>2. \A k \in Keys : noted'[k] = IF k \in Contested(w, r) THEN Text ELSE noted[k]
  BY DEF Begin, Text
<1>3. TodoUnique'
  BY <1>1 DEF CommentInv, TodoUnique
<1>4. SUFFICES ASSUME faults' = 0 PROVE Kept'
  BY <1>3 DEF CommentInv
<1>5. Kept
  BY <1>1, <1>4 DEF CommentInv
<1>6. \A k \in Keys : noted[k] \subseteq noted'[k] /\ NoComment \in Text
  BY <1>0, <1>2 DEF TypeOK, Text
<1>7. RowsNoted'
  <2>1. \A row \in rows : Key(row) \in Keys
    BY <1>0, KeyOfRow DEF TypeOK
  <2> QED BY <1>1, <1>5, <1>6, <2>1 DEF Kept, RowsNoted, Key
<1>8. \A v \in Writers \ {w}, k \in Keys : AtWorkOn(v, k)' <=> AtWorkOn(v, k)
  BY <1>1 DEF AtWorkOn, Working
<1>9. \A k \in Keys : ~AtWorkOn(w, k)
  BY <1>1 DEF AtWorkOn, Working
<1>10. ASSUME NEW k \in Keys PROVE SomethingThere(k)'
  <2>1. SomethingThere(k)
    BY <1>5 DEF Kept
  <2>2. CASE \E v \in Writers : AtWorkOn(v, k) /\ pc[v] # "list"
    <3>1. PICK v \in Writers : AtWorkOn(v, k) /\ pc[v] # "list"
      BY <2>2
    <3>2. v \in Writers \ {w}
      BY <1>9, <3>1
    <3> QED BY <1>1, <1>8, <3>1, <3>2 DEF SomethingThere
  <2>3. CASE NoComment \in noted[k] \/ \E row \in rows : Key(row) = k
    BY <1>1, <1>6, <2>3 DEF SomethingThere, Key
  <2> QED BY <2>1, <2>2, <2>3 DEF SomethingThere
<1>11. ASSUME NEW v \in Writers, NEW k \in Keys
       PROVE  (AtWorkOn(v, k) => CarriedOver(v, k))'
  <2>1. CASE k \in Contested(w, r)
    BY <1>2, <2>1 DEF CarriedOver, Text
  <2>2. CASE k \notin Contested(w, r) /\ v = w
    <3> SUFFICES ASSUME AtWorkOn(w, k)' PROVE CarriedOver(w, k)'
      BY <2>2
    <3>1. k \in Touches(r)
      BY <1>1 DEF AtWorkOn
    <3>2. /\ r.proxy # NoProxy /\ r.uniqName = "absent"
          /\ \A u \in Writers \ {w} : ~AtWorkOn(u, k)
      BY <2>2, <3>1 DEF Contested, AtWorkOn
    <3> QED BY <1>1, <1>8, <3>2 DEF CarriedOver
  <2>3. CASE k \notin Contested(w, r) /\ v # w
    <3>1. CASE AtWorkOn(v, k)
      <4>1. ~AtWorkOn(w, k)'
        BY <1>1, <2>3, <3>1 DEF Contested, AtWorkOn
      <4> QED BY <1>1, <1>2, <1>5, <1>8, <2>3, <4>1, OthersCarry DEF Kept
    <3>2. CASE ~AtWorkOn(v, k)
      BY <1>8, <2>3, <3>2
    <3> QED BY <3>1, <3>2
  <2> QED BY <2>1, <2>2, <2>3
<1>12. MovedNoted'
  <2> SUFFICES ASSUME NEW v \in Writers, NEW t \in todo'[v], NEW row \in rows, Moved(v, t, row)'
               PROVE  noted'[Key(t)] = Text /\ noted'[Key(row)] = Text
    BY <1>1 DEF MovedNoted
  <2>1. v # w /\ t \in todo[v] /\ Moved(v, t, row)
    BY <1>1 DEF Moved, Working, Key
  <2>2. Key(t) \in Keys /\ Key(row) \in Keys
    BY <1>0, <2>1, KeyOfRow DEF TypeOK
  <2>3. noted[Key(t)] = Text /\ noted[Key(row)] = Text
    BY <1>5, <2>1 DEF Kept, MovedNoted
  <2> QED BY <1>2, <2>2, <2>3
<1> QED BY <1>7, <1>10, <1>11, <1>12 DEF Kept

\* What a step of w has to show when no comment is noted or forgotten.
LEMMA StepCarries ==
    ASSUME Kept, NEW w \in Writers, UNCHANGED noted,
           \A v \in Writers \ {w} :
              /\ pc'[v] = pc[v] /\ req'[v] = req[v] /\ todo'[v] = todo[v]
              /\ saveComment'[v] = saveComment[v],
           \A k \in Keys : AtWorkOn(w, k)' => AtWorkOn(w, k) /\ CarriedOver(w, k)',
           \A v \in Writers \ {w}, k \in Keys :
              AtWorkOn(v, k) /\ noted[k] # Text =>
                 \A t \in todo[v] : (\E r \in rows : r.idx = t.idx)
                                       => \E r \in rows' : r.idx = t.idx,
           RowsNoted', MovedNoted',
           \A k \in Keys :
              \/ NoComment \in noted[k]
              \/ \E row \in rows' : Key(row) = k
              \/ AtWorkOn(w, k)' /\ pc'[w] # "list"
              \/ /\ ~ \E row \in rows : Key(row) = k
                 /\ ~(AtWorkOn(w, k) /\ pc[w] # "list")
    PROVE  Kept'
<1>1. \A v \in Writers \ {w}, k \in Keys : AtWorkOn(v, k)' <=> AtWorkOn(v, k)
  BY DEF AtWorkOn, Working
<1>2. ASSUME NEW v \in Writers, NEW k \in Keys
      PROVE  (AtWorkOn(v, k) => CarriedOver(v, k))'
  <2>1. CASE v = w
    BY <2>1
  <2>2. CASE v # w
    <3>1. \A u \in Writers \ {v} : AtWorkOn(u, k)' => AtWorkOn(u, k)
      BY <1>1
    <3>2. AtWorkOn(v, k) => CarriedOver(v, k)
      BY DEF Kept
    <3> QED BY <2>2, <3>1, <3>2, OthersCarry
  <2> QED BY <2>1, <2>2
<1>3. ASSUME NEW k \in Keys PROVE SomethingThere(k)'
  <2>1. CASE /\ ~ \E row \in rows : Key(row) = k
             /\ ~(AtWorkOn(w, k) /\ pc[w] # "list")
             /\ NoComment \notin noted[k]
    <3>1. PICK v \in Writers : AtWorkOn(v, k) /\ pc[v] # "list"
      BY <2>1 DEF Kept, SomethingThere
    <3>2. v \in Writers \ {w}
      BY <2>1, <3>1
    <3> QED BY <1>1, <3>1, <3>2 DEF SomethingThere
  <2>2. CASE \/ NoComment \in noted[k]
             \/ \E row \in rows' : Key(row) = k
             \/ AtWorkOn(w, k)' /\ pc'[w] # "list"
    BY <2>2 DEF SomethingThere
  <2> QED BY <2>1, <2>2
<1> QED BY <1>2, <1>3 DEF Kept

LEMMA ListComment ==
    ASSUME TypeInv, IdxInv, CommentInv, NEW w \in Writers, NEW fate \in Fates,
           NEW found \in SUBSET rows, List(w, fate, found)
    PROVE  CommentInv'
<1>0. TypeOK
  BY DEF TypeInv
<1>1. /\ pc[w] = "list" /\ pc'[w] = IF found = {} THEN "add" ELSE "rows"
      /\ todo'[w] = found /\ UNCHANGED <<rows, req, saveComment, noted>>
      /\ \A v \in Writers \ {w} : pc'[v] = pc[v] /\ todo'[v] = todo[v]
      /\ Statement(fate)
  BY <1>0 DEF List, Goto, TypeOK, table
<1>2. TodoUnique'
  BY <1>1 DEF CommentInv, TodoUnique, IdxInv, IdxUnique
<1>3. SUFFICES ASSUME faults' = 0 PROVE Kept'
  BY <1>2 DEF CommentInv
<1>4. fate = "done" /\ Kept
  BY <1>0, <1>1, <1>3, NoFault DEF CommentInv
<1>5. /\ found \subseteq Registered(req[w])
      /\ found = {} => Registered(req[w]) = {}
  <2>1. /\ found \subseteq Registered(req[w])
        /\ found = Registered(req[w]) \/ Cardinality(found) = ListLimit
    BY <1>4 DEF List
  <2>2. Cardinality({}) # ListLimit
    BY FS_EmptySet, BoundsAssumption
  <2> QED BY <2>1, <2>2
<1>6. ASSUME NEW k \in Keys, AtWorkOn(w, k)'
      PROVE  AtWorkOn(w, k) /\ CarriedOver(w, k)'
  <2>1. AtWorkOn(w, k)
    BY <1>1, <1>6 DEF AtWorkOn, Working, Points
  <2>2. CASE noted[k] = Text
    BY <1>1, <2>1, <2>2 DEF CarriedOver, Text
  <2>3. CASE noted[k] # Text
    <3>1. /\ req[w].proxy # NoProxy /\ req[w].uniqName = "absent"
          /\ \A v \in Writers \ {w} : ~AtWorkOn(v, k)
          /\ saveComment[w] = NoComment
      BY <1>1, <1>4, <2>1, <2>3 DEF Kept, CarriedOver
    <3>0. k \in Concerns(req[w])
      BY <2>1, <3>1, OneConcern DEF AtWorkOn
    <3>2. ASSUME NEW t \in found
          PROVE  t \in rows /\ t.comment \in noted[k]
      <4>1. Key(t) \in Concerns(req[w]) /\ t \in rows
        BY <1>5 DEF Registered
      <4>2. Key(t) = k
        BY <2>1, <3>1, <4>1, OneConcern DEF AtWorkOn, Touches
      <4> QED BY <1>4, <4>1, <4>2 DEF Kept, RowsNoted
    <3>3. found = {} => NoComment \in noted[k]
      <4> SUFFICES ASSUME found = {} PROVE NoComment \in noted[k]
        OBVIOUS
      <4>1. ~ \E row \in rows : Key(row) = k
        BY <1>5, <3>0 DEF Registered
      <4>2. ~ \E v \in Writers : AtWorkOn(v, k) /\ pc[v] # "list"
        BY <1>1, <3>1
      <4> QED BY <1>4, <4>1, <4>2 DEF Kept, SomethingThere
    <3>4. \A v \in Writers \ {w} : ~AtWorkOn(v, k)'
      BY <1>1, <3>1 DEF AtWorkOn, Working
    <3> QED BY <1>1, <2>1, <3>1, <3>2, <3>3, <3>4 DEF CarriedOver
  <2> QED BY <2>2, <2>3
<1>7. RowsNoted'
  BY <1>1, <1>4 DEF Kept, RowsNoted
<1>8. ASSUME NEW k \in Keys
      PROVE  (\E row \in rows' : Key(row) = k) \/ ~(\E row \in rows : Key(row) = k)
  BY <1>1
<1>9. MovedNoted'
  <2>1. ASSUME NEW v \in Writers, NEW t \in todo'[v], NEW r2 \in rows', Moved(v, t, r2)'
        PROVE  Moved(v, t, r2)
    <3>1. CASE v = w
      BY <1>1, <2>1, <3>1 DEF Moved, IdxInv, IdxUnique, Key
    <3>2. CASE v # w
      BY <1>1, <2>1, <3>2 DEF Moved, Working, Key
    <3> QED BY <3>1, <3>2
  <2> QED BY <1>1, <1>4, <2>1, NothingMoved DEF Kept
<1> QED BY <1>1, <1>4, <1>6, <1>7, <1>8, <1>9, StepCarries

LEMMA SelectRowComment ==
    ASSUME TypeInv, IdxInv, CommentInv, NEW w \in Writers, NEW fate \in Fates,
           NEW row \in todo[w], SelectRow(w, fate, row)
    PROVE  CommentInv'
<1>0. TypeOK
  BY DEF TypeInv
<1>1. /\ pc[w] = "rows" /\ saveComment'[w] = row.comment
      /\ UNCHANGED <<rows, req, todo, noted>>
      /\ \A v \in Writers \ {w} : pc'[v] = pc[v] /\ saveComment'[v] = saveComment[v]
      /\ Statement(fate) /\ pc'[w] \in {"delete", "answered"}
  BY <1>0 DEF SelectRow, Denied, Goto, TypeOK, table
<1>2. TodoUnique'
  BY <1>1 DEF CommentInv, TodoUnique
<1>3. SUFFICES ASSUME faults' = 0 PROVE Kept'
  BY <1>2 DEF CommentInv
<1>4. fate = "done" /\ Kept
  BY <1>0, <1>1, <1>3, NoFault DEF CommentInv
<1>5. ASSUME NEW k \in Keys, AtWorkOn(w, k)
      PROVE  /\ CarriedOver(w, k)'
             /\ NoComment \in noted[k] \/ (AtWorkOn(w, k)' /\ pc'[w] # "list")
  <2>1. CASE noted[k] = Text
    BY <1>1, <2>1 DEF CarriedOver, Text
  <2>2. CASE noted[k] # Text
    <3>1. /\ req[w].proxy # NoProxy /\ req[w].uniqName = "absent"
          /\ \A v \in Writers \ {w} : ~AtWorkOn(v, k)
          /\ \A t \in todo[w] : t.comment \in noted[k] /\ \E r \in rows : r.idx = t.idx
      BY <1>4, <1>5, <2>2 DEF Kept, CarriedOver
    <3>2. pc'[w] = "delete"
      BY <1>0, <1>4, <3>1 DEF SelectRow, Goto, TypeOK
    <3>3. \A v \in Writers \ {w} : ~AtWorkOn(v, k)'
      BY <1>1, <3>1 DEF AtWorkOn, Working
    <3>4. AtWorkOn(w, k)'
      BY <1>1, <1>5, <3>2 DEF AtWorkOn, Working, Points
    <3> QED BY <1>1, <3>1, <3>2, <3>3, <3>4 DEF CarriedOver
  <2> QED BY <2>1, <2>2
<1>6. \A k \in Keys : AtWorkOn(w, k)' => AtWorkOn(w, k)
  BY <1>1 DEF AtWorkOn, Working, Points
<1>7. RowsNoted'
  BY <1>1, <1>4 DEF Kept, RowsNoted
<1>8. MovedNoted'
  BY <1>1, <1>4, NothingMoved DEF Kept, Moved, Working, Points, Key
<1> QED BY <1>1, <1>4, <1>5, <1>6, <1>7, <1>8, StepCarries

LEMMA DeleteComment ==
    ASSUME TypeInv, IdxInv, CommentInv, NEW w \in Writers, NEW fate \in Fates,
           DeleteRow(w, fate)
    PROVE  CommentInv'
<1>0. TypeOK /\ inHand[w] \in todo[w] /\ Working(w)
  BY DEF TypeInv, ThreadSound, DeleteRow, Working, Points
<1>1. /\ pc[w] = "delete" /\ todo'[w] = todo[w] \ {inHand[w]}
      /\ UNCHANGED <<req, saveComment, noted>>
      /\ \A v \in Writers \ {w} : pc'[v] = pc[v] /\ todo'[v] = todo[v]
      /\ Statement(fate)
  BY <1>0 DEF DeleteRow, Denied, Goto, TypeOK
<1>2. TodoUnique'
  BY <1>1 DEF CommentInv, TodoUnique
<1>3. SUFFICES ASSUME faults' = 0 PROVE Kept'
  BY <1>2 DEF CommentInv
<1>4. fate = "done" /\ Kept
  BY <1>0, <1>1, <1>3, NoFault DEF CommentInv
<1>5. /\ rows' = {r \in rows : r.idx # inHand[w].idx}
      /\ pc'[w] = IF todo[w] = {inHand[w]} THEN "add" ELSE "rows"
  BY <1>0, <1>4 DEF DeleteRow, Executed, Goto, TypeOK
<1>6. /\ Key(inHand[w]) \in Touches(req[w])
      /\ \A r \in rows : r.idx = inHand[w].idx /\ Key(r) # Key(inHand[w])
                           => noted[Key(r)] = Text
  BY <1>0, <1>4 DEF IdxInv, ListedSound, Touches, Kept, MovedNoted, Moved
<1>7. \A k \in Keys : AtWorkOn(w, k)' <=> AtWorkOn(w, k)
  BY <1>0, <1>1, <1>5 DEF AtWorkOn, Working, Points
<1>8. ASSUME NEW k \in Keys, AtWorkOn(w, k) PROVE CarriedOver(w, k)'
  <2>1. CASE noted[k] = Text
    BY <1>1, <2>1 DEF CarriedOver, Text
  <2>2. CASE noted[k] # Text
    <3>1. /\ req[w].proxy # NoProxy /\ req[w].uniqName = "absent"
          /\ \A v \in Writers \ {w} : ~AtWorkOn(v, k)
          /\ saveComment[w] \in noted[k]
          /\ \A t \in todo[w] : t.comment \in noted[k] /\ \E r \in rows : r.idx = t.idx
      BY <1>1, <1>4, <1>8, <2>2 DEF Kept, CarriedOver
    <3>2. \A v \in Writers \ {w} : ~AtWorkOn(v, k)'
      BY <1>1, <3>1 DEF AtWorkOn, Working
    <3>3. ASSUME NEW t \in todo'[w] PROVE t.comment \in noted[k] /\ \E r \in rows' : r.idx = t.idx
      <4>1. t \in todo[w] /\ t # inHand[w]
        BY <1>1
      <4>2. t.idx # inHand[w].idx
        BY <1>0, <4>1 DEF CommentInv, TodoUnique
      <4> QED BY <1>5, <3>1, <4>1, <4>2
    <3> QED BY <1>1, <1>5, <3>1, <3>2, <3>3 DEF CarriedOver
  <2> QED BY <2>1, <2>2
<1>9. ASSUME NEW v \in Writers \ {w}, NEW k \in Keys, AtWorkOn(v, k), noted[k] # Text,
             NEW t \in todo[v], NEW r \in rows, r.idx = t.idx
      PROVE  \E s \in rows' : s.idx = t.idx
  <2>1. req[v].proxy # NoProxy /\ req[v].uniqName = "absent" /\ ~AtWorkOn(w, k)
    BY <1>4, <1>9 DEF Kept, CarriedOver
  <2>2. Key(t) \in Touches(req[v])
    BY <1>9 DEF IdxInv, ListedSound, AtWorkOn, Touches
  <2>3. Key(t) = k
    BY <1>9, <2>1, <2>2, OneConcern DEF AtWorkOn
  <2>4. Key(r) = k
    BY <1>4, <1>9, <2>3 DEF Kept, MovedNoted, Moved, AtWorkOn
  <2>5. t.idx # inHand[w].idx
    BY <1>0, <1>6, <1>9, <2>1, <2>4 DEF AtWorkOn
  <2> QED BY <1>5, <1>9, <2>5
<1>10. RowsNoted'
  BY <1>1, <1>4, <1>5 DEF Kept, RowsNoted
<1>11. ASSUME NEW k \in Keys
       PROVE  \/ NoComment \in noted[k]
              \/ \E row \in rows' : Key(row) = k
              \/ AtWorkOn(w, k)' /\ pc'[w] # "list"
              \/ /\ ~ \E row \in rows : Key(row) = k
                 /\ ~(AtWorkOn(w, k) /\ pc[w] # "list")
  <2>1. CASE AtWorkOn(w, k)
    BY <1>5, <1>7, <2>1
  <2>2. CASE ~AtWorkOn(w, k)
    <3>1. Key(inHand[w]) # k
      BY <1>0, <1>6, <2>2 DEF AtWorkOn
    <3>2. \A row \in rows : Key(row) = k => row \in rows' \/ noted[k] = Text
      BY <1>5, <1>6, <3>1
    <3> QED BY <2>2, <3>2 DEF Text
  <2> QED BY <2>1, <2>2
<1>12. MovedNoted'
  <2>1. rows' \subseteq rows /\ todo'[w] \subseteq todo[w]
    BY <1>1, <1>5
  <2>2. \A v \in Writers : Working(v)' => Working(v)
    BY <1>0, <1>1 DEF Working
  <2>3. \A v \in Writers : todo'[v] \subseteq todo[v]
    BY <1>1, <2>1
  <2> QED BY <1>1, <1>4, <2>1, <2>2, <2>3, NothingMoved DEF Kept, Moved, Key
<1> QED BY <1>1, <1>4, <1>7, <1>8, <1>9, <1>10, <1>11, <1>12, StepCarries

LEMMA InsertComment ==
    ASSUME TypeInv, IdxInv, CommentInv, NEW w \in Writers, NEW fate \in Fates, Insert(w, fate)
    PROVE  CommentInv'
<1>0. /\ TypeOK /\ ThreadSound(w) /\ Adding(w) /\ Working(w) /\ req[w] \in Requests
      /\ todo[w] = {} /\ pc' = [pc EXCEPT ![w] = "answered"]
      /\ UNCHANGED <<req, todo, saveComment, noted>>
  BY InsertThread DEF TypeInv
<1>1. /\ pc'[w] = "answered" /\ Statement(fate)
      /\ \A v \in Writers \ {w} : pc'[v] = pc[v]
  BY <1>0 DEF Insert, TypeOK
<1>2. TodoUnique'
  BY <1>0 DEF CommentInv, TodoUnique
<1>3. SUFFICES ASSUME faults' = 0 PROVE Kept'
  BY <1>2 DEF CommentInv
<1>4. fate = "done" /\ Kept
  BY <1>0, <1>1, <1>3, NoFault DEF CommentInv
<1>5. rows' = rows \cup {NewRow(w)}
  BY <1>4 DEF Insert, Executed
<1>6. /\ Key(NewRow(w)) = Target(req[w]) /\ NewRow(w).comment = saveComment[w]
      /\ NewRow(w).idx = nextIdx /\ Target(req[w]) \in Keys /\ Target(req[w]) \in Touches(req[w])
  BY <1>0, NewRowType, InsertThread DEF NewRow
<1>7. saveComment[w] \in noted[Target(req[w])]
  <2>1. CarriedOver(w, Target(req[w]))
    BY <1>0, <1>4, <1>6 DEF AtWorkOn, Kept
  <2>2. saveComment[w] \in Text
    BY <1>0 DEF TypeOK, Text
  <2>3. pc[w] = "add" \/ req[w].uniqName # "absent"
    BY <1>0 DEF Adding, ThreadSound
  <2> QED BY <2>1, <2>2, <2>3 DEF CarriedOver
<1>8. RowsNoted'
  BY <1>0, <1>4, <1>5, <1>6, <1>7 DEF Kept, RowsNoted
<1>9. \A k \in Keys : ~AtWorkOn(w, k)'
  BY <1>1 DEF AtWorkOn, Working
<1>10. ASSUME NEW k \in Keys, AtWorkOn(w, k)
       PROVE  NoComment \in noted[k] \/ \E row \in rows' : Key(row) = k
  <2>1. CASE noted[k] = Text
    BY <2>1 DEF Text
  <2>2. CASE noted[k] # Text
    <3>1. req[w].proxy # NoProxy /\ req[w].uniqName = "absent" /\ k \in Touches(req[w])
      BY <1>4, <1>10, <2>2 DEF Kept, CarriedOver, AtWorkOn
    <3>2. Target(req[w]) = k
      BY <1>6, <3>1, OneConcern
    <3> QED BY <1>5, <1>6, <3>2
  <2> QED BY <2>1, <2>2
<1>11. MovedNoted'
  <2>1. ASSUME NEW v \in Writers, NEW t \in todo'[v], NEW r2 \in rows', Moved(v, t, r2)'
        PROVE  r2 \in rows /\ Moved(v, t, r2)
    <3>1. Working(v) /\ t \in todo[v] /\ r2.idx = t.idx /\ Key(r2) # Key(t)
      BY <1>0, <1>1, <2>1 DEF Moved, Working, Key
    <3>2. t.idx < nextIdx /\ t.idx \in Nat /\ nextIdx \in Nat
      BY <1>0, <3>1 DEF IdxInv, ListedSound, TypeOK, Rows
    <3> QED BY <1>5, <1>6, <3>1, <3>2 DEF Moved
  <2> QED BY <1>0, <1>4, <2>1, NothingMoved DEF Kept
<1> QED BY <1>0, <1>1, <1>4, <1>5, <1>8, <1>9, <1>10, <1>11, StepCarries

LEMMA SelectPairComment ==
    ASSUME TypeInv, IdxInv, CommentInv, NEW w \in Writers, NEW fate \in Fates,
           NEW hit \in Matches(req[w]), SelectPair(w, fate, hit)
    PROVE  CommentInv'
<1>0. TypeOK
  BY DEF TypeInv
<1>1. /\ pc[w] = "add" /\ UNCHANGED <<rows, req, todo, noted, saveComment>>
      /\ req[w].uniqName # "absent"
      /\ \A v \in Writers \ {w} : pc'[v] = pc[v]
      /\ Statement(fate) /\ pc'[w] \in {"insert", "overwrite", "answered"}
  BY <1>0 DEF SelectPair, Denied, Goto, TypeOK, table
<1>2. TodoUnique'
  BY <1>1 DEF CommentInv, TodoUnique
<1>3. SUFFICES ASSUME faults' = 0 PROVE Kept'
  BY <1>2 DEF CommentInv
<1>4. fate = "done" /\ Kept
  BY <1>0, <1>1, <1>3, NoFault DEF CommentInv
<1>5. ASSUME NEW k \in Keys, AtWorkOn(w, k)
      PROVE  CarriedOver(w, k)' /\ NoComment \in noted[k]
  <2>1. noted[k] = Text
    BY <1>1, <1>4, <1>5 DEF Kept, CarriedOver
  <2> QED BY <1>1, <2>1 DEF CarriedOver, Text
<1>6. \A k \in Keys : AtWorkOn(w, k)' => AtWorkOn(w, k)
  BY <1>1 DEF AtWorkOn, Working, Points
<1>7. RowsNoted'
  BY <1>1, <1>4 DEF Kept, RowsNoted
<1>8. MovedNoted'
  BY <1>1, <1>4, NothingMoved DEF Kept, Moved, Working, Points, Key
<1> QED BY <1>1, <1>4, <1>5, <1>6, <1>7, <1>8, StepCarries

\* Of whatever a unique pair may change, nothing was known to begin with.
LEMMA OverwriteComment ==
    ASSUME TypeInv, IdxInv, CommentInv, NEW w \in Writers, NEW fate \in Fates,
           NEW hit \in Matches(req[w]), Overwrite(w, fate, hit)
    PROVE  CommentInv'
<1>0. /\ TypeOK /\ ThreadSound(w) /\ Adding(w) /\ Working(w) /\ pc[w] = "overwrite"
      /\ Target(req[w]) \in Keys /\ Target(req[w]) \in Touches(req[w])
      /\ todo[w] = {} /\ pc' = [pc EXCEPT ![w] = "answered"]
      /\ UNCHANGED <<req, todo, saveComment, noted>>
  BY OverwriteThread DEF TypeInv, Overwrite
<1>1. /\ pc'[w] = "answered" /\ Statement(fate)
      /\ \A v \in Writers \ {w} : pc'[v] = pc[v]
  BY <1>0 DEF Overwrite, TypeOK
<1>2. TodoUnique'
  BY <1>0 DEF CommentInv, TodoUnique
<1>3. SUFFICES ASSUME faults' = 0 PROVE Kept'
  BY <1>2 DEF CommentInv
<1>4. fate = "done" /\ Kept
  BY <1>0, <1>1, <1>3, NoFault DEF CommentInv
<1>5. rows' = (rows \ hit) \cup {Written(w, row) : row \in hit}
  BY <1>4 DEF Overwrite, Executed
<1>6. hit \subseteq rows /\ \A r \in hit : Key(r) \in Touches(req[w]) /\ Key(r) \in Keys
  BY <1>0, MatchesTouched, KeyOfRow DEF TypeOK
<1>7. \A r \in hit : /\ Written(w, r).idx = r.idx /\ Key(Written(w, r)) = Target(req[w])
                     /\ Written(w, r).comment = saveComment[w]
  BY <1>0, <1>6, WrittenType
<1>8. \A k \in Keys : k \in Touches(req[w]) => noted[k] = Text
  BY <1>0, <1>4 DEF ThreadSound, Kept, CarriedOver, AtWorkOn
<1>9. saveComment[w] \in Text
  BY <1>0 DEF TypeOK, Text
<1>10. RowsNoted'
  BY <1>0, <1>4, <1>5, <1>7, <1>8, <1>9 DEF Kept, RowsNoted
<1>11. \A k \in Keys : ~AtWorkOn(w, k)'
  BY <1>1 DEF AtWorkOn, Working
<1>12. ASSUME NEW k \in Keys
       PROVE  \/ NoComment \in noted[k]
              \/ \E row \in rows' : Key(row) = k
              \/ ~(\E row \in rows : Key(row) = k) /\ ~AtWorkOn(w, k)
  <2>1. CASE k \in Touches(req[w])
    BY <1>8, <2>1 DEF Text
  <2>2. CASE k \notin Touches(req[w])
    BY <1>5, <1>6, <2>2 DEF AtWorkOn
  <2> QED BY <2>1, <2>2
<1>13. \A t : (\E r \in rows : r.idx = t.idx) => \E r \in rows' : r.idx = t.idx
  BY <1>5, <1>7
<1>14. MovedNoted'
  <2> SUFFICES ASSUME NEW v \in Writers, NEW t \in todo[v], NEW r2 \in rows', Moved(v, t, r2)'
               PROVE  noted[Key(t)] = Text /\ noted[Key(r2)] = Text
    BY <1>0 DEF MovedNoted
  <2>1. Working(v) /\ r2.idx = t.idx /\ Key(r2) # Key(t)
    BY <1>0, <1>1 DEF Moved, Working, Key
  <2>2. CASE r2 \in rows \ hit
    BY <1>4, <2>1, <2>2 DEF Kept, MovedNoted, Moved
  <2>3. CASE \E r \in hit : r2 = Written(w, r)
    <3>1. PICK r \in hit : r2 = Written(w, r)
      BY <2>3
    <3>2. noted[Key(r2)] = Text
      BY <1>0, <1>7, <1>8, <3>1
    <3>3. CASE Key(r) = Key(t)
      BY <1>6, <1>8, <3>2, <3>3
    <3>4. CASE Key(r) # Key(t)
      BY <1>4, <1>6, <1>7, <2>1, <3>1, <3>2, <3>4 DEF Kept, MovedNoted, Moved
    <3> QED BY <3>3, <3>4
  <2> QED BY <1>5, <2>2, <2>3
<1> QED BY <1>0, <1>1, <1>4, <1>10, <1>11, <1>12, <1>13, <1>14, StepCarries

LEMMA ReturnComment ==
    ASSUME TypeInv, CommentInv, NEW w \in Writers, Return(w)
    PROVE  CommentInv'
<1>0. TypeOK
  BY DEF TypeInv
<1>1. /\ pc[w] = "answered" /\ pc'[w] = "idle" /\ UNCHANGED <<rows, noted, faults>>
      /\ todo'[w] = {}
      /\ \A v \in Writers \ {w} :
           /\ pc'[v] = pc[v] /\ req'[v] = req[v] /\ todo'[v] = todo[v]
           /\ saveComment'[v] = saveComment[v]
  BY <1>0 DEF Return, Idle, Goto, TypeOK, table, counts
<1>2. TodoUnique'
  BY <1>1 DEF CommentInv, TodoUnique
<1>3. SUFFICES ASSUME faults' = 0 PROVE Kept'
  BY <1>2 DEF CommentInv
<1>4. Kept
  BY <1>1, <1>3 DEF CommentInv
<1>5. \A k \in Keys : ~AtWorkOn(w, k) /\ ~AtWorkOn(w, k)'
  BY <1>1 DEF AtWorkOn, Working
<1>6. RowsNoted'
  BY <1>1, <1>4 DEF Kept, RowsNoted
<1>7. MovedNoted'
  BY <1>1, <1>4, NothingMoved DEF Kept, Moved, Working, Key
<1> QED BY <1>1, <1>4, <1>5, <1>6, <1>7, StepCarries

LEMMA SetCommentComment ==
    ASSUME TypeInv, IdxInv, CommentInv, NEW row \in rows, NEW c \in Comments,
           SetComment(row, c)
    PROVE  CommentInv'
<1>0. TypeOK /\ row \in Rows
  BY DEF TypeInv, TypeOK
<1> DEFINE new == [row EXCEPT !.comment = c]
<1>1. new.idx = row.idx /\ new.comment = c /\ Key(new) = Key(row)
  BY <1>0, CommentedRow
<1>2. rows' = (rows \ {row}) \cup {new} /\ UNCHANGED <<pc, req, todo, saveComment, faults>>
  BY DEF SetComment, thread
<1> HIDE DEF new
<1>3. TodoUnique'
  BY <1>2 DEF CommentInv, TodoUnique
<1>4. SUFFICES ASSUME faults' = 0 PROVE Kept'
  BY <1>3 DEF CommentInv
<1>5. Kept /\ Key(row) \in Keys /\ c \in Text
  BY <1>0, <1>2, <1>4, KeyOfRow DEF CommentInv, Text
<1>6. \A v \in Writers, k \in Keys : AtWorkOn(v, k)' <=> AtWorkOn(v, k)
  BY <1>2 DEF AtWorkOn, Working
<1>7. \A k \in Keys : k # Key(row) => noted'[k] = noted[k]
  BY <1>0 DEF SetComment, TypeOK
<1>8. c \in noted'[Key(row)]
  BY <1>0, <1>5 DEF SetComment, TypeOK
<1>9. (\/ \E w \in Writers : AtWorkOn(w, Key(row))
       \/ Listed(row, Writers)
       \/ \E other \in rows \ {row} : Key(other) = Key(row))
      => noted'[Key(row)] = noted[Key(row)] \cup {c}
  BY <1>0, <1>5 DEF SetComment, TypeOK, AtWorkOn
<1>10. RowsNoted'
  <2> SUFFICES ASSUME NEW r \in rows' PROVE r.comment \in noted'[Key(r)]
    BY DEF RowsNoted
  <2>1. CASE r = new
    BY <1>1, <1>8, <2>1
  <2>2. CASE r \in rows \ {row}
    <3>1. r.comment \in noted[Key(r)] /\ Key(r) \in Keys
      BY <1>0, <1>5, <2>2, KeyOfRow DEF Kept, RowsNoted, TypeOK
    <3> QED BY <1>7, <1>9, <2>2, <3>1
  <2> QED BY <1>2, <2>1, <2>2
<1>11. ASSUME NEW k \in Keys PROVE SomethingThere(k)'
  <2>1. CASE k = Key(row)
    BY <1>1, <1>2, <2>1 DEF SomethingThere
  <2>2. CASE k # Key(row)
    <3>1. \A r \in rows : Key(r) = k => r \in rows'
      BY <1>2, <2>2
    <3>2. SomethingThere(k)
      BY <1>5 DEF Kept
    <3>3. noted'[k] = noted[k] /\ pc' = pc
      BY <1>2, <1>7, <2>2
    <3> QED BY <1>6, <3>1, <3>2, <3>3 DEF SomethingThere
  <2> QED BY <2>1, <2>2
<1>12. \A t : (\E r \in rows : r.idx = t.idx) => \E r \in rows' : r.idx = t.idx
  BY <1>1, <1>2
<1>13. ASSUME NEW v \in Writers, NEW k \in Keys, AtWorkOn(v, k)' PROVE CarriedOver(v, k)'
  <2>1. AtWorkOn(v, k) /\ CarriedOver(v, k)
    BY <1>5, <1>6, <1>13 DEF Kept
  <2>2. noted[k] \subseteq noted'[k] /\ noted'[k] \subseteq Text
    <3>1. noted[k] \subseteq Text
      BY <1>0 DEF TypeOK, Text
    <3>2. CASE k = Key(row)
      BY <1>5, <1>9, <2>1, <3>1, <3>2
    <3>3. CASE k # Key(row)
      BY <1>7, <3>1, <3>3
    <3> QED BY <3>2, <3>3
  <2>3. CASE noted[k] = Text
    BY <2>2, <2>3 DEF CarriedOver, Text
  <2>4. CASE noted[k] # Text
    BY <1>2, <1>6, <1>12, <2>1, <2>2, <2>4 DEF CarriedOver
  <2> QED BY <2>3, <2>4
<1>14. MovedNoted'
  <2> SUFFICES ASSUME NEW v \in Writers, NEW t \in todo[v], NEW r2 \in rows', Moved(v, t, r2)'
               PROVE  noted'[Key(t)] = Text /\ noted'[Key(r2)] = Text
    BY <1>2 DEF MovedNoted
  <2>1. PICK r \in rows : r.idx = r2.idx /\ Key(r) = Key(r2) /\ (r2 = r \/ r = row)
    BY <1>1, <1>2
  <2>2. Moved(v, t, r)
    BY <1>2, <2>1 DEF Moved, Working, Key
  <2>3. noted[Key(t)] = Text /\ noted[Key(r2)] = Text
    BY <1>5, <2>1, <2>2 DEF Kept, MovedNoted
  <2>4. AtWorkOn(v, Key(t))
    BY <2>2 DEF Moved, AtWorkOn, IdxInv, ListedSound, Touches
  <2>5. Key(t) \in Keys /\ Key(r2) \in Keys
    BY <1>0, <2>1, KeyOfRow DEF TypeOK
  <2>6. noted'[Key(t)] = Text
    <3>1. CASE Key(t) = Key(row)
      BY <1>5, <1>9, <2>3, <2>4, <3>1
    <3>2. CASE Key(t) # Key(row)
      BY <1>7, <2>3, <2>5, <3>2
    <3> QED BY <3>1, <3>2
  <2>7. noted'[Key(r2)] = Text
    <3>1. CASE Key(r2) # Key(row)
      BY <1>7, <2>3, <2>5, <3>1
    <3>2. CASE Key(r2) = Key(row) /\ r = row
      <4>1. Listed(row, Writers)
        BY <2>2, <3>2 DEF Moved, Listed
      <4> QED BY <1>5, <1>9, <2>3, <3>2, <4>1
    <3>3. CASE Key(r2) = Key(row) /\ r # row
      BY <1>5, <1>9, <2>1, <2>3, <3>3
    <3> QED BY <3>1, <3>2, <3>3
  <2> QED BY <2>6, <2>7
<1> QED BY <1>10, <1>11, <1>13, <1>14 DEF Kept

LEMMA CommentNext == TypeInv /\ IdxInv /\ CommentInv /\ [Next]_vars => CommentInv'
<1> SUFFICES ASSUME TypeInv, IdxInv, CommentInv, [Next]_vars PROVE CommentInv'
  OBVIOUS
<1>1. ASSUME NEW w \in Writers, Die(w) PROVE CommentInv'
  <2>1. faults' # 0
    BY <1>1 DEF Die, TypeInv, TypeOK
  <2>2. \A v \in Writers : todo'[v] \subseteq todo[v]
    BY <1>1 DEF Die, Idle, TypeInv, TypeOK
  <2> QED BY <2>1, <2>2 DEF CommentInv, TodoUnique
<1>2. CASE UNCHANGED vars
  BY <1>2 DEF vars, table, thread, history, counts, CommentInv, TodoUnique, Kept, RowsNoted,
              MovedNoted, Moved, SomethingThere, CarriedOver, AtWorkOn, Working
<1> QED
  BY <1>1, <1>2, BeginComment, ListComment, SelectRowComment, DeleteComment, InsertComment,
     SelectPairComment, OverwriteComment, ReturnComment, SetCommentComment DEF Next, Step

\* A registration deletes the row that carries a client's comment and adds another.  For
\* every number of instances, modules and re-registrations, and as long as no statement
\* fails and no process dies, a comment outlives them, unless it came while a
\* registration was under way, or two instances replaced the row at once, or one without
\* proxy_ip did, or a request might change it by its unique pair.
THEOREM CommentsSurvive == Spec => []CommentSurvives
<1>1. Init => TypeInv /\ IdxInv /\ CommentInv
  BY TypeInvInit, IdxInvInit, CommentInit
<1>2. TypeInv /\ IdxInv /\ CommentInv /\ [Next]_vars => (TypeInv /\ IdxInv /\ CommentInv)'
  BY TypeInvNext, IdxInvNext, CommentNext
<1>3. CommentInv => CommentSurvives
  BY DEF CommentInv, Kept, RowsNoted, CommentSurvives
<1> QED BY <1>1, <1>2, <1>3, PTL DEF Spec

----
\* A registration no request covers or names stays.

OthersStay ==
    \A row \in rows :
       (\A w \in Writers : Working(w) =>
          /\ Key(row) \notin Touches(req[w])
          /\ \A t \in todo[w] : t.idx = row.idx => Key(t) = Key(row))
         => \E new \in rows' : new.idx = row.idx /\ Key(new) = Key(row)

\* What DeleteRow takes away is the registration its instance listed, or the row of it
\* that has been made another's.
LEMMA DeleteTakesOwn ==
    ASSUME TypeInv, IdxInv, NEW w \in Writers, NEW fate, DeleteRow(w, fate)
    PROVE  OthersStay
<1>1. Working(w) /\ inHand[w] \in todo[w]
  BY DEF TypeInv, ThreadSound, DeleteRow, Working, Points
<1>2. Key(inHand[w]) \in Touches(req[w])
  BY <1>1 DEF IdxInv, ListedSound, Touches
<1>3. ASSUME NEW row \in rows, row \notin rows' PROVE row.idx = inHand[w].idx
  BY <1>3 DEF DeleteRow
<1> QED BY <1>1, <1>2, <1>3 DEF OthersStay

\* What Overwrite changes is what the pair names.
LEMMA OverwriteTakesNamed ==
    ASSUME TypeInv, NEW w \in Writers, NEW fate, NEW hit \in Matches(req[w]),
           Overwrite(w, fate, hit)
    PROVE  OthersStay
<1>1. Working(w) /\ \A row \in hit : Key(row) \in Touches(req[w])
  BY OverwriteThread, MatchesTouched DEF TypeInv
<1>2. \A row \in rows : row \in rows' \/ row \in hit
  BY DEF Overwrite
<1> QED BY <1>1, <1>2 DEF OthersStay

LEMMA NextOthersStay == TypeInv /\ IdxInv /\ [Next]_vars => OthersStay
<1> SUFFICES ASSUME TypeInv, IdxInv, [Next]_vars PROVE OthersStay
  OBVIOUS
<1>1. ASSUME rows \subseteq rows' PROVE OthersStay
  BY <1>1 DEF OthersStay
<1>2. ASSUME NEW w \in Writers, Step(w) PROVE OthersStay
  <2>1. CASE \E fate \in Fates : DeleteRow(w, fate)
    BY <2>1, DeleteTakesOwn
  <2>2. CASE \E fate \in Fates : \E hit \in Matches(req[w]) : Overwrite(w, fate, hit)
    BY <2>2, OverwriteTakesNamed
  <2>3. CASE ~ \E fate \in Fates : \/ DeleteRow(w, fate)
                                  \/ \E hit \in Matches(req[w]) : Overwrite(w, fate, hit)
    <3>1. rows \subseteq rows'
      BY <1>2, <2>3 DEF Step, Begin, List, SelectRow, Insert, SelectPair, Return, Die, table
    <3> QED BY <3>1, <1>1
  <2> QED BY <2>1, <2>2, <2>3
<1>3. ASSUME NEW row \in rows, NEW c \in Comments, SetComment(row, c) PROVE OthersStay
  <2> DEFINE new == [row EXCEPT !.comment = c]
  <2>1. new.idx = row.idx /\ Key(new) = Key(row)
    BY CommentedRow DEF TypeInv, TypeOK
  <2>2. rows' = (rows \ {row}) \cup {new}
    BY <1>3 DEF SetComment
  <2> HIDE DEF new
  <2> QED BY <2>1, <2>2 DEF OthersStay
<1>4. CASE UNCHANGED vars
  BY <1>1, <1>4 DEF vars, table
<1> QED BY <1>2, <1>3, <1>4 DEF Next

\* Whatever the instances do, fail or die at, a registration goes, and changes its module
\* or proxy, only while a request is at work that covers it, may name it by its unique
\* pair, or had listed the row before such a pair made it this registration.
THEOREM OthersAreLeftAlone == Spec => RegistrationsOfOthersStay
<1>1. TypeInv /\ IdxInv /\ [Next]_vars =>
        [\A row \in rows :
           (\A w \in Writers : Working(w) =>
              /\ Key(row) \notin Touches(req[w])
              /\ \A t \in todo[w] : t.idx = row.idx => Key(t) = Key(row))
             => \E new \in rows' : new.idx = row.idx /\ Key(new) = Key(row)]_vars
  BY NextOthersStay DEF OthersStay
<1> QED
  BY <1>1, TypeInvInit, TypeInvNext, IdxInvInit, IdxInvNext, PTL
     DEF Spec, RegistrationsOfOthersStay
====
