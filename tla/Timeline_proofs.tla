---- MODULE Timeline_proofs ----
(***************************************************************************)
(* What frames promise, for every set of recordings, every gap and every   *)
(* period.  The window functions are definitions over a set of begins, so  *)
(* most of it is arithmetic on finite sets: a group of begins is a         *)
(* stretch without a step, and a step is where the gap is reached.         *)
(***************************************************************************)
EXTENDS Timeline, FiniteSetTheorems, WellFoundedInduction, TLAPS

\* A non-empty set of numbers has a least one.
LEMMA LeastExists ==
    ASSUME NEW T \in SUBSET Nat, T # {}
    PROVE  \E m \in T : \A x \in T : m <= x
PROOF
  <1>1. PICK m \in T : \A y \in T : <<y, m>> \notin OpToRel(<, Nat)
    BY NatLessThanWellFounded, WFMin
  <1>2. \A y \in T : ~(y < m)
    BY <1>1 DEF OpToRel
  <1> QED BY <1>2

\* A non-empty set of numbers up to n has a greatest one.
LEMMA GreatestExists ==
    ASSUME NEW T \in SUBSET Nat, T # {}, NEW n \in Nat, \A x \in T : x <= n
    PROVE  \E m \in T : \A x \in T : x <= m
PROOF
  <1> DEFINE U == {k \in Nat : \E x \in T : k = n - x}
  <1>1. U \in SUBSET Nat /\ U # {}
    <2>1. PICK x \in T : TRUE
      OBVIOUS
    <2>2. n - x \in Nat
      BY <2>1
    <2> QED BY <2>1, <2>2
  <1>2. PICK k \in U : \A y \in U : k <= y
    BY <1>1, LeastExists
  <1>3. PICK m \in T : k = n - m
    BY <1>2
  <1>4. ASSUME NEW x \in T
        PROVE  x <= m
    <2>1. n - x \in U
      OBVIOUS
    <2> QED BY <1>2, <1>3, <2>1
  <1> QED BY <1>3, <1>4

----
\* Groups of begins.

\* The groups count upwards, and two begins are in the same one exactly when no step
\* lies between them.
LEMMA GroupsCountSteps ==
    ASSUME NEW B \in SUBSET Nat, IsFiniteSet(B), NEW a \in Nat, NEW b \in Nat, a <= b
    PROVE  /\ Grp(B, a) \in Nat /\ Grp(B, b) \in Nat /\ Grp(B, a) <= Grp(B, b)
           /\ Grp(B, a) = Grp(B, b) <=> \A s \in B : IsStep(B, s) /\ s <= b => s <= a
PROOF
  <1> DEFINE low  == {s \in B : IsStep(B, s) /\ s <= a}
             high == {s \in B : IsStep(B, s) /\ s <= b}
  <1>1. low \subseteq high
    <2> SUFFICES ASSUME NEW s \in B, s <= a
                 PROVE  s <= b
      OBVIOUS
    <2> QED BY B \subseteq Nat
  <1>2. high \subseteq B
    OBVIOUS
  <1>3. IsFiniteSet(high) /\ IsFiniteSet(low)
    BY <1>1, <1>2, FS_Subset
  <1>4. /\ Cardinality(low) \in Nat /\ Cardinality(high) \in Nat
        /\ Cardinality(low) <= Cardinality(high)
        /\ Cardinality(high) = Cardinality(low) => high = low
    BY <1>1, <1>3, FS_Subset, FS_CardinalityType
  <1>5. Grp(B, a) = Cardinality(low) /\ Grp(B, b) = Cardinality(high)
    BY DEF Grp
  <1>6. ASSUME high = low
        PROVE  \A s \in B : IsStep(B, s) /\ s <= b => s <= a
    <2> SUFFICES ASSUME NEW s \in B, IsStep(B, s), s <= b
                 PROVE  s <= a
      OBVIOUS
    <2>1. s \in high
      OBVIOUS
    <2>2. s \in low
      BY <1>6, <2>1
    <2> QED BY <2>2
  <1>7. ASSUME \A s \in B : IsStep(B, s) /\ s <= b => s <= a
        PROVE  high = low
    <2>1. high \subseteq low
      BY <1>7
    <2> QED BY <1>1, <2>1
  <1> HIDE DEF low, high
  <1> QED BY <1>4, <1>5, <1>6, <1>7

\* Whatever begins before a step begins the gap or more before it.
LEMMA StepKeepsDistance ==
    ASSUME NEW B \in SUBSET Nat, NEW a \in B, NEW s \in B, IsStep(B, s), a < s
    PROVE  a + Gap <= s
PROOF
  <1>1. PICK p \in B : IsLag(B, p, s) /\ p + Gap <= s
    BY DEF IsStep
  <1>2. a <= p
    BY <1>1 DEF IsLag
  <1> QED BY <1>1, <1>2, TimesAssumption

\* The gap between a begin and the next one is a step.
LEMMA DistanceMakesStep ==
    ASSUME NEW B \in SUBSET Nat, NEW a \in B, NEW s \in B, a < s,
           \A q \in B : q < s => q <= a, a + Gap <= s
    PROVE  IsStep(B, s)
PROOF
  BY DEF IsStep, IsLag

\* Two begins of one group stay in one group when begins are added.
LEMMA GroupsOnlyJoin ==
    ASSUME NEW C \in SUBSET Nat, IsFiniteSet(C), NEW B \in SUBSET C,
           NEW a \in B, NEW b \in B, a <= b, Grp(B, a) = Grp(B, b)
    PROVE  Grp(C, a) = Grp(C, b)
PROOF
  <1>1. IsFiniteSet(B)
    BY FS_Subset
  <1>2. \A s \in B : IsStep(B, s) /\ s <= b => s <= a
    BY <1>1, GroupsCountSteps
  <1>3. ASSUME NEW s \in C, IsStep(C, s), s <= b, ~(s <= a)
        PROVE  FALSE
    <2> DEFINE before == {q \in B : q < s}
               from   == {q \in B : s <= q}
    <2>1. PICK p \in before : \A q \in before : q <= p
      <3>1. B \subseteq Nat /\ s \in Nat
        OBVIOUS
      <3>2. a < s
        BY <1>3, <3>1
      <3>3. a \in before /\ before \in SUBSET Nat
        BY <3>1, <3>2
      <3>4. \A q \in before : q <= s
        BY <3>1
      <3> HIDE DEF before
      <3> QED BY <3>1, <3>3, <3>4, GreatestExists
    <2>2. PICK t \in from : \A q \in from : t <= q
      <3>1. b \in from /\ from \in SUBSET Nat
        BY <1>3
      <3> QED BY <3>1, LeastExists
    <2>3. p \in C /\ p < s /\ s <= t /\ t <= b /\ a < t
      BY <1>3, <2>1, <2>2
    <2>4. p + Gap <= s
      BY <1>3, <2>3, StepKeepsDistance
    <2>5. \A q \in B : q < t => q <= p
      BY <2>1, <2>2
    <2>6. IsStep(B, t)
      BY <2>1, <2>2, <2>3, <2>4, <2>5, DistanceMakesStep, TimesAssumption
    <2> QED BY <1>2, <2>2, <2>3, <2>6
  <1>4. \A s \in C : IsStep(C, s) /\ s <= b => s <= a
    BY <1>3
  <1> QED BY <1>4, GroupsCountSteps

----
\* Groups of rows.

\* Rows as the table holds them, and a bound on their moments.
Sound(S) ==
    \A r \in S : r.begin \in Nat /\ (r.end = Null \/ (r.end \in Nat /\ r.begin <= r.end))
Bounded(S, n) == \A r \in S : r.begin <= n /\ (r.end = Null \/ r.end <= n)

\* A group is made of all rows whose begins have the same number, and every row is in
\* one.
LEMMA GroupMembers ==
    ASSUME NEW S
    PROVE  /\ \A G \in Groups(S) :
                /\ G # {} /\ G \subseteq S
                /\ \A r \in G : G = {s \in S : Grp(Begins(S), s.begin) = Grp(Begins(S), r.begin)}
           /\ \A r \in S : \E G \in Groups(S) : r \in G
PROOF
  <1> DEFINE B   == Begins(S)
             grp == [b \in B |-> Grp(B, b)]
  <1>1. \A r \in S : r.begin \in B /\ grp[r.begin] = Grp(B, r.begin)
    BY DEF Begins
  <1>2. \A b \in B : \E r \in S : r.begin = b
    BY DEF Begins
  <1>3. Groups(S) = {{r \in S : grp[r.begin] = n} : n \in {grp[b] : b \in B}}
    BY DEF Groups
  <1> HIDE DEF B, grp
  <1>4. ASSUME NEW G \in Groups(S)
        PROVE  /\ G # {} /\ G \subseteq S
               /\ \A r \in G : G = {s \in S : Grp(B, s.begin) = Grp(B, r.begin)}
    <2>1. PICK b \in B : G = {r \in S : grp[r.begin] = grp[b]}
      BY <1>3
    <2>2. \A r \in G : r \in S /\ grp[r.begin] = grp[b]
      BY <2>1
    <2>3. G # {}
      BY <1>2, <2>1
    <2>4. ASSUME NEW r \in G
          PROVE  G = {s \in S : Grp(B, s.begin) = Grp(B, r.begin)}
      BY <1>1, <2>1, <2>2
    <2> QED BY <2>2, <2>3, <2>4
  <1>5. ASSUME NEW r \in S
        PROVE  \E G \in Groups(S) : r \in G
    <2>1. PICK G : G = {s \in S : grp[s.begin] = grp[r.begin]}
      OBVIOUS
    <2>2. r \in G /\ G \in Groups(S)
      BY <1>1, <1>3, <2>1
    <2> QED BY <2>2
  <1> QED BY <1>4, <1>5 DEF B

\* The begins of bounded rows are a finite set of numbers.
LEMMA BeginsFinite ==
    ASSUME NEW S, NEW n \in Nat, Sound(S), Bounded(S, n)
    PROVE  Begins(S) \in SUBSET Nat /\ IsFiniteSet(Begins(S))
PROOF
  <1>1. Begins(S) \in SUBSET Nat /\ \A b \in Begins(S) : b <= n
    BY DEF Begins, Sound, Bounded
  <1> QED BY <1>1, FS_BoundedSetOfNaturals

\* Every group has a first begin and a last end, so it shows as a frame.
LEMMA GroupHasFrame ==
    ASSUME NEW S, NEW n \in Nat, Sound(S), Bounded(S, n), NEW G \in Groups(S)
    PROVE  \E r \in Opening(G), s \in Closing(G) :
              [begin |-> r.begin, end |-> s.end] \in FramesOf(G)
PROOF
  <1>1. G # {} /\ G \subseteq S
    BY GroupMembers
  <1>2. \E r \in G : r \in Opening(G)
    <2> DEFINE T == {r.begin : r \in G}
    <2>1. T \in SUBSET Nat /\ T # {}
      BY <1>1 DEF Sound
    <2>2. PICK m \in T : \A x \in T : m <= x
      BY <2>1, LeastExists
    <2>3. PICK r \in G : r.begin = m
      BY <2>2
    <2> QED BY <2>2, <2>3 DEF Opening
  <1>3. \E s \in G : s \in Closing(G)
    <2>1. CASE \E s \in G : s.end = Null
      BY <2>1 DEF Closing
    <2>2. CASE \A s \in G : s.end # Null
      <3> DEFINE T == {s.end : s \in G}
      <3>1. T \in SUBSET Nat /\ T # {} /\ \A x \in T : x <= n
        BY <1>1, <2>2 DEF Sound, Bounded
      <3>2. PICK m \in T : \A x \in T : x <= m
        BY <3>1, GreatestExists
      <3>3. PICK s \in G : s.end = m
        BY <3>2
      <3> QED BY <2>2, <3>2, <3>3 DEF Closing
    <2> QED BY <2>1, <2>2
  <1>4. PICK r \in Opening(G) : TRUE
    BY <1>2
  <1>5. PICK s \in Closing(G) : TRUE
    BY <1>3
  <1>6. [begin |-> r.begin, end |-> s.end] \in FramesOf(G)
    BY DEF FramesOf
  <1> QED BY <1>6
----
\* The state.

\* The types of the recordings and the period, for every set of them.
THEOREM TimelineTypeCorrect == Spec => []TypeOK
PROOF
  <1>1. Init => TypeOK
    BY FS_EmptySet DEF Init, TypeOK
  <1>2. TypeOK /\ [Next]_vars => TypeOK'
    <2> SUFFICES ASSUME TypeOK, [Next]_vars
                 PROVE  TypeOK'
      OBVIOUS
    <2>1. ASSUME NEW r \in Recordings, Record(r)
          PROVE  TypeOK'
      BY <2>1, FS_AddElement DEF Record, TypeOK
    <2>2. ASSUME NEW r \in recordings, NEW end \in Times, Finish(r, end)
          PROVE  TypeOK'
      <3>1. IsFiniteSet(recordings \ {r})
        BY FS_RemoveElement DEF TypeOK
      <3>2. IsFiniteSet((recordings \ {r}) \cup {[r EXCEPT !.end = end]})
        BY <3>1, FS_AddElement
      <3> QED BY <2>2, <3>2 DEF Finish, TypeOK
    <2>3. CASE UNCHANGED vars
      BY <2>3 DEF vars, TypeOK
    <2> QED BY <2>1, <2>2, <2>3 DEF Next
  <1> QED BY <1>1, <1>2, PTL DEF Spec

\* The rows of the query are sound and bounded by the period and the bound on length.
LEMMA SelectedIsSound ==
    ASSUME TypeOK
    PROVE  Sound(Selected) /\ \E n \in Nat : Bounded(Selected, n)
PROOF
  <1>1. period.begin \in Nat /\ period.end \in Nat
    BY PeriodsAssumption DEF TypeOK
  <1>2. MaxLength \in Nat /\ Times \subseteq Nat
    BY TimesAssumption
  <1>3. ASSUME NEW r \in Selected
        PROVE  /\ r.begin \in Nat /\ (r.end = Null \/ (r.end \in Nat /\ r.begin <= r.end))
               /\ r.begin <= period.end + MaxLength
               /\ r.end = Null \/ r.end <= period.end + MaxLength
    <2>1. r \in Recordings /\ r.begin <= period.end
      BY DEF Selected, TypeOK
    <2>2. r.begin \in Nat /\ (r.end = Null \/ r.end \in Nat)
      BY <1>2, <2>1 DEF Recordings
    <2>3. r.end = Null \/ (r.begin <= r.end /\ r.end <= r.begin + MaxLength)
      BY <2>1 DEF Recordings
    <2>4. r.begin <= period.end + MaxLength
      BY <1>1, <1>2, <2>1, <2>2
    <2>5. CASE r.end = Null
      BY <2>2, <2>4, <2>5
    <2>6. CASE r.end # Null
      <3>1. r.end \in Nat /\ r.begin <= r.end /\ r.end <= r.begin + MaxLength
        BY <2>2, <2>3, <2>6
      <3>2. r.end <= period.end + MaxLength
        BY <1>1, <1>2, <2>1, <2>2, <3>1
      <3> QED BY <2>2, <2>4, <3>1, <3>2
    <2> QED BY <2>5, <2>6
  <1>4. period.end + MaxLength \in Nat
    BY <1>1, <1>2
  <1> QED BY <1>3, <1>4 DEF Sound, Bounded

\* A frame is the first begin and the last end of a group.
LEMMA FrameOfGroup ==
    ASSUME NEW S, NEW f \in TimeLine(S)
    PROVE  \E G \in Groups(S) : \E r \in Opening(G), s \in Closing(G) :
              f.begin = r.begin /\ f.end = s.end
PROOF
  <1>1. PICK G \in Groups(S) : f \in FramesOf(G)
    BY DEF TimeLine
  <1>2. PICK r \in Opening(G), s \in Closing(G) : f = [begin |-> r.begin, end |-> s.end]
    BY <1>1 DEF FramesOf
  <1> QED BY <1>2

\* Frames of sound rows overlap only where one of them holds a recording past the gap.
LEMMA DisjointFrames ==
    ASSUME NEW S, NEW n \in Nat, Sound(S), Bounded(S, n),
           NEW f \in TimeLine(S), NEW g \in TimeLine(S),
           f.begin < g.begin, f.end = Null \/ g.begin < f.end
    PROVE  \E r \in S : Contains(f, r.begin) /\ (r.end = Null \/ r.end > r.begin + Gap)
PROOF
  <1> DEFINE B == Begins(S)
  <1>1. PICK G \in Groups(S) : \E r \in Opening(G), s \in Closing(G) :
               f.begin = r.begin /\ f.end = s.end
    BY FrameOfGroup
  <1>2. PICK r1 \in Opening(G), s1 \in Closing(G) : f.begin = r1.begin /\ f.end = s1.end
    BY <1>1
  <1>3. PICK H \in Groups(S) : \E r \in Opening(H), s \in Closing(H) :
               g.begin = r.begin /\ g.end = s.end
    BY FrameOfGroup
  <1>4. PICK r2 \in Opening(H) : g.begin = r2.begin
    BY <1>3
  <1>5. r1 \in G /\ s1 \in G /\ r2 \in H /\ r1.begin <= s1.begin /\ G \subseteq S /\ H \subseteq S
    BY GroupMembers DEF Opening, Closing
  <1>6. r1.begin < r2.begin
    BY <1>2, <1>4
  <1>7. B \in SUBSET Nat /\ IsFiniteSet(B) /\ r1.begin \in B /\ s1.begin \in B /\ r2.begin \in B
    BY <1>5, BeginsFinite DEF Begins
  <1>8. Grp(B, r1.begin) = Grp(B, s1.begin)
    BY <1>5, GroupMembers
  <1>9. Grp(B, r1.begin) # Grp(B, r2.begin)
    <2> SUFFICES ASSUME Grp(B, r1.begin) = Grp(B, r2.begin)
                 PROVE  FALSE
      OBVIOUS
    <2>1. r1 \in H
      BY <1>5, GroupMembers
    <2>2. r2.begin <= r1.begin
      BY <2>1 DEF Opening
    <2> QED BY <1>6, <1>7, <2>2
  <1> HIDE DEF B
  <1>10. PICK b1 \in B, c1 \in B, b2 \in B : b1 = r1.begin /\ c1 = s1.begin /\ b2 = r2.begin
    BY <1>7
  <1>11. b1 \in Nat /\ c1 \in Nat /\ b2 \in Nat /\ b1 <= c1 /\ b1 < b2
    BY <1>5, <1>6, <1>7, <1>10
  <1>12. Grp(B, b1) = Grp(B, c1) /\ Grp(B, b1) # Grp(B, b2)
    BY <1>8, <1>9, <1>10
  <1>13. c1 < b2
    <2> SUFFICES ASSUME b2 <= c1
                 PROVE  FALSE
      BY <1>11
    <2>1. Grp(B, b1) \in Nat /\ Grp(B, b2) \in Nat /\ Grp(B, b1) <= Grp(B, b2)
      BY <1>7, <1>11, GroupsCountSteps
    <2>2. Grp(B, b2) <= Grp(B, c1)
      BY <1>7, <1>11, GroupsCountSteps
    <2> QED BY <1>12, <2>1, <2>2
  <1>14. PICK t \in B : IsStep(B, t) /\ t <= b2 /\ ~(t <= c1)
    <2>1. Grp(B, c1) # Grp(B, b2) /\ c1 <= b2
      BY <1>11, <1>12, <1>13
    <2> QED BY <1>7, <1>11, <2>1, GroupsCountSteps
  <1>15. t \in Nat /\ c1 < t
    BY <1>7, <1>11, <1>14
  <1>16. c1 + Gap <= t
    BY <1>7, <1>14, <1>15, StepKeepsDistance
  <1>17. c1 + Gap <= b2
    BY <1>11, <1>14, <1>15, <1>16, TimesAssumption
  <1>18. s1 \in S /\ (s1.end = Null \/ (s1.end \in Nat /\ s1.begin <= s1.end))
    BY <1>5 DEF Sound
  <1>19. s1.end = Null \/ s1.end > s1.begin + Gap
    <2>1. CASE s1.end # Null
      <3>1. b2 < s1.end /\ s1.end \in Nat
        BY <1>2, <1>4, <1>10, <1>18, <2>1
      <3>2. s1.end > c1 + Gap
        BY <1>11, <1>17, <3>1, TimesAssumption
      <3> QED BY <1>10, <3>2
    <2> QED BY <2>1
  <1>20. Contains(f, s1.begin)
    BY <1>2, <1>5, <1>18 DEF Contains
  <1> QED BY <1>18, <1>19, <1>20

\* A moment of a frame is recorded, or in a pause shorter than the gap.
LEMMA ShortPauses ==
    ASSUME NEW S, NEW n \in Nat, Sound(S), Bounded(S, n),
           NEW f \in TimeLine(S), f.end # Null, NEW x \in f.begin .. f.end,
           \A r \in S : ~Contains(r, x)
    PROVE  \E r, s \in S : r.begin < x /\ x < s.begin /\ s.begin < r.begin + Gap
PROOF
  <1> DEFINE B     == Begins(S)
             upTo  == {b \in B : b <= x}
             later == {b \in B : x < b}
  <1>1. PICK G \in Groups(S) : \E r \in Opening(G), s \in Closing(G) :
               f.begin = r.begin /\ f.end = s.end
    BY FrameOfGroup
  <1>2. PICK r1 \in Opening(G), s1 \in Closing(G) : f.begin = r1.begin /\ f.end = s1.end
    BY <1>1
  <1>3. r1 \in G /\ s1 \in G /\ r1.begin <= s1.begin /\ G \subseteq S
    BY GroupMembers DEF Opening, Closing
  <1>4. B \in SUBSET Nat /\ IsFiniteSet(B) /\ r1.begin \in B /\ s1.begin \in B
    BY <1>3, BeginsFinite DEF Begins
  <1>5. s1.end \in Nat /\ x \in Nat /\ r1.begin <= x /\ x <= s1.end
    BY <1>2, <1>3, <1>4 DEF Sound
  <1>6. x < s1.begin
    BY <1>2, <1>3, <1>4, <1>5 DEF Contains
  <1>7. PICK p \in upTo : \A q \in upTo : q <= p
    <2>1. upTo \in SUBSET Nat /\ r1.begin \in upTo /\ \A q \in upTo : q <= x
      BY <1>4, <1>5
    <2> QED BY <1>5, <2>1, GreatestExists
  <1>8. PICK t \in later : \A q \in later : t <= q
    <2>1. later \in SUBSET Nat /\ s1.begin \in later
      BY <1>4, <1>6
    <2> QED BY <2>1, LeastExists
  <1>9. PICK r \in S : r.begin = p
    BY <1>7 DEF Begins
  <1>10. PICK s \in S : s.begin = t
    BY <1>8 DEF Begins
  <1> HIDE DEF B
  <1>11. p \in Nat /\ t \in Nat /\ p <= x /\ x < t /\ r1.begin <= p /\ t <= s1.begin
    BY <1>4, <1>5, <1>6, <1>7, <1>8
  <1>12. p # x
    <2> SUFFICES ASSUME p = x
                 PROVE  FALSE
      OBVIOUS
    <2>1. r.end = Null \/ x <= r.end
      BY <1>9 DEF Sound
    <2> QED BY <1>9, <2>1 DEF Contains
  <1>13. ~IsStep(B, t)
    <2>1. Grp(B, r1.begin) = Grp(B, s1.begin)
      BY <1>3, GroupMembers DEF B
    <2>2. \A q \in B : IsStep(B, q) /\ q <= s1.begin => q <= r1.begin
      BY <1>3, <1>4, <2>1, GroupsCountSteps
    <2>3. r1.begin \in Nat
      BY <1>4
    <2>4. ~(t <= r1.begin)
      BY <1>11, <2>3
    <2> QED BY <1>8, <1>11, <2>2, <2>4
  <1>14. ~(p + Gap <= t)
    <2>1. \A q \in B : q < t => q <= p
      BY <1>4, <1>5, <1>7, <1>8
    <2> QED BY <1>4, <1>7, <1>8, <1>11, <1>13, <2>1, DistanceMakesStep
  <1> QED BY <1>9, <1>10, <1>11, <1>12, <1>14, TimesAssumption

\* Every row lies within a frame.
LEMMA RowsAreFramed ==
    ASSUME NEW S, NEW n \in Nat, Sound(S), Bounded(S, n), NEW r \in S
    PROVE  \E f \in TimeLine(S) :
              /\ f.begin \in Nat /\ f.begin <= r.begin
              /\ f.end = Null \/ (r.end # Null /\ f.end \in Nat /\ r.end <= f.end)
PROOF
  <1>1. PICK G \in Groups(S) : r \in G
    BY GroupMembers
  <1>2. PICK o \in Opening(G), c \in Closing(G) :
          [begin |-> o.begin, end |-> c.end] \in FramesOf(G)
    BY GroupHasFrame
  <1> DEFINE f == [begin |-> o.begin, end |-> c.end]
  <1>3. f \in TimeLine(S)
    BY <1>2 DEF TimeLine
  <1>4. o \in S /\ c \in S /\ o.begin <= r.begin
    BY <1>1, GroupMembers DEF Opening, Closing
  <1>5. o.begin \in Nat
    BY <1>4 DEF Sound
  <1>6. c.end = Null \/ (r.end # Null /\ c.end \in Nat /\ r.end <= c.end)
    BY <1>1, <1>4 DEF Closing, Sound
  <1>7. f.begin = o.begin /\ f.end = c.end
    OBVIOUS
  <1> HIDE DEF f
  <1> QED BY <1>3, <1>4, <1>5, <1>6, <1>7

\* T holds every row of S, or the same row with an end it had not.
Grown(S, T) ==
    \A r \in S : \E t \in T : t.begin = r.begin /\ (r.end = Null \/ t.end = r.end)

\* Whatever is added and finished, a frame lies within a frame of the grown rows.
LEMMA FramesGrow ==
    ASSUME NEW S, NEW m \in Nat, Sound(S), Bounded(S, m),
           NEW T, NEW n \in Nat, Sound(T), Bounded(T, n),
           Grown(S, T), NEW f \in TimeLine(S)
    PROVE  \E g \in TimeLine(T) :
              g.begin <= f.begin /\ (f.end = Null \/ g.end = Null \/ f.end <= g.end)
PROOF
  <1> DEFINE B == Begins(S)
             C == Begins(T)
  <1>1. PICK G \in Groups(S) : \E r \in Opening(G), s \in Closing(G) :
               f.begin = r.begin /\ f.end = s.end
    BY FrameOfGroup
  <1>2. PICK r1 \in Opening(G), s1 \in Closing(G) : f.begin = r1.begin /\ f.end = s1.end
    BY <1>1
  <1>3. r1 \in G /\ s1 \in G /\ r1.begin <= s1.begin /\ G \subseteq S
    BY GroupMembers DEF Opening, Closing
  <1>4. PICK t1 \in T : t1.begin = r1.begin
    BY <1>3 DEF Grown
  <1>5. PICK u1 \in T : u1.begin = s1.begin /\ (s1.end = Null \/ u1.end = s1.end)
    BY <1>3 DEF Grown
  <1>6. B \subseteq C /\ r1.begin \in B /\ s1.begin \in B
    BY <1>3 DEF Begins, Grown
  <1>7. B \in SUBSET Nat /\ C \in SUBSET Nat /\ IsFiniteSet(C)
    BY BeginsFinite
  <1>8. Grp(B, r1.begin) = Grp(B, s1.begin)
    BY <1>3, GroupMembers
  <1>9. Grp(C, t1.begin) = Grp(C, u1.begin)
    <2> HIDE DEF B, C
    <2>1. B \in SUBSET C
      BY <1>6
    <2>2. Grp(C, r1.begin) = Grp(C, s1.begin)
      BY <1>3, <1>6, <1>7, <1>8, <2>1, GroupsOnlyJoin
    <2> QED BY <1>4, <1>5, <2>2
  <1>10. PICK H \in Groups(T) : t1 \in H
    BY GroupMembers
  <1>11. u1 \in H
    BY <1>9, <1>10, GroupMembers
  <1>12. PICK o \in Opening(H), c \in Closing(H) :
           [begin |-> o.begin, end |-> c.end] \in FramesOf(H)
    BY GroupHasFrame
  <1> DEFINE g == [begin |-> o.begin, end |-> c.end]
  <1>13. g \in TimeLine(T)
    BY <1>12 DEF TimeLine
  <1>14. g.begin = o.begin /\ g.end = c.end
    OBVIOUS
  <1>15. o.begin <= f.begin
    BY <1>2, <1>4, <1>10 DEF Opening
  <1>16. c.end = Null \/ (u1.end # Null /\ u1.end <= c.end)
    BY <1>11 DEF Closing
  <1>17. f.end = Null \/ c.end = Null \/ f.end <= c.end
    BY <1>2, <1>5, <1>16
  <1> HIDE DEF g
  <1> QED BY <1>13, <1>14, <1>15, <1>17

----
\* The theorems.

\* Frames that overlap do so over a recording longer than the gap.
THEOREM FramesAreDisjoint == Spec => []FramesDisjoint
PROOF
  <1>1. TypeOK => FramesDisjoint
    <2> SUFFICES ASSUME TypeOK, NEW f \in Frames, NEW g \in Frames,
                        f.begin < g.begin, f.end = Null \/ g.begin < f.end
                 PROVE  \E r \in Selected :
                           Contains(f, r.begin) /\ (r.end = Null \/ r.end > r.begin + Gap)
      BY DEF FramesDisjoint
    <2> QED BY SelectedIsSound, DisjointFrames DEF Frames
  <1> QED BY <1>1, TimelineTypeCorrect, PTL

\* A moment a frame shows as recorded is recorded, or in a pause shorter than the gap.
THEOREM FramesAreRecorded == Spec => []PausesAreShort
PROOF
  <1>1. TypeOK => PausesAreShort
    <2> SUFFICES ASSUME TypeOK, NEW f \in Frames, f.end # Null, NEW x \in f.begin .. f.end,
                        \A r \in Selected : ~Contains(r, x)
                 PROVE  \E r, s \in Selected :
                           r.begin < x /\ x < s.begin /\ s.begin < r.begin + Gap
      BY DEF PausesAreShort
    <2> QED BY SelectedIsSound, ShortPauses DEF Frames
  <1> QED BY <1>1, TimelineTypeCorrect, PTL

\* A recorded moment of the period is missing only when its recording began before it.
THEOREM MomentsAreFramed == Spec => []MissedOnlyAtTheEdge
PROOF
  <1>1. TypeOK => MissedOnlyAtTheEdge
    <2> SUFFICES ASSUME TypeOK, NEW r \in recordings, r.end # Null, NEW x \in r.begin .. r.end,
                        period.begin <= x, x <= period.end,
                        \A f \in Frames : ~Contains(f, x)
                 PROVE  r.begin < period.begin
      BY DEF MissedOnlyAtTheEdge
    <2>1. period.begin \in Nat /\ period.end \in Nat
      BY PeriodsAssumption DEF TypeOK
    <2>2. r.begin \in Nat /\ r.end \in Nat
      BY TimesAssumption DEF TypeOK, Recordings
    <2> SUFFICES ASSUME period.begin <= r.begin
                 PROVE  FALSE
      BY <2>1, <2>2
    <2>3. r.begin <= x /\ x <= r.end /\ x \in Nat
      BY <2>2
    <2>4. r \in Selected
      BY <2>1, <2>2, <2>3 DEF Selected
    <2>5. PICK f \in Frames :
            /\ f.begin \in Nat /\ f.begin <= r.begin
            /\ f.end = Null \/ (r.end # Null /\ f.end \in Nat /\ r.end <= f.end)
      BY <2>4, SelectedIsSound, RowsAreFramed DEF Frames
    <2>6. f.begin <= x
      BY <2>2, <2>3, <2>5
    <2>7. f.end = Null \/ x <= f.end
      BY <2>2, <2>3, <2>5
    <2> QED BY <2>6, <2>7 DEF Contains
  <1> QED BY <1>1, TimelineTypeCorrect, PTL

\* No frame is cut or taken back by what is recorded later.
THEOREM FramesAreKept == Spec => FramesOnlyGrow
PROOF
  <1>1. ASSUME TypeOK, TypeOK', [Next]_vars
        PROVE  Grown(Selected, Selected')
    <2>1. CASE UNCHANGED vars
      BY <2>1 DEF vars, Grown, Selected
    <2>2. ASSUME NEW r \in Recordings, Record(r)
          PROVE  Grown(Selected, Selected')
      BY <2>2 DEF Record, Grown, Selected
    <2>3. ASSUME NEW r \in recordings, NEW end \in Times, Finish(r, end)
          PROVE  Grown(Selected, Selected')
      <3> DEFINE finished == [r EXCEPT !.end = end]
      <3>1. r \in [begin : Times, end : Times \cup {Null}]
        <4>1. r \in Recordings
          BY <1>1 DEF TypeOK
        <4> QED BY <4>1 DEF Recordings
      <3>2. finished.begin = r.begin /\ r.end = Null
        BY <2>3, <3>1 DEF Finish
      <3>3. recordings' = (recordings \ {r}) \cup {finished} /\ period' = period
        BY <2>3 DEF Finish
      <3> HIDE DEF finished
      <3> SUFFICES ASSUME NEW s \in Selected
                   PROVE  \E t \in Selected' : t.begin = s.begin /\ (s.end = Null \/ t.end = s.end)
        BY DEF Grown
      <3>4. CASE s = r
        BY <3>2, <3>3, <3>4 DEF Selected
      <3>5. CASE s # r
        BY <3>3, <3>5 DEF Selected
      <3> QED BY <3>4, <3>5
    <2> QED BY <1>1, <2>1, <2>2, <2>3 DEF Next
  <1>2. TypeOK => Sound(Selected) /\ \E n \in Nat : Bounded(Selected, n)
    BY SelectedIsSound
  <1>3. (TypeOK => Sound(Selected) /\ \E n \in Nat : Bounded(Selected, n))'
    BY <1>2, PTL
  <1>4. TypeOK /\ TypeOK' /\ [Next]_vars =>
          [LET later == Frames'
           IN  \A f \in Frames : \E g \in later :
                 g.begin <= f.begin /\ (f.end = Null \/ g.end = Null \/ f.end <= g.end)]_vars
    <2> SUFFICES ASSUME TypeOK, TypeOK', [Next]_vars, NEW f \in Frames
                 PROVE  \E g \in Frames' :
                   g.begin <= f.begin /\ (f.end = Null \/ g.end = Null \/ f.end <= g.end)
      OBVIOUS
    <2>1. Sound(Selected) /\ \E n \in Nat : Bounded(Selected, n)
      BY <1>2
    <2>2. Sound(Selected') /\ \E n \in Nat : Bounded(Selected', n)
      BY <1>3 DEF Sound, Bounded
    <2>3. Grown(Selected, Selected')
      BY <1>1
    <2>4. Frames = TimeLine(Selected) /\ Frames' = TimeLine(Selected')
      BY DEF Frames, TimeLine, Groups, FramesOf, Opening, Closing, Begins, Grp, IsStep, IsLag
    <2> QED BY <2>1, <2>2, <2>3, <2>4, FramesGrow
  <1> QED BY <1>4, TimelineTypeCorrect, PTL DEF Spec, FramesOnlyGrow
====
