---- MODULE Timeline ----
(***************************************************************************)
(* The time line of the archive: PostgreSQLClient::getTimeLine merges the  *)
(* recordings of one camera that begin within the period asked for into    *)
(* frames, with the window functions of the SQL function it creates        *)
(* (continue_time_frame).  Recordings are added, and unfinished ones get   *)
(* their end, in any order.                                                *)
(***************************************************************************)
EXTENDS Naturals, FiniteSets

CONSTANTS
    Times,           \* moments, as numbers
    Null,            \* the end of a recording nobody has written yet
    Gap,             \* interval '1.5 min'
    Periods,         \* the periods asked for
    MaxLength,       \* bound: length of a recording
    MaxRecordings    \* bound: recordings

Recordings == {r \in [begin : Times, end : Times \cup {Null}] :
                 r.end = Null \/ (r.begin <= r.end /\ r.end <= r.begin + MaxLength)}

ASSUME TimesAssumption ==
    Times \subseteq Nat /\ Null \notin Nat /\ Gap \in Nat \ {0}
    /\ MaxLength \in Nat /\ MaxRecordings \in Nat
ASSUME PeriodsAssumption == Periods \subseteq [begin : Nat, end : Nat]

VARIABLES
    recordings,    \* archivewriter, the rows with "source" = camSource
    period         \* beginT and endT

vars == <<recordings, period>>

TypeOK == recordings \subseteq Recordings /\ IsFiniteSet(recordings) /\ period \in Periods

Init == recordings = {} /\ period \in Periods

Record(r) ==
    /\ Cardinality(recordings) < MaxRecordings
    /\ recordings' = recordings \cup {r}
    /\ UNCHANGED period

\* Mutant of Finish: the end may lie before the begin.
FinishAnytime(r, end) ==
    /\ r.end = Null
    /\ recordings' = (recordings \ {r}) \cup {[r EXCEPT !.end = end]}
    /\ UNCHANGED period

Finish(r, end) ==
    /\ r.end = Null
    /\ [r EXCEPT !.end = end] \in Recordings
    /\ recordings' = (recordings \ {r}) \cup {[r EXCEPT !.end = end]}
    /\ UNCHANGED period

Next ==
    \/ \E r \in Recordings : Record(r)
    \/ \E r \in recordings, end \in Times : Finish(r, end)

Spec == Init /\ [][Next]_vars

----
\* The query.

\* Mutant of Selected: recordings that end in the period are taken instead.
SelectedByEnd == {r \in recordings : r.end # Null /\ period.begin <= r.end /\ r.end <= period.end}

\* WHERE "timestamp-begin" BETWEEN beginT AND endT.
Selected == {r \in recordings : period.begin <= r.begin /\ r.begin <= period.end}

Begins(S) == {r.begin : r \in S}

\* lag("timestamp-begin") OVER (ORDER BY "timestamp-begin") of the first row with that
\* begin; the lag of its peers is the begin itself and makes no step.
IsLag(B, p, b) == p \in B /\ p < b /\ \A q \in B : q < b => q <= p

\* Mutant of IsStep: the gap itself is still continuous.
IsStepStrictly(B, b) == \E p \in B : IsLag(B, p, b) /\ p + Gap < b

IsStep(B, b) == \E p \in B : IsLag(B, p, b) /\ p + Gap <= b

\* Mutant of Grp: the steps are not counted up.
GrpUncounted(B, b) == IF IsStep(B, b) THEN b ELSE 0

\* count(*) FILTER (WHERE step) OVER (ORDER BY "timestamp-begin"), peers included.
Grp(B, b) == Cardinality({s \in B : IsStep(B, s) /\ s <= b})

\* PARTITION BY grp: the rows of each group.
Groups(S) ==
    LET grp == [b \in Begins(S) |-> Grp(Begins(S), b)]
    IN  {{r \in S : grp[r.begin] = n} : n \in {grp[b] : b \in Begins(S)}}

\* FIRST_VALUE by begin, and by end descending, where NULL comes first.
Opening(G) == {r \in G : \A s \in G : r.begin <= s.begin}

\* Mutant of Closing: the end of the recording that begins last.
ClosingLastBegun(G) == {r \in G : \A s \in G : s.begin <= r.begin}

Closing(G) == {r \in G : r.end = Null \/ \A s \in G : s.end # Null /\ s.end <= r.end}

\* SELECT DISTINCT.
FramesOf(G) == {[begin |-> r.begin, end |-> s.end] : r \in Opening(G), s \in Closing(G)}
TimeLine(S) == UNION {FramesOf(G) : G \in Groups(S)}

Frames == TimeLine(Selected)

----
\* Properties.

Contains(f, x) == f.begin <= x /\ (f.end = Null \/ x <= f.end)

\* Frames are drawn from begins alone.  Two of them overlap only where one holds a
\* recording that runs past the gap, or has no end: recordings up to a minute and a
\* half long give frames that at most touch.
FramesDisjoint ==
    \A f, g \in Frames :
        f.begin < g.begin /\ (f.end = Null \/ g.begin < f.end)
          => \E r \in Selected : Contains(f, r.begin) /\ (r.end = Null \/ r.end > r.begin + Gap)

\* What a frame shows as recorded is recorded, but for pauses shorter than the gap: a
\* moment of it without a recording lies between two recordings that begin within
\* less than the gap of each other.
PausesAreShort ==
    \A f \in Frames : f.end # Null =>
        \A x \in f.begin..f.end :
            \/ \E r \in Selected : Contains(r, x)
            \/ \E r, s \in Selected : r.begin < x /\ x < s.begin /\ s.begin < r.begin + Gap

\* A recorded moment of the period is in no frame only when every recording of it
\* began before the period.
MissedOnlyAtTheEdge ==
    LET frames == Frames
    IN  \A r \in recordings : r.end # Null =>
            \A x \in r.begin..r.end :
                (period.begin <= x /\ x <= period.end /\ \A f \in frames : ~Contains(f, x))
                  => r.begin < period.begin

\* Recordings that arrive late, in any order, extend frames and join them; no frame
\* is cut or taken back.
FramesOnlyGrow ==
    [][LET later == Frames'
       IN  \A f \in Frames : \E g \in later :
             g.begin <= f.begin /\ (f.end = Null \/ g.end = Null \/ f.end <= g.end)]_vars
====
