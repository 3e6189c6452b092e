\* Every set of three recordings over eight moments, some longer than the gap, in every
\* order; a period that holds all of them, one in the middle, and one the wrong way
\* round.  It ends when the bound is reached.
CONSTANTS
    Times <- MCTimes
    Null = null
    Gap = 2
    Periods <- MCPeriods
    MaxLength = 3
    MaxRecordings = 3
SPECIFICATION Spec
CHECK_DEADLOCK FALSE
INVARIANTS
    TypeOK
    FramesDisjoint
    PausesAreShort
    MissedOnlyAtTheEdge
PROPERTIES
    FramesOnlyGrow
