\* One request of every form, statements that fail, a registry and tables that change under
\* them; the listing of all analytics may be cut.  It ends when the bound is reached.
CONSTANTS
    Tables = {"t", "u"}
    NoTable = "no table"
    All = all
    Mistyped = mistyped
    Registry <- MCRegistry
    MaxIdx = 4
    Requests <- MCRequests
    ListLimit = 2
    MaxFaults = 2
    MaxChanges = 2
    MaxRequests = 1
SPECIFICATION Spec
CHECK_DEADLOCK FALSE
INVARIANTS
    TypeOK
    AsisTrueIsComplete
    TimelineLosesFailedTablesOnly
    ShownWasEnabled
