\* One writer, keyed records, alone and in arrays, updates of two columns and
\* deletions; the connection breaks, answers get lost, the process restarts.  It ends
\* when the bound on requests is reached.
CONSTANTS
    Columns <- MCColumns
    KeyColumn = "id"
    Values <- MCValues
    Null = "null"
    NoKey = "no key"
    Absent = absent
    Twice = twice
    Dynamic = TRUE
    ManyTables = FALSE
    UpdateRequests <- SomeUpdates
    DeleteKeys <- SomeDeletes
    Outages = FALSE
    Writers = {w1}
    AddRequests <- KeyedAdds
    MaxRequests = 4
    MaxFaults = 3
SPECIFICATION Spec
CHECK_DEADLOCK FALSE
INVARIANTS
    LinkLossCostsOneRecord
    UpdateLosesOneColumnPerFault
PROPERTIES
    ImplementsKeyedStore
