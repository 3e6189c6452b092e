\* Two writers on one table that grows columns, keyed requests, with updates and
\* deletes; the server may stop.  It ends when the bound on requests is reached.
CONSTANTS
    Columns <- MCColumns
    KeyColumn = "id"
    Values <- MCValues
    Null = "null"
    NoKey = "no key"
    Absent = absent
    Twice = twice
    Dynamic = TRUE
    ManyTables = FALSE
    UpdateRequests <- SomeUpdates
    DeleteKeys <- SomeDeletes
    Outages = TRUE
    Writers = {w1, w2}
    AddRequests <- KeyedAdds
    MaxRequests = 3
    MaxFaults = 1
SPECIFICATION Spec
CHECK_DEADLOCK FALSE
SYMMETRY WriterSymmetry
INVARIANTS
    AtMostOneRowPerWriter
PROPERTIES
    ImplementsSharedStore
    RequestsAdvance
