\* Two writers that both find the table absent, no faults.
CONSTANTS
    Columns <- MCColumns
    KeyColumn = "id"
    Values <- MCValues
    Null = "null"
    NoKey = "no key"
    Dynamic = TRUE
    ManyTables = FALSE
    UpdateRequests <- NoUpdates
    DeleteKeys <- NoDeletes
    Outages = FALSE
    Writers = {w1, w2}
    AddRequests <- KeyedAdds
    MaxRequests = 2
    MaxFaults = 0
SPECIFICATION Spec
CHECK_DEADLOCK FALSE
SYMMETRY WriterSymmetry
INVARIANTS
    GrowingTableTakesEveryRecord
