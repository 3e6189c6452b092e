\* One writer on a table that does not grow columns, requests of every form; the
\* server may stop.  It ends when the bound on requests is reached.
CONSTANTS
    Columns <- MCColumns
    KeyColumn = "id"
    Values <- MCValues
    Null = "null"
    NoKey = "no key"
    Dynamic = FALSE
    ManyTables = TRUE
    UpdateRequests <- NoUpdates
    DeleteKeys <- NoDeletes
    Outages = TRUE
    Writers = {w1}
    AddRequests <- MixedAdds
    MaxRequests = 4
    MaxFaults = 2
SPECIFICATION Spec
CHECK_DEADLOCK FALSE
INVARIANTS
    TypeOK
    AcknowledgedIsThere
