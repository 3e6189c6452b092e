\* Every part of the start may fail, signals at any moment.  The process ends.
CONSTANT
    MayFail = {"arguments", "configuration", "watchdog", "watchdog_throws", "transport", "no_server_channel"}
SPECIFICATION Spec
CHECK_DEADLOCK FALSE
INVARIANTS
    TypeOK
    NothingUsedAfterDelete
    ServiceNeverAborts
PROPERTY
    StopEnds
