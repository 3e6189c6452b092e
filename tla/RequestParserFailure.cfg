\* FailureIsReported, on the instance of RequestParser.cfg.
CONSTANTS
    Tables = {"cameras", "info_nodes"}
    EventTables = {"faces"}
SPECIFICATION Spec
CHECK_DEADLOCK FALSE
INVARIANT FailureIsReported
