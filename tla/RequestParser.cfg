\* Two names clients use, one of them also a table of the handlers, and one
\* analytics table.  The process may die of an escaped exception.
CONSTANTS
    Tables = {"cameras", "info_nodes"}
    EventTables = {"faces"}
    Lost = lost
SPECIFICATION Spec
CHECK_DEADLOCK FALSE
INVARIANTS
    TypeOK
    TableFollowsName
    BasicRunsOnNamedTable
    TrueMeansDone
    ErrorMeansFalse
    AnswerableNeverThrows
PROPERTIES
    AnswerableIsAnswered
    ImplementsSession
