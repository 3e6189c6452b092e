\* Two instances, requests of every form, failures and deaths, a comment changed at
\* any moment; a listing is cut at two rows.  It ends when the bounds are reached.
CONSTANTS
    Modules = {"m"}
    NoModule = "no module"
    Proxies = {"p", "q"}
    NoProxy = "no proxy"
    NoComment = "-"
    Comments = {"c"}
    Writers = {w1, w2}
    Requests <- SomeRequests
    ListLimit = 2
    MaxRequests = 4
    MaxFaults = 1
    MaxComments = 1
SPECIFICATION Spec
CHECK_DEADLOCK FALSE
SYMMETRY InstanceSymmetry
INVARIANTS
    TypeOK
    AcknowledgedStaysRegistered
    OneRegistrationPerInstance
    CommentSurvives
PROPERTIES
    RegistrationsOfOthersStay
