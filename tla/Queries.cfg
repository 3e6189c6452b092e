\* Up to three rows in any order, requests of every form and polls between them; the
\* default limit is below the number of rows and below the largest limit, as in the
\* code.
CONSTANTS
    Cams = {"c1", "c2"}
    AllCams = "*"
    NoCam = "no camera"
    Texts = {"plain", "limit", "order"}
    NoText = "no text"
    LimitTexts = {"limit"}
    OrderTexts = {"order"}
    NoTime = none
    Contents <- MCContents
    Requests <- MCRequests
    PollLimits = {0, 1}
    DefaultLimit = 1
    MaxLimit = 2
    MaxRows = 3
SPECIFICATION Spec
INVARIANTS
    TypeOK
    PollMissesOnlyLateAndTied
    NothingUnaskedIsShown
    LongAnswersAreAskedFor
PROPERTIES
    NothingIsPolledTwice
