\* The transport server cannot be created; everything else goes well.
CONSTANT
    MayFail = {"transport"}
SPECIFICATION Spec
CHECK_DEADLOCK FALSE
INVARIANT
    FailedStartExits
