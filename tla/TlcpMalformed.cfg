CONSTANTS
    MaxEdits = 1
SPECIFICATION Spec
INVARIANT MalformedCompositeNeverFallsBack
CHECK_DEADLOCK FALSE
