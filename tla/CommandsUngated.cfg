SPECIFICATION Spec
CONSTANTS
    Programs <- MCAll
    MaxAttempts = 1
    MaxRoom = 1
INVARIANT WritesAreGated
CHECK_DEADLOCK FALSE
