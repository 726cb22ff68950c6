SPECIFICATION FairSpec
CONSTANTS
    Programs <- MCAll
    MaxAttempts = 3
    MaxRoom = 2
INVARIANT TypeOK
INVARIANT RefusedTouchesNothing
INVARIANT LostAnswersAmbiguous
INVARIANT ListedWritesSentOnce
INVARIANT InSessionUndoable
PROPERTY CommandsEnd
CHECK_DEADLOCK FALSE
