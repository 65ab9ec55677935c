SPECIFICATION Spec
CONSTANTS
    Texts <- MCTexts
    Short <- MCShort
    Long <- MCLong
INVARIANT
    RunningSkippedWasShown
CHECK_DEADLOCK FALSE
