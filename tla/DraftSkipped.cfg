SPECIFICATION Spec
CONSTANTS
    Texts <- MCTexts
    Short <- MCShort
    Long <- MCLong
INVARIANT
    SkippedWasShown
CHECK_DEADLOCK FALSE
