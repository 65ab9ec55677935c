SPECIFICATION Spec
CONSTANTS
    Texts <- MCTexts
    Short <- MCShort
    Long <- MCLong
INVARIANTS
    ReplyOnce
    NothingForgotten
PROPERTIES
    ShownInOrder
    TurnEnds
CHECK_DEADLOCK FALSE
