SPECIFICATION Spec
CONSTANTS
    Texts <- MCTexts
    KnownKeys <- MCKnown
    max_line = 8
    MaxName = 2
INVARIANTS
    SuccessIsZero
CHECK_DEADLOCK FALSE
