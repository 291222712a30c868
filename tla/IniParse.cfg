SPECIFICATION Spec
CONSTANTS
    Texts <- MCTexts
    KnownKeys <- MCKnown
    max_line = 8
    MaxName = 2
INVARIANTS
    TypeOK
    FilesRead
    KeptNameIsNearest
    BrokenLinesReported
CHECK_DEADLOCK FALSE
