SPECIFICATION Spec
CONSTANTS
    Descriptions <- MCDescriptions
    MaxEntries = 3
INVARIANTS
    TypeOK
    OptimisticIsLeast
    BestCaseIsBest
CHECK_DEADLOCK FALSE
