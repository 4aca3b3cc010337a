\* The repository's own tests, and the loops against their reference definitions.
SPECIFICATION Spec
CONSTANTS
    Files <- TestFiles
    Suites <- AllSuites
    Complete <- TestSuites
\* Both test files come to their end.
CHECK_DEADLOCK FALSE
INVARIANTS
    TypeOK
    SuiteTakesEveryBranch
    ExpectsHold
