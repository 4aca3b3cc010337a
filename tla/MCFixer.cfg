\* Up to three fixes a pass, in up to two passes.
SPECIFICATION Spec
CONSTANTS
    letter = letter
    mark = mark
    Letters = {letter}
    BOM = mark
    Insertions <- AnyInsertion
    MaxPasses = 2
    MaxLength = 2
    MaxFixes = 3
INVARIANTS
    TypeOK
    FixedIsAllAtOnce
    LeftOutForAReason
PROPERTY
    PassesEnd
CHECK_DEADLOCK FALSE
