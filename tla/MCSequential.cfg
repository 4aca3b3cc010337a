\* Commands one after the other, runs killed anywhere, edits in between.
SPECIFICATION Spec
CONSTANTS
    None = None
    Pending = Pending
    TornReport = TornReport
    MaxRuns = 2
    Coverages = {c1}
    NFiles = 2
    Subjects <- SequentialSubjects
    Overlap = FALSE
INVARIANTS
    TypeOK
    NewestFirst
    CleanExitIsWholeBundle
    VerifiedIsCovered
    MeasuredNotAssumed
    TaxonomyMatchesSummary
    HundredMissesHalfAPercent
PROPERTIES
    RegisterSpec
