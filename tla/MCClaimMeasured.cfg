\* npm run coverage started while the trigger reads the summary.
SPECIFICATION Spec
CONSTANTS
    None = None
    Pending = Pending
    TornReport = TornReport
    MaxRuns = 1
    Coverages = {c1}
    NFiles = 1
    Subjects <- MissedSubjects
    Overlap = TRUE
INVARIANTS
    MeasuredNotAssumed
