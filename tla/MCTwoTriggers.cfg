\* Two triggers at the same time, edits and verifies at any moment.
SPECIFICATION Spec
CONSTANTS
    None = None
    Pending = Pending
    TornReport = TornReport
    MaxRuns = 2
    Coverages = {}
    NFiles = 1
    Subjects <- OverlapSubjects
    Overlap = TRUE
INVARIANTS
    
    SuccessReplacesEveryFile
