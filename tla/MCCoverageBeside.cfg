\* A trigger beside two runs of npm run coverage, edits at any moment.
SPECIFICATION FairSpec
CONSTANTS
    None = None
    Pending = Pending
    TornReport = TornReport
    MaxRuns = 1
    Coverages = {c1, c2}
    NFiles = 2
    Subjects <- BesideSubjects
    Overlap = TRUE
INVARIANTS
    VerifiedIsFullInTaxonomy
PROPERTIES
    AnsweredRunEnds
