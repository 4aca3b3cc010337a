\* Two projects hold one file: the text of a call's program.
SPECIFICATION Spec
CONSTANTS
    P = P
    Q = Q
    a = a
    b = b
    Projects = {P, Q}
    Files = {a, b}
    Texts = {1, 2}
    Includes <- SharedIncludes
    Imports <- SharedImports
    Watched <- SharedWatched
    Requests <- BothRequest
    MaxEdits = 0
    NoInvalidation = FALSE
    Absent = Absent
    NotCached = NotCached
    Refused = Refused
    Threw = Threw
    Pending = Pending
INVARIANTS
    FreshText
