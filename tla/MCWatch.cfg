\* Two projects, one of which watches the other's folder; anything is changed at any moment.
SPECIFICATION Spec
CONSTANTS
    P = P
    Q = Q
    a = a
    b = b
    Projects = {P, Q}
    Files = {a, b}
    Texts = {1, 2}
    Includes <- TwoIncludes
    Imports <- NoImports
    Watched <- TwoWatched
    Requests <- BothRequest
    MaxEdits = 1
    NoInvalidation = FALSE
    Absent = Absent
    NotCached = NotCached
    Refused = Refused
    Threw = Threw
    Pending = Pending
INVARIANTS
    TypeOK
    FreshText
PROPERTY
    GivesUpRightly
