\* A tree of three directories, inferred and given roots, tsconfigs that come and go.
SPECIFICATION Spec
CONSTANTS
    Infinity = Infinity
    Nothing = Nothing
    r = r
    p = p
    q = q
    Dirs <- TreeDirs
    AtOrAbove <- TreeAbove
    Length <- TreeLength
    Cwd = r
    Roots <- TreeRoots
    Candidates <- TreeConfigs
    Lifetimes = {0, 2}
    MaxTime = 3
    MaxChanges = 1
INVARIANTS
    TypeOK
    NotFoundIsTrue
    StableAnswers
    IdleMeansFresh
    GlobSettles
