\* Programs of a few scopes, definitions and references.
SPECIFICATION Spec
CONSTANTS
    x = x
    Names <- OneName
    Pragma = x
    LibTypes = {}
    LibValues = {}
    Kinds <- SomeKinds
    Directives = {FALSE}
    MaxSize = 6
    MaxScopes = 4
    MaxReferences = 1
INVARIANTS
    TypeOK
    ResolvesToNearest
    NothingIsLost
    ThroughIsOutside
    ImplicitIsUndeclared
    PragmaIsUsed
PROPERTY
    SettledForGood
