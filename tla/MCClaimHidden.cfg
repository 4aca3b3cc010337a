\* A function, its parameters and its body.
SPECIFICATION Spec
CONSTANTS
    x = x
    Names <- OneName
    Pragma = x
    LibTypes = {}
    LibValues = {}
    Kinds = {"function"}
    Directives = {FALSE}
    MaxSize = 6
    MaxScopes = 2
    MaxReferences = 1
INVARIANT
    BodyIsHidden
