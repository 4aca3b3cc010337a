\* Sessions of every kind over three files and two projects.
SPECIFICATION FairSpec
CONSTANTS
    Nothing = Nothing
    plain = plain
    own = own
    strange = strange
    One = One
    Two = Two
    Files <- ManyFiles
    Odd <- OddFiles
    Allowed <- AllowedFiles
    Limit = 1
    Throttle = 1
    Texts = {1, 2}
    Projects = {One, Two}
    Order <- TwoOrder
    Holds <- TwoHolds
INVARIANTS
    TypeOK
    TextIsCode
    RefusalIsCurrent
    ServedWithinLimit
PROPERTIES
    LimitSticks
    IncludedIsServed
