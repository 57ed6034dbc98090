SPECIFICATION LiveSpec
CONSTANTS
    Name = {n1, n2}
    Target = {n1}
    Managed = {n2}
    Handler = {h1, h2}
    MaxUser = 2
    MaxAddress = 3
    Span = 1
    Lockout = 2
    NoName = NoName
INVARIANTS
    TypeOK
    FailuresBounded
    LockHasCause
PROPERTIES
    LockoutEnds
