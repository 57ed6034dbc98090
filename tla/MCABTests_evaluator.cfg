SPECIFICATION LiveSpec
CONSTANTS
    t1 = t1
    t2 = t2
    t3 = t3
    n1 = n1
    n2 = n2
    Test = {t1, t2, t3}
    NameOf <- MCNameOf
    Admin = {a1}
    NoTest = NoTest
    MaxTime = 1
INVARIANTS
    TypeOK
    OneActivePerName
PROPERTIES
    EndedIsFinal
    OverdueTestsEnd
