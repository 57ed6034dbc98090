SPECIFICATION LiveServerSpec
CONSTANTS
    Item = {i1}
    Value = {v1, v2}
    Rule = {x1}
    Reader = {r1}
    Seller = {s1}
    Admin = {a1}
    ListKey = ListKey
    RuleKey = RuleKey
    Last = 2
    Repeatable = {1}
    Undoes <- MCUndoes
INVARIANTS
    ServerTypeOK
    InvalidationIsEffective
    ModerationSurvives
    ServingIsMigrated
PROPERTIES
    StaleIsTransient
    BootsAgain
