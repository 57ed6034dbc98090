SPECIFICATION LiveSpec
CONSTANTS
    i1 = i1
    l1 = l1
    l2 = l2
    Handler = {h1, h2, h3}
    Item = {i1, i2, i3}
    LockKey = {l1, l2}
    LockOf <- MCLockOf
    Conns = 4
    Cancels = TRUE
    NoItem = NoItem
    NoHandler = NoHandler
INVARIANTS
    TypeOK
    ReportFindsConnection
PROPERTIES
    Answered
