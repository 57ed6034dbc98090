SPECIFICATION LiveSpec
CONSTANTS
    i1 = i1
    l1 = l1
    l2 = l2
    Handler = {h1, h2, h3, h4}
    Item = {i1}
    LockKey = {l1, l2}
    LockOf <- MCLockOf
    Conns = 4
    Cancels = FALSE
    NoItem = NoItem
    NoHandler = NoHandler
PROPERTIES
    Answered
CHECK_DEADLOCK FALSE
