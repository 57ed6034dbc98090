SPECIFICATION Spec
CONSTANTS
    alice = alice
    bob = bob
    sally = sally
    i1 = i1
    k1 = k1
    User = {alice, bob, sally}
    Item = {i1}
    Key = {k1}
    OrderId = {o1, o2}
    Creator = {c1, c2}
    Mover = {m1}
    LockKey = {i1}
    LockOf <- MCLockOf
    SellerOf <- MCSellerOf
    Requests <- MCRequests
    Faults = FALSE
    SerialPerOrder = TRUE
    Calls = {}
    MaxCalls = 0
    MaxLog = 3
    NoOrder = NoOrder
    NoUser = NoUser
    NoRequest = NoRequest
    NoJob = NoJob
SYMMETRY Symmetry
PROPERTIES
    ReplayIsNotOversold
