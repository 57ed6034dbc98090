SPECIFICATION MessagesSpec
CONSTANTS
    userKey = userKey
    addressKey = addressKey
    Request = {c1, c2}
    Drafts <- MCDrafts
    UserOf <- MCUserOf
    AddressOf <- MCAddressOf
    MessageId = {x1, x2, x3, x4}
    MaxTries = 2
    NoMessage = NoMessage
    NoSender = NoSender
    Bucket = {userKey, addressKey}
    Burst <- MCBurst
    Period <- MCPeriod
    Idle = 2
    Window = 2
    NoBucket = NoBucket
SYMMETRY Symmetry
INVARIANTS
    MessagesTypeOK
    EveryRowIsAccountedFor
PROPERTIES
    ImplementsBuckets
