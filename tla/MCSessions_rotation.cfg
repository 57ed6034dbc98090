SPECIFICATION Spec
CONSTANTS
    User = {u1}
    Token = {t1, t2, t3, t4}
    Family = {f1, f2}
    Request = {r1, r2}
    NoUser = NoUser
    NoFamily = NoFamily
    NoToken = NoToken
SYMMETRY Symmetry
INVARIANTS
    TypeOK
    OneLivePerSession
    ClosedSessionsEnd
