SPECIFICATION Spec
CONSTANTS
    u1 = u1
    u2 = u2
    c1 = c1
    q1 = q1
    q2 = q2
    q3 = q3
    x1 = x1
    x2 = x2
    Sessions = {x1, x2}
    Users = {u1, u2}
    Clients = {c1}
    Reqs = {q1, q2, q3}
    NoUser = NoUser
    NoCode = NoCode
    WrongCode = WrongCode
SYMMETRY Symmetric
CONSTRAINT Losses
CHECK_DEADLOCK FALSE
INVARIANTS
    TypeOK
    LoginsConfirmed
    CodeOwner
    SingleUse
    HeardCodesIssued
