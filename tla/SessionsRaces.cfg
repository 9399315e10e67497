SPECIFICATION Spec
CONSTANTS
    Credentials = {c1}
    Requests = {r1, r2}
    Lifetime = 2
    MaxNow = 4
    MaxLogins = 2
SYMMETRY Symmetry
INVARIANTS TypeOK NotCutShort OneTokenPerLogin LogoutEndsLogin
CHECK_DEADLOCK FALSE
