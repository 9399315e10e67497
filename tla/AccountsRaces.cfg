\* One user, two unlocked requests of any kind, every locked handler.
CONSTANTS
    u1 = u1
    u2 = u2
    u3 = u3
    Users = {u1}
    Existing = {u1}
    Requests = {r1, r2}
    Handlers = {"chat", "admin"}
    Purchases <- OnePurchase
    Costs = {7525}
    Earnings = {5050, 20000}
    Adjustments <- CentAndABit
    Times = {0, 1}
    INITIAL_BONUS = 10000
    INVITER_REWARD = 20000
    INVITEE_REWARD = 10000
    MaxBalance = 20000
    MaxFractions = 1
    None = None
SPECIFICATION Spec
SYMMETRY Symmetry
INVARIANTS TypeOK ConsistentUnlessRaced SettledLedger
PROPERTY CooldownNeverShortened
CHECK_DEADLOCK FALSE
