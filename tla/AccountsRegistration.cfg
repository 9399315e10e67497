\* Registrations with and without invite codes, chats and the webhook on missing rows.
CONSTANTS
    u1 = u1
    u2 = u2
    u3 = u3
    Users = {u1, u2, u3}
    Existing = {u1, u3}
    Requests = {r1, r2}
    Handlers = {"chat", "register", "login", "webhook", "ensure", "crash"}
    Purchases <- RepeatedPurchase
    Costs = {0, 10000}
    Earnings = {}
    Adjustments <- UpAndDown
    Times = {0, 1}
    INITIAL_BONUS = 10000
    INVITER_REWARD = 20000
    INVITEE_REWARD = 10000
    MaxBalance = 20000
    MaxFractions = 0
    None = None
SPECIFICATION Spec
SYMMETRY Symmetry
INVARIANT ReferredOnce
PROPERTY RefinesPurchaseLedger
CHECK_DEADLOCK FALSE
