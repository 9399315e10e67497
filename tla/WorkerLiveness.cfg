\* The RPC may withhold logs, and the catch-up window is shorter than the chain.
\* Errors and crashes stop after MaxFaults of them.
CONSTANTS
    u1 = u1
    u2 = u2
    Users = {u1, u2}
    Purchases <- TwoPurchases
    BLOCK_CONFIRMATIONS = 1
    MAX_BLOCK_RANGE = 2
    RECEIPT_FALLBACK_BLOCK_RANGE = 1
    START_BLOCK = 0
    AUTO_CATCH_UP = TRUE
    AUTO_CATCH_UP_WINDOW = 1
    MAX_LAG_BEFORE_RESET = 1
    NodeLag = 0
    Gaps = TRUE
    MaxHeight = 4
    MaxFaults = 3
SPECIFICATION FairSpec
INVARIANTS NoPurchaseSkipped
PROPERTY EventuallyCredited
CHECK_DEADLOCK FALSE
