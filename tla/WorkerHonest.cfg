\* The RPC shows every log and the catch-up window spans the chain.
CONSTANTS
    u1 = u1
    u2 = u2
    Users = {u1, u2}
    Purchases <- TwinLogs
    BLOCK_CONFIRMATIONS = 1
    MAX_BLOCK_RANGE = 2
    RECEIPT_FALLBACK_BLOCK_RANGE = 1
    START_BLOCK = 0
    AUTO_CATCH_UP = TRUE
    AUTO_CATCH_UP_WINDOW = 5
    MAX_LAG_BEFORE_RESET = 2
    NodeLag = 1
    Gaps = FALSE
    MaxHeight = 5
    MaxFaults = 3
SPECIFICATION Spec
INVARIANTS TypeOK NothingMissed OnlyConfirmed
PROPERTY RefinesPurchaseLedger
CHECK_DEADLOCK FALSE
