\* play_hash_mahjong, with errors of the RPC.
CONSTANTS
    r1 = r1
    r2 = r2
    Requests = {r1}
    ToolKinds = {"play"}
    MultiRounds = 1
    MAX_PLAY_SEND_RETRIES = 3
    MaxUses = 1
    MaxTurns = 3
    MaxFaults = 2
SPECIFICATION Spec
INVARIANT OnePaymentPerRound
CHECK_DEADLOCK FALSE
