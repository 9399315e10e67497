\* One request at a time: a client that waits for each reply.
CONSTANTS
    r1 = r1
    r2 = r2
    Requests = {r1}
    ToolKinds = {"safe", "wallet", "multi"}
    MultiRounds = 2
    MAX_PLAY_SEND_RETRIES = 2
    MaxUses = 2
    MaxTurns = 5
    MaxFaults = 2
SPECIFICATION Spec
INVARIANTS TypeOK PromptsMatched LogFollowsSession PaymentsBounded
CHECK_DEADLOCK FALSE
