\* Two requests of one conversation at a time.
CONSTANTS
    r1 = r1
    r2 = r2
    Requests = {r1, r2}
    ToolKinds = {"safe", "wallet"}
    MultiRounds = 1
    MAX_PLAY_SEND_RETRIES = 1
    MaxUses = 1
    MaxTurns = 3
    MaxFaults = 1
SPECIFICATION Spec
INVARIANTS PromptsAnswered RunOnce CancelledNotRun
PROPERTY RefinesToolCalls
CHECK_DEADLOCK FALSE
SYMMETRY Symmetric
