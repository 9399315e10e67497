SPECIFICATION Spec
CONSTANTS
    r1 = r1
    r2 = r2
    w1 = w1
    w2 = w2
    None = None
    Absent = Absent
    Requests <- MCRequests
    Wallets <- TwoWallets
    Names <- OneName
    Legacy = {0}
    MaxCeremonies = 2
    Edited = {0}
INVARIANTS TypeOK SessionHasUser AnswersMatchRow SameNameOnlyIfOverlapped
PROPERTY WalletKept
SYMMETRY Symmetry
CHECK_DEADLOCK FALSE
