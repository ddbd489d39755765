\* One holder who elects delivery for every token.
SPECIFICATION FairSpec
CONSTANTS
    Holders = {h1}
    Admin = admin
    Operators = {op1}
    DepositCap = 5
    MinDeposit = 0
    MaxDeposit = 0
    FeeBps = 2000
    FundingStart = 0
    FundingDeadline = 1
    CloseOutAt = 1
    UsdcAmounts = {3, 5}
    ShareAmounts = {1, 2, 4}
    Allocations = {5}
    Periods = {0, 1}
    LockSettings = {TRUE}
    MaxTime = 2
    MaxUsdc = 8
PROPERTIES
    FullyElectedConcludes
CHECK_DEADLOCK FALSE
