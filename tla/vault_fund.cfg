\* Two depositors, both fee timings, locked tokens.
SPECIFICATION Spec
CONSTANTS
    Holders = {h1, h2}
    Admin = admin
    Operators = {op1}
    DepositCap = 8
    MinDeposit = 2
    MaxDeposit = 5
    FeeBps = 2000
    FundingStart = 0
    FundingDeadline = 1
    CloseOutAt = 1
    UsdcAmounts = {5}
    ShareAmounts = {1, 3}
    Allocations = {5}
    Periods = {0, 1}
    LockSettings = {TRUE, FALSE}
    MaxTime = 1
    MaxUsdc = 13
SYMMETRY Symmetry
INVARIANTS
    TypeOK
    Solvent
    TokensCovered
    LimitsKept
    BooksMatchBuyers
    DeliveriesCovered
PROPERTIES
    SharesRelock
    FundSpec
CHECK_DEADLOCK FALSE
