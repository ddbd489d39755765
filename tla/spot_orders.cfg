\* Phase 1: two traders, three orders, positions locked for good.
SPECIFICATION Spec
CONSTANTS
    Traders = {t1, t2}
    Admin = admin
    Operators = {op1}
    MaxOrders = 3
    MinOrderUsdc = 20
    MaxOrderUsdc = 40
    Scale = 1
    U64 = 1000000
    MarketUsdcCap = 60
    UsdcAmounts = {20}
    ShareAmounts = {5}
    Prices = {2}
    FeeRates = {500}
    LockSettings = {TRUE}
    InitialUsdc = 40
SYMMETRY Symmetry
INVARIANTS
    TypeOK
    Solvent
    SweptWithinCollected
    PendingBuyRefundable
    EscrowMatchesOrders
    SupplyTracksCustody
    WalletMatchesOrders
    BooksMatchOrders
    PositionsLocked
