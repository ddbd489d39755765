\* Rates, operators and locks change; holders trade while the lock is off.
SPECIFICATION Spec
CONSTANTS
    Traders = {t1, t2}
    Admin = admin
    Operators = {op1, op2}
    MaxOrders = 2
    MinOrderUsdc = 20
    MaxOrderUsdc = 0
    Scale = 10
    U64 = 1000000
    MarketUsdcCap = 40
    UsdcAmounts = {20}
    ShareAmounts = {5}
    Prices = {38}
    FeeRates = {0, 500, 501}
    LockSettings = {TRUE, FALSE}
    InitialUsdc = 20
SYMMETRY Symmetry
PROPERTIES
    OrdersKeepTheirTerms
    OrdersRelock
    EscrowSpec
