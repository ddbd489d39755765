\* A shallow pool, no rounding on the way: the gain of one trader exceeds the margin of the other.
SPECIFICATION Spec
CONSTANTS
    Traders = {t1, t2}
    Admin = admin
    Operators = {op1}
    QuoteReserve = 100
    AnchorPrice = 1000000
    MaxLeverage = 8
    MaintenanceMarginBps = 500
    TakerFeeBps = 500
    LiquidationFeeBps = 500
    MaxOiNotional = 0
    Amounts = {40}
    Notionals = {100}
    CloseBases = {0}
    LimitPrices = {0}
    SettlementPrices = {1000000}
    MaxOpens = 2
    MaxCollateral = 80
    MaxInsurance = 40
PROPERTIES
    PayoutsBacked
CHECK_DEADLOCK FALSE
