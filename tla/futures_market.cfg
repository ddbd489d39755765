\* Two traders, a shallow pool, coarse fees, each division with a remainder.
SPECIFICATION Spec
CONSTANTS
    Traders = {t1, t2}
    Admin = admin
    Operators = {op1}
    QuoteReserve = 100
    AnchorPrice = 1000000
    MaxLeverage = 3
    MaintenanceMarginBps = 3300
    TakerFeeBps = 500
    LiquidationFeeBps = 500
    MaxOiNotional = 60
    Amounts = {10}
    Notionals = {25}
    CloseBases = {0, 20}
    LimitPrices = {0, 1200000}
    SettlementPrices = {600000, 2000000}
    MaxOpens = 2
    MaxCollateral = 30
    MaxInsurance = 10
INVARIANTS
    TypeOK
    BooksMatchPositions
    PoolBalanced
PROPERTIES
    OnlyBankruptciesCost
    EntriesSafe
CHECK_DEADLOCK FALSE
