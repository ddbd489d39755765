\* The desk, the vault driver, and both together.
SPECIFICATION OrchestratorSpec
CONSTANTS
    b1 = b1
    b2 = b2
    b3 = b3
    s1 = s1
    s2 = s2
    Buys = {b1, b2, b3}
    Sells = {s1}
    Shares <- MCShares
    Escrow <- MCEscrow
    Headroom = 1
    Scenarios <- MCAllScenarios
    Deals <- MCDeals
    Together <- MCTogether
SYMMETRY Symmetry
INVARIANTS
    TypeOK
    TokensBacked
    FilledNeverDropped
    HoldsEndWithIntents
    BooksMatchAlone
    PhaseFollowsFact
    ChainEscrowBooked
CHECK_DEADLOCK FALSE
