\* Two sales race for a float that covers one of them.
SPECIFICATION Spec
CONSTANTS
    b1 = b1
    b2 = b2
    b3 = b3
    s1 = s1
    s2 = s2
    Buys = {}
    Sells = {s1, s2}
    Shares <- MCShares
    Escrow <- MCEscrow
    Headroom = 1
    Scenarios <- MCRace
INVARIANTS
    ShortFloatWaits
CHECK_DEADLOCK FALSE
