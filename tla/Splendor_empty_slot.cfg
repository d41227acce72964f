CONSTANTS
    p1 = p1
    p2 = p2
    c1 = c1
    c2 = c2
    c3 = c3
    low = low
    high = high
    Order <- MCOrder
    Mines <- MCMines
    COPPER = c1
    GOLD = GOLD
    Coupons <- MCCoupons
    Slots <- MCSlots
    level <- MCLevel
    Allies <- MCAllies
    BankSize = 4
    GoldCount = 1
    TokenLimit = 3
    ReserveLimit = 1
    WinningReputation = 3
    EMPTY = EMPTY
    NOBODY = NOBODY
SPECIFICATION SpecWithEmptySlots
INVARIANTS
    ReservedIsNoGold
CHECK_DEADLOCK FALSE
