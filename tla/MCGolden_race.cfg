SPECIFICATION Spec
CONSTANTS
    p1 = p1
    p2 = p2
    p3 = p3
    s1 = s1
    s2 = s2
    k1 = k1
    k2 = k2
    rose = rose
    lily = lily
    None = None
    Requests = {p1, p2, p3}
    Seeds = {s1, s2}
    Keys = {k1, k2}
    Items = {rose, lily}
    MaxQty = 2
    MaxCrashes = 1
    Menu <- RaceMenu
    InitStock <- Stock
    SeedCheckouts <- RaceCheckouts
    SeedCarts <- NoCarts
SYMMETRY Symmetry
INVARIANTS
    Consistent
    StockConserved
    EffectHasRecord
    AnnouncedOnce
    RetriesAgree
    AnswersHold
PROPERTIES
    ImplementsShop
