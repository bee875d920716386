SPECIFICATION Spec
CONSTANTS
    t1 = t1
    t2 = t2
    t3 = t3
    c1 = c1
    c2 = c2
    k1 = k1
    o1 = o1
    key = key
    apple = apple
    plum = plum
    None = None
    Threads = {t1, t2, t3}
    CartSeeds = {c1, c2}
    CheckoutSeeds = {k1}
    SeedCart <- SalesSeedCart
    OrderSeeds = {o1}
    Keys = {key}
    Bodies = {apple, plum}
    Quantity = 3
    Subscribed = {t1, o1}
    Retries = 1
    Versions = {"01-era", "04-08"}
    Menu <- SalesMenu
INVARIANTS
    KeysAnswerOnce
    OpenConversionIsReused
    ConversionsCarryTheCart
    LedgerAgrees
    OrderedUnlessRetried
    FinalStateAnnounced
