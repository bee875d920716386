SPECIFICATION Spec
CONSTANTS
    t1 = t1
    t2 = t2
    t3 = t3
    t4 = t4
    s1 = s1
    k1 = k1
    c1 = c1
    apple = apple
    plum = plum
    ghost = ghost
    None = None
    Threads = {t1, t2, t3, t4}
    Seeds = {s1}
    Keys = {k1}
    Contents = {apple, plum}
    BadContents = {ghost}
    Carts = {c1}
    CartLines <- AppleCart
    Menu <- OrderMenu
PROPERTIES
    CompletedIsImmutable
