SPECIFICATION Spec
CONSTANTS
    p1 = p1
    p2 = p2
    p3 = p3
    p4 = p4
    p5 = p5
    web = web
    app = app
    read = read
    manage = manage
    admin = admin
    v1 = v1
    v2 = v2
    None = None
    Requests = {p1, p2, p3, p4, p5}
    Clients = {web, app}
    Tester = web
    Stranger = Stranger
    AllScopes = {read, manage, admin}
    Vocabulary = {read, manage}
    Verifiers = {v1, v2}
    RequirePKCE = TRUE
    Aging = {p1, p2}
    Menu <- GrantMenu
INVARIANTS
    RevocationHolds
    TokensKeepTheirConsent
    ServedWithConsent
