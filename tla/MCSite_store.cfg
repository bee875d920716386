SPECIFICATION Spec
CONSTANTS
    p1 = p1
    p2 = p2
    p3 = p3
    p4 = p4
    alice = alice
    bob = bob
    boss = boss
    shop = shop
    Site = Site
    Absent = Absent
    Null = Null
    None = None
    Requests = {p1, p2, p3, p4}
    Users = {alice, bob, boss}
    Members = {alice, boss}
    SuperAdmins = {boss}
    Domains = {shop}
    IndexCap = 1
    DomainCap = 1
    AuditCap = 2
    ListLimit = 1
    MaxAttempts = 1
    MaxFailures = 1
    Fresh = {TRUE, FALSE}
    Plans <- SitePlans
INVARIANTS
    LostOnlyToOverlap
    NeverOvercounted
    EndedTokenIsDead
