SPECIFICATION VerdictSpec
CONSTANTS
    discovery = discovery
    totals = totals
    refunds = refunds
    advice = advice
    old = old
    new = new
    core = core
    cart = cart
    code = code
    m1 = m1
    m2 = m2
    Unscoped = Unscoped
    N = 4
    Check <- FourChecks
    Register <- TwoRegisters
    Servers <- AllServers
    ReqIds = {discovery, totals, refunds, advice}
    Versions = {old, new}
    Transports = {"rest"}
    Capabilities = {core, cart}
    ConfigKeys = {code}
    Mutations = {m1, m2}
    Reviewed = {old, new}
    CoreCap = core
INVARIANTS
    PassIsEarned
    RedIsReal
    ListedAsCounted
