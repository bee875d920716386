SPECIFICATION Spec
CONSTANTS
    RunsPage = 2
    HandsOff = TRUE
    Agendas <- MCAgendas
INVARIANTS
    ShippedIsProven
PROPERTIES
    SiteFollowsMain
    EvidenceStays
CHECK_DEADLOCK FALSE
