CONSTANTS
    k1 = k1
    k2 = k2
    c1 = c1
    c2 = c2
    d1 = d1
    d2 = d2
    d3 = d3
    NoMandate = NoMandate
    NoDeal = NoDeal
    Mandates = {k1, k2}
    Deals = {d1, d2, d3}
    AgentSide <- Buyer
    Price <- Flat
    Budget = 1
    MaxSingle = 1
    MaxOpen = 3
    Calls = {c1, c2}
    MaxEdits = 1
SPECIFICATION Spec
CHECK_DEADLOCK FALSE
CONSTRAINT EditsOfTheFirst
SYMMETRY Interchangeable
INVARIANTS
    ExposureIsBounded
    ChargedOnce
PROPERTIES
    EndedIsNotCharged
    AuthorizationIsFinal
