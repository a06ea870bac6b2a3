SPECIFICATION Spec
CONSTANTS
    h1 = h1
    h2 = h2
    m1 = m1
    m2 = m2
    s1 = s1
    x1 = x1
    a1 = a1
    b1 = b1
    A = A
    B = B
    NoOrder = NoOrder
    NoServer = NoServer
    NoAccess = NoAccess
    Sessions = {h1, h2}
    Servers = {a1, b1}
    Countries = {A}
    CountryOf <- OneCountry
    Orders = {m1, m2}
    ModeOf <- TwoMtproxy
    ChosenServer <- NoneChosen
    MarkerPrefixes <- MtproxyPrefix
    MaxReplacements = 1
    MaxFaults = 1
    MaxCrashes = 0
    MaxToggles = 0
SYMMETRY AnyOfBoth
INVARIANTS TypeOK KeyInForce FirstLinksRecorded PaidIsInHand
CHECK_DEADLOCK FALSE
