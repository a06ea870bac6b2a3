SPECIFICATION Spec
CONSTANTS
    h1 = h1
    h2 = h2
    m1 = m1
    m2 = m2
    s1 = s1
    x1 = x1
    a1 = a1
    b1 = b1
    A = A
    B = B
    NoOrder = NoOrder
    NoServer = NoServer
    NoAccess = NoAccess
    Sessions = {h1, h2}
    Servers = {a1, b1}
    Countries = {A, B}
    CountryOf <- TwoServers
    Orders = {s1, x1}
    ModeOf <- ServerAndSuperkey
    ChosenServer <- A1Chosen
    MarkerPrefixes <- Prefix
    MaxReplacements = 0
    MaxFaults = 1
    MaxCrashes = 1
    MaxToggles = 1
SYMMETRY AnySession
INVARIANTS OneUserPerSession ServedInCountry SuperkeyWhole
CHECK_DEADLOCK FALSE
