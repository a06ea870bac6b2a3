SPECIFICATION Spec
CONSTANTS
    o1 = o1
    o2 = o2
    u1 = u1
    u2 = u2
    Orders = {o1, o2}
    Users = {u1, u2}
    BuyerOf <- TwoBuyers
    Keys = {k1, k2, k3}
    Handlers = {h1, h2}
    Worker = w
    Events = {}
    NoOrder = NoOrder
    NoKey = NoKey
    NoUser = NoUser
    NoEvent = NoEvent
    Provider = "donate_stream"
    ReportedStatuses = {"pending"}
    MaxCrashes = 1
SYMMETRY Symmetry
INVARIANTS
    KeyOrderLink
    SoldOnce
    SaleIsQueued
    PaidBeforeKey
    ClosedHoldsNothing
PROPERTIES
    ImplementsLedger
    SoldForever
