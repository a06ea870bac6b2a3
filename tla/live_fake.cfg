SPECIFICATION FairSpec
CONSTANTS
    o1 = o1
    o2 = o2
    u1 = u1
    u2 = u2
    Orders = {o1}
    Users = {u1, u2}
    BuyerOf <- OneBuyer
    Keys = {k1, k2}
    Handlers = {h1, h2}
    Worker = w
    Events <- Paid
    NoOrder = NoOrder
    NoKey = NoKey
    NoUser = NoUser
    NoEvent = NoEvent
    Provider = "fake"
    ReportedStatuses = {"pending"}
    MaxCrashes = 1
INVARIANT
    TypeOK
PROPERTIES
    UnpaidReservationEnds
    PaidIsServed
    
