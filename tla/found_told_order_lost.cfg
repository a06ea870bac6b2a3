SPECIFICATION Spec
CONSTANTS
    t1 = t1
    t2 = t2
    v1 = v1
    w1 = w1
    p1 = p1
    p2 = p2
    k1 = k1
    k2 = k2
    s1 = s1
    TelegramUsers = {}
    VkUsers = {v1}
    WhatsappUsers = {w1}
    Plans = {p1, p2}
    Servers = {s1, s2}
    Keys = {k1}
    Codes = {c}
    Handlers = {h1, h2}
    NoServer = NoServer
    NoKey = NoKey
    NoCode = NoCode
    NoMode = NoMode
    NoUser = NoUser
    NoTerms = NoTerms
    Provisioning <- AutoAndProxy
    BasePrice <- Prices
    PlanOf <- KeysOfP1
    Stock = {k1}
    Terms <- BothTerms
    Limits = {1}
    MinAmount = 90
    ServerMarkup = 0
    SuperkeyMarkup = 50
    Slots = {1}
    MaxOrders = 2
    Budgets <- ChatOnly
    MaxEdits = 0
    MaxCrashes = 0
SYMMETRY Symmetry
CHECK_DEADLOCK FALSE
INVARIANT
    ToldOrderExists
