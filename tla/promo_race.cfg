SPECIFICATION Spec
CONSTANTS
    t1 = t1
    t2 = t2
    v1 = v1
    w1 = w1
    p1 = p1
    p2 = p2
    k1 = k1
    k2 = k2
    s1 = s1
    TelegramUsers = {t1, t2}
    VkUsers = {}
    WhatsappUsers = {}
    Plans = {p1}
    Servers = {}
    Keys = {k1, k2}
    Codes = {c}
    Handlers = {h1, h2}
    NoServer = NoServer
    NoKey = NoKey
    NoCode = NoCode
    NoMode = NoMode
    NoUser = NoUser
    NoTerms = NoTerms
    Provisioning <- OnlyKeys
    BasePrice <- PriceOfP1
    PlanOf <- KeysOfP1
    Stock = {k1}
    Terms <- OneTerms
    Limits = {1, 2}
    MinAmount = 90
    ServerMarkup = 0
    SuperkeyMarkup = 50
    Slots = {1}
    MaxOrders = 2
    Budgets <- Buyers
    MaxEdits = 2
    MaxCrashes = 1
SYMMETRY Symmetry
CHECK_DEADLOCK FALSE
INVARIANTS
    UsesAreCounted
    OneKeyEach
PROPERTIES
    ImplementsShop
