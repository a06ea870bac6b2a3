SPECIFICATION Spec
CONSTANTS
    germany = germany  deutschland = deutschland
    loop = loop  operator = operator  NoAnswer = NoAnswer
    Servers <- MCServers
    Locations <- MCLocations
    KeyOf <- MCKeyOf
    Loop = loop
    LocationOf <- MCOneName
    Operators <- MCOperators
    Panels <- MCPanels
    Default <- MCDefault
    Overrides <- MCOverrides
    LoopIsOpen = FALSE
    Interval = 1  Cooldown = 1  Window = 2
    MaxTime = 2  MaxEvents = 1
CHECK_DEADLOCK FALSE
INVARIANTS TypeOK CooldownHolds
PROPERTY AlertsAreFresh
