SPECIFICATION Spec
CONSTANTS
    anna = anna  h1 = h1  h2 = h2  plan = plan
    k1 = k1  k2 = k2  k3 = k3  k4 = k4  old = old  base1 = base1
    west = west  westSlash = westSlash  east = east  nowhere = nowhere  Blank = Blank
    Operators <- MCOperators
    Handlers <- MCHandlers
    Plans <- MCPlans
    Fingerprints <- MCFingerprints
    KeyFiles <- MCKeyFiles
    ServerFiles <- MCServerFiles
    Bases <- MCBases
    Paths <- MCPaths
    Bare <- MCBare
    Reachable <- MCReachable
    InitialKeys = {old}
    InitialServers = {}
SYMMETRY MCSymmetry
INVARIANTS TypeOK NoPanelTwice ConnectedIsThere
