CONSTANTS
    Nodes = {n1, n2}
    Addrs = {a1, a2}
    Openers = {opencon}
    OpenCon = opencon
    OneShots = {a1}
    ConnectArgs = {a2}
    nMaxOutbound = 1
    nMaxInbound = 1
    NULL = NULL
SPECIFICATION FairSpec
INVARIANT NodesSafe
PROPERTY DisconnectHappens
