CONSTANTS
    Nodes = {n1, n2}
    Addrs = {a1}
    Openers = {opencon, addcon}
    OpenCon = opencon
    OneShots = {}
    ConnectArgs = {}
    nMaxOutbound = 2
    nMaxInbound = 1
    NULL = NULL
SPECIFICATION Spec
INVARIANT NeverWild
