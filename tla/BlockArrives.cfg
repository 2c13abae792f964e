SPECIFICATION FairSpec
CONSTANTS
    p1 = p1
    p2 = p2
    g = g
    b1 = b1
    b2 = b2
    bad = bad
    Peers = {p1}
    Blocks = {g, bad}
    Zero = Zero
    hashPrevBlock <- GoodAndBad
    Checked = {g}
    Honest = {}
    Answering = {p1}
    nDoS <- Half
    BanScore = 100
    Retry = 2
    MaxDelay = 3
    MaxGate = 1
PROPERTY RequestsServed
