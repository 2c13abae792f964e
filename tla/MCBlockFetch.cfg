SPECIFICATION Spec
CONSTANTS
    p1 = p1
    p2 = p2
    g = g
    b1 = b1
    b2 = b2
    bad = bad
    Peers = {p1, p2}
    Blocks = {b1, b2}
    Zero = Zero
    hashPrevBlock <- Children
    Checked = {b1, b2}
    Honest = {p1}
    Answering = {p1}
    nDoS <- NoPenalty
    BanScore = 40
    Retry = 1
    MaxDelay = 1
    MaxGate = 1
INVARIANT HonestUnpunished
PROPERTY AncestorsAsked
