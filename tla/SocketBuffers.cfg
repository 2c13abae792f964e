SPECIFICATION FairBuffers
CONSTANTS
    n1 = n1
    n2 = n2
    Nodes = {n1, n2}
    HdrLen = 1
    Sizes = {0, 2}
    MAX_SIZE = 2
    SendBufferSize = 2
    ReceiveFloodSize = 1
    Wire = 2
    ReadMax = 1
    Speakers = {n1}
    MaxPush = 3
CHECK_DEADLOCK FALSE
PROPERTIES Delivered StreamKept
