\* Reads that end anywhere: a header may come in two parts, the data after it.
SPECIFICATION FairSpec
CONSTANTS
    CallLen = 2
    Header = 3
    MaxData = 6
    DataLens = {1, 2}
    From <- MCFrom
    To <- MCTo
    Vias = {}
    PacketSizes = {1}
    MaxFrames = 3
    MaxPackets = 0
    MaxChunk = 6
PROPERTY ReturnsSizeOrZero
CHECK_DEADLOCK FALSE
