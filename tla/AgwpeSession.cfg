\* Reads that end anywhere; packets that fit raw_data and one that does not.
SPECIFICATION Spec
CONSTANTS
    CallLen = 2
    Header = 3
    MaxData = 6
    DataLens = {0, 2}
    From <- MCFrom
    To <- MCTo
    Vias <- MCVias
    PacketSizes = {5, 6}
    MaxFrames = 3
    MaxPackets = 1
    MaxChunk = 8
INVARIANTS TypeOK AtFrameBoundary HandledInOrder WholeFramesAreHandled
CHECK_DEADLOCK FALSE
