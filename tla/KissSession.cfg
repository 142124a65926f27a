\* A 32-bit build; streams of frames in both directions, cut anywhere.
SPECIFICATION Spec
CONSTANTS
    Payloads <- MCFrames
    Noise <- MCNoise
    Packets <- MCPackets
    MaxFrames = 2
    MaxPackets = 2
    MaxChunk = 7
    UInt = 256
    Pointer = 256
INVARIANTS TypeOK FramesSurviveChunks ClientReadsEveryPacket
CHECK_DEADLOCK FALSE
