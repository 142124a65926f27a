\* A 64-bit build: pointer differences are wider than unsigned int.
SPECIFICATION Spec
CONSTANTS
    Payloads <- MCPayloads
    Noise <- MCNoise
    Packets <- NoPackets
    MaxFrames = 2
    MaxPackets = 0
    MaxChunk = 7
    UInt = 256
    Pointer = 65536
INVARIANT SplitFramesAreReceived
CHECK_DEADLOCK FALSE
