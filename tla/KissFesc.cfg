\* A 32-bit build; a frame that carries the byte FESC.
SPECIFICATION Spec
CONSTANTS
    Payloads <- MCPayloads
    Noise <- MCNoise
    Packets <- NoPackets
    MaxFrames = 2
    MaxPackets = 0
    MaxChunk = 7
    UInt = 256
    Pointer = 256
INVARIANT AnyDataIsReceived
CHECK_DEADLOCK FALSE
