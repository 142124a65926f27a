\* The parallel port alone, with the default backend; no call fails.
SPECIFICATION Spec
CONSTANTS
    Modes = {"parallel"}
    Backends = {"portaudio"}
    ChannelCounts = {1}
    MaxFaults = 0
    BufFrames = 3
    MinBuffer = 3
    MaxWaiting = 1
INVARIANT ParallelPortIsKeyed
CHECK_DEADLOCK FALSE
