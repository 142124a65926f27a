\* Two channels, a buffer that is no multiple of them, waveforms shorter and
\* longer than it; both threads under fairness.
SPECIFICATION FairSpec
CONSTANTS
    Sizes = {1, 3}
    MaxSends = 5
    MaxQueue = 2
    Channels = 2
    BufSize = 3
INVARIANTS TypeOK BacklogBound NoOverrun ResumedWaveIsKeyed NotKeyedForNothing
PROPERTIES TransmitSpec EveryWaveIsPlayed TransmitterIsReleased
