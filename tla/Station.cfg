\* Every backend with every PTT driver, one channel and two; two calls fail.
SPECIFICATION FairSpec
CONSTANTS
    Modes = {"null", "serial", "serial_windows", "parallel", "gpio", "hamlib"}
    Backends = {"null", "loopback", "wave", "portaudio", "alsa"}
    ChannelCounts = {1, 2}
    MaxFaults = 2
    BufFrames = 3
    MinBuffer = 3
    MaxWaiting = 1
INVARIANTS TypeOK CallbacksFindTheModem LineFollowsTraffic EveryFrameIsHeard
PROPERTIES CaptureResumes
CHECK_DEADLOCK FALSE
