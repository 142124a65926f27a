\* Two transmissions of frames that fit a receive buffer of four bytes or exceed
\* it, noise before and between them.
SPECIFICATION Spec
CONSTANTS
    Frames <- MCFrames
    RxBufSize = 4
    Delays <- MCDelays
    MaxFrames = 2
    MaxNoise = 2
INVARIANTS TypeOK EveryFrameArrives DataIsTransparent
CHECK_DEADLOCK FALSE
