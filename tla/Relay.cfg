\* Two decoders, the first lags behind; two packets may end in one buffer; clients
\* of both kinds come, go and toggle raw frames.
SPECIFICATION FairSpec
CONSTANTS
    NumDecoders = 2
    Buffering = {1}
    Crcs = {0, 2}
    MaxAir = 3
    MaxBatch = 2
    KissClients = {k1}
    AgwpeClients = {a1}
INVARIANTS TypeOK NothingStranded KissStreamIsSegment
           HeardIsDispatched RelayedOnce
PROPERTIES BroadcastSpec QueueIsFlushed
