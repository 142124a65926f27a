\* Sample rates with whole and with broken numbers of samples in a symbol.
SPECIFICATION Spec
CONSTANTS
    Rates = {9600, 11025, 12000, 16000, 22050, 24000, 44100, 48000}
    Decoders = {"mm", "stj", "fsk"}
    Phases = {0, 8192, 16384, 24576, 32768, 40960, 49152, 57344}
    SyncRuns = 12
INVARIANTS TypeOK BitsAreRecovered
