------------------------------ MODULE Receiver ------------------------------
(***************************************************************************)
(* Bit timing from one sound card to the other.  The encoder cuts a        *)
(* transmission into symbols that are no whole number of samples long; the *)
(* three decoders find out, in integers and each in its own way, how many  *)
(* symbols lie between two changes of the tone.  One step is such a run of *)
(* equal symbols.  The filters and correlators are left out but for when   *)
(* they show a change: stj and fsk may notice it too early or too late, mm *)
(* notices it always equally late.                                         *)
(***************************************************************************)
EXTENDS Integers

CONSTANTS
    Rates,      \* values of --sample-rate
    Decoders,   \* "mm", "stj", "fsk"
    Phases,     \* BOUND: where the noise before may have left the phase of mm
    SyncRuns    \* runs of flags that mm needs, two for each flag

ASSUME ReceiverAssumption ==
    /\ Rates \subseteq {9600, 12000, 11025, 16000, 22050, 24000, 44100, 48000}
    /\ Decoders \subseteq {"mm", "stj", "fsk"}
    /\ Phases \subseteq 0..65535
    /\ SyncRuns \in Nat \ {0}

VARIABLES
    rate,       \* sample_rate_, of both stations
    decoder,    \* the decoder that listens
    late_tie,   \* how the floats of this rate round: a symbol that ends on a
                \*   sample may take this sample too
    tx_phase,   \* tx_symbol_phase, with rate for 2 pi: 1200 each sample
    runs,       \* history: runs of this transmission, counted up to SyncRuns
    off,        \* samples between a change and its detection, more or less
    sphase,     \* of mm: the phase of its bit clock
    skip,       \* and the samples to its next look, at every second one
    surplus     \* history: bits the last run gave, minus its symbols

station == <<rate, decoder, late_tie>>
vars == <<station, tx_phase, runs, off, sphase, skip, surplus>>

Baud == 1200
SpbOf(r) == r \div Baud              \* samples_per_bit
SphaseInc == (65536 * Baud * 2) \div rate

\* What the noise or silence before a transmission leaves behind.
Clocks == IF decoder = "mm" THEN Phases ELSE {0}
Skips == IF decoder = "mm" THEN 0..1 ELSE {0}

Init == /\ rate \in Rates /\ decoder \in Decoders /\ late_tie \in BOOLEAN
        /\ tx_phase = 0 /\ runs = 0 /\ off = 0 /\ surplus = 0
        /\ sphase \in Clocks /\ skip \in Skips
-----------------------------------------------------------------------------
\* generateSymbolSamples(), n times: samples are added until the phase of each
\* symbol is full, and its excess is left to the next.
Samples(n) ==
    LET room == n * rate - tx_phase
    IN IF late_tie THEN room \div Baud + 1 ELSE (room + Baud - 1) \div Baud

Transmit(n) == tx_phase' = tx_phase + Baud * Samples(n) - n * rate

\* Flags come first, 01111110: runs of seven symbols and of one.  Behind them
\* stuffing leaves no longer ones.
RunLengths == IF runs = SyncRuns THEN 1..7 ELSE IF runs % 2 = 0 THEN {7} ELSE {1}

\* An eighth of a symbol, before or after.
Jitter == SpbOf(rate) \div 8
-----------------------------------------------------------------------------
\* decoder_af1200stj: the samples between two changes of the sign, in symbols
\* of a whole number of samples, rounded; so many ones, the last one a zero.
StjTruncates(samples) == samples \div SpbOf(rate)                   \* mutant
StjSymbols(samples) == (2 * samples + SpbOf(rate)) \div (2 * SpbOf(rate))

\* decoder_af1200fsk: the same with symbols as long as they are.
FskSymbols(samples) == (2 * samples * Baud + rate) \div (2 * rate)

\* A run too short to be a symbol still gives the zero.
BitsFor(symbols) == IF symbols = 0 THEN 1 ELSE symbols

Measure(n) ==
    /\ off' \in -Jitter..Jitter
    /\ LET samples == Samples(n) + off' - off
           symbols == IF decoder = "stj" THEN StjSymbols(samples) ELSE FskSymbols(samples)
       IN surplus' = BitsFor(symbols) - n
    /\ UNCHANGED <<sphase, skip>>

\* decoder_af1200mm: every second sample the bit clock advances by what makes
\* it wrap once in a symbol, and a bit is read when it does; a change of the
\* tone draws it to wrap half a symbol later.
Drawn(phase) ==
    IF phase < 32768 - SphaseInc \div 2 THEN phase + SphaseInc \div 8
                                        ELSE phase - SphaseInc \div 8

Unwrapped(phase) == phase                                           \* mutant
Wrapped(phase) == phase % 65536

Clock(n) ==
    LET looks == (Samples(n) - skip + 1) \div 2
        advanced == Drawn(sphase) + looks * SphaseInc
    IN /\ sphase' = Wrapped(advanced)
       /\ surplus' = advanced \div 65536 - n
       /\ skip' = skip + 2 * looks - Samples(n)
       /\ UNCHANGED off
-----------------------------------------------------------------------------
\* A run of n equal symbols, up to the change behind it.
Run(n) ==
    /\ Transmit(n)
    /\ IF decoder = "mm" THEN Clock(n) ELSE Measure(n)
    /\ runs' = (IF runs < SyncRuns THEN runs + 1 ELSE runs)
    /\ UNCHANGED station

\* The transmission ends and, after whatever is heard between, send() begins
\* another.
Again ==
    /\ runs = SyncRuns
    /\ tx_phase' = 0 /\ runs' = 0 /\ off' = 0 /\ surplus' = 0
    /\ sphase' \in Clocks /\ skip' \in Skips
    /\ UNCHANGED station

Next == (\E n \in RunLengths : Run(n)) \/ Again

Spec == Init /\ [][Next]_vars
-----------------------------------------------------------------------------
\* Every variable has its type; the clock of mm, an unsigned integer, neither
\* falls below zero nor runs more than once around between two looks.
TypeOK ==
    /\ rate \in Rates /\ decoder \in Decoders /\ late_tie \in BOOLEAN
    /\ tx_phase \in 0..Baud /\ runs \in 0..SyncRuns
    /\ off \in -Jitter..Jitter
    /\ sphase \in 0..65535 /\ skip \in 0..1
    /\ SphaseInc < 65536 /\ surplus \in Int

\* stj and fsk need one change to measure from, mm has to find the phase.
Settled == runs = SyncRuns \/ (decoder # "mm" /\ runs > 0)

\* No symbol is lost or heard twice, however long the transmission: though a
\* symbol has 9.1875 samples at 11025 Hz where stj counts 9, though changes are
\* seen an eighth of a symbol off, and though the clock of mm, a bit slow by its
\* rounded increment, starts anywhere and looks at every second sample only.
BitsAreRecovered == Settled => surplus = 0
=============================================================================
