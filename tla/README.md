# TLA+ for extmodem

extmodem is a software modem for 1200 baud AX.25 packet radio.  Audio threads
demodulate what the sound card hears and modulate what it plays; the main thread
serves TCP clients that speak KISS or AGWPE; a PTT line keys the radio.  These
modules model the parts of it where threads, callbacks, byte streams and object
lifetimes meet, check them with TLC on small instances, and prove with TLAPS, for
every instance, most of the safety properties of the transmit path, the air link, the
relay, the TCP, KISS and AGWPE sessions and the program as a whole.  Line numbers refer to
files in `src/src/`.

## The system

| component | state it keeps | operations | what is hard | what makes it correct |
|---|---|---|---|---|
| transmit queue and PTT (`encoder_af1200stj.cpp`) | `out_queue_`, `out_queue_ptr_`, the PTT, the waveform being rendered | `send()` on the main thread, `output_callback()` on the audio thread | two threads, four critical sections, the queue checked in one and filled in another | waveforms leave in order and complete, key before and release after, bounded queue, no write past the buffer |
| modulator (`encoder_af1200stj.cpp`) and deframer (`hdlc.cpp`) | tone, stuffing counter; last bits, byte and frame being assembled | `byteToSymbols()`, `rxbit()` | stuffing over byte and CRC boundaries, buffer limit, noise | a frame arrives once, as it was sent |
| packet relay (`extmodem.cpp`, `tcpserver.cpp`) | `last_packet_crc_`, `output_queue_`, handlers posted to the event loop | `input_callback()`, `dispatch_packet()`, `write_to_all_safe()`, `flush_output_queue()` | decoders that hear the same packet at different times; push and post are two steps; clients come and go | every packet heard is relayed, not twice, and none is stranded |
| TCP sessions (`tcpserver_base.cpp`) | three flags, the write queue, `clients_`, outstanding operations | accept, read, write and error handlers | sessions delete themselves; handlers hold a bare `this` | no use after deletion, no stalled stream, no leak |
| KISS (`kiss.cpp`, `tcpserver_kiss.cpp`) | `inbuff_` | encode, decode, reassembly, `write()` | TCP cuts the stream anywhere | frames survive in both directions |
| AGWPE (`tcpserver_agwpe.cpp`) | `inbuff_`, `want_raw_frames_` | decode loop, replies, `K`, `V`, `k` | the same, with lengths in headers | the decoder stays at frame boundaries and inside the buffer |
| AX.25 frames of `V` (`ax25_utils.cpp`) and their printing (`hdlc.cpp`, `frame.cpp`) | none | encode addresses and a frame; print one | the bit that ends the path, call signs and SSIDs that do not fit | what is read back is what was asked for |
| demodulators (`decoder_af1200*.cpp`) | filters, the bit clock and the sample buffer of mm, the last change of stj and fsk | `input_callback()` | symbols of a broken number of samples counted in integers; mm collects a second of samples and looks at every second one | every bit, and no other; no captured sample left out |
| audio backends (`audiosource_*.cpp`) | PCM or stream handles, the listener | two blocking loops (ALSA), driver callbacks (PortAudio), one loop for both directions (loopback, wave) | each thread may fail, restart or close handles under the other; `length` in frames or samples | no callback before or after the modem is there; captured audio comes back after an error |
| PTT drivers (`ptt*.cpp`) | `state_`, the line | `init()`, `set_tx()`, `get_tx()`, destruction | calls that fail unnoticed or throw; what is remembered is not what the line does | the line follows the traffic |
| start-up and end (`main.cpp`) | what is built so far | `main()` | threads run before the listener is set and after the modem is destroyed | everything is in place when it is called |

Calls run like this.  Audio thread: backend -> `modem::input_callback` ->
decoders -> `hdlc::rxbit` -> `modem::dispatch_packet` ->
`tcpserver::write_to_all_safe`, which posts `flush_output_queue` to the main
thread; and backend -> `modem::output_callback` -> `encoder::output_callback` ->
PTT.  Main thread: `io_service::run` -> session handlers -> protocol decoder ->
`modem::output_packet_to_sc` -> `encoder::send`; and `flush_output_queue` ->
`write_to_all` -> `write_raw`.  Shared between the threads are `out_queue_` with
the PTT and `output_queue_`, each under a mutex of its own.

## Modules

| module | models | how |
|---|---|---|
| `Transmitter` | what the transmit side promises | abstract: accept, sound, retire, be quiet |
| `Encoder` | `send()` and `output_callback()` | every block run under `out_queue_mutex_` is one action, and so is one sample of the copy loop; `audio` and `sender` say where each thread stands |
| `Crc`, `Hdlc` | CRC-CCITT; `hdlc::rxbit()` | bits and bytes are sequences; one disjunct of `RxBit` for each exit of the function |
| `Link`, `MCLink` | `send()`'s symbols, the tone decoding of the demodulators, `Hdlc` behind it | one symbol per step, over an ideal channel with noise between transmissions; the history variables `noisy` and `received` tell the frames that there is no noise in; EXTENDS `Selection` |
| `Broadcast` | what the receive side promises to the clients | abstract: announce, give out, come, go |
| `Relay` | from the decoders to the clients | the audio thread, the event loop and the clients interleave; a packet is its CRC |
| `AsioSession` | the sessions of one server | one handler is one action, since one thread runs them; the network completes operations in between, in any order |
| `Selection` | loops that go through a sequence and keep some of it | the elements at a set of positions, in order; a recursive function, where `SelectSeq` could not be proved about; used by `KissSession`, `AgwpeSession` and `Link` |
| `Kiss`, `KissSession`, `MCKissSession` | the codec; one client's two byte streams | reads of any length; the data is a few bytes, special ones included; EXTENDS `Selection` |
| `Ax25` | `encode_addr()`, `encode_frame_data_repeater_mode()`, what `ax25_print_packet()` reads of a frame | operators on sequences of octets; an address is its call sign and SSID; EXTENDS `Selection` |
| `AgwpeSession`, `MCAgwpeSession` | one client's stream, the frames composed for it, the packets passed on to it | bytes are positions in a stream of frames, header scaled to three bytes; one round of the decode loop is one action; EXTENDS `Ax25` |
| `Receiver` | bit timing, from `generateSymbolSamples()` to the bit counts of the three demodulators | one step is a run of equal symbols; the float phases of the encoder are exact fractions, with the rounding of ties left open (`late_tie`) |
| `Ptt` | the PTT drivers | one operator per driver for `init()` and for `set_tx()`; every device call may fail |
| `Modem` | `modem::input_callback()` and `output_callback()` as the backends see them | counts the samples of one channel through de-interleaving and the buffer of mm; of `Encoder` only how many frames wait and whether the key is looked at; EXTENDS `Ptt` |
| `AudioSource` | the five backends | one action per blocking call of a thread; EXTENDS `Modem` |
| `Station` | `main()` and all of these together | the main thread's steps interleave with the audio threads; EXTENDS `AudioSource` |

`Encoder_proofs`, `AsioSession_proofs`, `Relay_proofs`, `KissSession_proofs`,
`AgwpeSession_proofs`, `Link_proofs` and `Station_proofs` hold the theorems about the modules they are named
for; `Recursion` holds what the proofs need to reason by induction.  See Proofs.

Correspondence of state: variables carry the member's name where it has one
(`out_queue` is `out_queue_`, `waiting_read` is `waiting_read_`, ...).  Variables
marked "history" in their declarations exist for the properties only.  Three
modules have a variable `defined`, which turns FALSE when the code would use
memory that is not there; what the program does afterwards is undefined, so the
models stop there.

`MaxQueue` is the 5 of `send()`, `RxBufSize` the 1024 of `rxbuf`, `Header` the 36
bytes of an AGWPE header, `MaxData` the 512 of `raw_data`, `CallLen` the 6
characters of a call sign, `BufFrames` the 8192 of `--frames-per-buffer`,
`MinBuffer` the second of samples that mm collects, `UInt` and `Pointer` the ranges of `unsigned int` and of
a pointer difference.  The configurations scale them down; the code behaves the
same way for every value.

Operators with the comment "mutant" are not part of a model: each is a plausible
mistake in the definition that follows it, kept to show that the properties
notice it.

## Runs

| run | what it asks | bounds, and why they are enough |
|---|---|---|
| `Encoder` | bound of the queue, room of the buffer, keying, refinement of `Transmitter`, and liveness | 5 frames against a queue that drops beyond 3: every length is reached. Waveforms of 1 and 3 samples, a buffer of 3 elements, 2 channels: waveforms end inside, at the end of and beyond a buffer, and the buffer does not hold whole frames of the channels |
| `AsioSession` | deletion, streams, leak | 3 addresses, so two sessions live while a third listens and addresses are reused; 3 messages, so the queue holds more than one behind the message in flight |
| `Relay` | loss, order, duplicates and stranding, and refinement of `Broadcast` | 2 decoders, one lagging without bound; 3 transmissions, 2 of which may end in one buffer; CRCs 0 (what `last_packet_crc_` starts with) and another, so that packets alternate and repeat; a client of each protocol |
| `KissSession` | both KISS streams | 2 frames of 6 kinds, one of them without data, with and without noise before them, reads of 1 to 7 bytes: every cut of a frame and reads that span frames; 2 packets of up to two bytes of five kinds, the four special ones included |
| `Link` | frames arrive | 2 transmissions out of 45 frames, the empty one and those of one to three bytes chosen for their runs of ones (a flag, all ones, ones at either end), with their real CRC; a receive buffer of 4 bytes, filled and exceeded; up to 2 symbols of noise, which may end in the middle of a flag. The delays are the least the code can work with, two flags before and one behind, and one millisecond less of each |
| `AgwpeSession` | frame boundaries, order, effects, whole frames | 3 frames of all kinds, data of none and 2 bytes, reads of 1 to 8 bytes; `V` with no and with two repeaters, call signs that are shorter and longer than an address, SSIDs of 0, 15 and 17, a text that begins with a zero; a packet that just fits `raw_data` and one that does not |
| `Receiver` | no bit lost or added | all eight sample rates, whole and broken numbers of samples in a symbol; the clock of mm starts at eight phases and at an even or odd sample, and is to be locked after 6 flags (12 runs) of the 30 that the default `--tx-delay` sends; then runs of 1 to 7 symbols in any order, for ever: the state is finite, so transmissions have any length |
| `Station` | the program from start to end | every backend with every driver, so 30 programs; 1 and 2 channels, the followed one first or last of them; 2 failing calls, so that one thread's failure meets another's; buffers of 3 frames, odd so that mm's pairs never fit; 1 waiting frame, since the line only depends on whether there is one; `unheard` is counted up to `Lag`, more than the buffers ever hold |
| `KissFesc` | violated: a client may send any data | the shortest run submits one frame |
| `KissSplit` | violated: reads may cut frames on a 64-bit build | the first read ends inside the first frame |
| `AgwpeReturns` | violated: the decoder returns 0 on insufficient data, or else at least the size of every frame that is there | 3 frames: a header in two reads, and later a read that ends between header and data |
| `StationParallel` | violated: `--ptt-mode parallel` keys a transmitter | one backend, one channel, no failing call |

Four properties, one in each of the last four runs, state what the repository says of
the program, and TLC finds each violated by what the code does; the findings in
`PROJECT.json` quote the lines.  All other properties hold.  `CHECK_DEADLOCK FALSE` stands where a bound ends the
clients' input and nothing else is left to do: there the program waits as well.

What the passing runs say, beyond the names of the properties:

- `NoOverrun`: with a buffer of whole channel frames nothing is written past it;
  otherwise up to `Channels - 1` elements are.  `frames-per-buffer` is not checked
  against `out-chan` anywhere.
- `ResumedWaveIsKeyed`: the first buffer of a waveform may be played unkeyed (it
  is queued between the PTT check and the copy loop), later ones never.
- `OrphanedOnlyByLateWrite` and `ClosedSessionsAreDeleted`: `handle_write()` with
  success calls `start_write()` and never looks at `closing_`.  If a read error
  closed the session before and the queue is now empty, no handler is left to
  delete it.  This is the only leak.
- `HeardIsDispatched`: as long as each decoder judges a transmission before the next
  one ends, a packet is suppressed only for the CRC of the one dispatched last before
  it, whatever the decoders miss, or, if none was dispatched yet, for the CRC 0, which
  `last_packet_crc_` starts with.  When decoders lag it only says that the CRC is 0 or
  was dispatched at some time.
- `BroadcastSpec` hides the queue: `flushed`, what was dispatched and is not queued,
  is the count given out.  KISS clients are the loyal ones; an AGWPE client takes
  part while it has asked for raw frames, and misses what is flushed meanwhile.
- `RelayedOnce` needs each decoder to judge one transmission before the next one
  ends.  The mm decoder collects a second of samples; with A and B in that second
  the relay may pass A B A, and TLC finds it if the condition is taken out.
- `EveryFrameArrives`: with flags enough every frame that fits arrives, but an empty
  one, which the deframer takes for nothing (`hdlc.cpp:96` asks for more than the two
  bytes of the CRC); with fewer flags (`--tx-delay` below 14 ms or `--tx-tail` below
  7 ms) frames are lost.  `received` is what was dispatched with no noise in it: those
  are always frames that were sent, as they were.  What there is noise in may be
  anything, if there is enough of it; up to eight symbols are no frame with its CRC
  even together with a flag that they spoil, and then nothing else is dispatched.
- `WholeFramesAreHandled` names two exceptions: a `K` frame without data makes
  `dataLen - 1` the largest unsigned number, and `write()` copies a packet into
  `raw_data` without looking at its length, which `rxbuf` lets be 1022.
- `CallbacksFindTheModem` lists when a callback may come where it is not expected:
  ALSA's threads may run before `set_listener()`; so may the thread of loopback and
  wave, which reads the listener once and then uses a null pointer for ever; with
  two channels ALSA moves frames through buffers of as many samples; an ALSA
  thread that cannot prepare its handle closes both; and when the event loop throws,
  `main()` destroys the modem under the threads.  In all other states no audio
  thread enters the modem before it is complete.
- `LineFollowsTraffic` holds while the last call of the driver did its work.  When a
  call fails or the radio refuses it, every driver still remembers the new state and
  `get_tx()` returns it, so the callback does not try again: of the line after a
  failure nothing is promised.  The keying is stated for the drivers of a serial port, a
  gpio pin and a radio; the release for all of them.  The first buffer of a frame queued
  between the PTT check and the copy loop goes out unkeyed here as in `Encoder`.
- `LineFollowsTraffic` at the end: an encoder is destroyed as soon as `set_encoder()`
  has stored it, also when its PTT driver threw in `init()`; the driver then has no
  device, but for the parallel one, whose port may be claimed already.
  `unix_print_error()` always throws, so that no `return` behind it is reached, not even
  the `return 1` behind `PPDATADIR` (`ptt_serpar.cpp:227`).
- `ParallelPortIsKeyed`, which `StationParallel` refutes: `set_tx()` of the parallel
  port writes a zero right behind the state (`ptt_serpar.cpp:249-250`), so the port is
  at zero while the frame is played, with no call failing.  The option's help lists
  `parallel` with the modes that work a PTT (README.md:45, `extconfig.cpp:58`).
- `EveryFrameIsHeard`: mm keeps an odd sample for the next chunk, so nothing is left
  out, as long as `length` counts samples.  PortAudio and ALSA pass frames: with two
  channels, which is the default of `--in-chan`, half of every buffer is not heard.
- `CaptureResumes`: the recording thread restarts its handle until reading works,
  unless the playback failed: that thread's restart is of the capture handle, so the
  playback stays broken, its loop spins and drops the capture each time.
- `BitsAreRecovered`: mm needs 6 flags at 11025 Hz and fewer at the other rates.  It
  is stated for mm without jitter; with changes noticed a sample early or late at
  9600 Hz it loses bits however long the preamble.
- `ReturnsSizeOrZero`, which `AgwpeReturns` refutes, is a disjunction: a connection
  keeps `WaitsForWholeFrame` throughout or `NothingWholeIsLeft` throughout.  The comment
  at `tcpserver_agwpe.cpp:162` promises both, so the one behaviour that TLC finds, in
  which a whole frame is left in `inbuff_` and later data is copied that has not
  arrived, refutes both.  `WholeFramesAreHandled` is the other side: a client whose
  reads end where frames end never meets either problem.
- `HandledInOrder` is about the effects of the frames that were decoded whole; what
  is copied too early is seen by `ReturnsSizeOrZero` only.

Fairness.  `Encoder`: the sound driver asks for buffers for ever and the callback
blocks on nothing but the mutex, held for a few instructions (weak fairness of
the callback); `send()` finishes what it began.  `Relay`: `run()` is reached and
executes posted handlers, and `dispatch_packet()` returns; nothing is assumed of
the decoders, the clients or the air.  `AsioSession`: the event loop runs every
handler that is ready; nothing is assumed of the network, since closing the
socket completes the operations that wait.  `Station`: the recording thread (or
PortAudio's input callback) gets its turns, and a sound card asked for frames
delivers them or fails; nothing is assumed of `main()`, the playback or the clients.
`AgwpeSession` in the run `AgwpeReturns`: the decode loop is one call, which runs to its
end; without it the counterexample could be a program that stops inside the loop.

A comment in `output_callback` (`encoder_af1200stj.cpp:72`) says that the buffer
has `length * num_channels` elements.  The code fills `length`, and PortAudio's
callback passes frames times channels as `length`; the models follow the code.
`modem::input_callback` reads `audio_mult_factor` to choose a path and never
multiplies by it; `Modem` leaves it out.

## Proofs

Each module of proofs has one inductive invariant, `IInv`, proved by one lemma for
each action; the properties are conjuncts of it or follow from it.  Nothing is assumed
but the assumptions on the constants that the modules state.

`Encoder_proofs`, for all numbers of channels, buffer sizes, queue bounds, call counts
and positive waveform sizes (`EncoderAssumption`):

- `EncoderInvariant`: `IInv` is `TypeOK`, `BacklogBound`, `ResumedWaveIsKeyed`,
  `NotKeyedForNothing` and `Positions`, which says what each program point knows.  The
  listed invariants are not inductive alone: `BacklogBound` counts the waveform that
  `send()` has rendered but not queued; the key is safe only because, in the copy loop,
  the local `p` is still the front of the queue (no one but the audio thread pops), the
  position is inside it, and a waveform under way leaves the queue non-empty.
- `TypeCorrect`, `BacklogBounded`, `ResumedKeyed`, `KeyedForTraffic`: its parts.
- `BufferNotOverrun`: `NoOverrun`, by a second invariant (`OInv`): before every sample,
  if the buffer holds whole frames so does what is written.
- `EncoderImplementsTransmitter`: `Spec => TransmitSpec`.  Copying a sample is `Sound`,
  the pop is `Retire`, the padding is `Quiet`, the push is `Accept` (`BacklogBound` gives
  its guard), and all other steps leave the transmitter as it is.

`AsioSession_proofs`, for all sets of session addresses and numbers of messages:

- `SessionInvariant`: `IInv` is the safety properties together with `FlagsTell` (the
  flags `waiting_read_` and `waiting_write_` say exactly which handlers are due, which is
  what `on_error()` decides the deletion by) and `FreshUnused` (an address that is
  allocated anew carries nothing of the session that had it before).
- `TypeCorrect`, `HandlersAreSafe`, `ClientsStayLive`, `ClientsStayPumped`,
  `WriteBufferStays`, `NothingLostOrRepeated`: its parts.  No one of them is inductive
  without the others: that a client has a read outstanding keeps it from being deleted,
  and that the message in flight is the front of the queue keeps the stream whole.
- `LeakedOnlyByLateWrite`: the action property `OrphanedOnlyByLateWrite`.

`Relay_proofs`, for all numbers of decoders, CRCs, clients and batches:

- `RelayInvariant`: besides the properties, `IInv` says that `output_queue_` is the
  packets behind `flushed` (`QueueIsRest`), that a client has seen nothing while it is
  away (`JoinedBefore`), that `last_packet_crc_` is that of the last packet dispatched
  (`RemembersLast`), and that as long as no decoder ever had two transmissions to judge,
  all that waits to be judged is the last one (`AllJudgeTheLast`), which is why one
  remembered CRC is enough for `RelayedOnce` and for the second half of `HeardIsDispatched`.
- `TypeCorrect`, `NoPacketStranded`, `KissStreamComplete`, `HeardDispatched`, `NoRepeats`.
- `RelayImplementsBroadcast`: `Spec => BroadcastSpec`.  A dispatch is an announcement, a
  flush gives out all that was announced, step by step or as a stutter.

`AgwpeSession_proofs`, for all sizes of header and data, sequences of frames, packets and
cuts of the stream:

- `AgwpeInvariant`: besides `AtFrameBoundary` and `WholeFramesAreHandled` it says that
  between two reads the cursor is at the front of `inbuff_` (`CursorAtFront`), that a
  decoder that has read past the end stays there (`StuckInDecoder`), and that as long as
  reads end where frames end `inbuff_` is what the read delivered, the only case in
  which the length that the decoder is told is right (`ReadIsBuffer`).
- `TypeCorrect`, `DecoderAtBoundary`, `WholeFramesHandled`.  The lemmas on `Bytes` (the
  position of a frame in the stream) and `ComposeType` (what `encode_frame_data` makes
  of any call signs, repeaters and text is octets) are inductions.
- `FramesHandledInOrder`: `HandledInOrder`, by a second invariant, `Effects`, that holds
  along with the first.  To be inductive it has to say which octets were transmitted for
  each `V` frame (`OctetsAreComposed`) and what `want_raw_frames_` is after the `k`
  frames so far (`WantedAfterOdd`); that nothing behind a bad frame is handled
  (`NoneBad`) comes from `AtFrameBoundary`.  What `ax25_print_packet()` reads is then a
  matter of the frame alone, `PrintedIs`: it finds the addresses that
  `encode_frame_data_repeater_mode()` was given, cut to what an address holds and with
  seven-bit characters other than the space that pads them (`Legible`), and
  stops at the last one (`EncodedAddr`: the lowest bit of the seventh octet, and of no
  other, is set there), for any number of repeaters.

`Link_proofs`, for all frames of any bytes and length, delays, sizes of `rxbuf` and noise
between the transmissions (`LinkAssumption`, `HdlcAssumption`):

- `CrcIsGood`: bytes followed by the CRC computed for them pass the check.  The register
  after the data is left, by its own bits inverted, as a cleared register is by sixteen
  ones (`RestStep`), which does not depend on the data and is `CrcGood` (`SixteenOnes`).
- `LinkInvariant`: `IInv` relates both ends at every bit.  What is left to send is the
  end of a transmission (`RestIsTransmission`); ones are counted in data only
  (`StuffingIsOfData`); both ends remember the same tone from the first symbol on
  (`TonesAgree`, which noise breaks between transmissions and the first symbol mends);
  from the second flag on the receiver has heard the flag so far (`FlagIsHeard`), then
  the body so far with as many ones behind the last zero as the transmitter counts
  (`BodyIsHeard`), then the whole body and the closing flag so far
  (`ClosingFlagIsHeard`); and there is a place in what was dispatched for every frame
  whose closing flag is out (`FramesAreHeard`).  The last needs all the others: the
  sixth one of a flag is data to `rxbit()` until the zero comes.
- `TypeCorrect`, `DataTransparent`: its parts.
- `FramesHeard`: with flags enough every frame that is not empty and fits `rxbuf` is
  dispatched as it was sent, in order, by the time its closing flag is out.
- `FramesArrive`: `EveryFrameArrives` with flags enough, which adds that nothing else is
  received.  The second invariant, `Arrivals`, counts the bits that the receiver has put
  together since the last flag (`Assembled`).  Between transmissions it has the noise
  and no more (`NoiseIsShort`); the second flag is certain to be heard, so that at most
  the noise and two flags are put together before it (`PreambleIsShort`), which is less
  than the shortest frame as long as the noise is no more than eight symbols; of a body
  it has every bit, and gives up if they are too many (`BodyIsCounted`,
  `ClosingFlagIsCounted`); and flags behind a frame are nothing (`TailIsShort`).  So what
  is received is what was sent up to the last closing flag (`OnlyFramesAreReceived`).
  With too few flags the theorem says nothing, and for no flag before a frame at all
  `EveryFrameArrives` need not hold: the first bit of the data is then compared with
  whatever tone was heard before, and a stuffed zero no longer tells data from a flag.

`KissSession_proofs`, for all frames and packets of any bytes and length, noise without
FENDs, cuts of the stream and both widths of a pointer (`KissAssumption`), as long as a
frame and one read fit an `unsigned int` (`SizeAssumption`: 4 GB on every build, against
reads of 4096 bytes):

- `EncodeFends`, `DecodeOfEncode`, `StandardOfEncode`: the first and the last byte of an
  encoded frame are its only FENDs; `kiss_decode()` gives the data back, unless an FESC
  is in it, when it gives nothing; the rules of `kiss.cpp:44-62` always give it back.
  `Framed` tells which byte of the frame each byte of the data became.
- `Cut`: what one read makes of `inbuff_`.  With an even number of FENDs nothing is kept;
  with an odd one the rest from the last FEND on is, unless that is the first byte of
  the buffer and a pointer is wider than `unsigned int`.
- `KissInvariant`: a stream *carries* frames if its FENDs, paired off, enclose their
  encodings (`Carries`).  `IInv` says that `inbuff_` and the wire together carry the
  frames that were not read (`Upstream`), and `to_client` the packets (`Downstream`).
  Streams can be appended to (`CarriesMore`) and cut behind every second FEND
  (`CarriesSplit`).  `inbuff_` alone says nothing: whether its only FEND opens or closes
  a frame is known from what is still on the wire.  After the faulty read of `KissSplit`
  only what was submitted before is known.
- `TypeCorrect`, `FramesSurvive`, `ClientReads`.

`Station_proofs`, for all sets of backends, drivers and channel counts, buffer sizes and
numbers of faults:

- `StationInvariant`: besides the properties, what `main()` has built at each of its
  steps (`BuiltSoFar`), which threads each backend has (`ThreadsOfBackend`), that the
  decoder never lacks more than was captured (`PendingIsUnheard`), that the line is what
  the driver remembers while its calls work, or released if the driver is that of the
  parallel port (`LineIsState`), and that what it remembers follows the frames that wait
  (`StateFollowsTraffic`).
- `TypeCorrect`, `CallbacksAreSafe`, `FramesAreHeard`, `LineIsKeyedForTraffic`: its parts,
  the last with the scope of `LineFollowsTraffic`: keying by the serial, gpio and hamlib
  drivers, release by all;
  one lemma per driver says what `set_tx()` leaves behind, whatever fails in it.

Induction over data is done without the library's theorems that take an operator:
`UpTo` in `Recursion` says that a *set* that has 0 and with each number the next one has
all numbers up to n, and `RecursionDefines` that a recursive definition whose step is
given as a function has a function that it defines.  Both rest on the well-foundedness
of the natural numbers.

`Recursion` also holds what the proofs about sessions and link share on `Chosen`.

Only model-checked: liveness, since TLAPS reasons neither about fairness nor about
ENABLED here; `EveryFrameArrives` where the flags are too few; and `Receiver`.  Its
constants are those of the code, the eight rates and the three decoders, and its states
are finite though behaviours are not, so that the run leaves out no rate and no sequence
of symbols; what it fixes are the eight phases the clock of mm may begin with.

## Not modelled

The floating-point signal processing: filters, correlators, the choice of tables by
`decoder_af1200stj::init_state`, which takes those of the first rate for a rate it does
not know, and the samples mm correlates behind the end of a chunk
(`decoder_af1200mm.cpp:146`).  `Receiver` begins where a change of tone has been
noticed.  The DTMF decoder, which compares the powers of tones and prints what it
finds, and the debug decoder, which writes samples to files: no packet depends on
them.  `chebyshev_filter`, the lookup tables and `agc`, which is compiled out.
Configuration parsing and device listing.  The layout of printed packets and FlexNet
headers.  A `V` frame that announces more repeaters than it carries: `ndigi` is a
signed char taken from the data and only bounded by it, and the fields are read
wherever they lead (`tcpserver_agwpe.cpp:464`).

In `Station` the number of channels is the same for input and output, all of them are
enabled, and the PTT driver lives in one process with every backend, though some
exist on one system only.  The latency of a sound card is not modelled: the key is
released when the last samples are handed over, not when they are heard.

What a KISS client gets that shares one FEND between frames: the pairing of FENDs in
`tcpserver_kiss.cpp:48-83` is then out of step for good, but nothing in the
repository promises otherwise.  Memory growth of `out_data_queue_` for a client
that does not read.

## Plan

Done, in this order: `Transmitter`, `Encoder` and its proofs; `AsioSession`; `Relay`;
`Kiss*`; `Crc`, `Hdlc`, `Link`; `AgwpeSession`; `Ptt`, `Modem`, `AudioSource`, `Station`;
`Receiver`; `Ax25` and the rest of `AgwpeSession`; the delays of `Link`; the proofs about
`Station`, `AsioSession`, `Relay`, `AgwpeSession`, `Link` and `KissSession`; then those of
`HandledInOrder`, with the lemmas about `Ax25`, and of all of `EveryFrameArrives`.  Left is
`Receiver`: for stj and fsk the bounds of a run of symbols by arithmetic, for any sample
rate.
