------------------------------- MODULE Modem -------------------------------
(***************************************************************************)
(* The audio callbacks of the modem as the sound backends see them,        *)
(* src/src/extmodem.cpp: input_callback() hands the frames of a buffer to  *)
(* the decoders of every channel, output_callback() has the encoder fill a *)
(* buffer and key the transmitter.  What Encoder models in detail is cut   *)
(* down here to the frames that wait; the PTT driver takes its place.      *)
(* One channel is followed, any of the enabled ones.                       *)
(***************************************************************************)
EXTENDS Ptt

CONSTANTS ChannelCounts,   \* values of --in-chan
          BufFrames,       \* --frames-per-buffer
          MinBuffer,       \* the samples the mm decoder collects, a second of them
          MaxWaiting       \* BOUND: frames that wait to be transmitted

ASSUME ModemAssumption ==
    /\ ChannelCounts \subseteq Nat \ {0}
    /\ BufFrames \in Nat \ {0} /\ MinBuffer \in Nat \ 0..1
    /\ MaxWaiting \in Nat

VARIABLES
    phase,      \* where main() is; "down" after an exception, then "exited"
    installed,  \* what the modem holds: its audio source, decoders, encoder, and
                \*   the encoder its PTT driver, once that is started
    channels,   \* get_in_channel_count()
    channel,    \* the channel that is followed
    pending,    \* of its decoder mm: tmp_inbuffer_.size()
    subsamp,    \* afsk12.subsamp
    unheard,    \* history: captured frames its correlators have not seen yet
    waiting,    \* out_queue_.size()
    play,       \* where the thread is that calls output_callback()
    carries     \* a frame waited when the callback looked whether to key

inputVars == <<channels, channel, pending, subsamp, unheard>>
modemRest == <<installed, waiting, carries>>
modemVars == <<phase, play, inputVars, modemRest>>

SUBSAMP == 2
Lag == 2 * (MinBuffer + BufFrames)    \* BOUND: unheard is counted up to it
AtMost(n, m) == IF n < m THEN n ELSE m

ModemInit ==
    /\ phase = "modem" /\ installed = {}
    /\ channels \in ChannelCounts /\ channel \in 0..channels - 1
    /\ pending = 0 /\ subsamp = 0 /\ unheard = 0
    /\ waiting = 0 /\ play = "off" /\ carries = FALSE

Parts == {"source", "decoders", "encoder", "driver"}
-----------------------------------------------------------------------------
(* input_callback(): length counts the samples of all the channels.        *)

\* The samples of a channel among them: from its own on, one in channels.
Deinterleaved(length) == (length - channel + channels - 1) \div channels

\* decoder_af1200mm::input_callback_real(): correlate every second sample; one
\* that stays at the end is not kept, and its partner of the next call skipped.
Correlated(length) ==
    LET numfill == IF subsamp = 0 THEN 0 ELSE SUBSAMP - subsamp
    IN IF length < numfill THEN [subsamp |-> subsamp + length, frames |-> 0]
       ELSE [subsamp |-> (length - numfill) % SUBSAMP,
             frames |-> SUBSAMP * ((length - numfill) \div SUBSAMP)]

\* mutant: the buffer is passed on as it is, an odd sample with it.
WholeBuffer(size) == size

\* The even part of it; the odd sample stays for the next buffer.
Chunk(size) == size - (size % SUBSAMP)

MoreThanEnough(size) == size > MinBuffer                            \* mutant
Enough(size) == size >= MinBuffer

\* decoder_af1200mm::input_callback() with the frames of the channel, out of
\* those a device captured.
Collect(frames, captured) ==
    LET size == pending + frames
        done == Correlated(Chunk(size))
    IN IF Enough(size)
         THEN /\ pending' = size - Chunk(size)
              /\ subsamp' = done.subsamp
              /\ unheard' = AtMost(unheard + captured - done.frames, Lag)
         ELSE /\ pending' = size
              /\ unheard' = AtMost(unheard + captured, Lag)
              /\ UNCHANGED subsamp

InputCallback(length, captured) ==
    /\ Collect(Deinterleaved(length), captured)
    /\ UNCHANGED <<channels, channel>>
-----------------------------------------------------------------------------
(* output_callback(): key, fill the buffer, release.  The other thread may  *)
(* add a frame before each of the three.                                    *)

OutputEnter ==
    /\ play = "enter"
    /\ carries' = (waiting > 0)
    /\ \/ /\ waiting > 0 /\ ~state_
          /\ \/ SetTx(TRUE) /\ play' = "fill" /\ UNCHANGED phase
             \* an exception no audio thread catches ends the process
             \/ SetTxThrows(TRUE) /\ phase' = "exited" /\ UNCHANGED play
       \/ /\ waiting = 0 \/ state_
          /\ play' = "fill"
          /\ UNCHANGED <<phase, pttVars>>
    /\ UNCHANGED <<installed, inputVars, waiting>>

\* Some of the frames that wait are played to their end, in order.
OutputFill ==
    /\ play = "fill"
    /\ waiting' \in 0..waiting
    /\ play' = "leave"
    /\ UNCHANGED <<phase, installed, inputVars, carries, pttVars>>

OutputLeave ==
    /\ play = "leave"
    /\ \/ /\ waiting = 0 /\ state_
          /\ \/ SetTx(FALSE) /\ play' = "return" /\ UNCHANGED phase
             \/ SetTxThrows(FALSE) /\ phase' = "exited" /\ UNCHANGED play
       \/ /\ waiting > 0 \/ ~state_
          /\ play' = "return"
          /\ UNCHANGED <<phase, pttVars>>
    /\ UNCHANGED <<installed, inputVars, waiting, carries>>

\* encoder_af1200stj::send(), by the thread of the event loop.
Send ==
    /\ phase = "running" /\ waiting < MaxWaiting
    /\ waiting' = waiting + 1
    /\ UNCHANGED <<phase, installed, inputVars, play, carries, pttVars>>

ModemTypeOK ==
    /\ phase \in {"modem", "audio", "install", "decoders", "encoder", "threads",
                  "listener", "running", "down", "exited"}
    /\ installed \subseteq Parts
    /\ channels \in ChannelCounts /\ channel \in 0..channels - 1
    /\ pending \in 0..MinBuffer - 1 /\ subsamp \in 0..1 /\ unheard \in 0..Lag
    /\ waiting \in 0..MaxWaiting
    /\ play \in {"off", "prepare", "drop", "again", "idle", "enter", "fill", "leave",
                 "return", "write", "loop", "done"}
    /\ carries \in BOOLEAN
=============================================================================
