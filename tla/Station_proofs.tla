--------------------------- MODULE Station_proofs ---------------------------
(***************************************************************************)
(* Proofs about the program as a whole for every set of backends, drivers  *)
(* and channel counts, every buffer size and any number of faults.         *)
(***************************************************************************)
EXTENDS Station, TLAPS

\* What main() has built when it is at a point, and that the listener is the
\* last thing it sets.
BuiltSoFar ==
    /\ phase \in {"modem", "audio", "install"} => installed = {}
    /\ phase = "decoders" => installed = {"source"}
    /\ phase = "encoder" => installed = {"source", "decoders"}
    /\ phase \in {"threads", "listener", "running"} => installed = Parts
    /\ "driver" \in installed => installed = Parts
    /\ listener => installed = Parts /\ phase \in {"running", "down", "exited"}
    /\ held => listener

\* Whose threads are where: rec and play tell the backend.
ThreadsOfBackend ==
    /\ rec \in {"prepare", "drop", "again", "read", "done"} => backend = "alsa"
    /\ rec \in {"idle", "orphan"} => backend = "portaudio"
    /\ play \in {"prepare", "drop", "again", "done"} => backend = "alsa"
    /\ play = "loop" => backend \in Timed
    /\ play # "off" => backend # "null"
    /\ InModem \/ play = "return" => listener

\* The decoder never lacks more than was captured.
PendingIsUnheard == pending <= unheard

\* A call that worked leaves the line as the driver remembers it, but for the
\* parallel port, which is released again behind each call.
LineIsState == ~missed => /\ line \subseteq Driven(state_)
                          /\ mode # "parallel" => line = Driven(state_)

\* What the driver remembers follows the frames that wait.
StateFollowsTraffic ==
    /\ "driver" \notin installed => ~state_ /\ (phase # "exited" => missed)
    /\ phase # "exited" /\ play \in {"fill", "leave"} /\ carries => state_
    /\ phase # "exited" /\ ~InModem /\ waiting = 0 => ~state_
    /\ phase = "exited" /\ mode \in Releasing => ~state_

IInv == /\ TypeOK
        /\ BuiltSoFar
        /\ ThreadsOfBackend
        /\ CallbacksFindTheModem
        /\ PendingIsUnheard
        /\ EveryFrameIsHeard
        /\ LineIsState
        /\ StateFollowsTraffic
-----------------------------------------------------------------------------
(* What a call of the PTT driver leaves behind.                            *)

\* After set_tx(tx), whatever failed in it.
Asked(tx) == mode' = mode /\ PttTypeOK' /\ state_' = tx /\ LineIsState'

\* Tally counts a failure within the bound.
LEMMA TallyCounts ==
  ASSUME NEW ok \in BOOLEAN, faults \in 0..MaxFaults, Tally(ok)
  PROVE  faults' \in 0..MaxFaults /\ missed' = ~ok
  BY PttAssumption DEF Tally, Fault

\* A serial driver drives both pins when no call of the two fails.
LEMMA SerialDrives ==
  ASSUME NEW tx \in BOOLEAN, PttTypeOK, SetTxSerial(tx), UNCHANGED mode
  PROVE  Asked(tx)
<1>1. mode' = mode /\ mode \in Serial /\ mode \in Modes /\ state_' = tx
  BY DEF SetTxSerial, PttTypeOK
<1>2. Pins = {"rts", "dtr"} /\ Pins' = Pins /\ Driven(tx)' = Driven(tx)
  BY <1>1 DEF Pins, Driven
<1>3. PICK rts, dtr \in BOOLEAN :
        /\ \E pins \in AfterPin("rts", tx, line, rts) :
             line' \in AfterPin("dtr", tx, pins, dtr)
        /\ Tally(rts /\ dtr)
  BY DEF SetTxSerial
<1>4. PICK pins \in AfterPin("rts", tx, line, rts) : line' \in AfterPin("dtr", tx, pins, dtr)
  BY <1>3
<1>5. pins \subseteq Pins
  BY <1>2 DEF AfterPin, PttTypeOK
<1>6. line' \subseteq Pins
  BY <1>2, <1>4, <1>5 DEF AfterPin
<1>7. faults' \in 0..MaxFaults /\ missed' = ~(rts /\ dtr)
  BY <1>3, TallyCounts DEF PttTypeOK
<1>8. ASSUME rts, dtr PROVE line' = Driven(tx)
  BY <1>2, <1>4, <1>5, <1>8 DEF AfterPin, Driven, PttTypeOK
<1>9. mode # "parallel"
  BY <1>1 DEF Serial
<1>10. LineIsState'
  BY <1>1, <1>2, <1>7, <1>8, <1>9 DEF LineIsState, Driven
<1> QED
  BY <1>1, <1>2, <1>6, <1>7, <1>10 DEF Asked, PttTypeOK

\* So do the drivers with one pin, but for the parallel port, which clears it.
LEMMA OnePinDrives ==
  ASSUME NEW tx \in BOOLEAN, PttTypeOK, LineIsState, UNCHANGED mode,
         SetTxParallel(tx) \/ SetTxGpio(tx) \/ SetTxHamlib(tx) \/ SetTxDummy(tx)
  PROVE  Asked(tx)
<1>1. mode' = mode /\ mode \in Modes /\ state_' = tx
  BY DEF SetTxParallel, SetTxGpio, SetTxHamlib, SetTxDummy, PttTypeOK
<1>2. Pins' = Pins /\ Driven(tx)' = Driven(tx) /\ Driven(tx) \subseteq Pins
  BY <1>1 DEF Pins, Driven
<1>3. CASE SetTxParallel(tx)
  <2>1. PICK reg1, reg2 \in BOOLEAN :
          /\ line' = IF reg2 THEN {} ELSE IF reg1 THEN Driven(tx) ELSE line
          /\ Tally(reg1 /\ reg2)
    BY <1>3 DEF SetTxParallel
  <2>2. faults' \in 0..MaxFaults /\ missed' = ~(reg1 /\ reg2)
    BY <2>1, TallyCounts DEF PttTypeOK
  <2>3. line' \subseteq Pins
    BY <1>2, <2>1 DEF PttTypeOK
  <2>4. LineIsState'
    BY <1>1, <1>3, <2>1, <2>2 DEF LineIsState, SetTxParallel
  <2> QED
    BY <1>1, <1>2, <2>2, <2>3, <2>4 DEF Asked, PttTypeOK
<1>4. CASE \E ok \in BOOLEAN : (line' = IF ok THEN Driven(tx) ELSE line) /\ Tally(ok)
  <2>1. PICK ok \in BOOLEAN : (line' = IF ok THEN Driven(tx) ELSE line) /\ Tally(ok)
    BY <1>4
  <2>2. faults' \in 0..MaxFaults /\ missed' = ~ok
    BY <2>1, TallyCounts DEF PttTypeOK
  <2>3. line' \subseteq Pins
    BY <1>2, <2>1 DEF PttTypeOK
  <2>4. CASE mode = "parallel"
    BY <1>3, <2>4 DEF SetTxParallel, SetTxGpio, SetTxHamlib, SetTxDummy
  <2>5. CASE mode # "parallel"
    <3>1. LineIsState'
      BY <1>1, <1>2, <2>1, <2>2, <2>5 DEF LineIsState, Driven
    <3> QED
      BY <1>1, <1>2, <2>2, <2>3, <3>1 DEF Asked, PttTypeOK
  <2> QED
    BY <2>4, <2>5
<1>5. CASE SetTxHamlib(tx) /\ tx = state_
  <2>1. UNCHANGED <<mode, state_, line, missed, faults>>
    BY <1>1, <1>5 DEF SetTxHamlib
  <2> QED
    BY <1>1, <2>1 DEF Asked, PttTypeOK, LineIsState, Driven, Pins
<1>6. CASE SetTxDummy(tx)
  <2>1. UNCHANGED <<line, missed, faults>> /\ mode = "null"
    BY <1>6 DEF SetTxDummy
  <2>2. Pins = {}
    BY <2>1 DEF Pins, Serial
  <2> QED
    BY <1>1, <1>2, <2>1, <2>2 DEF Asked, PttTypeOK, LineIsState, Driven
<1> QED
  BY <1>3, <1>4, <1>5, <1>6 DEF SetTxGpio, SetTxHamlib

\* set_tx() leaves the line at the state it records, whatever failed, with every driver.
LEMMA SetTxDrives ==
  ASSUME NEW tx \in BOOLEAN, PttTypeOK, LineIsState, SetTx(tx)
  PROVE  Asked(tx)
  BY SerialDrives, OnePinDrives DEF SetTx

\* A call that throws only leaves what it remembered, and is known to have missed.
LEMMA SetTxThrown ==
  ASSUME NEW tx \in BOOLEAN, PttTypeOK, SetTxThrows(tx)
  PROVE  Asked(tx)
<1>1. mode' = mode /\ state_' = tx /\ missed' /\ line' = line /\ faults' \in 0..MaxFaults
  BY PttAssumption DEF SetTxThrows, Fault, PttTypeOK
<1> QED
  BY <1>1 DEF Asked, PttTypeOK, LineIsState, Pins

\* The start of a driver that was never used leaves it released in its memory.
LEMMA PttStarted ==
  ASSUME PttTypeOK, LineIsState, missed, ~state_, PttStart
  PROVE  Asked(FALSE)
<1>1. CASE SetTx(FALSE)
  BY <1>1, SetTxDrives
<1>2. CASE UNCHANGED <<mode, state_, missed, faults>> /\ line' \subseteq line
  BY <1>2 DEF Asked, PttTypeOK, LineIsState, Pins
<1> QED
  BY <1>1, <1>2 DEF PttStart, StartSerial, StartParallel, StartWindows, StartGpio,
                    StartDummy, StartHamlib, pttVars, pttRest
-----------------------------------------------------------------------------
(* What input_callback() does to the buffer of a decoder.                  *)

\* The part of a buffer that belongs to a channel is not longer than it, and
\* all of it when there is one channel.
LEMMA DeinterleavedPart ==
  ASSUME ModemTypeOK, NEW length \in Nat \ {0}
  PROVE  /\ Deinterleaved(length) \in 0..length
         /\ channels = 1 => Deinterleaved(length) = length
<1>1. channels \in Nat \ {0} /\ channel \in Nat /\ channel < channels
  BY ModemAssumption DEF ModemTypeOK
<1> DEFINE x == length - channel + channels - 1
           q == x \div channels
<1>2. x \in Nat /\ x <= length + channels - 1
  BY <1>1
<1>3. q \in Nat /\ channels * q <= x
  BY <1>1, <1>2
<1>4. q <= length
  <2>1. SUFFICES ASSUME q >= length + 1 PROVE FALSE
    BY <1>3
  <2>2. channels * q >= channels * (length + 1)
    BY <1>1, <1>3, <2>1
  <2>3. channels * (length + 1) >= channels + length
    BY <1>1
  <2> QED
    BY <1>1, <1>2, <1>3, <2>2, <2>3
<1>5. channels = 1 => q = length
  BY <1>1
<1> QED
  BY <1>3, <1>4, <1>5 DEF Deinterleaved

\* The decoder takes an even number of samples, all of its buffer but one.
LEMMA ChunkIsEven ==
  ASSUME NEW size \in Nat
  PROVE  /\ Chunk(size) \in Nat /\ Chunk(size) % 2 = 0
         /\ size - Chunk(size) \in 0..1
  BY DEF Chunk, SUBSAMP

\* The correlators see no more than they are given, and all of an even number
\* when no sample of the call before is left over.
LEMMA CorrelatedPart ==
  ASSUME NEW length \in Nat, subsamp \in 0..1
  PROVE  /\ Correlated(length).frames \in 0..length
         /\ Correlated(length).subsamp \in 0..1
         /\ subsamp = 0 /\ length % 2 = 0 =>
              Correlated(length) = [subsamp |-> 0, frames |-> length]
  BY DEF Correlated, SUBSAMP

\* What one buffer does to the decoder's: it never lacks more than was captured,
\* and nothing but what its buffer holds when the device captured only that.
LEMMA CollectKeeps ==
  ASSUME ModemTypeOK, PendingIsUnheard, NEW frames \in 0..BufFrames, NEW captured \in frames..BufFrames,
         Collect(frames, captured)
  PROVE  /\ pending' \in 0..MinBuffer - 1 /\ subsamp' \in 0..1 /\ unheard' \in 0..Lag
         /\ PendingIsUnheard'
         /\ captured = frames /\ pending = unheard /\ subsamp = 0 =>
              pending' = unheard' /\ subsamp' = 0
<1>1. /\ BufFrames \in Nat /\ MinBuffer \in Nat /\ MinBuffer >= 2
      /\ Lag \in Nat /\ Lag >= MinBuffer
  BY ModemAssumption DEF Lag
<1>2. /\ pending \in Nat /\ subsamp \in 0..1 /\ unheard \in 0..Lag /\ pending <= unheard
      /\ frames \in Nat /\ captured \in Nat /\ frames <= captured
  BY <1>1 DEF ModemTypeOK, PendingIsUnheard
<1> DEFINE size == pending + frames
           done == Correlated(Chunk(size))
<1>3. size \in Nat
  BY <1>2
<1>4. CASE Enough(size)
  <2>1. /\ Chunk(size) \in Nat /\ Chunk(size) % 2 = 0
        /\ size - Chunk(size) \in 0..1
    BY <1>3, ChunkIsEven
  <2>2. /\ done.frames \in 0..Chunk(size) /\ done.subsamp \in 0..1
        /\ subsamp = 0 => done.subsamp = 0 /\ done.frames = Chunk(size)
    BY <1>2, <2>1, CorrelatedPart
  <2>3. /\ pending' = size - Chunk(size) /\ subsamp' = done.subsamp
        /\ unheard' = AtMost(unheard + captured - done.frames, Lag)
    BY <1>4 DEF Collect
  <2> HIDE DEF done
  <2> QED
    BY <1>1, <1>2, <1>3, <2>1, <2>2, <2>3 DEF AtMost, PendingIsUnheard
<1>5. CASE ~Enough(size)
  <2>1. /\ pending' = size /\ subsamp' = subsamp /\ size < MinBuffer
        /\ unheard' = AtMost(unheard + captured, Lag)
    BY <1>1, <1>3, <1>5 DEF Collect, Enough
  <2> QED
    BY <1>1, <1>2, <2>1 DEF AtMost, PendingIsUnheard
<1> QED
  BY <1>4, <1>5
-----------------------------------------------------------------------------
(* Which steps touch the decoder, the driver and the fault counter.        *)

\* A step leaves the decoder alone, or gives it a buffer: as many samples as
\* the device captured frames, or with one channel or a timed thread exactly
\* the samples that belong to the channel.
HeardOrNot ==
    \/ UNCHANGED inputVars
    \/ /\ \E frames \in 0..BufFrames : \E captured \in frames..BufFrames :
            /\ Collect(frames, captured)
            /\ channels = 1 \/ backend \in Timed => captured = frames
       /\ UNCHANGED <<channels, channel>>

\* Without a timed thread, an input callback gives the decoder a buffer or leaves it alone.
LEMMA CallbackHears ==
  ASSUME ModemTypeOK, NEW length \in 1..BufFrames, InputCallback(length, length)
  PROVE  backend \notin Timed => HeardOrNot
<1>1. BufFrames \in Nat
  BY ModemAssumption
<1>2. length \in Nat \ {0}
  BY <1>1
<1>3. /\ Deinterleaved(length) \in 0..length
      /\ channels = 1 => Deinterleaved(length) = length
  BY <1>2, DeinterleavedPart
<1>4. Deinterleaved(length) \in 0..BufFrames /\ length \in Deinterleaved(length)..BufFrames
  BY <1>1, <1>3
<1> QED
  BY <1>3, <1>4 DEF InputCallback, HeardOrNot

\* Every step gives the decoder a buffer or leaves it alone.
LEMMA StepHears ==
  ASSUME TypeOK, ThreadsOfBackend, Next
  PROVE  HeardOrNot
<1>1. ModemTypeOK /\ BufFrames \in Nat \ {0}
  BY ModemAssumption DEF TypeOK
<1>2. CASE Main
  BY <1>2 DEF Main, NewModem, NewAudiosource, ListDevices, SetAudiosource, AddDecoders, SetEncoder,
              LoopAsync, SetListener, RunThrows, Exit, HeardOrNot
<1>3. CASE UsedAfterwards
  BY <1>3 DEF UsedAfterwards, Undefined, modemVars, HeardOrNot
<1>4. CASE Send
  BY <1>4 DEF Send, HeardOrNot
<1>5. CASE Recording
  <2>1. CASE RecPrepare \/ RecDrop \/ RecAgain \/ RecReadFails
    BY <2>1 DEF RecPrepare, RecDrop, RecAgain, RecReadFails, Undefined, modemVars, HeardOrNot
  <2>2. CASE RecRead
    <3>1. CASE \E frames \in 1..BufFrames : InputCallback(frames, frames)
      <4>1. backend \notin Timed
        BY <2>2 DEF RecRead, ThreadsOfBackend, Timed
      <4> QED
        BY <1>1, <3>1, <4>1, CallbackHears
    <3>2. CASE Undefined
      BY <3>2 DEF Undefined, modemVars, HeardOrNot
    <3> QED
      BY <2>2, <3>1, <3>2 DEF RecRead
  <2>3. CASE CaptureBack
    <3>1. CASE InputCallback(BufFrames, BufFrames)
      <4>1. backend \notin Timed
        BY <2>3 DEF CaptureBack, Timed
      <4> QED
        BY <1>1, <3>1, <4>1, CallbackHears
    <3>2. CASE Undefined
      BY <3>2 DEF Undefined, modemVars, HeardOrNot
    <3> QED
      BY <2>3, <3>1, <3>2 DEF CaptureBack
  <2> QED
    BY <1>5, <2>1, <2>2, <2>3 DEF Recording
<1>6. CASE Playing
  <2>1. CASE TimedInput
    <3>1. Deinterleaved(BufFrames) \in 0..BufFrames
      BY <1>1, DeinterleavedPart
    <3>2. Deinterleaved(BufFrames) \in Deinterleaved(BufFrames)..BufFrames
      BY <1>1, <3>1
    <3>3. Collect(Deinterleaved(BufFrames), Deinterleaved(BufFrames)) /\ UNCHANGED <<channels, channel>>
      BY <2>1 DEF TimedInput, InputCallback
    <3> QED
      BY <3>1, <3>2, <3>3 DEF HeardOrNot
  <2>2. CASE OutputCallback
    BY <2>2 DEF OutputCallback, OutputEnter, OutputFill, OutputLeave, HeardOrNot
  <2>3. CASE PlayPrepare \/ PlayDrop \/ PlayAgain \/ PlayWrite
    BY <2>3 DEF PlayPrepare, PlayDrop, PlayAgain, PlayWrite, Undefined, playRest, modemVars, HeardOrNot
  <2>4. CASE TimedStart \/ CallOutput \/ PlayedBack
    BY <2>4 DEF TimedStart, CallOutput, PlayedBack, Undefined, modemVars, HeardOrNot
  <2> QED
    BY <1>6, <2>1, <2>2, <2>3, <2>4 DEF Playing
<1> QED
  BY <1>2, <1>3, <1>4, <1>5, <1>6 DEF Next

\* Such a step leaves no frame unheard.
LEMMA HeardKeeps ==
  ASSUME TypeOK, PendingIsUnheard, EveryFrameIsHeard, HeardOrNot, UNCHANGED backend
  PROVE  /\ channels' \in ChannelCounts /\ channel' \in 0..channels' - 1
         /\ pending' \in 0..MinBuffer - 1 /\ subsamp' \in 0..1 /\ unheard' \in 0..Lag
         /\ PendingIsUnheard' /\ EveryFrameIsHeard'
<1>1. ModemTypeOK
  BY DEF TypeOK
<1>2. CASE UNCHANGED inputVars
  BY <1>1, <1>2 DEF inputVars, ModemTypeOK, PendingIsUnheard, EveryFrameIsHeard, Lag
<1>3. CASE ~UNCHANGED inputVars
  <2>1. PICK frames \in 0..BufFrames : \E captured \in frames..BufFrames :
            /\ Collect(frames, captured)
            /\ channels = 1 \/ backend \in Timed => captured = frames
    BY <1>3 DEF HeardOrNot
  <2>2. PICK captured \in frames..BufFrames :
            /\ Collect(frames, captured)
            /\ channels = 1 \/ backend \in Timed => captured = frames
    BY <2>1
  <2>3. UNCHANGED <<channels, channel>>
    BY <1>3 DEF HeardOrNot
  <2>4. /\ pending' \in 0..MinBuffer - 1 /\ subsamp' \in 0..1 /\ unheard' \in 0..Lag
        /\ PendingIsUnheard'
        /\ captured = frames /\ pending = unheard /\ subsamp = 0 =>
             pending' = unheard' /\ subsamp' = 0
    BY <1>1, <2>2, CollectKeeps
  <2> QED
    BY <1>1, <2>2, <2>3, <2>4 DEF ModemTypeOK, EveryFrameIsHeard
<1> QED
  BY <1>2, <1>3
\* A step of a thread leaves the driver alone, but where the callback keys or
\* releases the transmitter.
LEMMA ThreadsLeaveDriver ==
  ASSUME Recording \/ Playing
  PROVE  \/ UNCHANGED pttRest /\ (UNCHANGED faults \/ Fault)
         \/ OutputEnter /\ waiting > 0 /\ ~state_
         \/ OutputLeave /\ waiting = 0 /\ state_
<1>1. CASE Recording
  BY <1>1 DEF Recording, RecPrepare, RecDrop, RecAgain, RecRead, RecReadFails, CaptureBack,
              Undefined, pttVars
<1>2. CASE OutputCallback
  BY <1>2 DEF OutputCallback, OutputEnter, OutputFill, OutputLeave, pttVars
<1>3. CASE Playing /\ ~OutputCallback
  BY <1>3 DEF Playing, PlayPrepare, PlayDrop, PlayAgain, PlayWrite, TimedStart, CallOutput,
              PlayedBack, TimedInput, Undefined, pttVars
<1> QED
  BY <1>1, <1>2, <1>3

\* A step leaves the driver as it is, but for the fault counter, or it is one
\* of those that call it.
DriverOrNot ==
    \/ UNCHANGED pttRest /\ (UNCHANGED faults \/ Fault)
    \/ SetEncoder /\ PttStart
    \/ Exit /\ PttDestroyed
    \/ Exit /\ UnreadyPttDestroyed
    \/ OutputEnter /\ waiting > 0 /\ ~state_
    \/ OutputLeave /\ waiting = 0 /\ state_

\* Every step leaves the PTT driver as it is, or is one of those that call it.
LEMMA StepDrives ==
  ASSUME Next
  PROVE  DriverOrNot
<1>1. CASE NewModem \/ NewAudiosource \/ ListDevices \/ SetAudiosource \/ AddDecoders
  BY <1>1 DEF NewModem, NewAudiosource, ListDevices, SetAudiosource, AddDecoders,
              ConstructThrows, pttVars, DriverOrNot
<1>2. CASE SetEncoder
  BY <1>2 DEF SetEncoder, PttStartThrows, DriverOrNot
<1>3. CASE LoopAsync \/ SetListener \/ RunThrows \/ UsedAfterwards \/ Send
  BY <1>3 DEF LoopAsync, SetListener, RunThrows, UsedAfterwards, Undefined, Send, pttVars, DriverOrNot
<1>4. CASE Exit
  BY <1>4 DEF Exit, pttVars, DriverOrNot
<1> QED
  BY <1>1, <1>2, <1>3, <1>4, ThreadsLeaveDriver DEF Next, Main, DriverOrNot

\* Whoever calls the driver, its memory and the line agree unless it failed.
LEMMA DriverKeeps ==
  ASSUME IInv, DriverOrNot
  PROVE  mode' = mode /\ PttTypeOK' /\ LineIsState'
<1>1. PttTypeOK /\ LineIsState
  BY DEF IInv, TypeOK
<1>2. SUFFICES ASSUME ~\E tx \in BOOLEAN : Asked(tx)
               PROVE  mode' = mode /\ PttTypeOK' /\ LineIsState'
  BY DEF Asked
<1>3. CASE UNCHANGED pttRest /\ (UNCHANGED faults \/ Fault)
  <2>1. UNCHANGED <<mode, state_, line, missed>> /\ faults' \in 0..MaxFaults
    BY <1>1, <1>3, PttAssumption DEF pttRest, Fault, PttTypeOK
  <2> QED
    BY <1>1, <2>1 DEF PttTypeOK, LineIsState, Driven, Pins
<1>4. CASE SetEncoder /\ PttStart
  <2>1. missed /\ ~state_
    BY <1>4 DEF IInv, SetEncoder, At, BuiltSoFar, StateFollowsTraffic
  <2> QED
    BY <1>1, <1>2, <1>4, <2>1, PttStarted
<1>5. CASE PttDestroyed \/ UnreadyPttDestroyed
  <2>1. CASE SetTx(FALSE)
    BY <1>1, <1>2, <2>1, SetTxDrives
  <2>2. CASE UNCHANGED pttVars
    BY <1>3, <2>2 DEF pttVars
  <2> QED
    BY <1>5, <2>1, <2>2 DEF PttDestroyed, UnreadyPttDestroyed
<1>6. CASE OutputEnter /\ waiting > 0 /\ ~state_
  <2>1. SetTx(TRUE) \/ SetTxThrows(TRUE)
    <3>1. ~(waiting = 0 \/ state_)
      BY <1>6
    <3> QED
      BY <1>6, <3>1 DEF OutputEnter
  <2>2. CASE SetTx(TRUE)
    BY <1>1, <1>2, <2>2, SetTxDrives
  <2>3. CASE SetTxThrows(TRUE)
    BY <1>1, <1>2, <2>3, SetTxThrown
  <2> QED
    BY <2>1, <2>2, <2>3
<1>7. CASE OutputLeave /\ waiting = 0 /\ state_
  <2>1. SetTx(FALSE) \/ SetTxThrows(FALSE)
    <3>1. ~(waiting > 0 \/ ~state_)
      BY <1>7
    <3> QED
      BY <1>7, <3>1 DEF OutputLeave
  <2>2. CASE SetTx(FALSE)
    BY <1>1, <1>2, <2>2, SetTxDrives
  <2>3. CASE SetTxThrows(FALSE)
    BY <1>1, <1>2, <2>3, SetTxThrown
  <2> QED
    BY <2>1, <2>2, <2>3
<1> QED
  BY <1>3, <1>4, <1>5, <1>6, <1>7 DEF DriverOrNot
\* The transmitter is keyed in the driver's memory while a frame that waited is
\* played, and not when a callback found nothing left.
LEMMA TrafficKeeps ==
  ASSUME IInv, Next
  PROVE  StateFollowsTraffic'
<1>1. /\ BuiltSoFar /\ StateFollowsTraffic /\ PttTypeOK /\ LineIsState
      /\ InModem => listener /\ installed = Parts
      /\ waiting \in Nat /\ waiting \in 0..MaxWaiting
  BY ModemAssumption DEF IInv, TypeOK, ModemTypeOK, CallbacksFindTheModem
<1>2. "driver" \in Parts /\ "encoder" \in Parts /\ "driver" \notin {"source", "decoders"}
  BY DEF Parts
<1>3. ASSUME UNCHANGED <<mode, state_, missed, waiting, carries>>,
             (phase # "exited" /\ phase' # "exited") \/ UNCHANGED phase,
             installed \subseteq installed',
             UNCHANGED play \/ (~InModem /\ play' \notin {"fill", "leave"})
      PROVE  StateFollowsTraffic'
  BY <1>1, <1>3 DEF StateFollowsTraffic, InModem
<1>4. CASE NewModem \/ ListDevices \/ SetAudiosource \/ AddDecoders \/ SetListener \/ RunThrows
  <2>1. UNCHANGED <<mode, state_, missed, waiting, carries, play>> /\ phase # "exited" /\ phase' # "exited"
    BY <1>4 DEF NewModem, ListDevices, SetAudiosource, AddDecoders, SetListener, RunThrows,
                At, Throw, modemRest, pttVars, pttRest
  <2>2. installed \subseteq installed'
    BY <1>4 DEF NewModem, ListDevices, SetAudiosource, AddDecoders, SetListener, RunThrows, modemRest
  <2> QED
    BY <1>3, <2>1, <2>2
<1>5. CASE NewAudiosource \/ LoopAsync
  <2>1. UNCHANGED <<mode, state_, missed, waiting, carries, installed>> /\ phase # "exited" /\ phase' # "exited"
    BY <1>5 DEF NewAudiosource, LoopAsync, At, Throw, modemRest, pttVars, pttRest
  <2>2. ~InModem
    BY <1>1, <1>5 DEF NewAudiosource, LoopAsync, At, BuiltSoFar
  <2>3. UNCHANGED play \/ play' \notin {"fill", "leave"}
    BY <1>5 DEF NewAudiosource, LoopAsync, Construct, ConstructThrows, StartThreads
  <2> QED
    BY <1>3, <2>1, <2>2, <2>3
<1>6. CASE SetEncoder
  <2>1. /\ UNCHANGED <<waiting, carries, play>> /\ phase # "exited" /\ phase' # "exited"
        /\ installed \subseteq installed'
    BY <1>6 DEF SetEncoder, At, Throw
  <2>2. ~InModem /\ missed /\ ~state_
    BY <1>1, <1>6 DEF SetEncoder, At, BuiltSoFar, StateFollowsTraffic
  <2>3. CASE PttStart /\ "driver" \in installed'
    <3>1. ~state_'
      BY <1>1, <2>2, <2>3, PttStarted DEF Asked
    <3> QED
      BY <2>1, <2>2, <2>3, <3>1 DEF StateFollowsTraffic, InModem
  <2>4. CASE PttStartThrows
    BY <1>3, <2>1, <2>4 DEF PttStartThrows, pttRest
  <2> QED
    BY <1>6, <2>3, <2>4 DEF SetEncoder
<1>7. CASE Exit
  <2>1. UNCHANGED <<installed, waiting, carries>> /\ phase # "exited" /\ phase' = "exited"
    BY <1>7 DEF Exit, At, modemRest
  <2>2. CASE SetTx(FALSE)
    <3>1. ~state_'
      BY <1>1, <2>2, SetTxDrives DEF Asked
    <3> QED
      BY <2>1, <3>1 DEF StateFollowsTraffic
  <2>3. CASE "driver" \in installed /\ mode \notin Releasing /\ UNCHANGED pttVars
    <3>1. mode' = mode
      BY <2>3 DEF pttVars, pttRest
    <3> QED
      BY <2>1, <2>3, <3>1 DEF StateFollowsTraffic
  <2>4. CASE "driver" \notin installed /\ UNCHANGED pttVars
    <3>1. ~state_'
      BY <1>1, <2>4 DEF StateFollowsTraffic, pttVars, pttRest
    <3> QED
      BY <2>1, <3>1 DEF StateFollowsTraffic
  <2>5. "encoder" \notin installed => "driver" \notin installed
    BY <1>1, <1>2 DEF BuiltSoFar
  <2> QED
    BY <1>7, <2>2, <2>3, <2>4, <2>5 DEF Exit, PttDestroyed, UnreadyPttDestroyed
<1>8. CASE UsedAfterwards \/ Recording
  <2>1. UNCHANGED <<mode, state_, missed, waiting, carries, phase, installed, play>>
    BY <1>8 DEF UsedAfterwards, Recording, RecPrepare, RecDrop, RecAgain, RecRead, RecReadFails, CaptureBack,
                Undefined, modemVars, modemRest, pttVars, pttRest
  <2> QED
    BY <1>3, <2>1
<1>9. CASE Send
  <2>1. UNCHANGED <<mode, state_, missed, carries, phase, installed, play>> /\ waiting' = waiting + 1
    BY <1>9 DEF Send, pttVars, pttRest
  <2>2. waiting' # 0
    BY <1>1, <2>1
  <2> QED
    BY <1>1, <2>1, <2>2 DEF StateFollowsTraffic, InModem
<1>10. CASE Playing /\ ~OutputCallback
  <2>1. UNCHANGED <<mode, state_, missed, waiting, carries, phase, installed>>
    BY <1>10 DEF Playing, PlayPrepare, PlayDrop, PlayAgain, PlayWrite, TimedStart, CallOutput,
                 PlayedBack, TimedInput, Undefined, playRest, modemVars, modemRest, pttVars, pttRest
  <2>2. UNCHANGED play \/ (~InModem /\ play' \notin {"fill", "leave"})
    BY <1>10 DEF Playing, PlayPrepare, PlayDrop, PlayAgain, PlayWrite, TimedStart, CallOutput,
                 PlayedBack, TimedInput, Undefined, modemVars, InModem
  <2> QED
    BY <1>3, <2>1, <2>2
<1>11. CASE OutputCallback
  <2>1. installed = Parts /\ phase # "exited" /\ installed' = installed
    BY <1>1, <1>11 DEF OutputCallback, Alive, OutputEnter, OutputFill, OutputLeave, InModem
  <2>2. CASE OutputEnter
    <3>1. carries' = (waiting > 0) /\ UNCHANGED waiting
      BY <2>2 DEF OutputEnter
    <3>2. CASE waiting > 0 /\ SetTx(TRUE) /\ play' = "fill" /\ UNCHANGED phase
      <4>1. state_'
        BY <1>1, <3>2, SetTxDrives DEF Asked
      <4> QED
        BY <1>2, <2>1, <3>2, <4>1 DEF StateFollowsTraffic, InModem
    <3>3. CASE SetTxThrows(TRUE) /\ phase' = "exited"
      <4>1. mode' \notin Releasing
        BY <3>3 DEF SetTxThrows, Releasing, Serial
      <4> QED
        BY <1>2, <2>1, <3>3, <4>1 DEF StateFollowsTraffic
    <3>4. CASE (waiting = 0 \/ state_) /\ play' = "fill" /\ UNCHANGED <<phase, pttVars>>
      <4>1. waiting = 0 => ~(waiting > 0)
        OBVIOUS
      <4>2. carries' => state_
        BY <3>1, <3>4, <4>1
      <4>3. state_' = state_
        BY <3>4 DEF pttVars, pttRest
      <4> QED
        BY <1>2, <2>1, <3>4, <4>2, <4>3 DEF StateFollowsTraffic, InModem
    <3> QED
      BY <2>2, <3>2, <3>3, <3>4 DEF OutputEnter
  <2>3. CASE OutputFill
    <3>1. UNCHANGED <<state_, carries>> /\ play = "fill" /\ play' = "leave" /\ UNCHANGED phase
      BY <2>3 DEF OutputFill, pttVars, pttRest
    <3> QED
      BY <1>1, <1>2, <2>1, <3>1 DEF StateFollowsTraffic, InModem
  <2>4. CASE OutputLeave
    <3>1. UNCHANGED waiting
      BY <2>4 DEF OutputLeave
    <3>2. CASE SetTx(FALSE) /\ play' = "return" /\ UNCHANGED phase
      <4>1. ~state_'
        BY <1>1, <3>2, SetTxDrives DEF Asked
      <4> QED
        BY <1>2, <2>1, <3>2, <4>1 DEF StateFollowsTraffic, InModem
    <3>3. CASE SetTxThrows(FALSE) /\ phase' = "exited"
      <4>1. mode' \notin Releasing
        BY <3>3 DEF SetTxThrows, Releasing, Serial
      <4> QED
        BY <1>2, <2>1, <3>3, <4>1 DEF StateFollowsTraffic
    <3>4. CASE (waiting > 0 \/ ~state_) /\ play' = "return" /\ UNCHANGED <<phase, pttVars>>
      <4>1. waiting' = 0 => ~state_'
        BY <1>1, <3>1, <3>4 DEF pttVars, pttRest
      <4> QED
        BY <1>2, <2>1, <3>4, <4>1 DEF StateFollowsTraffic, InModem
    <3> QED
      BY <2>4, <3>2, <3>3, <3>4 DEF OutputLeave
  <2> QED
    BY <1>11, <2>2, <2>3, <2>4 DEF OutputCallback
<1> QED
  BY <1>4, <1>5, <1>6, <1>7, <1>8, <1>9, <1>10, <1>11 DEF Next, Main
-----------------------------------------------------------------------------
(* Where main() and the threads are.                                       *)

ControlTypeOK ==
    /\ phase \in {"modem", "audio", "install", "decoders", "encoder", "threads",
                  "listener", "running", "down", "exited"}
    /\ installed \subseteq Parts
    /\ waiting \in 0..MaxWaiting
    /\ play \in {"off", "prepare", "drop", "again", "idle", "enter", "fill", "leave",
                 "return", "write", "loop", "done"}
    /\ carries \in BOOLEAN
    /\ SourceTypeOK

Control == ControlTypeOK /\ BuiltSoFar /\ ThreadsOfBackend /\ CallbacksFindTheModem

\* Undefined behaviour leaves everything else; the cases in which it can happen
\* are those the property lists.
LEMMA UndefinedControl ==
  ASSUME Control, Undefined,
         \/ phase = "down"
         \/ backend \in Timed /\ ~held
         \/ backend = "alsa" /\ (~listener \/ channels > 1 \/ Closed)
  PROVE  Control'
<1>1. /\ UNCHANGED <<phase, installed, waiting, play, carries, channels>>
      /\ UNCHANGED <<backend, listener, held, capture, playback, rec>> /\ defined' \in BOOLEAN
  BY DEF Undefined, modemVars, modemRest, inputVars, pcmVars
<1>2. ControlTypeOK'
  BY <1>1 DEF Control, ControlTypeOK, SourceTypeOK
<1>3. BuiltSoFar' /\ ThreadsOfBackend'
  BY <1>1 DEF Control, BuiltSoFar, ThreadsOfBackend, InModem
<1>4. CallbacksFindTheModem'
  BY <1>1 DEF Control, CallbacksFindTheModem, InModem, Closed
<1> QED
  BY <1>2, <1>3, <1>4 DEF Control

\* The steps of main() up to the threads, before which no thread is in the modem.
LEMMA BuildControl ==
  ASSUME Control,
         NewModem \/ NewAudiosource \/ ListDevices \/ SetAudiosource \/ AddDecoders \/ SetEncoder
  PROVE  Control'
<1>1. /\ defined /\ phase \in {"modem", "audio", "install", "decoders", "encoder"}
      /\ UNCHANGED <<backend, listener, held, defined, waiting, carries>>
  BY DEF NewModem, NewAudiosource, ListDevices, SetAudiosource, AddDecoders, SetEncoder, At, sourceVars, sourceRest, modemRest
<1>2. ~listener /\ ~held /\ ~InModem /\ play # "return"
  BY <1>1 DEF Control, BuiltSoFar, ThreadsOfBackend
<1>3. \/ UNCHANGED <<play, rec, capture, playback>>
      \/ backend = "alsa" /\ UNCHANGED <<play, rec>> /\ capture' = "prepared" /\ playback' = "prepared"
      \/ backend = "portaudio" /\ play' = "idle" /\ rec' = "idle" /\ UNCHANGED <<capture, playback>>
      \/ rec' \in {"off", "orphan"} /\ (rec' = "orphan" => backend = "portaudio") /\ UNCHANGED <<play, capture, playback>>
  BY DEF NewModem, NewAudiosource, ListDevices, SetAudiosource, AddDecoders, SetEncoder,
         Construct, ConstructThrows, sourceVars, pcmVars
<1>4. \/ phase = "modem" /\ phase' \in {"audio", "down"} /\ UNCHANGED installed
      \/ phase = "audio" /\ phase' \in {"install", "down"} /\ UNCHANGED installed
      \/ phase = "install" /\ phase' = "down" /\ UNCHANGED installed
      \/ phase = "install" /\ phase' = "decoders" /\ installed' = installed \cup {"source"}
      \/ phase = "decoders" /\ phase' = "encoder" /\ installed' = installed \cup {"decoders"}
      \/ phase = "encoder" /\ phase' = "threads" /\ installed' = installed \cup {"encoder", "driver"}
      \/ phase = "encoder" /\ phase' = "down" /\ installed' = installed \cup {"encoder"}
  BY DEF NewModem, NewAudiosource, ListDevices, SetAudiosource, AddDecoders, SetEncoder, At, Throw, modemRest
<1>5. BuiltSoFar'
  BY <1>1, <1>2, <1>4 DEF Control, BuiltSoFar, Parts
<1>6. SourceTypeOK'
  BY <1>1, <1>3 DEF Control, ControlTypeOK, SourceTypeOK, Pcm
<1>7. ControlTypeOK'
  BY <1>1, <1>3, <1>4, <1>6 DEF Control, ControlTypeOK, Parts
<1>8. ThreadsOfBackend'
  BY <1>1, <1>2, <1>3 DEF Control, ThreadsOfBackend, InModem, Timed
<1>9. CallbacksFindTheModem'
  BY <1>1, <1>2, <1>3 DEF CallbacksFindTheModem, InModem
<1> QED
  BY <1>5, <1>7, <1>8, <1>9 DEF Control

\* The threads start before the listener is set, and run until the process ends.
LEMMA RunControl ==
  ASSUME Control, LoopAsync \/ SetListener \/ RunThrows \/ Exit
  PROVE  Control'
<1>1. /\ defined /\ phase \in {"threads", "listener", "running", "down"}
      /\ UNCHANGED <<backend, held, defined, capture, playback, installed, waiting, carries>>
  BY DEF LoopAsync, SetListener, RunThrows, Exit, At, sourceVars, sourceRest, pcmVars, modemRest
<1>2. CASE LoopAsync
  <2>1. UNCHANGED listener /\ phase = "threads" /\ phase' = "listener"
    BY <1>2 DEF LoopAsync, At, sourceRest
  <2>2. ~listener /\ ~held /\ ~InModem /\ play # "return" /\ installed = Parts
    BY <2>1 DEF Control, BuiltSoFar, ThreadsOfBackend
  <2>3. \/ backend = "alsa" /\ rec' = "prepare" /\ play' = "prepare"
        \/ backend \in Timed /\ play' = "loop" /\ UNCHANGED rec
        \/ UNCHANGED <<rec, play>>
    BY <1>2 DEF LoopAsync, StartThreads
  <2>4. ControlTypeOK' /\ BuiltSoFar'
    BY <1>1, <2>1, <2>2, <2>3 DEF Control, ControlTypeOK, SourceTypeOK, BuiltSoFar
  <2>5. ThreadsOfBackend' /\ CallbacksFindTheModem'
    BY <1>1, <2>1, <2>2, <2>3 DEF Control, ThreadsOfBackend, CallbacksFindTheModem, InModem, Timed
  <2> QED
    BY <2>4, <2>5 DEF Control
<1>3. CASE SetListener \/ RunThrows \/ Exit
  <2>1. /\ UNCHANGED <<rec, play>> /\ (listener => listener')
        /\ listener' \in BOOLEAN
    BY <1>3 DEF SetListener, RunThrows, Exit, sourceVars, sourceRest, Control, ControlTypeOK, SourceTypeOK
  <2>2. ControlTypeOK' /\ BuiltSoFar'
    BY <1>1, <1>3, <2>1 DEF Control, ControlTypeOK, SourceTypeOK, BuiltSoFar, SetListener, RunThrows, Exit,
         At, Throw, sourceVars, sourceRest
  <2>3. ThreadsOfBackend' /\ CallbacksFindTheModem'
    BY <1>1, <2>1 DEF Control, ThreadsOfBackend, CallbacksFindTheModem, InModem, Timed
  <2> QED
    BY <2>2, <2>3 DEF Control
<1> QED
  BY <1>2, <1>3
\* The thread that captures moves within its own states.
LEMMA RecordingControl ==
  ASSUME Control, channels \in Nat \ {0}, Recording
  PROVE  Control'
<1>1. CASE Undefined
  <2>1. \/ backend = "alsa" /\ (~listener \/ channels > 1 \/ Closed)
        \/ backend = "portaudio" /\ "decoders" \notin installed /\ listener
    <3>1. defined /\ ~defined'
      BY <1>1 DEF Recording, RecPrepare, RecDrop, RecAgain, RecRead, RecReadFails, CaptureBack, Alive, Undefined
    <3>2. CASE RecPrepare \/ RecDrop \/ RecAgain \/ RecReadFails
      BY <3>1, <3>2 DEF RecPrepare, RecDrop, RecAgain, RecReadFails, sourceRest, Control, ThreadsOfBackend
    <3>3. CASE RecRead
      <4>1. backend = "alsa"
        BY <3>3 DEF RecRead, Control, ThreadsOfBackend
      <4>2. PICK frames \in 1..BufFrames : ~(listener /\ frames * channels <= BufFrames)
        BY <3>1, <3>3 DEF RecRead, sourceRest
      <4>3. channels = 1 => frames * channels <= BufFrames
        BY ModemAssumption
      <4> QED
        BY <4>1, <4>2, <4>3
    <3>4. CASE CaptureBack
      BY <3>1, <3>4 DEF CaptureBack, sourceVars, sourceRest
    <3> QED
      BY <1>1, <3>2, <3>3, <3>4 DEF Recording
  <2> QED
    BY <1>1, <2>1, UndefinedControl DEF Control, BuiltSoFar, Parts
<1>2. CASE ~Undefined
  <2>1. UNCHANGED <<backend, listener, held, defined, phase, installed, waiting, play, carries, channels>> /\ defined
    BY <1>2 DEF Recording, RecPrepare, RecDrop, RecAgain, RecRead, RecReadFails, CaptureBack, Alive,
                InputCallback, sourceVars, sourceRest, modemVars, inputVars, modemRest
  <2>2. \/ rec \in {"prepare", "drop", "again", "read"} /\ rec' \in {"drop", "again", "read", "done"}
        \/ UNCHANGED rec
    BY <1>2 DEF Recording, RecPrepare, RecDrop, RecAgain, RecRead, RecReadFails, CaptureBack, sourceVars
  <2>3. capture' \in Pcm /\ playback' \in Pcm
    BY <1>2 DEF Recording, RecPrepare, RecDrop, RecAgain, RecRead, RecReadFails, CaptureBack, sourceVars,
                CloseBoth, pcmVars, Pcm, Control, ControlTypeOK, SourceTypeOK
  <2>4. SourceTypeOK'
    BY <2>1, <2>2, <2>3 DEF Control, ControlTypeOK, SourceTypeOK
  <2>5. ControlTypeOK' /\ BuiltSoFar'
    BY <2>1, <2>4 DEF Control, ControlTypeOK, BuiltSoFar
  <2>6. ThreadsOfBackend' /\ CallbacksFindTheModem'
    BY <2>1, <2>2 DEF Control, ThreadsOfBackend, CallbacksFindTheModem, InModem
  <2> QED
    BY <2>5, <2>6 DEF Control
<1> QED
  BY <1>1, <1>2

\* The thread that plays enters the modem only when it saw the listener.
LEMMA PlayingControl ==
  ASSUME Control, waiting \in Nat, Playing
  PROVE  Control'
<1>1. CASE Undefined
  <2>1. \/ backend \in Timed /\ ~held
        \/ backend = "alsa" /\ (~listener \/ channels > 1 \/ Closed)
    <3>1. defined /\ ~defined'
      BY <1>1 DEF Playing, PlayPrepare, PlayDrop, PlayAgain, PlayWrite, TimedStart, CallOutput,
                  PlayedBack, TimedInput, OutputCallback, Alive, Undefined
    <3>2. CASE PlayPrepare \/ PlayDrop \/ PlayAgain \/ PlayWrite
      BY <3>1, <3>2 DEF PlayPrepare, PlayDrop, PlayAgain, PlayWrite, playRest, sourceRest, Control, ThreadsOfBackend
    <3>3. CASE CallOutput
      BY <3>1, <3>3, AudioSourceAssumption DEF CallOutput, sourceVars, sourceRest, Control, ThreadsOfBackend,
                                               ControlTypeOK, SourceTypeOK
    <3> QED
      BY <1>1, <3>1, <3>2, <3>3 DEF Playing, TimedStart, PlayedBack, TimedInput, OutputCallback, sourceVars, sourceRest
  <2> QED
    BY <1>1, <2>1, UndefinedControl
<1>2. CASE ~Undefined /\ (PlayPrepare \/ PlayDrop \/ PlayAgain \/ PlayWrite)
  <2>1. /\ UNCHANGED <<backend, listener, held, defined, phase, installed, waiting, carries, channels, rec>>
        /\ backend = "alsa" /\ defined /\ ~InModem
    BY <1>2 DEF PlayPrepare, PlayDrop, PlayAgain, PlayWrite, Alive, playRest, sourceRest, inputVars, modemRest,
                Control, ThreadsOfBackend, InModem
  <2>2. play' \in {"drop", "again", "idle", "done"}
    BY <1>2 DEF PlayPrepare, PlayDrop, PlayAgain, PlayWrite
  <2>3. capture' \in Pcm /\ playback' \in Pcm
    BY <1>2 DEF PlayPrepare, PlayDrop, PlayAgain, PlayWrite, CloseBoth, Pcm, Control, ControlTypeOK, SourceTypeOK
  <2>4. SourceTypeOK'
    BY <2>1, <2>3 DEF Control, ControlTypeOK, SourceTypeOK
  <2>5. ControlTypeOK' /\ BuiltSoFar'
    BY <2>1, <2>2, <2>4 DEF Control, ControlTypeOK, BuiltSoFar
  <2>6. ThreadsOfBackend' /\ CallbacksFindTheModem'
    BY <2>1, <2>2 DEF Control, ThreadsOfBackend, CallbacksFindTheModem, InModem, Timed
  <2> QED
    BY <2>5, <2>6 DEF Control
<1>3. CASE TimedStart
  <2>1. /\ UNCHANGED <<backend, listener, defined, phase, installed, waiting, carries, channels, rec, capture, playback>>
        /\ defined /\ play' = "idle" /\ play = "loop" /\ held' = listener /\ Alive
    BY <1>3 DEF TimedStart, Alive, inputVars, modemRest, pcmVars
  <2>2. ControlTypeOK' /\ BuiltSoFar'
    BY <2>1 DEF Control, ControlTypeOK, SourceTypeOK, BuiltSoFar
  <2>3. ThreadsOfBackend' /\ CallbacksFindTheModem'
    BY <2>1 DEF Control, ThreadsOfBackend, CallbacksFindTheModem, InModem
  <2> QED
    BY <2>2, <2>3 DEF Control
<1>4. CASE ~Undefined /\ (CallOutput \/ PlayedBack \/ TimedInput)
  <2>1. /\ UNCHANGED <<backend, listener, held, defined, phase, installed, waiting, carries, channels, rec, capture, playback>>
        /\ defined
    BY <1>4 DEF CallOutput, PlayedBack, TimedInput, InputCallback, Alive, sourceVars, sourceRest, pcmVars, inputVars, modemRest
  <2>2. play # "off" /\ play' \in {"enter", "idle"} /\ (play' = "enter" => listener)
    BY <1>4 DEF CallOutput, PlayedBack, TimedInput, Control, BuiltSoFar
  <2>3. ControlTypeOK' /\ BuiltSoFar'
    BY <2>1, <2>2 DEF Control, ControlTypeOK, SourceTypeOK, BuiltSoFar
  <2>4. ThreadsOfBackend' /\ CallbacksFindTheModem'
    BY <2>1, <2>2 DEF Control, BuiltSoFar, ThreadsOfBackend, CallbacksFindTheModem, InModem
  <2> QED
    BY <2>3, <2>4 DEF Control
<1>5. CASE OutputCallback
  <2>1. /\ UNCHANGED <<backend, listener, held, defined, installed, channels, rec, capture, playback>>
        /\ defined /\ phase' \in {phase, "exited"} /\ InModem
    BY <1>5 DEF OutputCallback, OutputEnter, OutputFill, OutputLeave, Alive, InModem, sourceVars, sourceRest, pcmVars, inputVars
  <2>2. play' \in {"enter", "fill", "leave", "return"}
    BY <1>5 DEF OutputCallback, OutputEnter, OutputFill, OutputLeave
  <2>3. waiting' \in 0..MaxWaiting
    <3>1. waiting \in 0..MaxWaiting /\ MaxWaiting \in Nat
      BY ModemAssumption DEF Control, ControlTypeOK
    <3>2. waiting' \in 0..waiting \/ UNCHANGED waiting
      BY <1>5 DEF OutputCallback, OutputEnter, OutputFill, OutputLeave
    <3> QED
      BY <3>1, <3>2
  <2>4. carries' \in BOOLEAN
    <3>1. (waiting > 0) \in BOOLEAN
      OBVIOUS
    <3>2. carries' = (waiting > 0) \/ UNCHANGED carries
      BY <1>5 DEF OutputCallback, OutputEnter, OutputFill, OutputLeave
    <3> QED
      BY <3>1, <3>2 DEF Control, ControlTypeOK
  <2>5. ControlTypeOK'
    BY <2>1, <2>2, <2>3, <2>4 DEF Control, ControlTypeOK, SourceTypeOK
  <2>6. listener /\ installed = Parts
    BY <2>1 DEF Control, CallbacksFindTheModem
  <2>7. BuiltSoFar'
    BY <2>1, <2>6 DEF Control, BuiltSoFar
  <2>8. ThreadsOfBackend' /\ CallbacksFindTheModem'
    BY <2>1, <2>2, <2>6 DEF Control, ThreadsOfBackend, CallbacksFindTheModem, InModem
  <2> QED
    BY <2>5, <2>7, <2>8 DEF Control
<1> QED
  BY <1>1, <1>2, <1>3, <1>4, <1>5 DEF Playing
\* Every step keeps what relates the phase, the threads and the callbacks.
LEMMA StepControl ==
  ASSUME Control, channels \in Nat \ {0}, waiting \in Nat, Next
  PROVE  Control'
<1>1. CASE Main
  BY <1>1, BuildControl, RunControl DEF Main
<1>2. CASE UsedAfterwards
  BY <1>2, UndefinedControl DEF UsedAfterwards, At
<1>3. CASE Send /\ UNCHANGED sourceVars
  <2>1. /\ UNCHANGED <<phase, installed, play, carries, channels, backend, listener, held, defined,
                       capture, playback, rec>>
        /\ waiting' = waiting + 1 /\ waiting < MaxWaiting
    BY <1>3 DEF Send, inputVars, sourceVars, sourceRest, pcmVars
  <2>2. waiting' \in 0..MaxWaiting
    BY <2>1, ModemAssumption
  <2> QED
    BY <2>1, <2>2 DEF Control, ControlTypeOK, SourceTypeOK, BuiltSoFar, ThreadsOfBackend,
                      CallbacksFindTheModem, InModem, Closed
<1>4. CASE Recording \/ Playing
  BY <1>4, RecordingControl, PlayingControl
<1> QED
  BY <1>1, <1>2, <1>3, <1>4 DEF Next
-----------------------------------------------------------------------------
(* The invariant and what follows from it.                                 *)

LEMMA InitInv ==
  ASSUME Init
  PROVE  IInv
<1>1. PttTypeOK
  <2>1. state_ \in BOOLEAN /\ missed \in BOOLEAN
    BY DEF Init, PttInit
  <2>2. faults \in 0..MaxFaults
    BY PttAssumption DEF Init, PttInit
  <2> QED
    BY <2>1, <2>2 DEF Init, PttInit, PttTypeOK
<1>2. ModemTypeOK
  <2>1. MinBuffer \in Nat /\ MinBuffer >= 2 /\ Lag \in Nat /\ MaxWaiting \in Nat
    BY ModemAssumption DEF Lag
  <2>2. carries \in BOOLEAN
    BY DEF Init, ModemInit
  <2>3. pending \in 0..MinBuffer - 1 /\ subsamp \in 0..1 /\ unheard \in 0..Lag /\ waiting \in 0..MaxWaiting
    BY <2>1 DEF Init, ModemInit
  <2> QED
    BY <2>2, <2>3 DEF Init, ModemInit, ModemTypeOK
<1>3. SourceTypeOK
  BY DEF Init, SourceInit, SourceTypeOK, Pcm
<1>4. /\ BuiltSoFar /\ ThreadsOfBackend /\ CallbacksFindTheModem
      /\ PendingIsUnheard /\ EveryFrameIsHeard
  BY DEF Init, ModemInit, SourceInit, BuiltSoFar, ThreadsOfBackend, CallbacksFindTheModem,
         PendingIsUnheard, EveryFrameIsHeard, InModem
<1>5. LineIsState
  BY DEF Init, PttInit, LineIsState
<1>6. StateFollowsTraffic
  BY DEF Init, PttInit, ModemInit, StateFollowsTraffic
<1> QED
  BY <1>1, <1>2, <1>3, <1>4, <1>5, <1>6 DEF IInv, TypeOK

\* Every step keeps the invariant.
LEMMA StepInv ==
  ASSUME IInv, Next
  PROVE  IInv'
<1>1. /\ PttTypeOK /\ ModemTypeOK /\ SourceTypeOK /\ ThreadsOfBackend
      /\ PendingIsUnheard /\ EveryFrameIsHeard
  BY DEF IInv, TypeOK
<1>2. Control /\ channels \in Nat \ {0} /\ waiting \in Nat
  BY <1>1, ModemAssumption DEF IInv, Control, ControlTypeOK, ModemTypeOK
<1>3. Control'
  BY <1>2, StepControl
<1>4. UNCHANGED backend
  BY DEF Next, Main, NewModem, NewAudiosource, ListDevices, SetAudiosource, AddDecoders, SetEncoder,
         LoopAsync, SetListener, RunThrows, Exit, UsedAfterwards, Recording, RecPrepare, RecDrop,
         RecAgain, RecRead, RecReadFails, CaptureBack, Playing, PlayPrepare, PlayDrop, PlayAgain,
         PlayWrite, TimedStart, CallOutput, PlayedBack, TimedInput, OutputCallback, Undefined,
         sourceVars, sourceRest, playRest
<1>5. /\ channels' \in ChannelCounts /\ channel' \in 0..channels' - 1
      /\ pending' \in 0..MinBuffer - 1 /\ subsamp' \in 0..1 /\ unheard' \in 0..Lag
      /\ PendingIsUnheard' /\ EveryFrameIsHeard'
  BY <1>1, <1>4, StepHears, HeardKeeps DEF TypeOK
<1>6. PttTypeOK' /\ LineIsState'
  BY StepDrives, DriverKeeps
<1>7. StateFollowsTraffic'
  BY TrafficKeeps
<1>8. TypeOK'
  BY <1>3, <1>5, <1>6 DEF TypeOK, ModemTypeOK, Control, ControlTypeOK, Lag
<1> QED
  BY <1>3, <1>5, <1>6, <1>7, <1>8 DEF IInv, Control

\* Nothing that the invariant reads changes in a stuttering step.
LEMMA StutterInv ==
  ASSUME IInv, UNCHANGED vars
  PROVE  IInv'
<1> USE DEF vars, sourceVars, sourceRest, pcmVars, modemVars, modemRest, inputVars, pttVars, pttRest
<1>1. TypeOK'
  BY DEF IInv, TypeOK, PttTypeOK, Pins, ModemTypeOK, SourceTypeOK, Lag
<1>2. BuiltSoFar' /\ ThreadsOfBackend' /\ CallbacksFindTheModem' /\ PendingIsUnheard' /\ EveryFrameIsHeard'
  BY DEF IInv, BuiltSoFar, ThreadsOfBackend, CallbacksFindTheModem, PendingIsUnheard, EveryFrameIsHeard,
         InModem, Closed
<1>3. LineIsState' /\ StateFollowsTraffic'
  BY DEF IInv, LineIsState, StateFollowsTraffic, Driven, Pins, InModem
<1> QED
  BY <1>1, <1>2, <1>3 DEF IInv

\* The inductive invariant of the whole program: what main() built, whose
\* threads run, what the decoder holds, and how the line, the memory of its
\* driver and the frames that wait go together.
THEOREM StationInvariant == Spec => []IInv
<1>1. IInv /\ [Next]_vars => IInv'
  BY StepInv, StutterInv
<1> QED
  BY <1>1, InitInv, PTL DEF Spec

\* Every variable keeps its type.
THEOREM TypeCorrect == Spec => []TypeOK
<1>1. IInv => TypeOK
  BY DEF IInv
<1> QED
  BY <1>1, StationInvariant, PTL

\* No callback enters a modem that main() has not completed, and a pointer to
\* nothing is used, or a buffer overrun, only in the cases the property lists.
THEOREM CallbacksAreSafe == Spec => []CallbacksFindTheModem
<1>1. IInv => CallbacksFindTheModem
  BY DEF IInv
<1> QED
  BY <1>1, StationInvariant, PTL

\* With one channel, or a backend that counts samples, no captured frame is kept
\* from the correlators, whatever the size of the buffers.
THEOREM FramesAreHeard == Spec => []EveryFrameIsHeard
<1>1. IInv => EveryFrameIsHeard
  BY DEF IInv
<1> QED
  BY <1>1, StationInvariant, PTL

\* While their last call worked, the drivers of a serial port, a gpio pin and a radio
\* keep the line keyed while a frame that waited is played, and every driver has it
\* released when none waits; those that release it in their destructors leave it so.
THEOREM LineIsKeyedForTraffic == Spec => []LineFollowsTraffic
<1>1. ASSUME IInv PROVE LineFollowsTraffic
  <2>1. SUFFICES ASSUME ~missed, defined PROVE LineFollowsTraffic
    BY DEF LineFollowsTraffic, KeyedForTraffic
  <2>2. line \subseteq Driven(state_) /\ (mode # "parallel" => line = Driven(state_))
    BY <1>1, <2>1 DEF IInv, LineIsState
  <2>3. StateFollowsTraffic
    BY <1>1 DEF IInv
  <2>4. mode \in Serial => mode # "parallel"
    BY DEF Serial
  <2> QED
    BY <2>2, <2>3, <2>4 DEF LineFollowsTraffic, KeyedForTraffic, StateFollowsTraffic, Driven
<1> QED
  BY <1>1, StationInvariant, PTL
=============================================================================
