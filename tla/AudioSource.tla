---------------------------- MODULE AudioSource ----------------------------
(***************************************************************************)
(* The sound backends, src/src/audiosource_*.cpp: who calls the modem, when *)
(* and with what length.  ALSA has a thread for each direction, which own  *)
(* a PCM handle each and, after a failure, both restart the one that       *)
(* captures; PortAudio calls back as soon as the source is constructed;    *)
(* loopback and wave have one thread for both directions.                  *)
(***************************************************************************)
EXTENDS Modem

CONSTANT Backends    \* values of --audio-backend

Timed == {"loopback", "wave"}

ASSUME AudioSourceAssumption == Backends \subseteq Timed \cup {"null", "portaudio", "alsa"}

VARIABLES
    backend,
    listener,   \* get_listener() # 0
    held,       \* l of the timed thread: the listener it saw when it started
    capture,    \* the state of the PCM behind c_handle_
    playback,   \* and behind p_handle_
    rec,        \* where the thread is that calls input_callback()
    defined     \* no pointer to nothing was used and no buffer overrun so far

pcmVars == <<capture, playback>>
sourceRest == <<backend, listener, held, defined>>
sourceVars == <<sourceRest, pcmVars, rec>>

SourceInit ==
    /\ backend \in Backends
    /\ listener = FALSE /\ held = FALSE
    /\ capture = "none" /\ playback = "none"
    /\ rec = "off" /\ defined = TRUE

\* Threads run until the process ends.
Alive == defined /\ phase \notin {"down", "exited"}

Undefined ==
    /\ defined' = FALSE
    /\ UNCHANGED <<backend, listener, held, pcmVars, rec, modemVars, pttVars>>
-----------------------------------------------------------------------------
\* The constructors.
Construct ==
    /\ CASE backend = "alsa" -> capture' = "prepared" /\ playback' = "prepared"
                                /\ UNCHANGED <<rec, play>>
         [] backend = "portaudio" -> rec' = "idle" /\ play' = "idle" /\ UNCHANGED pcmVars
         [] OTHER -> UNCHANGED <<pcmVars, rec, play>>

\* One of the calls fails and init() throws.  When it is one for the output,
\* PortAudio goes on calling back for the input of the object that is no more.
ConstructThrows ==
    /\ backend \in {"alsa", "portaudio"} /\ Fault
    /\ rec' \in IF backend = "portaudio" THEN {"off", "orphan"} ELSE {"off"}
    /\ UNCHANGED <<pcmVars, play>>

\* loop_async()
StartThreads ==
    CASE backend = "alsa" -> rec' = "prepare" /\ play' = "prepare"
      [] backend \in Timed -> play' = "loop" /\ UNCHANGED rec
      [] OTHER -> UNCHANGED <<rec, play>>
-----------------------------------------------------------------------------
(* ALSA, capture.  A PCM reads or writes while it is prepared or running;  *)
(* dropped it is "setup" until it is prepared again.                       *)

Ready(pcm) == pcm \in {"prepared", "running"}
Closed == capture = "closed"

\* close(), of both handles, by whichever thread cannot prepare its own.
CloseBoth == capture' = "closed" /\ playback' = "closed"

RecPrepare ==
    /\ Alive /\ rec = "prepare"
    /\ \/ Closed /\ Undefined
       \/ /\ ~Closed
          /\ \/ capture' = "prepared" /\ rec' = "drop" /\ UNCHANGED <<playback, faults>>
             \/ Fault /\ CloseBoth /\ rec' = "done"
          /\ UNCHANGED <<sourceRest, modemVars, pttRest>>

\* Restart: drop and prepare, whose failure goes unnoticed.
RecDrop ==
    /\ Alive /\ rec = "drop"
    /\ \/ Closed /\ Undefined
       \/ /\ ~Closed /\ capture' = "setup" /\ rec' = "again"
          /\ UNCHANGED <<sourceRest, playback, modemVars, pttVars>>

\* mutant: a dropped stream is read again as it is.
RecAgainUnprepared ==
    /\ Alive /\ rec = "again" /\ ~Closed
    /\ rec' = "read"
    /\ UNCHANGED <<sourceRest, pcmVars, modemVars, pttVars>>

RecAgain ==
    /\ Alive /\ rec = "again"
    /\ \/ Closed /\ Undefined
       \/ /\ ~Closed /\ rec' = "read"
          /\ \/ capture' = "prepared" /\ UNCHANGED faults
             \/ Fault /\ UNCHANGED capture
          /\ UNCHANGED <<sourceRest, playback, modemVars, pttRest>>

\* readi() returns frames, which go to the modem with their number as length.
\* The buffer has room for BufFrames samples, of all channels.
RecRead ==
    /\ Alive /\ rec = "read" /\ Ready(capture)
    /\ \E frames \in 1..BufFrames :
         IF listener /\ frames * channels <= BufFrames
           THEN /\ InputCallback(frames, frames)
                /\ capture' = "running"
                /\ UNCHANGED <<sourceRest, playback, rec, phase, play, modemRest, pttVars>>
           ELSE Undefined

\* It fails: an overrun, or the stream was dropped meanwhile.
RecReadFails ==
    /\ Alive /\ rec = "read"
    /\ \/ Closed /\ Undefined
       \/ /\ \/ Ready(capture) /\ Fault /\ capture' = "xrun"
             \/ capture \in {"setup", "xrun"} /\ UNCHANGED <<capture, faults>>
          /\ rec' = "drop"
          /\ UNCHANGED <<sourceRest, playback, modemVars, pttRest>>
-----------------------------------------------------------------------------
(* ALSA, playback.  Its restarts are of the capture handle.                *)

playRest == <<sourceRest, rec, phase, inputVars, modemRest>>

PlayPrepare ==
    /\ Alive /\ play = "prepare"
    /\ \/ Closed /\ Undefined
       \/ /\ ~Closed
          /\ \/ playback' = "prepared" /\ play' = "drop" /\ UNCHANGED <<capture, faults>>
             \/ Fault /\ CloseBoth /\ play' = "done"
          /\ UNCHANGED <<playRest, pttRest>>

PlayDrop ==
    /\ Alive /\ play = "drop"
    /\ \/ Closed /\ Undefined
       \/ /\ ~Closed /\ capture' = "setup" /\ play' = "again"
          /\ UNCHANGED <<playRest, playback, pttVars>>

PlayAgain ==
    /\ Alive /\ play = "again"
    /\ \/ Closed /\ Undefined
       \/ /\ ~Closed /\ play' = "idle"
          /\ \/ capture' = "prepared" /\ UNCHANGED faults
             \/ Fault /\ UNCHANGED capture
          /\ UNCHANGED <<playRest, playback, pttRest>>

\* writei() of BufFrames frames from a buffer of as many samples.
PlayWrite ==
    /\ Alive /\ backend = "alsa" /\ play = "return"
    /\ \/ (Closed \/ channels > 1) /\ Undefined
       \/ /\ ~Closed /\ channels = 1
          /\ \/ Ready(playback) /\ playback' = "running" /\ play' = "idle" /\ UNCHANGED faults
             \/ Ready(playback) /\ Fault /\ playback' = "xrun" /\ play' = "drop"
             \/ ~Ready(playback) /\ play' = "drop" /\ UNCHANGED <<playback, faults>>
          /\ UNCHANGED <<playRest, capture, pttRest>>
-----------------------------------------------------------------------------
(* The other backends, and the way into the modem.                         *)

\* The timed thread looks for the listener once.
TimedStart ==
    /\ Alive /\ play = "loop"
    /\ held' = listener
    /\ play' = "idle"
    /\ UNCHANGED <<backend, listener, defined, rec, pcmVars, phase, inputVars, modemRest, pttVars>>

\* portaudio_out_callback() looks for it every time, the ALSA thread never.
CallOutput ==
    /\ Alive /\ play = "idle"
    /\ IF (IF backend \in Timed THEN held ELSE listener)
         THEN /\ "encoder" \in installed
              /\ play' = "enter"
              /\ UNCHANGED <<phase, inputVars, modemRest, sourceVars, pttVars>>
         ELSE backend # "portaudio" /\ Undefined

\* portaudio_in_callback() passes the frames as length, as ALSA does.
CaptureBack ==
    /\ Alive /\ backend = "portaudio" /\ rec = "idle" /\ listener
    /\ IF "decoders" \in installed
         THEN /\ InputCallback(BufFrames, BufFrames)
              /\ UNCHANGED <<phase, play, modemRest, sourceVars, pttVars>>
         ELSE Undefined

PlayedBack ==
    /\ Alive /\ backend = "portaudio" /\ play = "return"
    /\ play' = "idle"
    /\ UNCHANGED <<phase, inputVars, modemRest, sourceVars, pttVars>>

\* The timed thread hands back the samples it got, which are of all channels.
TimedInput ==
    /\ Alive /\ backend \in Timed /\ play = "return"
    /\ InputCallback(BufFrames, Deinterleaved(BufFrames))
    /\ play' = "idle"
    /\ UNCHANGED <<phase, modemRest, sourceVars, pttVars>>

InModem == play \in {"enter", "fill", "leave"}

OutputCallback ==
    /\ Alive
    /\ OutputEnter \/ OutputFill \/ OutputLeave
    /\ UNCHANGED sourceVars

Recording == RecPrepare \/ RecDrop \/ RecAgain \/ RecRead \/ RecReadFails \/ CaptureBack
Playing == PlayPrepare \/ PlayDrop \/ PlayAgain \/ PlayWrite \/ TimedStart \/ CallOutput
             \/ PlayedBack \/ TimedInput \/ OutputCallback

Pcm == {"none", "prepared", "running", "xrun", "setup", "closed"}

SourceTypeOK ==
    /\ backend \in Backends
    /\ listener \in BOOLEAN /\ held \in BOOLEAN /\ defined \in BOOLEAN
    /\ capture \in Pcm /\ playback \in Pcm
    /\ rec \in {"off", "prepare", "drop", "again", "read", "idle", "orphan", "done"}
=============================================================================
