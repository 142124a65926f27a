------------------------------ MODULE Station ------------------------------
(***************************************************************************)
(* The program from its start to its end, src/src/main.cpp: main() builds  *)
(* the modem, the sound backend, the decoders, the encoder and the PTT     *)
(* driver, starts the audio threads, sets the listener they call and runs  *)
(* the event loop.  Backend, PTT mode and channels are chosen once; every  *)
(* step that can throw may.                                                *)
(***************************************************************************)
EXTENDS AudioSource

vars == <<sourceVars, modemVars, pttVars>>

Init == PttInit /\ ModemInit /\ SourceInit

At(p) == defined /\ phase = p
Throw == phase' = "down"
-----------------------------------------------------------------------------
\* new modem(): its servers bind their ports.
NewModem ==
    /\ At("modem")
    /\ \/ phase' = "audio" /\ UNCHANGED faults
       \/ Throw /\ Fault
    /\ UNCHANGED <<sourceVars, play, inputVars, modemRest, pttRest>>

NewAudiosource ==
    /\ At("audio")
    /\ \/ Construct /\ phase' = "install" /\ UNCHANGED faults
       \/ ConstructThrows /\ Throw
    /\ UNCHANGED <<sourceRest, inputVars, modemRest, pttRest>>

\* list_devices() and the end of main().
ListDevices ==
    /\ At("install") /\ phase' = "down"
    /\ UNCHANGED <<sourceVars, play, inputVars, modemRest, pttVars>>

\* mutant: the listener is set with the audio source.
SetAudiosourceListens ==
    /\ At("install") /\ phase' = "decoders"
    /\ installed' = installed \cup {"source"}
    /\ listener' = TRUE
    /\ UNCHANGED <<backend, held, pcmVars, rec, defined, inputVars, waiting, play, carries, pttVars>>

SetAudiosource ==
    /\ At("install") /\ phase' = "decoders"
    /\ installed' = installed \cup {"source"}
    /\ UNCHANGED <<sourceVars, inputVars, waiting, play, carries, pttVars>>

AddDecoders ==
    /\ At("decoders") /\ phase' = "encoder"
    /\ installed' = installed \cup {"decoders"}
    /\ UNCHANGED <<sourceVars, inputVars, waiting, play, carries, pttVars>>

\* set_encoder() keeps the encoder and has it start its PTT driver, or throws for it.
SetEncoder ==
    /\ At("encoder")
    /\ \/ PttStart /\ phase' = "threads" /\ installed' = installed \cup {"encoder", "driver"}
       \/ PttStartThrows /\ Throw /\ installed' = installed \cup {"encoder"}
    /\ UNCHANGED <<sourceVars, inputVars, waiting, play, carries>>

LoopAsync ==
    /\ At("threads") /\ phase' = "listener"
    /\ StartThreads
    /\ UNCHANGED <<sourceRest, pcmVars, inputVars, modemRest, pttVars>>

\* start_and_run(): from here the audio reaches the modem ...
SetListener ==
    /\ At("listener") /\ phase' = "running"
    /\ listener' = TRUE
    /\ UNCHANGED <<backend, held, defined, pcmVars, rec, play, inputVars, modemRest, pttVars>>

\* ... until a handler of the event loop throws.
RunThrows ==
    /\ At("running") /\ Throw /\ Fault
    /\ UNCHANGED <<sourceVars, play, inputVars, modemRest, pttRest>>

\* main() destroys the modem, the encoder and its driver with it, and returns.
Exit ==
    /\ At("down") /\ phase' = "exited"
    /\ \/ "driver" \in installed /\ PttDestroyed
       \/ "encoder" \in installed /\ "driver" \notin installed /\ UnreadyPttDestroyed
       \/ "encoder" \notin installed /\ UNCHANGED pttVars
    /\ UNCHANGED <<sourceVars, play, inputVars, modemRest>>

\* The threads are not stopped for it: one may use what is destroyed already.
\* PortAudio stops calling only after the decoders and the encoder are gone.
StillCalled ==
    CASE backend = "portaudio" -> rec = "orphan" \/ listener
      [] OTHER -> rec \notin {"off", "done"} \/ play \notin {"off", "done"}

UsedAfterwards ==
    /\ At("down") /\ StillCalled
    /\ Undefined

Main == \/ NewModem \/ NewAudiosource \/ ListDevices \/ SetAudiosource \/ AddDecoders
        \/ SetEncoder \/ LoopAsync \/ SetListener \/ RunThrows \/ Exit

Next == Main \/ UsedAfterwards \/ (Send /\ UNCHANGED sourceVars) \/ Recording \/ Playing

Spec == Init /\ [][Next]_vars

\* The system gives the recording thread its turns, and a sound card that is
\* asked for frames delivers them or fails sooner or later.
FairSpec == Spec /\ WF_vars(Recording)
-----------------------------------------------------------------------------
\* Every variable has its type.
TypeOK == PttTypeOK /\ ModemTypeOK /\ SourceTypeOK

\* The order of main() and the checks of the backends see to it that no thread
\* enters the modem before it is complete, or calls one that is not there, but
\* in these cases: the thread of ALSA runs before the listener is set, or that
\* of loopback and wave looked for it too early (main.cpp:113 comes before
\* extmodem.cpp:167); ALSA moves frames where the buffer holds samples of
\* several channels, or one of its threads closed the handle of the other; the
\* program is being torn down under its threads.
CallbacksFindTheModem ==
    /\ InModem => listener /\ installed = Parts
    /\ ~defined => \/ phase = "down"
                   \/ backend \in Timed /\ ~held
                   \/ backend = "alsa" /\ (~listener \/ channels > 1 \/ Closed)

\* A driver whose last call did its work keeps the line keyed from before the
\* first sample of a frame that waited to the check at the end of the callback.
KeyedForTraffic ==
    ~missed /\ defined /\ phase = "running" /\ play \in {"fill", "leave"} /\ carries
        => line = Pins

\* The line follows the frames: with the drivers of a serial port, a gpio pin and
\* a radio it is keyed while they are played.  Whatever driver had its last call
\* succeed has released it when a callback found nothing left, and those that do so
\* in their destructors when main() ends, however far it came.
LineFollowsTraffic ==
    /\ mode \in Serial \cup {"gpio", "hamlib"} => KeyedForTraffic
    /\ ~missed /\ defined /\ phase = "running" /\ ~InModem /\ waiting = 0 => line = {}
    /\ ~missed /\ defined /\ phase = "exited" /\ mode \in Releasing => line = {}

\* README.md:45, and the help of the option in extconfig.cpp:58, list "parallel" with
\* the modes that work a PTT, and README.md:68 "null" alone as the one for receiving
\* only.  So a parallel port is keyed for the frames as the others are.
ParallelPortIsKeyed == mode = "parallel" => KeyedForTraffic

\* All that is captured for a channel goes through the correlators of mm, in
\* pairs, but for what its buffer still holds: with one channel, or a backend
\* that counts samples.  PortAudio and ALSA count frames: of several channels
\* only the first part of a buffer is heard (audiosource_portaudio.cpp:55).
EveryFrameIsHeard ==
    channels = 1 \/ backend \in Timed => pending = unheard /\ subsamp = 0

\* After a capture error the decoders get audio again, whatever else fails but
\* the playback: its thread then spins, and drops the capture each time.
CaptureResumes ==
    rec = "drop" ~> \/ capture = "running"
                    \/ playback \in {"xrun", "closed"}
                    \/ phase \in {"down", "exited"} \/ ~defined
=============================================================================
