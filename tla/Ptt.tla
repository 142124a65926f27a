-------------------------------- MODULE Ptt --------------------------------
(***************************************************************************)
(* The push-to-talk drivers, src/src/ptt.cpp, ptt_serpar.cpp and           *)
(* ptt_hamlib.cpp.  set_tx() remembers the state it was asked for and      *)
(* drives the line, in this order or the other, once or twice, and mostly  *)
(* without looking at the result; get_tx() returns what is remembered.     *)
(***************************************************************************)
EXTENDS Integers

CONSTANTS Modes,       \* --ptt-mode; serial twice, it has a driver per system
          MaxFaults    \* BOUND: driver and device calls that fail in a behaviour

Serial == {"serial", "serial_windows"}

ASSUME PttAssumption ==
    /\ Modes \subseteq Serial \cup {"null", "parallel", "gpio", "hamlib"}
    /\ MaxFaults \in Nat

VARIABLES
    mode,      \* the driver
    state_,    \* what it remembers: get_tx()
    line,      \* the pins that are asserted, whoever asserted them
    missed,    \* history: no call drove the line yet, or the last one failed
    faults     \* calls that failed so far, of these and of the sound drivers

pttRest == <<mode, state_, line, missed>>
pttVars == <<pttRest, faults>>

Pins == IF mode \in Serial THEN {"rts", "dtr"} ELSE IF mode = "null" THEN {} ELSE {"ptt"}
Driven(tx) == IF tx THEN Pins ELSE {}

\* A call fails, if the bound still allows it.
Fault == faults < MaxFaults /\ faults' = faults + 1
Tally(ok) == missed' = ~ok /\ IF ok THEN UNCHANGED faults ELSE Fault

\* Nobody knows how the last program left the line.
PttInit ==
    /\ mode \in Modes
    /\ state_ = FALSE /\ missed = TRUE /\ faults = 0
    /\ line \in SUBSET Pins
-----------------------------------------------------------------------------
\* set_rts() and set_dtr(): the pins after a call for one of them.  On Unix the
\* others are read first; when that fails they are what y happened to hold.
AfterPin(pin, tx, pins, ok) ==
    LET good == IF tx THEN pins \cup {pin} ELSE pins \ {pin}
        garbage == {s \in SUBSET Pins : (pin \in s) = tx}
    IN IF ok THEN {good}
             ELSE {pins} \cup (IF mode = "serial" THEN garbage ELSE {})

\* mutant: the second pin is forgotten.
SetTxRtsOnly(tx) ==
    /\ mode \in Serial
    /\ state_' = tx
    /\ \E rts \in BOOLEAN : line' \in AfterPin("rts", tx, line, rts) /\ Tally(rts)

SetTxSerial(tx) ==
    /\ mode \in Serial
    /\ state_' = tx
    /\ \E rts, dtr \in BOOLEAN :
         /\ \E pins \in AfterPin("rts", tx, line, rts) :
              line' \in AfterPin("dtr", tx, pins, dtr)
         /\ Tally(rts /\ dtr)

\* Two writes to the data lines: 0xff or 0 for the state, then always 0.
SetTxParallel(tx) ==
    /\ mode = "parallel"
    /\ state_' = tx
    /\ \E reg1, reg2 \in BOOLEAN :
         /\ line' = IF reg2 THEN {} ELSE IF reg1 THEN Driven(tx) ELSE line
         /\ Tally(reg1 /\ reg2)

SetTxGpio(tx) ==
    /\ mode = "gpio"
    /\ state_' = tx
    /\ \E ok \in BOOLEAN : /\ line' = IF ok THEN Driven(tx) ELSE line
                           /\ Tally(ok)

\* The radio is only asked when the state changes.
SetTxHamlib(tx) ==
    /\ mode = "hamlib"
    /\ state_' = tx
    /\ IF tx = state_ THEN UNCHANGED <<line, missed, faults>>
       ELSE \E ok \in BOOLEAN : /\ line' = IF ok THEN Driven(tx) ELSE line
                                /\ Tally(ok)

SetTxDummy(tx) ==
    /\ mode = "null"
    /\ state_' = tx
    /\ UNCHANGED <<line, missed, faults>>

SetTx(tx) ==
    /\ \/ SetTxSerial(tx) \/ SetTxParallel(tx) \/ SetTxGpio(tx)
       \/ SetTxHamlib(tx) \/ SetTxDummy(tx)
    /\ UNCHANGED mode

\* The value file of the pin cannot be opened: unix_print_error() throws.
SetTxThrows(tx) ==
    /\ mode = "gpio"
    /\ state_' = tx /\ missed' = TRUE /\ Fault
    /\ UNCHANGED <<mode, line>>
-----------------------------------------------------------------------------
(* factory() and init() open the device and release the transmitter, but ... *)

StartSerial == mode = "serial" /\ SetTx(FALSE)
StartParallel == mode = "parallel" /\ SetTx(FALSE)

\* ... the Windows driver clears RTS alone, ...
StartWindows ==
    /\ mode = "serial_windows"
    /\ line' = line \ {"rts"}
    /\ UNCHANGED <<mode, state_, missed, faults>>

\* ... the gpio driver touches nothing, ...
StartGpio == mode = "gpio" /\ UNCHANGED pttVars
StartDummy == mode = "null" /\ SetTx(FALSE)

\* ... and set_tx(0) finds the state the radio's driver was constructed with.
StartHamlib == mode = "hamlib" /\ SetTx(FALSE)

PttStart == StartSerial \/ StartParallel \/ StartWindows \/ StartGpio \/ StartDummy \/ StartHamlib

\* A mode without a driver on this system, or a device that cannot be opened
\* or set up: unix_print_error() throws, and no `return' behind it is reached.
PttStartThrows ==
    /\ mode # "null" /\ Fault
    /\ UNCHANGED pttRest

\* The destructors: the serial and the parallel one release the transmitter.
Releasing == Serial \cup {"parallel"}
PttDestroyed == IF mode \in Releasing THEN SetTx(FALSE) ELSE UNCHANGED pttVars

\* When init() threw there may be no driver, or its calls have no device; but the
\* parallel one has a port if it could claim it and not set its mode.
UnreadyPttDestroyed == \/ UNCHANGED pttVars
                       \/ mode = "parallel" /\ SetTx(FALSE)

PttTypeOK ==
    /\ mode \in Modes /\ state_ \in BOOLEAN /\ missed \in BOOLEAN
    /\ line \in SUBSET Pins
    /\ faults \in 0..MaxFaults
=============================================================================
