----------------------------- MODULE RpmCapture -----------------------------
(***************************************************************************)
(* The speed measure: the input capture IC3, its interrupt, which stores   *)
(* the captures in a ring (app.c, DRV_IC3_Callback), and the services of   *)
(* MENU_MESURE_VISUEL (menu.c), which read the ring with no protection.    *)
(*                                                                         *)
(* The interrupt handler is one step for the callback and one for the      *)
(* clearing of its flag, because edges can arrive between them; the        *)
(* super-loop does not run meanwhile.  A service is split where the        *)
(* interrupt can change what it reads: at captureIndex, at each of the two *)
(* ring entries (the compiler may read them in either order) and between   *)
(* rpmCaptureActive = false and DRV_IC0_Stop.                              *)
(*                                                                         *)
(* An edge is the number of its arrival, which stands for its time stamp;  *)
(* of the speed the model keeps whether it is zero.                        *)
(*                                                                         *)
(* History variables: `log` has the captures stored in this session,       *)
(* `sessionStart` the last edge before it, `snap` the length of log when   *)
(* the service read captureIndex; `arrived` is TRUE when a capture was     *)
(* stored since then and `silent` counts the services in a row without     *)
(* one.                                                                    *)
(*                                                                         *)
(* Operators whose name has a suffix after the name of the one that        *)
(* follows them are deliberate faults: they are in no specification.       *)
(***************************************************************************)
EXTENDS Naturals, Sequences

CONSTANTS
    S,             \* RPM_CAPTURE_BUFFER_SIZE (8)
    FifoDepth,     \* captures the IC3 module holds (4)
    LostMax,       \* silent services tolerated (100)
    CounterMod,    \* lostCaptureCounter counts modulo this (2^16)
    MaxEdges,      \* bound of the model: edges seen while IC3 is on
    HistoryMax     \* bound of the model: where silent saturates

ASSUME CaptureAssumption ==
    /\ S \in Nat /\ S >= 2
    /\ FifoDepth \in Nat \ {0}
    /\ LostMax \in Nat
    /\ CounterMod \in Nat \ {0}
    /\ MaxEdges \in Nat
    /\ HistoryMax \in Nat

VARIABLES
    icOn, fifo, icFlag, isr, edges,                   \* IC3, its interrupt
    rpmCaptureActive, captureIndex, captureBuffer,    \* shared, appData
    visuel, pc, captureStarted,                       \* the service ...
    i, entry, toRead, rpm, lastCaptureIndex, lostCaptureCounter,
    log, sessionStart, snap, arrived, silent    \* history

icVars    == <<icOn, fifo, icFlag, isr, edges>>
ringVars  == <<captureIndex, captureBuffer>>
readVars  == <<i, entry, toRead>>
lossVars  == <<rpm, lastCaptureIndex, lostCaptureCounter>>
histVars  == <<log, sessionStart, snap, arrived, silent>>
vars == <<icVars, rpmCaptureActive, ringVars, visuel, pc, captureStarted,
          readVars, lossVars, histVars>>

Slots == 0 .. S - 1

TypeOK == /\ icOn \in BOOLEAN
          /\ fifo \in Seq(Nat) /\ Len(fifo) <= FifoDepth
          /\ icFlag \in BOOLEAN
          /\ isr \in {"none", "clear"}
          /\ edges \in Nat
          /\ rpmCaptureActive \in BOOLEAN
          /\ captureIndex \in Slots
          /\ captureBuffer \in [Slots -> Nat]
          /\ visuel \in BOOLEAN
          /\ pc \in {"idle", "index", "read", "buttons", "stop"}
          /\ captureStarted \in BOOLEAN
          /\ i \in Slots
          /\ entry \in [{1, 2} -> Nat]
          /\ toRead \in SUBSET {1, 2}
          /\ rpm \in {0, 1}
          /\ lastCaptureIndex \in Slots
          /\ lostCaptureCounter \in 0 .. CounterMod - 1
          /\ log \in Seq(Nat)
          /\ sessionStart \in Nat
          /\ snap \in Nat
          /\ arrived \in BOOLEAN
          /\ silent \in 0 .. HistoryMax

Init == /\ icOn = FALSE /\ fifo = <<>> /\ icFlag = FALSE /\ isr = "none"
        /\ edges = 0
        /\ rpmCaptureActive = FALSE
        /\ captureIndex = 0
        /\ captureBuffer = [s \in Slots |-> 0]
        /\ visuel = FALSE /\ pc = "idle" /\ captureStarted = FALSE
        /\ i = 0 /\ entry = [n \in {1, 2} |-> 0] /\ toRead = {}
        /\ rpm = 0 /\ lastCaptureIndex = 0 /\ lostCaptureCounter = 0
        /\ log = <<>> /\ sessionStart = 0 /\ snap = 0
        /\ arrived = FALSE /\ silent = 0
----------------------------------------------------------------------------
\* The input capture driver, whose state is the module's.

DRV_IC0_Start == icOn' = TRUE

\* The module that stops loses its buffer.
DRV_IC0_Stop_KeepsBuffer == icOn' = FALSE /\ fifo' = fifo
DRV_IC0_Stop             == icOn' = FALSE /\ fifo' = <<>>

DRV_IC0_BufferIsEmpty        == fifo = <<>>
DRV_IC0_Capture32BitDataRead == fifo' = Tail(fifo)

\* The hardware.  A rising edge is captured while IC3 is on and lost when its
\* buffer is full; either way the interrupt is requested.
Edge == /\ icOn
        /\ edges < MaxEdges
        /\ edges' = edges + 1
        /\ fifo' = IF Len(fifo) < FifoDepth THEN Append(fifo, edges + 1) ELSE fifo
        /\ icFlag' = TRUE
        /\ UNCHANGED <<icOn, isr, rpmCaptureActive, ringVars, visuel, pc,
                       captureStarted, readVars, lossVars, histVars>>

NextSlot_WrapsLate(s) == IF s + 1 > S THEN 0 ELSE s + 1
NextSlot(s) == IF s + 1 >= S THEN 0 ELSE s + 1

\* DRV_IC3_Callback, the capture is not active or there is nothing to read.
DRV_IC3_Callback_Nothing ==
    /\ icFlag /\ isr = "none"
    /\ ~rpmCaptureActive \/ DRV_IC0_BufferIsEmpty
    /\ isr' = "clear"
    /\ UNCHANGED <<icOn, fifo, icFlag, edges, rpmCaptureActive, ringVars,
                   visuel, pc, captureStarted, readVars, lossVars, histVars>>

\* DRV_IC3_Callback: one capture, the oldest, goes into the ring.
Stored_InNextSlot(cap) == captureBuffer' = [captureBuffer EXCEPT ![NextSlot(captureIndex)] = cap]
Stored(cap) == captureBuffer' = [captureBuffer EXCEPT ![captureIndex] = cap]

DRV_IC3_Callback_Store ==
    /\ icFlag /\ isr = "none"
    /\ rpmCaptureActive /\ ~DRV_IC0_BufferIsEmpty
    /\ Stored(Head(fifo))
    /\ DRV_IC0_Capture32BitDataRead
    /\ captureIndex' = NextSlot(captureIndex)
    /\ log' = Append(log, Head(fifo))
    /\ arrived' = TRUE
    /\ isr' = "clear"
    /\ UNCHANGED <<icOn, icFlag, edges, rpmCaptureActive, visuel, pc,
                   captureStarted, readVars, lossVars, sessionStart, snap,
                   silent>>

\* The handler clears the flag.  The code cannot tell whether the hardware
\* raises it again at once for captures still in the buffer: both happen.
IC3_FlagClear ==
    /\ isr = "clear"
    /\ icFlag' \in IF fifo = <<>> THEN {FALSE} ELSE BOOLEAN
    /\ isr' = "none"
    /\ UNCHANGED <<icOn, fifo, edges, rpmCaptureActive, ringVars, visuel, pc,
                   captureStarted, readVars, lossVars, histVars>>
----------------------------------------------------------------------------
\* The super-loop, in and out of MENU_MESURE_VISUEL.

Visuel_Enter ==
    /\ isr = "none" /\ pc = "idle" /\ ~visuel
    /\ visuel' = TRUE
    /\ UNCHANGED <<icVars, rpmCaptureActive, ringVars, pc, captureStarted,
                   readVars, lossVars, histVars>>

\* A service begins: the first one starts the capture.  IC3 comes last, so
\* the interrupt finds nothing to store before that.
Visuel_Start ==
    /\ isr = "none" /\ pc = "idle" /\ visuel /\ ~captureStarted
    /\ captureStarted' = TRUE
    /\ captureIndex' = 0
    /\ rpmCaptureActive' = TRUE
    /\ DRV_IC0_Start
    /\ log' = <<>> /\ sessionStart' = edges /\ snap' = 0
    /\ arrived' = FALSE /\ silent' = 0
    /\ pc' = "index"
    /\ UNCHANGED <<fifo, icFlag, isr, edges, captureBuffer, visuel,
                   readVars, lossVars>>

Visuel_Continue ==
    /\ isr = "none" /\ pc = "idle" /\ visuel /\ captureStarted
    /\ pc' = "index"
    /\ UNCHANGED <<icVars, rpmCaptureActive, ringVars, visuel, captureStarted,
                   readVars, lossVars, histVars>>

Saturated(n) == IF n < HistoryMax THEN n + 1 ELSE HistoryMax

Visuel_ReadIndex ==
    /\ isr = "none" /\ pc = "index"
    /\ i' = captureIndex
    /\ toRead' = {1, 2}
    /\ pc' = "read"
    /\ snap' = Len(log)
    /\ arrived' = FALSE
    /\ silent' = IF arrived THEN 0 ELSE Saturated(silent)
    /\ UNCHANGED <<icVars, rpmCaptureActive, ringVars, visuel, captureStarted,
                   entry, lossVars, log, sessionStart>>

\* The slot n places before slot s: j is Back(i, 1) and k is Back(i, 2).
Back(s, n) == IF s >= n THEN s - n ELSE s + S - n

Visuel_Read_IndexAgain(n) ==
    /\ isr = "none" /\ pc = "read" /\ n \in toRead
    /\ entry' = [entry EXCEPT ![n] = captureBuffer[Back(captureIndex, n)]]
    /\ toRead' = toRead \ {n}
    /\ UNCHANGED <<icVars, rpmCaptureActive, ringVars, visuel, pc,
                   captureStarted, i, lossVars, histVars>>

Visuel_Read(n) ==
    /\ isr = "none" /\ pc = "read" /\ n \in toRead
    /\ entry' = [entry EXCEPT ![n] = captureBuffer[Back(i, n)]]
    /\ toRead' = toRead \ {n}
    /\ UNCHANGED <<icVars, rpmCaptureActive, ringVars, visuel, pc,
                   captureStarted, i, lossVars, histVars>>

\* The speed follows from the difference, if there is one (it is 0 again when
\* the difference is long), then is put to 0 if the index has stood still for
\* more than LostMax services.
Visuel_Compute ==
    /\ isr = "none" /\ pc = "read" /\ toRead = {}
    /\ lostCaptureCounter' = IF i = lastCaptureIndex
                             THEN (lostCaptureCounter + 1) % CounterMod
                             ELSE 0
    /\ lastCaptureIndex' = i
    /\ rpm' \in IF lostCaptureCounter' > LostMax THEN {0}
                ELSE IF entry[1] # entry[2] THEN {0, 1}
                ELSE {rpm}
    /\ pc' = "buttons"
    /\ UNCHANGED <<icVars, rpmCaptureActive, ringVars, visuel, captureStarted,
                   readVars, histVars>>

Visuel_Stay ==
    /\ isr = "none" /\ pc = "buttons"
    /\ pc' = "idle"
    /\ UNCHANGED <<icVars, rpmCaptureActive, ringVars, visuel, captureStarted,
                   readVars, lossVars, histVars>>

\* SELECT: the interrupt is told to stop storing ...
Visuel_Deactivate ==
    /\ isr = "none" /\ pc = "buttons"
    /\ captureStarted' = FALSE
    /\ rpmCaptureActive' = FALSE
    /\ pc' = "stop"
    /\ UNCHANGED <<icVars, ringVars, visuel, readVars, lossVars, histVars>>

\* ... then IC3 and Timer2 are stopped.
Visuel_Stop ==
    /\ isr = "none" /\ pc = "stop"
    /\ DRV_IC0_Stop
    /\ visuel' = FALSE
    /\ pc' = "idle"
    /\ UNCHANGED <<icFlag, isr, edges, rpmCaptureActive, ringVars,
                   captureStarted, readVars, lossVars, histVars>>

Next == \/ Edge
        \/ DRV_IC3_Callback_Nothing
        \/ DRV_IC3_Callback_Store
        \/ IC3_FlagClear
        \/ Visuel_Enter
        \/ Visuel_Start
        \/ Visuel_Continue
        \/ Visuel_ReadIndex
        \/ \E n \in {1, 2} : Visuel_Read(n)
        \/ Visuel_Compute
        \/ Visuel_Stay
        \/ Visuel_Deactivate
        \/ Visuel_Stop

Spec == Init /\ [][Next]_vars
----------------------------------------------------------------------------
\* Walking back from captureIndex, the ring holds the latest captures of the
\* session, the most recent first, as many of them as it has slots: no
\* capture is overwritten early, skipped or stored twice.
RingHoldsLatest ==
    \A n \in 1 .. S : n <= Len(log) =>
        captureBuffer[Back(captureIndex, n)] = log[Len(log) + 1 - n]

\* The two entries a service subtracts, read while the interrupt goes on
\* storing, are the last two captures there were when it read captureIndex,
\* provided the session had two and fewer than S - 1 arrived since then.
DeltaIsLatestPeriod ==
    pc = "read" /\ toRead = {} /\ snap >= 2 /\ Len(log) - snap < S - 1 =>
        entry[1] = log[snap] /\ entry[2] = log[snap - 1]

\* The captures of a session are stored in the order of their edges, each
\* once, and none of them is older than the session, although the buffer of
\* IC3 can still hold some when the capture is deactivated.
CapturesInOrder ==
    /\ \A n \in 1 .. Len(log) : log[n] > sessionStart
    /\ \A n \in 2 .. Len(log) : log[n - 1] < log[n]

\* The comments of menu.c lines 325 and 338 ("Compteur de perte de capture",
\* "Met le RPM a zero si perte"): when no capture has arrived during more
\* than LostMax services the speed is 0.  (One more service is granted: the
\* first one of a session only notes the index.)
LossShowsZero == pc = "buttons" /\ silent > LostMax + 1 => rpm = 0
=============================================================================
