------------------------------ MODULE GestBtn ------------------------------
(***************************************************************************)
(* GestBtn.c: the debouncer of the two push buttons.                       *)
(*                                                                         *)
(* GestBtn_Update runs in the Timer1 interrupt (one tick, 1 ms) and steps  *)
(* one state machine per button; GestBtn_Scan runs in the super-loop,      *)
(* tests and clears the `pressed` bits.  The interrupt can preempt the     *)
(* scan anywhere.  `pressed`, `prev` and `value` are bit-fields of one     *)
(* byte, so clearing `pressed` is a load, a mask and a store: a tick that  *)
(* lands between the load and the store has its update of the byte undone  *)
(* (ScanTorn).  Two ticks cannot land in that window of three instructions.*)
(*                                                                         *)
(* `level` and `run` are history variables: the last sampled pin level of  *)
(* a button and for how many consecutive ticks it was sampled (saturating).*)
(*                                                                         *)
(* Operators whose name has a suffix after the name of the one that        *)
(* follows them are deliberate faults: they are in no specification.       *)
(***************************************************************************)
EXTENDS Naturals

CONSTANT kMaxDebounceCount

ASSUME DebounceAssumption == kMaxDebounceCount \in Nat \ {0}

Buttons == {"OK", "SELECT"}

VARIABLES sw, scan, mask, level, run

vars == <<sw, scan, mask, level, run>>

Bit    == {0, 1}
RunCap == kMaxDebounceCount + 3     \* where the history count saturates

\* S_Switch: the state of one button's debouncer.
Switch == [state   : {"WaitChange", "WaitStable"},
           counter : 0 .. kMaxDebounceCount - 1,
           prev    : Bit,
           value   : Bit,
           pressed : Bit]

TypeOK == /\ sw \in [Buttons -> Switch]
          /\ scan \in {"idle", "OK", "SELECT"}
          /\ mask \in SUBSET Buttons
          /\ level \in [Buttons -> Bit]
          /\ run \in [Buttons -> 0 .. RunCap]

GestBtn_Init == [state |-> "WaitChange", counter |-> 0,
                 prev |-> 1, value |-> 1, pressed |-> 0]

Init == /\ sw = [b \in Buttons |-> GestBtn_Init]
        /\ scan = "idle"
        /\ mask = {}
        /\ level = [b \in Buttons |-> 0]
        /\ run = [b \in Buttons |-> 0]

\* GestBtn_Update turns the pin into the `raw` flag: set when the pin reads 0.
RawOf(pin) == IF pin = 0 THEN 1 ELSE 0

\* `++counter >= kMaxDebounceCount`: enough equal samples.
Settled_OffByOne(s) == s.counter >= kMaxDebounceCount
Settled(s) == s.counter + 1 >= kMaxDebounceCount

\* A sample that differs from the previous one while waiting for stability.
Bounced_KeepsCounter(s, raw) == [s EXCEPT !.prev = raw]
Bounced(s, raw) == [s EXCEPT !.counter = 0, !.prev = raw]

\* The level is stable: it becomes the value, and !raw notes an event.
Accepted_StaysInState(s, raw) ==
    [s EXCEPT !.value = raw, !.pressed = IF raw = 0 THEN 1 ELSE @, !.counter = 0]
Accepted(s, raw) ==
    [s EXCEPT !.value = raw, !.pressed = IF raw = 0 THEN 1 ELSE @,
              !.state = "WaitChange", !.counter = 0]

\* debounce_switch: one tick of one button's state machine.
debounce_switch(s, raw) ==
    IF s.state = "WaitChange"
    THEN IF raw = s.prev
         THEN s
         ELSE [s EXCEPT !.prev = raw, !.state = "WaitStable"]
    ELSE IF raw # s.prev THEN Bounced(s, raw)
         ELSE IF Settled(s) THEN Accepted(s, raw)
         ELSE [s EXCEPT !.counter = @ + 1]

Sampled(pin) == /\ level' = pin
                /\ run' = [b \in Buttons |->
                             IF pin[b] # level[b] THEN 1
                             ELSE IF run[b] < RunCap THEN run[b] + 1
                             ELSE RunCap]

\* One Timer1 tick: sample both pins, step both debouncers.
GestBtn_Update == \E pin \in [Buttons -> Bit] :
    /\ sw' = [b \in Buttons |-> debounce_switch(sw[b], RawOf(pin[b]))]
    /\ Sampled(pin)
    /\ UNCHANGED <<scan, mask>>

ScanNext == IF scan = "OK" THEN "SELECT" ELSE "idle"

GestBtn_Scan_Begin == /\ scan = "idle"
                      /\ scan' = "OK"
                      /\ mask' = {}
                      /\ UNCHANGED <<sw, level, run>>

\* The button under test has no event.
GestBtn_Scan_Skip == /\ scan \in Buttons
                     /\ sw[scan].pressed = 0
                     /\ scan' = ScanNext
                     /\ UNCHANGED <<sw, mask, level, run>>

GestBtn_Scan_Take_NoClear == /\ scan \in Buttons
                             /\ sw[scan].pressed = 1
                             /\ mask' = mask \cup {scan}
                             /\ scan' = ScanNext
                             /\ UNCHANGED <<sw, level, run>>

\* It has one: report it and clear the flag, no tick in between.
GestBtn_Scan_Take == /\ scan \in Buttons
                     /\ sw[scan].pressed = 1
                     /\ mask' = mask \cup {scan}
                     /\ sw' = [sw EXCEPT ![scan].pressed = 0]
                     /\ scan' = ScanNext
                     /\ UNCHANGED <<level, run>>

\* It has one, and a tick lands between the load and the store of the byte:
\* state and counter keep the tick's update, the three bits lose it.
GestBtn_Scan_Torn == /\ scan \in Buttons
                     /\ sw[scan].pressed = 1
                     /\ mask' = mask \cup {scan}
                     /\ \E pin \in [Buttons -> Bit] :
                          /\ sw' = [b \in Buttons |->
                               LET s == debounce_switch(sw[b], RawOf(pin[b]))
                               IN  IF b = scan
                                   THEN [s EXCEPT !.prev = sw[b].prev,
                                                  !.value = sw[b].value,
                                                  !.pressed = 0]
                                   ELSE s]
                          /\ Sampled(pin)
                     /\ scan' = ScanNext

Next == \/ GestBtn_Update
        \/ GestBtn_Scan_Begin
        \/ GestBtn_Scan_Skip
        \/ GestBtn_Scan_Take
        \/ GestBtn_Scan_Torn

Spec == Init /\ [][Next]_vars
----------------------------------------------------------------------------
\* The tick has just noted an event of b.
Noted(b) == sw[b].pressed = 0 /\ sw'[b].pressed = 1

\* However long the buttons bounced and wherever a tick tore a scan, a pin
\* level sampled kMaxDebounceCount + 2 times in a row leaves debounce_switch
\* at rest on that level: it never stays stuck waiting for stability.
RestsOnStableLevel ==
    \A b \in Buttons : run[b] >= kMaxDebounceCount + 2 =>
        sw[b].state = "WaitChange" /\ sw[b].prev = RawOf(level[b])

\* An event is noted only on a pin that has just completed a stable run, once
\* per run and never while bouncing; the pin then reads 1, the level the
\* source calls released.  Torn scans may shorten or lengthen the run by one.
OneEventPerStableRun ==
    [][\A b \in Buttons : Noted(b) =>
          /\ level'[b] = 1
          /\ run'[b] \in kMaxDebounceCount .. kMaxDebounceCount + 2]_vars

\* GestBtn_Scan's contract: what it reports was noted by a tick since it was
\* last reported, and nothing noted disappears unreported.
Events == INSTANCE ButtonEvents
              WITH pending <- {b \in Buttons : sw[b].pressed = 1}

ImplementsButtonEvents == Events!Spec
=============================================================================
