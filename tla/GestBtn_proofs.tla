--------------------------- MODULE GestBtn_proofs ---------------------------
(***************************************************************************)
(* Theorems about GestBtn, for every debounce count.                       *)
(***************************************************************************)
EXTENDS GestBtn, TLAPS

\* Where one button's debouncer stands with respect to the samples it saw.
\* At rest it holds the sampled level.  Waiting, its count is the length of
\* the run, up to one tick more and two ticks less, unless a torn scan has
\* just put back the bits of the previous level: then nothing is pending.
Tracks(b) ==
    LET s == sw[b]
        r == RawOf(level[b])
    IN  \/ /\ s.state = "WaitChange"
           /\ s.prev = r
           /\ s.counter = 0
        \/ /\ s.state = "WaitStable"
           /\ s.prev = r
           /\ run[b] \in {s.counter, s.counter + 1, s.counter + 2}
           /\ run[b] >= 1
        \/ /\ s.state = "WaitStable"
           /\ s.prev # r
           /\ s.counter = 0
           /\ run[b] = 1
           /\ s.pressed = 0

\* The scan asks each button once: the one under test is not reported yet.
ScanInOrder == /\ scan = "OK" => mask = {}
               /\ scan = "SELECT" => mask \subseteq {"OK"}

IInv == TypeOK /\ ScanInOrder /\ \A b \in Buttons : Tracks(b)

LEMMA SampledType ==
    ASSUME TypeOK, NEW pin \in [Buttons -> Bit], Sampled(pin)
    PROVE  level' \in [Buttons -> Bit] /\ run' \in [Buttons -> 0 .. RunCap]
BY DebounceAssumption DEF TypeOK, Sampled, RunCap

\* What a tick makes of the history of b.
LEMMA SampledRun ==
    ASSUME TypeOK, NEW b \in Buttons,
           NEW pin \in [Buttons -> Bit], Sampled(pin)
    PROVE  /\ RawOf(pin[b]) \in Bit
           /\ RawOf(level'[b]) = RawOf(pin[b])
           /\ RawOf(level[b]) # RawOf(pin[b]) => run'[b] = 1
           /\ /\ RawOf(level[b]) = RawOf(pin[b])
              /\ run[b] < RunCap
              => run'[b] = run[b] + 1
<1>1. level[b] \in Bit /\ pin[b] \in Bit
  BY DEF TypeOK
<1>2. RawOf(level[b]) = RawOf(pin[b]) <=> pin[b] = level[b]
  BY <1>1 DEF RawOf, Bit
<1> QED BY <1>1, <1>2 DEF Sampled, RawOf, Bit

\* One tick that nothing tears keeps a button's debouncer on track.
LEMMA TickTracks ==
    ASSUME TypeOK, NEW b \in Buttons, Tracks(b),
           NEW pin \in [Buttons -> Bit], Sampled(pin),
           sw'[b] = debounce_switch(sw[b], RawOf(pin[b]))
    PROVE  sw'[b] \in Switch /\ Tracks(b)'
<1> DEFINE s == sw[b]
           raw == RawOf(pin[b])
<1>1. /\ s \in Switch /\ raw \in Bit /\ run[b] \in 0 .. RunCap
      /\ RawOf(level'[b]) = raw
      /\ RawOf(level[b]) # raw => run'[b] = 1
      /\ RawOf(level[b]) = raw /\ run[b] < RunCap => run'[b] = run[b] + 1
  BY SampledRun DEF TypeOK
<1>c. 0 \in 0 .. kMaxDebounceCount - 1
  BY DebounceAssumption
<1>2. CASE s.state = "WaitChange" /\ raw = s.prev
  <2>1. sw'[b] = s
    BY <1>2 DEF debounce_switch
  <2> QED BY <1>1, <1>2, <2>1 DEF Tracks
<1>3. CASE s.state = "WaitChange" /\ raw # s.prev
  <2>1. sw'[b] = [s EXCEPT !.prev = raw, !.state = "WaitStable"]
    BY <1>3 DEF debounce_switch
  <2>2. sw'[b] \in Switch /\ sw'[b].state = "WaitStable"
        /\ sw'[b].prev = raw /\ sw'[b].counter = s.counter
    BY <1>1, <2>1 DEF Switch
  <2>3. run'[b] = 1 /\ s.counter = 0
    BY <1>1, <1>3 DEF Tracks
  <2> QED BY <1>1, <2>2, <2>3 DEF Tracks
<1>4. CASE s.state = "WaitStable" /\ raw # s.prev
  <2>1. sw'[b] = [s EXCEPT !.counter = 0, !.prev = raw]
    BY <1>4 DEF debounce_switch, Bounced
  <2>2. sw'[b] \in Switch /\ sw'[b].state = "WaitStable"
        /\ sw'[b].prev = raw /\ sw'[b].counter = 0
    BY <1>1, <1>c, <1>4, <2>1 DEF Switch
  <2>3. run'[b] \in {1, 2}
    BY <1>1, <1>4, DebounceAssumption DEF Tracks, RunCap
  <2> QED BY <1>1, <2>2, <2>3 DEF Tracks
<1>5. CASE s.state = "WaitStable" /\ raw = s.prev /\ Settled(s)
  <2>1. sw'[b] = [s EXCEPT !.value = raw, !.pressed = IF raw = 0 THEN 1 ELSE @,
                           !.state = "WaitChange", !.counter = 0]
    BY <1>5 DEF debounce_switch, Accepted
  <2>2. sw'[b] \in Switch /\ sw'[b].state = "WaitChange"
        /\ sw'[b].prev = s.prev /\ sw'[b].counter = 0
    BY <1>1, <1>c, <2>1 DEF Switch, Bit
  <2> QED BY <1>1, <1>5, <2>2 DEF Tracks
<1>6. CASE s.state = "WaitStable" /\ raw = s.prev /\ ~Settled(s)
  <2>1. sw'[b] = [s EXCEPT !.counter = @ + 1]
    BY <1>6 DEF debounce_switch
  <2>2. s.counter \in Nat /\ s.counter + 1 \in 0 .. kMaxDebounceCount - 1
    BY <1>1, <1>6, DebounceAssumption DEF Settled, Switch
  <2>3. sw'[b] \in Switch /\ sw'[b].counter = s.counter + 1
        /\ sw'[b].state = "WaitStable" /\ sw'[b].prev = s.prev
    BY <1>1, <1>6, <2>1, <2>2 DEF Switch
  <2>4. CASE RawOf(level[b]) = raw
    <3>1. run[b] \in {s.counter, s.counter + 1, s.counter + 2} /\ run[b] >= 1
      BY <1>1, <1>6, <2>4 DEF Tracks
    <3>2. run[b] < RunCap
      BY <2>2, <3>1, DebounceAssumption DEF RunCap
    <3>3. run'[b] = run[b] + 1
      BY <1>1, <2>4, <3>2
    <3> QED BY <1>1, <1>6, <2>2, <2>3, <3>1, <3>3 DEF Tracks
  <2>5. CASE RawOf(level[b]) # raw
    <3>1. run'[b] = 1 /\ s.counter = 0
      BY <1>1, <1>6, <2>5 DEF Tracks
    <3> QED BY <1>1, <1>6, <2>3, <3>1 DEF Tracks
  <2> QED BY <2>4, <2>5
<1> QED BY <1>1, <1>2, <1>3, <1>4, <1>5, <1>6 DEF Switch

\* A tick inside the clearing of `pressed` keeps it on track too.
LEMMA TornTracks ==
    ASSUME TypeOK, NEW b \in Buttons, Tracks(b), sw[b].pressed = 1,
           NEW pin \in [Buttons -> Bit], Sampled(pin),
           sw'[b] = [debounce_switch(sw[b], RawOf(pin[b]))
                        EXCEPT !.prev = sw[b].prev, !.value = sw[b].value,
                               !.pressed = 0]
    PROVE  sw'[b] \in Switch /\ Tracks(b)'
<1> DEFINE s == sw[b]
           raw == RawOf(pin[b])
<1>1. /\ s \in Switch /\ raw \in Bit /\ run[b] \in 0 .. RunCap
      /\ RawOf(level'[b]) = raw
      /\ RawOf(level[b]) # raw => run'[b] = 1
      /\ RawOf(level[b]) = raw /\ run[b] < RunCap => run'[b] = run[b] + 1
  BY SampledRun DEF TypeOK
<1>c. 0 \in 0 .. kMaxDebounceCount - 1
  BY DebounceAssumption
<1> DEFINE t == debounce_switch(s, raw)
<1>t. ASSUME t \in Switch
      PROVE  /\ sw'[b] \in Switch /\ sw'[b].state = t.state
             /\ sw'[b].counter = t.counter
             /\ sw'[b].prev = s.prev /\ sw'[b].pressed = 0
  BY <1>1, <1>t DEF Switch, Bit
<1> HIDE DEF t
<1>2. CASE s.state = "WaitChange" /\ raw = s.prev
  <2>1. t = s
    BY <1>2 DEF debounce_switch, t
  <2> QED BY <1>1, <1>2, <1>t, <2>1 DEF Tracks
<1>3. CASE s.state = "WaitChange" /\ raw # s.prev
  <2>1. t = [s EXCEPT !.prev = raw, !.state = "WaitStable"]
    BY <1>3 DEF debounce_switch, t
  <2>2. t \in Switch /\ t.state = "WaitStable" /\ t.counter = s.counter
    BY <1>1, <2>1 DEF Switch
  <2>3. run'[b] = 1 /\ s.counter = 0
    BY <1>1, <1>3 DEF Tracks
  <2> QED BY <1>1, <1>3, <1>t, <2>2, <2>3 DEF Tracks
<1>4. CASE s.state = "WaitStable" /\ raw # s.prev
  <2>1. t = [s EXCEPT !.counter = 0, !.prev = raw]
    BY <1>4 DEF debounce_switch, Bounced, t
  <2>2. t \in Switch /\ t.state = "WaitStable" /\ t.counter = 0
    BY <1>1, <1>c, <1>4, <2>1 DEF Switch
  <2>3. run'[b] = 1
    BY <1>1, <1>4 DEF Tracks
  <2> QED BY <1>1, <1>4, <1>t, <2>2, <2>3 DEF Tracks
<1>5. CASE s.state = "WaitStable" /\ raw = s.prev /\ Settled(s)
  <2>1. t = [s EXCEPT !.value = raw, !.pressed = IF raw = 0 THEN 1 ELSE @,
                      !.state = "WaitChange", !.counter = 0]
    BY <1>5 DEF debounce_switch, Accepted, t
  <2>2. t \in Switch /\ t.state = "WaitChange" /\ t.counter = 0
    BY <1>1, <1>c, <2>1 DEF Switch, Bit
  <2> QED BY <1>1, <1>5, <1>t, <2>2 DEF Tracks
<1>6. CASE s.state = "WaitStable" /\ raw = s.prev /\ ~Settled(s)
  <2>1. t = [s EXCEPT !.counter = @ + 1]
    BY <1>6 DEF debounce_switch, t
  <2>2. s.counter \in Nat /\ s.counter + 1 \in 0 .. kMaxDebounceCount - 1
    BY <1>1, <1>6, DebounceAssumption DEF Settled, Switch
  <2>3. t \in Switch /\ t.counter = s.counter + 1 /\ t.state = "WaitStable"
    BY <1>1, <1>6, <2>1, <2>2 DEF Switch
  <2>4. run[b] \in {s.counter, s.counter + 1, s.counter + 2} /\ run[b] >= 1
        /\ RawOf(level[b]) = raw
    BY <1>1, <1>6 DEF Tracks
  <2>5. run[b] < RunCap
    BY <2>2, <2>4, DebounceAssumption DEF RunCap
  <2>6. run'[b] = run[b] + 1
    BY <1>1, <2>4, <2>5
  <2> QED BY <1>1, <1>6, <1>t, <2>2, <2>3, <2>4, <2>6 DEF Tracks
<1> QED BY <1>1, <1>2, <1>3, <1>4, <1>5, <1>6 DEF Switch

\* A tick notes an event only at the end of a stable run at level 1.
LEMMA TickNotes ==
    ASSUME TypeOK, NEW b \in Buttons, Tracks(b),
           NEW pin \in [Buttons -> Bit], Sampled(pin),
           sw'[b] = debounce_switch(sw[b], RawOf(pin[b])), Noted(b)
    PROVE  /\ level'[b] = 1
           /\ run'[b] \in kMaxDebounceCount .. kMaxDebounceCount + 2
<1> DEFINE s == sw[b]
           raw == RawOf(pin[b])
<1>1. /\ s \in Switch /\ raw \in Bit /\ run[b] \in 0 .. RunCap
      /\ RawOf(level'[b]) = raw
      /\ RawOf(level[b]) # raw => run'[b] = 1
      /\ RawOf(level[b]) = raw /\ run[b] < RunCap => run'[b] = run[b] + 1
  BY SampledRun DEF TypeOK
<1>2. s.state = "WaitStable" /\ raw = s.prev /\ Settled(s)
  <2>1. SUFFICES ASSUME ~(s.state = "WaitStable" /\ raw = s.prev /\ Settled(s))
                 PROVE  sw'[b].pressed = s.pressed
    BY DEF Noted
  <2>2. CASE s.state = "WaitChange" /\ raw = s.prev
    BY <2>2 DEF debounce_switch
  <2>3. CASE s.state = "WaitChange" /\ raw # s.prev
    <3>1. sw'[b] = [s EXCEPT !.prev = raw, !.state = "WaitStable"]
      BY <2>3 DEF debounce_switch
    <3> QED BY <1>1, <3>1 DEF Switch
  <2>4. CASE s.state = "WaitStable" /\ raw # s.prev
    <3>1. sw'[b] = [s EXCEPT !.counter = 0, !.prev = raw]
      BY <2>4 DEF debounce_switch, Bounced
    <3> QED BY <1>1, <3>1 DEF Switch
  <2>5. CASE s.state = "WaitStable" /\ raw = s.prev /\ ~Settled(s)
    <3>1. sw'[b] = [s EXCEPT !.counter = @ + 1]
      BY <2>5 DEF debounce_switch
    <3> QED BY <1>1, <3>1 DEF Switch
  <2> QED BY <1>1, <2>1, <2>2, <2>3, <2>4, <2>5 DEF Switch
<1>3. level'[b] = 1
  <2>1. sw'[b] = [s EXCEPT !.value = raw, !.pressed = IF raw = 0 THEN 1 ELSE @,
                           !.state = "WaitChange", !.counter = 0]
    BY <1>2 DEF debounce_switch, Accepted
  <2>2. raw = 0
    BY <1>1, <2>1 DEF Switch, Noted
  <2>3. level'[b] = pin[b] /\ pin[b] \in Bit
    BY DEF Sampled
  <2> QED BY <2>2, <2>3 DEF RawOf, Bit
<1>4. s.counter = kMaxDebounceCount - 1
  BY <1>1, <1>2, DebounceAssumption DEF Settled, Switch
<1>5. CASE RawOf(level[b]) = raw
  <2>1. run[b] \in {s.counter, s.counter + 1, s.counter + 2}
    BY <1>1, <1>2, <1>5 DEF Tracks
  <2>2. run[b] < RunCap
    BY <1>4, <2>1, DebounceAssumption DEF RunCap
  <2>3. run'[b] = run[b] + 1
    BY <1>1, <1>5, <2>2
  <2> QED BY <1>3, <1>4, <2>1, <2>3, DebounceAssumption
<1>6. CASE RawOf(level[b]) # raw
  <2>1. run'[b] = 1 /\ s.counter = 0
    BY <1>1, <1>2, <1>6 DEF Tracks
  <2> QED BY <1>3, <1>4, <2>1, DebounceAssumption
<1> QED BY <1>5, <1>6
----------------------------------------------------------------------------
LEMMA InitIInv == Init => IInv
<1> SUFFICES ASSUME Init PROVE IInv
  OBVIOUS
<1>1. GestBtn_Init \in Switch
  BY DebounceAssumption DEF GestBtn_Init, Switch, Bit
<1>2. TypeOK
  BY <1>1, DebounceAssumption DEF Init, TypeOK, Bit, RunCap
<1>3. ASSUME NEW b \in Buttons PROVE Tracks(b)
  <2>1. sw[b] = GestBtn_Init /\ level[b] = 0
    BY DEF Init
  <2> QED BY <2>1 DEF Tracks, GestBtn_Init, RawOf
<1> QED BY <1>2, <1>3 DEF IInv, Init, ScanInOrder

LEMMA StepIInv == IInv /\ [Next]_vars => IInv'
<1> SUFFICES ASSUME IInv, [Next]_vars PROVE IInv'
  OBVIOUS
<1> USE DEF IInv
<1>0. ScanInOrder'
  BY DEF ScanInOrder, TypeOK, Next, vars, GestBtn_Update, GestBtn_Scan_Begin,
         GestBtn_Scan_Skip, GestBtn_Scan_Take, GestBtn_Scan_Torn, ScanNext,
         Buttons
<1>1. CASE GestBtn_Update
  <2> PICK pin \in [Buttons -> Bit] :
        /\ sw' = [b \in Buttons |-> debounce_switch(sw[b], RawOf(pin[b]))]
        /\ Sampled(pin)
        /\ UNCHANGED <<scan, mask>>
    BY <1>1 DEF GestBtn_Update
  <2>1. \A b \in Buttons : sw'[b] \in Switch /\ Tracks(b)'
    BY TickTracks
  <2>2. TypeOK'
    BY SampledType, <2>1 DEF TypeOK
  <2> QED BY <1>0, <2>1, <2>2
<1>2. CASE GestBtn_Scan_Begin
  BY <1>0, <1>2 DEF GestBtn_Scan_Begin, TypeOK, Tracks, Buttons
<1>3. CASE GestBtn_Scan_Skip
  BY <1>0, <1>3 DEF GestBtn_Scan_Skip, ScanNext, TypeOK, Tracks, Buttons
<1>4. CASE GestBtn_Scan_Take
  <2>1. \A b \in Buttons : /\ sw'[b] \in Switch
                           /\ sw'[b].state = sw[b].state
                           /\ sw'[b].counter = sw[b].counter
                           /\ sw'[b].prev = sw[b].prev
                           /\ sw'[b].pressed \in {sw[b].pressed, 0}
    <3>1. sw' = [sw EXCEPT ![scan].pressed = 0] /\ 0 \in Bit
      BY <1>4 DEF GestBtn_Scan_Take, Bit
    <3> QED BY <3>1 DEF TypeOK, Switch
  <2>2. TypeOK'
    BY <1>4, <2>1 DEF GestBtn_Scan_Take, ScanNext, TypeOK, Buttons
  <2>3. \A b \in Buttons : Tracks(b)'
    BY <1>4, <2>1 DEF GestBtn_Scan_Take, Tracks
  <2> QED BY <1>0, <2>2, <2>3
<1>5. CASE GestBtn_Scan_Torn
  <2>1. PICK pin \in [Buttons -> Bit] :
        /\ sw' = [b \in Buttons |->
                    LET s == debounce_switch(sw[b], RawOf(pin[b]))
                    IN  IF b = scan
                        THEN [s EXCEPT !.prev = sw[b].prev,
                                       !.value = sw[b].value, !.pressed = 0]
                        ELSE s]
        /\ Sampled(pin)
    BY <1>5 DEF GestBtn_Scan_Torn
  <2>2. ASSUME NEW b \in Buttons PROVE sw'[b] \in Switch /\ Tracks(b)'
    <3>1. CASE b = scan
      <4>1. sw'[b] = [debounce_switch(sw[b], RawOf(pin[b]))
                        EXCEPT !.prev = sw[b].prev, !.value = sw[b].value,
                               !.pressed = 0]
        BY <2>1, <3>1
      <4>2. sw[b].pressed = 1
        BY <1>5, <3>1 DEF GestBtn_Scan_Torn
      <4> QED BY <2>1, <4>1, <4>2, TornTracks
    <3>2. CASE b # scan
      <4>1. sw'[b] = debounce_switch(sw[b], RawOf(pin[b]))
        BY <2>1, <3>2
      <4> QED BY <2>1, <4>1, TickTracks
    <3> QED BY <3>1, <3>2
  <2>3. TypeOK'
    <3>1. sw' = [b \in Buttons |-> sw'[b]]
      BY <2>1
    <3>2. scan' \in {"idle", "OK", "SELECT"} /\ mask' \in SUBSET Buttons
      BY <1>5 DEF GestBtn_Scan_Torn, ScanNext, TypeOK, Buttons
    <3> QED BY SampledType, <2>1, <2>2, <3>1, <3>2 DEF TypeOK
  <2> QED BY <1>0, <2>2, <2>3
<1>6. CASE UNCHANGED vars
  BY <1>0, <1>6 DEF vars, TypeOK, Tracks
<1> QED BY <1>1, <1>2, <1>3, <1>4, <1>5, <1>6 DEF Next

\* The debouncer and the history of each button stay on track for ever, which
\* includes that every variable keeps its type.
THEOREM Tracking == Spec => []IInv
<1> QED BY InitIInv, StepIInv, PTL DEF Spec

THEOREM TypeCorrect == Spec => []TypeOK
<1>1. IInv => TypeOK
  BY DEF IInv
<1> QED BY <1>1, Tracking, PTL

\* debounce_switch never stays waiting on a stable level, whatever the scans
\* of the super-loop tear.
THEOREM StableLevelRests == Spec => []RestsOnStableLevel
<1>1. IInv => RestsOnStableLevel
  <2> SUFFICES ASSUME IInv, NEW b \in Buttons, run[b] >= kMaxDebounceCount + 2
               PROVE  sw[b].state = "WaitChange" /\ sw[b].prev = RawOf(level[b])
    BY DEF RestsOnStableLevel
  <2>1. sw[b] \in Switch
    BY DEF IInv, TypeOK
  <2> QED BY <2>1, DebounceAssumption DEF IInv, Tracks, Switch
<1> QED BY <1>1, Tracking, PTL

\* Exactly one event per completed stable run.
THEOREM EventsAreDebounced == Spec => OneEventPerStableRun
<1>1. IInv /\ [Next]_vars =>
        [\A b \in Buttons : Noted(b) =>
           /\ level'[b] = 1
           /\ run'[b] \in kMaxDebounceCount .. kMaxDebounceCount + 2]_vars
  <2> SUFFICES ASSUME IInv, Next, NEW b \in Buttons, Noted(b)
               PROVE  /\ level'[b] = 1
                      /\ run'[b] \in kMaxDebounceCount .. kMaxDebounceCount + 2
    BY DEF vars
  <2>1. CASE GestBtn_Update
    BY <2>1, TickNotes DEF GestBtn_Update, IInv
  <2>2. CASE GestBtn_Scan_Begin \/ GestBtn_Scan_Skip
    BY <2>2 DEF GestBtn_Scan_Begin, GestBtn_Scan_Skip, Noted
  <2>3. CASE GestBtn_Scan_Take
    BY <2>3 DEF GestBtn_Scan_Take, Noted, IInv, TypeOK, Switch
  <2>4. CASE GestBtn_Scan_Torn
    <3>0. sw[scan].pressed = 1
      BY <2>4 DEF GestBtn_Scan_Torn
    <3>1. b # scan
      BY <3>0 DEF Noted
    <3>2. PICK pin \in [Buttons -> Bit] :
            sw'[b] = debounce_switch(sw[b], RawOf(pin[b])) /\ Sampled(pin)
      BY <2>4, <3>1 DEF GestBtn_Scan_Torn
    <3> QED BY <3>2, TickNotes DEF IInv
  <2> QED BY <2>1, <2>2, <2>3, <2>4 DEF Next
<1> QED BY <1>1, Tracking, PTL DEF Spec, OneEventPerStableRun
----------------------------------------------------------------------------
LEMMA TickType ==
    ASSUME NEW s \in Switch, NEW raw \in Bit
    PROVE  debounce_switch(s, raw) \in Switch
<1>c. 0 \in 0 .. kMaxDebounceCount - 1
  BY DebounceAssumption
<1>1. CASE s.state = "WaitChange"
  <2>1. \/ debounce_switch(s, raw) = s
        \/ debounce_switch(s, raw) = [s EXCEPT !.prev = raw, !.state = "WaitStable"]
    BY <1>1 DEF debounce_switch
  <2> QED BY <2>1 DEF Switch
<1>2. CASE s.state = "WaitStable" /\ raw # s.prev
  BY <1>c, <1>2 DEF debounce_switch, Bounced, Switch
<1>3. CASE s.state = "WaitStable" /\ raw = s.prev /\ Settled(s)
  BY <1>c, <1>3 DEF debounce_switch, Accepted, Switch, Bit
<1>4. CASE s.state = "WaitStable" /\ raw = s.prev /\ ~Settled(s)
  <2>1. s.counter + 1 \in 0 .. kMaxDebounceCount - 1
    BY <1>4, DebounceAssumption DEF Settled, Switch
  <2> QED BY <1>4, <2>1 DEF debounce_switch, Switch
<1> QED BY <1>1, <1>2, <1>3, <1>4 DEF Switch

\* A tick never takes back an event.
LEMMA TickKeepsEvents ==
    ASSUME NEW s \in Switch, NEW raw \in Bit, s.pressed = 1
    PROVE  debounce_switch(s, raw).pressed = 1
<1>1. CASE s.state = "WaitChange"
  <2>1. \/ debounce_switch(s, raw) = s
        \/ debounce_switch(s, raw) = [s EXCEPT !.prev = raw, !.state = "WaitStable"]
    BY <1>1 DEF debounce_switch
  <2> QED BY <2>1 DEF Switch
<1>2. CASE s.state = "WaitStable"
  <2>1. \/ debounce_switch(s, raw) = [s EXCEPT !.counter = 0, !.prev = raw]
        \/ debounce_switch(s, raw) = [s EXCEPT !.counter = @ + 1]
        \/ debounce_switch(s, raw) =
             [s EXCEPT !.value = raw, !.pressed = IF raw = 0 THEN 1 ELSE @,
                       !.state = "WaitChange", !.counter = 0]
    BY <1>2 DEF debounce_switch, Bounced, Accepted
  <2> QED BY <2>1 DEF Switch
<1> QED BY <1>1, <1>2 DEF Switch

Pending == {b \in Buttons : sw[b].pressed = 1}

\* GestBtn implements its contract: every event a scan reports was noted by a
\* tick since it was last reported, and only a scan that reports it removes it.
THEOREM Refinement == Spec => ImplementsButtonEvents
<1>1. Init => Events!Init
  BY DEF Init, Events!Init, GestBtn_Init
<1>2. IInv /\ [Next]_vars => [Events!Next]_(Events!vars)
  <2> SUFFICES ASSUME IInv, [Next]_vars
               PROVE  Events!Next \/ UNCHANGED <<Pending, mask>>
    BY DEF Events!vars, Pending
  <2> USE DEF Events!Next, Events!Post, Events!BeginScan, Events!Take
  <2>1. CASE GestBtn_Update
    <3>1. Pending \subseteq Pending'
      <4> SUFFICES ASSUME NEW b \in Buttons, sw[b].pressed = 1
                   PROVE  sw'[b].pressed = 1
        BY DEF Pending
      <4>1. PICK pin \in [Buttons -> Bit] :
              sw' = [c \in Buttons |-> debounce_switch(sw[c], RawOf(pin[c]))]
        BY <2>1 DEF GestBtn_Update
      <4>2. sw[b] \in Switch /\ RawOf(pin[b]) \in Bit
        BY DEF IInv, TypeOK, RawOf, Bit
      <4> QED BY <4>1, <4>2, TickKeepsEvents
    <3>2. Pending' = Pending \cup Pending' /\ Pending' \in SUBSET Buttons
      BY <3>1 DEF Pending
    <3>3. mask' = mask
      BY <2>1 DEF GestBtn_Update
    <3> QED BY <3>2, <3>3 DEF Pending
  <2>2. CASE GestBtn_Scan_Begin
    BY <2>2 DEF GestBtn_Scan_Begin, Pending
  <2>3. CASE GestBtn_Scan_Skip
    BY <2>3 DEF GestBtn_Scan_Skip, Pending
  <2>4. CASE GestBtn_Scan_Take
    <3>1. scan \in Pending /\ scan \notin mask
      BY <2>4 DEF GestBtn_Scan_Take, Pending, IInv, ScanInOrder, Buttons
    <3>2. Pending' = (Pending \cup {}) \ {scan}
      BY <2>4 DEF GestBtn_Scan_Take, Pending, IInv, TypeOK, Switch
    <3>3. scan \in Buttons /\ mask' = mask \cup {scan}
      BY <2>4 DEF GestBtn_Scan_Take
    <3> QED BY <3>1, <3>2, <3>3 DEF Pending
  <2>5. CASE GestBtn_Scan_Torn
    <3>1. scan \in Buttons /\ sw[scan].pressed = 1 /\ mask' = mask \cup {scan}
      BY <2>5 DEF GestBtn_Scan_Torn
    <3>2. scan \in Pending /\ scan \notin mask
      BY <3>1 DEF Pending, IInv, ScanInOrder, Buttons
    <3>3. PICK pin \in [Buttons -> Bit] :
            sw' = [b \in Buttons |->
                    LET s == debounce_switch(sw[b], RawOf(pin[b]))
                    IN  IF b = scan
                        THEN [s EXCEPT !.prev = sw[b].prev,
                                       !.value = sw[b].value, !.pressed = 0]
                        ELSE s]
      BY <2>5 DEF GestBtn_Scan_Torn
    <3>4. ASSUME NEW b \in Buttons, b # scan, sw[b].pressed = 1
          PROVE  sw'[b].pressed = 1
      <4>1. sw'[b] = debounce_switch(sw[b], RawOf(pin[b]))
        BY <3>3, <3>4
      <4>2. sw[b] \in Switch /\ RawOf(pin[b]) \in Bit
        BY DEF IInv, TypeOK, RawOf, Bit
      <4> QED BY <3>4, <4>1, <4>2, TickKeepsEvents
    <3>5. sw'[scan].pressed # 1
      <4>1. sw[scan] \in Switch /\ RawOf(pin[scan]) \in Bit
        BY <3>1 DEF IInv, TypeOK, RawOf, Bit
      <4>2. PICK t \in Switch :
              sw'[scan] = [t EXCEPT !.prev = sw[scan].prev,
                                    !.value = sw[scan].value, !.pressed = 0]
        BY <3>1, <3>3, <4>1, TickType
      <4> QED BY <4>2 DEF Switch
    <3>6. Pending' = (Pending \cup Pending') \ {scan}
      BY <3>4, <3>5 DEF Pending
    <3> QED BY <3>1, <3>2, <3>6 DEF Pending
  <2>6. CASE UNCHANGED vars
    BY <2>6 DEF vars, Pending
  <2> QED BY <2>1, <2>2, <2>3, <2>4, <2>5, <2>6 DEF Next
<1> QED BY <1>1, <1>2, Tracking, PTL DEF Spec, Events!Spec, ImplementsButtonEvents
=============================================================================
