-------------------------- MODULE TmrDriver_proofs --------------------------
(***************************************************************************)
(* Theorems about TmrDriver and Board, for every frequency of the system   *)
(* clock, every width of timer 1, whichever timers have a prescaler, every *)
(* set of prescalers and every value given to the timers                   *)
(* (TimeBasesCorrect: for the frequencies of system_config.h and menu.c).  *)
(*                                                                         *)
(* A call is the sequence todo of the writes still to be made, and timer   *)
(* 0's handler and the counters move between any two of them, so the       *)
(* invariant says of every moment of a call what the writes that are left  *)
(* will make of the registers (AtEnd, Before).  It is proved in three      *)
(* parts: what one write does to each of its conjuncts (WriteStep); that   *)
(* every call starts with writes that lead back to rest (ChipCall,         *)
(* PortsCall, TimerCall and the lemmas on the writes of each call); and    *)
(* what the hardware may change meanwhile (CountersChange, WaitEnds).      *)
(*                                                                         *)
(* While the clock of a timer is being written the timer stands still      *)
(* until the last of the writes (StandsStill), and what they leave is      *)
(* known from the start of the call (NewClock).                            *)
(***************************************************************************)
EXTENDS TmrDriver, SequenceTheorems, WellFoundedInduction, TLAPS

\* The writes of all calls.
ChipWrites ==
    [register : {"disable", "restore"}, value : {TRUE}]
      \cup [register : {"intOn", "unlocked", "sosc", "prefetch", "modify", "waiting"},
            value : BOOLEAN]
      \cup [register : {"pbDiv"}, value : Buses \X (Nat \ {0})]
      \cup [register : {"onWait"}, value : {"idle", "sleep"}]
      \cup [register : {"waitStates"}, value : 0 .. 7]
      \cup [register : {"operation"}, value : FlashOperations]
      \cup [register : {"i2cDivisor"}, value : Nat]
      \cup [register : {"icTimer"}, value : {"TMR2"}]

Remaps == RemapInputs \cup RemapOutputs

PortWrites ==
    [register : {"out", "digital", "openDrain"}, value : SUBSET Pin]
      \cup [register : {"lat"}, value : Channels \X SUBSET Pin]
      \cup [register : {"remapped"}, value : SUBSET Remaps]

TimerWrites ==
    [register : {"on", "ie", "flag", "stopInIdle", "Running", "extSync"}, value : BOOLEAN]
      \cup [register : {"counter", "period"}, value : Nat]
      \cup [register : {"source"}, value : {"internal", "pin", "other"}]
      \cup [register : {"prescale"}, value : Prescales \cup {1}]

Writes == ChipWrites \cup PortWrites \cup TimerWrites

\* The register r holds v before the n-th write of s, and after all of them,
\* if it holds `old` before the first.
Before(s, r, old, v, n) ==
    \/ old = v /\ \A k \in 1 .. n - 1 : s[k].register # r
    \/ \E m \in 1 .. n - 1 : /\ s[m].register = r /\ s[m].value = v
                             /\ \A k \in m + 1 .. n - 1 : s[k].register # r

AtEnd(s, r, old, v) == Before(s, r, old, v, Len(s) + 1)

\* After the n-th write of s one restores the interrupt enable, before any
\* other section begins.
RestoredAfter(s, n) ==
    \E m \in n + 1 .. Len(s) : /\ s[m].register = "restore"
                               /\ \A k \in n + 1 .. m - 1 : s[k].register # "disable"
----------------------------------------------------------------------------
\* What is left of a call after its first write.
LEMMA TailIs ==
    ASSUME NEW s \in Seq(Writes), s # <<>>
    PROVE  /\ Len(s) \in Nat \ {0}
           /\ Tail(s) \in Seq(Writes) /\ Len(Tail(s)) = Len(s) - 1
           /\ \A n \in 1 .. Len(s) - 1 : Tail(s)[n] = s[n + 1]
           /\ Head(s) = s[1]
           /\ \A n \in 1 .. Len(s) : s[n] \in Writes
  OBVIOUS

LEMMA BeforeStep ==
    ASSUME NEW s \in Seq(Writes), s # <<>>, NEW r, NEW old, NEW v,
           NEW n \in 1 .. Len(s), Before(s, r, old, v, n + 1),
           NEW now, IF Head(s).register = r THEN now = Head(s).value ELSE now = old
    PROVE  Before(Tail(s), r, now, v, n)
<1> DEFINE u == Tail(s)
<1>1. /\ Len(s) \in Nat \ {0} /\ Len(u) = Len(s) - 1
      /\ \A k \in 1 .. Len(s) - 1 : u[k] = s[k + 1]
      /\ Head(s) = s[1]
  BY TailIs
<1> HIDE DEF u
<1>2. CASE old = v /\ \A k \in 1 .. n : s[k].register # r
  <2>1. now = v
    BY <1>1, <1>2
  <2>2. \A k \in 1 .. n - 1 : u[k].register # r
    BY <1>1, <1>2
  <2> QED BY <2>1, <2>2 DEF Before, u
<1>3. ASSUME NEW m \in 1 .. n, s[m].register = r, s[m].value = v,
             \A k \in m + 1 .. n : s[k].register # r
      PROVE  Before(u, r, now, v, n)
  <2>1. \A k \in m .. n - 1 : u[k].register # r
    BY <1>1, <1>3
  <2>2. CASE m = 1
    BY <1>1, <1>3, <2>1, <2>2 DEF Before
  <2>3. CASE m # 1
    <3>1. m - 1 \in 1 .. n - 1 /\ u[m - 1].register = r /\ u[m - 1].value = v
      BY <1>1, <1>3, <2>3
    <3> QED BY <3>1, <2>1 DEF Before
  <2> QED BY <2>2, <2>3
<1>4. \/ old = v /\ \A k \in 1 .. n : s[k].register # r
      \/ \E m \in 1 .. n : /\ s[m].register = r /\ s[m].value = v
                           /\ \A k \in m + 1 .. n : s[k].register # r
  BY DEF Before
<1> QED BY <1>2, <1>3, <1>4 DEF u

LEMMA AtEndStep ==
    ASSUME NEW s \in Seq(Writes), s # <<>>, NEW r, NEW old, NEW v,
           AtEnd(s, r, old, v),
           NEW now, IF Head(s).register = r THEN now = Head(s).value ELSE now = old
    PROVE  AtEnd(Tail(s), r, now, v)
  BY BeforeStep, TailIs DEF AtEnd

\* A register the call does not write keeps its value.
LEMMA Untouched ==
    ASSUME NEW s \in Seq(Writes), NEW r, \A n \in 1 .. Len(s) : s[n].register # r,
           NEW v
    PROVE  AtEnd(s, r, v, v)
  BY DEF AtEnd, Before

LEMMA NothingToDo ==
    ASSUME NEW r, NEW old, NEW v, AtEnd(<<>>, r, old, v)
    PROVE  old = v
  BY DEF AtEnd, Before

LEMMA RestoredStep ==
    ASSUME NEW s \in Seq(Writes), s # <<>>, NEW n \in 0 .. Len(s) - 1,
           RestoredAfter(s, n + 1)
    PROVE  RestoredAfter(Tail(s), n)
<1> DEFINE u == Tail(s)
<1>1. /\ Len(s) \in Nat \ {0} /\ Len(u) = Len(s) - 1
      /\ \A k \in 1 .. Len(s) - 1 : u[k] = s[k + 1]
  BY TailIs
<1> HIDE DEF u
<1>2. PICK m \in n + 2 .. Len(s) : /\ s[m].register = "restore"
                                   /\ \A k \in n + 2 .. m - 1 : s[k].register # "disable"
  BY DEF RestoredAfter
<1>3. m - 1 \in n + 1 .. Len(u) /\ u[m - 1].register = "restore"
  BY <1>1, <1>2
<1>4. ASSUME NEW k \in n + 1 .. (m - 1) - 1 PROVE u[k].register # "disable"
  <2>1. k \in 1 .. Len(s) - 1 /\ k + 1 \in n + 2 .. m - 1
    BY <1>1
  <2>2. u[k] = s[k + 1]
    BY <1>1, <2>1
  <2> QED BY <1>2, <2>1, <2>2
<1> QED BY <1>3, <1>4 DEF RestoredAfter, u
----------------------------------------------------------------------------
\* What one write does to the processor.
LEMMA ChipStep ==
    ASSUME NEW w \in ChipWrites, chip \in Chip, chip' = ChipWritten(w)
    PROVE  /\ chip' \in Chip
           /\ chip'.intOn = IF w.register = "disable" THEN FALSE
                            ELSE IF w.register = "restore" THEN chip.intOn \/ chip.int_flag
                            ELSE IF w.register = "intOn" THEN w.value
                            ELSE chip.intOn
           /\ chip'.int_flag = IF w.register = "disable" THEN chip.intOn
                               ELSE chip.int_flag
           /\ chip'.unlocked = IF w.register = "unlocked" THEN w.value
                               ELSE chip.unlocked
           /\ chip'.modify = IF w.register = "modify" THEN w.value ELSE chip.modify
           /\ chip'.operation = IF w.register = "operation" /\ ~chip.modify
                                THEN w.value ELSE chip.operation
           /\ chip'.sosc = IF w.register = "sosc" /\ chip.unlocked
                           THEN w.value ELSE chip.sosc
           /\ chip'.onWait = IF w.register = "onWait" /\ chip.unlocked
                             THEN w.value ELSE chip.onWait
           /\ chip'.icTimer = IF w.register = "icTimer" THEN w.value ELSE chip.icTimer
           /\ chip'.pbDiv = IF w.register = "pbDiv" /\ chip.unlocked
                            THEN [chip.pbDiv EXCEPT ![w.value[1]] = w.value[2]]
                            ELSE chip.pbDiv
<1> USE DEF Chip
<1>1. CASE w.register = "disable"
  BY <1>1 DEF ChipWritten, ChipWrites, Protected
<1>9. CASE w.register = "restore"
  <2> DEFINE on == chip.intOn \/ chip.int_flag
  <2>1. chip' = [chip EXCEPT !.intOn = on]
    BY <1>9 DEF ChipWritten, Protected
  <2>2. on \in BOOLEAN
    OBVIOUS
  <2> HIDE DEF on
  <2>3. chip' \in Chip /\ chip'.intOn = on
    BY <2>1, <2>2
  <2> QED BY <1>9, <2>1, <2>3 DEF on
<1>2. CASE w.register \in {"intOn", "unlocked", "prefetch", "modify", "waiting"}
  BY <1>2 DEF ChipWritten, ChipWrites, Protected
<1>3. CASE w.register = "sosc"
  BY <1>3 DEF ChipWritten, ChipWrites, Protected
<1>4. CASE w.register = "pbDiv"
  <2>1. w.value \in Buses \X (Nat \ {0})
    BY <1>4 DEF ChipWrites
  <2>2. CASE ~chip.unlocked
    BY <1>4, <2>2 DEF ChipWritten, Protected
  <2>3. CASE chip.unlocked
    <3>1. chip' = [chip EXCEPT !.pbDiv = [@ EXCEPT ![w.value[1]] = w.value[2]]]
      BY <1>4, <2>3 DEF ChipWritten, Protected
    <3>2. [chip.pbDiv EXCEPT ![w.value[1]] = w.value[2]] \in [Buses -> Nat \ {0}]
      BY <2>1
    <3> QED BY <1>4, <2>3, <3>1, <3>2
  <2> QED BY <2>2, <2>3
<1>5. CASE w.register = "onWait"
  BY <1>5 DEF ChipWritten, ChipWrites, Protected
<1>6. CASE w.register \in {"waitStates", "i2cDivisor"}
  BY <1>6 DEF ChipWritten, ChipWrites, Protected
<1>7. CASE w.register = "operation"
  BY <1>7 DEF ChipWritten, ChipWrites, Protected
<1>8. CASE w.register = "icTimer"
  BY <1>8 DEF ChipWritten, ChipWrites, Protected
<1> QED BY <1>1, <1>2, <1>3, <1>4, <1>5, <1>6, <1>7, <1>8, <1>9 DEF ChipWrites
----------------------------------------------------------------------------
\* The invariant.

Calls == {"clk", "devcon", "i2c", "ic", "nvm", "tmr0", "tmr1", "ports", "int"}
BootOrder == <<"clk", "devcon", "i2c", "ic", "nvm", "tmr0", "tmr1", "ports", "int">>

Inputs == Read \cup {m[2] : m \in RemapInputs}

Left == Len(boot)

\* boot is what is left of SYS_Initialize; the registers have their types.
Shape ==
    /\ boot \in Seq(Calls) /\ Left <= 9
    /\ \A n \in 1 .. Left : boot[n] = BootOrder[9 - Left + n]
    /\ todo \in Seq(Writes)
    /\ chip \in Chip
    /\ port \in [lat : SUBSET Pin, out : SUBSET Pin, digital : SUBSET Pin,
                 openDrain : SUBSET Pin, remapped : SUBSET Remaps]
    /\ asked \in [sosc : BOOLEAN, onWait : {"idle", "sleep"},
                  operation : FlashOperations]
    /\ client \in 0 .. 2
    /\ reg \in [Timers -> Registers]
    /\ \A t \in Timers : /\ reg[t].counter <= Instance[t].top
                         /\ reg[t].period <= Instance[t].top
    /\ caller \in Timers
    /\ handler \in {"none", "callback", "clear"}
    /\ again \subseteq Timers
    /\ \A n \in 1 .. Len(todo) : todo[n].register \in {"counter", "period"}
                                   => todo[n].value <= Instance[caller].top

\* The device is locked again, a protected register is only written while it
\* is not, and the operation while the flash may not be modified; the call
\* then leaves the values it was asked for.
Device ==
    /\ AtEnd(todo, "unlocked", chip.unlocked, FALSE)
    /\ \A n \in 1 .. Len(todo) :
         /\ todo[n].register \in Protected =>
              Before(todo, "unlocked", chip.unlocked, TRUE, n)
         /\ todo[n].register = "operation" =>
              Before(todo, "modify", chip.modify, FALSE, n)
    /\ AtEnd(todo, "sosc", chip.sosc, asked.sosc)
    /\ AtEnd(todo, "onWait", chip.onWait, asked.onWait)
    /\ AtEnd(todo, "operation", chip.operation, asked.operation)

\* Each section gives the interrupt enable back, before the next one.
Interrupts ==
    /\ \A n \in 1 .. Len(todo) :
         /\ todo[n].register = "intOn" => todo[n].value
         /\ todo[n].register = "disable" => RestoredAfter(todo, n)
    /\ boot = <<>> => \/ chip.intOn
                      \/ chip.int_flag /\ RestoredAfter(todo, 0)
                      \/ todo = <<Write("intOn", TRUE)>>

\* The divisors of SYS_CLK_Initialize, and the timer that dates the captures.
Divisor(b) == CASE b = 2 -> 4 [] b = 3 -> 10 [] b = 7 -> 1 [] OTHER -> 2

Divided ==
    /\ \A n \in 1 .. Len(todo) :
         /\ todo[n].register = "pbDiv" =>
              Left = 8 /\ todo[n].value[2] = Divisor(todo[n].value[1])
         /\ todo[n].register = "icTimer" => Left = 5
    /\ Left < 9 => \A b \in Buses :
         \/ chip.pbDiv[b] = Divisor(b)
         \/ \E n \in 1 .. Len(todo) : todo[n].register = "pbDiv" /\ todo[n].value[1] = b
    /\ Left < 6 => AtEnd(todo, "icTimer", chip.icTimer, "TMR2")

\* A pin is driven only when its latch is low; once the call is done the pins
\* are configured.
Supplied(r, S) == \A p \in S :
    \/ p \in port[r]
    \/ \E n \in 1 .. Len(todo) : todo[n].register = r /\ p \in todo[n].value

PinsSafe ==
    /\ port.out \cap (port.lat \cup Inputs) = {}
    /\ \A n \in 1 .. Len(todo) :
         /\ todo[n].register \in {"lat", "out", "digital", "openDrain", "remapped"}
              => Left = 1
         /\ todo[n].register = "lat" => todo[n].value[2] = {}
         /\ todo[n].register = "out" => \A p \in todo[n].value :
              /\ p \notin Inputs
              /\ \/ p \notin port.lat
                 \/ \E m \in 1 .. n - 1 : todo[m].register = "lat" /\ todo[m].value[1] = p[1]
    /\ Left < 2 => /\ Supplied("out", Driven)
                        /\ Supplied("digital", Inputs)
                        /\ Supplied("remapped", Remaps)

\* A timer no call is working on runs or rests; the one of the call under way
\* will, and no request of its last session will be left.  A timer that was
\* initialised again stands still, whatever Running is.
Counting(t, v) == IF t \in again THEN FALSE ELSE v

Settled(t) == /\ reg[t].on = Counting(t, reg[t].Running)
              /\ reg[t].ie = reg[t].Running
              /\ ~reg[t].Running => ~reg[t].flag

WillRun(v) == /\ AtEnd(todo, "Running", reg[caller].Running, v)
              /\ AtEnd(todo, "on", reg[caller].on, Counting(caller, v))
              /\ AtEnd(todo, "ie", reg[caller].ie, v)

WillRest ==
    /\ \A n \in 1 .. Len(todo) : todo[n].register = "on" => ~todo[n].value
    /\ \/ ~reg[caller].flag /\ ~reg[caller].on
       \/ \E n \in 1 .. Len(todo) : /\ todo[n].register = "flag"
                                    /\ Before(todo, "on", reg[caller].on, FALSE, n)

TimersSettle ==
    /\ \A t \in Timers : t # caller => Settled(t)
    /\ WillRun(TRUE) \/ (WillRun(FALSE) /\ WillRest)
    /\ \A n \in 1 .. Len(todo) : /\ todo[n].register = "flag" => ~todo[n].value
                                 /\ todo[n].register = "Running" => boot = <<>>
    /\ boot # <<>> => \A t \in Timers : ~reg[t].Running

\* The clock DRV_TMRx_ClockSet leaves on timer t, which it found with clock c.
NewClock(t, s, p, c) ==
    [source   |-> IF Accepts(t, s) THEN SourceOf(s) ELSE c.source,
     extSync  |-> IF Accepts(t, s) /\ Instance[t].sync /\ s # "internal"
                  THEN s # "async" ELSE c.extSync,
     prescale |-> IF Accepts(t, s) /\ t \in Prescaled THEN p ELSE c.prescale]

NoClockLeft == \A n \in 1 .. Len(todo) : todo[n].register \notin ClockRegisters

\* The timer is off when the n-th write of s is made, if it is on or not now.
StillBefore(s, n, on) ==
    /\ \A m \in 1 .. n - 1 : s[m].register = "on" => s[m].value = FALSE
    /\ on = FALSE \/ \E m \in 1 .. n - 1 : s[m].register = "on"

ClockValues == [source : {"internal", "pin", "other"}, extSync : BOOLEAN,
           prescale : Prescales \cup {1}]

ClockCalls == [t : Timers, source : Sources, prescale : Prescales, before : ClockValues,
               ran : BOOLEAN, success : BOOLEAN]

\* The registers of the clock will be the new one's, and the timer stands still
\* until they are.
WillHave(k) == /\ AtEnd(todo, "source", reg[caller].source, k.source)
               /\ AtEnd(todo, "extSync", reg[caller].extSync, k.extSync)
               /\ AtEnd(todo, "prescale", reg[caller].prescale, k.prescale)

StandsStill ==
    /\ \A n \in 1 .. Len(todo) : todo[n].register \in ClockRegisters
                                   => StillBefore(todo, n, reg[caller].on)
    /\ reg[caller].on => ClockOf(caller) = clockCall.before \/ NoClockLeft

ClockCallKept ==
    /\ boot # <<>> => clockCall = NotClockSet
    /\ clockCall # NotClockSet =>
         /\ clockCall \in ClockCalls /\ clockCall.t = caller /\ caller \notin again
         /\ clockCall.success = (Accepts(caller, clockCall.source) /\ caller \in Prescaled)
         /\ WillHave(NewClock(caller, clockCall.source, clockCall.prescale, clockCall.before))
         /\ StandsStill
         /\ AtEnd(todo, "Running", reg[caller].Running, clockCall.ran)

\* A client that calls the services only leaves the tick at 1 ms.
TickKept ==
    client = 2 =>
        /\ \A t \in Timers : reg[t].prescale = 1
        /\ \A n \in 1 .. Len(todo) :
             /\ todo[n].register = "prescale" => todo[n].value = 1
             /\ todo[n].register = "period" => boot # <<>>
        /\ Left < 4 => IF caller = 0 THEN AtEnd(todo, "period", reg[0].period, 9999)
                            ELSE reg[0].period = 9999

IInv == /\ Shape /\ Device /\ Interrupts /\ Divided /\ PinsSafe
        /\ TimersSettle /\ ClockCallKept /\ TickKept
----------------------------------------------------------------------------
LEMMA LeftSame ==
    ASSUME boot' = boot
    PROVE  Left' = Left
  BY DEF Left

\* Between two calls.
LEMMA AtRest ==
    ASSUME IInv, todo = <<>>
    PROVE  /\ ~chip.unlocked
           /\ chip.sosc = asked.sosc /\ chip.onWait = asked.onWait
           /\ chip.operation = asked.operation
           /\ boot = <<>> => chip.intOn
           /\ Left < 9 => \A b \in Buses : chip.pbDiv[b] = Divisor(b)
           /\ Left < 6 => chip.icTimer = "TMR2"
           /\ Left < 2 => /\ Driven \subseteq port.out
                               /\ Inputs \subseteq port.digital
                               /\ Remaps \subseteq port.remapped
           /\ \A t \in Timers : Settled(t)
           /\ client = 2 /\ Left < 4 => reg[0].period = 9999
<1> USE DEF IInv
<1>0. /\ \A n \in 1 .. Len(todo) : FALSE
      /\ \A n : ~RestoredAfter(todo, 0)
      /\ Len(todo) = 0
  BY DEF RestoredAfter
<1>1. chip.unlocked = FALSE /\ chip.sosc = asked.sosc /\ chip.onWait = asked.onWait
      /\ chip.operation = asked.operation
  BY NothingToDo DEF Device
<1>2. boot = <<>> => chip.intOn
  <2>1. todo # <<Write("intOn", TRUE)>>
    OBVIOUS
  <2> QED BY <1>0, <2>1 DEF Interrupts
<1>3. Left < 9 => \A b \in Buses : chip.pbDiv[b] = Divisor(b)
  BY <1>0 DEF Divided
<1>4. Left < 6 => chip.icTimer = "TMR2"
  BY NothingToDo DEF Divided
<1>5. Left < 2 => /\ Driven \subseteq port.out
                       /\ Inputs \subseteq port.digital
                       /\ Remaps \subseteq port.remapped
  BY <1>0 DEF PinsSafe, Supplied
<1>6. Settled(caller)
  <2>1. reg[caller] \in Registers
    BY DEF Shape
  <2>2. ASSUME NEW v \in BOOLEAN, WillRun(v)
        PROVE  /\ reg[caller].Running = v /\ reg[caller].ie = v
               /\ reg[caller].on = Counting(caller, v)
    <3>1. PICK o : o = Counting(caller, v)
      OBVIOUS
    <3>2. /\ AtEnd(todo, "Running", reg[caller].Running, v)
          /\ AtEnd(todo, "on", reg[caller].on, o)
          /\ AtEnd(todo, "ie", reg[caller].ie, v)
      BY <2>2, <3>1 DEF WillRun
    <3> QED BY <3>1, <3>2, NothingToDo
  <2>3. CASE WillRun(TRUE)
    BY <2>2, <2>3 DEF Settled
  <2>4. CASE WillRun(FALSE) /\ WillRest
    <3>1. ~reg[caller].flag
      BY <1>0, <2>4 DEF WillRest
    <3> QED BY <2>2, <2>4, <3>1 DEF Settled
  <2> QED BY <2>3, <2>4 DEF TimersSettle
<1>7. \A t \in Timers : Settled(t)
  BY <1>6 DEF TimersSettle, Shape
<1>8. client = 2 /\ Left < 4 => reg[0].period = 9999
  BY NothingToDo DEF TickKept
<1> QED BY <1>1, <1>2, <1>3, <1>4, <1>5, <1>7, <1>8

LEMMA InitIInv == Init => IInv
<1> SUFFICES ASSUME Init PROVE IInv
  OBVIOUS
<1> USE TmrDriverAssumption DEF Init, BoardInit
<1>0. todo = <<>> /\ Len(todo) = 0 /\ (\A n \in 1 .. Len(todo) : FALSE)
      /\ boot # <<>> /\ Left = 9
  BY DEF Left
<1>1. Shape
  <2>1. boot \in Seq(Calls)
    BY DEF Calls
  <2>2. \A n \in 1 .. Left : boot[n] = BootOrder[9 - Left + n]
    BY <1>0 DEF BootOrder
  <2>3. chip \in Chip
    BY DEF Chip, FlashOperations
  <2>4. port \in [lat : SUBSET Pin, out : SUBSET Pin, digital : SUBSET Pin,
                  openDrain : SUBSET Pin, remapped : SUBSET Remaps]
    OBVIOUS
  <2>5. reg \in [Timers -> Registers]
    BY DEF Registers, Instance, Instance0, Instance1, Timers
  <2>6. \A t \in Timers : reg[t].counter <= Instance[t].top /\ reg[t].period <= Instance[t].top
    BY DEF Instance, Instance0, Instance1, Timers
  <2> QED BY <1>0, <2>1, <2>2, <2>3, <2>4, <2>5, <2>6 DEF Shape, FlashOperations, Timers
<1>2. Device
  BY <1>0 DEF Device, AtEnd, Before
<1>3. Interrupts
  BY <1>0 DEF Interrupts
<1>4. Divided
  BY <1>0 DEF Divided
<1>5. PinsSafe
  BY <1>0 DEF PinsSafe
<1>6. TimersSettle
  <2>1. \A t \in Timers : /\ reg[t].on = FALSE /\ reg[t].ie = FALSE
                          /\ reg[t].Running = FALSE /\ reg[t].flag = FALSE
    OBVIOUS
  <2>2. WillRun(FALSE)
    <3>1. \A r : AtEnd(todo, r, FALSE, FALSE)
      BY <1>0 DEF AtEnd, Before
    <3>2. caller \in Timers /\ Counting(caller, FALSE) = FALSE
      BY DEF Timers, Counting
    <3> QED BY <2>1, <3>1, <3>2 DEF WillRun
  <2>3. WillRest
    BY <1>0, <2>1 DEF WillRest, Timers
  <2>4. \A t \in Timers : Settled(t)
    BY <2>1 DEF Settled, Counting
  <2> QED BY <1>0, <2>1, <2>2, <2>3, <2>4 DEF TimersSettle
<1>7. ClockCallKept
  BY DEF ClockCallKept
<1>8. TickKept
  BY <1>0 DEF TickKept
<1> QED BY <1>1, <1>2, <1>3, <1>4, <1>5, <1>6, <1>7, <1>8 DEF IInv
----------------------------------------------------------------------------
\* The hardware's steps.

\* The processor's interrupt enable is left alone.
LEMMA InterruptsUnchanged ==
    ASSUME Interrupts, boot' = boot, todo' = todo,
           chip'.intOn = chip.intOn, chip'.int_flag = chip.int_flag
    PROVE  Interrupts'
<1>1. ASSUME NEW n PROVE RestoredAfter(todo, n)' <=> RestoredAfter(todo, n)
  BY DEF RestoredAfter
<1>2. \A n \in 1 .. Len(todo') :
         /\ todo'[n].register = "intOn" => todo'[n].value
         /\ todo'[n].register = "disable" => RestoredAfter(todo, n)'
  BY <1>1, Zenon DEF Interrupts
<1>3. boot' = <<>> => \/ chip'.intOn
                      \/ chip'.int_flag /\ RestoredAfter(todo, 0)'
                      \/ todo' = <<Write("intOn", TRUE)>>
  BY <1>1, Zenon DEF Interrupts
<1> QED BY <1>2, <1>3, Zenon DEF Interrupts, Write

\* The board is left alone.
LEMMA BoardUnchanged ==
    ASSUME IInv, UNCHANGED boardVars
    PROVE  Device' /\ Interrupts' /\ Divided' /\ PinsSafe'
<1> USE DEF IInv, boardVars
<1>1. Device'
  BY DEF Device, AtEnd, Before
<1>2. Interrupts'
  BY InterruptsUnchanged
<1>3. Divided'
  BY LeftSame DEF Divided, AtEnd, Before
<1>4. PinsSafe'
  BY LeftSame DEF PinsSafe, Supplied
<1> QED BY <1>1, <1>2, <1>3, <1>4

\* What a timer will do, when its registers are left alone.
LEMMA WillRunSame ==
    ASSUME NEW v, WillRun(v), UNCHANGED <<todo, caller, again>>,
           reg'[caller].on = reg[caller].on, reg'[caller].ie = reg[caller].ie,
           reg'[caller].Running = reg[caller].Running
    PROVE  WillRun(v)'
<1>1. PICK o : o = Counting(caller, v)
  OBVIOUS
<1>2. Counting(caller, v)' = o
  BY <1>1 DEF Counting
<1>3. /\ AtEnd(todo, "Running", reg[caller].Running, v)
      /\ AtEnd(todo, "on", reg[caller].on, o)
      /\ AtEnd(todo, "ie", reg[caller].ie, v)
  BY <1>1 DEF WillRun
<1>4. /\ AtEnd(todo', "Running", reg'[caller'].Running, v)
      /\ AtEnd(todo', "on", reg'[caller'].on, o)
      /\ AtEnd(todo', "ie", reg'[caller'].ie, v)
  BY <1>3
<1> QED BY <1>2, <1>4 DEF WillRun

LEMMA SettledSame ==
    ASSUME NEW t \in Timers, Settled(t), reg'[t] = reg[t], t \in again' <=> t \in again
    PROVE  Settled(t)'
  BY DEF Settled, Counting

\* The timer of a DRV_TMRx_ClockSet is left alone.
LEMMA ClockCallSame ==
    ASSUME ClockCallKept, UNCHANGED <<boot, todo, caller, clockCall, again>>,
           reg'[caller].on = reg[caller].on, reg'[caller].Running = reg[caller].Running,
           reg'[caller].source = reg[caller].source,
           reg'[caller].prescale = reg[caller].prescale,
           reg'[caller].extSync = reg[caller].extSync
    PROVE  ClockCallKept'
<1> DEFINE K == NewClock(caller, clockCall.source, clockCall.prescale, clockCall.before)
<1>1. WillHave(K) => WillHave(K)'
  BY DEF WillHave, NewClock, AtEnd, Before
<1>2. StandsStill => StandsStill'
  BY DEF StandsStill, StillBefore, ClockOf, NoClockLeft
<1>3. AtEnd(todo, "Running", reg[caller].Running, clockCall.ran)'
         <=> AtEnd(todo, "Running", reg[caller].Running, clockCall.ran)
  BY DEF AtEnd, Before
<1> QED BY <1>1, <1>2, <1>3 DEF ClockCallKept

\* Only the counters and the flags of the timers change.
LEMMA CountersChange ==
    ASSUME IInv, UNCHANGED <<boardVars, client, caller, clockCall, again>>,
           reg' \in [Timers -> Registers], handler' \in {"none", "callback", "clear"},
           \A t \in Timers :
             /\ reg'[t].on = reg[t].on /\ reg'[t].ie = reg[t].ie
             /\ reg'[t].Running = reg[t].Running /\ reg'[t].period = reg[t].period
             /\ reg'[t].source = reg[t].source /\ reg'[t].prescale = reg[t].prescale
             /\ reg'[t].extSync = reg[t].extSync
             /\ reg'[t].flag => reg[t].flag \/ reg[t].on
             /\ reg'[t].counter <= Instance[t].top
    PROVE  IInv'
<1> USE DEF IInv
<1>1. Device' /\ Interrupts' /\ Divided' /\ PinsSafe'
  BY BoardUnchanged
<1> USE DEF boardVars
<1>2. Shape'
  BY LeftSame DEF Shape
<1>3. caller \in Timers
  BY DEF Shape
<1>4. TimersSettle'
  <2>1. \A t \in Timers : Settled(t) => Settled(t)'
    BY DEF Settled, Counting
  <2>2. WillRun(TRUE) => WillRun(TRUE)'
    BY <1>3, WillRunSame
  <2>3. WillRun(FALSE) => WillRun(FALSE)'
    BY <1>3, WillRunSame
  <2>4. WillRest => WillRest'
    BY <1>3 DEF WillRest, Before
  <2> QED BY <2>1, <2>2, <2>3, <2>4 DEF TimersSettle
<1>5. ClockCallKept'
  BY <1>3, ClockCallSame
<1>6. TickKept'
  BY LeftSame DEF TickKept, AtEnd, Before, Timers
<1> QED BY <1>1, <1>2, <1>4, <1>5, <1>6

\* The smallest of a set of counts.
LEMMA Least ==
    ASSUME NEW S \in SUBSET Nat, S # {}
    PROVE  Min(S) \in S
<1>1. PICK n \in S : \A k \in S : ~(<<k, n>> \in OpToRel(<, Nat))
  BY WFMin, NatLessThanWellFounded, Zenon
<1>2. \A k \in S : n <= k
  <2> TAKE k \in S
  <2>1. ~(k < n)
    BY <1>1, Zenon DEF OpToRel
  <2> QED BY <2>1
<1> QED BY <1>2 DEF Min

LEMMA CutFits ==
    ASSUME NEW t \in Timers, NEW v \in Nat
    PROVE  Cut(t, v) \in Nat /\ Cut(t, v) <= Instance[t].top
<1>1. Instance[t].top \in Nat
  BY TmrDriverAssumption DEF Instance, Instance0, Instance1, Timers
<1>2. ASSUME NEW d \in Nat PROVE v % (d + 1) \in Nat /\ v % (d + 1) <= d
  OBVIOUS
<1> QED BY <1>1, <1>2 DEF Cut

LEMMA CountStep ==
    ASSUME IInv, NEW t \in Timers, Count(t)
    PROVE  IInv'
<1> DEFINE above == {m \in Marks(t) : m > reg[t].counter}
           c == IF reg[t].counter = reg[t].period \/ above = {} THEN 0 ELSE Min(above)
           f == reg[t].flag \/ reg[t].counter = reg[t].period
<1>1. reg \in [Timers -> Registers] /\ reg[t].period <= Instance[t].top
  BY DEF IInv, Shape
<1>2. Instance[t].top \in Nat
  BY TmrDriverAssumption DEF Instance, Instance0, Instance1, Timers
<1>3. \A m \in Marks(t) : m \in Nat /\ m <= Instance[t].top
  <2>1. \A v \in Counters : Cut(t, v) \in Nat /\ Cut(t, v) <= Instance[t].top
    BY CutFits, TmrDriverAssumption
  <2>2. reg[t].period \in Nat
    BY <1>1 DEF Registers
  <2> QED BY <1>1, <1>2, <2>1, <2>2 DEF Marks
<1>4. c \in Nat /\ c <= Instance[t].top
  <2>1. CASE reg[t].counter # reg[t].period /\ above # {}
    <3>1. above \in SUBSET Nat
      BY <1>3
    <3>2. Min(above) \in above
      BY <2>1, <3>1, Least
    <3> QED BY <1>3, <2>1, <3>2
  <2> QED BY <1>2, <2>1
<1>5. reg' = [reg EXCEPT ![t].counter = c, ![t].flag = f] /\ reg[t].on
  BY DEF Count
<1>6. f \in BOOLEAN
  OBVIOUS
<1> HIDE DEF c, f
<1>7. reg' = [reg EXCEPT ![t] = [reg[t] EXCEPT !.counter = c, !.flag = f]]
  BY <1>1, <1>5
<1>8. /\ reg' \in [Timers -> Registers]
      /\ reg'[t].counter = c
      /\ \A u \in Timers : u # t => reg'[u] = reg[u]
      /\ /\ reg'[t].on = reg[t].on /\ reg'[t].ie = reg[t].ie
         /\ reg'[t].Running = reg[t].Running /\ reg'[t].period = reg[t].period
         /\ reg'[t].source = reg[t].source /\ reg'[t].prescale = reg[t].prescale
         /\ reg'[t].extSync = reg[t].extSync
  <2> DEFINE r == [reg[t] EXCEPT !.counter = c, !.flag = f]
  <2>1. /\ r \in Registers /\ r.counter = c
        /\ r.on = reg[t].on /\ r.ie = reg[t].ie
        /\ r.Running = reg[t].Running /\ r.period = reg[t].period
        /\ r.source = reg[t].source /\ r.prescale = reg[t].prescale
        /\ r.extSync = reg[t].extSync
    BY <1>1, <1>4, <1>6 DEF Registers
  <2>2. reg' = [reg EXCEPT ![t] = r]
    BY <1>7
  <2> HIDE DEF r
  <2> QED BY <1>1, <2>1, <2>2
<1>9. UNCHANGED <<boardVars, client, caller, handler, clockCall, again>>
  BY DEF Count
<1>10. \A u \in Timers : reg'[u].counter <= Instance[u].top
  BY <1>4, <1>8 DEF IInv, Shape
<1>11. handler' \in {"none", "callback", "clear"}
  BY <1>9 DEF IInv, Shape
<1> QED BY <1>5, <1>8, <1>9, <1>10, <1>11, CountersChange

LEMMA HandlerStep ==
    ASSUME IInv, Handler_Returns \/ Handler_Clear
    PROVE  IInv'
<1>1. reg \in [Timers -> Registers] /\ (\A t \in Timers : reg[t].counter <= Instance[t].top)
  BY DEF IInv, Shape
<1>2. CASE Handler_Returns
  BY <1>1, <1>2, CountersChange DEF Handler_Returns
<1>3. CASE Handler_Clear
  <2>1. reg' = [reg EXCEPT ![0] = [reg[0] EXCEPT !.flag = FALSE]]
    BY <1>1, <1>3 DEF Handler_Clear
  <2>2. /\ reg' \in [Timers -> Registers]
        /\ \A u \in Timers : u # 0 => reg'[u] = reg[u]
        /\ /\ reg'[0].on = reg[0].on /\ reg'[0].ie = reg[0].ie
           /\ reg'[0].Running = reg[0].Running /\ reg'[0].period = reg[0].period
           /\ reg'[0].source = reg[0].source /\ reg'[0].prescale = reg[0].prescale
           /\ reg'[0].extSync = reg[0].extSync /\ reg'[0].counter = reg[0].counter
           /\ reg'[0].flag = FALSE
    BY <1>1, <2>1 DEF Registers, Timers
  <2> QED BY <1>1, <1>3, <2>2, CountersChange DEF Handler_Clear
<1> QED BY <1>2, <1>3

\* The end of a wait.
LEMMA WaitEnds ==
    ASSUME IInv, chip' = [chip EXCEPT !.waiting = FALSE],
           UNCHANGED <<boot, todo, port, asked, client, reg, caller, clockCall, again>>,
           handler' \in {"none", "callback", "clear"}
    PROVE  IInv'
<1> USE DEF IInv
<1>1. /\ chip' \in Chip
      /\ chip'.unlocked = chip.unlocked /\ chip'.modify = chip.modify
      /\ chip'.sosc = chip.sosc /\ chip'.onWait = chip.onWait
      /\ chip'.operation = chip.operation /\ chip'.intOn = chip.intOn
      /\ chip'.int_flag = chip.int_flag /\ chip'.pbDiv = chip.pbDiv
      /\ chip'.icTimer = chip.icTimer
  BY DEF Shape, Chip
<1>2. Shape'
  BY <1>1, LeftSame DEF Shape
<1>3. Device'
  BY <1>1 DEF Device, AtEnd, Before
<1>4. Interrupts'
  BY <1>1, InterruptsUnchanged
<1>5. Divided'
  BY <1>1, LeftSame DEF Divided, AtEnd, Before
<1>6. PinsSafe' /\ ClockCallKept' /\ TickKept'
  BY LeftSame, ClockCallSame DEF PinsSafe, Supplied, TickKept, AtEnd, Before
<1>7. TimersSettle'
  <2>1. \A t \in Timers : Settled(t) => Settled(t)'
    BY SettledSame
  <2>2. WillRun(TRUE) => WillRun(TRUE)'
    BY WillRunSame
  <2>3. WillRun(FALSE) => WillRun(FALSE)'
    BY WillRunSame
  <2>4. WillRest => WillRest'
    BY DEF WillRest, Before
  <2> QED BY <2>1, <2>2, <2>3, <2>4 DEF TimersSettle
<1> QED BY <1>2, <1>3, <1>4, <1>5, <1>6, <1>7
----------------------------------------------------------------------------
\* The writes of a call, one by one.

\* Those of one kind leave alone what the others are about.
LEMMA RegistersOf ==
    ASSUME NEW w \in Writes
    PROVE  /\ w \in ChipWrites =>
                w.register \notin {"lat", "out", "digital", "openDrain", "remapped", "on",
                                   "ie", "flag", "stopInIdle", "Running", "counter",
                                   "period", "source", "extSync", "prescale"}
           /\ w \in PortWrites =>
                w.register \in {"lat", "out", "digital", "openDrain", "remapped"}
           /\ w \in TimerWrites =>
                w.register \in {"on", "ie", "flag", "stopInIdle", "Running", "counter",
                                "period", "source", "extSync", "prescale"}
  BY DEF ChipWrites, PortWrites, TimerWrites

\* The device, when the write is not the device's.
LEMMA DeviceStep ==
    ASSUME IInv, todo # <<>>, todo' = Tail(todo), UNCHANGED <<asked, boot>>,
           LET w == Head(todo)
           IN  /\ chip'.unlocked = IF w.register = "unlocked" THEN w.value
                                   ELSE chip.unlocked
               /\ chip'.modify = IF w.register = "modify" THEN w.value ELSE chip.modify
               /\ chip'.operation = IF w.register = "operation" /\ ~chip.modify
                                    THEN w.value ELSE chip.operation
               /\ chip'.sosc = IF w.register = "sosc" /\ chip.unlocked
                               THEN w.value ELSE chip.sosc
               /\ chip'.onWait = IF w.register = "onWait" /\ chip.unlocked
                                 THEN w.value ELSE chip.onWait
    PROVE  Device'
<1> DEFINE w == Head(todo)
<1> USE DEF IInv
<1>0. todo \in Seq(Writes) /\ chip \in Chip
  BY DEF Shape
<1>1. /\ Len(todo) \in Nat \ {0} /\ todo' \in Seq(Writes) /\ Len(todo') = Len(todo) - 1
      /\ \A n \in 1 .. Len(todo) - 1 : todo'[n] = todo[n + 1]
      /\ w = todo[1] /\ 1 \in 1 .. Len(todo)
  BY <1>0, TailIs
<1>2. AtEnd(todo, "unlocked", chip.unlocked, FALSE)'
  BY <1>0, AtEndStep DEF Device
<1>3. ASSUME NEW n \in 1 .. Len(todo')
      PROVE  /\ todo'[n].register \in Protected =>
                  Before(todo', "unlocked", chip'.unlocked, TRUE, n)
             /\ todo'[n].register = "operation" =>
                  Before(todo', "modify", chip'.modify, FALSE, n)
  <2>1. n \in 1 .. Len(todo) /\ n + 1 \in 1 .. Len(todo) /\ todo'[n] = todo[n + 1]
    BY <1>1
  <2>2. ASSUME todo'[n].register \in Protected
        PROVE  Before(todo', "unlocked", chip'.unlocked, TRUE, n)
    <3>1. Before(todo, "unlocked", chip.unlocked, TRUE, n + 1)
      BY <2>1, <2>2 DEF Device
    <3> QED BY <1>0, <2>1, <3>1, BeforeStep
  <2>3. ASSUME todo'[n].register = "operation"
        PROVE  Before(todo', "modify", chip'.modify, FALSE, n)
    <3>1. Before(todo, "modify", chip.modify, FALSE, n + 1)
      BY <2>1, <2>3 DEF Device
    <3> QED BY <1>0, <2>1, <3>1, BeforeStep
  <2> QED BY <2>2, <2>3
<1>4. w.register \in Protected => chip.unlocked = TRUE
  <2>1. w.register \in Protected => Before(todo, "unlocked", chip.unlocked, TRUE, 1)
    BY <1>1 DEF Device
  <2> QED BY <2>1 DEF Before
<1>5. w.register = "operation" => chip.modify = FALSE
  <2>1. w.register = "operation" => Before(todo, "modify", chip.modify, FALSE, 1)
    BY <1>1 DEF Device
  <2> QED BY <2>1 DEF Before
<1>6. AtEnd(todo, "sosc", chip.sosc, asked.sosc)'
  <2>1. IF w.register = "sosc" THEN chip'.sosc = w.value ELSE chip'.sosc = chip.sosc
    BY <1>4 DEF Protected
  <2> QED BY <1>0, <2>1, AtEndStep DEF Device
<1>7. AtEnd(todo, "onWait", chip.onWait, asked.onWait)'
  <2>1. IF w.register = "onWait" THEN chip'.onWait = w.value ELSE chip'.onWait = chip.onWait
    BY <1>4 DEF Protected
  <2> QED BY <1>0, <2>1, AtEndStep DEF Device
<1>8. AtEnd(todo, "operation", chip.operation, asked.operation)'
  <2>1. IF w.register = "operation" THEN chip'.operation = w.value
        ELSE chip'.operation = chip.operation
    BY <1>5
  <2> QED BY <1>0, <2>1, AtEndStep DEF Device
<1> QED BY <1>2, <1>3, <1>6, <1>7, <1>8 DEF Device, Protected

LEMMA InterruptsStep ==
    ASSUME IInv, todo # <<>>, todo' = Tail(todo), UNCHANGED <<asked, boot>>,
           LET w == Head(todo)
           IN  /\ chip'.intOn = IF w.register = "disable" THEN FALSE
                                ELSE IF w.register = "restore"
                                     THEN chip.intOn \/ chip.int_flag
                                ELSE IF w.register = "intOn" THEN w.value
                                ELSE chip.intOn
               /\ chip'.int_flag = IF w.register = "disable" THEN chip.intOn
                                   ELSE chip.int_flag
    PROVE  Interrupts'
<1> DEFINE w == Head(todo)
<1> USE DEF IInv
<1>0. todo \in Seq(Writes) /\ chip \in Chip
  BY DEF Shape
<1>1. /\ Len(todo) \in Nat \ {0} /\ todo' \in Seq(Writes) /\ Len(todo') = Len(todo) - 1
      /\ \A n \in 1 .. Len(todo) - 1 : todo'[n] = todo[n + 1]
      /\ w = todo[1] /\ 1 \in 1 .. Len(todo)
  BY <1>0, TailIs
<1>2. ASSUME NEW n \in 1 .. Len(todo')
      PROVE  /\ todo'[n].register = "intOn" => todo'[n].value
             /\ todo'[n].register = "disable" => RestoredAfter(todo', n)
  <2>1. n + 1 \in 1 .. Len(todo) /\ todo'[n] = todo[n + 1]
    BY <1>1
  <2>2. todo'[n].register = "intOn" => todo'[n].value
    BY <2>1, Zenon DEF Interrupts
  <2>3. ASSUME todo'[n].register = "disable"
        PROVE  RestoredAfter(todo', n)
    <3>1. RestoredAfter(todo, n + 1)
      BY <2>1, <2>3, Zenon DEF Interrupts
    <3>2. n \in 0 .. Len(todo) - 1
      BY <1>1
    <3> QED BY <1>0, <3>1, <3>2, RestoredStep
  <2> QED BY <2>2, <2>3
<1>3. ASSUME boot = <<>>
      PROVE  \/ chip'.intOn
             \/ chip'.int_flag /\ RestoredAfter(todo', 0)
             \/ todo' = <<Write("intOn", TRUE)>>
  <2>0. /\ chip.intOn \in BOOLEAN /\ chip.int_flag \in BOOLEAN
        /\ chip'.intOn = IF w.register = "disable" THEN FALSE
                         ELSE IF w.register = "restore" THEN chip.intOn \/ chip.int_flag
                         ELSE IF w.register = "intOn" THEN w.value
                         ELSE chip.intOn
        /\ chip'.int_flag = IF w.register = "disable" THEN chip.intOn
                            ELSE chip.int_flag
    BY <1>0 DEF Chip
  <2>1. CASE todo = <<Write("intOn", TRUE)>>
    <3>1. w.register = "intOn" /\ w.value = TRUE
      BY <2>1 DEF Write
    <3> QED BY <2>0, <3>1
  <2>2. CASE chip.intOn
    <3>1. w.register = "disable" => RestoredAfter(todo, 1)
      BY <1>1, Zenon DEF Interrupts
    <3>2. w.register = "disable" => RestoredAfter(todo', 0)
      BY <1>0, <1>1, <3>1, RestoredStep
    <3>3. w.register = "intOn" => w.value
      BY <1>1, Zenon DEF Interrupts
    <3>4. w.register # "disable" => chip'.intOn
      BY <2>0, <2>2, <3>3
    <3>5. w.register = "disable" => chip'.int_flag
      BY <2>0, <2>2
    <3> QED BY <3>2, <3>4, <3>5
  <2>3. CASE chip.int_flag /\ RestoredAfter(todo, 0)
    <3>1. PICK m \in 1 .. Len(todo) : /\ todo[m].register = "restore"
                                      /\ \A k \in 1 .. m - 1 : todo[k].register # "disable"
      BY <2>3 DEF RestoredAfter
    <3>2. CASE m = 1
      BY <1>1, <2>0, <2>3, <3>1, <3>2
    <3>3. CASE m # 1
      <4>1. w.register # "disable"
        BY <1>1, <3>1, <3>3
      <4>2. chip'.int_flag
        BY <2>0, <2>3, <4>1
      <4>3. m - 1 \in 1 .. Len(todo') /\ todo'[m - 1].register = "restore"
        BY <1>1, <3>1, <3>3
      <4>4. \A k \in 1 .. (m - 1) - 1 : todo'[k].register # "disable"
        BY <1>1, <3>1
      <4>5. RestoredAfter(todo', 0)
        <5>1. m - 1 \in 0 + 1 .. Len(todo')
          BY <4>3
        <5>2. \A k \in 0 + 1 .. (m - 1) - 1 : todo'[k].register # "disable"
          BY <4>4
        <5> QED BY <4>3, <5>1, <5>2, Zenon DEF RestoredAfter
      <4> QED BY <4>2, <4>5
    <3> QED BY <3>2, <3>3
  <2> QED BY <1>3, <2>1, <2>2, <2>3, Zenon DEF Interrupts
<1>4. \A n : RestoredAfter(todo, n)' = RestoredAfter(todo', n)
  BY DEF RestoredAfter
<1> QED BY <1>2, <1>3, <1>4, Zenon DEF Interrupts, Write

LEMMA DividedStep ==
    ASSUME IInv, todo # <<>>, todo' = Tail(todo), UNCHANGED <<asked, boot>>,
           LET w == Head(todo)
           IN  /\ chip'.icTimer = IF w.register = "icTimer" THEN w.value ELSE chip.icTimer
               /\ chip'.pbDiv = IF w.register = "pbDiv" /\ chip.unlocked
                                THEN [chip.pbDiv EXCEPT ![w.value[1]] = w.value[2]]
                                ELSE chip.pbDiv
    PROVE  Divided'
<1> DEFINE w == Head(todo)
<1> USE DEF IInv
<1>0. todo \in Seq(Writes) /\ chip.pbDiv \in [Buses -> Nat \ {0}]
  BY DEF Shape, Chip
<1>1. /\ Len(todo) \in Nat \ {0} /\ todo' \in Seq(Writes) /\ Len(todo') = Len(todo) - 1
      /\ \A n \in 1 .. Len(todo) - 1 : todo'[n] = todo[n + 1]
      /\ w = todo[1] /\ 1 \in 1 .. Len(todo)
  BY <1>0, TailIs
<1>2. \A n \in 1 .. Len(todo') :
         /\ todo'[n].register = "pbDiv" =>
              Left' = 8 /\ todo'[n].value[2] = Divisor(todo'[n].value[1])
         /\ todo'[n].register = "icTimer" => Left' = 5
  BY <1>1, LeftSame DEF Divided
<1>3. w.register = "pbDiv" => chip.unlocked = TRUE
  <2>1. w.register = "pbDiv" => Before(todo, "unlocked", chip.unlocked, TRUE, 1)
    BY <1>1 DEF Device, Protected
  <2> QED BY <2>1 DEF Before
<1>4. ASSUME Left < 9, NEW b \in Buses
      PROVE  \/ chip'.pbDiv[b] = Divisor(b)
             \/ \E n \in 1 .. Len(todo') : todo'[n].register = "pbDiv" /\ todo'[n].value[1] = b
  <2>1. CASE w.register = "pbDiv" /\ w.value[1] = b
    <3>1. chip'.pbDiv[b] = w.value[2]
      BY <1>0, <1>3, <2>1
    <3>2. w.value[2] = Divisor(b)
      BY <1>1, <2>1 DEF Divided
    <3> QED BY <3>1, <3>2
  <2>2. CASE ~(w.register = "pbDiv" /\ w.value[1] = b)
    <3>1. chip'.pbDiv[b] = chip.pbDiv[b]
      BY <1>0, <2>2
    <3>2. CASE chip.pbDiv[b] = Divisor(b)
      BY <3>1, <3>2
    <3>3. ASSUME NEW n \in 1 .. Len(todo), todo[n].register = "pbDiv" /\ todo[n].value[1] = b
          PROVE  n - 1 \in 1 .. Len(todo') /\ todo'[n - 1] = todo[n]
      BY <1>1, <2>2, <3>3
    <3>4. \/ chip.pbDiv[b] = Divisor(b)
          \/ \E n \in 1 .. Len(todo) : todo[n].register = "pbDiv" /\ todo[n].value[1] = b
      BY <1>4 DEF Divided
    <3>5. CASE \E n \in 1 .. Len(todo) : todo[n].register = "pbDiv" /\ todo[n].value[1] = b
      <4>1. PICK n \in 1 .. Len(todo) : todo[n].register = "pbDiv" /\ todo[n].value[1] = b
        BY <3>5
      <4> HIDE DEF w
      <4> QED BY <3>3, <4>1
    <3> QED BY <3>2, <3>4, <3>5
  <2> QED BY <2>1, <2>2
<1>5. Left < 6 => AtEnd(todo, "icTimer", chip.icTimer, "TMR2")'
  BY <1>0, AtEndStep DEF Divided
<1> QED BY <1>2, <1>4, <1>5, LeftSame DEF Divided

\* What one write does to the pins.
Pins == [lat : SUBSET Pin, out : SUBSET Pin, digital : SUBSET Pin,
         openDrain : SUBSET Pin, remapped : SUBSET Remaps]

PinsWritten(w) ==
    /\ port' \in Pins
    /\ port'.out = IF w.register = "out" THEN port.out \cup w.value ELSE port.out
    /\ port'.digital = IF w.register = "digital" THEN port.digital \cup w.value
                       ELSE port.digital
    /\ port'.remapped = IF w.register = "remapped" THEN port.remapped \cup w.value
                        ELSE port.remapped
    /\ port'.lat = IF w.register = "lat"
                   THEN {p \in port.lat : p[1] # w.value[1]} \cup w.value[2]
                   ELSE port.lat

LEMMA PortStep ==
    ASSUME NEW w \in PortWrites, port \in Pins, port' = PortWritten(w)
    PROVE  PinsWritten(w)
<1> USE DEF Pins
<1>1. CASE w.register = "lat"
  <2>1. w.value \in Channels \X SUBSET Pin
    BY <1>1 DEF PortWrites
  <2> DEFINE l == {p \in port.lat : p[1] # w.value[1]} \cup w.value[2]
  <2>2. port' = [port EXCEPT !.lat = l]
    BY <1>1 DEF PortWritten
  <2>3. l \in SUBSET Pin
    BY <2>1
  <2> HIDE DEF l
  <2>4. port' \in Pins /\ port'.lat = l /\ port'.out = port.out
        /\ port'.digital = port.digital /\ port'.remapped = port.remapped
    BY <2>2, <2>3
  <2> QED BY <1>1, <2>4 DEF PinsWritten, l
<1>2. CASE w.register \in {"out", "digital", "openDrain"}
  <2>1. w.value \in SUBSET Pin
    BY <1>2 DEF PortWrites
  <2>2. port' = [port EXCEPT ![w.register] = @ \cup w.value]
    BY <1>2 DEF PortWritten
  <2> QED BY <1>2, <2>1, <2>2 DEF PinsWritten
<1>3. CASE w.register = "remapped"
  <2>1. w.value \in SUBSET Remaps
    BY <1>3 DEF PortWrites
  <2>2. port' = [port EXCEPT !.remapped = @ \cup w.value]
    BY <1>3 DEF PortWritten
  <2> QED BY <1>3, <2>1, <2>2 DEF PinsWritten
<1> QED BY <1>1, <1>2, <1>3 DEF PortWrites

LEMMA PinsStep ==
    ASSUME IInv, todo # <<>>, todo' = Tail(todo), UNCHANGED <<asked, boot>>,
           PinsWritten(Head(todo))
    PROVE  PinsSafe'
<1> DEFINE w == Head(todo)
<1> USE DEF IInv
<1>0. todo \in Seq(Writes) /\ port \in Pins
  BY DEF Shape, Pins
<1>1. /\ Len(todo) \in Nat \ {0} /\ todo' \in Seq(Writes) /\ Len(todo') = Len(todo) - 1
      /\ \A n \in 1 .. Len(todo) - 1 : todo'[n] = todo[n + 1]
      /\ w = todo[1] /\ 1 \in 1 .. Len(todo)
  BY <1>0, TailIs
<1>w. /\ port'.out = IF w.register = "out" THEN port.out \cup w.value ELSE port.out
      /\ port'.digital = IF w.register = "digital" THEN port.digital \cup w.value
                         ELSE port.digital
      /\ port'.remapped = IF w.register = "remapped" THEN port.remapped \cup w.value
                          ELSE port.remapped
      /\ port'.lat = IF w.register = "lat"
                     THEN {p \in port.lat : p[1] # w.value[1]} \cup w.value[2]
                     ELSE port.lat
  BY DEF PinsWritten
<1> HIDE DEF w
<1>2. w.register = "out" => \A p \in w.value : p \notin Inputs /\ p \notin port.lat
  BY <1>1 DEF PinsSafe
<1>3. w.register = "lat" => w.value[2] = {}
  BY <1>1 DEF PinsSafe
<1>4. port'.lat \subseteq port.lat
  BY <1>w, <1>3
<1>5. port'.out \cap (port'.lat \cup Inputs) = {}
  BY <1>w, <1>2, <1>4 DEF PinsSafe
<1>6. ASSUME NEW n \in 1 .. Len(todo')
      PROVE  /\ todo'[n].register \in {"lat", "out", "digital", "openDrain", "remapped"}
                  => Left' = 1
             /\ todo'[n].register = "lat" => todo'[n].value[2] = {}
  BY <1>1, LeftSame DEF PinsSafe
<1>7. ASSUME NEW n \in 1 .. Len(todo'), todo'[n].register = "out",
             NEW p \in todo'[n].value
      PROVE  /\ p \notin Inputs
             /\ \/ p \notin port'.lat
                \/ \E m \in 1 .. n - 1 : todo'[m].register = "lat" /\ todo'[m].value[1] = p[1]
  <2>1. n + 1 \in 1 .. Len(todo) /\ todo'[n] = todo[n + 1]
    BY <1>1
  <2>2. /\ p \notin Inputs
        /\ \/ p \notin port.lat
           \/ \E m \in 1 .. n : todo[m].register = "lat" /\ todo[m].value[1] = p[1]
    BY <1>7, <2>1 DEF PinsSafe
  <2>3. ASSUME NEW m \in 1 .. n, todo[m].register = "lat", todo[m].value[1] = p[1], m # 1
        PROVE  /\ m - 1 \in 1 .. n - 1 /\ todo'[m - 1].register = "lat"
               /\ todo'[m - 1].value[1] = p[1]
    BY <1>1, <2>3
  <2>4. ASSUME todo[1].register = "lat", todo[1].value[1] = p[1]
        PROVE  p \notin port'.lat
    BY <1>1, <1>w, <1>3, <2>4
  <2> QED BY <1>4, <2>2, <2>3, <2>4
<1>8. ASSUME Left < 2, NEW r \in {"out", "digital", "remapped"}, NEW S, Supplied(r, S)
      PROVE  \A p \in S :
               \/ p \in port'[r]
               \/ \E n \in 1 .. Len(todo') : todo'[n].register = r /\ p \in todo'[n].value
  <2> TAKE p \in S
  <2>1. CASE p \in port[r]
    BY <1>w, <2>1
  <2>2. ASSUME NEW n \in 1 .. Len(todo), todo[n].register = r, p \in todo[n].value
        PROVE  \/ p \in port'[r]
               \/ \E k \in 1 .. Len(todo') : todo'[k].register = r /\ p \in todo'[k].value
    <3>1. CASE n = 1
      BY <1>1, <1>w, <2>2, <3>1
    <3>2. CASE n # 1
      <4>1. n - 1 \in 1 .. Len(todo') /\ todo'[n - 1] = todo[n]
        BY <1>1, <3>2
      <4> QED BY <2>2, <4>1
    <3> QED BY <3>1, <3>2
  <2> QED BY <1>8, <2>1, <2>2 DEF Supplied
<1>9. Left' < 2 => /\ Supplied("out", Driven)'
                        /\ Supplied("digital", Inputs)'
                        /\ Supplied("remapped", Remaps)'
  <2> SUFFICES ASSUME Left < 2
               PROVE  /\ Supplied("out", Driven)'
                      /\ Supplied("digital", Inputs)'
                      /\ Supplied("remapped", Remaps)'
    BY LeftSame
  <2>1. Supplied("out", Driven) /\ Supplied("digital", Inputs) /\ Supplied("remapped", Remaps)
    BY DEF PinsSafe
  <2>2. Supplied("out", Driven)'
    BY <1>8, <2>1 DEF Supplied
  <2>3. Supplied("digital", Inputs)'
    BY <1>8, <2>1 DEF Supplied
  <2>4. Supplied("remapped", Remaps)'
    BY <1>8, <2>1 DEF Supplied
  <2> QED BY <2>2, <2>3, <2>4
<1> QED BY <1>5, <1>6, <1>7, <1>9 DEF PinsSafe
----------------------------------------------------------------------------
\* The timer of the call, when a write is one of its own or not.
TimerWritten(w) ==
    LET c == reg[caller]
        d == reg'[caller]
    IN /\ d.on = IF w.register = "on" THEN w.value ELSE c.on
       /\ d.ie = IF w.register = "ie" THEN w.value ELSE c.ie
       /\ d.flag = IF w.register = "flag" THEN w.value ELSE c.flag
       /\ d.Running = IF w.register = "Running" THEN w.value ELSE c.Running
       /\ d.period = IF w.register = "period" THEN w.value ELSE c.period
       /\ d.counter = IF w.register = "counter" THEN w.value ELSE c.counter
       /\ d.source = IF w.register = "source" THEN w.value ELSE c.source
       /\ d.prescale = IF w.register = "prescale" THEN w.value ELSE c.prescale
       /\ d.extSync = IF w.register = "extSync" THEN w.value ELSE c.extSync

LEMMA TimerStep ==
    ASSUME NEW w \in TimerWrites, reg \in [Timers -> Registers], caller \in Timers,
           reg' = [reg EXCEPT ![caller] = Written(@, w)]
    PROVE  /\ reg' \in [Timers -> Registers]
           /\ \A t \in Timers : t # caller => reg'[t] = reg[t]
           /\ TimerWritten(w)
<1> DEFINE c == reg[caller]
<1>1. reg' = [reg EXCEPT ![caller] = Written(c, w)] /\ c \in Registers
  OBVIOUS
<1> HIDE DEF c
<1>2. Written(c, w) \in Registers
  <2>1. CASE w.register \in {"source", "prescale"}
    BY <1>1, <2>1 DEF Written, TimerWrites, Registers
  <2>2. CASE w.register \in {"on", "ie", "flag", "stopInIdle", "Running", "extSync"}
    BY <1>1, <2>2 DEF Written, TimerWrites, Registers
  <2>3. CASE w.register \in {"counter", "period"}
    BY <1>1, <2>3 DEF Written, TimerWrites, Registers
  <2> QED BY <2>1, <2>2, <2>3 DEF TimerWrites
<1> DEFINE d == Written(c, w)
<1>3. /\ d.on = IF w.register = "on" THEN w.value ELSE c.on
      /\ d.ie = IF w.register = "ie" THEN w.value ELSE c.ie
      /\ d.flag = IF w.register = "flag" THEN w.value ELSE c.flag
      /\ d.Running = IF w.register = "Running" THEN w.value ELSE c.Running
      /\ d.period = IF w.register = "period" THEN w.value ELSE c.period
      /\ d.counter = IF w.register = "counter" THEN w.value ELSE c.counter
      /\ d.source = IF w.register = "source" THEN w.value ELSE c.source
      /\ d.prescale = IF w.register = "prescale" THEN w.value ELSE c.prescale
      /\ d.extSync = IF w.register = "extSync" THEN w.value ELSE c.extSync
  <2>1. CASE w.register \in {"source", "prescale"}
    BY <1>1, <2>1 DEF Written, TimerWrites, Registers
  <2>2. CASE w.register \in {"on", "ie", "flag", "stopInIdle", "Running", "extSync"}
    BY <1>1, <2>2 DEF Written, TimerWrites, Registers
  <2>3. CASE w.register \in {"counter", "period"}
    BY <1>1, <2>3 DEF Written, TimerWrites, Registers
  <2> QED BY <2>1, <2>2, <2>3 DEF TimerWrites
<1> HIDE DEF d
<1>4. reg'[caller] = d /\ reg' \in [Timers -> Registers]
      /\ \A t \in Timers : t # caller => reg'[t] = reg[t]
  BY <1>1, <1>2 DEF d
<1> QED BY <1>3, <1>4 DEF TimerWritten, c

\* A write of a DRV_TMRx_ClockSet.
LEMMA StandsStillStep ==
    ASSUME StandsStill, todo \in Seq(Writes), todo # <<>>, todo' = Tail(todo),
           UNCHANGED <<caller, clockCall>>, TimerWritten(Head(todo))
    PROVE  StandsStill'
<1> DEFINE w == Head(todo)
           c == reg[caller]
           d == reg'[caller]
<1>1. /\ Len(todo) \in Nat \ {0} /\ Len(todo') = Len(todo) - 1
      /\ w = todo[1] /\ 1 \in 1 .. Len(todo)
      /\ \A n \in 1 .. Len(todo') : n + 1 \in 1 .. Len(todo) /\ todo'[n] = todo[n + 1]
  BY TailIs
<1>w. /\ d.on = IF w.register = "on" THEN w.value ELSE c.on
      /\ d.source = IF w.register = "source" THEN w.value ELSE c.source
      /\ d.prescale = IF w.register = "prescale" THEN w.value ELSE c.prescale
      /\ d.extSync = IF w.register = "extSync" THEN w.value ELSE c.extSync
  BY DEF TimerWritten
<1> HIDE DEF w, c, d
<1>2. ASSUME NEW n \in 1 .. Len(todo'), todo'[n].register \in ClockRegisters
      PROVE  /\ StillBefore(todo', n, d.on)
             /\ w.register = "on" => d.on = FALSE
  <2>1. StillBefore(todo, n + 1, c.on)
    BY <1>1, <1>2 DEF StandsStill, c
  <2>2. \A m \in 1 .. n : todo[m].register = "on" => todo[m].value = FALSE
    BY <1>1, <2>1 DEF StillBefore
  <2>3. \A m \in 1 .. n - 1 : todo'[m] = todo[m + 1] /\ m + 1 \in 1 .. n
    BY <1>1
  <2>4. w.register = "on" => d.on = FALSE
    BY <1>1, <1>w, <2>2
  <2>5. \A m \in 1 .. n - 1 : todo'[m].register = "on" => todo'[m].value = FALSE
    BY <2>2, <2>3
  <2>6. d.on = FALSE \/ \E m \in 1 .. n - 1 : todo'[m].register = "on"
    <3>1. CASE w.register = "on"
      BY <2>4, <3>1
    <3>2. CASE w.register # "on" /\ c.on = FALSE
      BY <1>w, <3>2
    <3>3. ASSUME w.register # "on", NEW m \in 1 .. n, todo[m].register = "on"
          PROVE  \E k \in 1 .. n - 1 : todo'[k].register = "on"
      <4>1. m # 1
        BY <1>1, <3>3
      <4>2. m - 1 \in 1 .. n - 1 /\ (m - 1) + 1 = m
        BY <4>1
      <4> QED BY <2>3, <3>3, <4>2
    <3>4. c.on = FALSE \/ \E m \in 1 .. n : todo[m].register = "on"
      BY <1>1, <2>1 DEF StillBefore
    <3> QED BY <3>1, <3>2, <3>3, <3>4
  <2> QED BY <2>4, <2>5, <2>6 DEF StillBefore
<1>3. ASSUME d.on, ~NoClockLeft' PROVE ClockOf(caller)' = clockCall.before
  <2>1. PICK n \in 1 .. Len(todo') : todo'[n].register \in ClockRegisters
    BY <1>3 DEF NoClockLeft
  <2>2. w.register # "on"
    BY <1>2, <1>3, <2>1
  <2>3. c.on /\ ~NoClockLeft
    BY <1>1, <1>3, <1>w, <2>1, <2>2 DEF NoClockLeft
  <2>4. ClockOf(caller) = clockCall.before
    BY <2>3 DEF StandsStill, c
  <2>5. w.register \notin ClockRegisters
    <3>1. StillBefore(todo, 1, c.on) => c.on = FALSE
      BY DEF StillBefore
    <3> QED BY <1>1, <2>3, <3>1 DEF StandsStill, c
  <2>6. d.source = c.source /\ d.prescale = c.prescale /\ d.extSync = c.extSync
    BY <1>w, <2>5 DEF ClockRegisters
  <2> QED BY <2>4, <2>6 DEF ClockOf, c, d
<1> QED BY <1>2, <1>3 DEF StandsStill, d

LEMMA ClockCallStep ==
    ASSUME ClockCallKept, todo \in Seq(Writes), todo # <<>>, todo' = Tail(todo),
           UNCHANGED <<boot, caller, clockCall, again>>, TimerWritten(Head(todo))
    PROVE  ClockCallKept'
<1> DEFINE w == Head(todo)
           c == reg[caller]
           d == reg'[caller]
           K == NewClock(caller, clockCall.source, clockCall.prescale, clockCall.before)
<1>w. /\ d.Running = IF w.register = "Running" THEN w.value ELSE c.Running
      /\ d.source = IF w.register = "source" THEN w.value ELSE c.source
      /\ d.prescale = IF w.register = "prescale" THEN w.value ELSE c.prescale
      /\ d.extSync = IF w.register = "extSync" THEN w.value ELSE c.extSync
  BY DEF TimerWritten
<1>1. ASSUME WillHave(K) PROVE WillHave(K)'
  <2>1. K' = K
    BY DEF NewClock
  <2>2. PICK k : k = K
    OBVIOUS
  <2>3. WillHave(k)
    BY <1>1, <2>2
  <2> HIDE DEF K
  <2>4. /\ AtEnd(todo', "source", d.source, k.source)
        /\ AtEnd(todo', "extSync", d.extSync, k.extSync)
        /\ AtEnd(todo', "prescale", d.prescale, k.prescale)
    BY <1>w, <2>3, AtEndStep DEF WillHave
  <2> QED BY <2>1, <2>2, <2>4 DEF WillHave
<1>2. ASSUME AtEnd(todo, "Running", c.Running, clockCall.ran)
      PROVE  AtEnd(todo', "Running", d.Running, clockCall.ran)
  BY <1>w, <1>2, AtEndStep
<1>3. StandsStill => StandsStill'
  BY StandsStillStep
<1> QED BY <1>1, <1>2, <1>3 DEF ClockCallKept

LEMMA TimersStep ==
    ASSUME IInv, todo # <<>>, todo' = Tail(todo),
           UNCHANGED <<boot, client, caller, clockCall, again>>,
           reg' \in [Timers -> Registers],
           \A t \in Timers : t # caller => reg'[t] = reg[t],
           TimerWritten(Head(todo))
    PROVE  TimersSettle' /\ ClockCallKept' /\ TickKept'
<1> DEFINE w == Head(todo)
           c == reg[caller]
           d == reg'[caller]
<1> USE DEF IInv
<1>0. todo \in Seq(Writes) /\ reg \in [Timers -> Registers] /\ caller \in Timers
      /\ client \in 0 .. 2
  BY DEF Shape
<1>1. /\ Len(todo) \in Nat \ {0} /\ todo' \in Seq(Writes) /\ Len(todo') = Len(todo) - 1
      /\ \A n \in 1 .. Len(todo) - 1 : todo'[n] = todo[n + 1]
      /\ w = todo[1] /\ 1 \in 1 .. Len(todo)
      /\ \A n \in 1 .. Len(todo') : n + 1 \in 1 .. Len(todo) /\ todo'[n] = todo[n + 1]
  BY <1>0, TailIs
<1>w. /\ d.on = IF w.register = "on" THEN w.value ELSE c.on
      /\ d.ie = IF w.register = "ie" THEN w.value ELSE c.ie
      /\ d.flag = IF w.register = "flag" THEN w.value ELSE c.flag
      /\ d.Running = IF w.register = "Running" THEN w.value ELSE c.Running
      /\ d.period = IF w.register = "period" THEN w.value ELSE c.period
      /\ d.source = IF w.register = "source" THEN w.value ELSE c.source
      /\ d.prescale = IF w.register = "prescale" THEN w.value ELSE c.prescale
      /\ d.extSync = IF w.register = "extSync" THEN w.value ELSE c.extSync
  BY DEF TimerWritten
<1>2. ASSUME NEW v, WillRun(v) PROVE WillRun(v)'
  <2>1. AtEnd(todo', "Running", d.Running, v)
    BY <1>0, <1>w, <1>2, AtEndStep DEF WillRun
  <2>2. AtEnd(todo', "on", d.on, Counting(caller, v))
    BY <1>0, <1>w, <1>2, AtEndStep DEF WillRun
  <2>3. AtEnd(todo', "ie", d.ie, v)
    BY <1>0, <1>w, <1>2, AtEndStep DEF WillRun
  <2> QED BY <2>1, <2>2, <2>3 DEF WillRun, Counting
<1>3. ASSUME WillRest PROVE WillRest'
  <2>1. \A n \in 1 .. Len(todo') : todo'[n].register = "on" => ~todo'[n].value
    <3>1. \A n \in 1 .. Len(todo) : todo[n].register = "on" => ~todo[n].value
      BY <1>3, Zenon DEF WillRest
    <3> TAKE n \in 1 .. Len(todo')
    <3>2. n + 1 \in 1 .. Len(todo) /\ todo'[n] = todo[n + 1]
      BY <1>1
    <3>3. todo[n + 1].register = "on" => ~todo[n + 1].value
      BY <3>1, <3>2, Zenon
    <3> QED BY <3>2, <3>3, Zenon
  <2>2. w.register = "on" => ~w.value
    <3>1. \A n \in 1 .. Len(todo) : todo[n].register = "on" => ~todo[n].value
      BY <1>3, Zenon DEF WillRest
    <3> QED BY <1>1, <3>1, Zenon
  <2>3. w.register = "flag" => ~w.value
    BY <1>1, Zenon DEF TimersSettle
  <2>4. CASE ~c.flag /\ ~c.on
    <3>1. ~d.flag /\ ~d.on
      BY <1>w, <2>2, <2>3, <2>4
    <3> QED BY <2>1, <3>1 DEF WillRest
  <2>5. ASSUME NEW n \in 1 .. Len(todo), todo[n].register = "flag",
               Before(todo, "on", c.on, FALSE, n)
        PROVE  WillRest'
    <3>1. CASE n = 1
      <4>1. c.on = FALSE
        BY <2>5, <3>1 DEF Before
      <4>2. ~d.flag /\ ~d.on
        BY <1>1, <1>w, <2>3, <2>5, <3>1, <4>1
      <4> QED BY <2>1, <4>2 DEF WillRest
    <3>2. CASE n # 1
      <4>1. /\ n - 1 \in 1 .. Len(todo') /\ n - 1 \in 1 .. Len(todo) /\ (n - 1) + 1 = n
            /\ todo'[n - 1] = todo[n]
        BY <1>1, <3>2
      <4>2. Before(todo', "on", d.on, FALSE, n - 1)
        BY <1>0, <1>w, <2>5, <4>1, BeforeStep
      <4> QED BY <2>1, <2>5, <4>1, <4>2 DEF WillRest
    <3> QED BY <3>1, <3>2
  <2> QED BY <1>3, <2>4, <2>5 DEF WillRest
<1>4. TimersSettle'
  <2>1. \A t \in Timers : t # caller' => Settled(t)'
    BY DEF TimersSettle, Settled, Counting
  <2>2. \A n \in 1 .. Len(todo') : /\ todo'[n].register = "flag" => ~todo'[n].value
                                   /\ todo'[n].register = "Running" => boot' = <<>>
    <3>1. \A n \in 1 .. Len(todo) : /\ todo[n].register = "flag" => ~todo[n].value
                                    /\ todo[n].register = "Running" => boot = <<>>
      BY Zenon DEF TimersSettle
    <3> TAKE n \in 1 .. Len(todo')
    <3>2. n + 1 \in 1 .. Len(todo) /\ todo'[n] = todo[n + 1]
      BY <1>1
    <3>3. /\ todo[n + 1].register = "flag" => ~todo[n + 1].value
          /\ todo[n + 1].register = "Running" => boot = <<>>
      BY <3>1, <3>2, Zenon
    <3> QED BY <3>2, <3>3, Zenon
  <2>3. boot' # <<>> => \A t \in Timers : ~reg'[t].Running
    BY <1>1, <1>w DEF TimersSettle
  <2> QED BY <1>2, <1>3, <2>1, <2>2, <2>3 DEF TimersSettle
<1>5. ClockCallKept'
  BY <1>0, ClockCallStep
<1>6. TickKept'
  <2> SUFFICES ASSUME client = 2
               PROVE  /\ \A t \in Timers : reg'[t].prescale = 1
                      /\ \A n \in 1 .. Len(todo') :
                           /\ todo'[n].register = "prescale" => todo'[n].value = 1
                           /\ todo'[n].register = "period" => boot # <<>>
                      /\ Left < 4 =>
                           IF caller = 0 THEN AtEnd(todo', "period", reg'[0].period, 9999)
                           ELSE reg'[0].period = 9999
    BY LeftSame DEF TickKept
  <2>1. \A t \in Timers : reg'[t].prescale = 1
    BY <1>1, <1>w DEF TickKept
  <2>2. \A n \in 1 .. Len(todo') :
           /\ todo'[n].register = "prescale" => todo'[n].value = 1
           /\ todo'[n].register = "period" => boot # <<>>
    BY <1>1 DEF TickKept
  <2>3. Left < 4 /\ caller = 0 => AtEnd(todo', "period", reg'[0].period, 9999)
    BY <1>0, <1>w, AtEndStep DEF TickKept
  <2>4. Left < 4 /\ caller # 0 => reg'[0].period = 9999
    BY DEF TickKept, Timers
  <2> QED BY <2>1, <2>2, <2>3, <2>4
<1> QED BY <1>4, <1>5, <1>6

\* The next write of a call.
LEMMA WriteStep ==
    ASSUME IInv, Call_Step
    PROVE  IInv'
<1> DEFINE w == Head(todo)
<1> USE DEF IInv
<1>0. /\ todo \in Seq(Writes) /\ reg \in [Timers -> Registers] /\ caller \in Timers
      /\ chip \in Chip /\ port \in Pins /\ todo # <<>> /\ todo' = Tail(todo)
  BY DEF Call_Step, BoardStep, Shape, Pins
<1>1. /\ Len(todo) \in Nat \ {0} /\ todo' \in Seq(Writes) /\ Len(todo') = Len(todo) - 1
      /\ \A n \in 1 .. Len(todo) - 1 : todo'[n] = todo[n + 1]
      /\ w = todo[1] /\ 1 \in 1 .. Len(todo)
      /\ \A n \in 1 .. Len(todo') : n + 1 \in 1 .. Len(todo) /\ todo'[n] = todo[n + 1]
  BY <1>0, TailIs
<1>2. w \in Writes
  BY <1>0, TailIs
<1>3. DOMAIN chip = {"intOn", "int_flag", "unlocked", "pbDiv", "sosc", "onWait", "waiting",
                     "waitStates", "prefetch", "modify", "operation", "i2cDivisor",
                     "icTimer"}
  BY <1>0 DEF Chip
<1>4. DOMAIN port = {"lat", "out", "digital", "openDrain", "remapped"}
  BY <1>0 DEF Pins
<1>5. DOMAIN reg[caller] = {"on", "source", "extSync", "prescale", "counter", "period",
                            "ie", "flag", "stopInIdle", "Running"}
  BY <1>0 DEF Registers
<1>6. \A n \in 1 .. Len(todo') : todo'[n].register \in {"counter", "period"}
                                   => todo'[n].value <= Instance[caller].top
  BY <1>1 DEF Shape
<1>7. CASE w.register \in ChipRegisters /\ BoardStep /\ UNCHANGED tmrVars
  <2>1. w \in ChipWrites
    BY <1>2, <1>3, <1>7, RegistersOf DEF ChipRegisters, Writes
  <2>2. w.register \notin PortRegisters
    BY <1>2, <1>4, <2>1, RegistersOf DEF PortRegisters
  <2>3. chip' = ChipWritten(w) /\ UNCHANGED <<port, boot, asked, tmrVars>>
    BY <1>7, <2>2 DEF BoardStep
  <2>4. chip' \in Chip
    BY <1>0, <2>1, <2>3, ChipStep
  <2>5. Device'
    BY <1>0, <2>1, <2>3, ChipStep, DeviceStep
  <2>6. Interrupts'
    BY <1>0, <2>1, <2>3, ChipStep, InterruptsStep
  <2>7. Divided'
    BY <1>0, <2>1, <2>3, ChipStep, DividedStep
  <2>8. PinsWritten(w)
    BY <1>0, <2>1, <2>3, RegistersOf, <1>2 DEF PinsWritten
  <2>9. PinsSafe'
    BY <1>0, <2>3, <2>8, PinsStep
  <2>10. TimerWritten(w)
    BY <1>2, <2>1, <2>3, RegistersOf DEF TimerWritten, tmrVars
  <2>11. TimersSettle' /\ ClockCallKept' /\ TickKept'
    BY <1>0, <2>3, <2>10, TimersStep DEF tmrVars
  <2>12. Shape'
    BY <1>1, <1>6, <2>3, <2>4, LeftSame DEF Shape, tmrVars
  <2> QED BY <2>5, <2>6, <2>7, <2>9, <2>11, <2>12
<1>8. ASSUME w \notin ChipWrites, UNCHANGED chip
      PROVE  /\ w.register \notin {"unlocked", "modify", "operation", "sosc", "onWait",
                                   "disable", "restore", "intOn", "icTimer", "pbDiv"}
  <2>1. w \in PortWrites \/ w \in TimerWrites
    BY <1>2, <1>8 DEF Writes
  <2> QED BY <1>2, <2>1, RegistersOf
<1>9. CASE w.register \in PortRegisters /\ BoardStep /\ UNCHANGED tmrVars
  <2>1. w \in PortWrites
    BY <1>2, <1>4, <1>9, RegistersOf DEF PortRegisters, Writes
  <2>2. w.register \notin ChipRegisters /\ w \notin ChipWrites
    BY <1>2, <1>3, <2>1, RegistersOf DEF ChipRegisters
  <2>3. port' = PortWritten(w) /\ UNCHANGED <<chip, boot, asked, tmrVars>>
    BY <1>9, <2>2 DEF BoardStep
  <2>4. PinsWritten(w)
    BY <1>0, <2>1, <2>3, PortStep
  <2>5. Device'
    BY <1>0, <1>8, <2>2, <2>3, DeviceStep
  <2>6. Interrupts'
    BY <1>0, <1>8, <2>2, <2>3, InterruptsStep
  <2>7. Divided'
    BY <1>0, <1>8, <2>2, <2>3, DividedStep
  <2>9. PinsSafe'
    BY <1>0, <2>3, <2>4, PinsStep
  <2>10. TimerWritten(w)
    BY <1>2, <2>1, <2>3, RegistersOf DEF TimerWritten, tmrVars
  <2>11. TimersSettle' /\ ClockCallKept' /\ TickKept'
    BY <1>0, <2>3, <2>10, TimersStep DEF tmrVars
  <2>12. Shape'
    BY <1>1, <1>6, <2>3, <2>4, LeftSame DEF Shape, tmrVars, PinsWritten, Pins
  <2> QED BY <2>5, <2>6, <2>7, <2>9, <2>11, <2>12
<1>10. CASE /\ w.register \in DOMAIN reg[caller]
            /\ reg' = [reg EXCEPT ![caller] = Written(@, w)]
            /\ UNCHANGED <<boot, chip, port, asked, client, caller, handler, clockCall, again>>
  <2>1. w \in TimerWrites
    <3>1. w.register \in {"on", "source", "extSync", "prescale", "counter", "period",
                          "ie", "flag", "stopInIdle", "Running"}
      BY <1>5, <1>10
    <3>2. w \notin ChipWrites
      BY <3>1 DEF ChipWrites
    <3>3. w \notin PortWrites
      BY <3>1 DEF PortWrites
    <3> QED BY <1>2, <3>2, <3>3 DEF Writes
  <2>2. w \notin ChipWrites
    BY <1>2, <2>1, RegistersOf
  <2>3. /\ reg' \in [Timers -> Registers]
        /\ \A t \in Timers : t # caller => reg'[t] = reg[t]
        /\ TimerWritten(w)
    BY <1>0, <1>10, <2>1, TimerStep
  <2>4. PinsWritten(w)
    BY <1>0, <1>2, <1>10, <2>1, RegistersOf DEF PinsWritten
  <2>5. Device'
    BY <1>0, <1>8, <1>10, <2>2, DeviceStep
  <2>6. Interrupts'
    BY <1>0, <1>8, <1>10, <2>2, InterruptsStep
  <2>7. Divided'
    BY <1>0, <1>8, <1>10, <2>2, DividedStep
  <2>9. PinsSafe'
    BY <1>0, <1>10, <2>4, PinsStep
  <2>11. TimersSettle' /\ ClockCallKept' /\ TickKept'
    BY <1>0, <1>10, <2>3, TimersStep
  <2>12. \A t \in Timers : reg'[t].counter <= Instance[t].top /\ reg'[t].period <= Instance[t].top
    <3>1. w.register \in {"counter", "period"} => w.value <= Instance[caller].top
      BY <1>1 DEF Shape
    <3> QED BY <1>0, <2>3, <3>1 DEF Shape, TimerWritten
  <2>13. Shape'
    BY <1>1, <1>6, <1>10, <2>3, <2>12, LeftSame DEF Shape
  <2> QED BY <2>5, <2>6, <2>7, <2>9, <2>11, <2>13
<1> QED BY <1>7, <1>9, <1>10 DEF Call_Step, BoardStep
----------------------------------------------------------------------------
\* The start of a call.

\* A service, or the next call of SYS_Initialize: which one says how many are
\* left.
Progress == \/ boot = <<>> /\ boot' = boot
            \/ boot # <<>> /\ boot' = Tail(boot)

LEMMA BootLeft ==
    ASSUME IInv, Progress
    PROVE  /\ boot' \in Seq(Calls) /\ Left' \in 0 .. 8 /\ Left \in 0 .. 9
           /\ \A n \in 1 .. Left' : boot'[n] = BootOrder[9 - Left' + n]
           /\ boot = <<>> <=> Left = 0
           /\ boot' = <<>> <=> Left' = 0
           /\ boot # <<>> => /\ Left' = Left - 1
                             /\ Head(boot) = BootOrder[10 - Left]
           /\ boot = <<>> => boot' = <<>>
<1>1. /\ boot \in Seq(Calls) /\ Left <= 9 /\ Left \in Nat
      /\ \A n \in 1 .. Left : boot[n] = BootOrder[9 - Left + n]
  <2>1. boot \in Seq(Calls) /\ Left <= 9
        /\ \A n \in 1 .. Left : boot[n] = BootOrder[9 - Left + n]
    BY DEF IInv, Shape
  <2>2. Len(boot) \in Nat
    BY <2>1
  <2> QED BY <2>1, <2>2 DEF Left
<1>2. CASE boot = <<>>
  <2>1. Left = 0 /\ boot' = <<>>
    BY <1>2 DEF Progress, Left
  <2>2. Left' = 0
    BY <2>1 DEF Left
  <2> QED BY <1>1, <1>2, <2>1, <2>2
<1>3. CASE boot # <<>>
  <2>1. boot' = Tail(boot)
    BY <1>3 DEF Progress
  <2>2. /\ boot' \in Seq(Calls) /\ Left' = Left - 1
        /\ Left \in 1 .. 9 /\ Head(boot) = boot[1]
        /\ \A n \in 1 .. Left' : boot'[n] = boot[n + 1]
    <3>1. boot \in Seq(Calls)
      BY <1>1
    <3>2. /\ boot' \in Seq(Calls) /\ Len(boot') = Len(boot) - 1
          /\ Len(boot) > 0 /\ Head(boot) = boot[1]
          /\ \A n \in 1 .. Len(boot') : boot'[n] = boot[n + 1]
      BY <1>3, <2>1, <3>1
    <3>3. Left' = Left - 1 /\ Left > 0 /\ \A n \in 1 .. Left' : boot'[n] = boot[n + 1]
      BY <3>2 DEF Left
    <3>4. Left \in 1 .. 9
      BY <1>1, <3>3
    <3> QED BY <3>2, <3>3, <3>4, Zenon
  <2>3. Head(boot) = BootOrder[10 - Left]
    <3>1. boot[1] = BootOrder[9 - Left + 1]
      BY <1>1, <2>2
    <3>2. 9 - Left + 1 = 10 - Left
      BY <2>2
    <3> QED BY <2>2, <3>1, <3>2
  <2>4. ASSUME NEW n \in 1 .. Left' PROVE boot'[n] = BootOrder[9 - Left' + n]
    <3>1. n + 1 \in 1 .. Left /\ boot'[n] = boot[n + 1]
      BY <2>2
    <3>2. 9 - Left + (n + 1) = 9 - Left' + n
      BY <2>2
    <3>3. boot[n + 1] = BootOrder[9 - Left + (n + 1)]
      BY <1>1, <3>1
    <3> QED BY <3>1, <3>2, <3>3
  <2>5. boot' = <<>> <=> Left' = 0
    BY <2>2, EmptySeq DEF Left
  <2>6. Left \in 0 .. 9 /\ Left' \in 0 .. 8 /\ Left # 0
    BY <2>2
  <2> QED BY <1>3, <2>2, <2>3, <2>4, <2>5, <2>6, Zenon
<1> QED BY <1>2, <1>3

\* What a call that writes none of their registers leaves alone.
PinRegisters   == {"lat", "out", "digital", "openDrain", "remapped"}
TimerRegisters == {"on", "ie", "flag", "stopInIdle", "Running", "counter", "period",
                   "source", "extSync", "prescale"}

LEMMA PinsAsWere ==
    ASSUME IInv, todo = <<>>, UNCHANGED port, Progress,
           \A n \in 1 .. Len(todo') : todo'[n].register \notin PinRegisters,
           Left # 2
    PROVE  PinsSafe'
<1>1. Left' < 2 => Left < 2
  <2>1. /\ Left' \in 0 .. 8 /\ Left \in 0 .. 9
        /\ boot = <<>> <=> Left = 0
        /\ Left # 0 => Left' = Left - 1
    BY BootLeft
  <2> QED BY <2>1
<1>2. Left' < 2 => /\ Driven \subseteq port.out
                   /\ Inputs \subseteq port.digital
                   /\ Remaps \subseteq port.remapped
  BY <1>1, AtRest
<1>3. port.out \cap (port.lat \cup Inputs) = {}
  BY DEF IInv, PinsSafe
<1>4. \A n \in 1 .. Len(todo') :
        todo'[n].register \notin {"lat", "out", "digital", "openDrain", "remapped"}
  BY DEF PinRegisters
<1> QED BY <1>2, <1>3, <1>4 DEF PinsSafe, Supplied

LEMMA TimersAsWere ==
    ASSUME IInv, todo = <<>>, todo' \in Seq(Writes), UNCHANGED tmrVars, Progress,
           \A n \in 1 .. Len(todo') : todo'[n].register \notin TimerRegisters,
           Left # 4
    PROVE  TimersSettle' /\ ClockCallKept' /\ TickKept'
<1>u. UNCHANGED <<client, reg, caller, handler, clockCall, again>>
  BY DEF tmrVars
<1>l. /\ Left' < 4 => Left < 4
      /\ boot' # <<>> => boot # <<>>
  <2>1. /\ Left' \in 0 .. 8 /\ Left \in 0 .. 9
        /\ boot = <<>> <=> Left = 0
        /\ boot = <<>> => boot' = <<>>
        /\ Left # 0 => Left' = Left - 1
    BY BootLeft
  <2> QED BY <2>1
<1>1. \A n \in 1 .. Len(todo') :
        todo'[n].register \notin {"on", "ie", "flag", "stopInIdle", "Running", "counter",
                                  "period", "source", "extSync", "prescale"}
  BY DEF TimerRegisters
<1>2. TimersSettle'
  <2>0. reg \in [Timers -> Registers] /\ caller \in Timers
    BY DEF IInv, Shape
  <2>1. PICK v \in BOOLEAN : v = reg[caller].Running
    BY <2>0 DEF Registers
  <2>2. /\ reg[caller].on = Counting(caller, v) /\ reg[caller].ie = v
        /\ v = FALSE => ~reg[caller].flag
    BY <2>0, <2>1, AtRest DEF Settled
  <2>3. WillRun(v)'
    <3>1. \A u : /\ AtEnd(todo', "Running", u, u) /\ AtEnd(todo', "on", u, u)
                 /\ AtEnd(todo', "ie", u, u)
      BY <1>1, Untouched
    <3> QED BY <1>u, <2>1, <2>2, <3>1 DEF WillRun, Counting
  <2>4. v = FALSE => WillRest'
    BY <1>u, <1>1, <2>2 DEF WillRest, Counting
  <2>5. \A t \in Timers : t # caller' => Settled(t)'
    BY <1>u, AtRest, SettledSame
  <2>6. boot' # <<>> => \A t \in Timers : ~reg'[t].Running
    BY <1>u, <1>l DEF IInv, TimersSettle
  <2>7. CASE v = TRUE
    BY <1>1, <2>3, <2>5, <2>6, <2>7 DEF TimersSettle
  <2>8. CASE v = FALSE
    BY <1>1, <2>3, <2>4, <2>5, <2>6, <2>8 DEF TimersSettle
  <2> QED BY <2>7, <2>8
<1>3. ClockCallKept'
  <2>1. CASE clockCall = NotClockSet
    BY <1>u, <2>1 DEF ClockCallKept
  <2>2. CASE clockCall # NotClockSet
    <3> DEFINE K == NewClock(caller, clockCall.source, clockCall.prescale, clockCall.before)
    <3>1. /\ clockCall \in ClockCalls /\ clockCall.t = caller /\ caller \notin again
          /\ clockCall.success = (Accepts(caller, clockCall.source) /\ caller \in Prescaled)
          /\ WillHave(K) /\ AtEnd(todo, "Running", reg[caller].Running, clockCall.ran)
          /\ boot = <<>>
      BY <2>2 DEF IInv, ClockCallKept
    <3>2. \A u : /\ AtEnd(todo', "source", u, u) /\ AtEnd(todo', "extSync", u, u)
                 /\ AtEnd(todo', "prescale", u, u) /\ AtEnd(todo', "Running", u, u)
      BY <1>1, Untouched
    <3>3. WillHave(K)'
      <4>1. K' = K
        BY <1>u DEF NewClock
      <4>2. PICK k : k = K
        OBVIOUS
      <4> HIDE DEF K
      <4>3. /\ reg[caller].source = k.source /\ reg[caller].extSync = k.extSync
            /\ reg[caller].prescale = k.prescale
        BY <3>1, <4>2, NothingToDo DEF WillHave
      <4> QED BY <1>u, <3>2, <4>1, <4>2, <4>3 DEF WillHave
    <3>4. StandsStill'
      BY <1>1 DEF StandsStill, NoClockLeft, ClockRegisters
    <3>5. AtEnd(todo', "Running", reg[caller].Running, clockCall.ran)
      BY <3>1, <3>2, NothingToDo
    <3> QED BY <1>u, <1>l, <3>1, <3>3, <3>4, <3>5 DEF ClockCallKept
  <2> QED BY <2>1, <2>2
<1>4. TickKept'
  <2>1. client = 2 /\ Left' < 4 => reg[0].period = 9999
    BY <1>l, AtRest
  <2>2. AtEnd(todo', "period", reg[0].period, reg[0].period)
    BY <1>1, Untouched
  <2> QED BY <1>u, <1>1, <2>1, <2>2 DEF IInv, TickKept
<1> QED BY <1>2, <1>3, <1>4

\* Writes of a call on the device that find it unlocked or not (u) and leave
\* it so (v): its interrupt sections are closed, protected registers are
\* written while it is unlocked.
Section(s, u, v) ==
    /\ s \in Seq(ChipWrites)
    /\ AtEnd(s, "unlocked", u, v)
    /\ \A n \in 1 .. Len(s) :
         /\ s[n].register \in Protected => Before(s, "unlocked", u, TRUE, n)
         /\ s[n].register = "operation" => \A old : Before(s, "modify", old, FALSE, n)
         /\ s[n].register = "disable" => RestoredAfter(s, n)

ChipProgram(s) == Section(s, FALSE, FALSE)

StartsChip ==
    /\ ChipProgram(todo') /\ UNCHANGED <<chip, port, tmrVars>>
    /\ asked' \in [sosc : BOOLEAN, onWait : {"idle", "sleep"},
                   operation : FlashOperations]
    /\ Progress
    /\ AtEnd(todo', "sosc", asked.sosc, asked'.sosc)
    /\ AtEnd(todo', "onWait", asked.onWait, asked'.onWait)
    /\ AtEnd(todo', "operation", asked.operation, asked'.operation)
    /\ \A n \in 1 .. Len(todo') :
         /\ todo'[n].register = "intOn" => todo'[n].value
         /\ todo'[n].register = "pbDiv" =>
              Left = 9 /\ todo'[n].value[2] = Divisor(todo'[n].value[1])
         /\ todo'[n].register = "icTimer" => Left = 6
    /\ Left = 1 => todo' = <<Write("intOn", TRUE)>>
    /\ Left = 9 => \A b \in Buses : \E n \in 1 .. Len(todo') :
                           todo'[n].register = "pbDiv" /\ todo'[n].value[1] = b
    /\ Left = 6 => AtEnd(todo', "icTimer", chip.icTimer, "TMR2")

LEMMA ChipCall ==
    ASSUME IInv, todo = <<>>, StartsChip, Left \notin {2, 4}
    PROVE  IInv'
<1>u. UNCHANGED <<chip, port, client, reg, caller, handler, clockCall, again>>
  BY DEF StartsChip, tmrVars
<1>l. /\ boot' \in Seq(Calls) /\ Left' \in 0 .. 8 /\ Left \in 0 .. 9
      /\ \A n \in 1 .. Left' : boot'[n] = BootOrder[9 - Left' + n]
      /\ boot = <<>> <=> Left = 0
      /\ boot' = <<>> <=> Left' = 0
      /\ Left # 0 => Left' = Left - 1
      /\ Left = 0 => Left' = 0
  BY BootLeft DEF StartsChip
<1>0. todo' \in Seq(ChipWrites)
  BY DEF ChipProgram, Section, StartsChip
<1>s. todo' \in Seq(Writes) /\ \A n \in 1 .. Len(todo') : todo'[n] \in ChipWrites /\ todo'[n] \in Writes
  <2>1. ChipWrites \subseteq Writes
    BY DEF Writes
  <2> QED BY <1>0, <2>1
<1>1. \A n \in 1 .. Len(todo') :
        todo'[n].register \notin {"lat", "out", "digital", "openDrain", "remapped", "on",
                                  "ie", "flag", "stopInIdle", "Running", "counter",
                                  "period", "source", "extSync", "prescale"}
  BY <1>s, RegistersOf
<1>2. /\ chip.unlocked = FALSE /\ chip \in Chip
      /\ chip.sosc = asked.sosc /\ chip.onWait = asked.onWait
      /\ chip.operation = asked.operation
  BY AtRest DEF IInv, Shape, Chip
<1>3. Shape'
  <2>1. Left' <= 9
    BY <1>l
  <2>2. asked' \in [sosc : BOOLEAN, onWait : {"idle", "sleep"}, operation : FlashOperations]
    BY DEF StartsChip
  <2> QED BY <1>u, <1>l, <1>s, <1>1, <2>1, <2>2 DEF IInv, Shape
<1>4. Device'
  <2>1. AtEnd(todo', "unlocked", chip'.unlocked, FALSE)
    <3>1. AtEnd(todo', "unlocked", FALSE, FALSE) /\ chip'.unlocked = FALSE
      BY <1>u, <1>2 DEF ChipProgram, Section, StartsChip
    <3> QED BY <3>1, Zenon
  <2>2. \A n \in 1 .. Len(todo') :
         /\ todo'[n].register \in Protected =>
              Before(todo', "unlocked", chip'.unlocked, TRUE, n)
         /\ todo'[n].register = "operation" =>
              Before(todo', "modify", chip'.modify, FALSE, n)
    <3>1. chip'.unlocked = FALSE
      BY <1>u, <1>2
    <3>2. \A n \in 1 .. Len(todo') :
           /\ todo'[n].register \in Protected => Before(todo', "unlocked", FALSE, TRUE, n)
           /\ todo'[n].register = "operation" =>
                \A old : Before(todo', "modify", old, FALSE, n)
      BY DEF ChipProgram, Section, StartsChip
    <3> QED BY <3>1, <3>2, Zenon
  <2>3. /\ AtEnd(todo', "sosc", asked.sosc, asked'.sosc)
        /\ AtEnd(todo', "onWait", asked.onWait, asked'.onWait)
        /\ AtEnd(todo', "operation", asked.operation, asked'.operation)
    BY DEF StartsChip
  <2> QED BY <1>u, <1>2, <2>1, <2>2, <2>3 DEF Device, Protected
<1>5. Interrupts'
  <2>1. \A n \in 1 .. Len(todo') :
         /\ todo'[n].register = "intOn" => todo'[n].value
         /\ todo'[n].register = "disable" => RestoredAfter(todo', n)
    BY DEF ChipProgram, Section, StartsChip
  <2>2. boot' = <<>> => chip'.intOn \/ todo' = <<Write("intOn", TRUE)>>
    <3>1. boot' = <<>> => boot = <<>> \/ Left = 1
      BY <1>l
    <3>2. boot = <<>> => chip.intOn
      BY AtRest
    <3>3. Left = 1 => todo' = <<Write("intOn", TRUE)>>
      BY DEF StartsChip
    <3> QED BY <1>u, <3>1, <3>2, <3>3
  <2>3. \A n : RestoredAfter(todo, n)' = RestoredAfter(todo', n)
    BY DEF RestoredAfter
  <2> QED BY <2>1, <2>2, <2>3, Zenon DEF Interrupts, Write
<1>6. Divided'
  <2>1. Left' < 9 => \A b \in Buses :
         \/ chip'.pbDiv[b] = Divisor(b)
         \/ \E n \in 1 .. Len(todo') : todo'[n].register = "pbDiv" /\ todo'[n].value[1] = b
    <3>1. CASE Left = 9
      BY <3>1 DEF StartsChip
    <3>2. CASE Left < 9
      <4>1. \A b \in Buses : chip.pbDiv[b] = Divisor(b)
        BY <3>2, AtRest
      <4> QED BY <1>u, <4>1
    <3> QED BY <1>l, <3>1, <3>2
  <2>2. Left' < 6 => AtEnd(todo', "icTimer", chip'.icTimer, "TMR2")
    <3>1. CASE Left < 6
      <4>1. chip.icTimer = "TMR2"
        BY <3>1, AtRest
      <4>2. \A n \in 1 .. Len(todo') : todo'[n].register # "icTimer"
        BY <3>1 DEF StartsChip
      <4>3. AtEnd(todo', "icTimer", chip.icTimer, chip.icTimer)
        BY <1>s, <4>2, Untouched
      <4> QED BY <1>u, <4>1, <4>3
    <3>2. CASE Left = 6
      BY <1>u, <3>2 DEF StartsChip
    <3> QED BY <1>l, <3>1, <3>2
  <2>3. \A n \in 1 .. Len(todo') :
         /\ todo'[n].register = "pbDiv" =>
              Left' = 8 /\ todo'[n].value[2] = Divisor(todo'[n].value[1])
         /\ todo'[n].register = "icTimer" => Left' = 5
    <3>1. \A n \in 1 .. Len(todo') :
            /\ todo'[n].register = "pbDiv" =>
                 Left = 9 /\ todo'[n].value[2] = Divisor(todo'[n].value[1])
            /\ todo'[n].register = "icTimer" => Left = 6
      BY DEF StartsChip
    <3>2. (Left = 9 => Left' = 8) /\ (Left = 6 => Left' = 5)
      BY <1>l
    <3> QED BY <3>1, <3>2
  <2> QED BY <2>1, <2>2, <2>3 DEF Divided
<1>7. Progress /\ UNCHANGED tmrVars
      /\ \A n \in 1 .. Len(todo') : todo'[n].register \notin PinRegisters \cup TimerRegisters
  BY <1>1 DEF StartsChip, PinRegisters, TimerRegisters
<1>8. PinsSafe'
  BY <1>u, <1>7, PinsAsWere
<1>9. TimersSettle' /\ ClockCallKept' /\ TickKept'
  BY <1>s, <1>7, TimersAsWere
<1> QED BY <1>3, <1>4, <1>5, <1>6, <1>8, <1>9 DEF IInv
----------------------------------------------------------------------------
\* Calls put together from parts.
LEMMA Parts ==
    ASSUME NEW s \in Seq(Writes), NEW t \in Seq(Writes)
    PROVE  /\ s \o t \in Seq(Writes) /\ Len(s) \in Nat /\ Len(t) \in Nat
           /\ Len(s \o t) = Len(s) + Len(t)
           /\ \A n \in 1 .. Len(s) : (s \o t)[n] = s[n]
           /\ \A n \in 1 .. Len(t) : (s \o t)[Len(s) + n] = t[n]
  OBVIOUS

LEMMA ElementsOfParts ==
    ASSUME NEW s \in Seq(Writes), NEW t \in Seq(Writes), NEW n \in 1 .. Len(s \o t)
    PROVE  \/ n \in 1 .. Len(s) /\ (s \o t)[n] = s[n]
           \/ /\ n - Len(s) \in 1 .. Len(t) /\ (s \o t)[n] = t[n - Len(s)]
              /\ n = Len(s) + (n - Len(s))
<1> DEFINE c == s \o t
<1>1. /\ Len(s) \in Nat /\ Len(t) \in Nat /\ Len(c) = Len(s) + Len(t)
      /\ \A k \in 1 .. Len(s) : c[k] = s[k]
      /\ \A k \in 1 .. Len(t) : c[Len(s) + k] = t[k]
  BY Parts
<1>2. n \in 1 .. Len(c)
  OBVIOUS
<1> HIDE DEF c
<1>3. CASE n <= Len(s)
  BY <1>1, <1>2, <1>3 DEF c
<1>4. CASE n > Len(s)
  <2>1. n - Len(s) \in 1 .. Len(t) /\ n = Len(s) + (n - Len(s))
    BY <1>1, <1>2, <1>4
  <2> QED BY <1>1, <2>1 DEF c
<1> QED BY <1>1, <1>2, <1>3, <1>4

LEMMA BeforeFirst ==
    ASSUME NEW s \in Seq(Writes), NEW t \in Seq(Writes), NEW r, NEW old, NEW v,
           NEW n \in 1 .. Len(s) + 1, Before(s, r, old, v, n)
    PROVE  Before(s \o t, r, old, v, n)
<1> DEFINE c == s \o t
<1>1. Len(s) \in Nat /\ \A k \in 1 .. Len(s) : c[k] = s[k]
  BY Parts
<1> HIDE DEF c
<1>2. \A k \in 1 .. n - 1 : c[k] = s[k]
  BY <1>1
<1> QED BY <1>2 DEF Before, c

LEMMA BeforeSecond ==
    ASSUME NEW s \in Seq(Writes), NEW t \in Seq(Writes), NEW r, NEW old, NEW w, NEW v,
           AtEnd(s, r, old, w),
           NEW n \in 1 .. Len(t) + 1, Before(t, r, w, v, n)
    PROVE  Before(s \o t, r, old, v, Len(s) + n)
<1> DEFINE c == s \o t
           l == Len(s)
<1>1. /\ l \in Nat /\ Len(t) \in Nat
      /\ \A k \in 1 .. l : c[k] = s[k]
      /\ \A k \in 1 .. Len(t) : c[l + k] = t[k]
  BY Parts
<1>2. Before(s, r, old, w, l + 1)
  BY DEF AtEnd
<1> HIDE DEF c, l
<1>3. ASSUME NEW m \in 1 .. n - 1, t[m].register = r, t[m].value = v,
             \A k \in m + 1 .. n - 1 : t[k].register # r
      PROVE  Before(c, r, old, v, l + n)
  <2>1. l + m \in 1 .. (l + n) - 1 /\ c[l + m] = t[m]
    BY <1>1
  <2>2. ASSUME NEW k \in (l + m) + 1 .. (l + n) - 1
        PROVE  c[k].register # r
    <3>1. k - l \in m + 1 .. n - 1 /\ k - l \in 1 .. Len(t) /\ k = l + (k - l)
      BY <1>1
    <3> QED BY <1>1, <1>3, <3>1
  <2> QED BY <1>3, <2>1, <2>2 DEF Before
<1>4. ASSUME w = v, \A k \in 1 .. n - 1 : t[k].register # r
      PROVE  Before(c, r, old, v, l + n)
  <2>1. ASSUME NEW k \in l + 1 .. (l + n) - 1
        PROVE  c[k].register # r
    <3>1. k - l \in 1 .. n - 1 /\ k - l \in 1 .. Len(t) /\ k = l + (k - l)
      BY <1>1
    <3> QED BY <1>1, <1>4, <3>1
  <2>2. CASE old = w /\ \A k \in 1 .. l : s[k].register # r
    <3>1. \A k \in 1 .. (l + n) - 1 : c[k].register # r
      BY <1>1, <2>1, <2>2
    <3> QED BY <1>4, <2>2, <3>1 DEF Before
  <2>3. ASSUME NEW m \in 1 .. l, s[m].register = r, s[m].value = w,
               \A k \in m + 1 .. l : s[k].register # r
        PROVE  Before(c, r, old, v, l + n)
    <3>1. m \in 1 .. (l + n) - 1 /\ c[m] = s[m]
      BY <1>1
    <3>2. \A k \in m + 1 .. (l + n) - 1 : c[k].register # r
      BY <1>1, <2>1, <2>3
    <3> QED BY <1>4, <2>3, <3>1, <3>2 DEF Before
  <2>4. (l + 1) - 1 = l
    BY <1>1
  <2> QED BY <1>2, <2>2, <2>3, <2>4 DEF Before
<1>5. \/ w = v /\ \A k \in 1 .. n - 1 : t[k].register # r
      \/ \E m \in 1 .. n - 1 : /\ t[m].register = r /\ t[m].value = v
                               /\ \A k \in m + 1 .. n - 1 : t[k].register # r
  BY DEF Before
<1> QED BY <1>3, <1>4, <1>5 DEF c, l

LEMMA AtEndOfParts ==
    ASSUME NEW s \in Seq(Writes), NEW t \in Seq(Writes), NEW r, NEW old, NEW w, NEW v,
           AtEnd(s, r, old, w), AtEnd(t, r, w, v)
    PROVE  AtEnd(s \o t, r, old, v)
<1>1. Len(s) \in Nat /\ Len(t) \in Nat /\ Len(s \o t) = Len(s) + Len(t)
  BY Parts
<1>2. Before(s \o t, r, old, v, Len(s) + (Len(t) + 1))
  <2>1. Before(t, r, w, v, Len(t) + 1) /\ Len(t) + 1 \in 1 .. Len(t) + 1
    BY <1>1 DEF AtEnd
  <2> QED BY <2>1, BeforeSecond
<1>3. Len(s) + (Len(t) + 1) = Len(s \o t) + 1
  BY <1>1
<1> QED BY <1>2, <1>3 DEF AtEnd

LEMMA RestoredInParts ==
    ASSUME NEW s \in Seq(Writes), NEW t \in Seq(Writes), NEW n \in Nat
    PROVE  /\ n <= Len(s) /\ RestoredAfter(s, n) => RestoredAfter(s \o t, n)
           /\ n <= Len(t) /\ RestoredAfter(t, n) => RestoredAfter(s \o t, Len(s) + n)
<1> DEFINE c == s \o t
           l == Len(s)
<1>1. /\ l \in Nat /\ Len(t) \in Nat /\ Len(c) = l + Len(t)
      /\ \A k \in 1 .. l : c[k] = s[k]
      /\ \A k \in 1 .. Len(t) : c[l + k] = t[k]
  BY Parts
<1>2. ASSUME RestoredAfter(s, n) PROVE RestoredAfter(c, n)
  <2> HIDE DEF c
  <2>1. PICK m \in n + 1 .. l : /\ s[m].register = "restore"
                                /\ \A k \in n + 1 .. m - 1 : s[k].register # "disable"
    BY <1>2 DEF RestoredAfter
  <2>2. m \in n + 1 .. Len(c) /\ \A k \in n + 1 .. m : c[k] = s[k]
    BY <1>1
  <2> QED BY <1>1, <2>1, <2>2 DEF RestoredAfter
<1>3. ASSUME RestoredAfter(t, n) PROVE RestoredAfter(c, l + n)
  <2> HIDE DEF c, l
  <2>1. PICK m \in n + 1 .. Len(t) : /\ t[m].register = "restore"
                                     /\ \A k \in n + 1 .. m - 1 : t[k].register # "disable"
    BY <1>3 DEF RestoredAfter
  <2>2. l + m \in (l + n) + 1 .. Len(c) /\ c[l + m] = t[m]
    BY <1>1
  <2>3. ASSUME NEW k \in (l + n) + 1 .. (l + m) - 1
        PROVE  c[k].register # "disable"
    <3>1. k - l \in n + 1 .. m - 1 /\ k - l \in 1 .. Len(t) /\ k = l + (k - l)
      BY <1>1
    <3> QED BY <1>1, <2>1, <3>1
  <2> QED BY <2>1, <2>2, <2>3 DEF RestoredAfter
<1> QED BY <1>2, <1>3

LEMMA SectionOfParts ==
    ASSUME NEW s, NEW t, NEW u, NEW v, NEW w, Section(s, u, v), Section(t, v, w)
    PROVE  Section(s \o t, u, w)
<1> DEFINE c == s \o t
<1>0. s \in Seq(ChipWrites) /\ t \in Seq(ChipWrites) /\ c \in Seq(ChipWrites)
  BY DEF Section
<1>1. s \in Seq(Writes) /\ t \in Seq(Writes)
  <2>1. ChipWrites \subseteq Writes
    BY DEF Writes
  <2> QED BY <1>0, <2>1
<1>2. AtEnd(c, "unlocked", u, w)
  BY <1>1, AtEndOfParts DEF Section
<1>3. ASSUME NEW n \in 1 .. Len(c)
      PROVE  /\ c[n].register \in Protected => Before(c, "unlocked", u, TRUE, n)
             /\ c[n].register = "operation" => \A old : Before(c, "modify", old, FALSE, n)
             /\ c[n].register = "disable" => RestoredAfter(c, n)
  <2>0. Len(s) \in Nat /\ Len(t) \in Nat
    BY <1>1, Parts
  <2>1. CASE n \in 1 .. Len(s) /\ c[n] = s[n]
    <3>1. n \in 1 .. Len(s) + 1 /\ n \in Nat /\ n <= Len(s)
      BY <2>0, <2>1
    <3>2. /\ s[n].register \in Protected => Before(s, "unlocked", u, TRUE, n)
          /\ s[n].register = "operation" => \A old : Before(s, "modify", old, FALSE, n)
          /\ s[n].register = "disable" => RestoredAfter(s, n)
      BY <2>1 DEF Section
    <3>3. c[n].register \in Protected => Before(c, "unlocked", u, TRUE, n)
      BY <1>1, <2>1, <3>1, <3>2, BeforeFirst
    <3>4. c[n].register = "operation" => \A old : Before(c, "modify", old, FALSE, n)
      BY <1>1, <2>1, <3>1, <3>2, BeforeFirst
    <3>5. c[n].register = "disable" => RestoredAfter(c, n)
      BY <1>1, <2>1, <3>1, <3>2, RestoredInParts
    <3> QED BY <3>3, <3>4, <3>5
  <2>2. ASSUME NEW k \in 1 .. Len(t), c[n] = t[k], n = Len(s) + k
        PROVE  /\ c[n].register \in Protected => Before(c, "unlocked", u, TRUE, n)
               /\ c[n].register = "operation" => \A old : Before(c, "modify", old, FALSE, n)
               /\ c[n].register = "disable" => RestoredAfter(c, n)
    <3>1. k \in 1 .. Len(t) + 1 /\ k \in Nat /\ k <= Len(t)
      BY <2>0
    <3>2. /\ t[k].register \in Protected => Before(t, "unlocked", v, TRUE, k)
          /\ t[k].register = "operation" => \A old : Before(t, "modify", old, FALSE, k)
          /\ t[k].register = "disable" => RestoredAfter(t, k)
      BY DEF Section
    <3>3. c[n].register \in Protected => Before(c, "unlocked", u, TRUE, n)
      <4>1. AtEnd(s, "unlocked", u, v)
        BY DEF Section
      <4> QED BY <1>1, <2>2, <3>1, <3>2, <4>1, BeforeSecond
    <3>4. ASSUME c[n].register = "operation", NEW old PROVE Before(c, "modify", old, FALSE, n)
      <4>1. \A o : Before(t, "modify", o, FALSE, k)
        BY <2>2, <3>2, <3>4
      <4>2. PICK m \in 1 .. k - 1 : /\ t[m].register = "modify" /\ t[m].value = FALSE
                                    /\ \A j \in m + 1 .. k - 1 : t[j].register # "modify"
        <5>1. Before(t, "modify", TRUE, FALSE, k)
          BY <4>1
        <5> QED BY <5>1 DEF Before
      <4>3. /\ Len(s) + m \in 1 .. (Len(s) + k) - 1 /\ c[Len(s) + m] = t[m]
        BY <1>1, <2>0, Parts
      <4>4. ASSUME NEW j \in (Len(s) + m) + 1 .. (Len(s) + k) - 1
            PROVE  c[j].register # "modify"
        <5>1. j - Len(s) \in m + 1 .. k - 1 /\ j - Len(s) \in 1 .. Len(t)
              /\ j = Len(s) + (j - Len(s))
          BY <2>0
        <5>2. c[Len(s) + (j - Len(s))] = t[j - Len(s)]
          BY <1>1, <5>1, Parts
        <5> QED BY <4>2, <5>1, <5>2
      <4> QED BY <2>2, <4>2, <4>3, <4>4 DEF Before
    <3>5. c[n].register = "disable" => RestoredAfter(c, n)
      BY <1>1, <2>2, <3>1, <3>2, RestoredInParts
    <3> QED BY <3>3, <3>4, <3>5
  <2> QED BY <1>1, <2>1, <2>2, ElementsOfParts
<1> QED BY <1>0, <1>2, <1>3 DEF Section
----------------------------------------------------------------------------
\* The calls on the device.

\* sys_devcon.c
LEMMA LockSections ==
    /\ Section(SYS_DEVCON_SystemUnlock, FALSE, TRUE)
    /\ Section(SYS_DEVCON_SystemLock, TRUE, FALSE)
    /\ \A n \in 1 .. Len(SYS_DEVCON_SystemUnlock) :
         SYS_DEVCON_SystemUnlock[n].register \in {"disable", "unlocked", "restore"}
    /\ \A n \in 1 .. Len(SYS_DEVCON_SystemLock) :
         SYS_DEVCON_SystemLock[n].register \in {"disable", "unlocked", "restore"}
<1> DEFINE a == Write("disable", TRUE)
           b(v) == Write("unlocked", v)
           c == Write("restore", TRUE)
           s(v) == <<a, b(v), c>>
<1>1. ASSUME NEW u \in BOOLEAN, NEW v \in BOOLEAN
      PROVE  /\ Section(s(v), u, v)
             /\ \A n \in 1 .. Len(s(v)) :
                   s(v)[n].register \in {"disable", "unlocked", "restore"}
  <2>1. /\ a.register = "disable" /\ b(v).register = "unlocked" /\ b(v).value = v
        /\ c.register = "restore"
        /\ a \in ChipWrites /\ b(v) \in ChipWrites /\ c \in ChipWrites
    BY DEF Write, ChipWrites
  <2> HIDE DEF a, b, c
  <2>2. /\ s(v) \in Seq(ChipWrites) /\ Len(s(v)) = 3
        /\ s(v)[1] = a /\ s(v)[2] = b(v) /\ s(v)[3] = c
    BY <2>1
  <2> DEFINE t == s(v)
  <2> HIDE DEF t
  <2>3. /\ t \in Seq(ChipWrites) /\ Len(t) = 3
        /\ t[1].register = "disable" /\ t[2].register = "unlocked" /\ t[2].value = v
        /\ t[3].register = "restore"
    BY <2>1, <2>2 DEF t
  <2>4. AtEnd(t, "unlocked", u, v)
    BY <2>3 DEF AtEnd, Before
  <2>5. RestoredAfter(t, 1)
    BY <2>3 DEF RestoredAfter
  <2>6. \A n \in 1 .. Len(t) : n \in {1, 2, 3}
    BY <2>3
  <2>7. Section(t, u, v)
    BY <2>3, <2>4, <2>5, <2>6 DEF Section, Protected
  <2> QED BY <2>3, <2>6, <2>7 DEF t
<1> HIDE DEF a, b, c
<1> QED BY <1>1 DEF SYS_DEVCON_SystemUnlock, SYS_DEVCON_SystemLock, GetStateAndDisable,
                    RestoreInt, a, b, c

\* Writes of protected registers, between the unlock and the lock.
LEMMA UnlockedProgram ==
    ASSUME NEW s \in Seq(ChipWrites), \A n \in 1 .. Len(s) : s[n].register \in Protected
    PROVE  /\ ChipProgram(Unlocked(s))
           /\ \A n \in 1 .. Len(Unlocked(s)) :
                \/ Unlocked(s)[n].register \in {"disable", "unlocked", "restore"}
                \/ \E k \in 1 .. Len(s) : Unlocked(s)[n] = s[k]
           /\ \A k \in 1 .. Len(s) : \E n \in 1 .. Len(Unlocked(s)) : Unlocked(s)[n] = s[k]
           /\ \A r \in Protected : \A old, v :
                AtEnd(s, r, old, v) => AtEnd(Unlocked(s), r, old, v)
<1> DEFINE u == SYS_DEVCON_SystemUnlock
           l == SYS_DEVCON_SystemLock
           us == u \o s
           usl == us \o l
<1>1. Section(s, TRUE, TRUE)
  <2>1. \A n \in 1 .. Len(s) : s[n].register # "unlocked"
    BY DEF Protected
  <2>2. \A n \in 1 .. Len(s) + 1 : Before(s, "unlocked", TRUE, TRUE, n)
    BY <2>1 DEF Before
  <2>3. Len(s) + 1 \in 1 .. Len(s) + 1 /\ \A n \in 1 .. Len(s) : n \in 1 .. Len(s) + 1
    OBVIOUS
  <2> QED BY <2>2, <2>3 DEF Section, AtEnd, Protected
<1>2. Section(us, FALSE, TRUE) /\ Section(usl, FALSE, FALSE)
  BY <1>1, LockSections, SectionOfParts
<1>3. u \in Seq(Writes) /\ s \in Seq(Writes) /\ l \in Seq(Writes) /\ us \in Seq(Writes)
      /\ usl \in Seq(Writes)
  <2>1. ChipWrites \subseteq Writes
    BY DEF Writes
  <2>2. u \in Seq(ChipWrites) /\ l \in Seq(ChipWrites)
    BY LockSections DEF Section
  <2>3. u \in Seq(Writes) /\ l \in Seq(Writes) /\ s \in Seq(Writes)
    BY <2>1, <2>2
  <2>4. us \in Seq(Writes)
    BY <2>3, Parts
  <2> QED BY <2>3, <2>4, Parts
<1>4. \A n \in 1 .. Len(u) : u[n].register \in {"disable", "unlocked", "restore"}
  BY LockSections
<1>5. \A n \in 1 .. Len(l) : l[n].register \in {"disable", "unlocked", "restore"}
  BY LockSections
<1>6. Unlocked(s) = usl
  BY DEF Unlocked
<1> HIDE DEF u, l
<1>7. ASSUME NEW n \in 1 .. Len(us)
      PROVE  \/ us[n].register \in {"disable", "unlocked", "restore"}
             \/ \E k \in 1 .. Len(s) : us[n] = s[k]
  BY <1>3, <1>4, ElementsOfParts
<1>8. ASSUME NEW k \in 1 .. Len(s)
      PROVE  \E n \in 1 .. Len(us) : us[n] = s[k]
  <2>1. Len(u) + k \in 1 .. Len(us) /\ us[Len(u) + k] = s[k]
    BY <1>3, Parts
  <2> QED BY <2>1
<1>9. ASSUME NEW r \in Protected, NEW old, NEW v, AtEnd(s, r, old, v)
      PROVE  AtEnd(usl, r, old, v)
  <2>1. AtEnd(u, r, old, old)
    BY <1>3, <1>4, Untouched DEF Protected
  <2>2. AtEnd(l, r, v, v)
    BY <1>3, <1>5, Untouched DEF Protected
  <2>3. AtEnd(us, r, old, v)
    BY <1>3, <1>9, <2>1, AtEndOfParts
  <2> HIDE DEF us
  <2> QED BY <1>3, <2>2, <2>3, AtEndOfParts
<1> HIDE DEF us
<1>10. ASSUME NEW n \in 1 .. Len(usl)
       PROVE  \/ usl[n].register \in {"disable", "unlocked", "restore"}
              \/ \E k \in 1 .. Len(s) : usl[n] = s[k]
  BY <1>3, <1>5, <1>7, ElementsOfParts
<1>11. ASSUME NEW k \in 1 .. Len(s)
       PROVE  \E n \in 1 .. Len(usl) : usl[n] = s[k]
  <2>1. PICK n \in 1 .. Len(us) : us[n] = s[k]
    BY <1>8
  <2>2. n \in 1 .. Len(usl) /\ usl[n] = us[n]
    BY <1>3, Parts
  <2> QED BY <2>1, <2>2
<1> HIDE DEF usl
<1> QED BY <1>2, <1>6, <1>9, <1>10, <1>11 DEF ChipProgram
\* Writes that need nothing of the device: no protected register, no section.
Free == {"intOn", "prefetch", "waitStates", "modify", "waiting", "i2cDivisor", "icTimer",
         "restore"}

LEMMA FreeWrites ==
    ASSUME NEW s \in Seq(ChipWrites), \A n \in 1 .. Len(s) : s[n].register \in Free, NEW u
    PROVE  Section(s, u, u)
<1>1. \A n \in 1 .. Len(s) : s[n].register # "unlocked"
  BY DEF Free
<1>2. AtEnd(s, "unlocked", u, u)
  BY <1>1 DEF AtEnd, Before
<1> QED BY <1>2 DEF Section, Free, Protected

\* A call of one write.
LEMMA OneWrite ==
    ASSUME NEW w \in ChipWrites
    PROVE  /\ <<w>> \in Seq(ChipWrites) /\ Len(<<w>>) = 1 /\ <<w>>[1] = w
           /\ \A n \in 1 .. Len(<<w>>) : <<w>>[n] = w
           /\ w.register \in Free => ChipProgram(<<w>>)
           /\ \A old : AtEnd(<<w>>, w.register, old, w.value)
<1> DEFINE s == <<w>>
<1>1. s \in Seq(ChipWrites) /\ Len(s) = 1 /\ s[1] = w
  OBVIOUS
<1> HIDE DEF s
<1>2. \A n \in 1 .. Len(s) : s[n] = w
  BY <1>1
<1>3. w.register \in Free => ChipProgram(s)
  BY <1>1, <1>2, FreeWrites DEF ChipProgram
<1>4. \A old : AtEnd(s, w.register, old, w.value)
  BY <1>1 DEF AtEnd, Before
<1> QED BY <1>1, <1>2, <1>3, <1>4 DEF s

\* The registers the calls are asked for, and those only SYS_Initialize writes.
AskedFor == {"sosc", "onWait", "operation"}
BootOnly == {"intOn", "pbDiv", "icTimer"}

Asking == [sosc : BOOLEAN, onWait : {"idle", "sleep"}, operation : FlashOperations]

\* A service that brings the device to what it is asked for.
LEMMA ServiceCall ==
    ASSUME IInv, NEW s, Service(s), UNCHANGED tmrVars, ChipProgram(s),
           \A n \in 1 .. Len(s) : s[n].register \notin BootOnly,
           asked' \in Asking,
           AtEnd(s, "sosc", asked.sosc, asked'.sosc),
           AtEnd(s, "onWait", asked.onWait, asked'.onWait),
           AtEnd(s, "operation", asked.operation, asked'.operation)
    PROVE  IInv'
<1>1. /\ todo = <<>> /\ boot = <<>> /\ todo' = s
      /\ UNCHANGED <<boot, chip, port>>
  BY DEF Service
<1>2. Progress
  BY <1>1 DEF Progress
<1>3. Left = 0
  BY <1>1, <1>2, BootLeft
<1>4. StartsChip
  BY <1>1, <1>2, <1>3 DEF StartsChip, BootOnly, Asking
<1>5. Left \notin {2, 4}
  BY <1>3
<1> QED BY <1>1, <1>4, <1>5, ChipCall

\* A service that is asked for nothing that lasts.
LEMMA PlainService ==
    ASSUME IInv, NEW s, Service(s), UNCHANGED tmrVars, UNCHANGED asked, ChipProgram(s),
           \A n \in 1 .. Len(s) : s[n].register \notin BootOnly \cup AskedFor
    PROVE  IInv'
<1>1. s \in Seq(Writes)
  <2>1. s \in Seq(ChipWrites) /\ ChipWrites \subseteq Writes
    BY DEF ChipProgram, Section, Writes
  <2> QED BY <2>1
<1>2. \A r \in AskedFor : \A v : AtEnd(s, r, v, v)
  BY <1>1, Untouched
<1>3. asked' \in Asking
  BY DEF IInv, Shape, Asking
<1>4. /\ AtEnd(s, "sosc", asked.sosc, asked'.sosc)
      /\ AtEnd(s, "onWait", asked.onWait, asked'.onWait)
      /\ AtEnd(s, "operation", asked.operation, asked'.operation)
  BY <1>2 DEF AskedFor
<1> QED BY <1>3, <1>4, ServiceCall

\* A call of SYS_Initialize on the device.
LEMMA BootCall ==
    ASSUME IInv, NEW call \in {"clk", "devcon", "i2c", "ic", "nvm", "int"}, NEW s,
           Boot(call, s), UNCHANGED tmrVars, ChipProgram(s),
           \A n \in 1 .. Len(s) :
             /\ s[n].register \notin AskedFor
             /\ s[n].register = "intOn" => s[n].value
             /\ s[n].register = "pbDiv" =>
                  call = "clk" /\ s[n].value[2] = Divisor(s[n].value[1])
             /\ s[n].register = "icTimer" => call = "ic",
           call = "clk" => \A b \in Buses : \E n \in 1 .. Len(s) :
                             s[n].register = "pbDiv" /\ s[n].value[1] = b,
           call = "ic" => \A old : AtEnd(s, "icTimer", old, "TMR2"),
           call = "int" => s = <<Write("intOn", TRUE)>>
    PROVE  IInv'
<1>1. /\ todo = <<>> /\ boot # <<>> /\ todo' = s /\ Head(boot) = call
      /\ boot' = Tail(boot) /\ UNCHANGED <<chip, port, asked>>
  BY DEF Boot
<1>2. Progress
  BY <1>1 DEF Progress
<1>3. Left \in 1 .. 9 /\ BootOrder[10 - Left] = call
  BY <1>1, <1>2, BootLeft
<1>4. /\ Left = 9 <=> call = "clk"
      /\ Left = 6 <=> call = "ic"
      /\ Left = 1 <=> call = "int"
      /\ Left \notin {2, 4}
  BY <1>3 DEF BootOrder
<1>5. s \in Seq(Writes)
  <2>1. s \in Seq(ChipWrites) /\ ChipWrites \subseteq Writes
    BY DEF ChipProgram, Section, Writes
  <2> QED BY <2>1
<1>6. \A r \in AskedFor : \A v : AtEnd(s, r, v, v)
  BY <1>5, Untouched
<1>7. asked' \in Asking
  BY <1>1 DEF IInv, Shape, Asking
<1>8. /\ AtEnd(s, "sosc", asked.sosc, asked'.sosc)
      /\ AtEnd(s, "onWait", asked.onWait, asked'.onWait)
      /\ AtEnd(s, "operation", asked.operation, asked'.operation)
  BY <1>1, <1>6 DEF AskedFor
<1>9. \A n \in 1 .. Len(s) :
             /\ s[n].register = "intOn" => s[n].value
             /\ s[n].register = "pbDiv" =>
                  Left = 9 /\ s[n].value[2] = Divisor(s[n].value[1])
             /\ s[n].register = "icTimer" => Left = 6
  BY <1>4, Zenon
<1>10. Left = 9 => \A b \in Buses : \E n \in 1 .. Len(s) :
                             s[n].register = "pbDiv" /\ s[n].value[1] = b
  BY <1>4
<1>11. Left = 6 => AtEnd(s, "icTimer", chip.icTimer, "TMR2")
  BY <1>4
<1>12. Left = 1 => s = <<Write("intOn", TRUE)>>
  BY <1>4
<1>13. StartsChip
  BY <1>1, <1>2, <1>7, <1>8, <1>9, <1>10, <1>11, <1>12, Zenon DEF StartsChip, Asking
<1> QED BY <1>1, <1>4, <1>13, ChipCall
----------------------------------------------------------------------------
\* sys_devcon_pic32mz.c: two sections, each closed.
LEMMA PerformanceProgram ==
    /\ ChipProgram(PerformanceConfig(SYS_CLK_FREQ))
    /\ \A n \in 1 .. Len(PerformanceConfig(SYS_CLK_FREQ)) :
         PerformanceConfig(SYS_CLK_FREQ)[n].register
           \in {"disable", "waitStates", "restore", "prefetch"}
<1> DEFINE a == Write("disable", TRUE)
           b == Write("waitStates", WaitStates(SYS_CLK_FREQ))
           c == Write("restore", TRUE)
           d == Write("prefetch", TRUE)
           s == <<a, b, c, a, d, c>>
<1>1. /\ a.register = "disable" /\ b.register = "waitStates"
      /\ c.register = "restore" /\ d.register = "prefetch"
      /\ a \in ChipWrites /\ b \in ChipWrites /\ c \in ChipWrites /\ d \in ChipWrites
  <2>1. WaitStates(SYS_CLK_FREQ) \in 0 .. 7
    BY BoardAssumption DEF WaitStates, ecc
  <2> QED BY <2>1 DEF Write, ChipWrites
<1> HIDE DEF a, b, c, d
<1>2. /\ s \in Seq(ChipWrites) /\ Len(s) = 6
      /\ s[1] = a /\ s[2] = b /\ s[3] = c /\ s[4] = a /\ s[5] = d /\ s[6] = c
  BY <1>1
<1> HIDE DEF s
<1>3. /\ s[1].register = "disable" /\ s[2].register = "waitStates"
      /\ s[3].register = "restore" /\ s[4].register = "disable"
      /\ s[5].register = "prefetch" /\ s[6].register = "restore"
  BY <1>1, <1>2
<1>4. \A n \in 1 .. Len(s) : n \in {1, 2, 3, 4, 5, 6}
  BY <1>2
<1>5. RestoredAfter(s, 1)
  BY <1>2, <1>3 DEF RestoredAfter
<1>6. RestoredAfter(s, 4)
  BY <1>2, <1>3 DEF RestoredAfter
<1>7. AtEnd(s, "unlocked", FALSE, FALSE)
  BY <1>2, <1>3, <1>4 DEF AtEnd, Before
<1>8. ChipProgram(s)
  BY <1>2, <1>3, <1>4, <1>5, <1>6, <1>7 DEF ChipProgram, Section, Protected
<1>9. PerformanceConfig(SYS_CLK_FREQ) = s
  BY DEF PerformanceConfig, GetStateAndDisable, RestoreInt, a, b, c, d, s
<1> QED BY <1>3, <1>4, <1>8, <1>9

\* sys_clk_pic32mz.c: every bus has its divisor.
LEMMA ClocksProgram ==
    /\ ChipProgram(Clocks)
    /\ \A n \in 1 .. Len(Clocks) :
         /\ Clocks[n].register \in {"disable", "unlocked", "restore", "pbDiv"}
         /\ Clocks[n].register = "pbDiv" =>
              Clocks[n].value[2] = Divisor(Clocks[n].value[1])
    /\ \A b \in Buses : \E n \in 1 .. Len(Clocks) :
         Clocks[n].register = "pbDiv" /\ Clocks[n].value[1] = b
<1> DEFINE s == [n \in 1 .. 7 |-> Write("pbDiv", PBClockDivisors[n])]
<1>1. \A n \in 1 .. 7 : /\ PBClockDivisors[n] \in Buses \X (Nat \ {0})
                        /\ PBClockDivisors[n][2] = Divisor(PBClockDivisors[n][1])
  <2> SUFFICES ASSUME NEW n \in {1, 2, 3, 4, 5, 6, 7}
               PROVE  /\ PBClockDivisors[n] \in Buses \X (Nat \ {0})
                      /\ PBClockDivisors[n][2] = Divisor(PBClockDivisors[n][1])
    OBVIOUS
  <2> QED BY DEF PBClockDivisors, Buses, Divisor
<1>2. \A b \in Buses : \E n \in 1 .. 7 : PBClockDivisors[n][1] = b
  BY DEF PBClockDivisors, Buses
<1>3. \A n \in 1 .. 7 : /\ s[n] \in ChipWrites /\ s[n].register = "pbDiv"
                        /\ s[n].value = PBClockDivisors[n]
  BY <1>1 DEF Write, ChipWrites
<1>4. s \in Seq(ChipWrites) /\ Len(s) = 7
  BY <1>3
<1>5. Clocks = Unlocked(s)
  BY DEF Clocks
<1> HIDE DEF s
<1>6. \A n \in 1 .. Len(s) : s[n].register \in Protected
  BY <1>3, <1>4 DEF Protected
<1> DEFINE u == Unlocked(s)
<1>u. /\ ChipProgram(u)
      /\ \A n \in 1 .. Len(u) : \/ u[n].register \in {"disable", "unlocked", "restore"}
                               \/ \E k \in 1 .. Len(s) : u[n] = s[k]
      /\ \A k \in 1 .. Len(s) : \E n \in 1 .. Len(u) : u[n] = s[k]
  BY <1>4, <1>6, UnlockedProgram
<1>v. Clocks = u
  BY <1>5
<1> HIDE DEF u
<1>7. /\ ChipProgram(Clocks)
      /\ \A n \in 1 .. Len(Clocks) :
           \/ Clocks[n].register \in {"disable", "unlocked", "restore"}
           \/ \E k \in 1 .. Len(s) : Clocks[n] = s[k]
      /\ \A k \in 1 .. Len(s) : \E n \in 1 .. Len(Clocks) : Clocks[n] = s[k]
  BY <1>u, <1>v
<1>8. ASSUME NEW n \in 1 .. Len(Clocks)
      PROVE  /\ Clocks[n].register \in {"disable", "unlocked", "restore", "pbDiv"}
             /\ Clocks[n].register = "pbDiv" =>
                  Clocks[n].value[2] = Divisor(Clocks[n].value[1])
  <2>1. CASE Clocks[n].register \in {"disable", "unlocked", "restore"}
    BY <2>1
  <2>2. ASSUME NEW k \in 1 .. Len(s), Clocks[n] = s[k]
        PROVE  /\ Clocks[n].register = "pbDiv"
               /\ Clocks[n].value[2] = Divisor(Clocks[n].value[1])
    <3>1. k \in 1 .. 7
      BY <1>4
    <3>2. s[k].register = "pbDiv" /\ s[k].value = PBClockDivisors[k]
      BY <1>3, <3>1
    <3> QED BY <1>1, <2>2, <3>1, <3>2, Zenon
  <2> QED BY <1>7, <2>1, <2>2
<1>9. ASSUME NEW b \in Buses
      PROVE  \E n \in 1 .. Len(Clocks) :
               Clocks[n].register = "pbDiv" /\ Clocks[n].value[1] = b
  <2>1. PICK k \in 1 .. 7 : PBClockDivisors[k][1] = b
    BY <1>2
  <2>2. PICK n \in 1 .. Len(Clocks) : Clocks[n] = s[k]
    BY <1>4, <1>7
  <2> QED BY <1>3, <2>1, <2>2
<1> QED BY <1>7, <1>8, <1>9

\* One write of a protected register, the device unlocked for it.
LEMMA UnlockedWrite ==
    ASSUME NEW w \in ChipWrites, w.register \in Protected
    PROVE  /\ ChipProgram(Unlocked(<<w>>))
           /\ \A n \in 1 .. Len(Unlocked(<<w>>)) :
                Unlocked(<<w>>)[n].register \in {"disable", "unlocked", "restore", w.register}
           /\ \A old : AtEnd(Unlocked(<<w>>), w.register, old, w.value)
<1> DEFINE s == <<w>>
<1>1. /\ s \in Seq(ChipWrites) /\ Len(s) = 1
      /\ \A n \in 1 .. Len(s) : s[n] = w
      /\ \A old : AtEnd(s, w.register, old, w.value)
  BY OneWrite
<1> HIDE DEF s
<1>2. \A n \in 1 .. Len(s) : s[n].register \in Protected
  BY <1>1
<1> DEFINE u == Unlocked(s)
<1>3. /\ ChipProgram(u)
      /\ \A n \in 1 .. Len(u) : \/ u[n].register \in {"disable", "unlocked", "restore"}
                                \/ \E k \in 1 .. Len(s) : u[n] = s[k]
      /\ \A r \in Protected : \A old, v : AtEnd(s, r, old, v) => AtEnd(u, r, old, v)
  BY <1>1, <1>2, UnlockedProgram
<1> HIDE DEF u
<1>4. \A n \in 1 .. Len(u) : u[n].register \in {"disable", "unlocked", "restore", w.register}
  BY <1>1, <1>3
<1>5. \A old : AtEnd(u, w.register, old, w.value)
  BY <1>1, <1>3
<1> QED BY <1>3, <1>4, <1>5 DEF u, s

\* SYS_DEVCON_PowerModeEnter
LEMMA PowerModeProgram ==
    ASSUME NEW m \in {"idle", "sleep"}
    PROVE  /\ ChipProgram(PowerModeEnter(m))
           /\ \A n \in 1 .. Len(PowerModeEnter(m)) :
                PowerModeEnter(m)[n].register
                  \in {"disable", "unlocked", "restore", "onWait", "waiting"}
           /\ \A old : AtEnd(PowerModeEnter(m), "onWait", old, m)
<1> DEFINE w == Write("onWait", m)
           z == Write("waiting", TRUE)
           u == Unlocked(<<w>>)
           t == <<z>>
           p == u \o t
<1>1. /\ w \in ChipWrites /\ w.register = "onWait" /\ w.value = m
      /\ z \in ChipWrites /\ z.register = "waiting"
  BY DEF Write, ChipWrites
<1> HIDE DEF w, z
<1>2. /\ ChipProgram(u)
      /\ \A n \in 1 .. Len(u) : u[n].register \in {"disable", "unlocked", "restore", "onWait"}
      /\ \A old : AtEnd(u, "onWait", old, m)
  BY <1>1, UnlockedWrite DEF Protected
<1>3. /\ ChipProgram(t) /\ \A n \in 1 .. Len(t) : t[n].register = "waiting"
  BY <1>1, OneWrite DEF Free
<1>4. PowerModeEnter(m) = p
  <2>1. u \in Seq(ChipWrites)
    BY <1>2 DEF ChipProgram, Section
  <2> HIDE DEF u
  <2>2. Append(u, z) = u \o <<z>>
    BY <1>1, <2>1
  <2> QED BY <2>2 DEF PowerModeEnter, u, w, z
<1> HIDE DEF u, t
<1>5. u \in Seq(Writes) /\ t \in Seq(Writes)
  <2>1. u \in Seq(ChipWrites) /\ t \in Seq(ChipWrites) /\ ChipWrites \subseteq Writes
    BY <1>2, <1>3 DEF ChipProgram, Section, Writes
  <2> QED BY <2>1
<1>6. ChipProgram(p)
  BY <1>2, <1>3, SectionOfParts DEF ChipProgram
<1>7. \A n \in 1 .. Len(p) :
        p[n].register \in {"disable", "unlocked", "restore", "onWait", "waiting"}
  <2> TAKE n \in 1 .. Len(p)
  <2> QED BY <1>2, <1>3, <1>5, ElementsOfParts
<1>8. \A old : AtEnd(p, "onWait", old, m)
  <2>1. AtEnd(t, "onWait", m, m)
    BY <1>3, <1>5, Untouched
  <2> QED BY <1>2, <1>5, <2>1, AtEndOfParts
<1> QED BY <1>4, <1>6, <1>7, <1>8

\* drv_nvm_static.c: the operation is selected while the flash may not be
\* modified, in one section.
LEMMA FlashProgram ==
    ASSUME NEW mode \in FlashOperations
    PROVE  /\ ChipProgram(DRV_NVM_UnlockSequence(mode))
           /\ \A n \in 1 .. Len(DRV_NVM_UnlockSequence(mode)) :
                DRV_NVM_UnlockSequence(mode)[n].register
                  \in {"disable", "modify", "operation", "restore"}
           /\ \A old : AtEnd(DRV_NVM_UnlockSequence(mode), "operation", old, mode)
<1> DEFINE a == Write("disable", TRUE)
           b == Write("modify", FALSE)
           c == Write("operation", mode)
           d == Write("modify", TRUE)
           e == Write("restore", TRUE)
           x == <<a>>
           y == <<b>>
           z == <<c, d, e>>
           xy == x \o y
           s == xy \o z
<1>1. /\ a.register = "disable" /\ b.register = "modify" /\ b.value = FALSE
      /\ c.register = "operation" /\ c.value = mode /\ d.register = "modify"
      /\ e.register = "restore"
      /\ a \in ChipWrites /\ b \in ChipWrites /\ c \in ChipWrites /\ d \in ChipWrites
      /\ e \in ChipWrites
  BY DEF Write, ChipWrites
<1>2. DRV_NVM_UnlockSequence(mode) = s
  BY DEF DRV_NVM_UnlockSequence, MemoryModifyInhibit, GetStateAndDisable, RestoreInt
<1> HIDE DEF a, b, c, d, e
<1>3. /\ x \in Seq(ChipWrites) /\ y \in Seq(ChipWrites) /\ z \in Seq(ChipWrites)
      /\ Len(x) = 1 /\ Len(y) = 1 /\ Len(z) = 3 /\ x[1] = a /\ y[1] = b
      /\ z[1] = c /\ z[2] = d /\ z[3] = e
  BY <1>1
<1> HIDE DEF x, y, z
<1>4. ChipWrites \subseteq Writes
  BY DEF Writes
<1>5. /\ x \in Seq(Writes) /\ y \in Seq(Writes) /\ z \in Seq(Writes)
      /\ xy \in Seq(ChipWrites) /\ s \in Seq(ChipWrites)
  BY <1>3, <1>4
<1>6. xy \in Seq(Writes) /\ Len(xy) = 2 /\ xy[1] = a /\ xy[2] = b
  <2>1. /\ xy \in Seq(Writes) /\ Len(xy) = Len(x) + Len(y)
        /\ \A n \in 1 .. Len(x) : xy[n] = x[n]
        /\ \A n \in 1 .. Len(y) : xy[Len(x) + n] = y[n]
    BY <1>5, Parts
  <2> HIDE DEF xy
  <2>2. 1 \in 1 .. Len(x) /\ 1 \in 1 .. Len(y)
    BY <1>3
  <2>3. xy[1] = x[1] /\ xy[Len(x) + 1] = y[1] /\ Len(x) + 1 = 2
    BY <1>3, <2>1, <2>2
  <2> QED BY <1>3, <2>1, <2>3
<1> HIDE DEF xy
<1>7. Len(s) = 5 /\ s[1] = a /\ s[2] = b /\ s[3] = c /\ s[4] = d /\ s[5] = e
  <2>1. /\ Len(s) = Len(xy) + Len(z)
        /\ \A n \in 1 .. Len(xy) : s[n] = xy[n]
        /\ \A n \in 1 .. Len(z) : s[Len(xy) + n] = z[n]
    BY <1>5, <1>6, Parts
  <2> HIDE DEF s
  <2>2. s[1] = xy[1] /\ s[2] = xy[2]
    BY <1>6, <2>1
  <2>3. /\ s[Len(xy) + 1] = z[1] /\ s[Len(xy) + 2] = z[2] /\ s[Len(xy) + 3] = z[3]
        /\ Len(xy) + 1 = 3 /\ Len(xy) + 2 = 4 /\ Len(xy) + 3 = 5
    BY <1>3, <1>6, <2>1
  <2> QED BY <1>3, <1>6, <2>1, <2>2, <2>3
<1> HIDE DEF s
<1>8. /\ s[1].register = "disable" /\ s[2].register = "modify" /\ s[2].value = FALSE
      /\ s[3].register = "operation" /\ s[3].value = mode /\ s[4].register = "modify"
      /\ s[5].register = "restore" /\ s \in Seq(ChipWrites)
      /\ \A n \in 1 .. Len(s) : n \in {1, 2, 3, 4, 5}
  BY <1>1, <1>5, <1>7
<1>9. \A old : Before(s, "modify", old, FALSE, 3)
  BY <1>8 DEF Before
<1>10. RestoredAfter(s, 1)
  BY <1>7, <1>8 DEF RestoredAfter
<1>11. AtEnd(s, "unlocked", FALSE, FALSE)
  BY <1>7, <1>8 DEF AtEnd, Before
<1>12. \A old : AtEnd(s, "operation", old, mode)
  BY <1>7, <1>8 DEF AtEnd, Before
<1>13. ChipProgram(s)
  BY <1>8, <1>9, <1>10, <1>11 DEF ChipProgram, Section, Protected
<1> QED BY <1>2, <1>8, <1>12, <1>13

LEMMA TwoWrites ==
    ASSUME NEW v \in ChipWrites, NEW w \in ChipWrites
    PROVE  /\ Append(<<v>>, w) \in Seq(ChipWrites) /\ Len(Append(<<v>>, w)) = 2
           /\ Append(<<v>>, w)[1] = v /\ Append(<<v>>, w)[2] = w
<1> DEFINE a == <<v>>
           b == <<w>>
           s == a \o b
<1>1. /\ a \in Seq(ChipWrites) /\ Len(a) = 1 /\ a[1] = v
      /\ b \in Seq(ChipWrites) /\ Len(b) = 1 /\ b[1] = w
  OBVIOUS
<1>2. Append(a, w) = s
  <2> HIDE DEF a
  <2> QED BY <1>1
<1> HIDE DEF a, b
<1>3. s \in Seq(ChipWrites) /\ a \in Seq(Writes) /\ b \in Seq(Writes)
  <2>1. ChipWrites \subseteq Writes
    BY DEF Writes
  <2> QED BY <1>1, <2>1
<1>4. Len(s) = 2 /\ s[1] = v /\ s[2] = w
  <2>1. /\ Len(s) = Len(a) + Len(b)
        /\ \A n \in 1 .. Len(a) : s[n] = a[n]
        /\ \A n \in 1 .. Len(b) : s[Len(a) + n] = b[n]
    BY <1>3, Parts
  <2> HIDE DEF s
  <2>2. s[1] = a[1] /\ s[Len(a) + 1] = b[1] /\ Len(a) + 1 = 2
    BY <1>1, <2>1
  <2> QED BY <1>1, <2>1, <2>2
<1> HIDE DEF s
<1> QED BY <1>2, <1>3, <1>4 DEF a

LEMMA ServicesStep ==
    ASSUME IInv, Services, UNCHANGED tmrVars
    PROVE  IInv'
<1>0. asked \in Asking
  BY DEF IInv, Shape, Asking
<1>r. ASSUME todo = <<>>
      PROVE  /\ chip.sosc = asked.sosc /\ chip.onWait = asked.onWait
             /\ chip.operation = asked.operation
  BY <1>r, AtRest
<1>p. ASSUME NEW s, ChipProgram(s), NEW r, \A n \in 1 .. Len(s) : s[n].register # r
      PROVE  \A v : AtEnd(s, r, v, v)
  <2>1. s \in Seq(ChipWrites) /\ ChipWrites \subseteq Writes
    BY <1>p DEF ChipProgram, Section, Writes
  <2>2. s \in Seq(Writes)
    BY <2>1
  <2> QED BY <1>p, <2>2, Untouched
<1>1. ASSUME NEW m \in {"idle", "sleep"}, SYS_DEVCON_PowerModeEnter(m)
      PROVE  IInv'
  <2> DEFINE s == PowerModeEnter(m)
  <2>1. Service(s) /\ asked' = [asked EXCEPT !.onWait = m]
    BY <1>1 DEF SYS_DEVCON_PowerModeEnter
  <2>2. asked' \in Asking /\ asked'.onWait = m /\ asked'.sosc = asked.sosc
        /\ asked'.operation = asked.operation
    BY <1>0, <2>1 DEF Asking
  <2>3. /\ ChipProgram(s)
        /\ \A n \in 1 .. Len(s) :
             s[n].register \in {"disable", "unlocked", "restore", "onWait", "waiting"}
        /\ \A old : AtEnd(s, "onWait", old, m)
    BY PowerModeProgram
  <2> HIDE DEF s
  <2>4. AtEnd(s, "sosc", asked.sosc, asked.sosc)
    BY <1>p, <2>3
  <2>5. AtEnd(s, "operation", asked.operation, asked.operation)
    BY <1>p, <2>3
  <2>6. AtEnd(s, "onWait", asked.onWait, asked'.onWait)
    BY <2>2, <2>3
  <2>7. \A n \in 1 .. Len(s) : s[n].register \notin BootOnly
    BY <2>3 DEF BootOnly
  <2>8. AtEnd(s, "sosc", asked.sosc, asked'.sosc)
        /\ AtEnd(s, "operation", asked.operation, asked'.operation)
    BY <2>2, <2>4, <2>5
  <2> QED BY <2>1, <2>2, <2>3, <2>6, <2>7, <2>8, ServiceCall
<1>2. ASSUME SYS_DEVCON_PerformanceConfig
      PROVE  IInv'
  <2> DEFINE s == PerformanceConfig(SYS_CLK_FREQ)
  <2>1. Service(s) /\ UNCHANGED asked
    BY <1>2 DEF SYS_DEVCON_PerformanceConfig, SYS_CLK_SystemFrequencyGet
  <2>2. /\ ChipProgram(s)
        /\ \A n \in 1 .. Len(s) :
             s[n].register \in {"disable", "waitStates", "restore", "prefetch"}
    BY PerformanceProgram
  <2> HIDE DEF s
  <2>3. \A n \in 1 .. Len(s) : s[n].register \notin BootOnly \cup AskedFor
    BY <2>2 DEF BootOnly, AskedFor
  <2> QED BY <2>1, <2>2, <2>3, PlainService
<1>3. ASSUME NEW on \in BOOLEAN, Service(SecondaryOscillatorSet(on)),
             asked' = [asked EXCEPT !.sosc = on]
      PROVE  IInv'
  <2>1. asked' \in Asking /\ asked'.sosc = on /\ asked'.onWait = asked.onWait
        /\ asked'.operation = asked.operation
    BY <1>0, <1>3 DEF Asking
  <2>2. asked.sosc = chip.sosc
    BY <1>3, <1>r DEF Service
  <2>3. CASE chip.sosc # on
    <3> DEFINE w == Write("sosc", on)
               s == Unlocked(<<w>>)
    <3>1. w \in ChipWrites /\ w.register = "sosc" /\ w.value = on
      BY DEF Write, ChipWrites
    <3>2. SecondaryOscillatorSet(on) = s
      BY <2>3 DEF SecondaryOscillatorSet, SecondaryOscillatorIsEnabled
    <3> HIDE DEF w
    <3>3. /\ ChipProgram(s)
          /\ \A n \in 1 .. Len(s) :
               s[n].register \in {"disable", "unlocked", "restore", "sosc"}
          /\ \A old : AtEnd(s, "sosc", old, on)
      BY <3>1, UnlockedWrite DEF Protected
    <3> HIDE DEF s
    <3>4. AtEnd(s, "onWait", asked.onWait, asked.onWait)
      BY <1>p, <3>3
    <3>5. AtEnd(s, "operation", asked.operation, asked.operation)
      BY <1>p, <3>3
    <3>6. AtEnd(s, "sosc", asked.sosc, asked'.sosc)
      BY <2>1, <3>3, Zenon
    <3>7. \A n \in 1 .. Len(s) : s[n].register \notin BootOnly
      BY <3>3 DEF BootOnly
    <3>8. AtEnd(s, "onWait", asked.onWait, asked'.onWait)
          /\ AtEnd(s, "operation", asked.operation, asked'.operation)
      BY <2>1, <3>4, <3>5
    <3>9. Service(s)
      BY <1>3, <3>2
    <3> QED BY <2>1, <3>3, <3>6, <3>7, <3>8, <3>9, ServiceCall
  <2>4. CASE chip.sosc = on
    <3>1. SecondaryOscillatorSet(on) = <<>>
      BY <2>4 DEF SecondaryOscillatorSet, SecondaryOscillatorIsEnabled
    <3>2. asked' = asked
      BY <1>0, <1>3, <2>2, <2>4 DEF Asking
    <3>3. <<>> \in Seq(ChipWrites) /\ \A n \in 1 .. Len(<<>>) : FALSE
      OBVIOUS
    <3>4. ChipProgram(<<>>)
      BY <3>3, FreeWrites DEF ChipProgram
    <3>5. Service(<<>>)
      BY <1>3, <3>1
    <3> QED BY <3>2, <3>3, <3>4, <3>5, PlainService
  <2> QED BY <2>3, <2>4
<1>4. ASSUME NEW mode \in FlashOperations, FlashOperation(mode)
      PROVE  IInv'
  <2> DEFINE s == DRV_NVM_UnlockSequence(mode)
  <2>1. Service(s) /\ asked' = [asked EXCEPT !.operation = mode]
    BY <1>4 DEF FlashOperation
  <2>2. asked' \in Asking /\ asked'.operation = mode /\ asked'.sosc = asked.sosc
        /\ asked'.onWait = asked.onWait
    BY <1>0, <2>1 DEF Asking
  <2>3. /\ ChipProgram(s)
        /\ \A n \in 1 .. Len(s) :
             s[n].register \in {"disable", "modify", "operation", "restore"}
        /\ \A old : AtEnd(s, "operation", old, mode)
    BY FlashProgram
  <2> HIDE DEF s
  <2>4. AtEnd(s, "sosc", asked.sosc, asked.sosc)
    BY <1>p, <2>3
  <2>5. AtEnd(s, "onWait", asked.onWait, asked.onWait)
    BY <1>p, <2>3
  <2>6. AtEnd(s, "operation", asked.operation, asked'.operation)
    BY <2>2, <2>3
  <2>7. \A n \in 1 .. Len(s) : s[n].register \notin BootOnly
    BY <2>3 DEF BootOnly
  <2>8. AtEnd(s, "sosc", asked.sosc, asked'.sosc)
        /\ AtEnd(s, "onWait", asked.onWait, asked'.onWait)
    BY <2>2, <2>4, <2>5
  <2> QED BY <2>1, <2>2, <2>3, <2>6, <2>7, <2>8, ServiceCall
<1>5. ASSUME NEW s \in Seq(ChipWrites), Service(s), UNCHANGED asked,
             \A n \in 1 .. Len(s) : s[n].register = "i2cDivisor"
      PROVE  IInv'
  <2>1. ChipProgram(s)
    BY <1>5, FreeWrites DEF ChipProgram, Free
  <2>2. \A n \in 1 .. Len(s) : s[n].register \notin BootOnly \cup AskedFor
    BY <1>5 DEF BootOnly, AskedFor
  <2> QED BY <1>5, <2>1, <2>2, PlainService
<1> DEFINE off == Write("i2cDivisor", 0)
           bus == Write("i2cDivisor", SYS_CLK_PeripheralFrequencyGet(2) \div 400000)
<1>6. /\ off \in ChipWrites /\ bus \in ChipWrites
      /\ off.register = "i2cDivisor" /\ bus.register = "i2cDivisor"
  <2>1. SYS_CLK_PeripheralFrequencyGet(2) \div 400000 \in Nat
    <3>1. SYS_CLK_PeripheralFrequencyGet(2) = 25000000
      BY DEF SYS_CLK_PeripheralFrequencyGet, SYS_CLK_BUS_PERIPHERAL, Buses
    <3> QED BY <3>1
  <2> QED BY <2>1 DEF Write, ChipWrites
<1>7. ASSUME NEW h, DRV_I2C_Close(h)
      PROVE  IInv'
  <2>1. Service(<<off>>) \/ Service(<<>>)
    BY <1>7 DEF DRV_I2C_Close, DRV_I2C0_DeInitialize
  <2>2. UNCHANGED asked
    BY <1>7 DEF DRV_I2C_Close
  <2> HIDE DEF off
  <2>3. /\ <<off>> \in Seq(ChipWrites) /\ <<>> \in Seq(ChipWrites)
        /\ (\A n \in 1 .. Len(<<off>>) : <<off>>[n].register = "i2cDivisor")
    BY <1>6, OneWrite
  <2>4. \A n \in 1 .. Len(<<>>) : FALSE
    OBVIOUS
  <2>5. CASE Service(<<off>>)
    BY <1>5, <2>2, <2>3, <2>5
  <2>6. CASE Service(<<>>)
    BY <1>5, <2>2, <2>3, <2>4, <2>6
  <2> QED BY <2>1, <2>5, <2>6
<1>8. ASSUME I2cBaudRate
      PROVE  IInv'
  <2>1. Service(Append(<<off>>, bus)) /\ UNCHANGED asked
    BY <1>8 DEF I2cBaudRate, DRV_I2C0_BaudRateSet, DRV_I2C0_DeInitialize, DRV_I2C0_Enabled
  <2> HIDE DEF off, bus
  <2> DEFINE s == Append(<<off>>, bus)
  <2>3. s \in Seq(ChipWrites) /\ Len(s) = 2 /\ s[1] = off /\ s[2] = bus
    BY <1>6, TwoWrites
  <2> HIDE DEF s
  <2>4. \A n \in 1 .. Len(s) : s[n].register = "i2cDivisor"
    <3>1. \A n \in 1 .. Len(s) : n \in {1, 2}
      BY <2>3
    <3> QED BY <1>6, <2>3, <3>1
  <2>5. Service(s)
    BY <2>1 DEF s
  <2> QED BY <1>5, <2>1, <2>3, <2>4, <2>5
<1>9. SYS_CLK_SecondaryOscillatorEnable => IInv'
  BY <1>3 DEF SYS_CLK_SecondaryOscillatorEnable
<1>10. SYS_CLK_SecondaryOscillatorDisable => IInv'
  BY <1>3 DEF SYS_CLK_SecondaryOscillatorDisable
<1> QED BY <1>1, <1>2, <1>4, <1>7, <1>8, <1>9, <1>10 DEF Services

\* A call of SYS_Initialize that makes one write.
OneWriteCalls(call, w) ==
    /\ call \in {"i2c", "ic", "nvm", "int"} /\ w \in ChipWrites
    /\ w.register \in {"i2cDivisor", "icTimer", "modify", "intOn"}
    /\ w.register = "icTimer" => call = "ic"
    /\ w.register = "intOn" => w.value = TRUE
    /\ call = "ic" => w.register = "icTimer" /\ w.value = "TMR2"
    /\ call = "int" => w = Write("intOn", TRUE)

LEMMA OneWriteBoot ==
    ASSUME IInv, UNCHANGED tmrVars, NEW call, NEW w, OneWriteCalls(call, w),
           Boot(call, <<w>>)
    PROVE  IInv'
<1>0. /\ call \in {"i2c", "ic", "nvm", "int"} /\ w \in ChipWrites
      /\ w.register \in {"i2cDivisor", "icTimer", "modify", "intOn"}
      /\ w.register = "icTimer" => call = "ic"
      /\ w.register = "intOn" => w.value = TRUE
      /\ call = "ic" => w.register = "icTimer" /\ w.value = "TMR2"
      /\ call = "int" => w = Write("intOn", TRUE)
  BY DEF OneWriteCalls
<1> DEFINE s == <<w>>
<1> HIDE DEF s
<1>1. /\ s \in Seq(ChipWrites) /\ \A n \in 1 .. Len(s) : s[n] = w
      /\ w.register \in Free => ChipProgram(s)
      /\ \A old : AtEnd(s, w.register, old, w.value)
  BY <1>0, OneWrite, Zenon DEF s
<1>2. Boot(call, s) /\ (call = "int" => s = <<Write("intOn", TRUE)>>)
  BY <1>0, Zenon DEF s
<1>3. ChipProgram(s)
  BY <1>0, <1>1 DEF Free
<1>4. \A n \in 1 .. Len(s) :
             /\ s[n].register \notin AskedFor
             /\ s[n].register = "intOn" => s[n].value
             /\ s[n].register = "pbDiv" => FALSE
             /\ s[n].register = "icTimer" => call = "ic"
  <2>1. \A n \in 1 .. Len(s) : s[n].register \notin AskedFor /\ s[n].register # "pbDiv"
    BY <1>0, <1>1 DEF AskedFor
  <2>2. \A n \in 1 .. Len(s) : s[n].register = "icTimer" => call = "ic"
    BY <1>0, <1>1
  <2>3. \A n \in 1 .. Len(s) : s[n].register = "intOn" => s[n].value = TRUE
    BY <1>0, <1>1
  <2> QED BY <2>1, <2>2, <2>3, Zenon
<1>5. call = "ic" => \A old : AtEnd(s, "icTimer", old, "TMR2")
  BY <1>0, <1>1
<1> QED BY <1>0, <1>2, <1>3, <1>4, <1>5, BootCall

\* SYS_Initialize: the calls on the device.
LEMMA ClocksBoot ==
    ASSUME IInv, UNCHANGED tmrVars, Boot("clk", Clocks)
    PROVE  IInv'
<1> DEFINE s == Clocks
<1>1. /\ ChipProgram(s)
      /\ \A n \in 1 .. Len(s) :
           /\ s[n].register \in {"disable", "unlocked", "restore", "pbDiv"}
           /\ s[n].register = "pbDiv" => s[n].value[2] = Divisor(s[n].value[1])
      /\ \A b \in Buses : \E n \in 1 .. Len(s) : s[n].register = "pbDiv" /\ s[n].value[1] = b
  BY ClocksProgram
<1>2. Boot("clk", s)
  OBVIOUS
<1> HIDE DEF s
<1>3. \A n \in 1 .. Len(s) : /\ s[n].register \notin AskedFor
                             /\ s[n].register # "intOn" /\ s[n].register # "icTimer"
  BY <1>1 DEF AskedFor
<1> QED BY <1>1, <1>2, <1>3, BootCall

LEMMA PerformanceBoot ==
    ASSUME IInv, UNCHANGED tmrVars,
           Boot("devcon", PerformanceConfig(SYS_CLK_SystemFrequencyGet))
    PROVE  IInv'
<1> DEFINE s == PerformanceConfig(SYS_CLK_FREQ)
<1>1. /\ ChipProgram(s)
      /\ \A n \in 1 .. Len(s) :
           s[n].register \in {"disable", "waitStates", "restore", "prefetch"}
  BY PerformanceProgram
<1>2. Boot("devcon", s)
  BY DEF SYS_CLK_SystemFrequencyGet
<1> HIDE DEF s
<1>3. \A n \in 1 .. Len(s) : /\ s[n].register \notin AskedFor
                             /\ s[n].register # "intOn" /\ s[n].register # "pbDiv"
                             /\ s[n].register # "icTimer"
  BY <1>1 DEF AskedFor
<1> QED BY <1>1, <1>2, <1>3, BootCall

\* The divisor of the I2C bus.
LEMMA I2cDivisor ==
    OneWriteCalls("i2c", DRV_I2C0_Enabled(400000))
<1>1. SYS_CLK_PeripheralFrequencyGet(2) = 25000000
  BY DEF SYS_CLK_PeripheralFrequencyGet, SYS_CLK_BUS_PERIPHERAL, Buses
<1>2. SYS_CLK_PeripheralFrequencyGet(2) \div 400000 \in Nat
  BY <1>1
<1> QED BY <1>2 DEF OneWriteCalls, Write, ChipWrites, DRV_I2C0_Enabled

LEMMA WriteBoots ==
    /\ OneWriteCalls("ic", Write("icTimer", "TMR2"))
    /\ OneWriteCalls("nvm", Write("modify", FALSE))
    /\ OneWriteCalls("int", Write("intOn", TRUE))
<1>1. OneWriteCalls("ic", Write("icTimer", "TMR2"))
  BY DEF OneWriteCalls, Write, ChipWrites
<1>2. OneWriteCalls("nvm", Write("modify", FALSE))
  BY DEF OneWriteCalls, Write, ChipWrites
<1>3. OneWriteCalls("int", Write("intOn", TRUE))
  BY DEF OneWriteCalls, Write, ChipWrites
<1> QED BY <1>1, <1>2, <1>3
----------------------------------------------------------------------------
\* SYS_PORTS_Initialize.

\* Writes that drive no input, and no pin before its latch is low.
PortProgram(s) ==
    /\ s \in Seq(PortWrites)
    /\ \A n \in 1 .. Len(s) :
         /\ s[n].register = "lat" => s[n].value[2] = {}
         /\ s[n].register = "out" => \A p \in s[n].value :
              /\ p \notin Inputs
              /\ \E m \in 1 .. n - 1 : s[m].register = "lat" /\ s[m].value[1] = p[1]

Supplies(s, r, S) == \A p \in S : \E n \in 1 .. Len(s) : s[n].register = r /\ p \in s[n].value

LEMMA PortsOfParts ==
    ASSUME NEW s, NEW t, PortProgram(s), PortProgram(t)
    PROVE  /\ PortProgram(s \o t)
           /\ \A r, S : Supplies(s, r, S) \/ Supplies(t, r, S) => Supplies(s \o t, r, S)
<1> DEFINE c == s \o t
<1>1. /\ s \in Seq(PortWrites) /\ t \in Seq(PortWrites) /\ c \in Seq(PortWrites)
  BY DEF PortProgram
<1>2. s \in Seq(Writes) /\ t \in Seq(Writes)
  <2>1. PortWrites \subseteq Writes
    BY DEF Writes
  <2> QED BY <1>1, <2>1
<1>3. /\ Len(s) \in Nat /\ Len(t) \in Nat /\ Len(c) = Len(s) + Len(t)
      /\ \A n \in 1 .. Len(s) : c[n] = s[n]
      /\ \A n \in 1 .. Len(t) : c[Len(s) + n] = t[n]
  BY <1>2, Parts
<1>4. ASSUME NEW n \in 1 .. Len(c)
      PROVE  /\ c[n].register = "lat" => c[n].value[2] = {}
             /\ c[n].register = "out" => \A p \in c[n].value :
                  /\ p \notin Inputs
                  /\ \E m \in 1 .. n - 1 : c[m].register = "lat" /\ c[m].value[1] = p[1]
  <2>1. CASE n \in 1 .. Len(s) /\ c[n] = s[n]
    <3> HIDE DEF c
    <3>1. \A m \in 1 .. n - 1 : c[m] = s[m]
      BY <1>3, <2>1
    <3> QED BY <2>1, <3>1 DEF PortProgram
  <2>2. CASE n - Len(s) \in 1 .. Len(t) /\ c[n] = t[n - Len(s)]
    <3> DEFINE k == n - Len(s)
    <3>1. k \in 1 .. Len(t) /\ n = Len(s) + k /\ c[n] = t[k]
      BY <1>3, <2>2
    <3> HIDE DEF c, k
    <3>2. \A m \in 1 .. k - 1 : Len(s) + m \in 1 .. n - 1 /\ c[Len(s) + m] = t[m]
      BY <1>3, <3>1
    <3>3. /\ t[k].register = "lat" => t[k].value[2] = {}
          /\ t[k].register = "out" => \A p \in t[k].value :
               /\ p \notin Inputs
               /\ \E m \in 1 .. k - 1 : t[m].register = "lat" /\ t[m].value[1] = p[1]
      BY <3>1 DEF PortProgram
    <3>4. c[n].register = "lat" => c[n].value[2] = {}
      BY <3>1, <3>3
    <3>5. ASSUME c[n].register = "out", NEW p \in c[n].value
          PROVE  /\ p \notin Inputs
                 /\ \E m \in 1 .. n - 1 : c[m].register = "lat" /\ c[m].value[1] = p[1]
      <4>1. p \notin Inputs
        BY <3>1, <3>3, <3>5
      <4>2. PICK m \in 1 .. k - 1 : t[m].register = "lat" /\ t[m].value[1] = p[1]
        BY <3>1, <3>3, <3>5
      <4>3. /\ Len(s) + m \in 1 .. n - 1 /\ c[Len(s) + m].register = "lat"
            /\ c[Len(s) + m].value[1] = p[1]
        BY <3>2, <4>2
      <4> QED BY <4>1, <4>3
    <3> QED BY <3>4, <3>5
  <2> QED BY <1>2, <2>1, <2>2, ElementsOfParts
<1>5. ASSUME NEW r, NEW S, Supplies(s, r, S) PROVE Supplies(c, r, S)
  <2> HIDE DEF c
  <2>1. \A n \in 1 .. Len(s) : n \in 1 .. Len(c) /\ c[n] = s[n]
    BY <1>3
  <2> QED BY <1>5, <2>1 DEF Supplies
<1>6. ASSUME NEW r, NEW S, Supplies(t, r, S) PROVE Supplies(c, r, S)
  <2> HIDE DEF c
  <2>1. \A n \in 1 .. Len(t) : Len(s) + n \in 1 .. Len(c) /\ c[Len(s) + n] = t[n]
    BY <1>3
  <2> QED BY <1>6, <2>1 DEF Supplies
<1> QED BY <1>1, <1>4, <1>5, <1>6 DEF PortProgram

\* The pins of system_config.h, channel after channel.
LEMMA PinsOfChannels ==
    /\ \A c \in Channels : /\ NotMasked(c, SYS_PORT_TRIS[c]) \in SUBSET Pin
                           /\ NotMasked(c, SYS_PORT_ANSEL[c]) \in SUBSET Pin
                           /\ Masked(c, SYS_PORT_ODC[c]) = {}
                           /\ Masked(c, SYS_PORT_LAT[c]) = {}
                           /\ \A p \in NotMasked(c, SYS_PORT_TRIS[c]) : p[1] = c
    /\ NotMasked("B", SYS_PORT_TRIS["B"]) = {} /\ NotMasked("C", SYS_PORT_TRIS["C"]) = {}
    /\ NotMasked("F", SYS_PORT_TRIS["F"]) = {} /\ NotMasked("G", SYS_PORT_TRIS["G"]) = {}
    /\ NotMasked("D", SYS_PORT_TRIS["D"]) = {<<"D", b>> : b \in {2, 3, 4, 5, 11}}
    /\ NotMasked("E", SYS_PORT_TRIS["E"]) = {<<"E", b>> : b \in {3, 5, 6, 7}}
    /\ {<<"B", 5>>, <<"B", 6>>} \subseteq NotMasked("B", SYS_PORT_ANSEL["B"])
    /\ {<<"C", 13>>} \subseteq NotMasked("C", SYS_PORT_ANSEL["C"])
    /\ {<<"E", 0>>, <<"E", 1>>} \subseteq NotMasked("E", SYS_PORT_ANSEL["E"])
    /\ {<<"F", 4>>} \subseteq NotMasked("F", SYS_PORT_ANSEL["F"])
    /\ {<<"G", 6>>, <<"G", 8>>} \subseteq NotMasked("G", SYS_PORT_ANSEL["G"])
<1>1. ASSUME NEW c \in Channels, NEW m
      PROVE  /\ NotMasked(c, m) \in SUBSET Pin
             /\ \A p \in NotMasked(c, m) : p[1] = c
  BY DEF NotMasked, Masked, Pin
<1>2. \A c : Masked(c, 0) = {}
  BY DEF Masked, Weight
<1>3. \A c \in Channels : SYS_PORT_ODC[c] = 0 /\ SYS_PORT_LAT[c] = 0
  BY DEF SYS_PORT_ODC, SYS_PORT_LAT
<1>4. /\ 65535 - SYS_PORT_TRIS["B"] = 0 /\ 65535 - SYS_PORT_TRIS["C"] = 0
      /\ 65535 - SYS_PORT_TRIS["F"] = 0 /\ 65535 - SYS_PORT_TRIS["G"] = 0
      /\ 65535 - SYS_PORT_TRIS["D"] = 2108 /\ 65535 - SYS_PORT_TRIS["E"] = 232
  BY DEF SYS_PORT_TRIS
<1>5. /\ 65535 - SYS_PORT_ANSEL["B"] = 224 /\ 65535 - SYS_PORT_ANSEL["C"] = 8192
      /\ 65535 - SYS_PORT_ANSEL["E"] = 239 /\ 65535 - SYS_PORT_ANSEL["F"] = 59
      /\ 65535 - SYS_PORT_ANSEL["G"] = 320
  BY DEF SYS_PORT_ANSEL
<1>6. Masked("D", 2108) = {<<"D", b>> : b \in {2, 3, 4, 5, 11}}
  BY DEF Masked, Weight
<1>7. Masked("E", 232) = {<<"E", b>> : b \in {3, 5, 6, 7}}
  BY DEF Masked, Weight
<1>8. /\ {<<"B", 5>>, <<"B", 6>>} \subseteq Masked("B", 224)
      /\ {<<"C", 13>>} \subseteq Masked("C", 8192)
      /\ {<<"E", 0>>, <<"E", 1>>} \subseteq Masked("E", 239)
      /\ {<<"F", 4>>} \subseteq Masked("F", 59)
      /\ {<<"G", 6>>, <<"G", 8>>} \subseteq Masked("G", 320)
  BY DEF Masked, Weight
<1> QED BY <1>1, <1>2, <1>3, <1>4, <1>5, <1>6, <1>7, <1>8 DEF NotMasked

LEMMA ChannelProgram ==
    ASSUME NEW c \in Channels
    PROVE  /\ PortProgram(PortInit(c))
           /\ Supplies(PortInit(c), "out", NotMasked(c, SYS_PORT_TRIS[c]))
           /\ Supplies(PortInit(c), "digital", NotMasked(c, SYS_PORT_ANSEL[c]))
<1> DEFINE x == Write("openDrain", Masked(c, SYS_PORT_ODC[c]))
           l == Write("lat", <<c, Masked(c, SYS_PORT_LAT[c])>>)
           o == Write("out", NotMasked(c, SYS_PORT_TRIS[c]))
           d == Write("digital", NotMasked(c, SYS_PORT_ANSEL[c]))
           s == <<x, l, o, d>>
           O == NotMasked(c, SYS_PORT_TRIS[c])
           D == NotMasked(c, SYS_PORT_ANSEL[c])
<1>1. /\ O \in SUBSET Pin /\ D \in SUBSET Pin /\ \A p \in O : p[1] = c
      /\ Masked(c, SYS_PORT_ODC[c]) = {} /\ Masked(c, SYS_PORT_LAT[c]) = {}
  BY PinsOfChannels
<1>2. \A p \in O : p \notin Inputs
  <2> SUFFICES ASSUME NEW p \in O PROVE p \notin Inputs
    OBVIOUS
  <2>1. c \in {"D", "E"}
    BY PinsOfChannels DEF Channels
  <2>2. \/ p \in {<<"D", b>> : b \in {2, 3, 4, 5, 11}}
        \/ p \in {<<"E", b>> : b \in {3, 5, 6, 7}}
    BY <2>1, PinsOfChannels
  <2> HIDE DEF O
  <2> QED BY <2>2 DEF Inputs, Read, RemapInputs
<1>3. /\ x.register = "openDrain" /\ l.register = "lat" /\ o.register = "out"
      /\ d.register = "digital" /\ l.value[1] = c /\ l.value[2] = {}
      /\ o.value = O /\ d.value = D
      /\ x \in PortWrites /\ l \in PortWrites /\ o \in PortWrites /\ d \in PortWrites
  BY <1>1 DEF Write, PortWrites
<1>4. PortInit(c) = s
  BY DEF PortInit
<1> HIDE DEF x, l, o, d, O, D
<1>5. s \in Seq(PortWrites) /\ Len(s) = 4 /\ s[1] = x /\ s[2] = l /\ s[3] = o /\ s[4] = d
  BY <1>3
<1> HIDE DEF s
<1>6. \A n \in 1 .. Len(s) : n \in {1, 2, 3, 4}
  BY <1>5
<1>7. PortProgram(s)
  BY <1>1, <1>2, <1>3, <1>5, <1>6 DEF PortProgram
<1>8. Supplies(s, "out", O) /\ Supplies(s, "digital", D)
  BY <1>3, <1>5 DEF Supplies
<1> QED BY <1>4, <1>7, <1>8 DEF O, D

LEMMA PortsProgram ==
    /\ PortProgram(Ports)
    /\ Supplies(Ports, "out", Driven)
    /\ Supplies(Ports, "digital", Inputs)
    /\ Supplies(Ports, "remapped", Remaps)
<1> DEFINE b == PortInit("B")
           c == PortInit("C")
           d == PortInit("D")
           e == PortInit("E")
           f == PortInit("F")
           g == PortInit("G")
           i == Write("remapped", RemapInputs)
           o == Write("remapped", RemapOutputs)
           r == <<i, o>>
           bc == b \o c
           bd == bc \o d
           be == bd \o e
           bf == be \o f
           bg == bf \o g
           s == bg \o r
<1>1. /\ PortProgram(b) /\ PortProgram(c) /\ PortProgram(d) /\ PortProgram(e)
      /\ PortProgram(f) /\ PortProgram(g)
  BY ChannelProgram DEF Channels
<1>2. /\ Supplies(b, "digital", {<<"B", 5>>, <<"B", 6>>})
      /\ Supplies(c, "digital", {<<"C", 13>>})
      /\ Supplies(e, "digital", {<<"E", 0>>, <<"E", 1>>})
      /\ Supplies(f, "digital", {<<"F", 4>>})
      /\ Supplies(g, "digital", {<<"G", 6>>, <<"G", 8>>})
  BY ChannelProgram, PinsOfChannels DEF Channels, Supplies
<1>3. /\ Supplies(d, "out", {<<"D", n>> : n \in {2, 3, 4, 5, 11}})
      /\ Supplies(e, "out", {<<"E", n>> : n \in {3, 5, 6, 7}})
  BY ChannelProgram, PinsOfChannels DEF Channels
<1>4. PortProgram(r) /\ Supplies(r, "remapped", RemapInputs)
      /\ Supplies(r, "remapped", RemapOutputs)
  <2>1. /\ i.register = "remapped" /\ i.value = RemapInputs /\ i \in PortWrites
        /\ o.register = "remapped" /\ o.value = RemapOutputs /\ o \in PortWrites
    BY DEF Write, PortWrites, Remaps
  <2> HIDE DEF i, o
  <2>2. r \in Seq(PortWrites) /\ Len(r) = 2 /\ r[1] = i /\ r[2] = o
    BY <2>1
  <2> HIDE DEF r
  <2>3. \A n \in 1 .. Len(r) : n \in {1, 2}
    BY <2>2
  <2> QED BY <2>1, <2>2, <2>3 DEF PortProgram, Supplies
<1>5. Ports = s
  BY DEF Ports
<1> HIDE DEF b, c, d, e, f, g, r
<1>6. PortProgram(bc) /\ \A q, S : Supplies(b, q, S) \/ Supplies(c, q, S) => Supplies(bc, q, S)
  BY <1>1, PortsOfParts
<1> HIDE DEF bc
<1>7. PortProgram(bd) /\ \A q, S : Supplies(bc, q, S) \/ Supplies(d, q, S) => Supplies(bd, q, S)
  BY <1>1, <1>6, PortsOfParts
<1> HIDE DEF bd
<1>8. PortProgram(be) /\ \A q, S : Supplies(bd, q, S) \/ Supplies(e, q, S) => Supplies(be, q, S)
  BY <1>1, <1>7, PortsOfParts
<1> HIDE DEF be
<1>9. PortProgram(bf) /\ \A q, S : Supplies(be, q, S) \/ Supplies(f, q, S) => Supplies(bf, q, S)
  BY <1>1, <1>8, PortsOfParts
<1> HIDE DEF bf
<1>10. PortProgram(bg) /\ \A q, S : Supplies(bf, q, S) \/ Supplies(g, q, S) => Supplies(bg, q, S)
  BY <1>1, <1>9, PortsOfParts
<1> HIDE DEF bg
<1>11. PortProgram(s) /\ \A q, S : Supplies(bg, q, S) \/ Supplies(r, q, S) => Supplies(s, q, S)
  BY <1>4, <1>10, PortsOfParts
<1> HIDE DEF s
<1>12. /\ Supplies(s, "digital", {<<"B", 5>>, <<"B", 6>>})
       /\ Supplies(s, "digital", {<<"C", 13>>})
       /\ Supplies(s, "digital", {<<"E", 0>>, <<"E", 1>>})
       /\ Supplies(s, "digital", {<<"F", 4>>})
       /\ Supplies(s, "digital", {<<"G", 6>>, <<"G", 8>>})
  BY <1>2, <1>6, <1>7, <1>8, <1>9, <1>10, <1>11, Zenon
<1>13. /\ Supplies(s, "out", {<<"D", n>> : n \in {2, 3, 4, 5, 11}})
       /\ Supplies(s, "out", {<<"E", n>> : n \in {3, 5, 6, 7}})
  BY <1>3, <1>7, <1>8, <1>9, <1>10, <1>11, Zenon
<1>14. Supplies(s, "remapped", RemapInputs) /\ Supplies(s, "remapped", RemapOutputs)
  BY <1>4, <1>11, Zenon
<1>15. Supplies(s, "digital", Inputs)
  <2>1. Inputs = {<<"B", 5>>, <<"B", 6>>} \cup {<<"C", 13>>} \cup {<<"E", 0>>, <<"E", 1>>}
                   \cup {<<"F", 4>>} \cup {<<"G", 6>>, <<"G", 8>>}
    BY DEF Inputs, Read, RemapInputs
  <2> QED BY <1>12, <2>1 DEF Supplies
<1>16. Supplies(s, "out", Driven)
  BY <1>13 DEF Supplies, Driven
<1>17. Supplies(s, "remapped", Remaps)
  BY <1>14 DEF Supplies, Remaps
<1> QED BY <1>5, <1>11, <1>15, <1>16, <1>17
----------------------------------------------------------------------------
\* What the start of a call of the pins or of the timers leaves alone.

LEMMA DeviceAsWas ==
    ASSUME IInv, todo = <<>>, todo' \in Seq(Writes), UNCHANGED <<chip, asked>>, Progress,
           \A n \in 1 .. Len(todo') : todo'[n].register \in PinRegisters \cup TimerRegisters,
           Left \notin {1, 6, 9}
    PROVE  Device' /\ Interrupts' /\ Divided'
<1>l. /\ Left' \in 0 .. 8 /\ Left \in 0 .. 9
      /\ boot = <<>> <=> Left = 0
      /\ boot' = <<>> <=> Left' = 0
      /\ Left # 0 => Left' = Left - 1
      /\ Left = 0 => Left' = 0
  BY BootLeft
<1>1. \A n \in 1 .. Len(todo') :
        todo'[n].register \notin {"unlocked", "sosc", "onWait", "pbDiv", "operation", "modify",
                                  "disable", "restore", "intOn", "icTimer"}
  BY DEF PinRegisters, TimerRegisters
<1>2. /\ chip.unlocked = FALSE /\ chip \in Chip
      /\ chip.sosc = asked.sosc /\ chip.onWait = asked.onWait
      /\ chip.operation = asked.operation
  BY AtRest DEF IInv, Shape, Chip
<1>3. Device'
  <2>1. /\ AtEnd(todo', "unlocked", FALSE, FALSE)
        /\ AtEnd(todo', "sosc", chip.sosc, chip.sosc)
        /\ AtEnd(todo', "onWait", chip.onWait, chip.onWait)
        /\ AtEnd(todo', "operation", chip.operation, chip.operation)
    BY <1>1, Untouched
  <2>2. chip'.unlocked = FALSE
    BY <1>2
  <2> QED BY <1>1, <1>2, <2>1, <2>2 DEF Device, Protected
<1>4. Interrupts'
  <2>1. \A n \in 1 .. Len(todo') : /\ todo'[n].register = "intOn" => todo'[n].value
                                   /\ todo'[n].register = "disable" => RestoredAfter(todo', n)
    BY <1>1
  <2>2. boot' = <<>> => chip'.intOn
    <3>1. boot' = <<>> => boot = <<>>
      BY <1>l
    <3> QED BY <3>1, AtRest
  <2>3. \A n : RestoredAfter(todo, n)' = RestoredAfter(todo', n)
    BY DEF RestoredAfter
  <2> QED BY <2>1, <2>2, <2>3, Zenon DEF Interrupts, Write
<1>5. Divided'
  <2>1. ASSUME Left' < 9, NEW b \in Buses
        PROVE  chip'.pbDiv[b] = Divisor(b)
    <3>1. Left < 9
      BY <1>l
    <3> QED BY <3>1, AtRest
  <2>2. Left' < 6 => AtEnd(todo', "icTimer", chip'.icTimer, "TMR2")
    <3>1. AtEnd(todo', "icTimer", chip.icTimer, chip.icTimer)
      BY <1>1, Untouched
    <3>2. Left' < 6 => Left < 6
      BY <1>l
    <3> QED BY <3>1, <3>2, AtRest
  <2> QED BY <1>1, <2>1, <2>2 DEF Divided
<1> QED BY <1>3, <1>4, <1>5

LEMMA PortsCall ==
    ASSUME IInv, Boot("ports", Ports), UNCHANGED tmrVars
    PROVE  IInv'
<1> DEFINE s == Ports
<1>1. /\ todo = <<>> /\ boot # <<>> /\ todo' = s /\ Head(boot) = "ports"
      /\ boot' = Tail(boot) /\ UNCHANGED <<chip, port, asked>>
  BY DEF Boot
<1>2. Progress
  BY <1>1 DEF Progress
<1>3. /\ boot' \in Seq(Calls) /\ Left' = 1 /\ Left = 2
      /\ \A n \in 1 .. Left' : boot'[n] = BootOrder[9 - Left' + n]
  <2>1. /\ boot' \in Seq(Calls) /\ Left \in 0 .. 9
        /\ \A n \in 1 .. Left' : boot'[n] = BootOrder[9 - Left' + n]
        /\ boot = <<>> <=> Left = 0
        /\ boot # <<>> => Left' = Left - 1 /\ Head(boot) = BootOrder[10 - Left]
    BY <1>2, BootLeft
  <2>2. Left = 2
    BY <1>1, <2>1 DEF BootOrder
  <2>3. boot # <<>>
    BY <1>1
  <2>4. Left' = 1
    BY <2>1, <2>2, <2>3
  <2> QED BY <2>1, <2>2, <2>4
<1>4. /\ PortProgram(s) /\ Supplies(s, "out", Driven) /\ Supplies(s, "digital", Inputs)
      /\ Supplies(s, "remapped", Remaps)
  BY PortsProgram
<1> HIDE DEF s
<1>5. s \in Seq(PortWrites) /\ s \in Seq(Writes)
  <2>1. PortWrites \subseteq Writes
    BY DEF Writes
  <2>2. s \in Seq(PortWrites)
    BY <1>4 DEF PortProgram
  <2> QED BY <2>1, <2>2
<1>6. \A n \in 1 .. Len(s) : s[n].register \in {"lat", "out", "digital", "openDrain", "remapped"}
  <2>1. \A n \in 1 .. Len(s) : s[n] \in Writes /\ s[n] \in PortWrites
    BY <1>5
  <2> QED BY <2>1, RegistersOf
<1>7. Shape'
  <2>1. \A n \in 1 .. Len(s) : s[n].register \notin {"counter", "period"}
    BY <1>6
  <2>2. Left' <= 9 /\ UNCHANGED <<client, reg, caller, handler>>
    BY <1>3 DEF tmrVars
  <2>3. again' = again
    BY <1>3 DEF tmrVars
  <2> QED BY <1>1, <1>3, <1>5, <2>1, <2>2, <2>3 DEF IInv, Shape
<1>8. Device' /\ Interrupts' /\ Divided'
  <2>1. Left \notin {1, 6, 9}
    BY <1>3
  <2>2. \A n \in 1 .. Len(s) : s[n].register \in PinRegisters \cup TimerRegisters
    BY <1>6 DEF PinRegisters
  <2> QED BY <1>1, <1>2, <1>5, <2>1, <2>2, DeviceAsWas
<1>9. PinsSafe'
  <2>1. port'.out \cap (port'.lat \cup Inputs) = {}
    BY <1>1 DEF IInv, PinsSafe
  <2>2. \A n \in 1 .. Len(s) :
          /\ s[n].register = "lat" => s[n].value[2] = {}
          /\ s[n].register = "out" => \A p \in s[n].value :
               /\ p \notin Inputs
               /\ \E m \in 1 .. n - 1 : s[m].register = "lat" /\ s[m].value[1] = p[1]
    BY <1>4 DEF PortProgram
  <2>3. Supplied("out", Driven)' /\ Supplied("digital", Inputs)' /\ Supplied("remapped", Remaps)'
    BY <1>1, <1>4 DEF Supplied, Supplies
  <2> QED BY <1>1, <1>3, <2>1, <2>2, <2>3 DEF PinsSafe
<1>10. TimersSettle' /\ ClockCallKept' /\ TickKept'
  <2>1. Left # 4
    BY <1>3
  <2>2. \A n \in 1 .. Len(s) : s[n].register \notin TimerRegisters
    BY <1>6 DEF TimerRegisters
  <2> QED BY <1>1, <1>2, <1>5, <2>1, <2>2, TimersAsWere
<1> QED BY <1>7, <1>8, <1>9, <1>10 DEF IInv

\* The part of SYS_Initialize that is the board's.
LEMMA BoardBootStep ==
    ASSUME IInv, BoardBoot, UNCHANGED tmrVars
    PROVE  IInv'
<1>1. CASE Boot("clk", Clocks)
  BY <1>1, ClocksBoot
<1>2. CASE Boot("devcon", PerformanceConfig(SYS_CLK_SystemFrequencyGet))
  BY <1>2, PerformanceBoot
<1>3. CASE Boot("i2c", <<DRV_I2C0_Enabled(400000)>>)
  BY <1>3, OneWriteBoot, I2cDivisor, SMT
<1>4. CASE Boot("ic", DRV_IC0_Initialize)
  BY <1>4, OneWriteBoot, WriteBoots DEF DRV_IC0_Initialize
<1>5. CASE Boot("nvm", MemoryModifyInhibit)
  BY <1>5, OneWriteBoot, WriteBoots DEF MemoryModifyInhibit
<1>6. CASE Boot("ports", Ports)
  BY <1>6, PortsCall
<1>7. CASE Boot("int", <<Write("intOn", TRUE)>>)
  BY <1>7, OneWriteBoot, WriteBoots
<1> QED BY <1>1, <1>2, <1>3, <1>4, <1>5, <1>6, <1>7, SMT DEF BoardBoot
----------------------------------------------------------------------------
\* The calls on a timer.

\* Writes after which timer t runs with its interrupt enabled, or rests with no
\* request left, or stands still because it was initialised again.
Settles(s, t) ==
    /\ s \in Seq(TimerWrites)
    /\ \A n \in 1 .. Len(s) :
         /\ s[n].register \in {"counter", "period"} => s[n].value <= Instance[t].top
         /\ s[n].register = "flag" => s[n].value = FALSE
    /\ \E v \in BOOLEAN :
         /\ AtEnd(s, "Running", reg[t].Running, v)
         /\ AtEnd(s, "on", reg[t].on, IF t \in again' THEN FALSE ELSE v)
         /\ AtEnd(s, "ie", reg[t].ie, v)
         /\ v = FALSE =>
              /\ \A n \in 1 .. Len(s) : s[n].register = "on" => s[n].value = FALSE
              /\ \/ reg[t].flag = FALSE /\ reg[t].on = FALSE
                 \/ \E n \in 1 .. Len(s) : /\ s[n].register = "flag"
                                           /\ Before(s, "on", reg[t].on, FALSE, n)

StartsTimer(t) ==
    /\ t \in Timers /\ todo = <<>> /\ caller' = t /\ Progress /\ Left \in {0, 3, 4}
    /\ UNCHANGED <<chip, port, asked, client, reg, handler>>
    /\ again' \subseteq Timers /\ \A u \in Timers : u # t => (u \in again' <=> u \in again)
    /\ Settles(todo', t)
    /\ boot' # <<>> => \A n \in 1 .. Len(todo') : todo'[n].register # "Running"

LEMMA TimerCall ==
    ASSUME IInv, NEW t, StartsTimer(t), ClockCallKept', TickKept'
    PROVE  IInv'
<1>0. /\ t \in Timers /\ todo = <<>> /\ caller' = t /\ Progress /\ Left \in {0, 3, 4}
      /\ UNCHANGED <<chip, port, asked, client, reg, handler>>
      /\ todo' \in Seq(TimerWrites) /\ again' \subseteq Timers
      /\ \A u \in Timers : u # t => (u \in again' <=> u \in again)
  BY DEF StartsTimer, Settles
<1>1. /\ boot' \in Seq(Calls) /\ Left' \in 0 .. 8
      /\ \A n \in 1 .. Left' : boot'[n] = BootOrder[9 - Left' + n]
      /\ boot = <<>> => boot' = <<>>
  BY <1>0, BootLeft
<1>2. /\ todo' \in Seq(Writes)
      /\ \A n \in 1 .. Len(todo') : todo'[n] \in Writes /\ todo'[n] \in TimerWrites
  <2>1. TimerWrites \subseteq Writes
    BY DEF Writes
  <2> QED BY <1>0, <2>1
<1>3. \A n \in 1 .. Len(todo') :
        todo'[n].register \in {"on", "ie", "flag", "stopInIdle", "Running", "counter",
                               "period", "source", "extSync", "prescale"}
  BY <1>2, RegistersOf
<1>4. Shape'
  <2>1. \A n \in 1 .. Len(todo') : todo'[n].register \in {"counter", "period"}
                                   => todo'[n].value <= Instance[t].top
    BY DEF StartsTimer, Settles
  <2>2. Left' <= 9
    BY <1>1
  <2> QED BY <1>0, <1>1, <1>2, <2>1, <2>2 DEF IInv, Shape
<1>5. Device' /\ Interrupts' /\ Divided'
  <2>1. \A n \in 1 .. Len(todo') : todo'[n].register \in PinRegisters \cup TimerRegisters
    BY <1>3 DEF TimerRegisters
  <2>2. Left \notin {1, 6, 9}
    BY <1>0
  <2> QED BY <1>0, <1>2, <2>1, <2>2, DeviceAsWas
<1>6. PinsSafe'
  <2>1. \A n \in 1 .. Len(todo') : todo'[n].register \notin PinRegisters
    BY <1>3 DEF PinRegisters
  <2>2. Left # 2
    BY <1>0
  <2> QED BY <1>0, <2>1, <2>2, PinsAsWere
<1>7. TimersSettle'
  <2>1. \A u \in Timers : u # t => Settled(u)'
    BY <1>0, AtRest, SettledSame
  <2>2. PICK v \in BOOLEAN :
         /\ AtEnd(todo', "Running", reg[t].Running, v)
         /\ AtEnd(todo', "on", reg[t].on, IF t \in again' THEN FALSE ELSE v)
         /\ AtEnd(todo', "ie", reg[t].ie, v)
         /\ v = FALSE =>
              /\ \A n \in 1 .. Len(todo') : todo'[n].register = "on" => todo'[n].value = FALSE
              /\ \/ reg[t].flag = FALSE /\ reg[t].on = FALSE
                 \/ \E n \in 1 .. Len(todo') : /\ todo'[n].register = "flag"
                                               /\ Before(todo', "on", reg[t].on, FALSE, n)
    BY Zenon DEF StartsTimer, Settles
  <2>3. WillRun(v)'
    BY <1>0, <2>2 DEF WillRun, Counting
  <2>4. ASSUME v = FALSE PROVE WillRest'
    <3>1. \A n \in 1 .. Len(todo') : todo'[n].register = "on" => ~todo'[n].value
      BY <2>2, <2>4, Zenon
    <3>2. \/ ~reg[t].flag /\ ~reg[t].on
          \/ \E n \in 1 .. Len(todo') : /\ todo'[n].register = "flag"
                                        /\ Before(todo', "on", reg[t].on, FALSE, n)
      BY <2>2, <2>4, Zenon
    <3>3. caller' = t /\ reg' = reg
      BY <1>0
    <3> QED BY <3>1, <3>2, <3>3 DEF WillRest, Before
  <2>5. \A n \in 1 .. Len(todo') : /\ todo'[n].register = "flag" => ~todo'[n].value
                                   /\ todo'[n].register = "Running" => boot' = <<>>
    <3>1. \A n \in 1 .. Len(todo') : todo'[n].register = "flag" => todo'[n].value = FALSE
      BY Zenon DEF StartsTimer, Settles
    <3>2. boot' # <<>> => \A n \in 1 .. Len(todo') : todo'[n].register # "Running"
      BY DEF StartsTimer
    <3> QED BY <3>1, <3>2, Zenon
  <2>6. boot' # <<>> => \A u \in Timers : ~reg'[u].Running
    BY <1>0, <1>1 DEF IInv, TimersSettle
  <2>7. CASE v = TRUE
    BY <1>0, <2>1, <2>3, <2>5, <2>6, <2>7 DEF TimersSettle
  <2>8. CASE v = FALSE
    BY <1>0, <2>1, <2>3, <2>4, <2>5, <2>6, <2>8 DEF TimersSettle
  <2> QED BY <2>7, <2>8
<1> QED BY <1>4, <1>5, <1>6, <1>7 DEF IInv

\* A timer as the calls find it.
LEMMA TimerAtRest ==
    ASSUME IInv, todo = <<>>, NEW t \in Timers
    PROVE  /\ reg[t] \in Registers
           /\ reg[t].Running \in BOOLEAN
           /\ reg[t].on = Counting(t, reg[t].Running) /\ reg[t].ie = reg[t].Running
           /\ reg[t].Running = FALSE => reg[t].flag = FALSE /\ reg[t].on = FALSE
<1>1. reg[t] \in Registers
  BY DEF IInv, Shape
<1>2. Settled(t)
  BY AtRest
<1> QED BY <1>1, <1>2 DEF Settled, Counting, Registers

\* Writes that do not say whether the timer runs.
LEMMA OtherWrites ==
    ASSUME IInv, todo = <<>>, again' = again, NEW t \in Timers, NEW s \in Seq(TimerWrites),
           \A n \in 1 .. Len(s) :
             /\ s[n].register \in {"counter", "period", "stopInIdle"}
             /\ s[n].register \in {"counter", "period"} => s[n].value <= Instance[t].top
    PROVE  Settles(s, t)
<1>1. s \in Seq(Writes)
  <2>1. TimerWrites \subseteq Writes
    BY DEF Writes
  <2> QED BY <2>1
<1>2. \A n \in 1 .. Len(s) : s[n].register \notin {"Running", "on", "ie", "flag"}
  OBVIOUS
<1>3. \A v : AtEnd(s, "Running", v, v) /\ AtEnd(s, "on", v, v) /\ AtEnd(s, "ie", v, v)
  BY <1>1, <1>2, Untouched
<1>4. PICK v \in BOOLEAN : v = reg[t].Running
  BY TimerAtRest
<1>5. /\ AtEnd(s, "Running", reg[t].Running, v)
      /\ AtEnd(s, "on", reg[t].on, IF t \in again' THEN FALSE ELSE v)
      /\ AtEnd(s, "ie", reg[t].ie, v)
      /\ v = FALSE => reg[t].flag = FALSE /\ reg[t].on = FALSE
  BY <1>3, <1>4, TimerAtRest DEF Counting
<1> QED BY <1>2, <1>5 DEF Settles

\* _DRV_TMRx_Suspend: the timer and its interrupt are off afterwards.
LEMMA SuspendWrites ==
    ASSUME IInv, todo = <<>>, NEW t \in Timers
    PROVE  /\ Suspend(t) \in Seq(TimerWrites)
           /\ \A n \in 1 .. Len(Suspend(t)) : /\ Suspend(t)[n].register \in {"ie", "on"}
                                              /\ Suspend(t)[n].value = FALSE
           /\ AtEnd(Suspend(t), "ie", reg[t].ie, FALSE)
           /\ AtEnd(Suspend(t), "on", reg[t].on, FALSE)
<1> DEFINE a == Write("ie", FALSE)
           b == Write("on", FALSE)
           s == <<a, b>>
<1>1. /\ a.register = "ie" /\ a.value = FALSE /\ a \in TimerWrites
      /\ b.register = "on" /\ b.value = FALSE /\ b \in TimerWrites
  BY DEF Write, TimerWrites
<1>2. CASE reg[t].Running
  <2>1. Suspend(t) = s
    BY <1>2 DEF Suspend
  <2> HIDE DEF a, b
  <2>2. s \in Seq(TimerWrites) /\ Len(s) = 2 /\ s[1] = a /\ s[2] = b
    BY <1>1
  <2> HIDE DEF s
  <2>3. \A n \in 1 .. Len(s) : n \in {1, 2}
    BY <2>2
  <2>4. \A old : AtEnd(s, "ie", old, FALSE) /\ AtEnd(s, "on", old, FALSE)
    BY <1>1, <2>2 DEF AtEnd, Before
  <2> QED BY <1>1, <2>1, <2>2, <2>3, <2>4
<1>3. CASE ~reg[t].Running
  <2>1. Suspend(t) = <<>>
    BY <1>3 DEF Suspend
  <2>2. <<>> \in Seq(TimerWrites) /\ \A n \in 1 .. Len(<<>>) : FALSE
    OBVIOUS
  <2>3. reg[t].ie = FALSE /\ reg[t].on = FALSE
    <3>1. reg[t].Running = FALSE
      BY <1>3, TimerAtRest, Zenon
    <3> QED BY <3>1, TimerAtRest
  <2>4. \A r : AtEnd(<<>>, r, FALSE, FALSE)
    BY DEF AtEnd, Before
  <2> QED BY <2>1, <2>2, <2>3, <2>4
<1> QED BY <1>2, <1>3

\* _DRV_TMRx_Resume: they are on again if they were before.
LEMMA ResumeWrites ==
    ASSUME NEW v \in BOOLEAN
    PROVE  /\ Resume(v) \in Seq(TimerWrites)
           /\ \A n \in 1 .. Len(Resume(v)) :
                /\ Resume(v)[n].register \in {"flag", "ie", "on"}
                /\ Resume(v)[n].register = "flag" => Resume(v)[n].value = FALSE
                /\ v = TRUE
           /\ AtEnd(Resume(v), "ie", FALSE, v) /\ AtEnd(Resume(v), "on", FALSE, v)
           /\ v = TRUE => \A old : /\ AtEnd(Resume(v), "ie", old, TRUE)
                                   /\ AtEnd(Resume(v), "on", old, TRUE)
<1> DEFINE a == Write("flag", FALSE)
           b == Write("ie", TRUE)
           c == Write("on", TRUE)
           s == <<a, b, c>>
<1>1. /\ a.register = "flag" /\ a.value = FALSE /\ a \in TimerWrites
      /\ b.register = "ie" /\ b.value = TRUE /\ b \in TimerWrites
      /\ c.register = "on" /\ c.value = TRUE /\ c \in TimerWrites
  BY DEF Write, TimerWrites
<1>2. CASE v = TRUE
  <2>1. Resume(v) = s
    BY <1>2 DEF Resume
  <2> HIDE DEF a, b, c
  <2>2. s \in Seq(TimerWrites) /\ Len(s) = 3 /\ s[1] = a /\ s[2] = b /\ s[3] = c
    BY <1>1
  <2> HIDE DEF s
  <2>3. \A n \in 1 .. Len(s) : n \in {1, 2, 3}
    BY <2>2
  <2>4. \A old : AtEnd(s, "ie", old, TRUE) /\ AtEnd(s, "on", old, TRUE)
    BY <1>1, <2>2 DEF AtEnd, Before
  <2>5. \A n \in 1 .. Len(s) : /\ s[n].register \in {"flag", "ie", "on"}
                               /\ s[n].register = "flag" => s[n].value = FALSE
    BY <1>1, <2>2, <2>3
  <2> QED BY <1>2, <2>1, <2>2, <2>4, <2>5
<1>3. CASE v = FALSE
  <2>1. Resume(v) = <<>>
    BY <1>3 DEF Resume
  <2>2. <<>> \in Seq(TimerWrites) /\ \A n \in 1 .. Len(<<>>) : FALSE
    OBVIOUS
  <2>3. \A r : AtEnd(<<>>, r, FALSE, FALSE)
    BY DEF AtEnd, Before
  <2> QED BY <1>3, <2>1, <2>2, <2>3
<1> QED BY <1>2, <1>3

LEMMA TimerParts ==
    /\ TimerWrites \subseteq Writes
    /\ \A s \in Seq(TimerWrites), t \in Seq(TimerWrites) :
         s \in Seq(Writes) /\ s \o t \in Seq(TimerWrites)
<1>1. TimerWrites \subseteq Writes
  BY DEF Writes
<1> QED BY <1>1

LEMMA StartSettles ==
    ASSUME IInv, todo = <<>>, NEW t \in Timers, t \notin again'
    PROVE  /\ Settles(Resume(TRUE) \o <<Write("Running", TRUE)>>, t)
           /\ \A n \in 1 .. Len(Resume(TRUE) \o <<Write("Running", TRUE)>>) :
                (Resume(TRUE) \o <<Write("Running", TRUE)>>)[n].register
                  \in {"flag", "ie", "on", "Running"}
<1> DEFINE w == Write("Running", TRUE)
           a == Resume(TRUE)
           b == <<w>>
           s == a \o b
<1>1. w.register = "Running" /\ w.value = TRUE /\ w \in TimerWrites
  BY DEF Write, TimerWrites
<1>2. /\ a \in Seq(TimerWrites)
      /\ \A n \in 1 .. Len(a) : /\ a[n].register \in {"flag", "ie", "on"}
                                /\ a[n].register = "flag" => a[n].value = FALSE
      /\ \A old : AtEnd(a, "ie", old, TRUE) /\ AtEnd(a, "on", old, TRUE)
  BY ResumeWrites
<1> HIDE DEF w, a
<1>3. b \in Seq(TimerWrites) /\ Len(b) = 1 /\ b[1] = w
  BY <1>1
<1> HIDE DEF b
<1>4. \A n \in 1 .. Len(b) : b[n].register = "Running"
  BY <1>1, <1>3
<1>5. a \in Seq(Writes) /\ b \in Seq(Writes) /\ s \in Seq(TimerWrites)
  BY <1>2, <1>3, TimerParts
<1>6. \A n \in 1 .. Len(s) : /\ s[n].register \in {"flag", "ie", "on", "Running"}
                             /\ s[n].register = "flag" => s[n].value = FALSE
  <2> TAKE n \in 1 .. Len(s)
  <2>1. \/ n \in 1 .. Len(a) /\ s[n] = a[n]
        \/ n - Len(a) \in 1 .. Len(b) /\ s[n] = b[n - Len(a)]
    BY <1>5, ElementsOfParts
  <2> HIDE DEF s
  <2> QED BY <1>2, <1>4, <2>1
<1>7. AtEnd(s, "ie", reg[t].ie, TRUE) /\ AtEnd(s, "on", reg[t].on, TRUE)
  <2>1. AtEnd(b, "ie", TRUE, TRUE) /\ AtEnd(b, "on", TRUE, TRUE)
    BY <1>4, <1>5, Untouched
  <2> QED BY <1>2, <1>5, <2>1, AtEndOfParts
<1>8. AtEnd(s, "Running", reg[t].Running, TRUE)
  <2>1. AtEnd(a, "Running", reg[t].Running, reg[t].Running)
    BY <1>2, <1>5, Untouched
  <2>2. AtEnd(b, "Running", reg[t].Running, TRUE)
    BY <1>1, <1>3 DEF AtEnd, Before
  <2> QED BY <1>5, <2>1, <2>2, AtEndOfParts
<1> HIDE DEF s
<1>9. Settles(s, t)
  BY <1>5, <1>6, <1>7, <1>8 DEF Settles
<1> QED BY <1>6, <1>9 DEF s, b, a, w

LEMMA StopSettles ==
    ASSUME IInv, todo = <<>>, NEW t \in Timers, t \notin again'
    PROVE  LET s == Suspend(t) \o <<Write("flag", FALSE), Write("Running", FALSE)>>
           IN  /\ Settles(s, t)
               /\ \A n \in 1 .. Len(s) : s[n].register \in {"flag", "ie", "on", "Running"}
<1> DEFINE f == Write("flag", FALSE)
           w == Write("Running", FALSE)
           a == Suspend(t)
           b == <<f, w>>
           s == a \o b
<1>1. /\ f.register = "flag" /\ f.value = FALSE /\ f \in TimerWrites
      /\ w.register = "Running" /\ w.value = FALSE /\ w \in TimerWrites
  BY DEF Write, TimerWrites
<1>2. /\ a \in Seq(TimerWrites)
      /\ \A n \in 1 .. Len(a) : a[n].register \in {"ie", "on"} /\ a[n].value = FALSE
      /\ AtEnd(a, "ie", reg[t].ie, FALSE) /\ AtEnd(a, "on", reg[t].on, FALSE)
  BY SuspendWrites
<1> HIDE DEF f, w, a
<1>3. b \in Seq(TimerWrites) /\ Len(b) = 2 /\ b[1] = f /\ b[2] = w
  BY <1>1
<1> HIDE DEF b
<1>4. \A n \in 1 .. Len(b) : b[n].register \in {"flag", "Running"} /\ b[n].value = FALSE
  <2>1. \A n \in 1 .. Len(b) : n \in {1, 2}
    BY <1>3
  <2> QED BY <1>1, <1>3, <2>1
<1>5. a \in Seq(Writes) /\ b \in Seq(Writes) /\ s \in Seq(TimerWrites)
  BY <1>2, <1>3, TimerParts
<1>6. \A n \in 1 .. Len(s) : /\ s[n].register \in {"flag", "ie", "on", "Running"}
                             /\ s[n].value = FALSE
  <2> TAKE n \in 1 .. Len(s)
  <2>1. \/ n \in 1 .. Len(a) /\ s[n] = a[n]
        \/ n - Len(a) \in 1 .. Len(b) /\ s[n] = b[n - Len(a)]
    BY <1>5, ElementsOfParts
  <2> HIDE DEF s
  <2> QED BY <1>2, <1>4, <2>1
<1>7. AtEnd(s, "ie", reg[t].ie, FALSE) /\ AtEnd(s, "on", reg[t].on, FALSE)
  <2>1. AtEnd(b, "ie", FALSE, FALSE) /\ AtEnd(b, "on", FALSE, FALSE)
    BY <1>4, <1>5, Untouched
  <2> QED BY <1>2, <1>5, <2>1, AtEndOfParts
<1>8. AtEnd(s, "Running", reg[t].Running, FALSE)
  <2>1. AtEnd(a, "Running", reg[t].Running, reg[t].Running)
    BY <1>2, <1>5, Untouched
  <2>2. AtEnd(b, "Running", reg[t].Running, FALSE)
    BY <1>1, <1>3 DEF AtEnd, Before
  <2> QED BY <1>5, <2>1, <2>2, AtEndOfParts
<1>9. \E n \in 1 .. Len(s) : /\ s[n].register = "flag"
                             /\ Before(s, "on", reg[t].on, FALSE, n)
  <2>1. Len(a) \in Nat /\ Len(s) = Len(a) + Len(b) /\ s[Len(a) + 1] = b[1]
    <3>1. /\ Len(a) \in Nat /\ Len(s) = Len(a) + Len(b)
          /\ \A n \in 1 .. Len(b) : s[Len(a) + n] = b[n]
      BY <1>5, Parts
    <3> HIDE DEF s
    <3> QED BY <1>3, <3>1
  <2>2. Before(s, "on", reg[t].on, FALSE, Len(a) + 1)
    <3>1. Before(b, "on", FALSE, FALSE, 1) /\ 1 \in 1 .. Len(b) + 1
      BY <1>3 DEF Before
    <3> QED BY <1>2, <1>5, <3>1, BeforeSecond
  <2> HIDE DEF s
  <2>3. Len(a) + 1 \in 1 .. Len(s) /\ s[Len(a) + 1].register = "flag"
    BY <1>1, <1>3, <2>1
  <2> QED BY <2>2, <2>3
<1> HIDE DEF s
<1>10. Settles(s, t)
  BY <1>5, <1>6, <1>7, <1>8, <1>9 DEF Settles
<1> QED BY <1>6, <1>10 DEF s, b, a, f, w

\* DRV_TMRx_Initialize, of a timer that does not run or is now initialised
\* again.
LEMMA InitializationSettles ==
    ASSUME IInv, todo = <<>>, NEW t \in Timers, ~reg[t].Running \/ t \in again'
    PROVE  LET s == Initialization(t)
           IN  /\ Settles(s, t)
               /\ \A n \in 1 .. Len(s) :
                    /\ s[n].register \in {"on", "source", "prescale", "counter", "period"}
                    /\ s[n].register = "prescale" => s[n].value = 1
               /\ \A old : AtEnd(s, "period", old, Instance[t].period)
<1> DEFINE a == Write("on", FALSE)
           b == Write("source", "internal")
           e == Write("prescale", 1)
           c == Write("counter", 0)
           p == Instance[t].period
           d == Write("period", p)
           s == <<a, b, e, c, d>>
<1>1. PICK v \in BOOLEAN :
        /\ reg[t].Running = v /\ reg[t].ie = v
        /\ v = FALSE => reg[t].flag = FALSE /\ reg[t].on = FALSE
        /\ v = FALSE \/ t \in again'
  BY TimerAtRest
<1>2. p \in Nat /\ p <= Instance[t].top /\ 0 <= Instance[t].top
  BY TmrDriverAssumption DEF Instance, Instance0, Instance1, Timers
<1> HIDE DEF p
<1>4. /\ a.register = "on" /\ a.value = FALSE /\ a \in TimerWrites
      /\ b.register = "source" /\ b.value = "internal" /\ b \in TimerWrites
      /\ e.register = "prescale" /\ e.value = 1 /\ e \in TimerWrites
      /\ c.register = "counter" /\ c.value = 0 /\ c \in TimerWrites
      /\ d.register = "period" /\ d.value = p /\ d \in TimerWrites
  BY <1>2 DEF Write, TimerWrites
<1> HIDE DEF a, b, c, d, e
<1>5. /\ s \in Seq(TimerWrites) /\ Len(s) = 5
      /\ s[1] = a /\ s[2] = b /\ s[3] = e /\ s[4] = c /\ s[5] = d
  BY <1>4
<1> HIDE DEF s
<1>6. \A n \in 1 .. Len(s) : n \in {1, 2, 3, 4, 5}
  BY <1>5
<1>7. \A n \in 1 .. Len(s) :
         /\ s[n].register \in {"on", "source", "prescale", "counter", "period"}
         /\ s[n].register = "prescale" => s[n].value = 1
         /\ s[n].register = "on" => s[n].value = FALSE
         /\ s[n].register \in {"counter", "period"} => s[n].value <= Instance[t].top
  BY <1>2, <1>4, <1>5, <1>6
<1>8. \A old : /\ AtEnd(s, "Running", old, old) /\ AtEnd(s, "on", old, FALSE)
               /\ AtEnd(s, "ie", old, old) /\ AtEnd(s, "period", old, p)
  BY <1>4, <1>5, <1>6 DEF AtEnd, Before
<1>9. Settles(s, t)
  <2>1. /\ AtEnd(s, "Running", reg[t].Running, v) /\ AtEnd(s, "ie", reg[t].ie, v)
        /\ AtEnd(s, "on", reg[t].on, IF t \in again' THEN FALSE ELSE v)
    BY <1>1, <1>8
  <2> QED BY <1>1, <1>5, <1>7, <2>1 DEF Settles
<1>10. Initialization(t) = s
  BY DEF Initialization, s, a, b, c, d, e, p
<1> QED BY <1>7, <1>8, <1>9, <1>10 DEF p

\* The writes of the clock: at most one of each register, with what
\* DRV_TMRx_ClockSet leaves.
LEMMA WhenWrites ==
    ASSUME NEW a \in BOOLEAN, NEW w \in TimerWrites, NEW q, q = w.register,
           NEW old, NEW new, new = IF a THEN w.value ELSE old
    PROVE  /\ When(a, w) \in Seq(TimerWrites) /\ When(a, w) \in Seq(Writes)
           /\ \A n \in 1 .. Len(When(a, w)) : When(a, w)[n].register = q
           /\ AtEnd(When(a, w), q, old, new)
           /\ \A r, v : r # q => AtEnd(When(a, w), r, v, v)
<1>1. CASE a
  <2> DEFINE s == <<w>>
  <2>1. s \in Seq(TimerWrites) /\ Len(s) = 1 /\ s[1] = w
    OBVIOUS
  <2>2. s = When(a, w)
    BY <1>1 DEF When
  <2> HIDE DEF s
  <2>3. s \in Seq(Writes)
    BY <2>1, TimerParts
  <2>4. AtEnd(s, q, old, w.value)
    BY <2>1 DEF AtEnd, Before
  <2>5. \A n \in 1 .. Len(s) : s[n].register = q
    BY <2>1
  <2>6. \A r, v : r # q => AtEnd(s, r, v, v)
    BY <2>3, <2>5, Untouched
  <2>7. new = w.value
    BY <1>1
  <2> QED BY <2>1, <2>2, <2>3, <2>4, <2>5, <2>6, <2>7
<1>2. CASE ~a
  <2> DEFINE s == <<>>
  <2>1. s \in Seq(TimerWrites) /\ s \in Seq(Writes) /\ \A n \in 1 .. Len(s) : FALSE
    OBVIOUS
  <2>2. s = When(a, w)
    BY <1>2 DEF When
  <2> HIDE DEF s
  <2>3. \A r, v : AtEnd(s, r, v, v)
    BY <2>1, Untouched
  <2>4. new = old
    BY <1>2
  <2> QED BY <2>1, <2>2, <2>3, <2>4
<1> QED BY <1>1, <1>2

LEMMA ClockWritesAre ==
    ASSUME NEW t \in Timers, NEW s \in Sources, NEW p \in Prescales, NEW k
    PROVE  LET c == ClockWrites(t, s, p)
               d == NewClock(t, s, p, k)
           IN  /\ c \in Seq(TimerWrites)
               /\ \A n \in 1 .. Len(c) : c[n].register \in ClockRegisters
               /\ AtEnd(c, "source", k.source, d.source)
               /\ AtEnd(c, "extSync", k.extSync, d.extSync)
               /\ AtEnd(c, "prescale", k.prescale, d.prescale)
<1> DEFINE A == Accepts(t, s)
           B == Accepts(t, s) /\ Instance[t].sync /\ s # "internal"
           C == Accepts(t, s) /\ t \in Prescaled
           u == Write("source", SourceOf(s))
           v == Write("extSync", s # "async")
           w == Write("prescale", p)
           x == When(A, u)
           y == When(B, v)
           z == When(C, w)
           xy == x \o y
           c == xy \o z
           d == NewClock(t, s, p, k)
<1>1. /\ u.register = "source" /\ u.value = SourceOf(s) /\ u \in TimerWrites
      /\ v.register = "extSync" /\ v.value = (s # "async") /\ v \in TimerWrites
      /\ w.register = "prescale" /\ w.value = p /\ w \in TimerWrites
  BY DEF Write, TimerWrites, SourceOf
<1>2. A \in BOOLEAN /\ B \in BOOLEAN /\ C \in BOOLEAN
  BY DEF Accepts, Instance, Instance0, Instance1, Timers
<1>3. /\ d.source = IF A THEN u.value ELSE k.source
      /\ d.extSync = IF B THEN v.value ELSE k.extSync
      /\ d.prescale = IF C THEN w.value ELSE k.prescale
  BY <1>1 DEF NewClock
<1>4. c = ClockWrites(t, s, p)
  BY DEF ClockWrites, ClockSourceSet
<1> HIDE DEF A, B, C, u, v, w, d
<1>5. /\ x \in Seq(TimerWrites) /\ x \in Seq(Writes)
      /\ \A n \in 1 .. Len(x) : x[n].register = "source"
      /\ AtEnd(x, "source", k.source, d.source)
      /\ \A old : AtEnd(x, "extSync", old, old) /\ AtEnd(x, "prescale", old, old)
  BY <1>1, <1>2, <1>3, WhenWrites
<1>6. /\ y \in Seq(TimerWrites) /\ y \in Seq(Writes)
      /\ \A n \in 1 .. Len(y) : y[n].register = "extSync"
      /\ AtEnd(y, "extSync", k.extSync, d.extSync)
      /\ \A old : AtEnd(y, "source", old, old) /\ AtEnd(y, "prescale", old, old)
  BY <1>1, <1>2, <1>3, WhenWrites
<1>7. /\ z \in Seq(TimerWrites) /\ z \in Seq(Writes)
      /\ \A n \in 1 .. Len(z) : z[n].register = "prescale"
      /\ AtEnd(z, "prescale", k.prescale, d.prescale)
      /\ \A old : AtEnd(z, "source", old, old) /\ AtEnd(z, "extSync", old, old)
  BY <1>1, <1>2, <1>3, WhenWrites
<1> HIDE DEF x, y, z
<1>8. /\ xy \in Seq(Writes) /\ xy \in Seq(TimerWrites) /\ c \in Seq(TimerWrites)
      /\ c \in Seq(Writes)
  BY <1>5, <1>6, <1>7, TimerParts
<1>9. /\ AtEnd(xy, "source", k.source, d.source) /\ AtEnd(xy, "extSync", k.extSync, d.extSync)
      /\ AtEnd(xy, "prescale", k.prescale, k.prescale)
  BY <1>5, <1>6, AtEndOfParts
<1>10. \A n \in 1 .. Len(xy) : xy[n].register \in ClockRegisters
  <2> TAKE n \in 1 .. Len(xy)
  <2>1. \/ n \in 1 .. Len(x) /\ xy[n] = x[n]
        \/ n - Len(x) \in 1 .. Len(y) /\ xy[n] = y[n - Len(x)]
    BY <1>5, <1>6, ElementsOfParts
  <2> HIDE DEF xy
  <2> QED BY <1>5, <1>6, <2>1 DEF ClockRegisters
<1> HIDE DEF xy
<1>11. /\ AtEnd(c, "source", k.source, d.source) /\ AtEnd(c, "extSync", k.extSync, d.extSync)
       /\ AtEnd(c, "prescale", k.prescale, d.prescale)
  BY <1>7, <1>8, <1>9, AtEndOfParts
<1>12. \A n \in 1 .. Len(c) : c[n].register \in ClockRegisters
  <2> TAKE n \in 1 .. Len(c)
  <2>1. \/ n \in 1 .. Len(xy) /\ c[n] = xy[n]
        \/ n - Len(xy) \in 1 .. Len(z) /\ c[n] = z[n - Len(xy)]
    BY <1>7, <1>8, ElementsOfParts
  <2> HIDE DEF c
  <2> QED BY <1>7, <1>10, <2>1 DEF ClockRegisters
<1> HIDE DEF c
<1> QED BY <1>4, <1>8, <1>11, <1>12 DEF d

\* DRV_TMRx_ClockSet: the timer runs afterwards if it did before, stands still
\* until its clock is written, and has the new clock.
ClockSetWrites(t, s, p) == Suspend(t) \o ClockWrites(t, s, p) \o Resume(reg[t].Running)

LEMMA ClockSetSettles ==
    ASSUME IInv, todo = <<>>, NEW t \in Timers, NEW s \in Sources, NEW p \in Prescales,
           t \notin again'
    PROVE  LET c == ClockSetWrites(t, s, p)
               d == NewClock(t, s, p, ClockOf(t))
           IN  /\ Settles(c, t)
               /\ \A n \in 1 .. Len(c) :
                    /\ c[n].register \in {"flag", "ie", "on"} \cup ClockRegisters
                    /\ c[n].register \in ClockRegisters => StillBefore(c, n, reg[t].on)
               /\ AtEnd(c, "source", reg[t].source, d.source)
               /\ AtEnd(c, "extSync", reg[t].extSync, d.extSync)
               /\ AtEnd(c, "prescale", reg[t].prescale, d.prescale)
<1> DEFINE a == Suspend(t)
           b == ClockWrites(t, s, p)
           e == Resume(reg[t].Running)
           ab == a \o b
           c == ab \o e
           k == ClockOf(t)
           d == NewClock(t, s, p, k)
<1> USE DEF ClockRegisters
<1>0. PICK v \in BOOLEAN :
        /\ v = reg[t].Running /\ reg[t].ie = v
        /\ v = FALSE => reg[t].flag = FALSE /\ reg[t].on = FALSE
  BY TimerAtRest
<1>2. /\ a \in Seq(TimerWrites)
      /\ \A n \in 1 .. Len(a) : a[n].register \in {"ie", "on"} /\ a[n].value = FALSE
      /\ AtEnd(a, "ie", reg[t].ie, FALSE) /\ AtEnd(a, "on", reg[t].on, FALSE)
  BY SuspendWrites
<1>3. /\ e \in Seq(TimerWrites)
      /\ \A n \in 1 .. Len(e) : /\ e[n].register \in {"flag", "ie", "on"}
                                /\ e[n].register = "flag" => e[n].value = FALSE
                                /\ v = TRUE
      /\ AtEnd(e, "ie", FALSE, v) /\ AtEnd(e, "on", FALSE, v)
  BY <1>0, ResumeWrites
<1>4. c = ClockSetWrites(t, s, p)
  BY DEF ClockSetWrites
<1>k. k.source = reg[t].source /\ k.extSync = reg[t].extSync /\ k.prescale = reg[t].prescale
  BY DEF ClockOf
<1>5. /\ b \in Seq(TimerWrites)
      /\ \A n \in 1 .. Len(b) : b[n].register \in ClockRegisters
      /\ AtEnd(b, "source", k.source, d.source)
      /\ AtEnd(b, "extSync", k.extSync, d.extSync)
      /\ AtEnd(b, "prescale", k.prescale, d.prescale)
  BY ClockWritesAre
<1> HIDE DEF a, b, e, d, k
<1>6. /\ a \in Seq(Writes) /\ b \in Seq(Writes) /\ e \in Seq(Writes)
      /\ ab \in Seq(TimerWrites) /\ ab \in Seq(Writes) /\ c \in Seq(TimerWrites)
      /\ c \in Seq(Writes)
  BY <1>2, <1>3, <1>5, TimerParts
<1>7. ASSUME NEW n \in 1 .. Len(ab)
      PROVE  \/ n \in 1 .. Len(a) /\ ab[n].register \in {"ie", "on"} /\ ab[n].value = FALSE
             \/ n > Len(a) /\ ab[n].register \in ClockRegisters
  <2>0. Len(a) \in Nat
    BY <1>6
  <2>1. \/ n \in 1 .. Len(a) /\ ab[n] = a[n]
        \/ n - Len(a) \in 1 .. Len(b) /\ ab[n] = b[n - Len(a)]
    BY <1>6, ElementsOfParts
  <2> HIDE DEF ab
  <2> QED BY <1>2, <1>5, <2>0, <2>1
<1>8. ASSUME NEW n \in 1 .. Len(c)
      PROVE  \/ /\ n \in 1 .. Len(ab) /\ c[n] = ab[n]
             \/ c[n].register \in {"ie", "on"} /\ v = TRUE
             \/ c[n].register = "flag" /\ c[n].value = FALSE /\ v = TRUE
  <2>1. \/ n \in 1 .. Len(ab) /\ c[n] = ab[n]
        \/ n - Len(ab) \in 1 .. Len(e) /\ c[n] = e[n - Len(ab)]
    BY <1>6, ElementsOfParts
  <2> HIDE DEF c, ab
  <2> QED BY <1>3, <2>1
<1>9. /\ AtEnd(c, "Running", reg[t].Running, v)
      /\ AtEnd(c, "on", reg[t].on, v) /\ AtEnd(c, "ie", reg[t].ie, v)
  <2>2. AtEnd(ab, "on", reg[t].on, FALSE) /\ AtEnd(ab, "ie", reg[t].ie, FALSE)
    <3>1. AtEnd(b, "on", FALSE, FALSE) /\ AtEnd(b, "ie", FALSE, FALSE)
      BY <1>5, <1>6, Untouched
    <3> QED BY <1>2, <1>6, <3>1, AtEndOfParts
  <2> HIDE DEF ab
  <2>3. \A n \in 1 .. Len(c) : c[n].register # "Running"
    <3> HIDE DEF c
    <3> QED BY <1>7, <1>8
  <2>5. AtEnd(c, "Running", v, v)
    <3> HIDE DEF c
    <3> QED BY <1>6, <2>3, Untouched
  <2>6. AtEnd(c, "on", reg[t].on, v) /\ AtEnd(c, "ie", reg[t].ie, v)
    BY <1>3, <1>6, <2>2, AtEndOfParts
  <2> HIDE DEF c
  <2> QED BY <1>0, <2>5, <2>6
<1>10. /\ AtEnd(c, "source", k.source, d.source)
       /\ AtEnd(c, "extSync", k.extSync, d.extSync)
       /\ AtEnd(c, "prescale", k.prescale, d.prescale)
  <2>1. \A r \in ClockRegisters : \A old : AtEnd(a, r, old, old) /\ AtEnd(e, r, old, old)
    BY <1>2, <1>3, <1>6, Untouched
  <2>2. /\ AtEnd(ab, "source", k.source, d.source)
        /\ AtEnd(ab, "extSync", k.extSync, d.extSync)
        /\ AtEnd(ab, "prescale", k.prescale, d.prescale)
    BY <1>5, <1>6, <2>1, AtEndOfParts
  <2> HIDE DEF ab
  <2> QED BY <1>6, <2>1, <2>2, AtEndOfParts
<1>11. Len(a) \in Nat /\ Len(ab) \in Nat /\ \A n \in 1 .. Len(ab) : c[n] = ab[n]
  BY <1>6, Parts
<1>12. \A n \in 1 .. Len(a) : ab[n] = a[n] /\ n \in 1 .. Len(ab)
  <2>1. Len(ab) = Len(a) + Len(b) /\ Len(b) \in Nat /\ \A n \in 1 .. Len(a) : ab[n] = a[n]
    BY <1>6, Parts
  <2> HIDE DEF ab
  <2> QED BY <1>11, <2>1
<1> HIDE DEF c, ab
<1>13. ASSUME NEW n \in 1 .. Len(c), c[n].register \in ClockRegisters
       PROVE  StillBefore(c, n, reg[t].on)
  <2>1. n \in 1 .. Len(ab) /\ n > Len(a)
    BY <1>7, <1>8, <1>13
  <2>2. \A m \in 1 .. n - 1 : c[m].register = "on" => c[m].value = FALSE
    <3> TAKE m \in 1 .. n - 1
    <3>1. m \in 1 .. Len(ab) /\ c[m] = ab[m]
      BY <1>11, <2>1
    <3> QED BY <1>7, <3>1
  <2>3. reg[t].on = FALSE \/ \E m \in 1 .. Len(a) : a[m].register = "on"
    BY <1>2, <1>11 DEF AtEnd, Before
  <2>4. \A m \in 1 .. Len(a) : m \in 1 .. n - 1 /\ c[m] = a[m]
    BY <1>11, <1>12, <2>1
  <2> QED BY <2>2, <2>3, <2>4 DEF StillBefore
<1>14. \A n \in 1 .. Len(c) : /\ c[n].register \in {"flag", "ie", "on"} \cup ClockRegisters
                              /\ c[n].register = "flag" => c[n].value = FALSE
                              /\ v = FALSE /\ c[n].register = "on" => c[n].value = FALSE
  BY <1>7, <1>8
<1>15. Settles(c, t)
  BY <1>0, <1>6, <1>9, <1>14 DEF Settles
<1> QED BY <1>4, <1>k, <1>10, <1>13, <1>14, <1>15 DEF d, k

LEMMA PlainCall ==
    ASSUME IInv, NEW t \in Timers, NEW s, Call(t, s), clockCall' = NotClockSet,
           again' \in {again, again \ {t}, again \cup {t}}, Settles(s, t),
           client = 2 => \A n \in 1 .. Len(s) : s[n].register \notin {"prescale", "period"}
    PROVE  IInv'
<1>1. /\ todo = <<>> /\ boot = <<>> /\ todo' = s /\ caller' = t
      /\ UNCHANGED <<boot, chip, port, asked, client, reg, handler>>
      /\ again' \subseteq Timers /\ \A u \in Timers : u # t => (u \in again' <=> u \in again)
  BY DEF Call, Idle, IInv, Shape
<1>2. Progress
  BY <1>1 DEF Progress
<1>3. Left = 0
  BY <1>1, <1>2, BootLeft
<1>4. StartsTimer(t)
  BY <1>1, <1>2, <1>3 DEF StartsTimer
<1>5. ClockCallKept'
  BY <1>1 DEF ClockCallKept
<1>6. TickKept'
  <2> SUFFICES ASSUME client = 2 PROVE TickKept'
    BY <1>1 DEF TickKept
  <2>1. reg[0].period = 9999
    BY <1>1, <1>3, AtRest
  <2>2. AtEnd(s, "period", reg[0].period, reg[0].period)
    <3>1. s \in Seq(Writes)
      BY TimerParts DEF Settles
    <3> QED BY <3>1, Untouched
  <2>3. \A u \in Timers : reg[u].prescale = 1
    BY DEF IInv, TickKept
  <2> QED BY <1>1, <2>1, <2>2, <2>3 DEF TickKept
<1> QED BY <1>4, <1>5, <1>6, TimerCall

LEMMA StartStopStep ==
    ASSUME IInv, NEW t \in Timers, DRV_TMRx_Start(t) \/ DRV_TMRx_Stop(t)
    PROVE  IInv'
<1>1. CASE DRV_TMRx_Start(t)
  <2> DEFINE s == Resume(TRUE) \o <<Write("Running", TRUE)>>
  <2>1. Switch(t, s)
    BY <1>1 DEF DRV_TMRx_Start
  <2>2. todo = <<>> /\ t \notin again'
    BY <2>1 DEF Switch, Call, Idle
  <2>3. /\ Settles(s, t)
        /\ \A n \in 1 .. Len(s) : s[n].register \in {"flag", "ie", "on", "Running"}
    BY <2>2, StartSettles
  <2> HIDE DEF s
  <2>4. \A n \in 1 .. Len(s) : s[n].register \notin {"prescale", "period"}
    BY <2>3
  <2> QED BY <2>1, <2>3, <2>4, PlainCall DEF Switch
<1>2. CASE DRV_TMRx_Stop(t)
  <2> DEFINE s == Suspend(t) \o <<Write("flag", FALSE), Write("Running", FALSE)>>
  <2>1. Switch(t, s)
    BY <1>2 DEF DRV_TMRx_Stop
  <2>2. todo = <<>> /\ t \notin again'
    BY <2>1 DEF Switch, Call, Idle
  <2>3. /\ Settles(s, t)
        /\ \A n \in 1 .. Len(s) : s[n].register \in {"flag", "ie", "on", "Running"}
    BY <2>2, StopSettles
  <2> HIDE DEF s
  <2>4. \A n \in 1 .. Len(s) : s[n].register \notin {"prescale", "period"}
    BY <2>3
  <2> QED BY <2>1, <2>3, <2>4, PlainCall DEF Switch
<1> QED BY <1>1, <1>2

\* A call of one write that does not say whether the timer runs.
LEMMA OneWriteCall ==
    ASSUME IInv, NEW t \in Timers, client # 2, NEW r \in {"counter", "period", "stopInIdle"},
           NEW v, r \in {"counter", "period"} => v \in Nat /\ v <= Instance[t].top,
           r = "stopInIdle" => v = FALSE,
           Plain(t, <<Write(r, v)>>)
    PROVE  IInv'
<1> DEFINE w == Write(r, v)
           s == <<w>>
<1>1. w.register = r /\ w.value = v /\ w \in TimerWrites
  BY DEF Write, TimerWrites
<1>2. Plain(t, s)
  OBVIOUS
<1> HIDE DEF w
<1>3. s \in Seq(TimerWrites) /\ Len(s) = 1 /\ s[1] = w
  BY <1>1
<1> HIDE DEF s
<1>4. \A n \in 1 .. Len(s) : s[n] = w
  BY <1>3
<1>5. todo = <<>> /\ again' = again
  BY <1>2 DEF Plain, Call, Idle
<1>6. \A n \in 1 .. Len(s) :
         /\ s[n].register \in {"counter", "period", "stopInIdle"}
         /\ s[n].register \in {"counter", "period"} => s[n].value <= Instance[t].top
  BY <1>1, <1>4
<1>7. Settles(s, t)
  BY <1>3, <1>5, <1>6, OtherWrites
<1> QED BY <1>2, <1>7, PlainCall DEF Plain

LEMMA ClockSetStep ==
    ASSUME IInv, NEW t \in Timers, NEW s \in Sources, NEW p \in Prescales, client # 2,
           DRV_TMRx_ClockSet(t, s, p)
    PROVE  IInv'
<1> DEFINE c == ClockSetWrites(t, s, p)
           k == ClockOf(t)
           a == Accepts(t, s) /\ t \in Prescaled
           d == NewClock(t, s, p, k)
<1>1. /\ todo = <<>> /\ boot = <<>> /\ todo' = c /\ caller' = t
      /\ UNCHANGED <<boot, chip, port, asked, client, reg, handler>>
      /\ clockCall' = [t |-> t, source |-> s, prescale |-> p, before |-> k,
                       ran |-> reg[t].Running, success |-> a]
      /\ again' = again \ {t}
  BY DEF DRV_TMRx_ClockSet, ClockSetCall, Call, Idle, ClockSetWrites
<1>2. /\ Settles(c, t)
      /\ \A n \in 1 .. Len(c) :
           /\ c[n].register \in {"flag", "ie", "on"} \cup ClockRegisters
           /\ c[n].register \in ClockRegisters => StillBefore(c, n, reg[t].on)
      /\ AtEnd(c, "source", reg[t].source, d.source)
      /\ AtEnd(c, "extSync", reg[t].extSync, d.extSync)
      /\ AtEnd(c, "prescale", reg[t].prescale, d.prescale)
  <2>1. todo = <<>> /\ t \notin again'
    BY <1>1
  <2> QED BY <2>1, ClockSetSettles
<1>3. a \in BOOLEAN /\ k \in ClockValues /\ reg[t].Running \in BOOLEAN
  <2>1. reg[t] \in Registers
    BY DEF IInv, Shape
  <2> QED BY <2>1 DEF Registers, ClockValues, ClockOf
<1>4. Progress
  BY <1>1 DEF Progress
<1>5. Left = 0
  BY <1>1, <1>4, BootLeft
<1>6. StartsTimer(t)
  <2>1. again' \subseteq Timers /\ \A u \in Timers : u # t => (u \in again' <=> u \in again)
    BY <1>1 DEF IInv, Shape
  <2> HIDE DEF c, a, k
  <2> QED BY <1>1, <1>2, <1>4, <1>5, <2>1 DEF StartsTimer
<1>7. ClockCallKept'
  <2>1. /\ clockCall' \in ClockCalls /\ clockCall'.t = t /\ clockCall'.source = s
        /\ clockCall'.prescale = p /\ clockCall'.before = k
        /\ clockCall'.ran = reg[t].Running /\ clockCall'.success = a
    <3> HIDE DEF a, k
    <3> QED BY <1>1, <1>3 DEF ClockCalls
  <2>2. NewClock(caller, clockCall.source, clockCall.prescale, clockCall.before)' = d
    BY <1>1, <2>1 DEF NewClock
  <2>3. WillHave(NewClock(caller, clockCall.source, clockCall.prescale, clockCall.before))'
    <3>1. /\ AtEnd(todo', "source", reg'[caller'].source, d.source)
          /\ AtEnd(todo', "extSync", reg'[caller'].extSync, d.extSync)
          /\ AtEnd(todo', "prescale", reg'[caller'].prescale, d.prescale)
      <4> HIDE DEF c, a, k, d
      <4> QED BY <1>1, <1>2
    <3> HIDE DEF d
    <3> QED BY <2>2, <3>1 DEF WillHave
  <2>4. StandsStill'
    <3>1. ClockOf(caller)' = clockCall'.before
      BY <1>1, <2>1 DEF ClockOf
    <3>2. \A n \in 1 .. Len(todo') : todo'[n].register \in ClockRegisters
                                       => StillBefore(todo', n, reg'[caller'].on)
      <4> HIDE DEF c, a, k, d
      <4> QED BY <1>1, <1>2
    <3> QED BY <3>1, <3>2 DEF StandsStill, StillBefore, ClockRegisters
  <2>5. AtEnd(todo', "Running", reg'[caller'].Running, clockCall'.ran)
    <3> HIDE DEF c, a, k, d
    <3>1. \A n \in 1 .. Len(c) : c[n].register # "Running"
      BY <1>2 DEF ClockRegisters
    <3>2. c \in Seq(Writes)
      BY <1>2, TimerParts DEF Settles
    <3>3. AtEnd(c, "Running", reg[t].Running, reg[t].Running)
      BY <3>1, <3>2, Untouched
    <3> QED BY <1>1, <2>1, <3>3
  <2>6. boot' = <<>> /\ caller' = t /\ t \notin again'
    BY <1>1
  <2>7. (clockCall.success = (Accepts(caller, clockCall.source) /\ caller \in Prescaled))'
    BY <1>1, <2>1 DEF Accepts
  <2> HIDE DEF c, k, d, a
  <2> QED BY <2>1, <2>2, <2>3, <2>4, <2>5, <2>6, <2>7 DEF ClockCallKept
<1>8. TickKept'
  BY <1>1 DEF TickKept
<1> QED BY <1>6, <1>7, <1>8, TimerCall

\* The timers' part of SYS_Initialize.
LEMMA TimerBootStep ==
    ASSUME IInv, NEW t \in Timers, NEW call, call = IF t = 0 THEN "tmr0" ELSE "tmr1",
           Boot(call, Initialization(t)), TimerBoot(t)
    PROVE  IInv'
<1> DEFINE s == Initialization(t)
<1>1. /\ todo = <<>> /\ boot # <<>> /\ todo' = s /\ Head(boot) = call
      /\ boot' = Tail(boot) /\ UNCHANGED <<chip, port, asked>> /\ caller' = t
      /\ UNCHANGED <<client, reg, handler, clockCall, again>>
  BY DEF Boot, TimerBoot
<1>2. Progress
  BY <1>1 DEF Progress
<1>3. ~reg[t].Running
  BY <1>1 DEF IInv, TimersSettle
<1>4. /\ Settles(s, t)
      /\ \A n \in 1 .. Len(s) :
           /\ s[n].register \in {"on", "source", "prescale", "counter", "period"}
           /\ s[n].register = "prescale" => s[n].value = 1
      /\ \A old : AtEnd(s, "period", old, Instance[t].period)
  BY <1>1, <1>3, InitializationSettles
<1> HIDE DEF s
<1>5. /\ Left = IF t = 0 THEN 4 ELSE 3
      /\ Left' = Left - 1 /\ boot' # <<>>
  <2>1. /\ Left \in 0 .. 9
        /\ boot = <<>> <=> Left = 0
        /\ boot' = <<>> <=> Left' = 0
        /\ boot # <<>> => Left' = Left - 1 /\ Head(boot) = BootOrder[10 - Left]
    BY <1>2, BootLeft
  <2>2. boot # <<>> /\ Head(boot) = call
    BY <1>1
  <2>3. Left = IF t = 0 THEN 4 ELSE 3
    BY <2>1, <2>2 DEF BootOrder
  <2> QED BY <2>1, <2>2, <2>3
<1>6. StartsTimer(t)
  <2>1. \A n \in 1 .. Len(s) : s[n].register # "Running"
    BY <1>4
  <2>2. Left \in {0, 3, 4}
    BY <1>5
  <2>3. again' \subseteq Timers /\ \A u \in Timers : u # t => (u \in again' <=> u \in again)
    BY <1>1 DEF IInv, Shape
  <2> QED BY <1>1, <1>2, <1>4, <2>1, <2>2, <2>3 DEF StartsTimer
<1>7. ClockCallKept'
  <2>1. clockCall' = NotClockSet
    BY <1>1 DEF IInv, ClockCallKept
  <2> QED BY <2>1 DEF ClockCallKept
<1>8. TickKept'
  <2> SUFFICES ASSUME client = 2 PROVE TickKept'
    BY <1>1 DEF TickKept
  <2>1. \A u \in Timers : reg'[u].prescale = 1
    BY <1>1 DEF IInv, TickKept
  <2>2. \A n \in 1 .. Len(todo') :
             /\ todo'[n].register = "prescale" => todo'[n].value = 1
             /\ todo'[n].register = "period" => boot' # <<>>
    BY <1>1, <1>4, <1>5
  <2>3. CASE t = 0
    <3>1. AtEnd(s, "period", reg[0].period, 9999)
      BY <1>4, <2>3 DEF Instance, Instance0, Timers
    <3>2. AtEnd(todo', "period", reg'[0].period, 9999) /\ caller' = 0
      BY <1>1, <2>3, <3>1
    <3> QED BY <2>1, <2>2, <3>2 DEF TickKept
  <2>4. CASE t # 0
    <3>1. reg[0].period = 9999
      BY <1>1, <1>5, <2>4, AtRest
    <3> QED BY <1>1, <2>1, <2>2, <2>4, <3>1 DEF TickKept
  <2> QED BY <2>3, <2>4
<1> QED BY <1>6, <1>7, <1>8, TimerCall

LEMMA ClientStep ==
    ASSUME IInv, Client
    PROVE  IInv'
<1>1. ASSUME NEW h, DRV_TMR_Start(h) \/ DRV_TMR_Stop(h) PROVE IInv'
  BY <1>1, StartStopStep DEF DRV_TMR_Start, DRV_TMR_Stop
<1>2. ASSUME NEW h \in Timers, client = h, TimerCalls(h) PROVE IInv'
  <2>0. client # 2
    BY <1>2 DEF Timers
  <2>1. CASE DRV_TMR_Initialize(h)
    <3> DEFINE s == Initialization(h)
    <3>1. Call(h, s) /\ clockCall' = NotClockSet /\ again' = again \cup {h}
      BY <2>1 DEF DRV_TMR_Initialize
    <3>2. todo = <<>>
      BY <3>1 DEF Call, Idle
    <3>3. Settles(s, h)
      BY <3>1, <3>2, InitializationSettles
    <3> HIDE DEF s
    <3> QED BY <2>0, <3>1, <3>3, PlainCall
  <2>2. CASE DRV_TMR_Deinitialize(h) \/ DRV_TMR_Close(h)
    BY <2>2, StartStopStep DEF DRV_TMR_Deinitialize, DRV_TMR_Close
  <2>3. ASSUME NEW v \in Counters, DRV_TMR_CounterValueSet(h, v) PROVE IInv'
    <3>1. Cut(h, v) \in Nat /\ Cut(h, v) <= Instance[h].top
      BY CutFits, TmrDriverAssumption
    <3>2. Plain(h, <<Write("counter", Cut(h, v))>>)
      BY <2>3 DEF DRV_TMR_CounterValueSet, DRV_TMRx_CounterValueSet
    <3> QED BY <2>0, <3>1, <3>2, OneWriteCall
  <2>4. CASE DRV_TMR_CounterClear(h)
    <3>1. 0 <= Instance[h].top
      BY TmrDriverAssumption DEF Instance, Instance0, Instance1, Timers
    <3>2. Plain(h, <<Write("counter", 0)>>)
      BY <2>4 DEF DRV_TMR_CounterClear, DRV_TMRx_CounterClear
    <3> QED BY <2>0, <3>1, <3>2, OneWriteCall
  <2>5. ASSUME NEW v \in Periods, DRV_TMRx_PeriodValueSet(h, v) PROVE IInv'
    <3>1. Cut(h, v) \in Nat /\ Cut(h, v) <= Instance[h].top
      BY CutFits, TmrDriverAssumption
    <3>2. Plain(h, <<Write("period", Cut(h, v))>>)
      BY <2>5 DEF DRV_TMRx_PeriodValueSet
    <3> QED BY <2>0, <3>1, <3>2, OneWriteCall
  <2>6. ASSUME NEW s \in Sources, NEW p \in Prescales, DRV_TMR_ClockSet(h, s, p)
        PROVE  IInv'
    BY <2>0, <2>6, ClockSetStep DEF DRV_TMR_ClockSet
  <2>7. CASE DRV_TMRx_StopInIdleDisable(h) \/ DRV_TMRx_StopInIdleEnable(h)
    <3>1. Plain(h, <<Write("stopInIdle", FALSE)>>)
      BY <2>7 DEF DRV_TMRx_StopInIdleDisable, DRV_TMRx_StopInIdleEnable
    <3> QED BY <2>0, <3>1, OneWriteCall
  <2> QED BY <1>2, <2>1, <2>2, <2>3, <2>4, <2>5, <2>6, <2>7 DEF TimerCalls
<1>3. CASE Services /\ UNCHANGED tmrVars
  BY <1>3, ServicesStep
<1> QED BY <1>1, <1>2, <1>3 DEF Client

\* Every step of the specification keeps the invariant.
LEMMA NextIInv ==
    ASSUME IInv, Next
    PROVE  IInv'
<1>1. CASE BoardBoot /\ UNCHANGED tmrVars
  BY <1>1, BoardBootStep
<1>2. CASE DRV_TMR0_Initialize
  BY <1>2, TimerBootStep DEF DRV_TMR0_Initialize, Timers
<1>3. CASE DRV_TMR1_Initialize
  BY <1>3, TimerBootStep DEF DRV_TMR1_Initialize, Timers
<1>4. CASE Client
  BY <1>4, ClientStep
<1>5. CASE Call_Step
  BY <1>5, WriteStep
<1>6. ASSUME NEW t \in Timers, Count(t) PROVE IInv'
  BY <1>6, CountStep
<1>7. CASE Handler
  <2>1. CASE IntHandlerDrvTmrInstance0
    BY <2>1, WaitEnds DEF IntHandlerDrvTmrInstance0
  <2> QED BY <1>7, <2>1, HandlerStep DEF Handler
<1>8. CASE OtherInterrupt /\ UNCHANGED tmrVars
  <2>1. handler' \in {"none", "callback", "clear"}
    BY <1>8 DEF tmrVars, IInv, Shape
  <2> QED BY <1>8, <2>1, WaitEnds DEF OtherInterrupt, tmrVars
<1> QED BY <1>1, <1>2, <1>3, <1>4, <1>5, <1>6, <1>7, <1>8 DEF Next, SYS_Initialize

LEMMA StutterIInv ==
    ASSUME IInv, UNCHANGED vars
    PROVE  IInv'
<1>1. UNCHANGED <<boardVars, tmrVars>>
  BY DEF vars
<1>2. \A t \in Timers : reg[t].counter <= Instance[t].top
  BY DEF IInv, Shape
<1>3. reg' \in [Timers -> Registers] /\ handler' \in {"none", "callback", "clear"}
  BY <1>1 DEF IInv, Shape, tmrVars
<1> QED BY <1>1, <1>2, <1>3, CountersChange DEF tmrVars
----------------------------------------------------------------------------
\* What the invariant says.

LEMMA Invariant == Spec => []IInv
<1>1. IInv /\ [Next]_vars => IInv'
  BY NextIInv, StutterIInv
<1> QED BY <1>1, InitIInv, PTL DEF Spec

\* The state of the timers and of the board has its type: no counter and no
\* period exceeds the width of its timer, whatever value the driver is given.
THEOREM TypeCorrect == Spec => []TypeOK
<1>1. IInv => TypeOK
  <2> SUFFICES ASSUME IInv PROVE TypeOK
    OBVIOUS
  <2>1. \A m \in Remaps : m[2] \in Pin
    BY DEF Remaps, RemapInputs, RemapOutputs, Pin, Channels
  <2>2. \A m \in port.remapped : m[2] \in Pin
    BY <2>1 DEF IInv, Shape
  <2>3. \A r \in {"lat", "out", "digital", "openDrain"} : port[r] \subseteq Pin
    BY DEF IInv, Shape
  <2> QED BY <2>2, <2>3 DEF IInv, Shape, TypeOK, BoardTypeOK, Calls
<1> QED BY <1>1, Invariant, PTL

LEMMA RunningSays ==
    ASSUME NEW t \in Timers
    PROVE  reg[t].Running <=> DRV_TMR_ClientStatus(t) = "RUNNING"
  BY DEF DRV_TMR_ClientStatus, Answer, DRV_TMRx_ClientStatus

\* Between two calls Running says what the hardware does, for every sequence
\* of calls, wherever timer 0's interrupt came between their writes.
THEOREM RunningCorrect == Spec => []RunningIsTrue
<1>1. IInv => RunningIsTrue
  <2> SUFFICES ASSUME IInv, Idle, NEW t \in Timers
               PROVE  /\ reg[t].on <=> DRV_TMR_ClientStatus(t) = "RUNNING" /\ t \notin again
                      /\ reg[t].ie = reg[t].Running
                      /\ ~reg[t].Running => ~reg[t].flag
    BY DEF RunningIsTrue
  <2>1. Settled(t)
    BY AtRest DEF Idle
  <2>3. reg[t].Running <=> DRV_TMR_ClientStatus(t) = "RUNNING"
    BY RunningSays
  <2>4. reg[t].on <=> reg[t].Running /\ t \notin again
    BY <2>1 DEF Settled, Counting
  <2> QED BY <2>1, <2>3, <2>4, Zenon DEF Settled
<1> QED BY <1>1, Invariant, PTL

\* A timer never counts with a clock DRV_TMRx_ClockSet has written in part,
\* runs after the call exactly when it ran before, and its clock is then what
\* the result says, also on a timer that has no prescaler.
THEOREM ClockSetCorrect == Spec => []ClockSetWhole
<1>1. IInv => ClockSetWhole
  <2> SUFFICES ASSUME IInv, clockCall # NotClockSet PROVE ClockSetWhole
    BY DEF ClockSetWhole
  <2> DEFINE t == clockCall.t
             K == NewClock(t, clockCall.source, clockCall.prescale, clockCall.before)
  <2>1. /\ clockCall \in ClockCalls /\ t = caller /\ t \in Timers /\ t \notin again
        /\ clockCall.success = (Accepts(t, clockCall.source) /\ t \in Prescaled)
        /\ WillHave(K) /\ StandsStill
        /\ AtEnd(todo, "Running", reg[t].Running, clockCall.ran)
    BY DEF IInv, Shape, ClockCallKept
  <2>2. reg[t].on => \/ ClockOf(t) = clockCall.before
                     \/ \A n \in 1 .. Len(todo) : todo[n].register \notin ClockRegisters
    BY <2>1 DEF StandsStill, NoClockLeft
  <2>3. ASSUME Idle
        PROVE  /\ reg[t].on = clockCall.ran
               /\ DRV_TMR_ClientStatus(t) = "RUNNING" <=> clockCall.ran
               /\ IF clockCall.success
                  THEN /\ DRV_TMR_PrescalerGet(t) = clockCall.prescale
                       /\ reg[t].source = SourceOf(clockCall.source)
                       /\ clockCall.source \in {"otherSync", "async"} => t = 0
                       /\ t = 0 /\ clockCall.source # "internal" =>
                            reg[t].extSync = (clockCall.source # "async")
                  ELSE /\ DRV_TMR_PrescalerGet(t) = clockCall.before.prescale
                       /\ t \in Prescaled => ClockOf(t) = clockCall.before
    <3>0. todo = <<>>
      BY <2>3 DEF Idle
    <3>1. reg[t].Running = clockCall.ran
      BY <2>1, <3>0, NothingToDo
    <3>2. reg[t].on = clockCall.ran
      <4>1. Settled(t)
        BY <2>1, <3>0, AtRest
      <4> QED BY <2>1, <3>1, <4>1 DEF Settled, Counting
    <3>3. DRV_TMR_ClientStatus(t) = "RUNNING" <=> clockCall.ran
      BY <2>1, <3>1, RunningSays
    <3>4. DRV_TMR_PrescalerGet(t) = reg[t].prescale
      BY <2>1 DEF DRV_TMR_PrescalerGet, Answer, DRV_TMRx_PrescalerGet
    <3>5. /\ reg[t].source = K.source /\ reg[t].extSync = K.extSync
          /\ reg[t].prescale = K.prescale
      <4> HIDE DEF K
      <4> QED BY <2>1, <3>0, NothingToDo DEF WillHave
    <3>6. CASE clockCall.success
      <4>1. Accepts(t, clockCall.source) /\ t \in Prescaled
        BY <2>1, <3>6
      <4>2. reg[t].source = SourceOf(clockCall.source) /\ reg[t].prescale = clockCall.prescale
        BY <3>5, <4>1 DEF NewClock
      <4>3. clockCall.source \in {"otherSync", "async"} => t = 0
        BY <2>1, <4>1 DEF Accepts, Instance, Instance0, Instance1, Timers
      <4>4. ASSUME t = 0, clockCall.source # "internal"
            PROVE  reg[t].extSync = (clockCall.source # "async")
        <5>1. Instance[t].sync
          BY <4>4 DEF Instance, Instance0, Timers
        <5> QED BY <3>5, <4>1, <4>4, <5>1 DEF NewClock
      <4> QED BY <3>2, <3>3, <3>4, <3>6, <4>2, <4>3, <4>4
    <3>7. CASE ~clockCall.success
      <4>1. ~(Accepts(t, clockCall.source) /\ t \in Prescaled)
        BY <2>1, <3>7
      <4>2. reg[t].prescale = clockCall.before.prescale
        BY <3>5, <4>1 DEF NewClock
      <4>3. ASSUME t \in Prescaled PROVE ClockOf(t) = clockCall.before
        <5>1. ~Accepts(t, clockCall.source)
          BY <4>1, <4>3
        <5>2. reg[t].source = clockCall.before.source /\ reg[t].extSync = clockCall.before.extSync
          BY <3>5, <5>1 DEF NewClock
        <5>3. clockCall.before \in ClockValues
          BY <2>1 DEF ClockCalls
        <5> QED BY <4>2, <5>2, <5>3 DEF ClockOf, ClockValues
      <4> QED BY <3>2, <3>3, <3>4, <3>7, <4>2, <4>3
    <3> QED BY <3>6, <3>7
  <2> HIDE DEF t, K
  <2> QED BY <2>2, <2>3 DEF ClockSetWhole, t
<1> QED BY <1>1, Invariant, PTL

\* After the start-up the divisors, the timer of the captures, the pins and
\* the period of the tick stay as they were set.
LEMMA Started ==
    ASSUME IInv, boot = <<>>
    PROVE  /\ \A b \in Buses : chip.pbDiv[b] = Divisor(b)
           /\ chip.icTimer = "TMR2"
           /\ Driven \subseteq port.out
           /\ Inputs \subseteq port.digital
           /\ Remaps = port.remapped
           /\ client = 2 => reg[0].period = 9999
<1>0. Left = 0
  BY DEF Left
<1>1. \A b \in Buses : chip.pbDiv[b] = Divisor(b)
  <2>1. \A n \in 1 .. Len(todo) : todo[n].register # "pbDiv"
    BY <1>0 DEF IInv, Divided
  <2> QED BY <1>0, <2>1 DEF IInv, Divided
<1>2. chip.icTimer = "TMR2"
  <2>1. \A n \in 1 .. Len(todo) : todo[n].register # "icTimer"
    BY <1>0 DEF IInv, Divided
  <2>2. AtEnd(todo, "icTimer", chip.icTimer, "TMR2") /\ Len(todo) \in Nat
    BY <1>0 DEF IInv, Divided, Shape
  <2> QED BY <2>1, <2>2 DEF AtEnd, Before
<1>3. /\ Driven \subseteq port.out /\ Inputs \subseteq port.digital
      /\ Remaps \subseteq port.remapped
  <2>1. \A n \in 1 .. Len(todo) : todo[n].register \notin {"out", "digital", "remapped"}
    BY <1>0 DEF IInv, PinsSafe
  <2> QED BY <1>0, <2>1 DEF IInv, PinsSafe, Supplied
<1>4. port.remapped \subseteq Remaps
  BY DEF IInv, Shape
<1>5. client = 2 => reg[0].period = 9999
  <2> SUFFICES ASSUME client = 2, caller = 0 PROVE reg[0].period = 9999
    BY <1>0 DEF IInv, TickKept
  <2>1. \A n \in 1 .. Len(todo) : todo[n].register # "period"
    BY DEF IInv, TickKept
  <2>2. AtEnd(todo, "period", reg[0].period, 9999) /\ Len(todo) \in Nat
    BY <1>0 DEF IInv, TickKept, Shape
  <2> QED BY <2>1, <2>2 DEF AtEnd, Before
<1>6. port.remapped = Remaps
  BY <1>3, <1>4, Zenon
<1> QED BY <1>1, <1>2, <1>3, <1>5, <1>6

\* With the frequencies of system_config.h and menu.c the constants of the
\* four files agree, whatever is done with the timers: the tick is 1 ms and
\* the captures are dated at TIMER_FREQ, not at TIMER_FREQ_HZ.
THEOREM TimeBasesCorrect ==
    ASSUME SYS_CLK_FREQ = 100000000, TIMER_FREQ = 10000000
    PROVE  Spec => []TimeBasesAgree
<1>1. IInv => TimeBasesAgree
  <2> SUFFICES ASSUME IInv, boot = <<>> PROVE TimeBasesAgree
    BY DEF TimeBasesAgree
  <2>1. /\ \A b \in Buses : chip.pbDiv[b] = Divisor(b)
        /\ chip.icTimer = "TMR2" /\ (client = 2 => reg[0].period = 9999)
    BY Started
  <2>2. ASSUME NEW b \in Buses
        PROVE  SYS_CLK_PeripheralFrequencyGet(b) * chip.pbDiv[b] = SYS_CLK_FREQ
    BY <2>1, SMT DEF SYS_CLK_PeripheralFrequencyGet, SYS_CLK_BUS_PERIPHERAL, Divisor, Buses
  <2>3. /\ SYS_CLK_PeripheralFrequencyGet(3) = 10000000
        /\ SYS_CLK_FREQ \div chip.pbDiv[3] = 10000000
    <3>1. chip.pbDiv[3] = 10
      BY <2>1, SMT DEF Divisor, Buses
    <3> QED BY <3>1, SMT DEF SYS_CLK_PeripheralFrequencyGet, SYS_CLK_BUS_PERIPHERAL, Buses
  <2>4. ASSUME NEW t \in Timers, reg[t].prescale = 1
        PROVE  DRV_TMR_CounterFrequencyGet(t) = 10000000
    BY <2>3, <2>4, SMT DEF DRV_TMR_CounterFrequencyGet, Answer, DRV_TMRx_CounterFrequencyGet
  <2>5. ASSUME client = 2
        PROVE  LET divider == DRV_TMRx_PeriodValueGet(0) + 1
                   range   == DRV_TMR_DividerRangeGet(0)
               IN /\ DRV_TMR_CounterFrequencyGet(0) \div divider = 1000
                  /\ divider \in range.min .. range.max
    <3>1. DRV_TMRx_PeriodValueGet(0) = 9999
      BY <2>1, <2>5, SMT DEF DRV_TMRx_PeriodValueGet
    <3>2. DRV_TMR_CounterFrequencyGet(0) = 10000000
      <4>1. 0 \in Timers /\ reg[0].prescale = 1
        BY <2>5, SMT DEF Timers, IInv, TickKept
      <4> QED BY <2>4, <4>1, SMT
    <3>3. /\ DRV_TMR_DividerRangeGet(0).min = 2
          /\ DRV_TMR_DividerRangeGet(0).max = 65536
      BY SMT DEF DRV_TMR_DividerRangeGet, Answer, DRV_TMRx_DividerRangeGet, Instance,
             Instance0, Timers
    <3> QED BY <3>1, <3>2, <3>3, SMT
  <2>6. ASSUME NEW t \in Timers
        PROVE  /\ DRV_TMR_OperationModeGet(t) = DRV_TMR_DividerRangeGet(t).mode
               /\ DRV_TMR_CounterValueGet(t) <= DRV_TMR_DividerRangeGet(t).max
    <3>1. /\ reg[t].counter <= Instance[t].top /\ reg[t].counter \in Nat
          /\ DRV_TMR_CounterValueGet(t) = reg[t].counter
      BY SMT DEF IInv, Shape, Registers, DRV_TMR_CounterValueGet, Answer,
             DRV_TMRx_CounterValueGet
    <3>2. CASE t = 0
      <4>1. /\ Instance[t].top = 65535
            /\ DRV_TMR_DividerRangeGet(t).max = 65536
            /\ DRV_TMR_DividerRangeGet(t).mode = "16_BIT"
            /\ DRV_TMR_OperationModeGet(t) = "16_BIT"
        BY <3>2, SMT DEF DRV_TMR_DividerRangeGet, Answer, DRV_TMRx_DividerRangeGet,
               Instance, Instance0, Timers, DRV_TMR_OperationModeGet
      <4> QED BY <3>1, <4>1, SMT
    <3>3. CASE t = 1
      <4>1. /\ Instance[t].top = Top1
            /\ DRV_TMR_DividerRangeGet(t).max = Top1
            /\ DRV_TMR_DividerRangeGet(t).mode = "32_BIT"
            /\ DRV_TMR_OperationModeGet(t) = "32_BIT"
        BY <3>3, SMT DEF DRV_TMR_DividerRangeGet, Answer, DRV_TMRx_DividerRangeGet,
               Instance, Instance1, Timers, DRV_TMR_OperationModeGet
      <4> QED BY <3>1, <4>1, SMT
    <3> QED BY <3>2, <3>3, SMT DEF Timers
  <2>7. chip.icTimer = Instance[1].timer
    BY <2>1, SMT DEF Instance, Instance1, Timers
  <2>8. /\ 1 \in Timers /\ TIMER_FREQ = 10000000
        /\ SYS_CLK_FREQ \div chip.pbDiv[3] # TIMER_FREQ_HZ
    BY <2>3, SMT DEF Timers, TIMER_FREQ_HZ
  <2> QED BY <2>2, <2>3, <2>4, <2>5, <2>6, <2>7, <2>8, SMT DEF TimeBasesAgree
<1> QED BY <1>1, Invariant, PTL

\* No pin ever drives a level it was not set up for, and after the start-up
\* each has the direction and the function the program uses it with.
THEOREM PinsCorrect == Spec => []PinsAsUsed
<1>1. IInv => PinsAsUsed
  <2> SUFFICES ASSUME IInv PROVE PinsAsUsed
    OBVIOUS
  <2>1. port.out \cap port.lat = {} /\ port.out \cap Inputs = {}
    BY DEF IInv, PinsSafe
  <2>2. boot = <<>> => /\ Driven \subseteq port.out /\ Inputs \subseteq port.digital
                       /\ Remaps = port.remapped
    BY Started
  <2> QED BY <2>1, <2>2 DEF PinsAsUsed, Inputs, Remaps
<1> QED BY <1>1, Invariant, PTL

\* The services of clk, devcon, NVM and I2C leave the device locked, the
\* interrupts enabled, and what they were asked for done, although each write
\* of theirs may be preempted.
THEOREM ServicesCorrect == Spec => []ServicesLeaveNoTrace
<1>1. IInv => ServicesLeaveNoTrace
  <2> SUFFICES ASSUME IInv, boot = <<>>, todo = <<>>
               PROVE  /\ chip.intOn /\ ~chip.unlocked
                      /\ \A r \in DOMAIN asked : chip[r] = asked[r]
    BY DEF ServicesLeaveNoTrace
  <2>1. DOMAIN asked = {"sosc", "onWait", "operation"}
    BY DEF IInv, Shape
  <2> QED BY <2>1, AtRest
<1> QED BY <1>1, Invariant, PTL

\* The application is not called back for a timer it has stopped.
THEOREM StoppedMeansSilent == Spec => NoTickWhenStopped
<1>1. IInv /\ [Next]_vars => [handler' = "callback" /\ handler # "callback"
                                => reg[0].Running \/ todo # <<>>]_vars
  <2> SUFFICES ASSUME IInv, Next, handler' = "callback", handler # "callback", todo = <<>>
               PROVE  reg[0].Running
    OBVIOUS
  <2>1. Settled(0)
    BY AtRest DEF Timers
  <2>2. CASE IntHandlerDrvTmrInstance0
    BY <2>1, <2>2 DEF IntHandlerDrvTmrInstance0, Pending, Settled
  <2>3. CASE ~IntHandlerDrvTmrInstance0
    <3>1. CASE SYS_Initialize
      BY <3>1 DEF SYS_Initialize, DRV_TMR0_Initialize, DRV_TMR1_Initialize, TimerBoot, tmrVars
    <3>2. CASE Client
      <4>1. handler' = handler \/ (handler = "none" /\ UNCHANGED tmrVars) \/ \E t : \E s : Call(t, s)
        BY <3>2 DEF Client, TimerCalls, DRV_TMR_Initialize, DRV_TMR_Deinitialize, DRV_TMR_Close,
             DRV_TMR_CounterValueSet, DRV_TMR_CounterClear, DRV_TMRx_PeriodValueSet,
             DRV_TMR_ClockSet, DRV_TMRx_StopInIdleDisable, DRV_TMRx_StopInIdleEnable,
             DRV_TMRx_CounterValueSet, DRV_TMRx_CounterClear, DRV_TMR_Start, DRV_TMR_Stop,
             DRV_TMRx_Start, DRV_TMRx_Stop, DRV_TMRx_ClockSet, Plain, Switch
      <4> QED BY <4>1 DEF Call, tmrVars
    <3>3. CASE Call_Step
      BY <3>3 DEF Call_Step, tmrVars
    <3>4. CASE \E t \in Timers : Count(t)
      BY <3>4 DEF Count
    <3>5. CASE Handler_Returns \/ Handler_Clear
      BY <3>5 DEF Handler_Returns, Handler_Clear
    <3>6. CASE OtherInterrupt /\ UNCHANGED tmrVars
      BY <3>6 DEF tmrVars
    <3> QED BY <2>3, <3>1, <3>2, <3>3, <3>4, <3>5, <3>6 DEF Next, Handler
  <2> QED BY <2>2, <2>3
<1> QED BY <1>1, Invariant, PTL DEF Spec, NoTickWhenStopped
=============================================================================
