----------------------------- MODULE TmrDriver -----------------------------
(***************************************************************************)
(* The time bases: drv_tmr_static.c and drv_tmr_mapping.c and the timers'  *)
(* interrupts (system_interrupt.c), on the board of module Board.          *)
(* Timer 0 (TMR_ID_1, 16 bits) gives App_Timer1Callback its tick; timer 1  *)
(* (TMR_ID_2, 32 bits) dates the captures of the speed measure.            *)
(*                                                                         *)
(* The timers count between two register writes of a call, and timer 0's   *)
(* interrupt, when it is enabled, preempts them.  Its handler calls the    *)
(* application back, then clears the flag.                                 *)
(*                                                                         *)
(* A counter moves from one interesting value (Marks) to the next; at its  *)
(* period it starts again from 0 and raises the flag, past its period it   *)
(* wraps with no flag.                                                     *)
(*                                                                         *)
(* Operators whose name has a suffix after the name of the one that        *)
(* follows them are deliberate faults: they are in no specification.       *)
(***************************************************************************)
EXTENDS Board, FiniteSetsExt

CONSTANTS
    TIMER_FREQ,     \* the frequency of timer 1 according to menu.c
    Top1,           \* bound of the model: for 2^32 - 1
    Periods,        \* bound of the model: the values given to
    Counters,       \* DRV_TMRx_PeriodValueSet and DRV_TMRx_CounterValueSet,
    Prescales,      \* and the prescalers given to DRV_TMRx_ClockSet
    Prescaled       \* the timers with a prescaler (PLIB_TMR_ExistsPrescale)

ASSUME TmrDriverAssumption ==
    /\ TIMER_FREQ \in Nat
    /\ Top1 \in Nat \ {0}
    /\ Periods \subseteq Nat
    /\ Counters \subseteq Nat
    /\ Prescales \subseteq {1, 2, 4, 8, 16, 32, 64, 256}
    /\ Prescaled \subseteq {0, 1}

VARIABLES
    client,     \* bound of the model: in a behaviour the super-loop starts and
                \* stops the timers, and makes the other calls either for one
                \* timer or for the board (2)
    reg,        \* the registers of each timer, and the driver's Running
    caller,     \* the timer of the call under way
    handler,    \* timer 0's interrupt: not active, in the callback, clearing
    clockCall,  \* history: the last call, if it was DRV_TMRx_ClockSet
    again       \* history: the timers initialised again since the last call
                \* that starts or stops them

tmrVars == <<client, reg, caller, handler, clockCall, again>>
vars    == <<boardVars, tmrVars>>

Timers == {0, 1}

\* app.c defines it as the timer base (PBCLK3), and nothing uses it.
TIMER_FREQ_HZ == 100000000

\* The two instances: the same functions, on TMR_ID_1 with 16 bits and T1's
\* interrupt, and on TMR_ID_2 with 32 bits and T3's.  They differ in the
\* largest count, in the period set at start-up, in whether the interrupt has
\* a priority, and in whether an external clock can be asynchronous.
Instance0 == [top |-> 65535, period |-> 9999, served |-> TRUE, sync |-> TRUE,
              timer |-> "TMR1"]
Instance1 == [top |-> Top1, period |-> Top1, served |-> FALSE, sync |-> FALSE,
              timer |-> "TMR2"]

Instance == [t \in Timers |-> IF t = 0 THEN Instance0 ELSE Instance1]

Sources == {"internal", "externalSync", "otherSync", "async"}

\* stopInIdle: the timer stands still in the processor's idle mode.
Registers == [on : BOOLEAN, source : {"internal", "pin", "other"},
              extSync : BOOLEAN, prescale : Prescales \cup {1},
              counter : Nat, period : Nat,
              ie : BOOLEAN, flag : BOOLEAN, stopInIdle : BOOLEAN,
              Running : BOOLEAN]

NotClockSet == [t |-> 0]

Idle == todo = <<>> /\ boot = <<>>

TypeOK ==
    /\ BoardTypeOK
    /\ client \in 0 .. 2
    /\ \A t \in Timers : /\ reg[t] \in Registers
                         /\ reg[t].counter <= Instance[t].top
                         /\ reg[t].period <= Instance[t].top
    /\ caller \in Timers
    /\ handler \in {"none", "callback", "clear"}
    /\ again \subseteq Timers

Init ==
    /\ BoardInit
    /\ client \in 0 .. 2
    /\ reg = [t \in Timers |->
                [on |-> FALSE, source |-> "internal", extSync |-> FALSE,
                 prescale |-> 1, counter |-> 0, period |-> Instance[t].top,
                 ie |-> FALSE, flag |-> FALSE, stopInIdle |-> FALSE,
                 Running |-> FALSE]]
    /\ caller = 0
    /\ handler = "none"
    /\ clockCall = NotClockSet
    /\ again = {}
----------------------------------------------------------------------------
\* The writes of DRV_TMRx_Initialize.
Initialization(t) ==
    <<Write("on", FALSE), Write("source", "internal"), Write("prescale", 1),
      Write("counter", 0), Write("period", Instance[t].period)>>

TimerBoot(t) == /\ caller' = t
                /\ UNCHANGED <<client, reg, handler, clockCall, again>>

DRV_TMR0_Initialize == Boot("tmr0", Initialization(0)) /\ TimerBoot(0)
DRV_TMR1_Initialize == Boot("tmr1", Initialization(1)) /\ TimerBoot(1)

SYS_Initialize == \/ BoardBoot /\ UNCHANGED tmrVars
                  \/ DRV_TMR0_Initialize \/ DRV_TMR1_Initialize
----------------------------------------------------------------------------
\* The calls of the driver, from the super-loop.

Call(t, writes) == /\ Idle /\ handler = "none" /\ ~chip.waiting
                   /\ todo' = writes
                   /\ caller' = t
                   /\ UNCHANGED <<boot, chip, port, asked, client, reg, handler>>

\* _DRV_TMRx_Suspend: its result is Running.
Suspend(t) == IF reg[t].Running
              THEN <<Write("ie", FALSE), Write("on", FALSE)>> ELSE <<>>

\* _DRV_TMRx_Resume
Resume_NotEnabled(resume) ==
    IF resume THEN <<Write("flag", FALSE), Write("on", TRUE)>> ELSE <<>>
Resume(resume) ==
    IF resume
    THEN <<Write("flag", FALSE), Write("ie", TRUE), Write("on", TRUE)>>
    ELSE <<>>

Plain(t, writes)  == /\ Call(t, writes)
                     /\ clockCall' = NotClockSet /\ again' = again
Switch(t, writes) == /\ Call(t, writes)
                     /\ clockCall' = NotClockSet /\ again' = again \ {t}

DRV_TMRx_Start(t) == Switch(t, Resume(TRUE) \o <<Write("Running", TRUE)>>)

DRV_TMRx_Stop_RunningFirst(t) ==
    Switch(t, <<Write("flag", FALSE), Write("Running", FALSE)>>)
DRV_TMRx_Stop_KeepsFlag(t) ==
    Switch(t, Suspend(t) \o <<Write("Running", FALSE)>>)
DRV_TMRx_Stop(t) ==
    Switch(t, Suspend(t) \o <<Write("flag", FALSE), Write("Running", FALSE)>>)

\* The counter and the period of timer 0 are cut to 16 bits.
Cut_Whole(t, v) == v
Cut(t, v) == v % (Instance[t].top + 1)

DRV_TMRx_CounterValueSet(t, v) == Plain(t, <<Write("counter", Cut(t, v))>>)
DRV_TMRx_CounterClear(t)       == Plain(t, <<Write("counter", 0)>>)
DRV_TMRx_PeriodValueSet(t, v)  == Plain(t, <<Write("period", Cut(t, v))>>)

\* _DRV_TMR_ClockSourceSet: which sources the timer accepts, and what it then
\* writes.
Accepts(t, s) == s \in {"internal", "externalSync"} \/ Instance[t].sync

SourceOf(s) == CASE s = "internal" -> "internal"
                 [] s = "externalSync" -> "pin"
                 [] OTHER -> "other"

When(condition, write) == IF condition THEN <<write>> ELSE <<>>

ClockSourceSet(t, s) ==
    When(Accepts(t, s), Write("source", SourceOf(s)))
      \o When(Accepts(t, s) /\ Instance[t].sync /\ s # "internal",
              Write("extSync", s # "async"))

\* The prescaler is only tried when the source was accepted; a source that was
\* accepted stays when the prescaler is refused.
ClockWrites(t, s, p) ==
    ClockSourceSet(t, s)
      \o When(Accepts(t, s) /\ t \in Prescaled, Write("prescale", p))

ClockRegisters == {"source", "extSync", "prescale"}
ClockOf(t) == [source |-> reg[t].source, extSync |-> reg[t].extSync,
               prescale |-> reg[t].prescale]

ClockSetCall(t, s, p) ==
    /\ clockCall' = [t |-> t, source |-> s, prescale |-> p, before |-> ClockOf(t),
                     ran |-> reg[t].Running,
                     success |-> Accepts(t, s) /\ t \in Prescaled]
    /\ again' = again \ {t}

\* DRV_TMRx_ClockSet: the timer is suspended meanwhile, if it runs.
DRV_TMRx_ClockSet_Unsuspended(t, s, p) ==
    Call(t, ClockWrites(t, s, p)) /\ ClockSetCall(t, s, p)
DRV_TMRx_ClockSet(t, s, p) ==
    /\ Call(t, Suspend(t) \o ClockWrites(t, s, p) \o Resume(reg[t].Running))
    /\ ClockSetCall(t, s, p)

\* Both set the timer to go on in idle mode.
DRV_TMRx_StopInIdleDisable(t) == Plain(t, <<Write("stopInIdle", FALSE)>>)
DRV_TMRx_StopInIdleEnable(t)  == Plain(t, <<Write("stopInIdle", FALSE)>>)

\* The write that comes next.
Written(r, w) == [r EXCEPT ![w.register] = w.value]

Call_Step ==
    /\ handler = "none"
    /\ \/ BoardStep /\ UNCHANGED tmrVars
       \/ /\ todo # <<>>
          /\ Head(todo).register \in DOMAIN reg[caller]
          /\ reg' = [reg EXCEPT ![caller] = Written(@, Head(todo))]
          /\ todo' = Tail(todo)
          /\ UNCHANGED <<boot, chip, port, asked, client, caller, handler,
                         clockCall, again>>
----------------------------------------------------------------------------
\* drv_tmr_mapping.c: the same calls by handle.  DRV_TMR_Open gives the index
\* of an instance as its handle, and 0 when there is no such instance; calls
\* with another handle do nothing.
DRV_TMR_Open(index) == IF index \in Timers THEN index ELSE 0

\* DRV_TMR_Initialize leaves Running as it is: a timer that runs stops counting
\* and is said to run on.
DRV_TMR_Initialize(index) == /\ index \in Timers
                             /\ Call(index, Initialization(index))
                             /\ clockCall' = NotClockSet
                             /\ again' = again \cup {index}

DRV_TMR_Deinitialize(object) == object \in Timers /\ DRV_TMRx_Stop(object)
DRV_TMR_Close(h)             == h \in Timers /\ DRV_TMRx_Stop(h)

DRV_TMR_Start(h) == h \in Timers /\ DRV_TMRx_Start(h)
DRV_TMR_Stop(h)  == h \in Timers /\ DRV_TMRx_Stop(h)

DRV_TMR_CounterValueSet(h, v) == h \in Timers /\ DRV_TMRx_CounterValueSet(h, v)
DRV_TMR_CounterClear(h)       == h \in Timers /\ DRV_TMRx_CounterClear(h)

DRV_TMR_ClockSet(h, s, p) == h \in Timers /\ DRV_TMRx_ClockSet(h, s, p)

\* The queries, of an instance and by handle.  Another handle has a default
\* answer, for the prescaler a number that is none.
DRV_TMRx_ClientStatus(t)    == IF reg[t].Running THEN "RUNNING" ELSE "READY"
DRV_TMRx_CounterValueGet(t) == reg[t].counter
DRV_TMRx_PeriodValueGet(t)  == reg[t].period
DRV_TMRx_PrescalerGet(t)    == reg[t].prescale
DRV_TMRx_CounterFrequencyGet(t) ==
    SYS_CLK_PeripheralFrequencyGet(3) \div reg[t].prescale

DRV_TMRx_DividerRangeGet(t) ==
    IF Instance[t].timer = "TMR1" THEN [mode |-> "16_BIT", min |-> 2, max |-> 65536]
                                  ELSE [mode |-> "32_BIT", min |-> 2, max |-> Top1]

Answer(h, answer(_), default) == IF h \in Timers THEN answer(h) ELSE default

DRV_TMR_ClientStatus(h)    == Answer(h, DRV_TMRx_ClientStatus, "INVALID")
DRV_TMR_CounterValueGet(h) == Answer(h, DRV_TMRx_CounterValueGet, 0)
DRV_TMR_PrescalerGet(h)    == Answer(h, DRV_TMRx_PrescalerGet, -1)
DRV_TMR_CounterFrequencyGet(h) == Answer(h, DRV_TMRx_CounterFrequencyGet, 0)

DRV_TMR_DividerRangeGet(h) == Answer(h, DRV_TMRx_DividerRangeGet, [mode |-> "NONE"])
DRV_TMR_OperationModeGet(h) ==
    IF h = 0 THEN "16_BIT" ELSE IF h = 1 THEN "32_BIT" ELSE "NONE"

TimerCalls(h) ==
    \/ DRV_TMR_Initialize(h) \/ DRV_TMR_Deinitialize(h) \/ DRV_TMR_Close(h)
    \/ \E v \in Counters : DRV_TMR_CounterValueSet(h, v)
    \/ DRV_TMR_CounterClear(h)
    \/ \E v \in Periods : DRV_TMRx_PeriodValueSet(h, v)
    \/ \E s \in Sources, p \in Prescales : DRV_TMR_ClockSet(h, s, p)
    \/ DRV_TMRx_StopInIdleDisable(h) \/ DRV_TMRx_StopInIdleEnable(h)

Client == \/ \E index \in 0 .. 2 : DRV_TMR_Start(DRV_TMR_Open(index))
          \/ \E h \in Timers : DRV_TMR_Stop(h)
          \/ client \in Timers /\ TimerCalls(client)
          \/ client = 2 /\ handler = "none" /\ Services /\ UNCHANGED tmrVars
----------------------------------------------------------------------------
\* The hardware and the interrupt.

Marks(t) == {0, reg[t].period, Instance[t].top}
              \cup {Cut(t, v) : v \in Counters}

\* While the processor waits, the internal clock stops in sleep, and in idle
\* for a timer set to stop there; the others may go on.
Clocked(t) == chip.waiting => /\ chip.onWait = "sleep" => reg[t].source # "internal"
                              /\ chip.onWait = "idle" => ~reg[t].stopInIdle

Count(t) ==
    /\ reg[t].on /\ Clocked(t)
    /\ LET r == reg[t]
           above == {m \in Marks(t) : m > r.counter}
       IN reg' = [reg EXCEPT
                    ![t].counter = IF @ = r.period \/ above = {} THEN 0
                                   ELSE Min(above),
                    ![t].flag = @ \/ r.counter = r.period]
    /\ UNCHANGED <<boardVars, client, caller, handler, clockCall, again>>

Pending == chip.intOn /\ reg[0].ie /\ reg[0].flag /\ Instance[0].served

\* It ends a wait.
IntHandlerDrvTmrInstance0 ==
    /\ Pending /\ handler = "none"
    /\ handler' = "callback"
    /\ chip' = [chip EXCEPT !.waiting = FALSE]
    /\ UNCHANGED <<boot, todo, port, asked, client, reg, caller, clockCall, again>>

\* App_Timer1Callback has returned.
Handler_Returns == /\ handler = "callback"
                   /\ handler' = "clear"
                   /\ UNCHANGED <<boardVars, client, reg, caller, clockCall, again>>

Handler_Clear == /\ handler = "clear"
                 /\ handler' = "none"
                 /\ reg' = [reg EXCEPT ![0].flag = FALSE]
                 /\ UNCHANGED <<boardVars, client, caller, clockCall, again>>

Handler == IntHandlerDrvTmrInstance0 \/ Handler_Returns \/ Handler_Clear

Next == \/ SYS_Initialize \/ Client \/ Call_Step
        \/ \E t \in Timers : Count(t)
        \/ Handler
        \/ OtherInterrupt /\ UNCHANGED tmrVars

\* The processor goes on with what it is doing, a timer that is on with an
\* internal clock counts, and a pending interrupt is taken as soon as it is
\* enabled, however briefly.
Fairness == /\ WF_vars(SYS_Initialize)
            /\ WF_vars(Call_Step) /\ SF_vars(Handler)
            /\ \A t \in Timers : WF_vars(reg[t].source = "internal" /\ Count(t))

Spec == Init /\ [][Next]_vars /\ Fairness
----------------------------------------------------------------------------
\* Between two calls Running says what the hardware does: a running timer
\* counts with its interrupt enabled, a stopped one is still, and no request
\* of its last session is left for the next one (drv_tmr_static.c, Suspend,
\* Resume and Stop).  The one exception is a timer initialised again while it
\* runs, until it is started, stopped or given a clock (DRV_TMR_Initialize).
RunningIsTrue ==
    Idle => \A t \in Timers :
              /\ reg[t].on <=> DRV_TMR_ClientStatus(t) = "RUNNING" /\ t \notin again
              /\ reg[t].ie = reg[t].Running
              /\ ~reg[t].Running => ~reg[t].flag

\* The source, its synchronisation and the prescaler are three writes of
\* DRV_TMRx_ClockSet, and the timer never counts between them: while it is on
\* its clock is the one the call found or the one it leaves.  The timer then
\* runs exactly when it ran before, and the result is true: success when all
\* was set, otherwise the prescaler is as it was, and so is the whole clock of
\* a timer that has a prescaler (drv_tmr_static.c, ClockSet).
ClockSetWhole ==
    clockCall # NotClockSet =>
        LET t == clockCall.t
        IN  /\ reg[t].on => \/ ClockOf(t) = clockCall.before
                            \/ \A n \in 1 .. Len(todo) :
                                 todo[n].register \notin ClockRegisters
            /\ Idle =>
                 /\ reg[t].on = clockCall.ran
                 /\ DRV_TMR_ClientStatus(t) = "RUNNING" <=> clockCall.ran
                 /\ IF clockCall.success
                    THEN /\ DRV_TMR_PrescalerGet(t) = clockCall.prescale
                         /\ reg[t].source = SourceOf(clockCall.source)
                         /\ clockCall.source \in {"otherSync", "async"} => t = 0
                         /\ t = 0 /\ clockCall.source # "internal" =>
                              reg[t].extSync = (clockCall.source # "async")
                    ELSE /\ DRV_TMR_PrescalerGet(t) = clockCall.before.prescale
                         /\ t \in Prescaled => ClockOf(t) = clockCall.before

\* The constants of four files agree: once the clocks are set up the buses
\* run at the frequencies SYS_CLK_PeripheralFrequencyGet reports, so that the
\* tick the application counts its 3 s and its services in is 1 ms, and the
\* captures menu.c converts with TIMER_FREQ are dated at that frequency; the
\* ranges the driver gives its clients are those of the timers.  These are the
\* constants the code uses.  TIMER_FREQ_HZ, which app.c says is the timer base
\* (PBCLK3), is none of them, and contradicts them: it is the frequency of the
\* system clock, and PBCLK3 never has it after the start-up.
TimeBasesAgree ==
    boot = <<>> =>
        /\ \A b \in Buses :
             SYS_CLK_PeripheralFrequencyGet(b) * chip.pbDiv[b] = SYS_CLK_FREQ
        /\ \A t \in Timers :
             reg[t].prescale = 1 =>
                 DRV_TMR_CounterFrequencyGet(t) = SYS_CLK_FREQ \div chip.pbDiv[3]
        /\ client = 2 =>
             LET divider == DRV_TMRx_PeriodValueGet(0) + 1
                 range   == DRV_TMR_DividerRangeGet(0)
             IN /\ DRV_TMR_CounterFrequencyGet(0) \div divider = 1000
                /\ divider \in range.min .. range.max
        /\ reg[1].prescale = 1 => DRV_TMR_CounterFrequencyGet(1) = TIMER_FREQ
        /\ SYS_CLK_FREQ \div chip.pbDiv[3] # TIMER_FREQ_HZ
        /\ \A t \in Timers :
             /\ DRV_TMR_OperationModeGet(t) = DRV_TMR_DividerRangeGet(t).mode
             /\ DRV_TMR_CounterValueGet(t) <= DRV_TMR_DividerRangeGet(t).max
        /\ chip.icTimer = Instance[1].timer

\* The application is never called back for a timer it has stopped.
NoTickWhenStopped ==
    [][handler' = "callback" /\ handler # "callback"
         => reg[0].Running \/ todo # <<>>]_vars

\* While timer 0 runs on the internal clock and its driver is left alone, the
\* ticks go on for ever, although the handler clears with the flag whatever
\* was requested during the callback.
TicksGoOn ==
    <>[](/\ reg[0].Running /\ reg[0].on /\ reg[0].source = "internal"
         /\ caller = 1 \/ todo = <<>>
         /\ ~(chip.waiting /\ chip.onWait = "sleep"))
        => []<>(handler = "callback")
=============================================================================
