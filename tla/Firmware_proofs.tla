-------------------------- MODULE Firmware_proofs --------------------------
(***************************************************************************)
(* Theorems about the loop of AppLoop, and about the application as a      *)
(* whole: it runs that loop, so the theorems about the loop hold of it,    *)
(* and its menu is left alone until the start-up delay is over, for every  *)
(* delay, period and setting.                                              *)
(***************************************************************************)
EXTENDS Firmware, TLAPS

----------------------------------------------------------------------------
\* The loop.

\* Before the timer is started nothing has been counted or requested.
BeforeTimer ==
    ~timerOn => /\ pc \in {"switch", "startTimer"}
                /\ state = "INIT"
                /\ InitDone = 0
                /\ WaitIteration = 0

\* Until the first service the super-loop is in the initialisation or waits
\* in INIT_WAIT.  The interrupt may ask for a service before that (a delay
\* that expires during the initialisation), but Init_Finish overwrites it.
BeforeService ==
    /\ timerOn /\ InitDone = 0 =>
           \/ pc = "finishInit" /\ state \in {"INIT", "SERVICE_TASKS"}
           \/ pc = "switch" /\ state = "INIT_WAIT"
    /\ InitDone = 1 =>
           pc \in {"switch", "menu"} /\ state \in {"WAIT", "SERVICE_TASKS"}

\* The start-up delay never counts more than the ticks there have been.
CountedTicks ==
    /\ InitDone = 0 => WaitIteration <= ticks \/ ticks = TickCap
    /\ InitDone = 1 => ticks = TickCap

ReadyFirst ==
    /\ timerOn => ready
    /\ pc = "startTimer" => ready

IInv == /\ TypeOK
        /\ BeforeTimer
        /\ BeforeService
        /\ CountedTicks
        /\ ReadyFirst

LEMMA InitIInv == Init => IInv
<1> SUFFICES ASSUME Init PROVE IInv
  OBVIOUS
<1> USE AppLoopAssumption DEF Init
<1>1. TypeOK
  <2>1. TickCap \in Nat /\ WaitCap \in Nat
    BY DEF TickCap, WaitCap
  <2>2. 0 \in 0 .. TickCap /\ 0 \in 0 .. WaitCap
    BY <2>1
  <2> QED BY <2>2 DEF TypeOK, AppStates, Places
<1>2. BeforeTimer /\ BeforeService /\ ReadyFirst
  BY DEF BeforeTimer, BeforeService, ReadyFirst
<1>3. CountedTicks
  BY DEF CountedTicks
<1> QED BY <1>1, <1>2, <1>3 DEF IInv

\* A tick counts itself, saturating.
LEMMA TickCounts ==
    ASSUME TypeOK, Ticked
    PROVE  /\ ticks' \in 0 .. TickCap
           /\ ticks' = ticks + 1 \/ (ticks' = TickCap /\ ticks = TickCap)
<1> QED BY AppLoopAssumption DEF TypeOK, Ticked, TickCap

LEMMA TickStep == ASSUME IInv, App_Timer1Callback PROVE IInv'
<1> USE AppLoopAssumption
<1>1. /\ timerOn /\ Ticked
      /\ pc' = pc /\ timerOn' = timerOn /\ ready' = ready
  BY DEF App_Timer1Callback
<1>2. /\ ticks' \in 0 .. TickCap
      /\ ticks' = ticks + 1 \/ (ticks' = TickCap /\ ticks = TickCap)
  BY <1>1, TickCounts DEF IInv
<1>3. ReadyFirst' /\ BeforeTimer'
  BY <1>1 DEF IInv, ReadyFirst, BeforeTimer
<1>4. /\ WaitIteration \in 0 .. WaitCap /\ ticks \in 0 .. TickCap
      /\ WaitIteration \in Nat /\ ticks \in Nat
      /\ InitDone \in {0, 1}
  BY DEF IInv, TypeOK, WaitCap, TickCap
<1>5. /\ WaitInit + 1 <= WaitCap /\ ServicePeriod <= WaitCap /\ WaitCap \in Nat
      /\ TickCap = WaitInit + 2
  BY DEF WaitCap, TickCap
<1>6. CASE Tick_CountInit
  <2>1. WaitIteration' \in 0 .. WaitCap
    BY <1>4, <1>5, <1>6 DEF Tick_CountInit, CountingInit
  <2>2. TypeOK'
    BY <1>1, <1>2, <2>1, <1>6 DEF Tick_CountInit, CountingInit, IInv, TypeOK, TickCap, WaitCap
  <2>3. CountedTicks'
    BY <1>2, <1>4, <1>5, <1>6 DEF Tick_CountInit, CountingInit, IInv, CountedTicks, TickCap
  <2>4. BeforeService'
    BY <1>1, <1>6 DEF Tick_CountInit, CountingInit, IInv, BeforeService
  <2> QED BY <2>2, <2>3, <2>4, <1>3 DEF IInv
<1>7. CASE Tick_EndInit
  <2>1. TypeOK'
    BY <1>1, <1>2, <1>4, <1>5, <1>7
       DEF Tick_EndInit, IInv, TypeOK, TickCap, WaitCap, AppStates
  <2>2. InitDone = 0 /\ pc = "switch"
    BY <1>1, <1>4, <1>7 DEF Tick_EndInit, IInv, BeforeService
  <2>3. WaitIteration > WaitInit
    BY <1>4, <1>7, <2>2 DEF Tick_EndInit, CountingInit
  <2>4. ticks' = TickCap
    BY <1>2, <1>4, <1>5, <2>2, <2>3 DEF IInv, CountedTicks
  <2>5. CountedTicks'
    BY <2>4, <1>7 DEF Tick_EndInit, CountedTicks, TickCap
  <2>6. BeforeService'
    BY <1>1, <1>7, <2>2 DEF Tick_EndInit, BeforeService
  <2> QED BY <2>1, <2>5, <2>6, <1>3 DEF IInv
<1>8. CASE Tick_Request
  <2>1. TypeOK'
    BY <1>1, <1>2, <1>4, <1>5, <1>8
       DEF Tick_Request, IInv, TypeOK, TickCap, WaitCap, AppStates
  <2>2. CountedTicks'
    BY <1>2, <1>4, <1>5, <1>8 DEF Tick_Request, IInv, CountedTicks, TickCap
  <2>3. BeforeService'
    BY <1>1, <1>8 DEF Tick_Request, IInv, BeforeService
  <2> QED BY <2>1, <2>2, <2>3, <1>3 DEF IInv
<1>9. CASE Tick_Count
  <2>1. WaitIteration' \in 0 .. WaitCap
    BY <1>4, <1>5, <1>9 DEF Tick_Count
  <2>2. TypeOK'
    BY <1>1, <1>2, <2>1, <1>9 DEF Tick_Count, IInv, TypeOK, TickCap, WaitCap
  <2>3. CountedTicks'
    BY <1>2, <1>4, <1>5, <1>9 DEF Tick_Count, IInv, CountedTicks, TickCap
  <2>4. BeforeService'
    BY <1>1, <1>9 DEF Tick_Count, IInv, BeforeService
  <2> QED BY <2>2, <2>3, <2>4, <1>3 DEF IInv
<1> QED BY <1>6, <1>7, <1>8, <1>9 DEF App_Timer1Callback

LEMMA MainStep == ASSUME IInv, APP_Tasks PROVE IInv'
<1> USE AppLoopAssumption DEF tickVars, TickCap, WaitCap
<1>1. APP_Tasks => UNCHANGED tickVars
  BY DEF APP_Tasks, Init_Peripherals, Init_StartTimer, Init_Finish,
         Service_Begin, Service_End
<1>2. TypeOK'
  BY <1>1 DEF IInv, TypeOK, AppStates, Places, APP_Tasks, Init_Peripherals,
              Init_StartTimer, Init_Finish, Service_Begin, Service_End
<1>3. CountedTicks'
  BY <1>1 DEF IInv, CountedTicks
<1>4. BeforeTimer' /\ BeforeService' /\ ReadyFirst'
  <2> USE DEF IInv, TypeOK, BeforeTimer, BeforeService, ReadyFirst
  <2>1. CASE Init_Peripherals
    BY <2>1 DEF Init_Peripherals
  <2>2. CASE Init_StartTimer
    BY <2>2 DEF Init_StartTimer
  <2>3. CASE Init_Finish
    BY <2>3 DEF Init_Finish
  <2>4. CASE Service_Begin
    BY <2>4 DEF Service_Begin
  <2>5. CASE Service_End
    BY <2>5 DEF Service_End
  <2> QED BY <2>1, <2>2, <2>3, <2>4, <2>5 DEF APP_Tasks
<1> QED BY <1>2, <1>3, <1>4 DEF IInv

LEMMA StepIInv == IInv /\ [Next]_vars => IInv'
<1> SUFFICES ASSUME IInv, [Next]_vars PROVE IInv'
  OBVIOUS
<1>1. CASE UNCHANGED vars
  BY <1>1 DEF vars, mainVars, tickVars, IInv, TypeOK, BeforeTimer,
              BeforeService, CountedTicks, ReadyFirst, TickCap, WaitCap
<1> QED BY <1>1, TickStep, MainStep DEF Next

THEOREM Invariance == Spec => []IInv
<1> QED BY InitIInv, StepIInv, PTL DEF Spec

\* The variables of app.c that the super-loop and the interrupt share stay in
\* their ranges; WaitIteration, a 16-bit counter, does not run away.
THEOREM TypeCorrect == Spec => []TypeOK
<1>1. IInv => TypeOK
  BY DEF IInv
<1> QED BY <1>1, Invariance, PTL

\* Menu_Task never runs before App_Timer1Callback has counted the start-up
\* delay, however long the initialisation takes (app.c lines 115 to 142).
THEOREM NoServiceBeforeWait == Spec => []ServiceAfterWait
<1>1. IInv => ServiceAfterWait
  BY DEF IInv, TypeOK, BeforeTimer, BeforeService, CountedTicks, ReadyFirst,
         ServiceAfterWait
<1> QED BY <1>1, Invariance, PTL
----------------------------------------------------------------------------
\* The application.

\* The program is inside Menu_Task exactly while the loop is in the menu.
PhaseInMenu == phase \in Phases /\ (phase # "outside" <=> pc = "menu")

SystemInv == IInv /\ PhaseInMenu /\ NothingBeforeService

\* Each step of the application is one of the loop or leaves it as it is.
LEMMA LoopStep == ASSUME [AllNext]_allVars PROVE [Next]_vars
<1>1. CASE UNCHANGED allVars
  BY <1>1 DEF allVars, loopVars
<1>2. CASE Tick
  BY <1>2 DEF Tick, Next
<1>3. CASE Scan_TakeTorn
  BY <1>3 DEF Scan_TakeTorn, Next
<1>4. CASE SuperLoop
  <2>1. CASE Startup
    BY <2>1 DEF Startup, Next, APP_Tasks
  <2>2. CASE Menu_Begin
    BY <2>2 DEF Menu_Begin, Next, APP_Tasks
  <2>3. CASE Scan_Skip \/ Scan_Take \/ Menu_Body
    BY <2>3 DEF Scan_Skip, Scan_Take, Menu_Body, loopVars
  <2>4. CASE Menu_Return
    BY <2>4 DEF Menu_Return, Next, APP_Tasks
  <2> QED BY <1>4, <2>1, <2>2, <2>3, <2>4 DEF SuperLoop
<1> QED BY <1>1, <1>2, <1>3, <1>4 DEF AllNext

\* The interrupt does not move the super-loop.
LEMMA TickInLoop == App_Timer1Callback => UNCHANGED pc
<1> QED BY DEF App_Timer1Callback

LEMMA PhaseStep == ASSUME PhaseInMenu, [AllNext]_allVars PROVE PhaseInMenu'
<1> USE DEF PhaseInMenu, Phases
<1>1. CASE UNCHANGED allVars
  BY <1>1 DEF allVars, loopVars, vars, mainVars
<1>2. CASE Tick
  BY <1>2, TickInLoop DEF Tick
<1>3. CASE Scan_TakeTorn \/ Scan_Skip \/ Scan_Take
  <2>1. UNCHANGED pc
    BY <1>3, TickInLoop
       DEF Scan_TakeTorn, Scan_Skip, Scan_Take, loopVars, vars, mainVars
  <2>2. phase \in {"scanOK", "scanSELECT"} /\ phase' \in {"scanSELECT", "body"}
    BY <1>3 DEF Scan_TakeTorn, Scan_Skip, Scan_Take, Scanning, AfterScan
  <2> QED BY <2>1, <2>2
<1>4. CASE Startup
  BY <1>4 DEF Startup, Init_Peripherals, Init_StartTimer, Init_Finish
<1>5. CASE Menu_Begin
  BY <1>5 DEF Menu_Begin, Service_Begin
<1>6. CASE Menu_Body
  BY <1>6 DEF Menu_Body, loopVars, vars, mainVars
<1>7. CASE Menu_Return
  BY <1>7 DEF Menu_Return, Service_End
<1> QED BY <1>1, <1>2, <1>3, <1>4, <1>5, <1>6, <1>7 DEF AllNext, SuperLoop

\* The start-up delay, once over, stays over.
LEMMA DelayOver ==
    ASSUME IInv, [Next]_vars, InitDone' = 0 PROVE InitDone = 0
<1>1. InitDone \in {0, 1}
  BY DEF IInv, TypeOK
<1> QED BY <1>1 DEF Next, App_Timer1Callback, Tick_CountInit, Tick_EndInit,
             Tick_Request, Tick_Count, APP_Tasks, Init_Peripherals,
             Init_StartTimer, Init_Finish, Service_Begin, Service_End,
             vars, tickVars

\* During the delay no service runs, and only a service touches the menu and
\* the mask of the scan.
LEMMA BeforeServiceStep ==
    ASSUME SystemInv, [AllNext]_allVars PROVE NothingBeforeService'
<1> SUFFICES ASSUME InitDone' = 0
             PROVE  currentMenu' = "WELCOME" /\ mask' = {}
  BY DEF NothingBeforeService
<1>1. InitDone = 0
  BY LoopStep, DelayOver DEF SystemInv
<1>2. currentMenu = "WELCOME" /\ mask = {}
  BY <1>1 DEF SystemInv, NothingBeforeService
<1>3. phase = "outside"
  <2>1. pc # "menu"
    BY <1>1 DEF SystemInv, IInv, TypeOK, BeforeTimer, BeforeService
  <2> QED BY <2>1 DEF SystemInv, PhaseInMenu
<1>4. CASE UNCHANGED allVars
  BY <1>2, <1>4 DEF allVars, buttonVars, menuVars
<1>5. CASE Tick
  BY <1>2, <1>5 DEF Tick, Events!Post, menuVars
<1>6. CASE Startup
  BY <1>2, <1>6 DEF Startup, buttonVars, menuVars
<1>7. CASE Menu_Begin
  BY <1>2, <1>7 DEF Menu_Begin, Events!BeginScan, menuVars
<1>8. CASE Scan_TakeTorn \/ Scan_Skip \/ Scan_Take \/ Menu_Body \/ Menu_Return
  BY <1>3, <1>8 DEF Scan_TakeTorn, Scan_Skip, Scan_Take, Scanning, Menu_Body, Menu_Return
<1> QED BY <1>4, <1>5, <1>6, <1>7, <1>8 DEF AllNext, SuperLoop

LEMMA InitSystemInv == AllInit => SystemInv
<1> SUFFICES ASSUME AllInit PROVE SystemInv
  OBVIOUS
<1>1. IInv
  BY InitIInv DEF AllInit
<1>2. PhaseInMenu
  BY DEF AllInit, PhaseInMenu, Phases, Init
<1>3. NothingBeforeService
  BY DEF AllInit, NothingBeforeService, UI!Init, Events!Init
<1> QED BY <1>1, <1>2, <1>3 DEF SystemInv

LEMMA StepSystemInv == SystemInv /\ [AllNext]_allVars => SystemInv'
<1> SUFFICES ASSUME SystemInv, [AllNext]_allVars PROVE SystemInv'
  OBVIOUS
<1>1. IInv'
  BY LoopStep, StepIInv DEF SystemInv
<1>2. PhaseInMenu'
  BY PhaseStep DEF SystemInv
<1>3. NothingBeforeService'
  BY BeforeServiceStep
<1> QED BY <1>1, <1>2, <1>3 DEF SystemInv

THEOREM SystemInvariance == SystemSpec => []SystemInv
<1> QED BY InitSystemInv, StepSystemInv, PTL DEF SystemSpec

\* The application implements its loop: scanning and running the menu are
\* steps that app.c's state machine does not see, and each tick, also one
\* that tears a scan, is one of App_Timer1Callback.
THEOREM ImplementsLoop == SystemSpec => Spec
<1>1. AllInit => Init
  BY DEF AllInit
<1>2. [AllNext]_allVars => [Next]_vars
  BY LoopStep
<1> QED BY <1>1, <1>2, PTL DEF SystemSpec, Spec

\* In the application too the variables that the super-loop and the interrupt
\* share stay in their ranges.
THEOREM SystemTypeCorrect == SystemSpec => []TypeOK
<1> QED BY ImplementsLoop, TypeCorrect, PTL

\* In the application too Menu_Task never runs before the start-up delay has
\* been counted in full and everything it uses is set up.
THEOREM SystemServiceAfterWait == SystemSpec => []ServiceAfterWait
<1> QED BY ImplementsLoop, NoServiceBeforeWait, PTL

\* The welcome text stays, and no button event is collected, until the
\* start-up delay is over (APP_Tasks and Menu_Task).
THEOREM MenuLeftAlone == SystemSpec => []NothingBeforeService
<1>1. SystemInv => NothingBeforeService
  BY DEF SystemInv
<1> QED BY <1>1, SystemInvariance, PTL
=============================================================================
