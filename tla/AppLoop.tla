------------------------------ MODULE AppLoop ------------------------------
(***************************************************************************)
(* app.c: the super-loop and the Timer1 interrupt that share appData.state.*)
(*                                                                         *)
(* main() calls SYS_Tasks for ever, which calls APP_Tasks: a switch on     *)
(* appData.state.  The 1 ms interrupt calls App_Timer1Callback, which      *)
(* counts the start-up delay, then asks for a service every                *)
(* ServicePeriod + 1 ticks by writing the same variable.  The interrupt    *)
(* runs to completion and can preempt the super-loop between any two of    *)
(* its steps.                                                              *)
(*                                                                         *)
(* History variables: `ticks` counts the ticks since the timer was started *)
(* (saturating), `requested` is TRUE from the moment the interrupt asks    *)
(* for a service until a Menu_Task call begins.                            *)
(*                                                                         *)
(* Operators whose name has a suffix after the name of the one that        *)
(* follows them are deliberate faults: they are in no specification.       *)
(***************************************************************************)
EXTENDS Naturals

CONSTANTS
    WaitInit,        \* WAIT_INIT, the start-up delay in ticks (2999)
    ServicePeriod    \* the 10 of App_Timer1Callback

ASSUME AppLoopAssumption == WaitInit \in Nat /\ ServicePeriod \in Nat

VARIABLES state, pc, timerOn, ready, WaitIteration, InitDone, ticks, requested

mainVars == <<state, pc, timerOn, ready>>
tickVars == <<WaitIteration, InitDone, ticks>>
vars     == <<mainVars, tickVars, requested>>

AppStates == {"INIT", "WAIT", "INIT_WAIT", "SERVICE_TASKS"}

\* Where the super-loop is: at the switch, in the initialisation before and
\* after the timer is started, or inside Menu_Task.
Places == {"switch", "startTimer", "finishInit", "menu"}

TickCap == WaitInit + 2
WaitCap == IF WaitInit + 1 > ServicePeriod THEN WaitInit + 1 ELSE ServicePeriod

TypeOK == /\ state \in AppStates
          /\ pc \in Places
          /\ timerOn \in BOOLEAN
          /\ ready \in BOOLEAN
          /\ WaitIteration \in 0 .. WaitCap
          /\ InitDone \in {0, 1}
          /\ ticks \in 0 .. TickCap
          /\ requested \in BOOLEAN

Init == /\ state = "INIT"           \* APP_Initialize
        /\ pc = "switch"
        /\ timerOn = FALSE
        /\ ready = FALSE            \* profiles, SPI, LCD and buttons are set up
        /\ WaitIteration = 0
        /\ InitDone = 0
        /\ ticks = 0
        /\ requested = FALSE
----------------------------------------------------------------------------
\* The interrupt: App_Timer1Callback (without GestBtn_Update, see Firmware).

Ticked == ticks' = IF ticks < TickCap THEN ticks + 1 ELSE TickCap

\* Still in the start-up delay.
CountingInit_OneShort == WaitIteration < WaitInit /\ InitDone = 0
CountingInit == WaitIteration <= WaitInit /\ InitDone = 0

Tick_CountInit ==
    /\ CountingInit
    /\ WaitIteration' = WaitIteration + 1
    /\ UNCHANGED <<state, InitDone, requested>>

\* The delay has passed and the initialisation waits for it: first service.
Tick_EndInit ==
    /\ ~CountingInit
    /\ state = "INIT_WAIT"
    /\ state' = "SERVICE_TASKS"
    /\ InitDone' = 1
    /\ WaitIteration' = 0
    /\ requested' = TRUE

\* Periodic request.
Tick_Request_NoReset ==
    /\ ~CountingInit
    /\ state # "INIT_WAIT"
    /\ WaitIteration >= ServicePeriod
    /\ WaitIteration' = WaitIteration + 1
    /\ state' = "SERVICE_TASKS"
    /\ requested' = TRUE
    /\ UNCHANGED InitDone

Tick_Request ==
    /\ ~CountingInit
    /\ state # "INIT_WAIT"
    /\ WaitIteration >= ServicePeriod
    /\ WaitIteration' = 0
    /\ state' = "SERVICE_TASKS"
    /\ requested' = TRUE
    /\ UNCHANGED InitDone

Tick_Count_Never ==
    /\ ~CountingInit
    /\ state # "INIT_WAIT"
    /\ WaitIteration < ServicePeriod
    /\ UNCHANGED <<state, WaitIteration, InitDone, requested>>

Tick_Count ==
    /\ ~CountingInit
    /\ state # "INIT_WAIT"
    /\ WaitIteration < ServicePeriod
    /\ WaitIteration' = WaitIteration + 1
    /\ UNCHANGED <<state, InitDone, requested>>

App_Timer1Callback ==
    /\ timerOn
    /\ Tick_CountInit \/ Tick_EndInit \/ Tick_Request \/ Tick_Count
    /\ Ticked
    /\ UNCHANGED <<pc, timerOn, ready>>
----------------------------------------------------------------------------
\* The super-loop: APP_Tasks.  APP_STATE_WAIT and APP_STATE_INIT_WAIT do
\* nothing and are left out.

\* APP_STATE_INIT up to GestBtn_Init and the first LCD text.
Init_Peripherals ==
    /\ pc = "switch"
    /\ state = "INIT"
    /\ ready' = TRUE
    /\ pc' = "startTimer"
    /\ UNCHANGED <<state, timerOn, tickVars, requested>>

Init_StartTimer ==      \* DRV_TMR0_Start
    /\ pc = "startTimer"
    /\ timerOn' = TRUE
    /\ pc' = "finishInit"
    /\ UNCHANGED <<state, ready, tickVars, requested>>

Init_Finish_KeepsRequest ==
    /\ pc = "finishInit"
    /\ state' = IF state = "INIT" THEN "INIT_WAIT" ELSE state
    /\ pc' = "switch"
    /\ UNCHANGED <<timerOn, ready, tickVars, requested>>

Init_Finish ==          \* the potentiometers, then APP_STATE_INIT_WAIT
    /\ pc = "finishInit"
    /\ state' = "INIT_WAIT"
    /\ pc' = "switch"
    /\ UNCHANGED <<timerOn, ready, tickVars, requested>>

\* APP_STATE_SERVICE_TASKS: Menu_Task is called ...
Service_Begin ==
    /\ pc = "switch"
    /\ state = "SERVICE_TASKS"
    /\ pc' = "menu"
    /\ requested' = FALSE
    /\ UNCHANGED <<state, timerOn, ready, tickVars>>

\* ... and once it has returned the state becomes APP_STATE_WAIT, whatever
\* the interrupt wrote meanwhile.
Service_End ==
    /\ pc = "menu"
    /\ state' = "WAIT"
    /\ pc' = "switch"
    /\ UNCHANGED <<timerOn, ready, tickVars, requested>>

APP_Tasks == \/ Init_Peripherals \/ Init_StartTimer \/ Init_Finish
             \/ Service_Begin \/ Service_End

Next == App_Timer1Callback \/ APP_Tasks

Spec == Init /\ [][Next]_vars
----------------------------------------------------------------------------
\* The timer starts only when everything its interrupt and the menu use has
\* been set up, and Menu_Task never runs before the start-up delay of
\* App_Timer1Callback has been counted in full, however long the rest of the
\* initialisation takes and however many times the delay expires during it.
ServiceAfterWait ==
    /\ timerOn => ready
    /\ pc = "menu" => timerOn /\ InitDone = 1 /\ ticks = TickCap

\* The comments of App_Timer1Callback (app.c lines 98 to 136): from then on
\* the interrupt asks for the service tasks periodically.  No request is
\* dropped: when the state says WAIT, every request has been served.
RequestsAreServed == state = "WAIT" => ~requested
=============================================================================
