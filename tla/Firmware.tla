------------------------------ MODULE Firmware ------------------------------
(***************************************************************************)
(* The application as a whole: the super-loop and its timer interrupt      *)
(* (AppLoop), the button events the interrupt posts and the menu collects  *)
(* (ButtonEvents, which GestBtn implements) and the menu itself (Menu).    *)
(*                                                                         *)
(* One call of Menu_Task is a scan of the two buttons, one step each, then *)
(* the body of the menu with the mask the scan returned, then the return   *)
(* to APP_Tasks.  The interrupt preempts between any two of these steps,   *)
(* and inside the clearing of a flag (Scan_TakeTorn).                      *)
(*                                                                         *)
(* Operators whose name has a suffix after the name of the one that        *)
(* follows them are deliberate faults: they are in no specification.       *)
(***************************************************************************)
EXTENDS AppLoop

CONSTANTS NB_PROFILS, BladesMax, BladesInit, CylMax, CylReset,  \* Menu
          AccPeriod, Rpms

Buttons == {"OK", "SELECT"}

VARIABLES pending, mask
VARIABLES currentMenu, profilIndex, saveIndex, curseurParametre,
          curseurBatterie, selectedProfil, nbBlades, nbCylindres, profils,
          rpm, lastRpm, capture, acc, powered, lcd
VARIABLE  phase     \* where in Menu_Task the super-loop is

Events == INSTANCE ButtonEvents
UI     == INSTANCE Menu

loopVars   == vars          \* of AppLoop
buttonVars == <<pending, mask>>
menuVars   == <<currentMenu, profilIndex, saveIndex, curseurParametre,
                curseurBatterie, selectedProfil, nbBlades, nbCylindres,
                profils, rpm, lastRpm, capture, acc, powered, lcd>>
allVars    == <<loopVars, buttonVars, menuVars, phase>>

Phases == {"outside", "scanOK", "scanSELECT", "body", "return"}

PartsTypeOK == /\ Events!TypeOK
               /\ UI!TypeOK
               /\ phase \in Phases
               /\ phase # "outside" <=> pc = "menu"

AllInit == Init /\ Events!Init /\ UI!Init /\ phase = "outside"
----------------------------------------------------------------------------
\* The Timer1 interrupt: GestBtn_Update, then the rest of the callback.
Tick == /\ App_Timer1Callback
        /\ Events!Post
        /\ UNCHANGED <<menuVars, phase>>

Startup == /\ Init_Peripherals \/ Init_StartTimer \/ Init_Finish
           /\ UNCHANGED <<buttonVars, menuVars, phase>>

\* Menu_Task is called, GestBtn_Scan begins.
Menu_Begin == /\ Service_Begin
              /\ Events!BeginScan
              /\ phase' = "scanOK"
              /\ UNCHANGED menuVars

Scanned == IF phase = "scanOK" THEN "OK" ELSE "SELECT"
AfterScan == IF phase = "scanOK" THEN "scanSELECT" ELSE "body"
Scanning == phase \in {"scanOK", "scanSELECT"}

Scan_Skip == /\ Scanning /\ Scanned \notin pending
             /\ phase' = AfterScan
             /\ UNCHANGED <<loopVars, buttonVars, menuVars>>

Scan_Take_SkipsOther ==
    /\ Scanning
    /\ mask' = mask \cup {Scanned}
    /\ Scanned \in pending
    /\ pending' = pending \ {Scanned}
    /\ phase' = "body"
    /\ UNCHANGED <<loopVars, menuVars>>

Scan_Take == /\ Scanning
             /\ Events!Take(Scanned)
             /\ pending' = pending \ {Scanned}
             /\ phase' = AfterScan
             /\ UNCHANGED <<loopVars, menuVars>>

\* A tick lands while the flag is being cleared.
Scan_TakeTorn == /\ Scanning
                 /\ Events!Take(Scanned)
                 /\ App_Timer1Callback
                 /\ phase' = AfterScan
                 /\ UNCHANGED menuVars

Menu_Body == /\ phase = "body"
             /\ UI!Menu_Task(mask)
             /\ phase' = "return"
             /\ UNCHANGED <<loopVars, buttonVars>>

\* Back in APP_Tasks.
Menu_Return == /\ phase = "return"
               /\ Service_End
               /\ phase' = "outside"
               /\ UNCHANGED <<buttonVars, menuVars>>

SuperLoop == \/ Startup \/ Menu_Begin
             \/ Scan_Skip \/ Scan_Take \/ Menu_Body \/ Menu_Return

AllNext == Tick \/ Scan_TakeTorn \/ SuperLoop

\* The timer keeps ticking once it is on, and the processor executes the
\* super-loop between two interrupts: the interrupts are short, and the busy
\* waits on SPI and I2C inside the menu end (the peripherals answer).
Fairness == WF_allVars(Tick) /\ WF_allVars(SuperLoop \/ Scan_TakeTorn)

SystemSpec == AllInit /\ [][AllNext]_allVars /\ Fairness
----------------------------------------------------------------------------
\* The menu is left alone until the start-up delay is over: it shows the
\* welcome text written by APP_Tasks, with the timer interrupt already posting
\* button events, which wait for the first service.
NothingBeforeService ==
    InitDone = 0 => currentMenu = "WELCOME" /\ mask = {}

\* Although the super-loop overwrites the requests that the interrupt makes
\* during a service, services go on for ever.
ServicesRecur == []<>(phase = "body")

\* Every button event is eventually collected by a scan, whatever ticks
\* preempt the scan and wherever they do.
EventsCollected == \A b \in Buttons : b \in pending ~> b \notin pending
=============================================================================
