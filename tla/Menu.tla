-------------------------------- MODULE Menu --------------------------------
(***************************************************************************)
(* menu.c: the user interface, one call of Menu_Task per service, and the  *)
(* RAM side of ProfilStorage.c it works on.                                *)
(*                                                                         *)
(* A service is atomic here: the interrupts share only the button flags    *)
(* (GestBtn) and the capture buffer (RpmCapture) with it, and those        *)
(* modules take its steps apart.  `btn` is the set of buttons GestBtn_Scan *)
(* returned.  The screen is the tuple of what is written on it (Screen),   *)
(* not its characters.                                                     *)
(*                                                                         *)
(* Operators whose name has a suffix after the name of the one that        *)
(* follows them are deliberate faults: they are in no specification.       *)
(***************************************************************************)
EXTENDS Naturals, Sequences

CONSTANTS
    NB_PROFILS,    \* slots in profils (4)
    BladesMax,     \* 1 .. BladesMax blades can be set (4) ...
    BladesInit,    \* ... starting from this many (2)
    CylMax,        \* cylinders go up to CylMax (7) ...
    CylReset,      \* ... and start again at CylReset (4)
    AccPeriod,     \* the accelerometer is read every AccPeriod services (50)
    Rpms           \* the speeds the measure can give

ASSUME MenuAssumption ==
    /\ NB_PROFILS \in Nat \ {0}
    /\ BladesMax \in Nat \ {0}
    /\ BladesInit \in 1 .. BladesMax
    /\ CylMax \in Nat
    /\ CylReset \in 0 .. CylMax
    /\ AccPeriod \in Nat \ {0}
    /\ 0 \in Rpms

VARIABLES
    currentMenu,
    profilIndex, saveIndex, curseurParametre, curseurBatterie,
    selectedProfil, nbBlades, nbCylindres,
    profils,       \* ProfilStorage.c: the profiles in RAM
    rpm, lastRpm,
    capture,       \* captureStarted, appData.rpmCaptureActive, IC3, Timer2
    acc,           \* accInitDone, accTick
    powered,       \* the backlight and the regulator are on
    lcd            \* what the screen shows

cursors  == <<profilIndex, saveIndex, curseurParametre, curseurBatterie>>
settings == <<selectedProfil, nbBlades, nbCylindres, profils>>
measure  == <<rpm, lastRpm, capture>>
vars     == <<currentMenu, cursors, settings, measure, acc, powered, lcd>>

Menus == {"WELCOME", "BATTERIE", "PARAMETRE", "CHOIX_PROFIL", "SAUVEGARDE",
          "CONF_NB_pale", "CONF_NB_CYLINDRE",
          "MESURE_VISUEL", "MESURE_AUDIO", "MESURE_VIBRATION"}

Slots   == 0 .. NB_PROFILS - 1
Nouveau == NB_PROFILS                \* the last entry of the profile list
Bit     == {0, 1}

Profil == [nbBlades : 0 .. BladesMax, nbCylindres : 0 .. CylMax, valid : Bit]

Capture == [started : Bit, active : Bit, ic : Bit, tmr : Bit]
Stopped == [started |-> 0, active |-> 0, ic |-> 0, tmr |-> 0]
Running == [started |-> 1, active |-> 1, ic |-> 1, tmr |-> 1]

IsValid(i) == profils[i].valid = 1

TypeOK == /\ currentMenu \in Menus
          /\ profilIndex \in Slots \cup {Nouveau}
          /\ saveIndex \in Slots
          /\ curseurParametre \in Bit
          /\ curseurBatterie \in Bit
          /\ selectedProfil \in Slots
          /\ nbBlades \in 1 .. BladesMax
          /\ nbCylindres \in 0 .. CylMax
          /\ profils \in [Slots -> Profil]
          /\ \A i \in Slots : IsValid(i) => profils[i].nbBlades # 0
          /\ rpm \in Rpms
          /\ lastRpm \in Rpms
          /\ capture \in Capture
          /\ acc \in [init : Bit, tick : 0 .. AccPeriod - 1]
          /\ powered \in BOOLEAN

Init == /\ currentMenu = "WELCOME"
        /\ profilIndex = 0
        /\ saveIndex = 0
        /\ curseurParametre = 0
        /\ curseurBatterie = 0
        /\ selectedProfil = 0
        /\ nbBlades = BladesInit
        /\ nbCylindres = 0
        /\ profils = [i \in Slots |->
                        [nbBlades |-> 0, nbCylindres |-> 0, valid |-> 0]]
        /\ rpm = 0
        /\ lastRpm = 0
        /\ capture = Stopped
        /\ acc = [init |-> 0, tick |-> 0]
        /\ powered = TRUE
        /\ lcd = <<"WELCOME">>      \* written by APP_Tasks
----------------------------------------------------------------------------
\* Menu_Display: what the current menu writes on the screen.
Screen ==
    CASE currentMenu = "BATTERIE"         -> <<currentMenu, curseurBatterie>>
      [] currentMenu = "PARAMETRE"        -> <<currentMenu, curseurParametre>>
      [] currentMenu = "CHOIX_PROFIL"     -> <<currentMenu, profilIndex>>
      [] currentMenu = "SAUVEGARDE"       -> <<currentMenu, saveIndex>>
      [] currentMenu = "CONF_NB_pale"     -> <<currentMenu, nbBlades>>
      [] currentMenu = "CONF_NB_CYLINDRE" -> <<currentMenu, nbCylindres>>
      [] currentMenu = "MESURE_VISUEL"    ->
            <<currentMenu, rpm, selectedProfil>> \o
            (IF IsValid(selectedProfil)
             THEN <<profils[selectedProfil].nbBlades,
                    profils[selectedProfil].nbCylindres>>
             ELSE <<>>)
      [] OTHER -> <<currentMenu>>

\* What a service in SAUVEGARDE writes over it before it looks at the buttons.
SaveScreen == <<"SAUVEGARDE", saveIndex, nbBlades, nbCylindres>>

\* RefreshNeeded was set: the service ends with Menu_Display.
Refreshed == lcd' = Screen'

Select(btn) == "SELECT" \in btn
Ok(btn)     == "OK" \in btn /\ ~Select(btn)
----------------------------------------------------------------------------
\* One action per case of the switch in Menu_Task; a service that changes
\* nothing is Idle.

Idle(btn) ==
    /\ \/ currentMenu \in {"BATTERIE", "PARAMETRE", "CHOIX_PROFIL",
                           "CONF_NB_pale", "CONF_NB_CYLINDRE"} /\ btn = {}
       \/ currentMenu = "MESURE_AUDIO" /\ ~Select(btn)
    /\ UNCHANGED vars

Welcome ==
    /\ currentMenu = "WELCOME"
    /\ currentMenu' = "CHOIX_PROFIL"
    /\ UNCHANGED <<cursors, settings, measure, acc, powered>>
    /\ Refreshed

Batterie_Select(btn) ==
    /\ currentMenu = "BATTERIE" /\ Select(btn)
    /\ curseurBatterie' = 1 - curseurBatterie
    /\ UNCHANGED <<currentMenu, profilIndex, saveIndex, curseurParametre,
                   settings, measure, acc, powered>>
    /\ Refreshed

Batterie_Ok(btn) ==
    /\ currentMenu = "BATTERIE" /\ Ok(btn)
    /\ IF curseurBatterie = 0
       THEN currentMenu' = "PARAMETRE" /\ curseurParametre' = 0
       ELSE currentMenu' = "CHOIX_PROFIL" /\ UNCHANGED curseurParametre
    /\ UNCHANGED <<profilIndex, saveIndex, curseurBatterie,
                   settings, measure, acc, powered>>
    /\ Refreshed

Parametre_Select(btn) ==
    /\ currentMenu = "PARAMETRE" /\ Select(btn)
    /\ IF curseurParametre = 0
       THEN curseurParametre' = 1 /\ UNCHANGED currentMenu
       ELSE currentMenu' = "MESURE_VISUEL" /\ UNCHANGED curseurParametre
    /\ UNCHANGED <<profilIndex, saveIndex, curseurBatterie,
                   settings, measure, acc, powered>>
    /\ Refreshed

\* "Eteindre" turns the backlight and the regulator off and stays there.
Parametre_Ok(btn) ==
    /\ currentMenu = "PARAMETRE" /\ Ok(btn)
    /\ IF curseurParametre = 0
       THEN currentMenu' = "BATTERIE" /\ UNCHANGED powered
       ELSE powered' = FALSE /\ UNCHANGED currentMenu
    /\ UNCHANGED <<cursors, settings, measure, acc>>
    /\ Refreshed

Choix_Select(btn) ==
    /\ currentMenu = "CHOIX_PROFIL" /\ Select(btn)
    /\ profilIndex' = (profilIndex + 1) % (NB_PROFILS + 1)
    /\ UNCHANGED <<currentMenu, saveIndex, curseurParametre, curseurBatterie,
                   settings, measure, acc, powered>>
    /\ Refreshed

FreeSlots == {i \in Slots : ~IsValid(i)}

\* The slot "Nouveau" takes: the first free one, or slot 0 when all are taken.
NewSlot_Overwrites(i) == i = 0
NewSlot(i) == IF FreeSlots = {} THEN i = 0
              ELSE i \in FreeSlots /\ \A j \in FreeSlots : i <= j

Choix_Nouveau(btn) ==
    /\ currentMenu = "CHOIX_PROFIL" /\ Ok(btn) /\ profilIndex = Nouveau
    /\ \E i \in Slots : NewSlot(i) /\ selectedProfil' = i
    /\ currentMenu' = "CONF_NB_pale"
    /\ UNCHANGED <<cursors, nbBlades, nbCylindres, profils,
                   measure, acc, powered>>
    /\ Refreshed

\* The settings of a valid profile become the current ones.
Loaded_BladesOnly(i) ==
    /\ nbBlades' = IF IsValid(i) THEN profils[i].nbBlades ELSE nbBlades
    /\ UNCHANGED nbCylindres

Loaded(i) ==
    /\ nbBlades' = IF IsValid(i) THEN profils[i].nbBlades ELSE nbBlades
    /\ nbCylindres' = IF IsValid(i) THEN profils[i].nbCylindres ELSE nbCylindres

Choix_Profil(btn) ==
    /\ currentMenu = "CHOIX_PROFIL" /\ Ok(btn) /\ profilIndex # Nouveau
    /\ selectedProfil' = profilIndex
    /\ Loaded(profilIndex)
    /\ currentMenu' = "MESURE_VISUEL"
    /\ UNCHANGED <<cursors, profils, measure, acc, powered>>
    /\ Refreshed

Sauvegarde_Idle(btn) ==
    /\ currentMenu = "SAUVEGARDE" /\ btn = {}
    /\ lcd' = SaveScreen
    /\ UNCHANGED <<currentMenu, cursors, settings, measure, acc, powered>>

Sauvegarde_Select(btn) ==
    /\ currentMenu = "SAUVEGARDE" /\ Select(btn)
    /\ saveIndex' = (saveIndex + 1) % NB_PROFILS
    /\ UNCHANGED <<currentMenu, profilIndex, curseurParametre,
                   curseurBatterie, settings, measure, acc, powered>>
    /\ Refreshed

\* Profils_SaveToNVM as far as the RAM goes: the driver refuses the addresses
\* it is given, so neither the load before nor the writes after have effect.
Profils_SaveToNVM(i, blades, cyl) ==
    profils' = [profils EXCEPT ![i] =
                  [nbBlades |-> blades, nbCylindres |-> cyl, valid |-> 1]]

Sauvegarde_Ok(btn) ==
    /\ currentMenu = "SAUVEGARDE" /\ Ok(btn)
    /\ Profils_SaveToNVM(saveIndex, nbBlades, nbCylindres)
    /\ selectedProfil' = saveIndex
    /\ currentMenu' = "MESURE_VISUEL"
    /\ UNCHANGED <<cursors, nbBlades, nbCylindres, measure, acc, powered>>
    /\ Refreshed

ConfPale_Select_NoRefresh(btn) ==
    /\ currentMenu = "CONF_NB_pale" /\ Select(btn)
    /\ nbBlades' = (nbBlades % BladesMax) + 1
    /\ UNCHANGED <<currentMenu, cursors, selectedProfil, nbCylindres, profils,
                   measure, acc, powered, lcd>>

ConfPale_Select(btn) ==
    /\ currentMenu = "CONF_NB_pale" /\ Select(btn)
    /\ nbBlades' = (nbBlades % BladesMax) + 1
    /\ UNCHANGED <<currentMenu, cursors, selectedProfil, nbCylindres, profils,
                   measure, acc, powered>>
    /\ Refreshed

ConfPale_Ok(btn) ==
    /\ currentMenu = "CONF_NB_pale" /\ Ok(btn)
    /\ currentMenu' = "CONF_NB_CYLINDRE"
    /\ UNCHANGED <<cursors, settings, measure, acc, powered>>
    /\ Refreshed

\* The count after one more cylinder.
NextCylindres_OffByOne(n) == IF n > CylMax THEN CylReset ELSE n + 1
NextCylindres(n) == IF n + 1 > CylMax THEN CylReset ELSE n + 1

ConfCylindre_Select(btn) ==
    /\ currentMenu = "CONF_NB_CYLINDRE" /\ Select(btn)
    /\ nbCylindres' = NextCylindres(nbCylindres)
    /\ UNCHANGED <<currentMenu, cursors, selectedProfil, nbBlades, profils,
                   measure, acc, powered>>
    /\ Refreshed

ConfCylindre_Ok(btn) ==
    /\ currentMenu = "CONF_NB_CYLINDRE" /\ Ok(btn)
    /\ currentMenu' = "SAUVEGARDE"
    /\ saveIndex' = selectedProfil
    /\ UNCHANGED <<profilIndex, curseurParametre, curseurBatterie,
                   settings, measure, acc, powered>>
    /\ Refreshed

\* The speed of this service: r, computed from the captures or kept, then put
\* to 0 when the captures are lost (RpmCapture has the detail).
Visuel_Measure(r, lost) == rpm' = IF lost THEN 0 ELSE r

\* The capture starts with the first service of the menu.
Visuel_Stay(btn) ==
    /\ currentMenu = "MESURE_VISUEL" /\ ~Select(btn)
    /\ capture' = Running
    /\ \E r \in Rpms, lost \in BOOLEAN :
          /\ Visuel_Measure(r, lost)
          /\ lastRpm' = rpm'
          /\ UNCHANGED <<currentMenu, cursors, settings, acc, powered>>
          /\ lcd' = IF (lost /\ r # 0) \/ rpm' # lastRpm THEN Screen' ELSE lcd

\* Leaving stops it, even when it was started in the same service.
Visuel_Leave_StillActive(btn) ==
    /\ currentMenu = "MESURE_VISUEL" /\ Select(btn)
    /\ capture' = [Stopped EXCEPT !.active = 1]
    /\ \E r \in Rpms, lost \in BOOLEAN : Visuel_Measure(r, lost)
    /\ lastRpm' = rpm'
    /\ currentMenu' = "MESURE_AUDIO"
    /\ UNCHANGED <<cursors, settings, acc, powered>>
    /\ Refreshed

Visuel_Leave(btn) ==
    /\ currentMenu = "MESURE_VISUEL" /\ Select(btn)
    /\ capture' = Stopped
    /\ \E r \in Rpms, lost \in BOOLEAN : Visuel_Measure(r, lost)
    /\ lastRpm' = rpm'
    /\ currentMenu' = "MESURE_AUDIO"
    /\ UNCHANGED <<cursors, settings, acc, powered>>
    /\ Refreshed

Audio_Select(btn) ==
    /\ currentMenu = "MESURE_AUDIO" /\ Select(btn)
    /\ currentMenu' = "MESURE_VIBRATION"
    /\ UNCHANGED <<cursors, settings, measure, acc, powered>>
    /\ Refreshed

\* The accelerometer is set up once, then read every AccPeriod services.
Vibration_Acc ==
    acc' = [init |-> 1,
            tick |-> IF acc.tick + 1 >= AccPeriod THEN 0 ELSE acc.tick + 1]

Vibration_Stay(btn) ==
    /\ currentMenu = "MESURE_VIBRATION" /\ ~Select(btn)
    /\ Vibration_Acc
    /\ UNCHANGED <<currentMenu, cursors, settings, measure, powered, lcd>>

Vibration_Leave(btn) ==
    /\ currentMenu = "MESURE_VIBRATION" /\ Select(btn)
    /\ Vibration_Acc
    /\ currentMenu' = "PARAMETRE"
    /\ curseurParametre' = 0
    /\ UNCHANGED <<profilIndex, saveIndex, curseurBatterie,
                   settings, measure, powered>>
    /\ Refreshed

Menu_Task(btn) ==
    \/ Welcome
    \/ Batterie_Select(btn)     \/ Batterie_Ok(btn)
    \/ Parametre_Select(btn)    \/ Parametre_Ok(btn)
    \/ Choix_Select(btn)        \/ Choix_Nouveau(btn)   \/ Choix_Profil(btn)
    \/ Sauvegarde_Idle(btn)     \/ Sauvegarde_Select(btn) \/ Sauvegarde_Ok(btn)
    \/ ConfPale_Select(btn)     \/ ConfPale_Ok(btn)
    \/ ConfCylindre_Select(btn) \/ ConfCylindre_Ok(btn)
    \/ Visuel_Stay(btn)         \/ Visuel_Leave(btn)
    \/ Audio_Select(btn)
    \/ Vibration_Stay(btn)      \/ Vibration_Leave(btn)
    \/ Idle(btn)

Next == \E btn \in SUBSET {"OK", "SELECT"} : Menu_Task(btn)

Spec == Init /\ [][Next]_vars
----------------------------------------------------------------------------
\* The capture hardware, its interrupt and its timer run together or not at
\* all, and run in no menu but MESURE_VISUEL: whatever path leads out of that
\* menu has switched all of them off.
CaptureOnlyInVisuel ==
    /\ capture \in {Stopped, Running}
    /\ capture = Running => currentMenu = "MESURE_VISUEL"

Configuring == currentMenu \in {"CONF_NB_pale", "CONF_NB_CYLINDRE", "SAUVEGARDE"}

\* Outside the configuration screens the blades the speed is divided by
\* (menu.c line 332) and the cylinders are those of the profile selected,
\* which is the one shown next to the speed, when that profile is valid.
SettingsMatchProfile ==
    ~Configuring /\ IsValid(selectedProfil) =>
        /\ nbBlades = profils[selectedProfil].nbBlades
        /\ nbCylindres = profils[selectedProfil].nbCylindres

\* After a service the screen shows the current values of what its menu shows:
\* no change of a value, a cursor, a profile or a menu misses its refresh.
\* In SAUVEGARDE either of the two texts of that menu does.
ScreenUpToDate == \/ lcd = Screen
                  \/ currentMenu = "SAUVEGARDE" /\ lcd = SaveScreen

\* Creating a profile proposes, from the first configuration screen to the
\* save, a slot that holds no profile, unless there is none.
NewProfileKeepsOthers ==
    Configuring => \/ ~IsValid(selectedProfil)
                   \/ FreeSlots = {}
=============================================================================
