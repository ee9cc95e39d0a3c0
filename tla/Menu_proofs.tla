---------------------------- MODULE Menu_proofs ----------------------------
(***************************************************************************)
(* Theorems about Menu, for every number of profiles, blades, cylinders    *)
(* and speeds.                                                             *)
(***************************************************************************)
EXTENDS Menu, TLAPS

\* The accelerometer's counter stays below its period.
LEMMA AccType ==
    ASSUME TypeOK, Vibration_Acc
    PROVE  acc' \in [init : Bit, tick : 0 .. AccPeriod - 1]
<1>1. acc.tick \in 0 .. AccPeriod - 1 /\ AccPeriod \in Nat \ {0}
  BY MenuAssumption DEF TypeOK
<1>2. PICK t \in 0 .. AccPeriod - 1 : acc' = [init |-> 1, tick |-> t]
  <2>1. CASE acc.tick + 1 >= AccPeriod
    <3>1. 0 \in 0 .. AccPeriod - 1
      BY <1>1
    <3> QED BY <3>1, <2>1 DEF Vibration_Acc
  <2>2. CASE ~(acc.tick + 1 >= AccPeriod)
    <3>1. acc.tick + 1 \in 0 .. AccPeriod - 1
      BY <1>1, <2>2
    <3> QED BY <3>1, <2>2 DEF Vibration_Acc
  <2> QED BY <2>1, <2>2
<1> QED BY <1>2 DEF Bit

\* A service keeps every variable in its range: in particular the number of
\* blades stays at least 1, in the settings and in every valid profile.
LEMMA TypeStep == ASSUME NEW btn, TypeOK, Menu_Task(btn) PROVE TypeOK'
<1> USE MenuAssumption DEF Menus, Bit
<1> QED
  <2>1. CASE Welcome
    BY <2>1 DEF Welcome, TypeOK, IsValid, cursors, settings, measure
  <2>2. CASE Batterie_Select(btn)
    BY <2>2 DEF Batterie_Select, TypeOK, IsValid, cursors, settings, measure
  <2>3. CASE Batterie_Ok(btn)
    BY <2>3 DEF Batterie_Ok, TypeOK, IsValid, cursors, settings, measure
  <2>4. CASE Parametre_Select(btn)
    BY <2>4 DEF Parametre_Select, TypeOK, IsValid, cursors, settings, measure
  <2>5. CASE Parametre_Ok(btn)
    BY <2>5 DEF Parametre_Ok, TypeOK, IsValid, cursors, settings, measure
  <2>6. CASE Choix_Select(btn)
    <3>1. profilIndex \in 0 .. NB_PROFILS /\ NB_PROFILS \in Nat
      BY DEF TypeOK, Slots, Nouveau
    <3>2. (profilIndex + 1) % (NB_PROFILS + 1) \in 0 .. NB_PROFILS
      BY <3>1
    <3>3. profilIndex' \in Slots \cup {Nouveau}
      BY <3>1, <3>2, <2>6 DEF Choix_Select, Slots, Nouveau
    <3> QED BY <3>3, <2>6 DEF Choix_Select, TypeOK, IsValid, cursors, settings, measure
  <2>7. CASE Choix_Nouveau(btn)
    BY <2>7 DEF Choix_Nouveau, TypeOK, IsValid, cursors, settings, measure
  <2>8. CASE Choix_Profil(btn)
    <3>1. profilIndex \in Slots
      BY <2>8 DEF Choix_Profil, TypeOK, Slots, Nouveau
    <3>2. nbBlades' \in 1 .. BladesMax
      <4>1. CASE IsValid(profilIndex)
        <5>1. profils[profilIndex].nbBlades \in 0 .. BladesMax
          BY <3>1 DEF TypeOK, Profil
        <5>2. profils[profilIndex].nbBlades # 0
          BY <3>1, <4>1 DEF TypeOK
        <5>3. nbBlades' = profils[profilIndex].nbBlades
          BY <4>1, <2>8 DEF Choix_Profil, Loaded
        <5> QED BY <5>1, <5>2, <5>3
      <4> QED BY <4>1, <2>8 DEF Choix_Profil, Loaded, TypeOK
    <3>3. nbCylindres' \in 0 .. CylMax
      <4>1. profils[profilIndex].nbCylindres \in 0 .. CylMax
        BY <3>1 DEF TypeOK, Profil
      <4> QED BY <4>1, <2>8 DEF Choix_Profil, Loaded, TypeOK
    <3> QED BY <3>1, <3>2, <3>3, <2>8 DEF Choix_Profil, TypeOK, IsValid, cursors, settings, measure
  <2>9. CASE Sauvegarde_Idle(btn)
    BY <2>9 DEF Sauvegarde_Idle, TypeOK, IsValid, cursors, settings, measure
  <2>10. CASE Sauvegarde_Select(btn)
    <3>1. saveIndex \in 0 .. NB_PROFILS - 1 /\ NB_PROFILS \in Nat \ {0}
      BY DEF TypeOK, Slots
    <3>2. (saveIndex + 1) % NB_PROFILS \in 0 .. NB_PROFILS - 1
      BY <3>1
    <3>3. saveIndex' \in Slots
      BY <3>2, <2>10 DEF Sauvegarde_Select, Slots
    <3> QED BY <3>3, <2>10 DEF Sauvegarde_Select, TypeOK, IsValid, cursors, settings, measure
  <2>11. CASE Sauvegarde_Ok(btn)
    <3> DEFINE saved == [nbBlades |-> nbBlades, nbCylindres |-> nbCylindres,
                         valid |-> 1]
    <3>1. profils' = [profils EXCEPT ![saveIndex] = saved]
      BY <2>11 DEF Sauvegarde_Ok, Profils_SaveToNVM
    <3>2. nbBlades \in 1 .. BladesMax /\ nbCylindres \in 0 .. CylMax
      BY DEF TypeOK
    <3>3. saved \in Profil /\ saved.nbBlades # 0
      BY <3>2 DEF Profil
    <3> HIDE DEF saved
    <3>4. profils' \in [Slots -> Profil]
      BY <3>1, <3>3 DEF TypeOK
    <3>5. \A i \in Slots : profils'[i].valid = 1 => profils'[i].nbBlades # 0
      BY <3>1, <3>3 DEF TypeOK, IsValid
    <3> QED BY <3>4, <3>5, <2>11 DEF Sauvegarde_Ok, TypeOK, IsValid, cursors, settings, measure
  <2>12. CASE ConfPale_Select(btn)
    <3>1. nbBlades \in 1 .. BladesMax /\ BladesMax \in Nat \ {0}
      BY DEF TypeOK
    <3>2. nbBlades % BladesMax \in 0 .. BladesMax - 1
      BY <3>1
    <3>3. nbBlades' \in 1 .. BladesMax
      BY <3>1, <3>2, <2>12 DEF ConfPale_Select
    <3> QED BY <3>3, <2>12 DEF ConfPale_Select, TypeOK, IsValid, cursors, settings, measure
  <2>13. CASE ConfPale_Ok(btn)
    BY <2>13 DEF ConfPale_Ok, TypeOK, IsValid, cursors, settings, measure
  <2>14. CASE ConfCylindre_Select(btn)
    <3>1. nbCylindres' \in 0 .. CylMax
      BY <2>14 DEF ConfCylindre_Select, NextCylindres, TypeOK
    <3> QED BY <3>1, <2>14 DEF ConfCylindre_Select, TypeOK, IsValid, cursors, settings, measure
  <2>15. CASE ConfCylindre_Ok(btn)
    BY <2>15 DEF ConfCylindre_Ok, TypeOK, IsValid, cursors, settings, measure
  <2>16. CASE Visuel_Stay(btn)
    <3>1. rpm' \in Rpms /\ lastRpm' \in Rpms
      BY <2>16, MenuAssumption DEF Visuel_Stay, Visuel_Measure
    <3>2. capture' \in Capture
      BY <2>16 DEF Visuel_Stay, Running, Capture
    <3> QED BY <3>1, <3>2, <2>16 DEF Visuel_Stay, TypeOK, IsValid, cursors, settings, measure
  <2>17. CASE Visuel_Leave(btn)
    <3>1. rpm' \in Rpms /\ lastRpm' \in Rpms
      BY <2>17, MenuAssumption DEF Visuel_Leave, Visuel_Measure
    <3>2. capture' \in Capture
      BY <2>17 DEF Visuel_Leave, Stopped, Capture
    <3> QED BY <3>1, <3>2, <2>17 DEF Visuel_Leave, TypeOK, IsValid, cursors, settings, measure
  <2>18. CASE Audio_Select(btn)
    BY <2>18 DEF Audio_Select, TypeOK, IsValid, cursors, settings, measure
  <2>19. CASE Vibration_Stay(btn)
    <3>1. acc' \in [init : Bit, tick : 0 .. AccPeriod - 1]
      BY <2>19, AccType DEF Vibration_Stay
    <3> QED BY <3>1, <2>19 DEF Vibration_Stay, TypeOK, IsValid, cursors, settings, measure
  <2>20. CASE Vibration_Leave(btn)
    <3>1. acc' \in [init : Bit, tick : 0 .. AccPeriod - 1]
      BY <2>20, AccType DEF Vibration_Leave
    <3> QED BY <3>1, <2>20 DEF Vibration_Leave, TypeOK, IsValid, cursors, settings, measure
  <2>21. CASE Idle(btn)
    BY <2>21 DEF Idle, vars, TypeOK, IsValid, cursors, settings, measure
  <2> QED BY <2>1, <2>2, <2>3, <2>4, <2>5, <2>6, <2>7,
            <2>8, <2>9, <2>10, <2>11, <2>12, <2>13, <2>14,
            <2>15, <2>16, <2>17, <2>18, <2>19, <2>20, <2>21 DEF Menu_Task

\* Only MESURE_VISUEL starts the capture, and its one way out stops it.
LEMMA CaptureStep ==
    ASSUME NEW btn, CaptureOnlyInVisuel, Menu_Task(btn)
    PROVE  CaptureOnlyInVisuel'
<1> USE DEF CaptureOnlyInVisuel, measure
<1> QED
  <2>1. CASE Welcome
    BY <2>1 DEF Welcome
  <2>2. CASE Batterie_Select(btn)
    BY <2>2 DEF Batterie_Select
  <2>3. CASE Batterie_Ok(btn)
    BY <2>3 DEF Batterie_Ok
  <2>4. CASE Parametre_Select(btn)
    BY <2>4 DEF Parametre_Select
  <2>5. CASE Parametre_Ok(btn)
    BY <2>5 DEF Parametre_Ok
  <2>6. CASE Choix_Select(btn)
    BY <2>6 DEF Choix_Select
  <2>7. CASE Choix_Nouveau(btn)
    BY <2>7 DEF Choix_Nouveau
  <2>8. CASE Choix_Profil(btn)
    BY <2>8 DEF Choix_Profil
  <2>9. CASE Sauvegarde_Idle(btn)
    BY <2>9 DEF Sauvegarde_Idle
  <2>10. CASE Sauvegarde_Select(btn)
    BY <2>10 DEF Sauvegarde_Select
  <2>11. CASE Sauvegarde_Ok(btn)
    BY <2>11 DEF Sauvegarde_Ok
  <2>12. CASE ConfPale_Select(btn)
    BY <2>12 DEF ConfPale_Select
  <2>13. CASE ConfPale_Ok(btn)
    BY <2>13 DEF ConfPale_Ok
  <2>14. CASE ConfCylindre_Select(btn)
    BY <2>14 DEF ConfCylindre_Select
  <2>15. CASE ConfCylindre_Ok(btn)
    BY <2>15 DEF ConfCylindre_Ok
  <2>16. CASE Visuel_Stay(btn)
    BY <2>16 DEF Visuel_Stay
  <2>17. CASE Visuel_Leave(btn)
    <3>1. Stopped # Running
      BY DEF Stopped, Running
    <3> QED BY <3>1, <2>17 DEF Visuel_Leave
  <2>18. CASE Audio_Select(btn)
    BY <2>18 DEF Audio_Select
  <2>19. CASE Vibration_Stay(btn)
    BY <2>19 DEF Vibration_Stay
  <2>20. CASE Vibration_Leave(btn)
    BY <2>20 DEF Vibration_Leave
  <2>21. CASE Idle(btn)
    BY <2>21 DEF Idle, vars
  <2> QED BY <2>1, <2>2, <2>3, <2>4, <2>5, <2>6, <2>7,
            <2>8, <2>9, <2>10, <2>11, <2>12, <2>13, <2>14,
            <2>15, <2>16, <2>17, <2>18, <2>19, <2>20, <2>21 DEF Menu_Task

\* The settings leave the selected profile only inside the configuration
\* screens, whose one way out saves them into the profile it selects.
LEMMA SettingsStep ==
    ASSUME NEW btn, TypeOK, SettingsMatchProfile, Menu_Task(btn)
    PROVE  SettingsMatchProfile'
<1> USE DEF SettingsMatchProfile, Configuring, IsValid, settings
<1> QED
  <2>1. CASE Welcome
    BY <2>1 DEF Welcome
  <2>2. CASE Batterie_Select(btn)
    BY <2>2 DEF Batterie_Select
  <2>3. CASE Batterie_Ok(btn)
    BY <2>3 DEF Batterie_Ok
  <2>4. CASE Parametre_Select(btn)
    BY <2>4 DEF Parametre_Select
  <2>5. CASE Parametre_Ok(btn)
    BY <2>5 DEF Parametre_Ok
  <2>6. CASE Choix_Select(btn)
    BY <2>6 DEF Choix_Select
  <2>7. CASE Choix_Nouveau(btn)
    BY <2>7 DEF Choix_Nouveau
  <2>8. CASE Choix_Profil(btn)
    BY <2>8 DEF Choix_Profil, Loaded
  <2>9. CASE Sauvegarde_Idle(btn)
    BY <2>9 DEF Sauvegarde_Idle
  <2>10. CASE Sauvegarde_Select(btn)
    BY <2>10 DEF Sauvegarde_Select
  <2>11. CASE Sauvegarde_Ok(btn)
    <3>1. saveIndex \in Slots /\ profils \in [Slots -> Profil]
      BY DEF TypeOK
    <3>2. profils'[saveIndex] = [nbBlades |-> nbBlades,
                             nbCylindres |-> nbCylindres, valid |-> 1]
      BY <3>1, <2>11 DEF Sauvegarde_Ok, Profils_SaveToNVM
    <3> QED BY <3>2, <2>11 DEF Sauvegarde_Ok
  <2>12. CASE ConfPale_Select(btn)
    BY <2>12 DEF ConfPale_Select
  <2>13. CASE ConfPale_Ok(btn)
    BY <2>13 DEF ConfPale_Ok
  <2>14. CASE ConfCylindre_Select(btn)
    BY <2>14 DEF ConfCylindre_Select
  <2>15. CASE ConfCylindre_Ok(btn)
    BY <2>15 DEF ConfCylindre_Ok
  <2>16. CASE Visuel_Stay(btn)
    BY <2>16 DEF Visuel_Stay
  <2>17. CASE Visuel_Leave(btn)
    BY <2>17 DEF Visuel_Leave
  <2>18. CASE Audio_Select(btn)
    BY <2>18 DEF Audio_Select
  <2>19. CASE Vibration_Stay(btn)
    BY <2>19 DEF Vibration_Stay
  <2>20. CASE Vibration_Leave(btn)
    BY <2>20 DEF Vibration_Leave
  <2>21. CASE Idle(btn)
    BY <2>21 DEF Idle, vars
  <2> QED BY <2>1, <2>2, <2>3, <2>4, <2>5, <2>6, <2>7,
            <2>8, <2>9, <2>10, <2>11, <2>12, <2>13, <2>14,
            <2>15, <2>16, <2>17, <2>18, <2>19, <2>20, <2>21 DEF Menu_Task

\* Nothing is saved while a new profile is being configured, so the slot
\* chosen for it stays free, or all stay taken.
LEMMA NewProfileStep ==
    ASSUME NEW btn, TypeOK, NewProfileKeepsOthers, Menu_Task(btn)
    PROVE  NewProfileKeepsOthers'
<1> USE DEF NewProfileKeepsOthers, Configuring, FreeSlots, IsValid, settings
<1> QED
  <2>1. CASE Welcome
    BY <2>1 DEF Welcome
  <2>2. CASE Batterie_Select(btn)
    BY <2>2 DEF Batterie_Select
  <2>3. CASE Batterie_Ok(btn)
    BY <2>3 DEF Batterie_Ok
  <2>4. CASE Parametre_Select(btn)
    BY <2>4 DEF Parametre_Select
  <2>5. CASE Parametre_Ok(btn)
    BY <2>5 DEF Parametre_Ok
  <2>6. CASE Choix_Select(btn)
    BY <2>6 DEF Choix_Select
  <2>7. CASE Choix_Nouveau(btn)
    BY <2>7 DEF Choix_Nouveau, NewSlot
  <2>8. CASE Choix_Profil(btn)
    BY <2>8 DEF Choix_Profil
  <2>9. CASE Sauvegarde_Idle(btn)
    BY <2>9 DEF Sauvegarde_Idle
  <2>10. CASE Sauvegarde_Select(btn)
    BY <2>10 DEF Sauvegarde_Select
  <2>11. CASE Sauvegarde_Ok(btn)
    BY <2>11 DEF Sauvegarde_Ok
  <2>12. CASE ConfPale_Select(btn)
    BY <2>12 DEF ConfPale_Select
  <2>13. CASE ConfPale_Ok(btn)
    BY <2>13 DEF ConfPale_Ok
  <2>14. CASE ConfCylindre_Select(btn)
    BY <2>14 DEF ConfCylindre_Select
  <2>15. CASE ConfCylindre_Ok(btn)
    BY <2>15 DEF ConfCylindre_Ok
  <2>16. CASE Visuel_Stay(btn)
    BY <2>16 DEF Visuel_Stay
  <2>17. CASE Visuel_Leave(btn)
    BY <2>17 DEF Visuel_Leave
  <2>18. CASE Audio_Select(btn)
    BY <2>18 DEF Audio_Select
  <2>19. CASE Vibration_Stay(btn)
    BY <2>19 DEF Vibration_Stay
  <2>20. CASE Vibration_Leave(btn)
    BY <2>20 DEF Vibration_Leave
  <2>21. CASE Idle(btn)
    BY <2>21 DEF Idle, vars
  <2> QED BY <2>1, <2>2, <2>3, <2>4, <2>5, <2>6, <2>7,
            <2>8, <2>9, <2>10, <2>11, <2>12, <2>13, <2>14,
            <2>15, <2>16, <2>17, <2>18, <2>19, <2>20, <2>21 DEF Menu_Task

\* lastRpm never differs from rpm between services, so a change of rpm is a
\* difference that the refresh test sees.
LEMMA LastRpmStep ==
    ASSUME NEW btn, lastRpm = rpm, Menu_Task(btn)
    PROVE  lastRpm' = rpm'
<1> USE DEF measure
<1> QED
  <2>1. CASE Welcome
    BY <2>1 DEF Welcome
  <2>2. CASE Batterie_Select(btn)
    BY <2>2 DEF Batterie_Select
  <2>3. CASE Batterie_Ok(btn)
    BY <2>3 DEF Batterie_Ok
  <2>4. CASE Parametre_Select(btn)
    BY <2>4 DEF Parametre_Select
  <2>5. CASE Parametre_Ok(btn)
    BY <2>5 DEF Parametre_Ok
  <2>6. CASE Choix_Select(btn)
    BY <2>6 DEF Choix_Select
  <2>7. CASE Choix_Nouveau(btn)
    BY <2>7 DEF Choix_Nouveau
  <2>8. CASE Choix_Profil(btn)
    BY <2>8 DEF Choix_Profil
  <2>9. CASE Sauvegarde_Idle(btn)
    BY <2>9 DEF Sauvegarde_Idle
  <2>10. CASE Sauvegarde_Select(btn)
    BY <2>10 DEF Sauvegarde_Select
  <2>11. CASE Sauvegarde_Ok(btn)
    BY <2>11 DEF Sauvegarde_Ok
  <2>12. CASE ConfPale_Select(btn)
    BY <2>12 DEF ConfPale_Select
  <2>13. CASE ConfPale_Ok(btn)
    BY <2>13 DEF ConfPale_Ok
  <2>14. CASE ConfCylindre_Select(btn)
    BY <2>14 DEF ConfCylindre_Select
  <2>15. CASE ConfCylindre_Ok(btn)
    BY <2>15 DEF ConfCylindre_Ok
  <2>16. CASE Visuel_Stay(btn)
    BY <2>16 DEF Visuel_Stay
  <2>17. CASE Visuel_Leave(btn)
    BY <2>17 DEF Visuel_Leave
  <2>18. CASE Audio_Select(btn)
    BY <2>18 DEF Audio_Select
  <2>19. CASE Vibration_Stay(btn)
    BY <2>19 DEF Vibration_Stay
  <2>20. CASE Vibration_Leave(btn)
    BY <2>20 DEF Vibration_Leave
  <2>21. CASE Idle(btn)
    BY <2>21 DEF Idle, vars
  <2> QED BY <2>1, <2>2, <2>3, <2>4, <2>5, <2>6, <2>7,
            <2>8, <2>9, <2>10, <2>11, <2>12, <2>13, <2>14,
            <2>15, <2>16, <2>17, <2>18, <2>19, <2>20, <2>21 DEF Menu_Task

\* Every service that changes what its menu shows redraws it.
LEMMA ScreenStep ==
    ASSUME NEW btn, lastRpm = rpm, ScreenUpToDate, Menu_Task(btn)
    PROVE  ScreenUpToDate'
<1> USE DEF ScreenUpToDate, Refreshed
<1> QED
  <2>1. CASE Welcome
    BY <2>1 DEF Welcome
  <2>2. CASE Batterie_Select(btn)
    BY <2>2 DEF Batterie_Select
  <2>3. CASE Batterie_Ok(btn)
    BY <2>3 DEF Batterie_Ok
  <2>4. CASE Parametre_Select(btn)
    BY <2>4 DEF Parametre_Select
  <2>5. CASE Parametre_Ok(btn)
    BY <2>5 DEF Parametre_Ok
  <2>6. CASE Choix_Select(btn)
    BY <2>6 DEF Choix_Select
  <2>7. CASE Choix_Nouveau(btn)
    BY <2>7 DEF Choix_Nouveau
  <2>8. CASE Choix_Profil(btn)
    BY <2>8 DEF Choix_Profil
  <2>9. CASE Sauvegarde_Idle(btn)
    <3>1. SaveScreen' = SaveScreen
      BY <2>9 DEF Sauvegarde_Idle, SaveScreen, cursors, settings
    <3> QED BY <3>1, <2>9 DEF Sauvegarde_Idle
  <2>10. CASE Sauvegarde_Select(btn)
    BY <2>10 DEF Sauvegarde_Select
  <2>11. CASE Sauvegarde_Ok(btn)
    BY <2>11 DEF Sauvegarde_Ok
  <2>12. CASE ConfPale_Select(btn)
    BY <2>12 DEF ConfPale_Select
  <2>13. CASE ConfPale_Ok(btn)
    BY <2>13 DEF ConfPale_Ok
  <2>14. CASE ConfCylindre_Select(btn)
    BY <2>14 DEF ConfCylindre_Select
  <2>15. CASE ConfCylindre_Ok(btn)
    BY <2>15 DEF ConfCylindre_Ok
  <2>16. CASE Visuel_Stay(btn)
    <3>1. lcd' = Screen' \/ (lcd' = lcd /\ rpm' = rpm)
      BY <2>16 DEF Visuel_Stay
    <3>2. CASE lcd' = lcd /\ rpm' = rpm
      <4>1. Screen' = Screen
        BY <3>2, <2>16 DEF Visuel_Stay, Screen, IsValid, cursors, settings
      <4> QED BY <3>2, <4>1, <2>16 DEF Visuel_Stay
    <3> QED BY <3>1, <3>2
  <2>17. CASE Visuel_Leave(btn)
    BY <2>17 DEF Visuel_Leave
  <2>18. CASE Audio_Select(btn)
    BY <2>18 DEF Audio_Select
  <2>19. CASE Vibration_Stay(btn)
    <3>1. Screen' = Screen
      BY <2>19 DEF Vibration_Stay, Screen, IsValid, cursors, settings, measure
    <3> QED BY <3>1, <2>19 DEF Vibration_Stay
  <2>20. CASE Vibration_Leave(btn)
    BY <2>20 DEF Vibration_Leave
  <2>21. CASE Idle(btn)
    <3>1. Screen' = Screen /\ SaveScreen' = SaveScreen
      BY <2>21 DEF Idle, vars, Screen, SaveScreen, IsValid, cursors, settings, measure
    <3> QED BY <3>1, <2>21 DEF Idle, vars
  <2> QED BY <2>1, <2>2, <2>3, <2>4, <2>5, <2>6, <2>7,
            <2>8, <2>9, <2>10, <2>11, <2>12, <2>13, <2>14,
            <2>15, <2>16, <2>17, <2>18, <2>19, <2>20, <2>21 DEF Menu_Task
-----------------------------------------------------------------------------
\* The inductive invariant.
IInv == /\ TypeOK
        /\ CaptureOnlyInVisuel
        /\ SettingsMatchProfile
        /\ NewProfileKeepsOthers
        /\ lastRpm = rpm
        /\ ScreenUpToDate

LEMMA InitIInv == Init => IInv
<1> SUFFICES ASSUME Init PROVE IInv
  OBVIOUS
<1> USE MenuAssumption DEF Init
<1>1. TypeOK
  <2>1. 0 \in Slots
    BY DEF Slots
  <2>2. /\ currentMenu \in Menus /\ capture \in Capture
        /\ curseurParametre \in Bit /\ curseurBatterie \in Bit
    BY DEF Menus, Stopped, Capture, Bit
  <2>3. profils \in [Slots -> Profil]
    <3>1. 0 \in 0 .. BladesMax /\ 0 \in 0 .. CylMax
      OBVIOUS
    <3> QED BY <3>1 DEF Profil, Bit
  <2>4. \A i \in Slots : ~IsValid(i)
    BY DEF IsValid
  <2>5. acc \in [init : Bit, tick : 0 .. AccPeriod - 1]
    <3>1. 0 \in 0 .. AccPeriod - 1
      OBVIOUS
    <3> QED BY <3>1 DEF Bit
  <2> QED BY <2>1, <2>2, <2>3, <2>4, <2>5 DEF TypeOK
<1>2. CaptureOnlyInVisuel
  BY DEF CaptureOnlyInVisuel, Stopped, Running
<1>3. SettingsMatchProfile
  BY DEF SettingsMatchProfile, IsValid, Slots
<1>4. NewProfileKeepsOthers
  BY DEF NewProfileKeepsOthers, Configuring
<1>5. ScreenUpToDate
  BY DEF ScreenUpToDate, Screen
<1> QED BY <1>1, <1>2, <1>3, <1>4, <1>5 DEF IInv

LEMMA StepIInv == IInv /\ [Next]_vars => IInv'
<1> SUFFICES ASSUME IInv, [Next]_vars PROVE IInv'
  OBVIOUS
<1>1. CASE Next
  <2>1. PICK btn \in SUBSET {"OK", "SELECT"} : Menu_Task(btn)
    BY <1>1 DEF Next
  <2> QED BY <2>1, TypeStep, CaptureStep, SettingsStep, NewProfileStep,
             LastRpmStep, ScreenStep DEF IInv
<1>2. CASE UNCHANGED vars
  <2> USE <1>2 DEF vars, cursors, settings, measure
  <2>1. TypeOK' /\ CaptureOnlyInVisuel' /\ lastRpm' = rpm'
    BY DEF IInv, TypeOK, IsValid, CaptureOnlyInVisuel
  <2>2. SettingsMatchProfile' /\ NewProfileKeepsOthers'
    BY DEF IInv, SettingsMatchProfile, NewProfileKeepsOthers, Configuring,
           FreeSlots, IsValid
  <2>3. Screen' = Screen /\ SaveScreen' = SaveScreen
    BY DEF Screen, SaveScreen, IsValid
  <2>4. ScreenUpToDate'
    BY <2>3 DEF IInv, ScreenUpToDate
  <2> QED BY <2>1, <2>2, <2>4 DEF IInv
<1> QED BY <1>1, <1>2 DEF Next

THEOREM Invariance == Spec => []IInv
<1> QED BY InitIInv, StepIInv, PTL DEF Spec

\* Every variable of the menu stays in its range (menu.c, all the cases).
THEOREM TypeCorrect == Spec => []TypeOK
<1>1. IInv => TypeOK
  BY DEF IInv
<1> QED BY <1>1, Invariance, PTL

\* The capture never runs outside MESURE_VISUEL (menu.c lines 317-324 and
\* 350-357).
THEOREM CaptureConfined == Spec => []CaptureOnlyInVisuel
<1>1. IInv => CaptureOnlyInVisuel
  BY DEF IInv
<1> QED BY <1>1, Invariance, PTL

\* The speed is computed with the settings of the profile on the screen.
THEOREM SettingsMatch == Spec => []SettingsMatchProfile
<1>1. IInv => SettingsMatchProfile
  BY DEF IInv
<1> QED BY <1>1, Invariance, PTL

\* A new profile does not take the place of another one.
THEOREM NewProfileSafe == Spec => []NewProfileKeepsOthers
<1>1. IInv => NewProfileKeepsOthers
  BY DEF IInv
<1> QED BY <1>1, Invariance, PTL

\* No service misses a refresh of the screen.
THEOREM ScreenCurrent == Spec => []ScreenUpToDate
<1>1. IInv => ScreenUpToDate
  BY DEF IInv
<1> QED BY <1>1, Invariance, PTL
=============================================================================
