SPECIFICATION Spec
CONSTANTS
    NB_PROFILS = 3
    BladesMax = 2
    BladesInit = 2
    CylMax = 2
    CylReset = 1
    AccPeriod = 2
    Rpms = {0, 1}
INVARIANT TypeOK
INVARIANT CaptureOnlyInVisuel
INVARIANT SettingsMatchProfile
INVARIANT ScreenUpToDate
INVARIANT NewProfileKeepsOthers
