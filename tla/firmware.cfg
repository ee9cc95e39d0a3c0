SPECIFICATION SystemSpec
CONSTANTS
    WaitInit = 5
    ServicePeriod = 2
    NB_PROFILS = 1
    BladesMax = 1
    BladesInit = 1
    CylMax = 1
    CylReset = 1
    AccPeriod = 1
    Rpms = {0, 1}
INVARIANT TypeOK
INVARIANT ServiceAfterWait
INVARIANT NothingBeforeService
PROPERTY ServicesRecur
PROPERTY EventsCollected
