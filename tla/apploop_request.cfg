SPECIFICATION Spec
CONSTANTS
    WaitInit = 2
    ServicePeriod = 2
INVARIANT RequestsAreServed
