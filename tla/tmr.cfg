SPECIFICATION Spec
CONSTANTS
    SYS_CLK_FREQ = 100000000
    TIMER_FREQ = 10000000
    Top1 = 2147483646
    Periods = {75535}
    Counters = {20000}
    Prescales = {8}
    Prescaled = {0, 1}
INVARIANTS TypeOK RunningIsTrue ClockSetWhole TimeBasesAgree PinsAsUsed ServicesLeaveNoTrace
PROPERTIES NoTickWhenStopped TicksGoOn
