CONSTANTS
    BeaconPeriod = 4
    TimerDelay = {2, 4, 6}
    WakeupPeriod = 10
    Eschaton = 24
    Inf = 40
    Lag = 1
SPECIFICATION Spec
INVARIANTS TimerPending AwakeInTime
PROPERTY BeaconsApart
CHECK_DEADLOCK FALSE
