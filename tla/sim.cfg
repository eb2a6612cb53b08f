CONSTANTS
    BeaconMax = 3
    TableSize = 7
    TableOffs = 3
    NodeIds = 8
    Lines <- SomeLines
    MaxLines = 3
    File <- OneWay3
    Args <- SleepingAndAwake
    Second = 2
    PropDelay = {1}
    TimerDelay = {2, 3}
    WakeupPeriod = 3
SPECIFICATION Spec
INVARIANTS LinksFound RefcountsExact LessThanASecondLate RoutesBothWays NeverMultiplied
PROPERTIES BeaconsInOrder Ends
