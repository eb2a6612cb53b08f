CONSTANTS
    n0 = n0
    n1 = n1
    n2 = n2
    n3 = n3
    Node <- Four
    Link <- Kite4
    Roots <- First
    AwakeOpt = FALSE
    Lossy = TRUE
    NeighMax = 3
    BeaconMax = 3
    LinkDepth = 1
SPECIFICATION Spec
INVARIANTS TypeOK TimerChains PromisesKept
