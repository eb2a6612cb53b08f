CONSTANTS
    n0 = n0
    n1 = n1
    n2 = n2
    n3 = n3
    Node <- Three
    Link <- OneWay3
    Roots <- First
    AwakeOpt = FALSE
    Lossy = FALSE
    NeighMax = 2
    BeaconMax = 3
    LinkDepth = 1
SPECIFICATION FairSpec
PROPERTIES ImplementsNeighbours AllWake NeighboursSettle
