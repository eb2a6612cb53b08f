CONSTANTS
    n0 = n0
    n1 = n1
    n2 = n2
    Node <- Nodes
    Threaded <- Middle
    Link <- Line3
    MaxNeigh = 3
    Mortal <- Outer
    MaxStops = 1
    Timeout = 0
SPECIFICATION Spec
INVARIANTS TypeOK SenderFirst StratumOneIsHeard
PROPERTIES EndedFades
SYMMETRY Ends
