CONSTANTS
    n0 = n0
    n1 = n1
    n2 = n2
    Node <- Nodes
    Link <- Links
    Roots <- RootNode
    AwakeOpt = FALSE
    Lossy = TRUE
    LinkDepth = 1
SPECIFICATION Spec
INVARIANTS PromisesKept IInv HeardUs
