CONSTANTS
    VTime = {0, 1, 2, 3}
    Item = {timer, packet}
    NullEvent = NullEvent
    Garbage = Garbage
    SizeMin = 1
    SizeMax = 6
SPECIFICATION FairSpec
INVARIANTS FailsOnlyWhenFull TopIsEarliest IInv
PROPERTIES ImplementsPriorityQueue CallsReturn
CHECK_DEADLOCK FALSE
