CONSTANTS
    Caller = {main, handler}
    Packet = {p1, p2, p3}
    Null = Null
    Free = Free
    MaxFrames = 1
SPECIFICATION FairSpec
INVARIANTS InOrder NoLostWakeup RadioExclusion
PROPERTIES AllSent HeardIsRead StopEndsBoth
