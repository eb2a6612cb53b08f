CONSTANTS
    Caller = {main, handler}
    Packet = {p1, p2}
    Null = Null
    Free = Free
    MaxFrames = 1
SPECIFICATION Spec
PROPERTIES SendsOnlyInSilence
