CONSTANTS
    s0 = s0
    s1 = s1
    s2 = s2
    Station <- All3
    Threaded <- OneThreaded
    Chatter <- OneChatter
    Hears <- OneDeaf
    Timeout <- Timeouts
    HoldoffMin <- HoldoffMins
    HoldoffMax <- HoldoffMaxs
    Airtime <- Airtimes
    RecvTimeout = 1
    None = None
    Noise = Noise
SPECIFICATION Spec
INVARIANTS SpeaksUp
PROPERTIES CarrierSensed GapKept
