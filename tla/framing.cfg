CONSTANTS
    Packets <- ShortAndLong
    MTU = 7
    Reads = {1, 5, 9}
    Noise <- SomeNoise
    MaxDamage = 1
SPECIFICATION Spec
INVARIANTS BoundsKept ReceivedInOrder AloneReceived
CHECK_DEADLOCK FALSE
