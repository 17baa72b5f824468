\* Two streams compete for a tunnel that admits one at a time.
SPECIFICATION Spec
CONSTANTS
    Tunnels = {t1}
    Sessions = {c1, c2}
    Streams = {s1, s2}
    None = None
    TunnelOfSession <- OneTunnel
    Kinds = {"managed"}
    MaxPerTunnel = 1
    MaxGlobal = 2
    MaxPending = 0
    MaxLate = 1
SYMMETRY StreamSymmetry
INVARIANTS
    CapacityNeverLeaks
    LimitsUnlessFinalizedTwice
CHECK_DEADLOCK FALSE
