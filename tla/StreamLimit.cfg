\* Three streams of a tunnel that should admit one at a time.
SPECIFICATION Spec
CONSTANTS
    Tunnels = {t1}
    Sessions = {c1}
    Streams = {s1, s2, s3}
    None = None
    TunnelOfSession <- OneTunnel
    Kinds = {"http"}
    MaxPerTunnel = 1
    MaxGlobal = 4
    MaxPending = 0
    MaxLate = 0
SYMMETRY StreamSymmetry
INVARIANT TunnelLimit
CHECK_DEADLOCK FALSE
