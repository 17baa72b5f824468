\* Two requests at a time: one session, a PAT of the account and an anonymous
\* one, two tunnels.  An entry of the session cache is good for one tick.
SPECIFICATION Spec
CONSTANTS
    Requests = {r1, r2}
    Sessions = {k1}
    Pats = {p1}
    AnonymousPats = {a1}
    Tunnels = {t1, t2}
    None = None
    CacheTtl = 0
    MaxCacheSize = 1
SYMMETRY BothSymmetry
INVARIANTS
    TypeOK
    LogoutTakesEffect
    AnonymousLimit
    RevokedPatLosesTunnels
    WritesAreAuthorised
