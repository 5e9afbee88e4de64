SPECIFICATION Spec
CONSTANTS
    Callers = {r1, r2}
    Sessions = {s1, s2}
    Tokens = {t1, t2}
    Names = {admin}
    AdminName = admin
    IPs = {ip1}
    None = None
    Threshold = 1
    WindowWidth = 1
    IdleTimeout = 1
    AbsoluteLifetime = 2
    LinkValidity = 1
    MaxTime = 1
    MaxSettings = 3
SYMMETRY Symmetry
INVARIANTS
    EverySessionCurrent
    AttemptsBounded
    SettingsKept
