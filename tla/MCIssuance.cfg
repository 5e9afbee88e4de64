SPECIFICATION Spec
CONSTANTS
    Series = {s1}
    Certificates = {x1, x2, x3}
    Authorities = {a1}
    Serials = {n1, n2, n3}
    Callers = {c1, c2}
    RequestIDs = {i1, i2}
    None = None
    RotateEvery = 2
    MaxAttempts = 2
    MaxGeneration = 2
    MaxSettings = 1
    MaxIncidents = 1
SYMMETRY Symmetry
INVARIANTS
    HistoryIsLinear
    RotationKept
    OneCertificatePerRequest
PROPERTY ExposedKeyNotRenewed
