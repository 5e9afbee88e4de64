SPECIFICATION Spec
CONSTANTS
    Authorities = {a1, a2}
    Leaves = {l1}
    Transitions = {t1}
    Callers = {c1, c2}
    RequestIDs = {q1, q2}
    None = None
    MaxChanges = 4
SYMMETRY Symmetry
INVARIANTS
    EmergencyContained
    NothingOutlivesItsKey
    IssuedUnderControl
    DestroyedKeyStaysGone
    OneAuthorityPerRequest
CHECK_DEADLOCK FALSE
