SPECIFICATION Spec
CONSTANTS
    Deliveries = {d1}
    Grants = {g1, g2}
    Requests = {r1, r2}
    None = None
    DeliveryWindow = 2
    LinkWindow = 2
    MaxTime = 3
SYMMETRY Symmetry
INVARIANT ExpiredKeyDeleted
