SPECIFICATION FairSpec
CONSTANTS
    Deliveries = {d1}
    Grants = {g1, g2}
    Requests = {r1, r2}
    None = None
    DeliveryWindow = 1
    LinkWindow = 1
    MaxTime = 2
INVARIANTS
    OneShot
    FailedIffRevoked
    TimesHonoured
    OneOutcomeAudited
PROPERTIES
    ImplementsHandoff
    TransferResolved
    ExpiryResolved
