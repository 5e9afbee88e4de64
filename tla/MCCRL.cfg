SPECIFICATION FairSpec
CONSTANTS
    Serials = {s1}
    Facts = {f1, f2}
    NoFacts = NoFacts
    Workers = {w1, w2}
    ImportedNumbers = {0, 2}
    MaxGeneration = 2
    MaxDemands = 2
    MaxFaults = 1
INVARIANTS
    NumbersInSnapshotOrder
    PublishedCoversLedger
    DemandNotLost
PROPERTIES
    ImplementsRevocationList
    RevocationPublished
