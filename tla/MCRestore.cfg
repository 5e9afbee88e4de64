SPECIFICATION FairRestoreSpec
CONSTANTS
    Serials = {s1, s2}
    Facts = {f1}
    NoFacts = NoFacts
    Workers = {w1}
    ImportedNumbers = {}
    MaxGeneration = 2
    MaxDemands = 0
    MaxFaults = 1
    RunIds = {r1}
    NoRun = NoRun
    MaxRestores = 2
INVARIANTS
    FinishedRestoreIsSafe
    EvidenceHolds
PROPERTIES
    RestoreCompletes
