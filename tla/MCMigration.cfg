SPECIFICATION Spec
CONSTANTS
    Runners = {r1, r2}
    None = None
    Target = 4
    Backfill = 2
    DDL <- MCDDL
    MaxFaults = 3
INVARIANTS
    AlwaysRecognised
    AppliedIsReal
PROPERTIES
    MigrationCompletes
