SPECIFICATION FairSpec
CONSTANTS
    Bootstraps = {b1}
    Candidates = {c1, c2}
    None = None
    MaxInstallation = 2
PROPERTY AppliedOpensAgain
