SPECIFICATION Spec
CONSTANTS
    c1 = c1
    c2 = c2
    q1 = q1
    q2 = q2
    q3 = q3
    Certs <- MCCerts
    CertFacts <- MCCertFacts
    CRLs <- MCCRLs
    CRLFacts <- MCCRLFacts
    Keys <- MCKeys
    Serials <- MCSerials
    Compromise = "compromise"
    Revocation = "revoked"
    Uploads <- MCUploads
    Callers = {c1, c2}
    RequestIDs = {q1, q2, q3}
    None = None
    MaxChanges = 1
SYMMETRY Symmetry
INVARIANT KeyStoredWithUpload
CHECK_DEADLOCK FALSE
