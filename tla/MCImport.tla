------------------------------ MODULE MCImport ------------------------------
(* A small PKI to import: a root, an intermediate, its leaves and CRLs, and  *)
(* certificates that must not get in with them.                              *)
EXTENDS Import, TLC

CONSTANTS c1, c2, q1, q2, q3

Cert(ca, subject, issuedBy, key, signer, serial) ==
    [ca |-> ca, subject |-> subject, issuer |-> issuedBy, key |-> key,
     signer |-> signer, serial |-> serial]

\* twin: the serial of leaf; rekey: the key of leaf; forged: not signed by the
\* intermediate it names; deep: a CA below an intermediate.
MCCertFacts ==
    [root   |-> Cert(TRUE, "R", "R", "kr", "kr", 1),
     inter  |-> Cert(TRUE, "I", "R", "ki", "kr", 2),
     leaf   |-> Cert(FALSE, "L", "I", "kl", "ki", 1),
     twin   |-> Cert(FALSE, "L", "I", "kt", "ki", 1),
     rekey  |-> Cert(FALSE, "K", "I", "kl", "ki", 2),
     forged |-> Cert(FALSE, "F", "I", "kf", "kf", 2),
     deep   |-> Cert(TRUE, "D", "I", "kd", "ki", 2)]

MCCRLFacts ==
    [crl5 |-> [issuer |-> "I", aki |-> "ki", signer |-> "ki", number |-> 5,
               expired |-> FALSE, entries |-> {[serial |-> 1, facts |-> "lost"]}],
     crlR |-> [issuer |-> "R", aki |-> "kr", signer |-> "kr", number |-> 4,
               expired |-> FALSE, entries |-> {[serial |-> 2, facts |-> "lost"]}],
     crl3 |-> [issuer |-> "I", aki |-> None, signer |-> "ki", number |-> 3,
               expired |-> TRUE, entries |-> {[serial |-> 1, facts |-> "other"],
                                              [serial |-> 2, facts |-> "other"]}]]

MCCerts == DOMAIN MCCertFacts
MCCRLs == DOMAIN MCCRLFacts
MCKeys == {MCCertFacts[c].key : c \in MCCerts}
MCSerials == {1, 2}

File(kind, item, hint) == [kind |-> kind, item |-> item, hint |-> hint]
C(item) == File("certificate", item, None)
Under(item, hint) == File("certificate", item, hint)
L(item) == File("crl", item, None)
K(item) == File("ca_key", item, None)

Upload(files) == [files |-> files, takeovers |-> {}]

MCUploads ==
    {[files |-> <<K("ki"), C("leaf"), C("inter"), C("root")>>,
      takeovers |-> {"inter"}],
     Upload(<<C("inter"), L("crlR"), C("root")>>),
     Upload(<<Under("inter", "root"), K("ki")>>),
     Upload(<<C("root"), L("crl5"), Under("leaf", "inter"), C("inter")>>),
     Upload(<<Under("leaf", "inter"), Under("rekey", "inter")>>),
     Upload(<<Under("twin", "inter")>>),
     Upload(<<Under("forged", "inter"), L("crl5")>>),
     Upload(<<Under("deep", "inter")>>),
     Upload(<<L("crl3")>>)}

Symmetry == Permutations(Callers) \cup Permutations(RequestIDs)
=============================================================================
