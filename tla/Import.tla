------------------------------- MODULE Import -------------------------------
(***************************************************************************)
(* Taking over a PKI that was run elsewhere, as implemented by             *)
(*   internal/app/service/importing.go       (ImportService)               *)
(*   internal/app/service/revocations.go     (applyRevocations)            *)
(*   internal/domain/revocation.go           (Merge, ObserveImportedNumber)*)
(*   internal/cryptoformats/validators.go    (ChainValidator, CRLVerifier) *)
(*   internal/storage/sqlstore                                             *)
(*                                                                         *)
(* An upload is a list of certificates, CRLs and CA keys.  Commit first    *)
(* matches each CA key to a certificate and encrypts it, outside the write *)
(* transaction; the transaction then resolves every file against the store *)
(* as it is by now and applies the whole upload, or refuses all of it.     *)
(*                                                                         *)
(* A file is what the parser makes of it: a certificate its names, key,    *)
(* serial and the key that really signed it, a CRL its names, number and   *)
(* entries, a CA key its public key.  A bundle of certificates is the list *)
(* of its certificates.  A certificate stands for the row that stores it   *)
(* and a CA certificate for its authority and key generation: an imported  *)
(* CA has one of each.  What an authority may do afterwards is Authority's.*)
(***************************************************************************)
EXTENDS Naturals, Sequences, FiniteSets

CONSTANTS
    Certs,         \* certificates, by their DER
    CertFacts,     \* what the parser reads in each of them
    CRLs,          \* CRLs, by their DER
    CRLFacts,      \* what the parser reads in each of them
    Keys,          \* public keys
    Serials,       \* serial numbers
    Compromise,    \* the revocation facts (reason, revoked_at) of a lost key
    Revocation,    \* the revocation facts this installation states
    Uploads,       \* the uploads that are sent: files and takeovers
    Callers,       \* requests that may be in progress at a time
    RequestIDs,    \* idempotency keys
    None,          \* an empty reference
    MaxChanges     \* bound on what happens beside importing and issuing

CAs == {c \in Certs : CertFacts[c].ca}

Facts == {Compromise, Revocation} \cup
         {e.facts : e \in UNION {CRLFacts[d].entries : d \in CRLs}}

\* A file with the authority its sender names for it, if any.
FilesOf(kind, items) == [kind : {kind}, item : items, hint : Certs \cup {None}]

FileRows == FilesOf("certificate", Certs) \cup FilesOf("crl", CRLs)
            \cup FilesOf("ca_key", Keys)

ASSUME ImportConstants ==
    /\ None \notin Certs \cup CRLs \cup Keys \cup RequestIDs \cup Facts
    /\ None \notin Uploads
    /\ MaxChanges \in Nat
    /\ \A c \in Certs : CertFacts[c].key \in Keys /\ CertFacts[c].serial \in Serials
    /\ \A d \in CRLs : /\ CRLFacts[d].number \in Nat
                       /\ CRLFacts[d].expired \in BOOLEAN
                       /\ \A e \in CRLFacts[d].entries : e.serial \in Serials
    /\ \A u \in Uploads : u.files \in Seq(FileRows) /\ u.takeovers \subseteq CAs

VARIABLES
    store,        \* the database, see KeyAvailable and DocumentsInsertable
    issuer,       \* certificates: issuer_ca_certificate_id, see Stored
    issued,       \* the leaves among them that were issued here
    materials,    \* key_materials
    compromised,  \* those of them with a compromised_at
    secrets,      \* CAs whose encrypted signing key is stored
    destroyed,    \* CAs with a key_destroyed_at
    takeovers,    \* CAs with a pending ca_takeovers row
    ledger,       \* revocations, by CA and serial
    crl,          \* crl_states
    documents,    \* the imported rows of crl_documents
    batches,      \* import_batches, by the request whose result they are
    calls,        \* the requests in progress
    changes       \* see MaxChanges

pkiVars == <<issuer, issued, materials, compromised, secrets, destroyed>>
ledgerVars == <<ledger, crl, documents>>
vars == <<store, pkiVars, takeovers, ledgerVars, batches, calls, changes>>

RevocationRows == [facts : Facts \cup {None}, link : Certs \cup {None},
                   review : BOOLEAN]

NoRevocation == [facts |-> None, link |-> None, review |-> FALSE]

CRLRows == [floor : Nat, generation : Nat]

\* A prepared key, with the certificate it was matched to.
KeyRows == [file : Nat, target : [file : Nat, cert : CAs], minted : BOOLEAN]

CallRows == [pc : {"idle", "commit"}, upload : Uploads \cup {None},
             request : RequestIDs \cup {None}, keys : SUBSET KeyRows]

IdleCall == [pc |-> "idle", upload |-> None, request |-> None, keys |-> {}]

-----------------------------------------------------------------------------
(* What the code reads.                                                    *)

\* A certificate that is not stored has itself as issuer; a root has None.
Stored(c) == issuer[c] # c

IsRoot(c) == issuer[c] = None

\* issuer_ca_key_generation_id: a root is its own issuer.
IssuedBy(c) == IF IsRoot(c) THEN c ELSE issuer[c]

SelfIssued(c) == CertFacts[c].subject = CertFacts[c].issuer

\* FindCertificateByIssuerSerial
WithSerial(ca, n) ==
    {c \in Certs : Stored(c) /\ IssuedBy(c) = ca /\ CertFacts[c].serial = n}

Recorded(ca, n) == ledger[<<ca, n>>].facts # None

\* The SQL stores derive the flag from key_destroyed_at; the store of the port
\* tests keeps the domain object with the flag.
KeyAvailable(ca) ==
    IF store = "double" THEN ca \in secrets ELSE ca \notin destroyed

IsCert(f) == f.kind = "certificate"

KeysUsed == {CertFacts[c].key : c \in {d \in Certs : Stored(d)}}

-----------------------------------------------------------------------------
(* prepareImportKeys: the certificate each CA key belongs to.              *)

\* importKeyCandidates.  A certificate of the upload that is stored already
\* counts as stored, one that occurs twice counts once; the stored CAs are
\* tried when the upload has none.
KeyCandidates(files, f) ==
    LET first == {j \in DOMAIN files :
                    /\ IsCert(files[j]) /\ files[j].item \in CAs
                    /\ \A k \in 1..(j - 1) :
                            IsCert(files[k]) => files[k].item # files[j].item}
        batch == {IF Stored(files[j].item)
                  THEN [file |-> 0, cert |-> files[j].item]
                  ELSE [file |-> j, cert |-> files[j].item] : j \in first}
        existing == {[file |-> 0, cert |-> c] : c \in {d \in CAs : Stored(d)}}
    IN IF f.hint # None THEN {t \in existing : t.cert = f.hint}
       ELSE IF batch # {} THEN batch ELSE existing

\* ParseCAKey decides: the key must be the certificate's.
KeyTargets(files, f) ==
    {t \in KeyCandidates(files, f) : CertFacts[t.cert].key = f.item}

\* resolvePreparedKeyIdentity
KeyIdentityAllowed(t) ==
    LET k == CertFacts[t.cert].key IN
    /\ k \notin compromised
    /\ IF t.file = 0 THEN t.cert \notin destroyed ELSE k \notin KeysUsed

KeyFiles(files) == {i \in DOMAIN files : files[i].kind = "ca_key"}

KeysPreparable(files) ==
    \A i \in KeyFiles(files) :
        /\ Cardinality(KeyTargets(files, files[i])) = 1
        /\ \A t \in KeyTargets(files, files[i]) : KeyIdentityAllowed(t)

\* A material that is not stored gets a new id; the key is encrypted for it.
PreparedKeys(files) ==
    UNION {{[file |-> i, target |-> t, minted |-> files[i].item \notin materials] :
                t \in KeyTargets(files, files[i])} : i \in KeyFiles(files)}

-----------------------------------------------------------------------------
(* resolveImportItems                                                      *)

\* first: the file this one repeats; batch: the file of the issuer; issuer:
\* the stored issuer.
New == [status |-> "new", first |-> 0, batch |-> 0, issuer |-> None]

Conflict == [New EXCEPT !.status = "conflict"]

Duplicate(j) == [New EXCEPT !.status = "duplicate", !.first = j]

\* Mutant of KeyTaken: the files of the upload are not compared.
KeyTakenInStore(files, out, i) == CertFacts[files[i].item].key \in KeysUsed

\* resolvePublicKey
KeyTaken(files, out, i) ==
    \/ CertFacts[files[i].item].key \in KeysUsed
    \/ \E j \in 1..(i - 1) :
        /\ IsCert(files[j])
        /\ out[j].status = "new"
        /\ CertFacts[files[j].item].key = CertFacts[files[i].item].key

\* sameBatchIssuerDepthError, storedIssuerDepthError: roots sign CAs and no
\* leaf, intermediates sign leaves and no CA.
DepthAllowed(child, root) == CertFacts[child].ca <=> root

\* The files of the upload resolveIssuer matches by name.  A file that comes
\* later is not resolved yet and counts whatever becomes of it.
BatchIssuers(files, out, i) ==
    {j \in DOMAIN files \ {i} :
        /\ IsCert(files[j]) /\ files[j].item \in CAs
        /\ CertFacts[files[j].item].subject = CertFacts[files[i].item].issuer
        /\ j < i => out[j].status = "new"}

\* resolveIssuer
ResolveIssuer(files, out, i) ==
    LET f == files[i]
        c == f.item
        batch == BatchIssuers(files, out, i)
        j == CHOOSE k \in batch : TRUE
    IN CASE SelfIssued(c) -> IF c \in CAs THEN New ELSE Conflict
         [] ~SelfIssued(c) /\ Cardinality(batch) > 1 -> Conflict
         [] ~SelfIssued(c) /\ Cardinality(batch) = 1 ->
                IF DepthAllowed(c, SelfIssued(files[j].item))
                THEN [New EXCEPT !.batch = j] ELSE Conflict
         [] OTHER ->
                IF /\ f.hint # None /\ f.hint \in CAs /\ Stored(f.hint)
                   /\ CertFacts[f.hint].subject = CertFacts[c].issuer
                   /\ DepthAllowed(c, IsRoot(f.hint))
                THEN [New EXCEPT !.issuer = f.hint] ELSE Conflict

ResolveItem(files, out, i) ==
    LET same == {j \in 1..(i - 1) :
                    IsCert(files[j]) /\ files[j].item = files[i].item} IN
    CASE ~IsCert(files[i]) -> New
      [] IsCert(files[i]) /\ same # {} ->
            Duplicate(CHOOSE j \in same : \A k \in same : j <= k)
      [] IsCert(files[i]) /\ same = {} /\ Stored(files[i].item) -> Duplicate(0)
      [] OTHER -> IF KeyTaken(files, out, i) THEN Conflict
                  ELSE ResolveIssuer(files, out, i)

\* One file after the other; what becomes of a file depends on the ones before.
ResolveImportItems(files) ==
    LET out[i \in DOMAIN files] == ResolveItem(files, out, i) IN out

NewCerts(files, out) ==
    {i \in DOMAIN files : IsCert(files[i]) /\ out[i].status = "new"}

\* The certificate the code takes for the issuer of file i, None for a root.
IssuerOf(files, out, i) ==
    IF out[i].batch # 0 THEN files[out[i].batch].item ELSE out[i].issuer

\* Mutant of ChainValid: the names are enough.
ChainByName(files, out, i) == TRUE

\* verifyChains, ChainValidator.Validate: the signature is the issuer's, and
\* the chain ends in a root.  The chain behind an issuer in the upload that is
\* stored already, or repeats a file, is not followed.
ChainValid(files, out, i) ==
    LET c == files[i].item
        p == IssuerOf(files, out, i) IN
    /\ CertFacts[c].signer = CertFacts[IF p = None THEN c ELSE p].key
    /\ out[i].batch # 0 /\ out[out[i].batch].status = "duplicate" => SelfIssued(p)

-----------------------------------------------------------------------------
(* resolveCRLIssuer                                                        *)

CRLNames(d, ca) == CRLFacts[d].issuer = CertFacts[ca].subject

\* A stored certificate is compared by name only: its key id is not kept.
\* A file that repeats another stands for it (canonicalNewImportFileName).
CRLTargets(files, out, i) ==
    LET d == files[i].item
        named == {j \in DOMAIN files :
                    /\ IsCert(files[j]) /\ files[j].item \in CAs
                    /\ CRLNames(d, files[j].item)
                    /\ CRLFacts[d].aki \in {None, CertFacts[files[j].item].key}
                    /\ out[j].status # "conflict"}
        batch == {[file |-> j, cert |-> files[j].item] :
                    j \in {k \in named : out[k].status = "new"}}
            \cup {[file |-> 0, cert |-> files[j].item] :
                    j \in {k \in named : out[k].status = "duplicate" /\ out[k].first = 0}}
        existing == {[file |-> 0, cert |-> c] :
                        c \in {ca \in CAs : Stored(ca) /\ CRLNames(d, ca)}}
    IN IF files[i].hint # None THEN {t \in existing : t.cert = files[i].hint}
       ELSE IF batch # {} THEN batch ELSE existing

\* CRLVerifier.Verify against the one certificate found.
CRLValid(files, out, i) ==
    /\ Cardinality(CRLTargets(files, out, i)) = 1
    /\ \A t \in CRLTargets(files, out, i) :
            CRLFacts[files[i].item].signer = CertFacts[t.cert].key

CRLIssuer(files, out, i) == CHOOSE t \in CRLTargets(files, out, i) : TRUE

\* topologicalOrder goes through the files again and again; a file waits for
\* the pass in which the file it depends on is done.
DependsOn(files, out, i) ==
    IF files[i].kind = "crl" THEN CRLIssuer(files, out, i).file ELSE out[i].batch

Before(files, out, i, j) ==
    LET pass[k \in DOMAIN files] ==
            LET d == DependsOn(files, out, k) IN
            IF d = 0 THEN 1 ELSE IF d < k THEN pass[d] ELSE pass[d] + 1
    IN pass[i] < pass[j] \/ (pass[i] = pass[j] /\ i < j)

-----------------------------------------------------------------------------
(* commitImport: what may stop it.                                         *)

\* Mutant of Consistent: a conflicting file is left out, the rest is applied.
ConsistentEnough(files, out) ==
    \A i \in DOMAIN files :
        /\ i \in NewCerts(files, out) => ChainValid(files, out, i)
        /\ files[i].kind = "crl" => CRLValid(files, out, i)

\* No file is in conflict.
Consistent(files, out) ==
    \A i \in DOMAIN files :
        /\ out[i].status # "conflict"
        /\ i \in NewCerts(files, out) => ChainValid(files, out, i)
        /\ files[i].kind = "crl" => CRLValid(files, out, i)

\* authorityOwning, which knows CA certificates only, is asked for the owner of
\* every duplicate; one that repeats a file needs that file to be stored.
DuplicatesOwned(files, out) ==
    \A i \in DOMAIN files : out[i].status = "duplicate" =>
        /\ files[i].item \in CAs
        /\ out[i].first # 0 => Before(files, out, out[i].first, i)

\* resolveImportedIssuer and NewAuthority: an issuer in the upload must have
\* been stored by it.
IssuersResolved(files, out) ==
    \A i \in NewCerts(files, out) :
        out[i].batch # 0 => out[out[i].batch].status = "new"

\* The CA and serial of a certificate that is about to be stored.
Slot(files, out, i) ==
    LET p == IssuerOf(files, out, i) IN
    <<IF p = None THEN files[i].item ELSE p, CertFacts[files[i].item].serial>>

\* ensureImportedSerialAvailable, before each insert.  An unlinked entry of the
\* ledger is this certificate's own history.
SerialsAvailable(files, out) ==
    \A i \in NewCerts(files, out) :
        LET s == Slot(files, out, i) IN
        /\ IssuerOf(files, out, i) # None =>
                WithSerial(s[1], s[2]) = {} /\ ledger[s].link = None
        /\ \A j \in NewCerts(files, out) \ {i} : Slot(files, out, j) # s

\* The keys prepared for a certificate of the upload that is now new.
KeysOf(keys, i) == {k \in keys : k.target.file = i}

KeysToAttach(keys) == {k \in keys : k.target.file = 0}

\* attachImportedExistingKey, one key after the other.
AttachAllowed(keys) ==
    \A k \in KeysToAttach(keys) :
        LET ca == k.target.cert IN
        /\ ca \notin destroyed
        /\ CertFacts[ca].key \notin compromised
        /\ ~KeyAvailable(ca)
        /\ ca \notin secrets
        /\ \A l \in KeysToAttach(keys) : l.target.cert = ca => l = k

\* ca_key_generations.key_material_id references key_materials: the id a key
\* was encrypted for is of no use if another request stored the material.
MaterialsInsertable(files, out, keys) ==
    \A i \in NewCerts(files, out) : \A k \in KeysOf(keys, i) :
        k.minted => CertFacts[files[i].item].key \notin materials

\* InsertDocument.  A document that is there already is ignored, but PostgreSQL
\* executes nothing more in a transaction in which an insert failed.
DocumentsInsertable(files) ==
    store = "postgres" =>
        \A i \in DOMAIN files : files[i].kind = "crl" =>
            /\ files[i].item \notin documents
            /\ \A j \in DOMAIN files \ {i} : files[j].item # files[i].item

\* An upload of nothing but keys has no authority in its scope.
ScopeNotEmpty(files) == \E i \in DOMAIN files : files[i].kind # "ca_key"

-----------------------------------------------------------------------------
(* applyRevocations                                                        *)

\* from: the file and the rule the change comes from.
Change(from, ca, n, facts, link, review) ==
    [from |-> from, ca |-> ca, serial |-> n, facts |-> facts, link |-> link,
     review |-> review]

\* compromiseCascadeChange and existingRevocationHistoryChange
CertificateChanges(files, out, i) ==
    LET c == files[i].item
        s == Slot(files, out, i)
        row == ledger[s]
    IN {Change(<<i, "compromise">>, s[1], s[2], Compromise, c, FALSE) :
            k \in {CertFacts[c].key} \cap compromised}
       \cup {Change(<<i, "history">>, s[1], s[2], f, c, FALSE) :
            f \in {row.facts} \ {None}}

\* The certificates with serial n that are stored by the time the CRL is reached.
LinkedBefore(files, out, i, ca, n) ==
    WithSerial(ca, n) \cup
    {files[j].item : j \in {k \in NewCerts(files, out) :
        Slot(files, out, k) = <<ca, n>> /\ Before(files, out, k, i)}}

\* insertImportedCRL: an entry is linked to such a certificate.
EntryChange(files, out, i, e) ==
    LET d == CRLFacts[files[i].item]
        ca == CRLIssuer(files, out, i).cert
        linked == LinkedBefore(files, out, i, ca, e.serial)
    IN Change(<<i, "entry">>, ca, e.serial, e.facts,
              IF linked = {} THEN None ELSE CHOOSE c \in linked : TRUE, d.expired)

EntryChanges(files, out, i) ==
    {EntryChange(files, out, i, e) : e \in CRLFacts[files[i].item].entries}

\* resolveChange: a change that says nothing new is dropped.
Effective(ch) ==
    LET row == ledger[<<ch.ca, ch.serial>>] IN
    \/ row.facts = None
    \/ row.facts = ch.facts /\ row.link = None /\ ch.link # None
    \/ row.facts # ch.facts /\ ~row.review

ImportChanges(files, out) ==
    {ch \in UNION ({CertificateChanges(files, out, i) : i \in NewCerts(files, out)}
                  \cup {EntryChanges(files, out, i) :
                            i \in {j \in DOMAIN files : files[j].kind = "crl"}}) :
        Effective(ch)}

\* applyIssuerBatch resolves all changes against the store and then inserts or
\* saves each; the second one for a serial finds the row changed.
ChangesApply(chs) ==
    \A x \in chs, y \in chs :
        x.ca = y.ca /\ x.serial = y.serial => x = y

\* Mutant of Merge: the later assertion replaces the row.
MergeOverwrite(row, ch) ==
    [facts |-> ch.facts, link |-> ch.link, review |-> ch.review]

\* NewRevocation, Revocation.Merge
Merge(row, ch) ==
    CASE row.facts = None -> [facts |-> ch.facts, link |-> ch.link,
                              review |-> ch.review]
      [] row.facts = ch.facts -> [row EXCEPT !.link = ch.link]
      [] OTHER -> [row EXCEPT !.review = TRUE]

ApplyChanges(chs) ==
    [s \in CAs \X Serials |->
        IF \E ch \in chs : <<ch.ca, ch.serial>> = s
        THEN Merge(ledger[s], CHOOSE ch \in chs : <<ch.ca, ch.serial>> = s)
        ELSE ledger[s]]

\* BumpRevocationGeneration, once for an issuer whose rows change.
Bumped(ca, chs) ==
    IF \E ch \in chs : ch.ca = ca THEN crl[ca].generation + 1
    ELSE crl[ca].generation

\* Mutant of Observed: the last CRL decides.
ObservedLast(ca, numbers) ==
    IF numbers = {} THEN crl[ca].floor ELSE CHOOSE n \in numbers : TRUE

\* ObserveImportedNumber, for each CRL of the CA.
Observed(ca, numbers) ==
    CHOOSE n \in numbers \cup {crl[ca].floor} :
        \A m \in numbers \cup {crl[ca].floor} : m <= n

-----------------------------------------------------------------------------
Init ==
    /\ store \in {"sqlite", "postgres", "double"}
    /\ issuer = [c \in Certs |-> c]
    /\ issued = {}
    /\ materials = {} /\ compromised = {}
    /\ secrets = {} /\ destroyed = {} /\ takeovers = {}
    /\ ledger = [s \in CAs \X Serials |-> NoRevocation]
    /\ crl = [ca \in CAs |-> [floor |-> 0, generation |-> 0]]
    /\ documents = {}
    /\ batches = [q \in RequestIDs |-> None]
    /\ calls = [c \in Callers |-> IdleCall]
    /\ changes = 0

\* Commit up to its transaction: the files are parsed, each CA key is matched
\* and encrypted, and no result is stored for the request.
PrepareImport(c, q, u) ==
    /\ calls[c].pc = "idle"
    /\ KeysPreparable(u.files)
    /\ batches[q] = None
    /\ calls' = [calls EXCEPT ![c] = [pc |-> "commit", upload |-> u, request |-> q,
                                     keys |-> PreparedKeys(u.files)]]
    /\ UNCHANGED <<store, pkiVars, takeovers, ledgerVars, batches>>

\* ReplayStoredResult, once more inside the transaction.
NotReplayed(q) == batches[q] = None

Applicable(files, out, keys) ==
    /\ Consistent(files, out)
    /\ DuplicatesOwned(files, out)
    /\ IssuersResolved(files, out)
    /\ SerialsAvailable(files, out)
    /\ MaterialsInsertable(files, out, keys)
    /\ AttachAllowed(keys)
    /\ DocumentsInsertable(files)
    /\ ScopeNotEmpty(files)
    /\ ChangesApply(ImportChanges(files, out))

\* insertImportedAuthority and insertImportedLeaf store a certificate with its
\* issuer and its key material.
StoreCertificates(files, out) ==
    LET new == NewCerts(files, out)
        At(c) == CHOOSE i \in new : files[i].item = c
        added == {files[i].item : i \in new}
    IN /\ issuer' = [c \in Certs |-> IF c \in added THEN IssuerOf(files, out, At(c))
                                     ELSE issuer[c]]
       /\ materials' = materials \cup {CertFacts[c].key : c \in added}

\* insertImportedAuthority: a key that was matched to a certificate of the
\* upload is stored with it, if it is stored; a key of a stored authority is
\* attached.
StoreKeys(files, out, keys) ==
    secrets' = secrets
        \cup {files[i].item : i \in {j \in NewCerts(files, out) : KeysOf(keys, j) # {}}}
        \cup {k.target.cert : k \in KeysToAttach(keys)}

\* insertPendingTakeover, for a CA the upload says is taken over.
StoreTakeovers(files, out, taken) ==
    takeovers' = takeovers \cup
        (taken \cap {files[i].item : i \in NewCerts(files, out)})

\* insertImportedCRL, applyRevocations
StoreRevocations(files, out) ==
    LET chs == ImportChanges(files, out)
        read == {i \in DOMAIN files : files[i].kind = "crl"}
        Numbers(ca) == {CRLFacts[files[i].item].number :
                            i \in {j \in read : CRLIssuer(files, out, j).cert = ca}}
    IN /\ documents' = documents \cup {files[i].item : i \in read}
       /\ ledger' = ApplyChanges(chs)
       /\ crl' = [ca \in CAs |-> [floor |-> Observed(ca, Numbers(ca)),
                                  generation |-> Bumped(ca, chs)]]

\* InsertBatch and StoreRequestResult
StoreBatch(q, u) == batches' = [batches EXCEPT ![q] = u]

\* commitImport
CommitImport(c) ==
    LET u == calls[c].upload
        q == calls[c].request
        keys == calls[c].keys
        out == ResolveImportItems(u.files)
    IN /\ calls[c].pc = "commit"
       /\ NotReplayed(q)
       /\ Applicable(u.files, out, keys)
       /\ StoreCertificates(u.files, out)
       /\ StoreKeys(u.files, out, keys)
       /\ StoreTakeovers(u.files, out, u.takeovers)
       /\ StoreRevocations(u.files, out)
       /\ StoreBatch(q, u)
       /\ calls' = [calls EXCEPT ![c] = IdleCall]
       /\ UNCHANGED <<store, issued, compromised, destroyed>>

\* The upload is refused, the stored result is returned, the request is
\* canceled or its process dies: nothing is written.
EndCall(c) ==
    /\ calls[c].pc = "commit"
    /\ calls' = [calls EXCEPT ![c] = IdleCall]
    /\ UNCHANGED <<store, pkiVars, takeovers, ledgerVars, batches>>

-----------------------------------------------------------------------------
(* What other services write in the meantime.                              *)

\* IssuanceService.commitIssue, with a fresh key and a free serial.
StoreIssued(l, ca) ==
    /\ l \notin CAs /\ ~Stored(l)
    /\ Stored(ca) /\ ~IsRoot(ca) /\ ca \in secrets
    /\ CertFacts[l].issuer = CertFacts[ca].subject
    /\ CertFacts[l].signer = CertFacts[ca].key
    /\ CertFacts[l].key \notin materials
    /\ WithSerial(ca, CertFacts[l].serial) = {}
    /\ ~Recorded(ca, CertFacts[l].serial)
    /\ issuer' = [issuer EXCEPT ![l] = ca]
    /\ issued' = issued \cup {l}
    /\ materials' = materials \cup {CertFacts[l].key}
    /\ UNCHANGED <<store, compromised, secrets, destroyed, takeovers, ledgerVars,
                   batches, calls>>

\* applyRevocations of a leaf whose delivery failed or expired, and of an
\* intermediate CA that is reported compromised (revokeUnderParent).
Revoke(c) ==
    LET ch == Change(<<0, "request">>, IssuedBy(c), CertFacts[c].serial,
                     Revocation, c, FALSE) IN
    /\ c \in issued \/ (c \in CAs /\ Stored(c) /\ ~IsRoot(c))
    /\ Effective(ch)
    /\ ledger' = ApplyChanges({ch})
    /\ crl' = [crl EXCEPT ![ch.ca].generation = Bumped(ch.ca, {ch})]
    /\ UNCHANGED <<store, pkiVars, takeovers, documents, batches, calls>>

\* AuthorityService.DestroyKey, once Authority's conditions hold.
DestroyKey(ca) ==
    /\ Stored(ca)
    /\ ca \notin destroyed
    /\ KeyAvailable(ca)
    /\ destroyed' = destroyed \cup {ca}
    /\ secrets' = secrets \ {ca}
    /\ UNCHANGED <<store, issuer, issued, materials, compromised, takeovers,
                   ledgerVars, batches, calls>>

\* TLSService.UploadCandidate stores a key material that no certificate uses.
UploadTLSKey(k) ==
    /\ k \notin materials
    /\ materials' = materials \cup {k}
    /\ UNCHANGED <<store, issuer, issued, compromised, secrets, destroyed, takeovers,
                   ledgerVars, batches, calls>>

\* PKIRepository.MarkCompromised.  No service calls it yet.
MarkCompromised(k) ==
    /\ k \in materials \ compromised
    /\ compromised' = compromised \cup {k}
    /\ UNCHANGED <<store, issuer, issued, materials, secrets, destroyed, takeovers,
                   ledgerVars, batches, calls>>

Others ==
    \/ \E c \in Certs : Revoke(c)
    \/ \E ca \in CAs : DestroyKey(ca)
    \/ \E k \in Keys : UploadTLSKey(k)
    \/ \E k \in Keys : MarkCompromised(k)

Next ==
    \/ /\ \/ \E c \in Callers, q \in RequestIDs, u \in Uploads : PrepareImport(c, q, u)
          \/ \E c \in Callers : CommitImport(c)
          \/ \E c \in Callers : EndCall(c)
          \/ \E l \in Certs, ca \in CAs : StoreIssued(l, ca)
       /\ UNCHANGED changes
    \/ /\ changes < MaxChanges
       /\ changes' = changes + 1
       /\ Others

Spec == Init /\ [][Next]_vars

-----------------------------------------------------------------------------
(* Properties                                                              *)

\* The rows have the shapes the schema gives them, and only a key that is stored
\* is marked compromised.
TypeOK ==
    /\ store \in {"sqlite", "postgres", "double"}
    /\ issuer \in [Certs -> Certs \cup {None}]
    /\ issued \subseteq {c \in Certs \ CAs : Stored(c)}
    /\ compromised \subseteq materials /\ materials \subseteq Keys
    /\ secrets \subseteq CAs /\ destroyed \subseteq CAs
    /\ takeovers \subseteq CAs
    /\ ledger \in [CAs \X Serials -> RevocationRows]
    /\ crl \in [CAs -> CRLRows]
    /\ documents \subseteq CRLs
    /\ batches \in [RequestIDs -> Uploads \cup {None}]
    /\ calls \in [Callers -> CallRows]
    /\ changes \in 0..MaxChanges

\* The files of the batch stored for request q.
Files(q) == {batches[q].files[i] : i \in DOMAIN batches[q].files}

Committed == {q \in RequestIDs : batches[q] # None}

\* An upload is applied as a whole or not at all, although commitImport stores
\* file by file against a store that changed since the keys were prepared: of
\* a committed upload every certificate and every CRL with all its entries is
\* there, and a CA is there only as part of a committed upload.
AllOrNothing ==
    /\ \A q \in Committed : \A f \in Files(q) :
        /\ IsCert(f) => Stored(f.item)
        /\ f.kind = "crl" =>
            /\ f.item \in documents
            /\ \E ca \in CAs :
                /\ Stored(ca) /\ CRLNames(f.item, ca)
                /\ CRLFacts[f.item].signer = CertFacts[ca].key
                /\ \A e \in CRLFacts[f.item].entries : Recorded(ca, e.serial)
    /\ \A ca \in CAs : Stored(ca) =>
            \E q \in Committed : \E f \in Files(q) : IsCert(f) /\ f.item = ca

\* Every stored certificate hangs on a stored CA of the right level that really
\* signed it, up to a root that signed itself, in whichever order the files
\* came and whoever stored the issuer first.
ChainsSound ==
    \A c \in Certs : Stored(c) =>
        IF IsRoot(c)
        THEN c \in CAs /\ SelfIssued(c) /\ CertFacts[c].signer = CertFacts[c].key
        ELSE /\ issuer[c] \in CAs /\ Stored(issuer[c])
             /\ CertFacts[issuer[c]].subject = CertFacts[c].issuer
             /\ CertFacts[issuer[c]].key = CertFacts[c].signer
             /\ c \in CAs <=> IsRoot(issuer[c])

\* No public key is certified twice and no serial of a CA used twice, whether
\* the certificates were imported side by side, in one upload, or issued here,
\* and the ledger links a serial, though it may have come with a CRL long before
\* its certificate, to the certificate that has it.
IdentitiesUnique ==
    /\ \A c, d \in Certs :
            /\ Stored(c) /\ Stored(d)
            /\ \/ CertFacts[c].key = CertFacts[d].key
               \/ /\ IssuedBy(c) = IssuedBy(d)
                  /\ CertFacts[c].serial = CertFacts[d].serial
            => c = d
    /\ \A ca \in CAs, n \in Serials :
            ledger[<<ca, n>>].link # None => ledger[<<ca, n>>].link \in WithSerial(ca, n)

\* An upload undoes nothing.  Of a revocation the first facts stay, a link stays
\* and the mark for a review stays, in whichever order CRLs come (Merge); a
\* destroyed CA key does not come back with an upload prepared before; and the
\* result stored for a request is not replaced by its copy or by another upload.
NothingUndone ==
    [][/\ \A ca \in CAs, n \in Serials :
            LET old == ledger[<<ca, n>>]
                new == ledger'[<<ca, n>>]
            IN Recorded(ca, n) =>
                /\ new.facts = old.facts
                /\ old.link # None => new.link = old.link
                /\ old.review => new.review
       /\ destroyed \subseteq destroyed' \ secrets'
       /\ \A q \in Committed : batches'[q] = batches[q]]_vars

\* The next CRL of a CA gets a number above that of every CRL imported for it,
\* an older one imported later too.
NumbersAboveImported ==
    \A d \in documents : \E ca \in CAs :
        /\ Stored(ca) /\ CRLNames(d, ca)
        /\ CRLFacts[d].signer = CertFacts[ca].key
        /\ CRLFacts[d].number <= crl[ca].floor

\* The comment in commitImport on a CA key matched to a certificate of the
\* upload: "The matching CA certificate stores the encrypted key as part of its
\* own atomic insert."  So the key of a committed upload is stored.
KeyStoredWithUpload ==
    \A q \in Committed : \A f \in Files(q) :
        f.kind = "ca_key" =>
            \E ca \in CAs : CertFacts[ca].key = f.item /\ ca \in secrets \cup destroyed

=============================================================================
