------------------------------- MODULE Issuance -------------------------------
(***************************************************************************)
(* Issuing and renewing distributed leaf certificates, as implemented by   *)
(*   internal/app/service/issuance.go   (IssuanceService)                  *)
(*   internal/app/service/request.go    (idempotent request results)       *)
(*   internal/domain/series.go          (LeafSeries, PlanRenewal)          *)
(*   internal/app/service/importing.go  (insertImportedLeaf)               *)
(*                                                                         *)
(* A call replays a stored result, prepares outside any write transaction  *)
(* (it reads, plans and signs), and commits in one transaction that checks *)
(* everything it read again.  Stale preparations are made again, at most   *)
(* MaxAttempts times.  Calls of several administrators interleave, with    *)
(* each other and with revocations, settings updates and CA operations.    *)
(*                                                                         *)
(* Validity windows, profiles and names are left out: whether an authority *)
(* may issue is one fact.  No operation of the code base archives a series *)
(* or changes its policy, or gives an intermediate authority a new key     *)
(* generation, so those checks of the commit have nothing to catch.        *)
(* A completed delivery writes nothing of the key generation, so custody   *)
(* stays pending_delivery for a key made here and client_held is imported. *)
(***************************************************************************)
EXTENDS Naturals, FiniteSets

CONSTANTS
    Series,        \* leaf_series ids
    Certificates,  \* certificate ids
    Authorities,   \* intermediate authorities, each with one key generation
    Serials,       \* serial numbers
    Callers,       \* concurrent requests
    RequestIDs,    \* idempotency keys clients send
    None,          \* an empty reference
    RotateEvery,   \* the renewal at which a key is replaced
    MaxAttempts,   \* maxSerialAttempts
    MaxGeneration, \* bound on key generations of a series
    MaxSettings,   \* bound on settings updates
    MaxIncidents   \* bound on revocations, compromises and stopped authorities
                   \* together

ASSUME IssuanceConstants ==
    /\ None \notin Series \cup Certificates \cup Authorities \cup Serials
    /\ RotateEvery \in Nat \ {0}
    /\ MaxAttempts \in Nat \ {0}
    /\ MaxGeneration \in Nat \ {0}
    /\ MaxSettings \in Nat
    /\ MaxIncidents \in Nat

VARIABLES
    series,       \* leaf_series
    generations,  \* leaf_key_generations, by series and generation_no
    certificate,  \* certificates and leaf_certificates
    requests,     \* operation_requests
    revoked,      \* certificates with a revocation row
    compromised,  \* key generations marked compromised
    issuing,      \* authorities that may issue and whose key is live
    settings,     \* version of the installation settings
    calls         \* the calls in progress

pki == <<series, generations, certificate, requests>>
facts == <<revoked, compromised, issuing, settings>>
vars == <<pki, facts, calls>>

Operations == {"issue", "renew"}
Generations == 1..MaxGeneration
Custodies == {"pending_delivery", "client_held"}

SeriesRows ==
    [exists : BOOLEAN, version : Nat, authority : Authorities \cup {None},
     certificate : Certificates \cup {None}, generation : Nat]

NoSeries == [exists |-> FALSE, version |-> 0, authority |-> None,
             certificate |-> None, generation |-> 0]

GenerationRows == [exists : BOOLEAN, count : Nat, custody : Custodies]

NoGeneration == [exists |-> FALSE, count |-> 0, custody |-> "pending_delivery"]

CertificateRows ==
    [exists : BOOLEAN, series : Series \cup {None}, generation : Nat,
     issuer : Authorities \cup {None}, serial : Serials \cup {None},
     previous : Certificates \cup {None}, count : Nat,
     operation : {"none", "initial", "renew", "rekey", "import"}]

NoCertificate ==
    [exists |-> FALSE, series |-> None, generation |-> 0, issuer |-> None,
     serial |-> None, previous |-> None, count |-> 0, operation |-> "none"]

Inputs ==
    [series : Series \cup {None}, source : Certificates \cup {None},
     authority : Authorities \cup {None}]

NoInput == [series |-> None, source |-> None, authority |-> None]

RequestRows == [input : Inputs, certificate : Certificates \cup {None}]

NoRequest == [input |-> NoInput, certificate |-> None]

Preparations ==
    [issuer : Authorities \cup {None}, generation : Nat, custody : Custodies,
     rotated : BOOLEAN, count : Nat, serial : Serials \cup {None},
     settings : Nat]

NoPreparation ==
    [issuer |-> None, generation |-> 0, custody |-> "pending_delivery",
     rotated |-> FALSE, count |-> 0, serial |-> None, settings |-> 0]

CallRows ==
    [pc : {"idle", "replay", "prepare", "commit"}, operation : Operations,
     id : RequestIDs \cup {None}, input : Inputs, expected : Nat, attempt : Nat,
     prep : Preparations]

IdleCall ==
    [pc |-> "idle", operation |-> "issue", id |-> None, input |-> NoInput,
     expected |-> 0, attempt |-> 0, prep |-> NoPreparation]

-----------------------------------------------------------------------------
(* What the code reads.                                                    *)

\* The request row of a call's idempotency key.
Stored(c) == requests[calls[c].operation][calls[c].id]

\* ReplayStoredResult: a result is stored under this key, for this input or
\* (a conflict) for another one.
Replays(c) == Stored(c).certificate # None /\ Stored(c).input = calls[c].input
KeyReused(c) == Stored(c).certificate # None /\ Stored(c).input # calls[c].input

SeriesOf(c) == series[calls[c].input.series]

\* The authority a call asks for; a renewal that names none stays with the
\* authority that manages the series.
TargetAuthority(c) ==
    IF calls[c].input.authority # None THEN calls[c].input.authority
    ELSE SeriesOf(c).authority

\* SerialExists
SerialUsed(a, n) ==
    \E x \in Certificates :
        /\ certificate[x].exists
        /\ certificate[x].issuer = a
        /\ certificate[x].serial = n

\* Mutant of KeyRenewable: only the compromise of the key is looked at.
KeyRenewableRevoked(s, g, source) == <<s, g>> \notin compromised

\* ensureKeyStillRenewable, and the same facts at preparation.
KeyRenewable(s, g, source) ==
    /\ <<s, g>> \notin compromised
    /\ source \notin revoked

-----------------------------------------------------------------------------
(* A call.                                                                 *)

Set(c, row) == calls' = [calls EXCEPT ![c] = row]

Ends(c) == Set(c, IdleCall)

Goes(c, pc) == Set(c, [calls[c] EXCEPT !.pc = pc])

\* Issue and Renew after their input was validated and authorized.
Call(c, op, id, input, expected) ==
    /\ calls[c].pc = "idle"
    /\ Set(c, [IdleCall EXCEPT !.pc = "replay", !.operation = op, !.id = id,
                               !.input = input, !.expected = expected])
    /\ UNCHANGED <<pki, facts>>

Issue(c, id, a) ==
    Call(c, "issue", id, [series |-> None, source |-> None, authority |-> a], 0)

\* The client names the certificate and the version it saw, now or earlier.
Renew(c, id, s, source, target, expected) ==
    /\ series[s].exists
    /\ certificate[source].series = s
    /\ expected <= series[s].version
    /\ Call(c, "renew", id, [series |-> s, source |-> source, authority |-> target],
            expected)

\* replayBeforePreparation
ReplayBeforePreparation(c) ==
    /\ calls[c].pc = "replay"
    /\ IF Stored(c).certificate # None THEN Ends(c) ELSE Goes(c, "prepare")
    /\ UNCHANGED <<pki, facts>>

\* PlanRenewal of a series whose key may be renewed.
RenewalAllowed(c) ==
    LET s == calls[c].input.series
    IN  /\ SeriesOf(c).certificate = calls[c].input.source
        /\ SeriesOf(c).version = calls[c].expected
        /\ generations[s][SeriesOf(c).generation].custody = "client_held"
        /\ KeyRenewable(s, SeriesOf(c).generation, calls[c].input.source)

\* The reads, the plan and the signature of an issuance.
PrepareIssue(c, n) ==
    [NoPreparation EXCEPT !.issuer = TargetAuthority(c), !.rotated = TRUE,
                          !.serial = n, !.settings = settings]

\* Mutant of PlanRenewal: the key is replaced one renewal late.
PlanRenewalLate(row) ==
    IF row.count + 1 > RotateEvery THEN [rotated |-> TRUE, count |-> 0]
    ELSE [rotated |-> FALSE, count |-> row.count + 1]

\* PlanRenewal: the key is kept until its RotateEvery-th certificate.
PlanRenewal(row) ==
    IF row.count + 1 >= RotateEvery THEN [rotated |-> TRUE, count |-> 0]
    ELSE [rotated |-> FALSE, count |-> row.count + 1]

PrepareRenew(c, n) ==
    LET row == generations[calls[c].input.series][SeriesOf(c).generation]
    IN  [issuer |-> TargetAuthority(c), generation |-> SeriesOf(c).generation,
         custody |-> row.custody, rotated |-> PlanRenewal(row).rotated,
         count |-> PlanRenewal(row).count, serial |-> n, settings |-> settings]

Prepare(c) ==
    /\ calls[c].pc = "prepare"
    /\ TargetAuthority(c) \in issuing
    /\ \/ /\ calls[c].operation = "issue"
          /\ \E n \in Serials : Set(c, [calls[c] EXCEPT !.pc = "commit",
                                                       !.prep = PrepareIssue(c, n)])
       \/ /\ calls[c].operation = "renew"
          /\ RenewalAllowed(c)
          /\ \E n \in Serials : Set(c, [calls[c] EXCEPT !.pc = "commit",
                                                       !.prep = PrepareRenew(c, n)])
    /\ UNCHANGED <<pki, facts>>

\* Mutant of SeriesUnchanged: the commit trusts the preparation.
SeriesUnchecked(c) == SeriesOf(c).exists

\* The series has not moved since the client read it; SaveSeries asks for the
\* same version again.
SeriesUnchanged(c) ==
    /\ SeriesOf(c).version = calls[c].expected
    /\ SeriesOf(c).certificate = calls[c].input.source

\* The checks of the commit that end the call with an error.
CommitAllowed(c) ==
    /\ calls[c].operation = "renew" => SeriesUnchanged(c)
    /\ calls[c].prep.issuer \in issuing
    /\ calls[c].operation = "renew" /\ ~calls[c].prep.rotated =>
           KeyRenewable(calls[c].input.series, calls[c].prep.generation,
                        calls[c].input.source)

\* The checks of the commit that ask for a new preparation.
PreparationCurrent(c) ==
    /\ calls[c].operation = "renew" =>
           /\ SeriesOf(c).generation = calls[c].prep.generation
           /\ generations[calls[c].input.series][SeriesOf(c).generation].custody
                  = calls[c].prep.custody
    /\ settings = calls[c].prep.settings
    /\ ~SerialUsed(calls[c].prep.issuer, calls[c].prep.serial)

\* No result is stored under the key; its unique index makes sure of it.
Unanswered(c) == Stored(c).certificate = None

\* Mutant of StoreRequestResult: the result is not stored.
StoreNoRequestResult(c, x) == UNCHANGED requests

StoreRequestResult(c, x) ==
    requests' = [requests EXCEPT ![calls[c].operation][calls[c].id] =
                    [input |-> calls[c].input, certificate |-> x]]

\* NewUUID: an id no row has; which one is of no account.
Fresh(x) ==
    /\ ~certificate[x].exists
    /\ x = CHOOSE y \in Certificates : ~certificate[y].exists

\* InsertSeries, InsertLeafKeyGeneration, InsertCertificate and
\* InsertLeafCertificateRecord of the first certificate of a series.
StoreFirst(s, x, a, n, custody, op) ==
    /\ ~series[s].exists
    /\ Fresh(x)
    /\ series' = [series EXCEPT ![s] =
           [exists |-> TRUE, version |-> 0, authority |-> a,
            certificate |-> x, generation |-> 1]]
    /\ generations' = [generations EXCEPT ![s][1] =
           [exists |-> TRUE, count |-> 0, custody |-> custody]]
    /\ certificate' = [certificate EXCEPT ![x] =
           [exists |-> TRUE, series |-> s, generation |-> 1, issuer |-> a,
            serial |-> n, previous |-> None, count |-> 0, operation |-> op]]

\* commitIssue
IssueStored(c, x) ==
    /\ calls[c].operation = "issue"
    /\ \E s \in Series :
           StoreFirst(s, x, calls[c].prep.issuer, calls[c].prep.serial,
                      "pending_delivery", "initial")

\* The generation a renewal writes: a new one, or the count of the old one.
GenerationAfter(c) ==
    IF calls[c].prep.rotated THEN calls[c].prep.generation + 1
                             ELSE calls[c].prep.generation

\* commitRenew
RenewStored(c, x) ==
    LET s == calls[c].input.series
        g == GenerationAfter(c)
        prep == calls[c].prep
    IN  /\ calls[c].operation = "renew"
        /\ g \in Generations
        /\ Fresh(x)
        /\ certificate' = [certificate EXCEPT ![x] =
               [exists |-> TRUE, series |-> s, generation |-> g,
                issuer |-> prep.issuer, serial |-> prep.serial,
                previous |-> calls[c].input.source, count |-> prep.count,
                operation |-> IF prep.rotated THEN "rekey" ELSE "renew"]]
        /\ generations' = [generations EXCEPT ![s][g] =
               [exists |-> TRUE, count |-> prep.count,
                custody |-> IF prep.rotated THEN "pending_delivery" ELSE @.custody]]
        /\ series' = [series EXCEPT ![s].certificate = x, ![s].generation = g,
                                    ![s].version = @ + 1]

CommitStored(c, x) ==
    /\ calls[c].pc = "commit"
    /\ Unanswered(c)
    /\ CommitAllowed(c)
    /\ PreparationCurrent(c)
    /\ IssueStored(c, x) \/ RenewStored(c, x)
    /\ StoreRequestResult(c, x)

\* The call ends with an answer, or without one when the commit is unknown.
Commit(c) ==
    /\ \E x \in Certificates : CommitStored(c, x)
    /\ Ends(c)
    /\ UNCHANGED facts

\* Another call stored this key's result while this one prepared.
CommitReplays(c) ==
    /\ calls[c].pc = "commit"
    /\ Replays(c)
    /\ Ends(c)
    /\ UNCHANGED <<pki, facts>>

Retry(c) ==
    [calls[c] EXCEPT !.pc = "prepare", !.prep = NoPreparation, !.attempt = @ + 1]

\* errRePrepare, up to MaxAttempts preparations.
CommitStale(c) ==
    /\ calls[c].pc = "commit"
    /\ Unanswered(c)
    /\ CommitAllowed(c)
    /\ ~PreparationCurrent(c)
    /\ IF calls[c].attempt + 1 < MaxAttempts THEN Set(c, Retry(c)) ELSE Ends(c)
    /\ UNCHANGED <<pki, facts>>

\* A check refuses, the session ended, or the store or the signer fails.
CallFails(c) ==
    /\ calls[c].pc # "idle"
    /\ Ends(c)
    /\ UNCHANGED <<pki, facts>>

CallStep(c) ==
    \/ ReplayBeforePreparation(c)
    \/ Prepare(c)
    \/ Commit(c)
    \/ CommitReplays(c)
    \/ CommitStale(c)
    \/ CallFails(c)

-----------------------------------------------------------------------------
(* Around the calls.                                                       *)

\* insertImportedLeaf: a certificate issued elsewhere, its key with a client.
InsertImportedLeaf(s, x, a, n) ==
    /\ ~SerialUsed(a, n)
    /\ StoreFirst(s, x, a, n, "client_held", "import")
    /\ UNCHANGED <<requests, facts, calls>>

MoreIncidents ==
    Cardinality(revoked) + Cardinality(compromised)
        + Cardinality(Authorities \ issuing) < MaxIncidents

\* applyRevocations, for this model a row for the certificate.
Revoke(x) ==
    /\ MoreIncidents
    /\ certificate[x].exists
    /\ revoked' = revoked \cup {x}
    /\ UNCHANGED <<pki, compromised, issuing, settings, calls>>

MarkCompromised(s, g) ==
    /\ MoreIncidents
    /\ generations[s][g].exists
    /\ compromised' = compromised \cup {<<s, g>>}
    /\ UNCHANGED <<pki, revoked, issuing, settings, calls>>

\* An authority is stopped, enabled, affected, archived or expires.
AuthorityChanges(a) ==
    /\ \/ a \in issuing /\ MoreIncidents /\ issuing' = issuing \ {a}
       \/ a \notin issuing /\ issuing' = issuing \cup {a}
    /\ UNCHANGED <<pki, revoked, compromised, settings, calls>>

SettingsUpdated ==
    /\ settings < MaxSettings
    /\ settings' = settings + 1
    /\ UNCHANGED <<pki, revoked, compromised, issuing, calls>>

-----------------------------------------------------------------------------
Init ==
    /\ series = [s \in Series |-> NoSeries]
    /\ generations = [s \in Series |-> [g \in Generations |-> NoGeneration]]
    /\ certificate = [x \in Certificates |-> NoCertificate]
    /\ requests = [op \in Operations |-> [id \in RequestIDs |-> NoRequest]]
    /\ revoked = {}
    /\ compromised = {}
    /\ issuing = Authorities
    /\ settings = 0
    /\ calls = [c \in Callers |-> IdleCall]

Next ==
    \/ \E c \in Callers, id \in RequestIDs :
           \/ \E a \in Authorities : Issue(c, id, a)
           \/ \E s \in Series, x \in Certificates, a \in Authorities \cup {None} :
                 \E v \in 0..series[s].version : Renew(c, id, s, x, a, v)
    \/ \E c \in Callers : CallStep(c)
    \/ \E s \in Series, x \in Certificates, a \in Authorities, n \in Serials :
           InsertImportedLeaf(s, x, a, n)
    \/ \E x \in Certificates : Revoke(x)
    \/ \E s \in Series, g \in Generations : MarkCompromised(s, g)
    \/ \E a \in Authorities : AuthorityChanges(a)
    \/ SettingsUpdated

Spec == Init /\ [][Next]_vars

-----------------------------------------------------------------------------
(* Properties.                                                             *)

\* Every variable holds rows of the table it models.
TypeOK ==
    /\ series \in [Series -> SeriesRows]
    /\ generations \in [Series -> [Generations -> GenerationRows]]
    /\ certificate \in [Certificates -> CertificateRows]
    /\ requests \in [Operations -> [RequestIDs -> RequestRows]]
    /\ revoked \subseteq Certificates
    /\ compromised \subseteq Series \X Generations
    /\ issuing \subseteq Authorities
    /\ settings \in Nat
    /\ calls \in [Callers -> CallRows]

\* A certificate that was not imported answers exactly one idempotency key,
\* however often the client sent it, however many copies of the request ran
\* at the same time and whether or not the commit's outcome was known.
OneCertificatePerRequest ==
    /\ \A x \in Certificates :
           certificate[x].operation \in {"initial", "renew", "rekey"} =>
               \E op \in Operations, id \in RequestIDs :
                   requests[op][id].certificate = x
    /\ \A op, op2 \in Operations, id, id2 \in RequestIDs :
           /\ requests[op][id].certificate # None
           /\ requests[op][id].certificate = requests[op2][id2].certificate
           => op = op2 /\ id = id2

\* The history of a series is a line: its current certificate is the only one
\* of the series that no other certificate renewed, and no certificate was
\* renewed twice.
HistoryIsLinear ==
    /\ \A x, y \in Certificates :
           certificate[x].previous # None /\ certificate[x].previous = certificate[y].previous
               => x = y
    /\ \A x \in Certificates :
           certificate[x].exists =>
               ( series[certificate[x].series].certificate = x
                 <=> \A y \in Certificates : certificate[y].previous # x )

\* rotate_every is kept under concurrent renewals: the certificates of one key
\* carry different renewal counts, all below RotateEvery, and the key's own
\* count is the largest.
RotationKept ==
    \A x \in Certificates :
        certificate[x].exists =>
            LET row == generations[certificate[x].series][certificate[x].generation]
            IN  /\ row.exists
                /\ certificate[x].count <= row.count
                /\ row.count < RotateEvery
                /\ \A y \in Certificates \ {x} :
                       /\ certificate[y].exists
                       /\ certificate[y].series = certificate[x].series
                       /\ certificate[y].generation = certificate[x].generation
                       => certificate[y].count # certificate[x].count

\* No two certificates of one issuer have the same serial number, although
\* serials are drawn before the transaction that stores them.
SerialsUnique ==
    \A x, y \in Certificates :
        /\ certificate[x].exists /\ certificate[y].exists
        /\ certificate[x].issuer = certificate[y].issuer
        /\ certificate[x].serial = certificate[y].serial
        => x = y

\* A revocation or a compromise report that comes between preparation and
\* commit keeps the old key from being certified again.
ExposedKeyNotRenewed ==
    [][\A x \in Certificates :
        certificate'[x].operation = "renew" /\ ~certificate[x].exists =>
            /\ <<certificate'[x].series, certificate'[x].generation>> \notin compromised
            /\ certificate'[x].previous \notin revoked]_vars

\* The answer to a key is given once and for all.
AnswerStable ==
    [][\A op \in Operations, id \in RequestIDs :
        requests[op][id].certificate # None =>
            requests'[op][id] = requests[op][id]]_vars

=============================================================================
