# TLA+ models of cert-me

cert-me is a private certificate authority server: it issues, renews, revokes
and delivers leaf certificates, publishes CRLs, replaces its own TLS
certificate while running, imports existing PKIs and finishes the restore of its
database.  The application layer (`internal/app/service`) works over
repositories (`internal/app/port`) that the SQL store
(`internal/storage/sqlstore`) implements for SQLite, PostgreSQL, MySQL and
MariaDB.  HTTP transport, worker loops and the runtime that calls the start-up
operations are not in the repository yet; they appear in the models as the
environment.

## 1. Inventory

| Component | State it keeps | Operations | Correct when |
|---|---|---|---|
| Key delivery (`distribution.go`, `deliver_postprocess.go`, `recovery.go`, `domain/delivery.go`) | `key_deliveries`, `download_tokens`, the `leaf_delivery` secret, calls in progress | `Deliver` (prepare, commit, send, record), `RecoverInterruptedTransfers`, `ExpireDeliveries`, `RecoverTransfers` | a private key leaves the server at most once; every transfer is resolved; failed means revoked |
| Revocation ledger and CRLs (`revocations.go`, `crl.go`, `domain/revocation.go`) | `revocations`, `crl_states`, `crl_documents`, the job row of a CA key | `applyRevocations`, `RequestPublication`, `Publish` (reserve, sign, finalize), `insertImportedCRL` | a published CRL covers what it claims, never goes back, and every revocation gets published |
| TLS activation (`tls.go`, `domain/tls.go`, `tlsruntime`) | `tls_versions`, `tls_changes`, the active pointer, the configuration in memory | `Bootstrap`, `UploadCandidate`, `IssueCandidate`, `Activate`, `Reconcile` | what is served is what is recorded; an undecided change is the active one, keeps the keys to decide it by, and is never served over |
| Issuance (`issuance.go`, `request.go`, `domain/series.go`) | `leaf_series`, `leaf_key_generations`, `certificates`, `operation_requests` | `Issue`, `Renew` | one certificate per idempotency key, linear history, keys rotated in time, unique serials |
| CA authorities (`authority.go`, `domain/authority.go`) | `authorities`, `ca_key_generations`, the CA key secrets | `Create` (prepare, commit), `Rename`, `SetIssuanceState`, `DestroyKey`, `Archive`, `AttachSigningKey` (prepare, commit), `ConfirmTakeover` | a key is destroyed only when nothing depends on it any more, and stays destroyed; nothing is issued without control of the key |
| Transitions (`transition.go`, `domain/transition.go`) | `authority_transitions`, impacts, deployment targets | `Create` (normal, emergency), `SetTarget`, `ConfirmDeployment`, `Complete`, `Close` | an emergency leaves no certificate of the source untracked, whatever was being issued meanwhile |
| Imports (`importing.go`) | `import_batches`, `key_materials`, `ca_takeovers`, the rows of the certificates, CRLs and revocations that come in | `Preview`, `Commit` (keys prepared outside, everything else in one transaction) | an upload goes in whole or not at all, on sound chains, and undoes nothing |
| Identity (`identity.go`, `preauth.go`, `auth.go`) | accounts, sessions, reset tokens, attempt windows | `Login`, `Logout`, `Authenticate`, `BeginReset`, `CompleteReset`, `IssueCSRF` | a reset or a disabled account ends every session; attempts are counted |
| Setup, settings | the installation row | `CreateAdmin`, `Complete`, `Update` | one first administrator; updates do not overwrite each other |
| Maintenance (`maintenance.go`) | `maintenance_runs`, `maintenance_crl_requirements`, the master key version | `FinalizeRestore`, `ExpireDeliveries`, `RecoverTransfers`, `Rotate`, `PruneAudit` | a restored database hands out no key it may have handed out before, and the restore can be finished |
| Schema migrations (`storage/migrate`), execution lock | the journal table and the schema | `Migrate`, `Resume`, `Acquire`, `Check` | a crash at any point leaves a state that resume completes |
| Queries, crypto engine, formats, configuration | none that changes | | (not modelled) |

**How they interact.**  Every service writes through `UnitOfWork.Write`, which
serialises the write transactions of the process; a transaction commits, rolls
back, or returns `ErrCommitUnknown`.  Issuance creates the delivery row in its
own transaction.  Delivery failures, expiry, transitions, imports and the end of
a restore all call `applyRevocations`, which also records the CRL demand.
`DestroyKey`, `Archive` and `FinalizeRestore` read the CRL state that the worker
advances.  An emergency transition stops authorities that issuance and
`Authority.Create` may be using at that moment.  Activation, setup and key
rotation all write the installation row.  `RuntimeGate.FailClosed` stops
admission after an outcome nobody can know.

**What is hard.**  State read in one transaction (or outside any) and used in
another: preparation and commit of a delivery, of an issuance, of an authority,
of an upload, of a CRL, of a TLS activation.  Side effects between two
transactions: bytes sent to a client, a configuration swapped in memory.
Procedures of several transactions that are interrupted and called again: a
migration, the end of a restore.  Files of one upload that depend on each other
in any order.  Unknown commits.  Crashes between steps and what the next start
makes of them.  Worker leases that lapse.  The list with source lines is
`hazards` in `PROJECT.json`.

## 2. Modules

| Module | Models | Proofs | Model-checked through |
|---|---|---|---|
| `Delivery` | key delivery | `DeliveryProofs` | `MCDelivery` |
| `OneShotHandoff` | what delivery promises, abstractly | | |
| `DeliveryRefinement` | the refinement mapping | `DeliveryProofs` | `MCDelivery` |
| `CRLPublication` | ledger and CRLs of one CA key | `RestoreProofs` | `MCCRL` |
| `RevocationList` | what the publication of revocations promises, abstractly | | |
| `CRLRefinement` | the refinement mapping | `RestoreProofs` | `MCCRL` |
| `Restore` | the end of a restore, over `CRLPublication` | `RestoreProofs` | `MCRestore` |
| `TLSActivation` | server certificate | `TLSProofs` | itself |
| `Issuance` | issue and renew | `IssuanceProofs` | `MCIssuance` |
| `Authority` | life of a CA key and of the transition away from it | `AuthorityProofs` | `MCAuthority` |
| `Import` | uploads of certificates, CRLs and CA keys | `ImportProofs` | `MCImport` |
| `Identity` | account, sessions, reset links, throttle, setup, settings | `IdentityProofs` | `MCIdentity` |
| `Migration` | schema migrations under the execution lock | `MigrationProofs` | `MCMigration` | every interruption is recognised unless the clock made a completed row end before it began, completed rows are true, the target is reached | five versions, one with two statements and one with a handler, two runners, three interruptions: a resume may be interrupted and resumed again; the clock may have been set back in any version | 9,896 |

The MC modules add symmetry sets and the values of constants that a `.cfg`
cannot write (`MCImport`: the certificates, CRLs and uploads of a small PKI);
every run gives the constants their values in its `.cfg` and replaces no
definition.  Definitions with a comment "Mutant of X" are variants of X with a
plausible bug; no specification uses them, they show that a property can fail.

### 2.1 Delivery

`delivery`, `secret`, `grant`, `revoked` and `audit` are the tables; `req` the
calls of `Deliver`, with the point of the code they have reached in `pc`;
`handed` counts how often the plaintext was given to a sink; `phase` is the
process.  A call is `Prepare` (read snapshot, validate, encode),
`CommitConsumption` (the consuming transaction, which repeats every check),
`InvokeSink` and `SendReturned` (the bytes go out between two transactions),
then `RecordPrivateOutcome` or `RecordPublicOutcome`.  Each transaction has its
unknown variant, which closes the process: `ConsumptionUnknown`,
`PrivateOutcomeUnresolved`, `ExpiryUnknown`, `RecoverOneTransferUnknown`.
`Crash` drops the calls; `StartRecovery`, `FailInterruptedTransfer` and
`OpenAdmission` are the start.  The clock moves both ways.  A row the expiry scan
or the operator pass cannot write is skipped by the code, which is a stuttering
step here.  The writer of download links is not in the repository; `InsertGrant`
does what the port allows.  `revoked` is set by the writers that end a delivery;
a revocation an operator or an emergency makes is outside this module, so that
`FailedIffRevoked` is about those writers.

### 2.2 CRLPublication

One CA key, because ledger, state and jobs of different keys never meet.
`Publish` is `ClaimDue`, `ReserveSnapshot`, (signature), `FinalizePublish`; the
worker keeps the reserved document between the two transactions.  A revocation
row is its generation stamp, its facts, the link to a certificate and the review
mark, since `Merge` treats them differently.  `crl.published` joins the columns
published number, generation and document; `signer` whether the key is held and
whether the authority is archived, which the code checks separately.  An import
is one step with the batch of revocations that ends it.  `demand` counts the
explicit calls of `RequestPublication`.  `LeaseLapses` is time passing; under a
working worker it counts as a fault, so that the bound `MaxFaults` limits how
often a lease is too short, never whether it can be.

`RevocationList` is what a reader of the CRL may rely on: revocations are recorded
a generation at a time, the list is replaced as a whole by one with a higher
number that misses nothing it is credited with and drops nothing, and the signer
retires only when the list has caught up.  Numbers reserved, workers, jobs,
leases and imports are not in it.  `CRLRefinement` reads the ledger from the
stamps of the rows, the list from `crl.published`, and calls the signer retired
when `Publish` refuses it; a list that a worker could publish out of order, or
after the key is destroyed, would be no step of `RevocationList`.

### 2.3 TLSActivation

`change` and `installation` are the rows, `served` the configuration in memory,
`call` the activation or bootstrap holding the mutex.  Decision, swap and record
are the steps `CommitChange`, `InstallerApplies`, `RecordApplied`, with their
failures.  `valid` is the set of versions whose validation facts hold; time, a
broken chain or a changed service URL alter it at any time.  `repository` is
fixed in `Init`: `ActiveRead` is what `GetActiveForUpdate` of the shipped SQL store
returns (`"sqlstore"`) or what the in-memory double of the tests returns
(`"double"`).  They differ for unresolved changes and for a change without a
previous version, so that only with the double an unresolved change reaches
`Reconcile` and a second version replaces a first.  Every run covers both.

### 2.4 Issuance

A call goes through `replay`, `prepare` and `commit`.  The preparation is what
the code carries from its reads to the commit: issuer, generation, custody, plan,
serial and settings version.  `CommitAllowed` are the checks that end the call,
`PreparationCurrent` those that make it prepare again.  Other operators' work
(revocations, compromise, settings, stopped authorities) are steps that may fall
in between.  A completed delivery writes nothing that issuance reads.

### 2.5 Identity

Hashing a password and merging a settings patch happen outside the transaction
that uses the result, so `CreateAdmin`, `Login`, `CompleteReset` and
`Settings.Update` are a preparing and a committing step each, and `call` holds
what the first read.  `LoginPrepare` also passes the admission check of the
throttle; the commit counts (`RecordFailure`) with the clock it reads then.  A
hash is the number of resets completed before it was made.  The clock only moves
forward here.  `RequireCurrentAuth`
is the check every write of the other services begins with;
`InvalidateAllAdminSessions` is the transaction of that name in
`FinalizeRestore`.  `answered` is a history variable: rejections by subject and
window.  `IssueCSRF`, which replaces a random value in a session row, is left
out.

### 2.6 Migration

`catalog` is the last reviewed statement the schema contains, `journal` the rows
of `schema_migrations`, `events` the kinds of audit rows the data handler tells
apart.  `IsEmpty`, `IsUnrecorded`, `UpgradeFrom`, `ResumeAt`, `IsCurrent` and
`IsIncompatible` are the answers of `inspectWithPlan`.  On PostgreSQL and SQLite
a version is one step (`ApplyTransactional`), on MySQL and MariaDB every
statement, every handler and every journal write is one.  `RunnerStops` is any
interruption; it may come before or after a write, which is also what an
unanswered commit looks like to the next command.  A failed statement is recorded
(`StepFails`), a refusing handler is not (`HandlerRefuses`), as in the code.
`Completed` is the row of a completed version as the wall clock makes it: it may
have been set back since `insertApplying`, and a row that ends before it began
(`Backwards`) is refused by `validEntryState`.
Only the server's use of the lock
and the comparison of catalogs as text are left out.

### 2.7 Authority

`authority` joins an authority with its one CA key generation; `secrets` are the
stored signing keys, `crl` what the authority checks of its CRL state,
`transition` a transition with its impact list and targets.  Three operations
work outside the transaction that commits them and are two steps:
`PrepareCreate` and `CommitCreate`, `PrepareIssue` and `CommitIssue` (what
issuance asks of an authority; the rest is `Issuance`'s), `PrepareAttach` and
`CommitAttach`.  Everything else is one transaction: `Rename`,
`SetIssuanceState`, `DestroyKey`, `Archive`, `ConfirmTakeover`,
`ImportAuthority` and `ImportLeaf` (what an upload leaves behind),
`CreateNormal`, `CreateEmergency`, `SetTarget`, `ConfirmDeployment`, `Complete`,
`Close`.  A batch of revocations, a publication and the closing publication are
one step each; time is only the expiry of certificates, an issuer's after those
it signed.  `keyFlag` chooses between the SQL store, which derives
`KeyAvailable`, and the double, which records it: they differ for imported
authorities without a key.

### 2.8 Import

A file is what the parser reads in it, given by the constants `CertFacts` and
`CRLFacts`: names, key, serial, and the key that really signed it.
`PrepareImport` matches each CA key to a certificate of the upload or of the
store, outside any transaction; `CommitImport` resolves every file against the
store as it is by then (`ResolveImportItems`), checks duplicates, chains,
serials, key targets and CRLs, and applies certificates, keys, takeover entries,
revocations, CRL floors and documents together with the batch row.  The
resolution is a recursive function over the list of files, because a file may be
issued by one before it or repeat it; `Before` is the order in which the files are then
applied, which decides what a CRL entry is linked to.
`StoreIssued`, `Revoke`, `DestroyKey`,
`UploadTLSKey` and `MarkCompromised` are the other writers of the same rows.
`store` is what differs between SQLite, PostgreSQL and the double: what
`KeyAvailable` answers and whether an imported CRL may be inserted twice.
`Preview` resolves the same files and stores nothing.

### 2.9 Restore

`Restore` extends `CRLPublication`.  `FinalizeRestore` is a sequence of
transactions: `StartRestoreRun`, `InvalidateAllAdminSessions`,
`RestoreOneDelivery` for each row the sweep finds (`SweepDue`: the pending ones,
then the transferring ones), `InvalidateAllPublicGrants`, `RestoreCRLPlan`,
`FinalizeRestoreRun`; `CallStops` ends it between any two, and it is called again
under the same or another run id.  `run` joins `maintenance_runs` with its
requirement row.  The revocations it makes are published by the worker of
`CRLPublication`, which runs all the time.  `StopService` and `Reopen` stand for
the runtime, which must keep requests out until a run is finished; the ordinary
service is a step for each thing it may leave in the database.  A backup is a
state the service was in, and the procedure may start from any.  `found` is a
history variable: the leaves the restored database would still have delivered.

## 3. Runs

Bounds are the constants of each `.cfg`.  Passing runs check deadlock too, except
`MCAuthority` and `MCImport`, where the number of changes and of imported rows is
bounded, so that nothing may be left to do.  The number of distinct states is
given to judge the bounds by.

| Run | Question | Bounds and why they are enough | States |
|---|---|---|---|
| `MCDelivery` | one key, two links, two calls: handed out at most once, every transfer resolved, overdue deliveries failed, failed means revoked, refinement of `OneShotHandoff` | two links and two calls are the least that can race; the clock has three readings and windows of one tick, so a deadline passes between prepare and commit and the clock steps back over it | 227,300 |
| `MCCRL` | numbers in the order of the snapshots, what is published covers what it claims, no demand is lost, every revocation is published, refinement of `RevocationList` | two workers finish in either order, one serial with two sets of facts is stamped again by a merge, an imported CRL has a number above or below the reserved one, two explicit demands, one fault: a lapsed lease or a stopped worker | 405,946 |
| `MCRestore` | a finished restore leaves no restored key usable, its evidence is a stored document, it finishes while the key can sign | two leaves, so that one is pending and the other in transfer; two restores, so that the second finds the requirement row of the first; one interrupted call or lapsed lease; the worker publishes between any two transactions | 1,554,763 |
| `MCTLS` | over either repository: memory, pointer and change row agree while serving, the keys to recover with are kept, only the active change is undecided; with the SQL store an interrupted change stays undecided and the process closed | one bootstrap and two candidates: a replacement of a replacement, and rollback to either kind | 58,120 |
| `MCIssuance` | linear history, rotation rule, exposed keys not certified again, one certificate per idempotency key | one series, three certificates and rotation at the second: both kinds of renewal, by two callers with the same or different idempotency keys, with one incident and one settings change in between | 454,770 |
| `MCAuthority` | an open emergency tracks every valid certificate below it, nothing valid outlives its key, nothing issued without control, a destroyed key stays gone, one authority per request | a root and an intermediate are the whole hierarchy above one leaf; two calls race with four operations, which is emergency, stop, enable and one more, or takeover, attachment and destruction | 1,290,821 |
| `MCImport` | whole or not at all, sound chains, unique keys and serials, CRL numbers above the imported ones, nothing undone | nine uploads over seven certificates, three CRLs and a CA key, which contain a chain out of order, a forged signature, a repeated serial, a repeated key, a CA too deep, a CRL before and after its certificate; two calls, so that the store changes between preparation and commit; one revocation, destroyed key or uploaded key beside them | 131,130 |
| `MCIdentity` | no session outlives its password, attempts bounded, no settings patch lost | two calls, two sessions and two links; the threshold is one and the clock has two readings, so that a window ends between admission and counting | 2,607,811 |
| `MCMigration` | every interruption is recognised, applied rows are true, the target is reached | five versions, one with two statements and one with a handler, two runners, three interruptions: a resume may be interrupted and resumed again | 5,630 |

Violation runs, each a disagreement between the code and what a document,
comment or test of the repository says (details in `PROJECT.json`, `findings`):

| Run | What the trace shows |
|---|---|
| `MCDeliveryExpiry` | an expired delivery keeps its encrypted private key |
| `MCTLSRestart` | with the SQL store the first applied certificate cannot be read back at the next start, and no start opens the process (`AppliedOpensAgain`) |
| `MCImportRace` | two uploads of one CA race, the second with its key: it is answered with success and the key is dropped |

### 3.1 Observed without a run of their own

*Issuance, delivery, CRLs, TLS, settings, migrations*

* No certificate issued here can be renewed with its key.
  `recordPrivateOutcome` (`deliver_postprocess.go:222`) completes the delivery and
  leaves the custody of the generation alone, and nothing else writes
  `client_held` for a generated key, so `prepareRenew` (`issuance.go:1383`)
  refuses it.  The comment at `domain/series.go:261` says that client-held "means
  pickup completed"; the tests set the custody themselves
  (`issuance_test.go:1013`).
* A `RequestPublication` during a publication, with no revocation after it, is
  merged into the running row and dropped: `finalizePublish` (`crl.go:484`)
  compares generations only, where `docs/data-model.md:163` and
  `port/jobs.go:44` promise a publication after the demand.  `DemandNotLost` is
  about the demands revocations make.
* A CRL number reserved before an import is published even if the imported CRL
  has the same or a higher number (`domain/revocation.go:440` compares with what
  is published, not with the floor).  `NumbersInSnapshotOrder` is about the
  numbers this program assigns.
* The query for the active TLS change filters on `phase='applied'`
  (`sqlstore/operations/tls.go:42`), so that with the SQL store `Reconcile` never
  sees a committed change: it is neither completed nor rolled back, and no start
  opens the process.  This is `InterruptedStaysUndecided`, checked by `MCTLS` and
  proved; `docs/backend-implementation.md:281` has `Reconcile` validate the
  candidate of a committed change again, apply it and record it, and
  `docs/architecture.md:85` has a restart recover an unfinished replacement.
* `Settings.Update` compares the version the caller names with the row, not the
  version its merge was based on.  A caller that names a version it has not read
  could overwrite a patch; the model's callers name the version they read, which
  is what the interface asks for.
* A migration completed after the clock was set back leaves
  `completed_at < started_at`, which `journal.go:308` refuses for good; `apply.go`
  stamps the wall clock at lines 116, 244 and 350.  `docs/storage-migrations.md:259`
  has the next command find a version complete once its applied row is committed.
  `AlwaysRecognised` says that this is the only interruption that is not
  recognised, and `MigrationCompletes` excepts it.
* Audit rows that contradict themselves are reported as incompatible on MySQL and
  MariaDB and as resume_required on PostgreSQL and SQLite, where every resume
  then ends in the same refusal.

*Authorities and transitions*

* The SQL store derives `KeyAvailable` from `key_destroyed_at` and so reads an
  imported CA without a key as having one: `AttachSigningKey` is always refused
  and `isHistoryOnlyCA` (`authority.go:963`) is never true, against
  `docs/pki-import.md:11`.  The test (`importing_test.go:478`) uses the double.
* `ConfirmTakeover` stores the previous highest CRL number and nothing raises the
  floor of the CRL state to it (`docs/pki-import.md:54`).
* The takeover entry of an upload is optional, so a CA imported with its key may
  issue without a confirmed takeover (`docs/pki-import.md:7`).
* A reissue during an emergency keeps the public key; no reissue resolves an
  impact, only expiry does; and `CRLState.Close` has no caller, so a transition
  whose source has dependents is never closed.
* A leaf imported under a CA with an open emergency is not added to the impacts;
  `EmergencyContained` is about certificates issued here.

*Imports*

* A leaf that is already stored fails the whole upload
  (`importing.go:1617`), where the documents promise that an identical
  certificate is reported and not stored again.
* Two revocations of one serial in one upload, or a repeated CRL on PostgreSQL
  (`importing.go:2258`), are a duplicate insert and fail the whole upload.
* A CRL before its certificate in the list leaves the revocation unlinked, and
  `resolveIssuer` counts a CA that is already stored as a candidate when it comes
  after the certificate in the list and not when it comes before, where
  `docs/backend-implementation.md` says "파일 순서와 무관하게".
* An upload of a key alone is always refused (`import_scope_empty`,
  `importing.go:1687`).
* The manifest of `Preview` carries the issuer it resolved for a CRL or a key
  without a hint (`importing.go:1135`); `Commit` compares it with what was sent
  (`importing.go:1481`) and refuses such an upload.
* `PreflightCAKeys` sums the PBKDF2 iterations once per candidate certificate.
* The check for a compromised key is made when keys are prepared and not
  repeated in the transaction for certificates of the upload.

*Restore*

* `FinalizeRestore` has no input for the highest CRL number known outside the
  database (`contract/maintenance.go:79`), which `docs/architecture.md:125`
  promises.  A number published after the backup was taken may be used again.
* A CA whose key is gone and that has unpublished revocations blocks every
  restore (`maintenance_restore_blocked_ca_key_missing`): an imported CA without
  a key whose revocations were imported, which `docs/architecture.md:128` says
  must not block, or a CA whose key was destroyed before `ExpireDeliveries`
  revoked something.  `RestoreCompletes` therefore says "or the key cannot sign".

## 4. Fairness

* Delivery: a call keeps running, because the sink has a deadline
  (`deliverSendTimeout`) and the outcome too (`deliverPostProcessTimeout`); the
  runtime ends a closed process and starts it again; recovery and expiry are
  repeated passes, and strong fairness says that a store that works again and
  again lets them commit.  Nothing is assumed of crashes, unknown commits or the
  clock.
* CRLs: workers poll (`ClaimDue`), a call of `Publish` runs to its end or stops,
  and time passes.  Stopped workers are bounded by `MaxFaults`.
* Restore: the operator calls `FinalizeRestore` again until a run is finished,
  which is what its result asks for; a call runs on or stops; the worker is that
  of `CRLPublication`.  Interrupted calls are bounded by `MaxFaults`, restores by
  `MaxRestores`.
* TLS: only `MCTLSRestart` assumes fairness (`FairSpec`): a call under the mutex
  runs on, a closed process is ended and started, and `Reconcile` runs at every
  start over a store and installer that work again and again.
* Migrations: a command runs on until it ends or fails, and the operator runs
  `migrate` and `resume` again and again; the one the status does not name is
  refused.  Interruptions and failing statements are bounded by `MaxFaults`, a
  statement the data makes fail is not.
* Issuance, Authority, Import and Identity state no liveness property and no
  fairness: every call ends by its own steps, and nothing has to follow it.

## 5. Proofs

TLAPS proves, for every value of the constants allowed by the `ASSUME`s:

**Delivery** (`DeliveryProofs`).  `OneShot` is not inductive: that the sink is
called once follows from who may call it.  `CustodyInv` says so: a call past its
consumption (`Carries`) exists only for a claimed row, is the only one
(`SoleCarrier`), and `handed` is 0 or 1 according to whether that call is past the
sink (`CarriersClaimed`); a row that was never claimed was never handed out
(`ClaimRecorded`).  The consuming transaction is the step that matters: it
requires `pending`, so no carrier exists before it.  `ClaimedKeyDeleted` and
`FailedIffRevoked` need the row facts `RowFacts` on top, `NoOrphanTransfer` the
process phase.  `DeliveryImplementsHandoff` maps every step to a step of
`OneShotHandoff` or to a stutter; the invariants make the abstract guards true.

`TimesHonoured` compares instants of a row that were written in two transactions
under a clock that may step back in between.  `RowTimes` says what a row alone
shows, `CallTimes` what the call that will end it knows: it carries the claim's
own instant, and `ClaimsKept` that nobody else rewrites it meanwhile.  The end a
call records is the later of clock and claim, so it is never before the claim.
`OneOutcomeAudited` is about a set that only grows.  `AuditInv` ties each event to
the row: a completed event to a completed row, a failure event to a failed one,
at most one of them for a grant, and none while the row can still be ended.  The
steps that write an event are those that end an open row (`FailEndsOpenRow`), and
a row is ended once (`EndsKept`).

**CRLs** (`RestoreProofs`, first part).  The inductive invariant `CRLInv` joins the type
invariant, the bounds of `StorableState`, the order of all signed documents
(`NumbersInSnapshotOrder`), their agreement with the ledger
(`IssuedWithinLedger`), the job row, and that a reserved document is above nothing
that was not reserved.  Publication can then only move forward because documents
are ordered by number and the check of `CanPublish` compares numbers.
`CRLImplementsList` maps every step to a step of `RevocationList` or to a stutter:
a batch that changes a row stamps at least one with the new generation
(`BatchRecords`), a completed publication replaces the list only by a document
that `CRLInv` says is complete (`ListStepStep`), and `DestroyKey` and `Archive`
find a list that covers exactly the ledger, because it never covers more.
`RestoreImplementsList` states the same of `RestoreSpec`.
`PublicationNeverRegresses` and `RetiredSignerPublishesNothing` are weaker action
properties, proved for readers who want them in the terms of the rows.

**Restore** (`RestoreProofs`, second part).  `CRLInv` is carried over: every step of `Restore`
is, on the variables of `CRLPublication`, one of its steps or a stutter
(`OtherStepsProject`), except the end of a call or process, which disturbs no
conjunct of it (`InterruptionQuiet`).  `FinishedRestoreIsSafe` is not inductive
because `mode` changes in the last transaction and the keys die in earlier ones,
perhaps of an earlier call.  `FoundSwept` says that every leaf the database would
have delivered is dead or still found by the sweep, and dead once a call is past
it; `CredentialsClosed` the same of sessions and links; `PlanCovers` that a plan
that requires nothing was made when the published CRL had reached the ledger, or
of an archived authority; `FoundListed` then puts every such leaf into the
published list.  `Evidence` is the invariant behind `EvidenceHolds`.

**TLS** (`TLSProofs`), for both repositories.  `TLSInv` adds to the properties
what the call under the mutex knows (`CallFacts`): it works on the active
version, its row is the stored one until it ends, and what it has not swapped is
not served.  `ServedIsRecorded` rests on that, because swap and record are
different steps, and on `UnresolvedIsActive`: only the change of the active
version can be undecided.  From these two and `ResolvedWhileOpen` follows what the
SQL store makes of such a change (`InterruptedStaysUndecided`): the query cannot
return it, `Reconcile` refuses to start over it, and a bootstrap, which might
replace it, is refused as well.

**Issuance** (`IssuanceProofs`).  What a renewal prepared is what the plan says
of the series, as long as the version of the series has not moved (`Planned`);
the commit compares versions, which gives `HistoryIsLinear` and `RotationKept`.
The rows refer to each other as the schema demands (`References`,
`AnswersStored`).  `ExposedKeyNotRenewed` is an action property proved from the
same invariant; that the stored answer of a request never changes
(`AnswerStable`) is proved besides.

**Authorities** (`AuthorityProofs`).  `AuthorityInv` adds to the properties that
references point to stored rows (`References`), that a hierarchy has two levels
(`Levels`), and what a call in progress rests on (`CallFacts`): an authority that
was stored, with a key held when it signed.  The cases that matter are the
commits: each repeats the checks its preparation made, and the proof of
`EmergencyContained` uses exactly that `CommitIssue` and `CommitCreate` read the
open emergencies again.

**Imports** (`ImportProofs`), for uploads of any length.  What becomes of a file
depends on the files before it, so the resolution is a recursive function over the
upload, and the proof needs that such a function exists and satisfies its equation
(`Resolved`).  Induction comes from the well-foundedness of `<` on the naturals,
applied to a set: a set of numbers that is not empty has a least one (`Least`), and
one that contains 0 and is closed under successor is all of them (`Induct`).
`ResolveLocal` is the step: file `i` looks at files below `i` only.  From the
equation follow the facts the commit rests on: a new file is not stored, its issuer
is a root's own, in the upload or stored (`IssuerResolved`), no two new files bring
one certificate or key (`NewDistinct`), and a certificate that is not stored is new
in exactly the first file that has it (`EveryCertificate`), the least one.  The
floor of a CA is the greatest of finitely many numbers (`Greatest`).

`ImportInv` joins the properties, which need each other: a leaf is issued under a
fresh key (`IdentitiesUnique`) because a certified key is stored (`KeysKnown`); a
link stays right because certificates stay (`ChainsSound`).  `CallsKnown` says what
a prepared call still knows when it commits: a key it matched to a file of the
upload is the key of the certificate in that file, whatever was stored meanwhile.
`Kept` is what no step takes away: certificates, first facts, links and reviews of
the ledger, results, documents, floors, and that a destroyed key is gone.
`NothingUndone` is a part of it, and `AllOrNothing` and `NumbersAboveImported`
follow for earlier uploads from `Kept` and for this one from what `commitImport`
adds.

**Identity** (`IdentityProofs`).  The rows alone are not enough, because a call
commits what it read earlier.  `LoginsRead` says that what a login carries is
still the account as long as the account's version has not moved, `UpdatesRead`
the same of a settings update; with them the version check at the commit is what
keeps `EverySessionCurrent` and `SettingsKept`.  `AttemptsBounded` rests on
`Throttled`: the stored counters are exactly the rejections answered, none is above
the threshold, and a window that has not begun has counted nothing; a commit
either checks the admission again in its transaction or counts in a window that
has only just begun.  `OneLiveLink` is proved besides.

**Migrations** (`MigrationProofs`), for any number of versions and statements.
The database is `Fresh`, `IsUnrecorded`, `Finished(v)` or `Partial(v)` (`Shape`);
`Progress` bounds how far the schema of a partial version may be ahead of its
journal row.  That is not inductive without `Places`, which says where in the
shape a runner at work is: a statement is run only when the journal is level with
the schema, so the distance never grows beyond the one step `inspectWithPlan`
accepts.  The lock makes the other runners idle (`PlacesFrom`).  The shapes speak of
completed versions (`CompleteBelow`), whatever the clock made of their rows:
`AppliedIsReal` follows from `Shape` alone, and `AlwaysRecognised` because the
inspection reads a shape without a `Backwards` row and refuses every other
(`BackwardsRefused`).

Assumptions are the named `ASSUME`s of the modules (`DeliveryConstants`,
`CRLConstants`, `RestoreConstants`, `TLSConstants`, `IssuanceConstants`,
`AuthorityConstants`, `ImportConstants`, `IdentityConstants`,
`MigrationConstants`): empty references
differ from real ids, bounds and limits are natural numbers, the two kinds of TLS
version differ, the plan has a backfill version and a later one, and an upload is
a finite sequence of files of the three kinds with the facts a parser can read.

The type invariants are proved and therefore not repeated in the runs.

Only model-checked: the liveness properties (fairness and `ENABLED` are outside
this prover) and the properties of the runs that expect a violation.  Every
invariant and every action property of a passing run is proved.

## 6. Plan

Done: the modules above.  Next, in this order:

1. The lease of the execution lock as held by a server process, and the work
   gate with its timeout: two small modules.
2. An abstract specification of the served TLS configuration, with
   `TLSActivation` as its refinement.

## 7. Not modelled, and why

* `Rotate`: one offline transaction over every secret under the execution lock;
  nothing interleaves with it.  `PruneAudit`: deletes old audit rows in batches,
  which nothing else reads for a decision.
* `IssueCSRF`: replaces a random value in a session row.
* `Preview`: resolves an upload and stores nothing.
* `RevocationService` as an entry point of its own: the interface exists, the
  implementation does not; the shared batch `applyRevocations` is modelled.
* Queries, views and pagination: they read one snapshot and change nothing.
* The cryptographic engine, key and certificate formats, PKCS#12: pure functions
  of bytes.  Where a service depends on their result (a signature made from an old
  preparation, a candidate that does not validate, a forged certificate in an
  upload) the model has the outcome.
* The crypto work gate and the connection pools: semaphores and drivers, with no
  state of the installation.  That write transactions are serialised and may end
  unknown is used by every module.
* The comparison of database catalogs: normalised text.  `Migration` has its
  result.
* Configuration and command line: sequential parsing.
