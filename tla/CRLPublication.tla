--------------------------- MODULE CRLPublication ---------------------------
(***************************************************************************)
(* The revocation ledger of one CA key generation and the publication of   *)
(* its CRLs, as implemented by                                             *)
(*   internal/domain/revocation.go          (Revocation, CRLState)         *)
(*   internal/app/service/revocations.go    (applyRevocations)             *)
(*   internal/app/service/crl.go            (RequestPublication, Publish)  *)
(*   internal/app/service/importing.go      (insertImportedCRL)            *)
(*   internal/app/service/authority.go      (DestroyKey, Archive)          *)
(*   internal/storage/sqlstore/operations/jobs.go (the job row)            *)
(*                                                                         *)
(* Ledger, CRL state and jobs of different CA keys never meet, so one key  *)
(* is modelled.  Each write transaction is one step.  A Publish is two of  *)
(* them, reserveSnapshot and finalizePublish, with the signature between   *)
(* them: another worker, a revocation or an import may come in there.      *)
(*                                                                         *)
(* No code calls CRLState.Close, so the "closed" publication state has no  *)
(* step here, and "active" is having a published document.                 *)
(***************************************************************************)
EXTENDS Naturals, FiniteSets

CONSTANTS
    Serials,         \* serial numbers the key has issued
    Facts,           \* (reason, revoked_at) pairs a revocation may state
    NoFacts,         \* the facts of a serial that is not revoked
    Workers,         \* calls of Publish that may be in progress at a time
    ImportedNumbers, \* numbers of CRLs an operator may import, 0 for none
    MaxGeneration,   \* bound on revocation_generation
    MaxDemands,      \* bound on the publications requested
    MaxFaults        \* bound on stopped workers and on leases outlived

ASSUME CRLConstants ==
    /\ NoFacts \notin Facts
    /\ ImportedNumbers \subseteq Nat
    /\ MaxGeneration \in Nat
    /\ MaxDemands \in Nat
    /\ MaxFaults \in Nat

VARIABLES
    revocation,  \* the revocations rows, by serial
    crl,         \* the crl_states row
    docs,        \* the generated rows of crl_documents
    imported,    \* the highest number among the imported rows, 0 for none
    job,         \* the one jobs row with this key's dedup_key
    signer,      \* the authority: whether it has its key, and is archived
    worker,      \* the calls of Publish in progress
    demand,      \* how many publications an administrator has requested
    faults       \* stopped workers and outlived leases so far

storeVars == <<revocation, crl, docs, imported, job, signer>>
vars == <<storeVars, worker, demand, faults>>

Documents == [number : Nat, covered : Nat, listed : SUBSET Serials]

NoDocument == [number |-> 0, covered |-> 0, listed |-> {}]

RevocationRows ==
    [stamp : Nat, facts : Facts \cup {NoFacts}, linked : BOOLEAN,
     review : BOOLEAN]

NotRevoked ==
    [stamp |-> 0, facts |-> NoFacts, linked |-> FALSE, review |-> FALSE]

CRLStates == [maxReserved : Nat, revGen : Nat, published : Documents]

JobRows ==
    [state : {"none", "pending", "running", "succeeded"},
     lease : {"none", "live", "expired"}]

WorkerRows ==
    [pc : {"idle", "claimed", "reserved"}, doc : Documents]

IdleWorker == [pc |-> "idle", doc |-> NoDocument]

-----------------------------------------------------------------------------
(* The revocation ledger.                                                  *)

Revoked == {s \in Serials : revocation[s].stamp > 0}

\* Revocation.Merge: the stored facts win.  The same facts may add the link to
\* the certificate, other facts only ask for a review.
Merge(row, change) ==
    IF row.facts = change.facts
    THEN [row EXCEPT !.linked = row.linked \/ change.linked]
    ELSE [row EXCEPT !.review = TRUE]

\* resolveChange: NewRevocation for an unknown serial, Merge for a known one.
ResolveChange(s, change) ==
    IF s \in Revoked
    THEN Merge(revocation[s], change)
    ELSE [stamp |-> 0, facts |-> change.facts, linked |-> change.linked,
          review |-> change.review]

\* The serials of a batch for which resolveChange reports a change.
Pending(batch) ==
    {s \in DOMAIN batch : ResolveChange(s, batch[s]) # revocation[s]}

\* StampChangeGeneration on every pending row of a batch.
Stamped(batch, generation) ==
    [s \in Serials |->
        IF s \in Pending(batch)
        THEN [ResolveChange(s, batch[s]) EXCEPT !.stamp = generation]
        ELSE revocation[s]]

\* Mutant of UpsertDemand: a finished row stays finished.
UpsertDemandMerges ==
    job' = IF job.state = "none"
           THEN [state |-> "pending", lease |-> "none"]
           ELSE job

\* JobRepository.UpsertDemand: insert a pending row, or reopen a finished one;
\* a pending or running row keeps its state.
UpsertDemand ==
    job' = IF job.state \in {"none", "succeeded"}
           THEN [state |-> "pending", lease |-> "none"]
           ELSE job

\* applyIssuerBatch on the CRL state `state`: nothing to write when no row
\* changes, else one new generation, stamped on every changed row.
ApplyIssuerBatch(batch, state) ==
    \/ /\ Pending(batch) = {}
       /\ crl' = state
       /\ UNCHANGED <<revocation, job>>
    \/ /\ Pending(batch) # {}
       /\ crl.revGen < MaxGeneration
       /\ crl' = [state EXCEPT !.revGen = @ + 1]
       /\ revocation' = Stamped(batch, crl.revGen + 1)
       /\ UpsertDemand

\* applyRevocations, inside the transaction of any of its callers: a failed
\* or expired delivery, a transition, an operator pass.
ApplyRevocations ==
    /\ \E S \in SUBSET Serials :
        \E batch \in [S -> [facts : Facts, linked : {TRUE}, review : {FALSE}]] :
            ApplyIssuerBatch(batch, crl)
    /\ UNCHANGED <<docs, imported, signer, worker, demand, faults>>

\* CRLState.ObserveImportedNumber
ObserveImportedNumber(number) ==
    IF number > crl.maxReserved
    THEN [crl EXCEPT !.maxReserved = number]
    ELSE crl

\* insertImportedCRL and the applyRevocations that ends the import.  The
\* entries of a CRL past its nextUpdate are all marked for review.
ImportCRL(number) ==
    /\ imported' = IF number > imported THEN number ELSE imported
    /\ \E S \in SUBSET Serials, stale \in BOOLEAN :
        \E batch \in [S -> [facts : Facts, linked : BOOLEAN, review : {stale}]] :
            ApplyIssuerBatch(batch, ObserveImportedNumber(number))
    /\ UNCHANGED <<docs, signer, worker, demand, faults>>

-----------------------------------------------------------------------------
(* Demand and retirement, both by an administrator.                        *)

\* CRLService.RequestPublication
RequestPublication ==
    /\ demand < MaxDemands
    /\ UpsertDemand
    /\ demand' = demand + 1
    /\ UNCHANGED <<revocation, crl, docs, imported, signer, worker, faults>>

\* authorityClosureFacts.RequiredCRLsPublished, for a key that has issued.
RequiredCRLsPublished ==
    /\ crl.published.number > 0
    /\ crl.published.covered >= crl.revGen

\* AuthorityService.DestroyKey.  That issuance is stopped and every dependent
\* certificate has expired are facts of other components, true at any time
\* here.
DestroyKey ==
    /\ signer.key
    /\ RequiredCRLsPublished
    /\ signer' = [signer EXCEPT !.key = FALSE]
    /\ UNCHANGED <<revocation, crl, docs, imported, job, worker, demand, faults>>

\* AuthorityService.Archive, before or after the key is destroyed.
Archive ==
    /\ ~signer.archived
    /\ RequiredCRLsPublished
    /\ signer' = [signer EXCEPT !.archived = TRUE]
    /\ UNCHANGED <<revocation, crl, docs, imported, job, worker, demand, faults>>

-----------------------------------------------------------------------------
(* Publication.                                                            *)

\* Authority.CanSignCRL and the key check of loadCRLSigningAuthority.  A CA
\* certificate outside its validity window stops the call as any error does.
CanSignCRL == signer.key /\ ~signer.archived

\* Mutant of JobDue: a running row is never due again.
JobDuePending == job.state = "pending"

\* The due jobs of JobRepository.ClaimDue.
JobDue ==
    \/ job.state = "pending"
    \/ job.state = "running" /\ job.lease = "expired"

ClaimDue(w) ==
    /\ worker[w].pc = "idle"
    /\ JobDue
    /\ job' = [state |-> "running", lease |-> "live"]
    /\ worker' = [worker EXCEPT ![w] = [IdleWorker EXCEPT !.pc = "claimed"]]
    /\ UNCHANGED <<revocation, crl, docs, imported, signer, demand, faults>>

\* Mutant of ReserveNext: the number after the published one.
ReserveAfterPublished == crl.published.number + 1

\* CRLState.ReserveNext
ReserveNext == crl.maxReserved + 1

\* reserveSnapshot: number, generation and ledger are read under one lock.
ReserveSnapshot(w) ==
    /\ worker[w].pc = "claimed"
    /\ CanSignCRL
    /\ crl' = [crl EXCEPT !.maxReserved = ReserveNext]
    /\ worker' = [worker EXCEPT ![w] =
                    [pc |-> "reserved",
                     doc |-> [number |-> ReserveNext, covered |-> crl.revGen,
                              listed |-> Revoked]]]
    /\ UNCHANGED <<revocation, docs, imported, job, signer, demand, faults>>

\* Mutant of CanPublish: whichever CRL is finished last is the current one.
CanPublishLast(doc) == TRUE

\* CRLState.CanPublish; a refusal is a conflict, since nothing is closed.
CanPublish(doc) ==
    /\ doc.number > crl.published.number
    /\ doc.covered >= crl.published.covered

\* Mutant of MarkPublished: credits the current generation to the document.
MarkPublishedCurrent(doc) ==
    [crl EXCEPT !.published = [doc EXCEPT !.covered = crl.revGen]]

\* CRLState.MarkPublished
MarkPublished(doc) == [crl EXCEPT !.published = doc]

\* The job row after a publication that leaves the CRL state `state`.
FinishJob(state) ==
    IF job.state # "running" THEN job
    ELSE [job EXCEPT !.state =
            IF state.revGen > state.published.covered
            THEN "pending" ELSE "succeeded"]

MayFinalize(w) == worker[w].pc = "reserved" /\ CanSignCRL

\* finalizePublish: the document is stored, and becomes the current one unless
\* a later one already is.
FinalizePublish(w) ==
    /\ MayFinalize(w)
    /\ docs' = docs \cup {worker[w].doc}
    /\ crl' = IF CanPublish(worker[w].doc)
              THEN MarkPublished(worker[w].doc) ELSE crl
    /\ job' = FinishJob(crl')
    /\ worker' = [worker EXCEPT ![w] = IdleWorker]
    /\ UNCHANGED <<revocation, imported, signer, demand, faults>>

\* Either transaction of Publish returns the signer's refusal.
PublishRefused(w) ==
    /\ worker[w].pc # "idle"
    /\ ~CanSignCRL
    /\ worker' = [worker EXCEPT ![w] = IdleWorker]
    /\ UNCHANGED <<storeVars, demand, faults>>

\* Publish fails for another reason, its signature included, or the process
\* exits.  The job row keeps its lease.  A transaction whose commit is reported
\* as failed but took effect is its own step, then this one.
WorkerStops(w) ==
    /\ worker[w].pc # "idle"
    /\ faults < MaxFaults
    /\ faults' = faults + 1
    /\ worker' = [worker EXCEPT ![w] = IdleWorker]
    /\ UNCHANGED <<storeVars, demand>>

\* Time reaches lease_until.  It may do so under a worker that is only slow.
LeaseLapses ==
    /\ job.state = "running" /\ job.lease = "live"
    /\ job' = [job EXCEPT !.lease = "expired"]
    /\ IF \A w \in Workers : worker[w].pc = "idle"
       THEN UNCHANGED faults
       ELSE faults < MaxFaults /\ faults' = faults + 1
    /\ UNCHANGED <<revocation, crl, docs, imported, signer, worker, demand>>

-----------------------------------------------------------------------------
Init ==
    /\ revocation = [s \in Serials |-> NotRevoked]
    /\ crl = [maxReserved |-> 0, revGen |-> 0, published |-> NoDocument]
    /\ docs = {}
    /\ imported = 0
    /\ job = [state |-> "none", lease |-> "none"]
    /\ signer = [key |-> TRUE, archived |-> FALSE]
    /\ worker = [w \in Workers |-> IdleWorker]
    /\ demand = 0
    /\ faults = 0

Publish(w) ==
    ClaimDue(w) \/ ReserveSnapshot(w) \/ FinalizePublish(w) \/ PublishRefused(w)

Next ==
    \/ ApplyRevocations
    \/ \E n \in ImportedNumbers : ImportCRL(n)
    \/ RequestPublication
    \/ DestroyKey
    \/ Archive
    \/ LeaseLapses
    \/ \E w \in Workers : Publish(w) \/ WorkerStops(w)

Spec == Init /\ [][Next]_vars

\* The worker loop polls for due jobs, a call of Publish runs to its end or
\* stops, and time passes.
Fairness ==
    /\ WF_vars(LeaseLapses)
    /\ \A w \in Workers : WF_vars(Publish(w))

FairSpec == Spec /\ Fairness

-----------------------------------------------------------------------------
(* Properties.                                                             *)

\* Every variable holds a value of the table or record it models.
TypeOK ==
    /\ revocation \in [Serials -> RevocationRows]
    /\ crl \in CRLStates
    /\ docs \subseteq Documents
    /\ imported \in Nat
    /\ job \in JobRows
    /\ signer \in [key : BOOLEAN, archived : BOOLEAN]
    /\ worker \in [Workers -> WorkerRows]
    /\ demand \in Nat
    /\ faults \in Nat

\* The checks of validateState and validatePublishedDocument never refuse a
\* state the services save: what is published is a stored document, neither
\* its number nor its generation is ahead of what was reserved or recorded,
\* and no revocation carries a generation that is still to come.
StorableState ==
    /\ crl.published \in docs \cup {NoDocument}
    /\ crl.published.number <= crl.maxReserved
    /\ crl.published.covered <= crl.revGen
    /\ imported <= crl.maxReserved
    /\ \A s \in Serials : revocation[s].stamp <= crl.revGen

\* The documents signed so far, stored or still with a worker.
Issued == docs \cup {worker[w].doc : w \in {v \in Workers : worker[v].pc = "reserved"}}

\* A number is used for one snapshot only, and a larger number never stands
\* for an older snapshot, whatever the order in which the workers finish:
\* the reservation captures number, generation and ledger together.
NumbersInSnapshotOrder ==
    /\ \A d, e \in Issued :
        d.number <= e.number => d.covered <= e.covered /\ d.listed \subseteq e.listed
    /\ \A v, w \in Workers :
        /\ worker[v].pc = "reserved" /\ worker[w].pc = "reserved"
        /\ worker[v].doc.number = worker[w].doc.number
        => v = w

\* Every CRL signed so far, published or not, lists exactly revocations of the
\* ledger and misses none up to the generation it covers, although rows are
\* stamped again when a later report of the same serial is merged.
IssuedWithinLedger ==
    \A d \in Issued :
        /\ d.number \in 1..crl.maxReserved
        /\ d.covered <= crl.revGen
        /\ d.listed \subseteq Revoked
        /\ \A s \in Revoked : revocation[s].stamp <= d.covered => s \in d.listed

\* The published CRL lists every revocation of the generation it is credited
\* with: publishedGeneration is what RequiredCRLsPublished, the follow-up
\* check and the restore requirements trust.
PublishedCoversLedger ==
    \A s \in Revoked :
        revocation[s].stamp <= crl.published.covered => s \in crl.published.listed

\* A revocation the published CRL does not yet cover always has a job row that
\* a worker will take: neither a merge into a running job nor a completion
\* that lost a race drops the demand.
DemandNotLost ==
    crl.revGen > crl.published.covered => job.state \in {"pending", "running"}

\* Publication never goes back: a replacement has a larger number, covers no
\* older generation, and still lists every serial that was listed.
PublicationNeverRegresses ==
    [][crl'.published # crl.published =>
        /\ crl'.published.number > crl.published.number
        /\ crl'.published.covered >= crl.published.covered
        /\ crl.published.listed \subseteq crl'.published.listed]_vars

\* Once the key is destroyed or its authority archived nothing is published,
\* not even by a call that reserved its number before.
RetiredSignerPublishesNothing ==
    [][~CanSignCRL => crl'.published = crl.published]_vars

\* Every recorded revocation is eventually covered by the published CRL, with
\* workers that stop and leases that lapse, unless the signer is retired.
RevocationPublished ==
    \A g \in 1..MaxGeneration :
        crl.revGen >= g ~> (crl.published.covered >= g \/ ~CanSignCRL)

=============================================================================
