------------------------------- MODULE Restore -------------------------------
(***************************************************************************)
(* The end of a database restore, as implemented by                        *)
(*   internal/app/service/maintenance.go      (FinalizeRestore)            *)
(*   internal/storage/sqlstore/operations/maintenance.go (the run's rows)  *)
(*                                                                         *)
(* FinalizeRestore is a sequence of transactions, so that it may be        *)
(* interrupted between any two and called again, under the same run id or  *)
(* another.  The revocations it makes are published by the worker of       *)
(* CRLPublication, before, between or after the calls; a run is finished   *)
(* when it has seen the document it requires.  One CA key is modelled,     *)
(* with the leaf certificates it issued; the requirements of other keys    *)
(* only have to hold as well.                                              *)
(*                                                                         *)
(* A backup holds the rows of some earlier moment.  The procedure may      *)
(* start from any state the service can leave behind, which is any of      *)
(* them.  What happened after the backup was taken is lost with it.        *)
(*                                                                         *)
(* The runtime that keeps ordinary requests out until the run is finished  *)
(* is not in the repository: StopService and Reopen are the environment.   *)
(* The ordinary service is one step for each thing it leaves behind.       *)
(***************************************************************************)
EXTENDS CRLPublication

CONSTANTS
    RunIds,   \* the run ids an operator may name
    NoRun,    \* the run of a process that is not in FinalizeRestore
    MaxRestores  \* bound on the restores

ASSUME RestoreConstants == NoRun \notin RunIds /\ MaxRestores \in Nat

VARIABLES
    delivery,    \* the state of the key_deliveries row of each leaf
    secret,      \* the leaves whose leaf_delivery secret is stored
    link,        \* the leaves with a live private download link
    credential,  \* whether sessions, reset links and public links are live
    run,         \* maintenance_runs with its maintenance_crl_requirements row
    mode,        \* whether the service is open, restored or being restored
    call,        \* the FinalizeRestore in progress
    found,       \* the leaves the last restore found deliverable
    restores     \* restores so far

leafVars == <<delivery, secret, link>>
restoreVars == <<leafVars, credential, run, mode, call, found, restores>>
allVars == <<vars, restoreVars>>

\* Sessions and reset links belong to the account, the others to certificates.
Credentials == {"account", "publicLink"}

\* The row of a key that needs nothing is absent, which is ~required.
Requirements ==
    [required : BOOLEAN, generation : Nat, number : Nat, satisfied : Nat]

NoRequirement ==
    [required |-> FALSE, generation |-> 0, number |-> 0, satisfied |-> 0]

Runs == [phase : {"none", "started", "blocked", "finished"}, crl : Requirements]

NoRunRow == [phase |-> "none", crl |-> NoRequirement]

Calls ==
    [pc : {"idle", "sessions", "deliveries", "plan", "finalize"},
     id : RunIds \cup {NoRun}, plan : Requirements]

Idle == [pc |-> "idle", id |-> NoRun, plan |-> NoRequirement]

Deliverable == {s \in Serials : delivery[s] \in {"pending", "transferring"}}

-----------------------------------------------------------------------------
(* The ordinary service, reduced to what it leaves in the database.        *)

InService == mode = "service"

\* Issue: a certificate with its delivery, its key and a private link.
IssueLeaf(s) ==
    /\ InService
    /\ delivery[s] = "none"
    /\ delivery' = [delivery EXCEPT ![s] = "pending"]
    /\ secret' = secret \cup {s}
    /\ link' = link \cup {s}
    /\ UNCHANGED <<vars, credential, run, mode, call, found, restores>>

\* commitConsumption of a private delivery.
ConsumeDelivery(s) ==
    /\ InService
    /\ delivery[s] = "pending" /\ s \in link
    /\ delivery' = [delivery EXCEPT ![s] = "transferring"]
    /\ secret' = secret \ {s}
    /\ link' = link \ {s}
    /\ UNCHANGED <<vars, credential, run, mode, call, found, restores>>

\* recordPrivateOutcome of a transfer that succeeded.
CompleteDelivery(s) ==
    /\ InService
    /\ delivery[s] = "transferring"
    /\ delivery' = [delivery EXCEPT ![s] = "completed"]
    /\ UNCHANGED <<vars, secret, link, credential, run, mode, call, found, restores>>

\* The revocation every failed delivery comes with.
RevokeLeaf(s) ==
    /\ \E f \in Facts :
         ApplyIssuerBatch(
            [t \in {s} |-> [facts |-> f, linked |-> TRUE, review |-> FALSE]], crl)
    /\ UNCHANGED <<docs, imported, signer, worker, demand, faults>>

\* A failed transfer or an expired delivery; the expiry keeps the secret.
FailDelivery(s) ==
    /\ InService
    /\ s \in Deliverable
    /\ delivery' = [delivery EXCEPT ![s] = "failed"]
    /\ link' = link \ {s}
    /\ RevokeLeaf(s)
    /\ UNCHANGED <<secret, credential, run, mode, call, found, restores>>

\* Login, BeginReset and new public download links, of all kinds at once.
OpenCredentials ==
    /\ InService
    /\ credential' = Credentials
    /\ UNCHANGED <<vars, leafVars, run, mode, call, found, restores>>

\* The ledger and the worker of CRLPublication.
CRLService ==
    /\ InService
    /\ \/ ApplyRevocations
       \/ \E n \in ImportedNumbers : ImportCRL(n)
       \/ RequestPublication
       \/ DestroyKey
       \/ Archive
    /\ UNCHANGED restoreVars

CRLWorker ==
    /\ \/ LeaseLapses
       \/ \E w \in Workers : Publish(w) \/ WorkerStops(w)
    /\ UNCHANGED restoreVars

\* The service is stopped and a database put in place: the rows are those of
\* some moment, and no call of anything is in progress.
StopService ==
    /\ InService
    /\ restores < MaxRestores
    /\ restores' = restores + 1
    /\ mode' = "restore"
    /\ worker' = [w \in Workers |-> IdleWorker]
    /\ found' = Deliverable
    /\ UNCHANGED <<storeVars, demand, faults, leafVars, credential, run, call>>

\* The runtime opens the service, only for a restore that was finished.
Reopen ==
    /\ mode = "restored"
    /\ mode' = "service"
    /\ UNCHANGED <<vars, leafVars, credential, run, call, found, restores>>

-----------------------------------------------------------------------------
(* FinalizeRestore.                                                        *)

\* startRestoreRun: the row is created, or opened again.
StartRestoreRun(r) ==
    /\ mode # "service"
    /\ call.pc = "idle"
    /\ mode' = "restore"
    /\ run' = [run EXCEPT ![r].phase = "started"]
    /\ call' = [Idle EXCEPT !.pc = "sessions", !.id = r]
    /\ UNCHANGED <<vars, leafVars, credential, found, restores>>

\* invalidateAllAdminSessions, for the one administrator account.
InvalidateAllAdminSessions ==
    /\ call.pc = "sessions"
    /\ credential' = credential \ {"account"}
    /\ call' = [call EXCEPT !.pc = "deliveries"]
    /\ UNCHANGED <<vars, leafVars, run, mode, found, restores>>

\* Mutant of SweepDue: a transfer in progress is left to the next start.
SweepDuePending(s) == delivery[s] = "pending"

\* deleteRestorePendingKeys goes through the pending rows in batches until
\* there are none, then through the transferring ones.
SweepDue(s) ==
    \/ delivery[s] = "pending"
    \/ /\ delivery[s] = "transferring"
       /\ \A t \in Serials : delivery[t] # "pending"

RestoreOneDelivery(s) ==
    /\ call.pc = "deliveries"
    /\ SweepDue(s)
    /\ delivery' = [delivery EXCEPT ![s] = "failed"]
    /\ secret' = secret \ {s}
    /\ link' = link \ {s}
    /\ RevokeLeaf(s)
    /\ UNCHANGED <<credential, run, mode, call, found, restores>>

\* The end of deleteRestorePendingKeys.
InvalidateAllPublicGrants ==
    /\ call.pc = "deliveries"
    /\ \A s \in Serials : ~SweepDue(s)
    /\ credential' = credential \ {"publicLink"}
    /\ call' = [call EXCEPT !.pc = "plan"]
    /\ UNCHANGED <<vars, leafVars, run, mode, found, restores>>

NextNumber == crl.maxReserved + 1

\* The requirement raised to the generation the ledger has reached.
RaiseRequirement(q) ==
    IF crl.revGen > q.generation
    THEN [q EXCEPT !.generation = crl.revGen,
                   !.number = IF NextNumber > @ THEN NextNumber ELSE @]
    ELSE q

\* What restoreCRLPlan makes of the requirement stored for the run.
PlannedRequirement(q) ==
    IF signer.archived THEN NoRequirement
    ELSE IF q.required THEN RaiseRequirement(q)
    ELSE IF crl.revGen <= crl.published.covered THEN NoRequirement
    ELSE [required |-> TRUE, generation |-> crl.revGen, number |-> NextNumber,
          satisfied |-> 0]

RestoreCRLPlan ==
    /\ call.pc = "plan"
    /\ call' = [call EXCEPT !.pc = "finalize",
                            !.plan = PlannedRequirement(run[call.id].crl)]
    /\ UNCHANGED <<vars, leafVars, credential, run, mode, found, restores>>

\* crlRequirementSatisfied
CRLRequirementSatisfied(q) ==
    /\ q.number > 0
    /\ crl.published.covered >= q.generation
    /\ crl.published.number >= q.number

\* Mutant of WithEvidence: a document found once is kept.
WithEvidenceKept(q) ==
    IF CRLRequirementSatisfied(q) /\ q.satisfied = 0
    THEN [q EXCEPT !.satisfied = crl.published.number] ELSE q

\* The requirement with the document that satisfies it now, if one does.
WithEvidence(q) ==
    [q EXCEPT !.satisfied =
        IF CRLRequirementSatisfied(q) THEN crl.published.number ELSE 0]

\* Mutant of RecordCRLDemand: a key that already has a job row needs no other.
RecordCRLDemandOnce ==
    job' = IF job.state = "none"
           THEN [state |-> "pending", lease |-> "none"] ELSE job

\* recordCRLDemand
RecordCRLDemand == UpsertDemand

\* finalizeRestoreRun: the requirement is checked again under the lock on the
\* CRL state and stored; without a document the run is blocked, and the worker
\* is asked for one if there is a key to sign it.
FinalizeRestoreRun ==
    /\ call.pc = "finalize"
    /\ LET requirement == WithEvidence(RaiseRequirement(call.plan))
           completed == call.plan.required => requirement.satisfied > 0
       IN /\ run' = [run EXCEPT ![call.id] =
                       [phase |-> IF completed THEN "finished" ELSE "blocked",
                        crl |-> IF call.plan.required THEN requirement ELSE @.crl]]
          /\ mode' = IF completed THEN "restored" ELSE mode
          /\ IF ~completed /\ signer.key
             THEN RecordCRLDemand
             ELSE UNCHANGED job
    /\ call' = Idle
    /\ UNCHANGED <<revocation, crl, docs, imported, signer, worker, demand,
                   faults, leafVars, credential, found, restores>>

\* A transaction of the call fails, or the process exits.  One whose commit is
\* reported as failed but took effect is its own step, then this one.
CallStops ==
    /\ call.pc # "idle"
    /\ faults < MaxFaults
    /\ faults' = faults + 1
    /\ call' = Idle
    /\ UNCHANGED <<storeVars, worker, demand, leafVars, credential, run, mode, found,
                   restores>>

-----------------------------------------------------------------------------
RestoreInit ==
    /\ Init
    /\ delivery = [s \in Serials |-> "none"]
    /\ secret = {}
    /\ link = {}
    /\ credential = {}
    /\ run = [r \in RunIds |-> NoRunRow]
    /\ mode = "service"
    /\ call = Idle
    /\ found = {}
    /\ restores = 0

Service ==
    \/ \E s \in Serials :
        IssueLeaf(s) \/ ConsumeDelivery(s) \/ CompleteDelivery(s) \/ FailDelivery(s)
    \/ OpenCredentials
    \/ CRLService
    \/ StopService
    \/ Reopen

FinalizeRestore ==
    \/ InvalidateAllAdminSessions
    \/ \E s \in Serials : RestoreOneDelivery(s)
    \/ InvalidateAllPublicGrants
    \/ RestoreCRLPlan
    \/ FinalizeRestoreRun

RestoreNext ==
    \/ Service
    \/ CRLWorker
    \/ \E r \in RunIds : StartRestoreRun(r)
    \/ FinalizeRestore
    \/ CallStops

RestoreSpec == RestoreInit /\ [][RestoreNext]_allVars

\* The operator calls FinalizeRestore until a run is finished, a call runs to
\* its end or stops, and the worker is the one of CRLPublication.
RestoreFairness ==
    /\ WF_allVars(mode = "restore" /\ \E r \in RunIds : StartRestoreRun(r))
    /\ WF_allVars(FinalizeRestore)
    /\ WF_allVars(LeaseLapses /\ UNCHANGED restoreVars)
    /\ \A w \in Workers : WF_allVars(Publish(w) /\ UNCHANGED restoreVars)

FairRestoreSpec == RestoreSpec /\ RestoreFairness

-----------------------------------------------------------------------------
(* Properties.                                                             *)

\* Every variable of the procedure holds a value of the table it models.
RestoreTypeOK ==
    /\ TypeOK
    /\ delivery \in [Serials ->
         {"none", "pending", "transferring", "completed", "failed"}]
    /\ secret \subseteq Serials
    /\ link \subseteq Serials
    /\ credential \subseteq Credentials
    /\ run \in [RunIds -> Runs]
    /\ mode \in {"service", "restore", "restored"}
    /\ call \in Calls
    /\ found \subseteq Serials
    /\ restores \in Nat

\* When a restore is finished, and for good after the service is open again,
\* every key the restored database would still have delivered is unusable:
\* its delivery has failed, no copy and no link is left, and the published CRL
\* lists its certificate (an archived authority publishes none).  Sessions and
\* links of the restored database are gone when the service opens.
FinishedRestoreIsSafe ==
    /\ mode # "restore" =>
        \A s \in found :
            /\ delivery[s] = "failed"
            /\ s \notin secret /\ s \notin link
            /\ s \in Revoked
            /\ s \in crl.published.listed \/ signer.archived
    /\ mode = "restored" => credential = {}

\* The document a requirement names as its evidence was signed and stored,
\* with a number and a generation not below the required ones, and lists every
\* revocation up to that generation, however often the requirement has been
\* raised and the run has been called again.
EvidenceHolds ==
    \A r \in RunIds :
        run[r].crl.satisfied > 0 =>
            \E d \in docs :
                /\ d.number = run[r].crl.satisfied
                /\ d.number >= run[r].crl.number
                /\ d.covered >= run[r].crl.generation
                /\ \A s \in Revoked :
                     revocation[s].stamp <= run[r].crl.generation => s \in d.listed

\* A restore is eventually finished, although calls and workers stop and a
\* number may have been reserved before the requirement was computed, as long
\* as the key can sign.
RestoreCompletes == mode = "restore" ~> (mode = "restored" \/ ~CanSignCRL)

=============================================================================
