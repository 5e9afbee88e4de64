------------------------------ MODULE Delivery ------------------------------
(***************************************************************************)
(* One-shot delivery of leaf private keys, as implemented by               *)
(*   internal/domain/delivery.go            (Delivery, DownloadGrant)      *)
(*   internal/app/service/distribution.go   (Deliver: prepare and consume) *)
(*   internal/app/service/deliver_postprocess.go (send, record outcome)    *)
(*   internal/app/service/recovery.go       (restart recovery)             *)
(*   internal/app/service/maintenance.go    (expiry scan, operator pass)   *)
(* over the repositories of internal/storage/sqlstore/delivery.            *)
(*                                                                         *)
(* UnitOfWork.Write serialises the write transactions of the process, so a *)
(* write transaction is one step.  It ends committed, rolled back (nothing *)
(* changed) or unknown: the commit returned an error, and the changes are  *)
(* there or not.                                                           *)
(*                                                                         *)
(* A delivery stands for a leaf certificate, its fresh key generation and  *)
(* the encrypted key kept for it: the schema makes the three one-to-one.   *)
(***************************************************************************)
EXTENDS Naturals, FiniteSets

CONSTANTS
    Deliveries,      \* rows of key_deliveries that may be issued
    Grants,          \* rows of download_tokens that may be created
    Requests,        \* concurrent calls of Deliver
    None,            \* the grant of an idle call, the target of an unused grant
    DeliveryWindow,  \* receipt window of a fresh delivery, in clock ticks
    LinkWindow,      \* life of a download link, in clock ticks
    MaxTime          \* bound on the clock

ASSUME DeliveryConstants ==
    /\ None \notin Grants \cup Deliveries
    /\ DeliveryWindow \in Nat \ {0}
    /\ LinkWindow \in Nat \ {0}
    /\ MaxTime \in Nat \ {0}

VARIABLES
    clock,       \* what Clock.Now returns; it may also step back
    delivery,    \* key_deliveries
    secret,      \* deliveries whose leaf_delivery ciphertext is stored
    grant,       \* download_tokens
    revoked,     \* deliveries whose certificate is revoked
    audit,       \* audit events written with the rows
    phase,       \* "down", "recovering", "open", or "closed" by FailClosed
    recoverNow,  \* the instant the restart recovery read once, 0 before
    req,         \* the calls of Deliver in progress
    handed       \* how often the plaintext key was given to a sink

storeVars == <<delivery, secret, grant, revoked, audit>>
vars == <<clock, storeVars, phase, recoverNow, req, handed>>

Unset == 0       \* a zero domain.Instant

Instants == Nat

DeliveryStates ==
    {"none", "pending", "transferring", "server_completed", "failed"}

FailureCodes ==
    {"", "transfer_failed", "transfer_panic", "interrupted_transfer",
     "delivery_expired"}

DeliveryRows ==
    [state : DeliveryStates, expiresAt : Instants, consumedAt : Instants,
     finishedAt : Instants, code : FailureCodes]

GrantPurposes == {"leaf_private", "leaf_public"}

GrantRows ==
    [state : {"none", "live", "consumed", "invalidated"},
     purpose : GrantPurposes, target : Deliveries \cup {None},
     expiresAt : Instants]

SendResults == {"none", "completed", "failed", "panicked"}

RequestRows ==
    [pc : {"idle", "prepared", "consumed", "sending", "recording"},
     grant : Grants \cup {None}, consumedAt : Instants,
     finishedAt : Instants, result : SendResults]

AuditActions ==
    {"private.start", "private.completed", "private.failed",
     "public.start", "public.completed", "public.failed",
     "recovery", "recover_transfers", "expiry"}

IdleRequest ==
    [pc |-> "idle", grant |-> None, consumedAt |-> Unset,
     finishedAt |-> Unset, result |-> "none"]

NoDelivery ==
    [state |-> "none", expiresAt |-> Unset, consumedAt |-> Unset,
     finishedAt |-> Unset, code |-> ""]

UnusedGrant ==
    [state |-> "none", purpose |-> "leaf_public", target |-> None,
     expiresAt |-> Unset]

-----------------------------------------------------------------------------
(* Domain rules.                                                           *)

\* Mutant of IsExpiredAt: the deadline itself is still in time.
IsExpiredAfter(expiresAt, now) == now > expiresAt

IsExpiredAt(expiresAt, now) == now >= expiresAt

\* Delivery.CanConsume
CanConsume(d, now) ==
    /\ delivery[d].state = "pending"
    /\ ~IsExpiredAt(delivery[d].expiresAt, now)

\* DownloadGrant.Validate, called with the grant's own purpose and target
Validate(g, now) ==
    /\ grant[g].state = "live"
    /\ ~IsExpiredAt(grant[g].expiresAt, now)

\* Delivery.Consume
Consume(d, now) ==
    [delivery EXCEPT ![d].state = "transferring", ![d].consumedAt = now]

\* Mutant of CanComplete: a late success overrides a recorded failure.
CanCompleteLate(d) == delivery[d].state \in {"transferring", "failed"}

\* Delivery.Complete
CanComplete(d) == delivery[d].state = "transferring"

Complete(d, now) ==
    [delivery EXCEPT ![d].state = "server_completed", ![d].finishedAt = now]

\* Delivery.Fail: from any state but the terminal ones; a completed delivery
\* may still be failed.
CanFail(d) == delivery[d].state \in {"pending", "transferring", "server_completed"}

Fail(d, code, now) ==
    [delivery EXCEPT ![d].state = "failed", ![d].code = code,
                     ![d].finishedAt = now]

Private(g) == grant[g].purpose = "leaf_private"

\* DeliveryRepository.InvalidatePrivateGrants and InvalidatePublicGrants:
\* a consumed or invalidated grant is never touched.
InvalidateGrants(gs, d, purpose) ==
    [g \in Grants |->
        IF gs[g].state = "live" /\ gs[g].purpose = purpose /\ gs[g].target = d
        THEN [gs[g] EXCEPT !.state = "invalidated"]
        ELSE gs[g]]

InvalidatePrivateGrants(gs, d) == InvalidateGrants(gs, d, "leaf_private")

Event(action, of) == <<action, of>>

\* Mutant of FailAndRevoke: the revocation is forgotten.
FailOnly(d, code, now, event) ==
    /\ CanFail(d)
    /\ delivery' = Fail(d, code, now)
    /\ audit' = audit \cup {event}
    /\ UNCHANGED revoked

\* The part of a failing transaction every path shares: the row becomes
\* failed and applyRevocations revokes the certificate and audits it.
FailAndRevoke(d, code, now, event) ==
    /\ CanFail(d)
    /\ delivery' = Fail(d, code, now)
    /\ revoked' = revoked \cup {d}
    /\ audit' = audit \cup {event}

FailClosed == phase' = "closed"

\* New calls are admitted in "open" only; a call or pass admitted before
\* FailClosed runs on until the process ends.
Running == phase \in {"open", "closed"}

-----------------------------------------------------------------------------
(* Rows appear.                                                            *)

\* storeFreshKeyAndDelivery, inside the issuing transaction
StoreFreshKeyAndDelivery(d) ==
    /\ phase = "open"
    /\ delivery[d].state = "none"
    /\ delivery' = [delivery EXCEPT ![d].state = "pending",
                                    ![d].expiresAt = clock + DeliveryWindow]
    /\ secret' = secret \cup {d}
    /\ UNCHANGED <<clock, grant, revoked, audit, phase, recoverNow, req, handed>>

\* The writer of download links is not in the repository; the port lets it
\* insert a grant for any stored delivery and replace the public links.
InsertGrant(g, d, purpose) ==
    /\ phase = "open"
    /\ grant[g].state = "none"
    /\ delivery[d].state # "none"
    /\ LET before == IF purpose = "leaf_public"
                     THEN InvalidateGrants(grant, d, purpose) ELSE grant
       IN  grant' = [before EXCEPT ![g] =
                        [state |-> "live", purpose |-> purpose, target |-> d,
                         expiresAt |-> clock + LinkWindow]]
    /\ UNCHANGED <<clock, delivery, secret, revoked, audit, phase, recoverNow,
                   req, handed>>

-----------------------------------------------------------------------------
(* DistributionService.Deliver.                                            *)

\* prepare: a read snapshot, then the encoder builds the payload in memory.
\* Nothing it read authorises the commit.
Prepare(r, g) ==
    /\ phase = "open"
    /\ req[r].pc = "idle"
    /\ Validate(g, clock)
    /\ Private(g) => /\ CanConsume(grant[g].target, clock)
                     /\ grant[g].target \in secret
    /\ req' = [req EXCEPT ![r].pc = "prepared", ![r].grant = g]
    /\ UNCHANGED <<clock, storeVars, phase, recoverNow, handed>>

\* Mutant of ConsumeStored: the checks made by prepare are trusted.
ConsumeStoredUnchecked(g) ==
    LET d == grant[g].target
        spent == [grant EXCEPT ![g].state = "consumed"]
    IN  /\ grant' = IF Private(g) THEN InvalidatePrivateGrants(spent, d) ELSE spent
        /\ delivery' = IF Private(g) THEN Consume(d, clock) ELSE delivery
        /\ secret' = IF Private(g) THEN secret \ {d} ELSE secret
        /\ audit' = audit \cup {Event("private.start", g)}
        /\ UNCHANGED revoked

\* The callback of commitConsumption, run under the write lock with a fresh
\* reading of the clock.
ConsumeStored(g) ==
    /\ Validate(g, clock)
    /\ IF Private(g)
       THEN LET d == grant[g].target
                spent == [grant EXCEPT ![g].state = "consumed"]
            IN  /\ CanConsume(d, clock)
                /\ grant' = InvalidatePrivateGrants(spent, d)
                /\ delivery' = Consume(d, clock)
                /\ secret' = secret \ {d}
                /\ audit' = audit \cup {Event("private.start", g)}
                /\ UNCHANGED revoked
       ELSE /\ grant' = [grant EXCEPT ![g].state = "consumed"]
            /\ audit' = audit \cup {Event("public.start", g)}
            /\ UNCHANGED <<delivery, secret, revoked>>

ConsumeAccepted(g) ==
    /\ Validate(g, clock)
    /\ Private(g) => CanConsume(grant[g].target, clock)

CommitConsumption(r) ==
    /\ req[r].pc = "prepared"
    /\ ConsumeStored(req[r].grant)
    /\ req' = [req EXCEPT ![r].pc = "consumed", ![r].consumedAt = clock]
    /\ UNCHANGED <<clock, phase, recoverNow, handed>>

\* A check failed or the store did: the payload is dropped, nothing stored.
ConsumptionRolledBack(r) ==
    /\ req[r].pc = "prepared"
    /\ req' = [req EXCEPT ![r] = IdleRequest]
    /\ UNCHANGED <<clock, storeVars, phase, recoverNow, handed>>

\* ErrCommitUnknown: the payload is never sent, and for a private key the
\* process closes.
ConsumptionUnknown(r) ==
    /\ req[r].pc = "prepared"
    /\ LET g == req[r].grant
       IN  /\ ConsumeAccepted(g)
           /\ \/ ConsumeStored(g)
              \/ UNCHANGED storeVars
           /\ IF Private(g) THEN FailClosed ELSE UNCHANGED phase
    /\ req' = [req EXCEPT ![r] = IdleRequest]
    /\ UNCHANGED <<clock, recoverNow, handed>>

\* invokeSink: from here on the receiver may have any part of the payload.
InvokeSink(r) ==
    /\ req[r].pc = "consumed"
    /\ handed' = IF Private(req[r].grant)
                 THEN [handed EXCEPT ![grant[req[r].grant].target] = @ + 1]
                 ELSE handed
    /\ req' = [req EXCEPT ![r].pc = "sending"]
    /\ UNCHANGED <<clock, storeVars, phase, recoverNow>>

\* Mutant of FinishObservedAt: the clock is taken as it is.
FinishObservedRaw(consumedAt) == clock

\* finishObservedAt: a clock that stepped back never puts the end of the
\* transfer before its start.
FinishObservedAt(consumedAt) ==
    IF clock < consumedAt THEN consumedAt ELSE clock

\* Send returned, timed out or panicked.
SendReturned(r, result) ==
    /\ req[r].pc = "sending"
    /\ result # "none"
    /\ req' = [req EXCEPT ![r].pc = "recording", ![r].result = result,
                          ![r].finishedAt = FinishObservedAt(req[r].consumedAt)]
    /\ UNCHANGED <<clock, storeVars, phase, recoverNow, handed>>

\* The callback of recordPrivateOutcome.
OutcomeStored(r) ==
    LET g == req[r].grant
        d == grant[g].target
        now == req[r].finishedAt
        code == IF req[r].result = "panicked" THEN "transfer_panic"
                                              ELSE "transfer_failed"
    IN  /\ IF req[r].result = "completed"
           THEN /\ CanComplete(d)
                /\ delivery' = Complete(d, now)
                /\ audit' = audit \cup {Event("private.completed", g)}
                /\ UNCHANGED revoked
           ELSE FailAndRevoke(d, code, now, Event("private.failed", g))
        /\ UNCHANGED <<secret, grant>>

RecordPrivateOutcome(r) ==
    /\ req[r].pc = "recording"
    /\ Private(req[r].grant)
    /\ OutcomeStored(r)
    /\ req' = [req EXCEPT ![r] = IdleRequest]
    /\ UNCHANGED <<clock, phase, recoverNow, handed>>

\* The outcome could not be recorded, or the commit is unknown.  Either way
\* the process closes and the row is left to the next start.
PrivateOutcomeUnresolved(r) ==
    /\ req[r].pc = "recording"
    /\ Private(req[r].grant)
    /\ OutcomeStored(r) \/ UNCHANGED storeVars
    /\ FailClosed
    /\ req' = [req EXCEPT ![r] = IdleRequest]
    /\ UNCHANGED <<clock, recoverNow, handed>>

\* recordPublicSuccessAudit and recordPublicFailureAudit: a lost audit event
\* goes to the operational log, and nothing is revoked.
RecordPublicOutcome(r) ==
    /\ req[r].pc = "recording"
    /\ ~Private(req[r].grant)
    /\ LET action == IF req[r].result = "completed" THEN "public.completed"
                                                    ELSE "public.failed"
       IN  \/ audit' = audit \cup {Event(action, req[r].grant)}
           \/ UNCHANGED audit
    /\ req' = [req EXCEPT ![r] = IdleRequest]
    /\ UNCHANGED <<clock, delivery, secret, grant, revoked, phase, recoverNow,
                   handed>>

-----------------------------------------------------------------------------
(* Process life and restart recovery.                                      *)

Halt ==
    /\ phase' = "down"
    /\ recoverNow' = Unset
    /\ req' = [r \in Requests |-> IdleRequest]
    /\ UNCHANGED <<clock, storeVars, handed>>

Crash == phase # "down" /\ Halt

\* The runtime ends a process that FailClosed shut.
Terminate == phase = "closed" /\ Halt

\* RecoverInterruptedTransfers starts: the clock is read once for the pass.
StartRecovery ==
    /\ phase = "down"
    /\ phase' = "recovering"
    /\ recoverNow' = clock
    /\ UNCHANGED <<clock, storeVars, req, handed>>

\* The callbacks of failInterruptedTransfer and recoverOneTransfer.
InterruptedStored(d, now, action) ==
    /\ delivery[d].state = "transferring"
    /\ FailAndRevoke(d, "interrupted_transfer", now, Event(action, d))
    /\ grant' = InvalidatePrivateGrants(grant, d)
    /\ UNCHANGED secret

FailInterruptedTransfer(d) ==
    /\ phase = "recovering"
    /\ InterruptedStored(d, recoverNow, "recovery")
    /\ UNCHANGED <<clock, phase, recoverNow, req, handed>>

\* The first failing row ends the pass: the process does not open.
RecoveryAborted(d) ==
    /\ phase = "recovering"
    /\ delivery[d].state = "transferring"
    /\ \/ InterruptedStored(d, recoverNow, "recovery")
       \/ UNCHANGED storeVars
    /\ phase' = "down"
    /\ recoverNow' = Unset
    /\ UNCHANGED <<clock, req, handed>>

\* Mutant of OpenAdmission: admission opens while the recovery still runs.
OpenAdmissionEarly ==
    /\ phase = "recovering"
    /\ phase' = "open"
    /\ recoverNow' = Unset
    /\ UNCHANGED <<clock, storeVars, req, handed>>

\* The pass returned nil: the runtime opens download and issuance admission.
OpenAdmission ==
    /\ phase = "recovering"
    /\ \A d \in Deliveries : delivery[d].state # "transferring"
    /\ phase' = "open"
    /\ recoverNow' = Unset
    /\ UNCHANGED <<clock, storeVars, req, handed>>

-----------------------------------------------------------------------------
(* Background and operator passes; a row that fails is left as it was.     *)

\* The callback of expireOneDelivery.
ExpiryStored(d) ==
    /\ delivery[d].state = "pending"
    /\ IsExpiredAt(delivery[d].expiresAt, clock)
    /\ FailAndRevoke(d, "delivery_expired", clock, Event("expiry", d))
    /\ grant' = InvalidatePrivateGrants(grant, d)
    /\ UNCHANGED secret

ExpireOneDelivery(d) ==
    /\ Running
    /\ ExpiryStored(d)
    /\ UNCHANGED <<clock, phase, recoverNow, req, handed>>

ExpiryUnknown(d) ==
    /\ Running
    /\ delivery[d].state = "pending"
    /\ IsExpiredAt(delivery[d].expiresAt, clock)
    /\ ExpiryStored(d) \/ UNCHANGED storeVars
    /\ FailClosed
    /\ UNCHANGED <<clock, recoverNow, req, handed>>

\* MaintenanceService.RecoverTransfers does not know which transfers are
\* live: it may fail the delivery of a call that is still sending.
RecoverOneTransfer(d) ==
    /\ Running
    /\ InterruptedStored(d, clock, "recover_transfers")
    /\ UNCHANGED <<clock, phase, recoverNow, req, handed>>

RecoverOneTransferUnknown(d) ==
    /\ Running
    /\ delivery[d].state = "transferring"
    /\ \/ InterruptedStored(d, clock, "recover_transfers")
       \/ UNCHANGED storeVars
    /\ FailClosed
    /\ UNCHANGED <<clock, recoverNow, req, handed>>

-----------------------------------------------------------------------------
(* The clock.                                                              *)

Tick ==
    /\ clock < MaxTime
    /\ clock' = clock + 1
    /\ UNCHANGED <<storeVars, phase, recoverNow, req, handed>>

StepBack ==
    /\ clock > 1
    /\ clock' = clock - 1
    /\ UNCHANGED <<storeVars, phase, recoverNow, req, handed>>

-----------------------------------------------------------------------------
Init ==
    /\ clock = 1
    /\ delivery = [d \in Deliveries |-> NoDelivery]
    /\ secret = {}
    /\ grant = [g \in Grants |-> UnusedGrant]
    /\ revoked = {}
    /\ audit = {}
    /\ phase = "down"
    /\ recoverNow = Unset
    /\ req = [r \in Requests |-> IdleRequest]
    /\ handed = [d \in Deliveries |-> 0]

DeliverStep(r) ==
    \/ \E g \in Grants : Prepare(r, g)
    \/ CommitConsumption(r)
    \/ ConsumptionRolledBack(r)
    \/ ConsumptionUnknown(r)
    \/ InvokeSink(r)
    \/ \E result \in SendResults : SendReturned(r, result)
    \/ RecordPrivateOutcome(r)
    \/ PrivateOutcomeUnresolved(r)
    \/ RecordPublicOutcome(r)

PassStep(d) ==
    \/ FailInterruptedTransfer(d)
    \/ RecoveryAborted(d)
    \/ ExpireOneDelivery(d)
    \/ ExpiryUnknown(d)
    \/ RecoverOneTransfer(d)
    \/ RecoverOneTransferUnknown(d)

Next ==
    \/ \E d \in Deliveries : StoreFreshKeyAndDelivery(d)
    \/ \E g \in Grants, d \in Deliveries, purpose \in GrantPurposes :
            InsertGrant(g, d, purpose)
    \/ \E r \in Requests : DeliverStep(r)
    \/ \E d \in Deliveries : PassStep(d)
    \/ Crash
    \/ Terminate
    \/ StartRecovery
    \/ OpenAdmission
    \/ Tick
    \/ StepBack

Spec == Init /\ [][Next]_vars

\* What the scheduling of the program justifies: a call of Deliver keeps
\* running (the sink has a 60 s and the outcome a 5 s deadline), the runtime
\* ends a closed process and starts it again, the recovery and the expiry scan
\* are repeated, and a store that works again and again lets them commit.
\* Nothing is assumed of crashes, of unknown commits or of the clock.
Fairness ==
    /\ WF_vars(Terminate)
    /\ WF_vars(StartRecovery)
    /\ SF_vars(OpenAdmission)
    /\ \A d \in Deliveries : /\ SF_vars(FailInterruptedTransfer(d))
                             /\ SF_vars(ExpireOneDelivery(d))
    /\ \A r \in Requests :
          /\ WF_vars(InvokeSink(r))
          /\ WF_vars(\E result \in SendResults : SendReturned(r, result))
          /\ WF_vars(RecordPrivateOutcome(r) \/ PrivateOutcomeUnresolved(r))

FairSpec == Spec /\ Fairness

-----------------------------------------------------------------------------
(* Properties.                                                             *)

\* Every variable holds a value of the table or record it models.
TypeOK ==
    /\ clock \in Nat \ {0}
    /\ delivery \in [Deliveries -> DeliveryRows]
    /\ secret \subseteq Deliveries
    /\ grant \in [Grants -> GrantRows]
    /\ revoked \subseteq Deliveries
    /\ audit \subseteq AuditActions \X (Grants \cup Deliveries)
    /\ phase \in {"down", "recovering", "open", "closed"}
    /\ recoverNow \in Instants
    /\ req \in [Requests -> RequestRows]
    /\ handed \in [Deliveries -> Nat]

\* Request r carries the private key of d and its consumption is committed.
Carries(r, d) ==
    /\ req[r].pc \in {"consumed", "sending", "recording"}
    /\ Private(req[r].grant)
    /\ grant[req[r].grant].target = d

\* However many links, concurrent calls, restarts and operator passes there
\* are, the plaintext of a leaf key reaches a sink at most once.
OneShot == \A d \in Deliveries : handed[d] <= 1

\* Once a key was claimed for a transfer its ciphertext is gone, so no later
\* call can decrypt it again.
ClaimedKeyDeleted ==
    \A d \in Deliveries :
        delivery[d].consumedAt # Unset \/ handed[d] > 0 => d \notin secret

\* A failed delivery and a revoked certificate go together, and a certificate
\* whose key was reported as received is never revoked by a late pass.
FailedIffRevoked ==
    \A d \in Deliveries : delivery[d].state = "failed" <=> d \in revoked

\* While the process admits work no transfer is left without the call that
\* will record its outcome: recovery, FailClosed and the outcome transaction
\* leave no gap between them.
NoOrphanTransfer ==
    phase = "open" =>
        \A d \in Deliveries :
            delivery[d].state = "transferring" =>
                \E r \in Requests : Carries(r, d)

\* Times are those of the deciding moment, whatever the clock did since: a key
\* is claimed before its deadline although the payload was prepared earlier,
\* and the end a call records is not before the claim.
TimesHonoured ==
    \A d \in Deliveries :
        /\ delivery[d].consumedAt < delivery[d].expiresAt \/ delivery[d].state = "none"
        /\ \/ delivery[d].state = "server_completed"
           \/ delivery[d].code \in {"transfer_failed", "transfer_panic"}
           => delivery[d].finishedAt >= delivery[d].consumedAt

\* The audit trail tells one outcome per transfer: a completed event excludes
\* every failure event of the same delivery, and matches the row.
OneOutcomeAudited ==
    \A g \in Grants :
        LET d == grant[g].target
            failures == {Event("private.failed", g), Event("recovery", d),
                         Event("recover_transfers", d), Event("expiry", d)}
        IN  /\ Event("private.completed", g) \in audit =>
                  /\ delivery[d].state = "server_completed"
                  /\ audit \cap failures = {}
            /\ Cardinality(audit \cap failures) <= 1

\* The parts of the inductive invariant behind OneShot and the hand-off.
GrantsTargeted ==
    \A g \in Grants : grant[g].state # "none" => grant[g].target \in Deliveries

CallsHoldGrants ==
    \A r \in Requests :
        req[r].pc # "idle" => /\ req[r].grant \in Grants
                              /\ grant[req[r].grant].state # "none"

CarriersClaimed ==
    \A r \in Requests, d \in Deliveries :
        Carries(r, d) => /\ delivery[d].consumedAt # Unset
                         /\ delivery[d].state \in {"transferring", "failed"}
                         /\ handed[d] = (IF req[r].pc = "consumed" THEN 0 ELSE 1)

SoleCarrier ==
    \A r, s \in Requests, d \in Deliveries :
        Carries(r, d) /\ Carries(s, d) => r = s

ClaimRecorded ==
    \A d \in Deliveries :
        /\ delivery[d].state \in {"none", "pending"} => delivery[d].consumedAt = Unset
        /\ delivery[d].state \in {"transferring", "server_completed"}
              => delivery[d].consumedAt # Unset
        /\ delivery[d].consumedAt = Unset => handed[d] = 0
        /\ handed[d] \in {0, 1}

\* The state of row, sink and calls agree step by step: a call past its
\* consumption is the only one for its delivery, and the key has left the
\* server exactly when that call is past the sink.
CustodyInv ==
    /\ GrantsTargeted
    /\ CallsHoldGrants
    /\ CarriersClaimed
    /\ SoleCarrier
    /\ ClaimRecorded

\* What the docs say of an expired delivery: its stored key is deleted in the
\* transaction that ends it (docs/data-model.md, docs/certificate-lifecycle.md).
ExpiredKeyDeleted ==
    \A d \in Deliveries : delivery[d].code = "delivery_expired" => d \notin secret

\* A transfer never stays open: the call records its outcome, or the process
\* ends and the next start fails it.
TransferResolved ==
    \A d \in Deliveries :
        delivery[d].state = "transferring"
            ~> delivery[d].state \in {"server_completed", "failed"}

\* A delivery nobody picked up is ended once its deadline has come, unless the
\* clock steps back before it.
ExpiryResolved ==
    \A d \in Deliveries :
        delivery[d].state = "pending" /\ clock >= delivery[d].expiresAt
            ~> \/ delivery[d].state # "pending"
               \/ clock < delivery[d].expiresAt

=============================================================================
