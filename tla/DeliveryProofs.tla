--------------------------- MODULE DeliveryProofs ---------------------------
(***************************************************************************)
(* TLAPS proofs about Delivery, for any number of deliveries, links and    *)
(* concurrent calls, and any length of the windows.                        *)
(***************************************************************************)
EXTENDS DeliveryRefinement, FiniteSetTheorems, TLAPS

RowTypes ==
    /\ delivery \in [Deliveries -> DeliveryRows]
    /\ secret \subseteq Deliveries
    /\ grant \in [Grants -> GrantRows]
    /\ revoked \subseteq Deliveries
    /\ audit \subseteq AuditActions \X (Grants \cup Deliveries)

\* The row writers the callbacks are built from keep rows well formed.
LEMMA DeliveryWritersTyped ==
    ASSUME delivery \in [Deliveries -> DeliveryRows], NEW d \in Deliveries,
           NEW now \in Nat
    PROVE  /\ Consume(d, now) \in [Deliveries -> DeliveryRows]
           /\ Complete(d, now) \in [Deliveries -> DeliveryRows]
           /\ \A code \in FailureCodes :
                 Fail(d, code, now) \in [Deliveries -> DeliveryRows]
BY DEF Consume, Complete, Fail, DeliveryRows, DeliveryStates, Instants

\* The writers of download_tokens return typed rows.
LEMMA GrantWritersTyped ==
    ASSUME NEW gs \in [Grants -> GrantRows], NEW d, NEW purpose
    PROVE  /\ InvalidateGrants(gs, d, purpose) \in [Grants -> GrantRows]
           /\ InvalidatePrivateGrants(gs, d) \in [Grants -> GrantRows]
           /\ \A g \in Grants :
                 [gs EXCEPT ![g].state = "consumed"] \in [Grants -> GrantRows]
BY DEF InvalidatePrivateGrants, InvalidateGrants, GrantRows

\* The audit actions each transaction appends are typed.
LEMMA AuditTyped ==
    ASSUME audit \subseteq AuditActions \X (Grants \cup Deliveries),
           NEW action \in AuditActions, NEW of \in Grants \cup Deliveries
    PROVE  audit \cup {Event(action, of)} \subseteq AuditActions \X (Grants \cup Deliveries)
BY DEF Event

\* The callback of commitConsumption stores well-formed rows.
LEMMA ConsumeStoredTyped ==
    ASSUME TypeOK, CallsHoldGrants, GrantsTargeted, NEW r \in Requests,
           req[r].pc # "idle", ConsumeStored(req[r].grant)
    PROVE  RowTypes'
<1> DEFINE g == req[r].grant
           d == grant[g].target
<1>1. g \in Grants /\ d \in Deliveries /\ clock \in Nat
  BY DEF CallsHoldGrants, GrantsTargeted, TypeOK
<1>2. delivery' \in [Deliveries -> DeliveryRows]
  <2>1. delivery' = Consume(d, clock) \/ delivery' = delivery
    BY DEF ConsumeStored
  <2> QED BY <1>1, <2>1, DeliveryWritersTyped DEF TypeOK
<1>3. secret' \subseteq Deliveries /\ revoked' \subseteq Deliveries
  BY DEF ConsumeStored, TypeOK
<1>4. grant' \in [Grants -> GrantRows]
  <2> DEFINE spent == [grant EXCEPT ![g].state = "consumed"]
  <2>1. grant' = InvalidatePrivateGrants(spent, d) \/ grant' = spent
    BY DEF ConsumeStored
  <2>2. spent \in [Grants -> GrantRows]
    BY <1>1, GrantWritersTyped DEF TypeOK
  <2>3. InvalidatePrivateGrants(spent, d) \in [Grants -> GrantRows]
    <3> HIDE DEF spent, d
    <3> QED BY <2>2, GrantWritersTyped
  <2> QED BY <2>1, <2>2, <2>3
<1>5. audit' \subseteq AuditActions \X (Grants \cup Deliveries)
  <2>1. /\ "private.start" \in AuditActions /\ "public.start" \in AuditActions
        /\ g \in Grants \cup Deliveries
    BY <1>1 DEF AuditActions
  <2>2. \/ audit' = audit \cup {Event("private.start", g)}
        \/ audit' = audit \cup {Event("public.start", g)}
    BY DEF ConsumeStored
  <2> QED BY <2>1, <2>2, AuditTyped DEF TypeOK
<1> QED BY <1>2, <1>3, <1>4, <1>5 DEF RowTypes

\* So do the callbacks that end a delivery, all through FailAndRevoke,
LEMMA FailAndRevokeTyped ==
    ASSUME TypeOK, NEW d \in Deliveries, NEW now \in Nat, NEW code \in FailureCodes,
           NEW action \in AuditActions, NEW of \in Grants \cup Deliveries,
           FailAndRevoke(d, code, now, Event(action, of))
    PROVE  /\ delivery' \in [Deliveries -> DeliveryRows]
           /\ revoked' \subseteq Deliveries
           /\ audit' \subseteq AuditActions \X (Grants \cup Deliveries)
BY DeliveryWritersTyped, AuditTyped DEF FailAndRevoke, TypeOK

\* recordPrivateOutcome,
LEMMA OutcomeStoredTyped ==
    ASSUME TypeOK, CallsHoldGrants, GrantsTargeted, NEW r \in Requests,
           req[r].pc # "idle", OutcomeStored(r)
    PROVE  RowTypes'
<1> DEFINE g == req[r].grant
           d == grant[g].target
           code == IF req[r].result = "panicked" THEN "transfer_panic"
                                                 ELSE "transfer_failed"
<1>1. /\ g \in Grants /\ d \in Deliveries /\ req[r].finishedAt \in Nat
      /\ code \in FailureCodes /\ g \in Grants \cup Deliveries
      /\ "private.completed" \in AuditActions /\ "private.failed" \in AuditActions
  BY DEF CallsHoldGrants, GrantsTargeted, TypeOK, RequestRows, Instants, FailureCodes,
         AuditActions
<1>2. CASE req[r].result = "completed"
  <2>1. /\ delivery' = Complete(d, req[r].finishedAt)
        /\ audit' = audit \cup {Event("private.completed", g)}
        /\ UNCHANGED <<revoked, secret, grant>>
    BY <1>2 DEF OutcomeStored
  <2> QED BY <1>1, <2>1, DeliveryWritersTyped, AuditTyped DEF TypeOK, RowTypes
<1>3. CASE req[r].result # "completed"
  <2>1. /\ FailAndRevoke(d, code, req[r].finishedAt, Event("private.failed", g))
        /\ UNCHANGED <<secret, grant>>
    BY <1>3 DEF OutcomeStored
  <2> HIDE DEF code
  <2> QED BY <1>1, <2>1, FailAndRevokeTyped DEF TypeOK, RowTypes
<1> QED BY <1>2, <1>3

\* failInterruptedTransfer and recoverOneTransfer,
LEMMA InterruptedStoredTyped ==
    ASSUME TypeOK, NEW d \in Deliveries, NEW now \in Nat, NEW action \in AuditActions,
           InterruptedStored(d, now, action)
    PROVE  RowTypes'
<1>1. "interrupted_transfer" \in FailureCodes /\ d \in Grants \cup Deliveries
  BY DEF FailureCodes
<1> QED BY <1>1, FailAndRevokeTyped, GrantWritersTyped
        DEF InterruptedStored, InvalidatePrivateGrants, TypeOK, RowTypes

\* and expireOneDelivery.
LEMMA ExpiryStoredTyped ==
    ASSUME TypeOK, NEW d \in Deliveries, ExpiryStored(d)
    PROVE  RowTypes'
<1>1. /\ "delivery_expired" \in FailureCodes /\ d \in Grants \cup Deliveries
      /\ "expiry" \in AuditActions /\ clock \in Nat
  BY DEF FailureCodes, AuditActions, TypeOK
<1> QED BY <1>1, FailAndRevokeTyped, GrantWritersTyped
        DEF ExpiryStored, InvalidatePrivateGrants, TypeOK, RowTypes

\* Every step keeps the types; that a call holds a stored grant with a target
\* is what makes the rows it writes the right ones.
LEMMA TypeStep ==
    TypeOK /\ CallsHoldGrants /\ GrantsTargeted /\ [Next]_vars => TypeOK'
<1> SUFFICES ASSUME TypeOK, CallsHoldGrants, GrantsTargeted, [Next]_vars PROVE TypeOK'
  OBVIOUS
<1> DEFINE ProcessTypes ==
              /\ clock \in Nat \ {0}
              /\ phase \in {"down", "recovering", "open", "closed"}
              /\ recoverNow \in Instants
              /\ req \in [Requests -> RequestRows]
              /\ handed \in [Deliveries -> Nat]
<1>a. RowTypes /\ ProcessTypes
  BY DEF TypeOK, RowTypes
<1>b. SUFFICES RowTypes' /\ ProcessTypes'
  BY DEF TypeOK, RowTypes
<1>c. UNCHANGED storeVars => RowTypes'
  BY <1>a DEF storeVars, RowTypes
<1>d. IdleRequest \in RequestRows
  BY DEF IdleRequest, RequestRows, SendResults, Instants, Unset
<1>1. CASE UNCHANGED vars
  BY <1>1, <1>a, <1>c DEF vars, storeVars
<1>2. ASSUME NEW d \in Deliveries, StoreFreshKeyAndDelivery(d)
      PROVE  RowTypes' /\ ProcessTypes'
  <2>1. clock + DeliveryWindow \in Nat
    BY <1>a, DeliveryConstants
  <2>2. delivery' \in [Deliveries -> DeliveryRows]
    BY <1>2, <1>a, <2>1
       DEF StoreFreshKeyAndDelivery, RowTypes, DeliveryRows, DeliveryStates, Instants
  <2> QED BY <1>2, <1>a, <2>2 DEF StoreFreshKeyAndDelivery, RowTypes
<1>3. ASSUME NEW g \in Grants, NEW d \in Deliveries, NEW purpose \in GrantPurposes,
             InsertGrant(g, d, purpose)
      PROVE  RowTypes' /\ ProcessTypes'
  <2> DEFINE before == IF purpose = "leaf_public"
                       THEN InvalidateGrants(grant, d, purpose) ELSE grant
             row == [state |-> "live", purpose |-> purpose, target |-> d,
                     expiresAt |-> clock + LinkWindow]
  <2>1. before \in [Grants -> GrantRows]
    BY <1>a, GrantWritersTyped DEF RowTypes
  <2>2. row \in GrantRows
    BY <1>a, DeliveryConstants DEF GrantRows, Instants
  <2>3. grant' = [before EXCEPT ![g] = row]
    BY <1>3 DEF InsertGrant
  <2>4. grant' \in [Grants -> GrantRows]
    <3> HIDE DEF before, row
    <3> QED BY <2>1, <2>2, <2>3
  <2> QED BY <1>3, <1>a, <2>4 DEF InsertGrant, RowTypes
<1>4. ASSUME NEW r \in Requests, DeliverStep(r) PROVE RowTypes' /\ ProcessTypes'
  <2>1. ASSUME NEW g \in Grants, Prepare(r, g) PROVE RowTypes' /\ ProcessTypes'
    BY <2>1, <1>a, <1>c DEF Prepare, RequestRows
  <2>2. CASE CommitConsumption(r)
    <3>1. RowTypes'
      BY <2>2, ConsumeStoredTyped DEF CommitConsumption
    <3>2. ProcessTypes'
      BY <2>2, <1>a DEF CommitConsumption, RequestRows, Instants
    <3> QED BY <3>1, <3>2
  <2>3. CASE ConsumptionRolledBack(r)
    BY <2>3, <1>a, <1>c, <1>d DEF ConsumptionRolledBack
  <2>4. CASE ConsumptionUnknown(r)
    <3>1. RowTypes'
      BY <2>4, <1>c, ConsumeStoredTyped DEF ConsumptionUnknown
    <3>2. ProcessTypes'
      BY <2>4, <1>a, <1>d DEF ConsumptionUnknown, FailClosed
    <3> QED BY <3>1, <3>2
  <2>5. CASE InvokeSink(r)
    <3>1. req' \in [Requests -> RequestRows]
      BY <2>5, <1>a DEF InvokeSink, RequestRows
    <3>2. handed' \in [Deliveries -> Nat]
      <4>1. grant[req[r].grant].target \in Deliveries
        BY <2>5 DEF InvokeSink, CallsHoldGrants, GrantsTargeted
      <4> QED BY <2>5, <1>a, <4>1 DEF InvokeSink
    <3> QED BY <2>5, <1>a, <1>c, <3>1, <3>2 DEF InvokeSink
  <2>6. ASSUME NEW result \in SendResults, SendReturned(r, result)
        PROVE  RowTypes' /\ ProcessTypes'
    <3>1. FinishObservedAt(req[r].consumedAt) \in Instants
      BY <1>a DEF FinishObservedAt, RequestRows, Instants
    <3>2. req' \in [Requests -> RequestRows]
      <4>1. req[r] \in RequestRows
        BY <1>a
      <4>2. [req[r] EXCEPT !.pc = "recording", !.result = result,
                !.finishedAt = FinishObservedAt(req[r].consumedAt)] \in RequestRows
        BY <4>1, <3>1 DEF RequestRows
      <4>3. req' = [req EXCEPT ![r] = [req[r] EXCEPT !.pc = "recording", !.result = result,
                !.finishedAt = FinishObservedAt(req[r].consumedAt)]]
        BY <2>6, <1>a DEF SendReturned
      <4> QED BY <1>a, <4>2, <4>3
    <3> QED BY <2>6, <1>a, <1>c, <3>2 DEF SendReturned
  <2>7. CASE RecordPrivateOutcome(r)
    <3>1. RowTypes'
      BY <2>7, OutcomeStoredTyped DEF RecordPrivateOutcome
    <3>2. ProcessTypes'
      BY <2>7, <1>a, <1>d DEF RecordPrivateOutcome
    <3> QED BY <3>1, <3>2
  <2>8. CASE PrivateOutcomeUnresolved(r)
    <3>1. RowTypes'
      BY <2>8, <1>c, OutcomeStoredTyped DEF PrivateOutcomeUnresolved
    <3>2. ProcessTypes'
      BY <2>8, <1>a, <1>d DEF PrivateOutcomeUnresolved, FailClosed
    <3> QED BY <3>1, <3>2
  <2>9. CASE RecordPublicOutcome(r)
    <3>1. req[r].grant \in Grants
      BY <2>9 DEF RecordPublicOutcome, CallsHoldGrants
    <3>2. RowTypes'
      BY <2>9, <1>a, <3>1 DEF RecordPublicOutcome, RowTypes, AuditActions, Event
    <3>3. ProcessTypes'
      BY <2>9, <1>a, <1>d DEF RecordPublicOutcome
    <3> QED BY <3>2, <3>3
  <2> QED BY <1>4, <2>1, <2>2, <2>3, <2>4, <2>5, <2>6, <2>7, <2>8, <2>9 DEF DeliverStep
<1>5. ASSUME NEW d \in Deliveries, PassStep(d) PROVE RowTypes' /\ ProcessTypes'
  <2>a. recoverNow \in Nat /\ clock \in Nat /\ {"recovery", "recover_transfers"} \subseteq AuditActions
    BY <1>a DEF Instants, AuditActions
  <2>1. CASE FailInterruptedTransfer(d)
    BY <2>1, <2>a, <1>a, InterruptedStoredTyped DEF FailInterruptedTransfer
  <2>2. CASE RecoveryAborted(d)
    BY <2>2, <2>a, <1>a, <1>c, InterruptedStoredTyped DEF RecoveryAborted, Unset, Instants
  <2>3. CASE ExpireOneDelivery(d)
    BY <2>3, <1>a, ExpiryStoredTyped DEF ExpireOneDelivery
  <2>4. CASE ExpiryUnknown(d)
    BY <2>4, <1>a, <1>c, ExpiryStoredTyped DEF ExpiryUnknown, FailClosed
  <2>5. CASE RecoverOneTransfer(d)
    BY <2>5, <2>a, <1>a, InterruptedStoredTyped DEF RecoverOneTransfer
  <2>6. CASE RecoverOneTransferUnknown(d)
    BY <2>6, <2>a, <1>a, <1>c, InterruptedStoredTyped DEF RecoverOneTransferUnknown, FailClosed
  <2> QED BY <1>5, <2>1, <2>2, <2>3, <2>4, <2>5, <2>6 DEF PassStep
<1>6. CASE Crash \/ Terminate
  BY <1>6, <1>a, <1>c, <1>d DEF Crash, Terminate, Halt, Unset, Instants
<1>7. CASE StartRecovery
  BY <1>7, <1>a, <1>c DEF StartRecovery, Instants
<1>8. CASE OpenAdmission
  BY <1>8, <1>a, <1>c DEF OpenAdmission, Unset, Instants
<1>9. CASE Tick
  BY <1>9, <1>a, <1>c DEF Tick
<1>10. CASE StepBack
  BY <1>10, <1>a, <1>c DEF StepBack
<1> QED BY <1>1, <1>2, <1>3, <1>4, <1>5, <1>6, <1>7, <1>8, <1>9, <1>10 DEF Next

-----------------------------------------------------------------------------
(* The custody invariant.                                                  *)

\* A stored grant keeps its purpose and target.
GrantsKept ==
    \A g \in Grants :
        grant[g].state # "none" => /\ grant'[g].state # "none"
                                   /\ grant'[g].target = grant[g].target
                                   /\ grant'[g].purpose = grant[g].purpose

\* Rows change quietly: no claim is made or lost, and a row only appears or
\* fails.
QuietRows ==
    \A d \in Deliveries :
        /\ delivery'[d].consumedAt = delivery[d].consumedAt
        /\ \/ delivery'[d].state = delivery[d].state
           \/ delivery'[d].state = "failed"
           \/ delivery[d].state = "none" /\ delivery'[d].state = "pending"

\* Calls only end.
CallsOnlyEnd ==
    \A r \in Requests : req'[r] = req[r] \/ req'[r].pc = "idle"

\* Invalidating grants keeps their purpose, their target and which rows exist.
LEMMA InvalidateKeeps ==
    ASSUME NEW gs \in [Grants -> GrantRows], NEW d, NEW purpose
    PROVE  \A g \in Grants :
              /\ InvalidateGrants(gs, d, purpose)[g].state = "none" <=> gs[g].state = "none"
              /\ InvalidateGrants(gs, d, purpose)[g].target = gs[g].target
              /\ InvalidateGrants(gs, d, purpose)[g].purpose = gs[g].purpose
BY DEF InvalidateGrants, GrantRows

\* Consuming a grant keeps its purpose, its target and which rows exist.
LEMMA SpendKeeps ==
    ASSUME NEW gs \in [Grants -> GrantRows], NEW h \in Grants, gs[h].state # "none"
    PROVE  \A g \in Grants :
              /\ [gs EXCEPT ![h].state = "consumed"][g].state = "none" <=> gs[g].state = "none"
              /\ [gs EXCEPT ![h].state = "consumed"][g].target = gs[g].target
              /\ [gs EXCEPT ![h].state = "consumed"][g].purpose = gs[g].purpose
BY DEF GrantRows

\* Consumption, failure and expiry change the state of stored grants only.
LEMMA ConsumeKeepsGrants ==
    ASSUME TypeOK, NEW g \in Grants, ConsumeStored(g)
    PROVE  \A h \in Grants : /\ grant'[h].state = "none" <=> grant[h].state = "none"
                             /\ grant'[h].target = grant[h].target
                             /\ grant'[h].purpose = grant[h].purpose
<1> DEFINE spent == [grant EXCEPT ![g].state = "consumed"]
           d == grant[g].target
<1>1. grant[g].state # "none"
  BY DEF ConsumeStored, Validate
<1>2. grant' = InvalidateGrants(spent, d, "leaf_private") \/ grant' = spent
  BY DEF ConsumeStored, InvalidatePrivateGrants
<1>3. spent \in [Grants -> GrantRows]
  BY GrantWritersTyped DEF TypeOK
<1>4. \A h \in Grants : /\ spent[h].state = "none" <=> grant[h].state = "none"
                        /\ spent[h].target = grant[h].target
                        /\ spent[h].purpose = grant[h].purpose
  BY <1>1, SpendKeeps DEF TypeOK
<1>5. \A h \in Grants :
        /\ InvalidateGrants(spent, d, "leaf_private")[h].state = "none" <=> spent[h].state = "none"
        /\ InvalidateGrants(spent, d, "leaf_private")[h].target = spent[h].target
        /\ InvalidateGrants(spent, d, "leaf_private")[h].purpose = spent[h].purpose
  <2> HIDE DEF spent, d
  <2> QED BY <1>3, InvalidateKeeps
<1> HIDE DEF spent
<1> QED BY <1>2, <1>4, <1>5

\* Failing a row is quiet.
LEMMA FailIsQuiet ==
    ASSUME TypeOK, NEW d \in Deliveries, NEW code, NEW now, NEW event,
           FailAndRevoke(d, code, now, event)
    PROVE  QuietRows
BY DEF TypeOK, FailAndRevoke, Fail, QuietRows, DeliveryRows

\* When calls only end, no call gains a delivery.
LEMMA CallsFrame ==
    ASSUME TypeOK, CustodyInv, GrantsKept, CallsOnlyEnd
    PROVE  /\ CallsHoldGrants'
           /\ SoleCarrier'
           /\ \A r \in Requests, d \in Deliveries :
                 Carries(r, d)' => Carries(r, d) /\ req'[r] = req[r]
<1>1. ASSUME NEW r \in Requests, req'[r].pc # "idle"
      PROVE  /\ req'[r] = req[r] /\ req[r].grant \in Grants
             /\ grant[req[r].grant].state # "none"
  BY <1>1 DEF CallsOnlyEnd, CustodyInv, CallsHoldGrants
<1>2. CallsHoldGrants'
  BY <1>1 DEF CallsHoldGrants, GrantsKept
<1>3. ASSUME NEW r \in Requests, NEW d \in Deliveries, Carries(r, d)'
      PROVE  Carries(r, d) /\ req'[r] = req[r]
  <2>1. req'[r].pc # "idle"
    BY <1>3 DEF Carries
  <2> QED BY <2>1, <1>1, <1>3 DEF Carries, GrantsKept, Private
<1>4. SoleCarrier'
  BY <1>3 DEF SoleCarrier, CustodyInv
<1> QED BY <1>2, <1>3, <1>4

\* Then quiet rows and an idle sink keep the custody invariant.
LEMMA QuietStep ==
    ASSUME TypeOK, CustodyInv, GrantsKept, GrantsTargeted', CallsOnlyEnd, QuietRows,
           UNCHANGED handed
    PROVE  CustodyInv'
<1>1. CarriersClaimed'
  BY CallsFrame DEF CustodyInv, CarriersClaimed, QuietRows
<1>2. ClaimRecorded'
  BY DEF CustodyInv, ClaimRecorded, QuietRows
<1> QED BY <1>1, <1>2, CallsFrame DEF CustodyInv

\* commitConsumption: the claim is new, so no other call carries the key.
LEMMA ClaimStep ==
    ASSUME TypeOK, CustodyInv, NEW r \in Requests, CommitConsumption(r)
    PROVE  CustodyInv'
<1> DEFINE g == req[r].grant
           d == grant[g].target
<1>1. /\ g \in Grants /\ d \in Deliveries /\ req[r].pc = "prepared"
      /\ grant[g].state # "none" /\ ConsumeStored(g) /\ handed' = handed
      /\ clock \in Nat \ {0}
  BY DEF CommitConsumption, CustodyInv, CallsHoldGrants, GrantsTargeted, TypeOK
<1>2. /\ req'[r].pc = "consumed" /\ req'[r].grant = g
      /\ \A s \in Requests : s # r => req'[s] = req[s]
  BY DEF CommitConsumption, TypeOK, RequestRows
<1>3. GrantsKept /\ GrantsTargeted'
  BY <1>1, ConsumeKeepsGrants DEF GrantsKept, GrantsTargeted, CustodyInv
<1>4. CallsHoldGrants'
  BY <1>1, <1>2, <1>3 DEF CallsHoldGrants, GrantsKept, CustodyInv
<1>5. ASSUME NEW s \in Requests, NEW e \in Deliveries, Carries(s, e)', s # r
      PROVE  Carries(s, e) /\ req'[s] = req[s]
  <2>1. req[s].grant \in Grants /\ grant[req[s].grant].state # "none" /\ req'[s] = req[s]
    BY <1>2, <1>5 DEF Carries, CustodyInv, CallsHoldGrants
  <2> QED BY <2>1, <1>3, <1>5 DEF Carries, GrantsKept, Private
<1>6. ASSUME NEW e \in Deliveries, Carries(r, e)'
      PROVE  Private(g) /\ e = d
  BY <1>1, <1>2, <1>3, <1>6 DEF Carries, GrantsKept, Private
<1>7. CASE ~Private(g)
  <2>1. delivery' = delivery
    BY <1>1, <1>7 DEF ConsumeStored
  <2>2. \A e \in Deliveries : ~Carries(r, e)'
    BY <1>6, <1>7
  <2>3. CarriersClaimed'
    BY <1>1, <1>5, <2>1, <2>2 DEF CarriersClaimed, CustodyInv
  <2>4. SoleCarrier'
    BY <1>5, <2>2 DEF SoleCarrier, CustodyInv
  <2>5. ClaimRecorded'
    BY <1>1, <2>1 DEF ClaimRecorded, CustodyInv
  <2> QED BY <1>3, <1>4, <2>3, <2>4, <2>5 DEF CustodyInv
<1>8. CASE Private(g)
  <2>1. delivery[d].state = "pending" /\ delivery' = Consume(d, clock)
    BY <1>1, <1>8 DEF ConsumeStored, CanConsume
  <2>2. /\ delivery'[d].state = "transferring" /\ delivery'[d].consumedAt = clock
        /\ \A e \in Deliveries : e # d => delivery'[e] = delivery[e]
    BY <1>1, <2>1 DEF Consume, TypeOK, DeliveryRows
  <2>3. delivery[d].consumedAt = Unset /\ handed[d] = 0
    BY <1>1, <2>1 DEF CustodyInv, ClaimRecorded
  <2>4. \A s \in Requests : ~Carries(s, d)
    BY <1>1, <2>3 DEF CustodyInv, CarriersClaimed
  <2>5. CarriersClaimed'
    <3> SUFFICES ASSUME NEW s \in Requests, NEW e \in Deliveries, Carries(s, e)'
                 PROVE  /\ delivery'[e].consumedAt # Unset
                        /\ delivery'[e].state \in {"transferring", "failed"}
                        /\ handed'[e] = (IF req'[s].pc = "consumed" THEN 0 ELSE 1)
      BY DEF CarriersClaimed
    <3>1. CASE s = r
      BY <3>1, <1>1, <1>2, <1>6, <2>2, <2>3 DEF Unset
    <3>2. CASE s # r
      <4>1. Carries(s, e) /\ req'[s] = req[s]
        BY <3>2, <1>5
      <4>2. e # d
        BY <4>1, <2>4
      <4> QED BY <4>1, <4>2, <1>1, <2>2 DEF CarriersClaimed, CustodyInv
    <3> QED BY <3>1, <3>2
  <2>6. SoleCarrier'
    BY <1>5, <1>6, <2>4 DEF SoleCarrier, CustodyInv
  <2>7. ClaimRecorded'
    BY <1>1, <2>2, <2>3 DEF ClaimRecorded, CustodyInv, Unset
  <2> QED BY <1>3, <1>4, <2>5, <2>6, <2>7 DEF CustodyInv
<1> QED BY <1>7, <1>8

\* A step of one call that leaves the rows alone and keeps its grant.
LEMMA CallAdvances ==
    ASSUME TypeOK, CustodyInv, NEW r \in Requests,
           req[r].pc \in {"consumed", "sending"},
           req'[r].pc \in {"sending", "recording"}, req'[r].grant = req[r].grant,
           \A s \in Requests : s # r => req'[s] = req[s],
           UNCHANGED storeVars
    PROVE  /\ GrantsTargeted' /\ CallsHoldGrants' /\ SoleCarrier'
           /\ \A s \in Requests, e \in Deliveries : Carries(s, e)' <=> Carries(s, e)
<1>1. grant' = grant
  BY DEF storeVars
<1>2. \A s \in Requests, e \in Deliveries : Carries(s, e)' <=> Carries(s, e)
  BY <1>1 DEF Carries, Private
<1>3. GrantsTargeted' /\ CallsHoldGrants'
  BY <1>1 DEF GrantsTargeted, CallsHoldGrants, CustodyInv
<1>4. SoleCarrier'
  BY <1>2 DEF SoleCarrier, CustodyInv
<1> QED BY <1>2, <1>3, <1>4

\* invokeSink: the only carrier gives the key out, and for the first time.
LEMMA SinkStep ==
    ASSUME TypeOK, CustodyInv, NEW r \in Requests, InvokeSink(r)
    PROVE  CustodyInv'
<1> DEFINE g == req[r].grant
           d == grant[g].target
<1>1. /\ g \in Grants /\ d \in Deliveries /\ req[r].pc = "consumed"
      /\ UNCHANGED storeVars /\ delivery' = delivery
  BY DEF InvokeSink, CustodyInv, CallsHoldGrants, GrantsTargeted, storeVars
<1>2. /\ req'[r].pc = "sending" /\ req'[r].grant = g
      /\ \A s \in Requests : s # r => req'[s] = req[s]
  BY DEF InvokeSink, TypeOK, RequestRows
<1>3. /\ GrantsTargeted' /\ CallsHoldGrants' /\ SoleCarrier'
      /\ \A s \in Requests, e \in Deliveries : Carries(s, e)' <=> Carries(s, e)
  BY <1>1, <1>2, CallAdvances
<1>4. CASE ~Private(g)
  <2>1. handed' = handed /\ \A e \in Deliveries : ~Carries(r, e)
    BY <1>4 DEF InvokeSink, Carries
  <2> QED BY <1>1, <1>2, <1>3, <2>1 DEF CustodyInv, CarriersClaimed, ClaimRecorded
<1>5. CASE Private(g)
  <2>1. handed[d] = 0 /\ Carries(r, d) /\ delivery[d].consumedAt # Unset
    BY <1>1, <1>5 DEF Carries, CustodyInv, CarriersClaimed
  <2>2. handed'[d] = 1 /\ \A e \in Deliveries : e # d => handed'[e] = handed[e]
    BY <1>1, <1>5, <2>1 DEF InvokeSink, TypeOK
  <2>3. \A s \in Requests : Carries(s, d) => s = r
    BY <2>1, <1>1 DEF CustodyInv, SoleCarrier
  <2>4. \A e \in Deliveries : Carries(r, e) => e = d
    BY DEF Carries
  <2>5. CarriersClaimed'
    BY <1>1, <1>2, <1>3, <2>2, <2>3, <2>4 DEF CustodyInv, CarriersClaimed
  <2>6. ClaimRecorded'
    BY <1>1, <2>1, <2>2 DEF CustodyInv, ClaimRecorded
  <2> QED BY <1>3, <2>5, <2>6 DEF CustodyInv
<1> QED BY <1>4, <1>5

\* recordPrivateOutcome: the only carrier ends, so a completed row has none.
LEMMA OutcomeStep ==
    ASSUME TypeOK, CustodyInv, NEW r \in Requests, req[r].pc = "recording",
           Private(req[r].grant), OutcomeStored(r), UNCHANGED handed,
           req' = [req EXCEPT ![r] = IdleRequest]
    PROVE  CustodyInv'
<1> DEFINE g == req[r].grant
           d == grant[g].target
<1>1. g \in Grants /\ d \in Deliveries /\ grant' = grant /\ Carries(r, d)
  BY DEF CustodyInv, CallsHoldGrants, GrantsTargeted, OutcomeStored, Carries
<1>2. GrantsKept /\ GrantsTargeted' /\ CallsOnlyEnd /\ req'[r].pc = "idle"
  BY <1>1 DEF GrantsKept, GrantsTargeted, CustodyInv, CallsOnlyEnd, TypeOK, IdleRequest
<1>3. CASE req[r].result # "completed"
  <2>1. QuietRows
    BY <1>1, <1>3, FailIsQuiet DEF OutcomeStored
  <2> QED BY <1>2, <2>1, QuietStep
<1>f. \A s \in Requests, e \in Deliveries :
         Carries(s, e)' => Carries(s, e) /\ req'[s] = req[s]
  BY <1>2, CallsFrame
<1>4. CASE req[r].result = "completed"
  <2>1. delivery[d].state = "transferring" /\ delivery' = Complete(d, req[r].finishedAt)
    BY <1>4 DEF OutcomeStored, CanComplete
  <2>2. /\ delivery'[d].state = "server_completed"
        /\ delivery'[d].consumedAt = delivery[d].consumedAt
        /\ \A e \in Deliveries : e # d => delivery'[e] = delivery[e]
    BY <1>1, <2>1 DEF Complete, TypeOK, DeliveryRows
  <2>3. \A s \in Requests, e \in Deliveries : Carries(s, e)' => e # d
    <3> SUFFICES ASSUME NEW s \in Requests, NEW e \in Deliveries, Carries(s, e)', e = d
                 PROVE  FALSE
      OBVIOUS
    <3>1. Carries(s, e)
      BY <1>f
    <3>2. s = r
      BY <1>1, <3>1 DEF CustodyInv, SoleCarrier
    <3> QED BY <1>2, <3>2 DEF Carries
  <2>4. CarriersClaimed'
    <3> SUFFICES ASSUME NEW s \in Requests, NEW e \in Deliveries, Carries(s, e)'
                 PROVE  /\ delivery'[e].consumedAt # Unset
                        /\ delivery'[e].state \in {"transferring", "failed"}
                        /\ handed'[e] = (IF req'[s].pc = "consumed" THEN 0 ELSE 1)
      BY DEF CarriersClaimed
    <3>1. e # d /\ Carries(s, e) /\ req'[s] = req[s]
      BY <1>f, <2>3
    <3> QED BY <3>1, <2>2 DEF CustodyInv, CarriersClaimed
  <2>5. ClaimRecorded'
    BY <1>1, <2>1, <2>2 DEF CustodyInv, ClaimRecorded
  <2> QED BY <1>2, <2>4, <2>5, CallsFrame DEF CustodyInv
<1> QED BY <1>3, <1>4

\* Every step keeps the custody invariant.
LEMMA CustodyStep == TypeOK /\ CustodyInv /\ [Next]_vars => CustodyInv'
<1> SUFFICES ASSUME TypeOK, CustodyInv, [Next]_vars PROVE CustodyInv'
  OBVIOUS
<1>a. ASSUME UNCHANGED grant PROVE GrantsKept /\ GrantsTargeted'
  BY <1>a DEF GrantsKept, GrantsTargeted, CustodyInv
<1>b. ASSUME NEW d, grant' = InvalidatePrivateGrants(grant, d)
      PROVE  GrantsKept /\ GrantsTargeted'
  BY <1>b, InvalidateKeeps
     DEF GrantsKept, GrantsTargeted, CustodyInv, InvalidatePrivateGrants, TypeOK
<1>c. UNCHANGED delivery => QuietRows
  BY DEF QuietRows
<1>d. UNCHANGED req => CallsOnlyEnd
  BY DEF CallsOnlyEnd
<1>e. ASSUME NEW r \in Requests, req' = [req EXCEPT ![r] = IdleRequest]
      PROVE  CallsOnlyEnd
  BY <1>e DEF CallsOnlyEnd, IdleRequest, TypeOK
<1>1. CASE UNCHANGED vars
  BY <1>1, <1>a, <1>c, <1>d, QuietStep DEF vars, storeVars
<1>2. ASSUME NEW d \in Deliveries, StoreFreshKeyAndDelivery(d) PROVE CustodyInv'
  <2>1. QuietRows
    BY <1>2 DEF StoreFreshKeyAndDelivery, QuietRows, TypeOK, DeliveryRows
  <2> QED BY <1>2, <2>1, <1>a, <1>d, QuietStep DEF StoreFreshKeyAndDelivery
<1>3. ASSUME NEW g \in Grants, NEW d \in Deliveries, NEW purpose \in GrantPurposes,
             InsertGrant(g, d, purpose)
      PROVE  CustodyInv'
  <2> DEFINE before == IF purpose = "leaf_public"
                       THEN InvalidateGrants(grant, d, purpose) ELSE grant
             row == [state |-> "live", purpose |-> purpose, target |-> d,
                     expiresAt |-> clock + LinkWindow]
  <2>1. before \in [Grants -> GrantRows]
    BY GrantWritersTyped DEF TypeOK
  <2>2. \A h \in Grants : /\ before[h].state = "none" <=> grant[h].state = "none"
                          /\ before[h].target = grant[h].target
                          /\ before[h].purpose = grant[h].purpose
    BY InvalidateKeeps DEF TypeOK
  <2>3. grant' = [before EXCEPT ![g] = row] /\ grant[g].state = "none"
    BY <1>3 DEF InsertGrant
  <2>4. grant'[g] = row /\ \A h \in Grants : h # g => grant'[h] = before[h]
    <3> HIDE DEF before, row
    <3> QED BY <2>1, <2>3
  <2>5. GrantsKept /\ GrantsTargeted'
    <3> HIDE DEF before
    <3> QED BY <2>2, <2>3, <2>4 DEF GrantsKept, GrantsTargeted, CustodyInv
  <2> QED BY <1>3, <2>5, <1>c, <1>d, QuietStep DEF InsertGrant
<1>4. ASSUME NEW r \in Requests, DeliverStep(r) PROVE CustodyInv'
  <2>1. ASSUME NEW g \in Grants, Prepare(r, g) PROVE CustodyInv'
    <3>1. /\ req'[r].pc = "prepared" /\ req'[r].grant = g /\ req[r].pc = "idle"
          /\ \A s \in Requests : s # r => req'[s] = req[s]
          /\ grant' = grant /\ delivery' = delivery /\ handed' = handed
          /\ grant[g].state = "live"
      BY <2>1 DEF Prepare, TypeOK, RequestRows, storeVars, Validate
    <3>2. \A s \in Requests, d \in Deliveries :
             /\ Carries(s, d)' <=> Carries(s, d)
             /\ Carries(s, d) => req'[s] = req[s]
      BY <3>1 DEF Carries, Private
    <3>3. GrantsTargeted' /\ CallsHoldGrants'
      BY <3>1 DEF CustodyInv, GrantsTargeted, CallsHoldGrants
    <3>4. CarriersClaimed' /\ SoleCarrier' /\ ClaimRecorded'
      BY <3>1, <3>2 DEF CustodyInv, CarriersClaimed, SoleCarrier, ClaimRecorded
    <3> QED BY <3>3, <3>4 DEF CustodyInv
  <2>2. CASE CommitConsumption(r)
    BY <2>2, ClaimStep
  <2>3. CASE ConsumptionRolledBack(r)
    BY <2>3, <1>a, <1>c, <1>e, QuietStep DEF ConsumptionRolledBack, storeVars
  <2>4. CASE ConsumptionUnknown(r)
    \* As if the claim were made and the call carrying it dropped.
    <3> DEFINE g == req[r].grant
               d == grant[g].target
    <3>1. g \in Grants /\ d \in Deliveries /\ CallsOnlyEnd /\ handed' = handed
      BY <2>4, <1>e DEF ConsumptionUnknown, CustodyInv, CallsHoldGrants, GrantsTargeted
    <3>2. CASE UNCHANGED storeVars
      BY <3>1, <3>2, <1>a, <1>c, QuietStep DEF storeVars
    <3>3. CASE ConsumeStored(g)
      <4>1. GrantsKept /\ GrantsTargeted'
        BY <3>1, <3>3, ConsumeKeepsGrants DEF GrantsKept, GrantsTargeted, CustodyInv
      <4>2. CASE ~Private(g)
        BY <3>1, <3>3, <4>1, <4>2, <1>c, QuietStep DEF ConsumeStored
      <4>3. CASE Private(g)
        <5>1. delivery[d].state = "pending" /\ delivery' = Consume(d, clock)
          BY <3>3, <4>3 DEF ConsumeStored, CanConsume
        <5>2. /\ delivery'[d].state = "transferring" /\ delivery'[d].consumedAt = clock
              /\ \A e \in Deliveries : e # d => delivery'[e] = delivery[e]
          BY <3>1, <5>1 DEF Consume, TypeOK, DeliveryRows
        <5>3. /\ delivery[d].consumedAt = Unset /\ handed[d] = 0 /\ clock # 0
              /\ \A s \in Requests : ~Carries(s, d)
          BY <3>1, <5>1 DEF CustodyInv, ClaimRecorded, CarriersClaimed, TypeOK
        <5>4. /\ CallsHoldGrants' /\ SoleCarrier'
              /\ \A s \in Requests, e \in Deliveries :
                    Carries(s, e)' => Carries(s, e) /\ req'[s] = req[s]
          BY <3>1, <4>1, CallsFrame
        <5>5. CarriersClaimed'
          BY <3>1, <5>2, <5>3, <5>4 DEF CustodyInv, CarriersClaimed
        <5>6. ClaimRecorded'
          BY <3>1, <5>2, <5>3 DEF CustodyInv, ClaimRecorded, Unset
        <5> QED BY <4>1, <5>4, <5>5, <5>6 DEF CustodyInv
      <4> QED BY <4>2, <4>3
    <3> QED BY <2>4, <3>2, <3>3 DEF ConsumptionUnknown
  <2>5. CASE InvokeSink(r)
    BY <2>5, SinkStep
  <2>6. ASSUME NEW result \in SendResults, SendReturned(r, result) PROVE CustodyInv'
    <3>1. /\ req[r].pc = "sending" /\ req'[r].pc = "recording"
          /\ req'[r].grant = req[r].grant
          /\ \A s \in Requests : s # r => req'[s] = req[s]
          /\ UNCHANGED storeVars /\ handed' = handed /\ delivery' = delivery
      BY <2>6 DEF SendReturned, TypeOK, RequestRows, storeVars
    <3>2. /\ GrantsTargeted' /\ CallsHoldGrants' /\ SoleCarrier'
          /\ \A s \in Requests, e \in Deliveries : Carries(s, e)' <=> Carries(s, e)
      BY <3>1, CallAdvances
    <3> QED BY <3>1, <3>2 DEF CustodyInv, CarriersClaimed, ClaimRecorded
  <2>7. CASE RecordPrivateOutcome(r)
    BY <2>7, OutcomeStep DEF RecordPrivateOutcome
  <2>8. CASE PrivateOutcomeUnresolved(r)
    <3>1. CASE OutcomeStored(r)
      BY <2>8, <3>1, OutcomeStep DEF PrivateOutcomeUnresolved
    <3>2. CASE UNCHANGED storeVars
      BY <2>8, <3>2, <1>a, <1>c, <1>e, QuietStep DEF PrivateOutcomeUnresolved, storeVars
    <3> QED BY <2>8, <3>1, <3>2 DEF PrivateOutcomeUnresolved
  <2>9. CASE RecordPublicOutcome(r)
    BY <2>9, <1>a, <1>c, <1>e, QuietStep DEF RecordPublicOutcome
  <2> QED BY <1>4, <2>1, <2>2, <2>3, <2>4, <2>5, <2>6, <2>7, <2>8, <2>9 DEF DeliverStep
<1>5. ASSUME NEW d \in Deliveries, PassStep(d) PROVE CustodyInv'
  <2>1. ASSUME NEW now, NEW action, InterruptedStored(d, now, action)
        PROVE  GrantsKept /\ GrantsTargeted' /\ QuietRows
    BY <2>1, <1>b, FailIsQuiet DEF InterruptedStored
  <2>2. ASSUME ExpiryStored(d) PROVE GrantsKept /\ GrantsTargeted' /\ QuietRows
    BY <2>2, <1>b, FailIsQuiet DEF ExpiryStored
  <2>3. ASSUME UNCHANGED storeVars PROVE GrantsKept /\ GrantsTargeted' /\ QuietRows
    BY <2>3, <1>a, <1>c DEF storeVars
  <2>4. CASE FailInterruptedTransfer(d)
    BY <2>4, <2>1, <1>d, QuietStep DEF FailInterruptedTransfer
  <2>5. CASE RecoveryAborted(d)
    BY <2>5, <2>1, <2>3, <1>d, QuietStep DEF RecoveryAborted
  <2>6. CASE ExpireOneDelivery(d)
    BY <2>6, <2>2, <1>d, QuietStep DEF ExpireOneDelivery
  <2>7. CASE ExpiryUnknown(d)
    BY <2>7, <2>2, <2>3, <1>d, QuietStep DEF ExpiryUnknown
  <2>8. CASE RecoverOneTransfer(d)
    BY <2>8, <2>1, <1>d, QuietStep DEF RecoverOneTransfer
  <2>9. CASE RecoverOneTransferUnknown(d)
    BY <2>9, <2>1, <2>3, <1>d, QuietStep DEF RecoverOneTransferUnknown
  <2> QED BY <1>5, <2>4, <2>5, <2>6, <2>7, <2>8, <2>9 DEF PassStep
<1>6. CASE Crash \/ Terminate
  <2>1. CallsOnlyEnd
    BY <1>6 DEF Crash, Terminate, Halt, CallsOnlyEnd, IdleRequest
  <2> QED BY <1>6, <2>1, <1>a, <1>c, QuietStep DEF Crash, Terminate, Halt, storeVars
<1>7. CASE StartRecovery \/ OpenAdmission \/ Tick \/ StepBack
  BY <1>7, <1>a, <1>c, <1>d, QuietStep
     DEF StartRecovery, OpenAdmission, Tick, StepBack, storeVars
<1> QED BY <1>1, <1>2, <1>3, <1>4, <1>5, <1>6, <1>7 DEF Next

\* A stored grant keeps its purpose and target in every step.
LEMMA GrantsKeptStep == TypeOK /\ CustodyInv /\ [Next]_vars => GrantsKept
<1> SUFFICES ASSUME TypeOK, CustodyInv, [Next]_vars PROVE GrantsKept
  OBVIOUS
<1>a. UNCHANGED grant => GrantsKept
  BY DEF GrantsKept
<1>b. ASSUME NEW d, grant' = InvalidatePrivateGrants(grant, d) PROVE GrantsKept
  BY <1>b, InvalidateKeeps DEF GrantsKept, InvalidatePrivateGrants, TypeOK
<1>c. ASSUME NEW r \in Requests, req[r].pc # "idle", ConsumeStored(req[r].grant)
      PROVE  GrantsKept
  BY <1>c, ConsumeKeepsGrants DEF GrantsKept, CustodyInv, CallsHoldGrants
<1>1. ASSUME NEW g \in Grants, NEW d \in Deliveries, NEW purpose \in GrantPurposes,
             InsertGrant(g, d, purpose)
      PROVE  GrantsKept
  <2> DEFINE before == IF purpose = "leaf_public"
                       THEN InvalidateGrants(grant, d, purpose) ELSE grant
  <2>1. \A h \in Grants : /\ before[h].state = "none" <=> grant[h].state = "none"
                          /\ before[h].target = grant[h].target
                          /\ before[h].purpose = grant[h].purpose
    BY InvalidateKeeps DEF TypeOK
  <2>2. before \in [Grants -> GrantRows]
    BY GrantWritersTyped DEF TypeOK
  <2>3. grant[g].state = "none" /\ \A h \in Grants : h # g => grant'[h] = before[h]
    BY <1>1, <2>2 DEF InsertGrant
  <2> HIDE DEF before
  <2> QED BY <2>1, <2>3 DEF GrantsKept
<1>2. ASSUME NEW r \in Requests, DeliverStep(r) PROVE GrantsKept
  <2>1. \/ UNCHANGED grant
        \/ req[r].pc = "prepared" /\ ConsumeStored(req[r].grant)
    BY <1>2 DEF DeliverStep, Prepare, CommitConsumption, ConsumptionRolledBack,
       ConsumptionUnknown, InvokeSink, SendReturned, RecordPrivateOutcome,
       PrivateOutcomeUnresolved, RecordPublicOutcome, OutcomeStored, storeVars
  <2> QED BY <2>1, <1>a, <1>c
<1>3. ASSUME NEW d \in Deliveries, PassStep(d) PROVE GrantsKept
  <2>1. UNCHANGED grant \/ grant' = InvalidatePrivateGrants(grant, d)
    BY <1>3 DEF PassStep, FailInterruptedTransfer, RecoveryAborted, ExpireOneDelivery,
       ExpiryUnknown, RecoverOneTransfer, RecoverOneTransferUnknown, InterruptedStored,
       ExpiryStored, storeVars
  <2> QED BY <2>1, <1>a, <1>b
<1>4. CASE UNCHANGED vars \/ \E d \in Deliveries : StoreFreshKeyAndDelivery(d)
  BY <1>4, <1>a DEF vars, storeVars, StoreFreshKeyAndDelivery
<1>5. CASE Crash \/ Terminate \/ StartRecovery \/ OpenAdmission \/ Tick \/ StepBack
  BY <1>5, <1>a DEF Crash, Terminate, Halt, StartRecovery, OpenAdmission, Tick, StepBack,
                    storeVars
<1> QED BY <1>1, <1>2, <1>3, <1>4, <1>5 DEF Next

\* Types and custody hold initially.
LEMMA InitInv == Init => TypeOK /\ CustodyInv
<1> SUFFICES ASSUME Init PROVE TypeOK /\ CustodyInv
  OBVIOUS
<1>1. TypeOK
  <2>1. NoDelivery \in DeliveryRows
    BY DEF NoDelivery, DeliveryRows, DeliveryStates, FailureCodes, Instants, Unset
  <2>2. UnusedGrant \in GrantRows
    BY DEF UnusedGrant, GrantRows, GrantPurposes, Instants, Unset
  <2>3. IdleRequest \in RequestRows
    BY DEF IdleRequest, RequestRows, SendResults, Instants, Unset
  <2> QED BY <2>1, <2>2, <2>3 DEF Init, TypeOK, Instants, Unset
<1>2. CustodyInv
  BY DEF Init, CustodyInv, GrantsTargeted, CallsHoldGrants, CarriersClaimed, SoleCarrier,
         ClaimRecorded, Carries, NoDelivery, UnusedGrant, IdleRequest, Unset
<1> QED BY <1>1, <1>2

\* Types and custody hold in every reachable state.
LEMMA Invariance == Spec => [](TypeOK /\ CustodyInv)
<1>1. TypeOK /\ CustodyInv /\ [Next]_vars => (TypeOK /\ CustodyInv)'
  BY TypeStep, CustodyStep DEF CustodyInv
<1> QED BY InitInv, <1>1, PTL DEF Spec

\* Rows, links and calls are well typed in every state of every instance.
THEOREM TypeCorrect == Spec => []TypeOK
BY Invariance, PTL

\* Behind the one-shot guarantee: the row, the sink and the calls of Deliver
\* agree on who has the key.
THEOREM CustodyCorrect == Spec => []CustodyInv
BY Invariance, PTL

\* Whatever the number of links, of concurrent calls of Deliver, of crashes,
\* restarts and operator passes, a leaf private key reaches a sink at most once.
THEOREM OneShotCorrect == Spec => []OneShot
<1>1. TypeOK /\ CustodyInv => OneShot
  BY DEF CustodyInv, ClaimRecorded, OneShot
<1> QED BY <1>1, Invariance, PTL

-----------------------------------------------------------------------------
(* The key is gone once claimed, and failure means revocation.             *)

\* What every row writer leaves of the two relations: a claimed row has no
\* ciphertext, and a row is failed exactly when its certificate is revoked.
RowFacts ==
    \A d \in Deliveries :
        /\ delivery[d].consumedAt # Unset => d \notin secret
        /\ delivery[d].state = "failed" <=> d \in revoked

\* Failing and revoking together keeps the facts about a row.
LEMMA FailKeepsRowFacts ==
    ASSUME TypeOK, RowFacts, NEW d \in Deliveries, NEW code, NEW now, NEW event,
           FailAndRevoke(d, code, now, event), UNCHANGED secret
    PROVE  RowFacts'
BY DEF TypeOK, RowFacts, FailAndRevoke, Fail, DeliveryRows

\* A committed consumption keeps the facts about a row.
LEMMA ConsumeKeepsRowFacts ==
    ASSUME TypeOK, RowFacts, NEW g \in Grants, grant[g].target \in Deliveries,
           ConsumeStored(g)
    PROVE  RowFacts'
<1>1. CASE Private(g)
  BY <1>1 DEF TypeOK, RowFacts, ConsumeStored, Consume, CanConsume, DeliveryRows
<1>2. CASE ~Private(g)
  BY <1>2 DEF RowFacts, ConsumeStored
<1> QED BY <1>1, <1>2

\* Recording an outcome keeps the facts about a row.
LEMMA OutcomeKeepsRowFacts ==
    ASSUME TypeOK, RowFacts, CustodyInv, NEW r \in Requests, req[r].pc = "recording",
           OutcomeStored(r)
    PROVE  RowFacts'
<1> DEFINE d == grant[req[r].grant].target
<1>1. d \in Deliveries
  BY DEF CustodyInv, CallsHoldGrants, GrantsTargeted
<1>2. CASE req[r].result = "completed"
  <2>1. /\ delivery' = Complete(d, req[r].finishedAt) /\ UNCHANGED <<secret, revoked>>
        /\ delivery[d].state = "transferring"
    BY <1>2 DEF OutcomeStored, CanComplete
  <2>2. /\ delivery'[d].state = "server_completed"
        /\ delivery'[d].consumedAt = delivery[d].consumedAt
        /\ \A e \in Deliveries : e # d => delivery'[e] = delivery[e]
    BY <1>1, <2>1 DEF Complete, TypeOK, DeliveryRows
  <2> QED BY <1>1, <2>1, <2>2 DEF RowFacts
<1>3. CASE req[r].result # "completed"
  BY <1>1, <1>3, FailKeepsRowFacts DEF OutcomeStored
<1> QED BY <1>2, <1>3

\* Every step keeps the facts about the stored rows.
LEMMA RowFactsStep == TypeOK /\ CustodyInv /\ RowFacts /\ [Next]_vars => RowFacts'
<1> SUFFICES ASSUME TypeOK, CustodyInv, RowFacts, [Next]_vars PROVE RowFacts'
  OBVIOUS
<1>a. UNCHANGED <<delivery, secret, revoked>> => RowFacts'
  BY DEF RowFacts
<1>b. ASSUME NEW r \in Requests, req[r].pc # "idle"
      PROVE  req[r].grant \in Grants /\ grant[req[r].grant].target \in Deliveries
  BY <1>b DEF CustodyInv, CallsHoldGrants, GrantsTargeted
<1>1. ASSUME NEW d \in Deliveries, StoreFreshKeyAndDelivery(d) PROVE RowFacts'
  <2>1. /\ delivery'[d].state = "pending" /\ delivery'[d].consumedAt = delivery[d].consumedAt
        /\ \A e \in Deliveries : e # d => delivery'[e] = delivery[e]
    BY <1>1 DEF StoreFreshKeyAndDelivery, TypeOK, DeliveryRows
  <2>2. delivery[d].consumedAt = Unset
    BY <1>1 DEF StoreFreshKeyAndDelivery, CustodyInv, ClaimRecorded
  <2> QED BY <1>1, <2>1, <2>2 DEF StoreFreshKeyAndDelivery, RowFacts
<1>2. ASSUME NEW r \in Requests, DeliverStep(r) PROVE RowFacts'
  <2>1. CASE ConsumeStored(req[r].grant) /\ req[r].pc = "prepared"
    BY <2>1, <1>b, ConsumeKeepsRowFacts
  <2>2. CASE OutcomeStored(r) /\ req[r].pc = "recording"
    BY <2>2, OutcomeKeepsRowFacts
  <2> QED BY <1>2, <2>1, <2>2, <1>a
          DEF DeliverStep, Prepare, CommitConsumption, ConsumptionRolledBack,
              ConsumptionUnknown, InvokeSink, SendReturned, RecordPrivateOutcome,
              PrivateOutcomeUnresolved, RecordPublicOutcome, storeVars
<1>3. ASSUME NEW d \in Deliveries, PassStep(d) PROVE RowFacts'
  <2>1. ASSUME NEW now, NEW action, InterruptedStored(d, now, action) PROVE RowFacts'
    BY <2>1, FailKeepsRowFacts DEF InterruptedStored
  <2>2. CASE ExpiryStored(d)
    BY <2>2, FailKeepsRowFacts DEF ExpiryStored
  <2> QED BY <1>3, <2>1, <2>2, <1>a
          DEF PassStep, FailInterruptedTransfer, RecoveryAborted, ExpireOneDelivery,
              ExpiryUnknown, RecoverOneTransfer, RecoverOneTransferUnknown, storeVars
<1>4. CASE UNCHANGED vars
  BY <1>4, <1>a DEF vars, storeVars
<1>5. ASSUME NEW g \in Grants, NEW d \in Deliveries, NEW purpose \in GrantPurposes,
             InsertGrant(g, d, purpose)
      PROVE  RowFacts'
  BY <1>5, <1>a DEF InsertGrant
<1>6. CASE Crash \/ Terminate \/ StartRecovery \/ OpenAdmission \/ Tick \/ StepBack
  BY <1>6, <1>a DEF Crash, Terminate, Halt, StartRecovery, OpenAdmission, Tick, StepBack,
                    storeVars
<1> QED BY <1>1, <1>2, <1>3, <1>4, <1>5, <1>6 DEF Next

\* The facts about the stored rows hold in every reachable state.
LEMMA RowFactsInvariance == Spec => []RowFacts
<1>1. Init => RowFacts
  <2> SUFFICES ASSUME Init, NEW d \in Deliveries
               PROVE  /\ delivery[d].consumedAt = Unset /\ delivery[d].state # "failed"
                      /\ d \notin revoked
    BY DEF RowFacts
  <2> QED BY DEF Init, NoDelivery
<1> QED BY <1>1, RowFactsStep, Invariance, PTL DEF Spec

\* Once a transfer claimed the key, or the key was given out, no ciphertext of
\* it is stored for another call to decrypt.
THEOREM ClaimedKeyDeletedCorrect == Spec => []ClaimedKeyDeleted
<1>1. TypeOK /\ CustodyInv /\ RowFacts => ClaimedKeyDeleted
  BY DEF TypeOK, CustodyInv, ClaimRecorded, RowFacts, ClaimedKeyDeleted
<1> QED BY <1>1, Invariance, RowFactsInvariance, PTL

\* No path fails a delivery without revoking its certificate, and none revokes
\* one whose delivery did not fail.
THEOREM FailedIffRevokedCorrect == Spec => []FailedIffRevoked
<1>1. RowFacts => FailedIffRevoked
  BY DEF RowFacts, FailedIffRevoked
<1> QED BY <1>1, RowFactsInvariance, PTL

-----------------------------------------------------------------------------
(* Times are those of the deciding moment.                                 *)

\* What a row says of its times; only a failed row has a failure code.
RowTimes ==
    /\ TimesHonoured
    /\ \A d \in Deliveries : delivery[d].code # "" => delivery[d].state = "failed"

\* A call remembers when it claimed the key, and ends after that.
CallTimes ==
    \A r \in Requests, d \in Deliveries :
        Carries(r, d) =>
            /\ req[r].consumedAt = delivery[d].consumedAt
            /\ req[r].pc = "recording" => req[r].finishedAt >= req[r].consumedAt

\* A step that fails a row by another path than its call says nothing of when
\* the transfer ended.
LEMMA FailKeepsRowTimes ==
    ASSUME TypeOK, RowTimes, NEW d \in Deliveries, NEW code \in FailureCodes \ {""},
           NEW now \in Nat, NEW event, FailAndRevoke(d, code, now, event),
           code \in {"transfer_failed", "transfer_panic"} =>
                now >= delivery[d].consumedAt
    PROVE  RowTimes'
<1>1. /\ delivery'[d].state = "failed" /\ delivery'[d].code = code
      /\ delivery'[d].finishedAt = now
      /\ delivery'[d].consumedAt = delivery[d].consumedAt
      /\ delivery'[d].expiresAt = delivery[d].expiresAt
      /\ delivery[d].state # "none"
      /\ \A e \in Deliveries : e # d => delivery'[e] = delivery[e]
  BY DEF FailAndRevoke, Fail, CanFail, TypeOK, DeliveryRows
<1> QED BY <1>1 DEF RowTimes, TimesHonoured

\* A claim is made before the deadline.
LEMMA ConsumeKeepsRowTimes ==
    ASSUME TypeOK, RowTimes, NEW g \in Grants, grant[g].target \in Deliveries,
           ConsumeStored(g)
    PROVE  RowTimes'
<1> DEFINE d == grant[g].target
<1>1. CASE ~Private(g)
  BY <1>1 DEF ConsumeStored, RowTimes, TimesHonoured
<1>2. CASE Private(g)
  <2>1. /\ delivery[d].state = "pending" /\ clock < delivery[d].expiresAt
        /\ delivery' = Consume(d, clock)
    BY <1>2 DEF ConsumeStored, CanConsume, IsExpiredAt, TypeOK, DeliveryRows, Instants
  <2>2. /\ delivery'[d].state = "transferring" /\ delivery'[d].consumedAt = clock
        /\ delivery'[d].expiresAt = delivery[d].expiresAt
        /\ delivery'[d].code = delivery[d].code
        /\ \A e \in Deliveries : e # d => delivery'[e] = delivery[e]
    BY <2>1 DEF Consume, TypeOK, DeliveryRows
  <2>3. delivery[d].code = ""
    BY <2>1 DEF RowTimes
  <2> HIDE DEF d
  <2> QED BY <2>1, <2>2, <2>3 DEF RowTimes, TimesHonoured
<1> QED BY <1>1, <1>2

\* An outcome is recorded with the end its call observed.
LEMMA OutcomeKeepsRowTimes ==
    ASSUME TypeOK, CustodyInv, RowTimes, CallTimes, NEW r \in Requests,
           req[r].pc = "recording", Private(req[r].grant), OutcomeStored(r)
    PROVE  RowTimes'
<1> DEFINE d == grant[req[r].grant].target
           now == req[r].finishedAt
           code == IF req[r].result = "panicked" THEN "transfer_panic"
                                                 ELSE "transfer_failed"
<1>1. d \in Deliveries /\ Carries(r, d) /\ now \in Nat
  BY DEF CustodyInv, CallsHoldGrants, GrantsTargeted, Carries, TypeOK, RequestRows,
         Instants
<1>2. now >= delivery[d].consumedAt
  BY <1>1 DEF CallTimes
<1>3. CASE req[r].result = "completed"
  <2>1. delivery[d].state = "transferring" /\ delivery' = Complete(d, now)
    BY <1>3 DEF OutcomeStored, CanComplete
  <2>2. /\ delivery'[d].state = "server_completed" /\ delivery'[d].finishedAt = now
        /\ delivery'[d].consumedAt = delivery[d].consumedAt
        /\ delivery'[d].expiresAt = delivery[d].expiresAt
        /\ delivery'[d].code = delivery[d].code
        /\ \A e \in Deliveries : e # d => delivery'[e] = delivery[e]
    BY <1>1, <2>1 DEF Complete, TypeOK, DeliveryRows
  <2>3. delivery[d].code = ""
    BY <1>1, <2>1 DEF RowTimes
  <2> HIDE DEF d, now
  <2> QED BY <1>1, <1>2, <2>1, <2>2, <2>3 DEF RowTimes, TimesHonoured
<1>4. CASE req[r].result # "completed"
  <2>1. FailAndRevoke(d, code, now, Event("private.failed", req[r].grant))
    BY <1>4 DEF OutcomeStored
  <2>2. code \in FailureCodes \ {""}
    BY DEF FailureCodes
  <2> HIDE DEF code, d, now
  <2> QED BY <1>1, <1>2, <2>1, <2>2, FailKeepsRowTimes
<1> QED BY <1>3, <1>4

\* Every step keeps the times of the rows.
LEMMA RowTimesStep ==
    TypeOK /\ CustodyInv /\ RowTimes /\ CallTimes /\ [Next]_vars => RowTimes'
<1> SUFFICES ASSUME TypeOK, CustodyInv, RowTimes, CallTimes, [Next]_vars PROVE RowTimes'
  OBVIOUS
<1>a. UNCHANGED delivery => RowTimes'
  BY DEF RowTimes, TimesHonoured
<1>b. ASSUME NEW r \in Requests, req[r].pc # "idle"
      PROVE  req[r].grant \in Grants /\ grant[req[r].grant].target \in Deliveries
  BY <1>b DEF CustodyInv, CallsHoldGrants, GrantsTargeted
<1>1. ASSUME NEW d \in Deliveries, StoreFreshKeyAndDelivery(d) PROVE RowTimes'
  <2>1. /\ delivery'[d].state = "pending" /\ delivery[d].state = "none"
        /\ delivery'[d].consumedAt = delivery[d].consumedAt
        /\ delivery'[d].finishedAt = delivery[d].finishedAt
        /\ delivery'[d].code = delivery[d].code
        /\ delivery'[d].expiresAt = clock + DeliveryWindow
        /\ \A e \in Deliveries : e # d => delivery'[e] = delivery[e]
    BY <1>1 DEF StoreFreshKeyAndDelivery, TypeOK, DeliveryRows
  <2>2. delivery[d].consumedAt = 0 /\ clock \in Nat \ {0} /\ DeliveryWindow \in Nat
    BY <2>1, DeliveryConstants DEF CustodyInv, ClaimRecorded, TypeOK, Unset
  <2>3. delivery[d].code = ""
    BY <2>1 DEF RowTimes
  <2>4. delivery'[d].consumedAt < delivery'[d].expiresAt
    BY <2>1, <2>2
  <2>5. delivery'[d].state = "pending" /\ delivery'[d].code = ""
    BY <2>1, <2>3
  <2> QED BY <2>1, <2>4, <2>5 DEF RowTimes, TimesHonoured
<1>2. ASSUME NEW r \in Requests, DeliverStep(r) PROVE RowTimes'
  <2>1. CASE ConsumeStored(req[r].grant) /\ req[r].pc = "prepared"
    BY <2>1, <1>b, ConsumeKeepsRowTimes
  <2>2. CASE OutcomeStored(r) /\ req[r].pc = "recording" /\ Private(req[r].grant)
    BY <2>2, OutcomeKeepsRowTimes
  <2> QED BY <1>2, <2>1, <2>2, <1>a
          DEF DeliverStep, Prepare, CommitConsumption, ConsumptionRolledBack,
              ConsumptionUnknown, InvokeSink, SendReturned, RecordPrivateOutcome,
              PrivateOutcomeUnresolved, RecordPublicOutcome, storeVars
<1>3. ASSUME NEW d \in Deliveries, PassStep(d) PROVE RowTimes'
  <2>a. /\ {"interrupted_transfer", "delivery_expired"} \subseteq FailureCodes \ {""}
        /\ clock \in Nat /\ recoverNow \in Nat
    BY DEF FailureCodes, TypeOK, Instants
  <2>1. ASSUME NEW now \in Nat, NEW action, InterruptedStored(d, now, action)
        PROVE  RowTimes'
    BY <2>1, <2>a, FailKeepsRowTimes DEF InterruptedStored
  <2>2. CASE ExpiryStored(d)
    BY <2>2, <2>a, FailKeepsRowTimes DEF ExpiryStored
  <2> QED BY <1>3, <2>1, <2>2, <2>a, <1>a
          DEF PassStep, FailInterruptedTransfer, RecoveryAborted, ExpireOneDelivery,
              ExpiryUnknown, RecoverOneTransfer, RecoverOneTransferUnknown, storeVars
<1>4. CASE UNCHANGED vars
  BY <1>4, <1>a DEF vars, storeVars
<1>5. ASSUME NEW g \in Grants, NEW d \in Deliveries, NEW purpose \in GrantPurposes,
             InsertGrant(g, d, purpose)
      PROVE  RowTimes'
  BY <1>5, <1>a DEF InsertGrant
<1>6. CASE Crash \/ Terminate \/ StartRecovery \/ OpenAdmission \/ Tick \/ StepBack
  BY <1>6, <1>a DEF Crash, Terminate, Halt, StartRecovery, OpenAdmission, Tick, StepBack,
                    storeVars
<1> QED BY <1>1, <1>2, <1>3, <1>4, <1>5, <1>6 DEF Next

\* The moment of a claim is written once.
LEMMA ClaimsKept ==
    TypeOK /\ CustodyInv /\ [Next]_vars =>
        \A d \in Deliveries : delivery[d].consumedAt # Unset
                                  => delivery'[d].consumedAt = delivery[d].consumedAt
<1> SUFFICES ASSUME TypeOK, CustodyInv, [Next]_vars, NEW d \in Deliveries,
                    delivery[d].consumedAt # Unset
             PROVE  delivery'[d].consumedAt = delivery[d].consumedAt
  OBVIOUS
<1>a. ASSUME NEW e \in Deliveries, NEW code, NEW now, NEW event,
             FailAndRevoke(e, code, now, event)
      PROVE  delivery'[d].consumedAt = delivery[d].consumedAt
  BY <1>a, FailIsQuiet DEF QuietRows
<1>b. ASSUME NEW r \in Requests, req[r].pc # "idle"
      PROVE  grant[req[r].grant].target \in Deliveries
  BY <1>b DEF CustodyInv, CallsHoldGrants, GrantsTargeted
<1>1. ASSUME NEW e \in Deliveries, StoreFreshKeyAndDelivery(e)
      PROVE  delivery'[d].consumedAt = delivery[d].consumedAt
  BY <1>1 DEF StoreFreshKeyAndDelivery, TypeOK, DeliveryRows
<1>2. ASSUME NEW r \in Requests, DeliverStep(r)
      PROVE  delivery'[d].consumedAt = delivery[d].consumedAt
  <2> DEFINE e == grant[req[r].grant].target
  <2>1. CASE ConsumeStored(req[r].grant) /\ req[r].pc = "prepared"
    <3>1. CASE Private(req[r].grant)
      <4>1. delivery' = Consume(e, clock) /\ delivery[e].state = "pending"
        BY <2>1, <3>1 DEF ConsumeStored, CanConsume
      <4>2. e # d
        BY <4>1 DEF CustodyInv, ClaimRecorded
      <4> HIDE DEF e
      <4> QED BY <4>1, <4>2 DEF Consume, TypeOK
    <3>2. CASE ~Private(req[r].grant)
      BY <2>1, <3>2 DEF ConsumeStored
    <3> QED BY <3>1, <3>2
  <2>2. CASE OutcomeStored(r) /\ req[r].pc = "recording"
    <3>1. CASE req[r].result = "completed"
      BY <2>2, <3>1 DEF OutcomeStored, Complete, TypeOK, DeliveryRows
    <3>2. CASE req[r].result # "completed"
      BY <2>2, <3>2, <1>a, <1>b DEF OutcomeStored
    <3> QED BY <3>1, <3>2
  <2> QED BY <1>2, <2>1, <2>2
          DEF DeliverStep, Prepare, CommitConsumption, ConsumptionRolledBack,
              ConsumptionUnknown, InvokeSink, SendReturned, RecordPrivateOutcome,
              PrivateOutcomeUnresolved, RecordPublicOutcome, storeVars
<1>3. ASSUME NEW e \in Deliveries, PassStep(e)
      PROVE  delivery'[d].consumedAt = delivery[d].consumedAt
  BY <1>3, <1>a DEF PassStep, FailInterruptedTransfer, RecoveryAborted, ExpireOneDelivery,
     ExpiryUnknown, RecoverOneTransfer, RecoverOneTransferUnknown, InterruptedStored,
     ExpiryStored, storeVars
<1>4. ASSUME NEW g \in Grants, NEW e \in Deliveries, NEW purpose \in GrantPurposes,
             InsertGrant(g, e, purpose)
      PROVE  delivery'[d].consumedAt = delivery[d].consumedAt
  BY <1>4 DEF InsertGrant
<1>5. CASE UNCHANGED vars
  BY <1>5 DEF vars, storeVars
<1>6. CASE Crash \/ Terminate \/ StartRecovery \/ OpenAdmission \/ Tick \/ StepBack
  BY <1>6 DEF Crash, Terminate, Halt, StartRecovery, OpenAdmission, Tick, StepBack,
              storeVars
<1> QED BY <1>1, <1>2, <1>3, <1>4, <1>5, <1>6 DEF Next

\* Every step keeps what the calls know of their claims.
LEMMA CallTimesStep ==
    TypeOK /\ CustodyInv /\ CallTimes /\ [Next]_vars => CallTimes'
<1> SUFFICES ASSUME TypeOK, CustodyInv, CallTimes, [Next]_vars,
                    NEW s \in Requests, NEW e \in Deliveries, Carries(s, e)'
             PROVE  /\ req'[s].consumedAt = delivery'[e].consumedAt
                    /\ req'[s].pc = "recording" => req'[s].finishedAt >= req'[s].consumedAt
  BY DEF CallTimes
<1> DEFINE Goal == /\ req'[s].consumedAt = delivery'[e].consumedAt
                   /\ req'[s].pc = "recording" => req'[s].finishedAt >= req'[s].consumedAt
<1>k. GrantsKept
  BY GrantsKeptStep
<1>a. ASSUME req'[s] = req[s] PROVE Goal
  <2>1. Carries(s, e)
    BY <1>a, <1>k DEF Carries, CustodyInv, CallsHoldGrants, GrantsKept, Private
  <2>2. delivery'[e].consumedAt = delivery[e].consumedAt
    BY <2>1, ClaimsKept DEF CustodyInv, CarriersClaimed
  <2> QED BY <1>a, <2>1, <2>2 DEF CallTimes
<1>b. req'[s].pc # "idle"
  BY DEF Carries
<1>1. ASSUME NEW r \in Requests, DeliverStep(r) PROVE Goal
  <2>1. ASSUME NEW g \in Grants, Prepare(r, g) PROVE Goal
    BY <2>1, <1>a DEF Prepare, Carries, TypeOK, RequestRows
  <2>2. CASE CommitConsumption(r)
    <3> DEFINE g == req[r].grant
    <3>1. /\ g \in Grants /\ grant[g].state # "none" /\ grant[g].target \in Deliveries
          /\ ConsumeStored(g)
      BY <2>2 DEF CommitConsumption, CustodyInv, CallsHoldGrants, GrantsTargeted
    <3>2. /\ req'[r].pc = "consumed" /\ req'[r].grant = g /\ req'[r].consumedAt = clock
          /\ \A q \in Requests : q # r => req'[q] = req[q]
      BY <2>2 DEF CommitConsumption, TypeOK, RequestRows
    <3>3. CASE s = r
      <4>1. Private(g) /\ e = grant[g].target
        BY <3>1, <3>2, <3>3, <1>k DEF Carries, GrantsKept, Private
      <4>2. delivery' = Consume(e, clock)
        BY <3>1, <4>1 DEF ConsumeStored
      <4>3. delivery'[e].consumedAt = clock
        BY <4>2 DEF Consume, TypeOK, DeliveryRows
      <4> QED BY <3>2, <3>3, <4>3
    <3>4. CASE s # r
      BY <3>2, <3>4, <1>a
    <3> QED BY <3>3, <3>4
  <2>3. CASE InvokeSink(r)
    <3>1. /\ req[r].pc = "consumed" /\ req'[r].pc = "sending"
          /\ req'[r].grant = req[r].grant /\ req'[r].consumedAt = req[r].consumedAt
          /\ \A q \in Requests : q # r => req'[q] = req[q]
          /\ UNCHANGED storeVars /\ delivery' = delivery
      BY <2>3 DEF InvokeSink, TypeOK, RequestRows, storeVars
    <3>2. Carries(s, e)
      BY <3>1, CallAdvances
    <3> QED BY <3>1, <3>2, <1>a DEF CallTimes
  <2>4. ASSUME NEW result \in SendResults, SendReturned(r, result) PROVE Goal
    <3>1. /\ req[r].pc = "sending" /\ req'[r].pc = "recording"
          /\ req'[r].grant = req[r].grant /\ req'[r].consumedAt = req[r].consumedAt
          /\ req'[r].finishedAt = FinishObservedAt(req[r].consumedAt)
          /\ \A q \in Requests : q # r => req'[q] = req[q]
          /\ UNCHANGED storeVars /\ delivery' = delivery
      BY <2>4 DEF SendReturned, TypeOK, RequestRows, storeVars
    <3>2. Carries(s, e)
      BY <3>1, CallAdvances
    <3>3. FinishObservedAt(req[r].consumedAt) >= req[r].consumedAt
      BY DEF FinishObservedAt, TypeOK, RequestRows, Instants
    <3> QED BY <3>1, <3>2, <3>3, <1>a DEF CallTimes
  <2>5. CASE req' = [req EXCEPT ![r] = IdleRequest]
    BY <2>5, <1>a, <1>b DEF IdleRequest, TypeOK
  <2> QED BY <1>1, <2>1, <2>2, <2>3, <2>4, <2>5
          DEF DeliverStep, ConsumptionRolledBack, ConsumptionUnknown,
              RecordPrivateOutcome, PrivateOutcomeUnresolved, RecordPublicOutcome
<1>2. ASSUME NEW d \in Deliveries, PassStep(d) PROVE Goal
  BY <1>2, <1>a DEF PassStep, FailInterruptedTransfer, RecoveryAborted, ExpireOneDelivery,
     ExpiryUnknown, RecoverOneTransfer, RecoverOneTransferUnknown
<1>3. ASSUME NEW d \in Deliveries, StoreFreshKeyAndDelivery(d) PROVE Goal
  BY <1>3, <1>a DEF StoreFreshKeyAndDelivery
<1>4. ASSUME NEW g \in Grants, NEW d \in Deliveries, NEW purpose \in GrantPurposes,
             InsertGrant(g, d, purpose)
      PROVE  Goal
  BY <1>4, <1>a DEF InsertGrant
<1>5. CASE UNCHANGED vars
  BY <1>5, <1>a DEF vars
<1>6. CASE Crash \/ Terminate
  BY <1>6, <1>b DEF Crash, Terminate, Halt, IdleRequest
<1>7. CASE StartRecovery \/ OpenAdmission \/ Tick \/ StepBack
  BY <1>7, <1>a DEF StartRecovery, OpenAdmission, Tick, StepBack
<1> QED BY <1>1, <1>2, <1>3, <1>4, <1>5, <1>6, <1>7 DEF Next

\* Times hold in every reachable state.
LEMMA TimesInvariance == Spec => [](RowTimes /\ CallTimes)
<1>1. Init => RowTimes /\ CallTimes
  <2> SUFFICES ASSUME Init PROVE RowTimes /\ CallTimes
    OBVIOUS
  <2>1. \A d \in Deliveries : delivery[d].state = "none" /\ delivery[d].code = ""
    BY DEF Init, NoDelivery
  <2>2. \A r \in Requests : req[r].pc = "idle"
    BY DEF Init, IdleRequest
  <2> QED BY <2>1, <2>2 DEF RowTimes, TimesHonoured, CallTimes, Carries
<1>2. TypeOK /\ CustodyInv /\ RowTimes /\ CallTimes /\ [Next]_vars
        => (RowTimes /\ CallTimes)'
  BY RowTimesStep, CallTimesStep
<1> QED BY <1>1, <1>2, Invariance, PTL DEF Spec

\* However the clock moves, a key is claimed before its deadline and the end a
\* call records is not before its claim.
THEOREM TimesHonouredCorrect == Spec => []TimesHonoured
<1>1. RowTimes => TimesHonoured
  BY DEF RowTimes
<1> QED BY <1>1, TimesInvariance, PTL

-----------------------------------------------------------------------------
(* The audit trail tells one outcome per transfer.                         *)

PassActions == {"recovery", "recover_transfers", "expiry"}

\* What an event says of the row it is about, and which others it excludes.
\* A pass finds a row pending or transferring, so no event of an end is older.
AuditInv ==
    /\ \A g \in Grants :
          Event("private.completed", g) \in audit =>
              /\ grant[g].state # "none"
              /\ delivery[grant[g].target].state = "server_completed"
    /\ \A g \in Grants :
          Event("private.failed", g) \in audit =>
              /\ grant[g].state # "none"
              /\ delivery[grant[g].target].state = "failed"
              /\ \A a \in PassActions : Event(a, grant[g].target) \notin audit
    /\ \A d \in Deliveries, a \in PassActions :
          Event(a, d) \in audit =>
              /\ delivery[d].state = "failed"
              /\ \A b \in PassActions \ {a} : Event(b, d) \notin audit

\* A row that ended stays as it ended.
EndsKept ==
    \A d \in Deliveries : delivery[d].state \in {"failed", "server_completed"}
                              => delivery'[d].state = delivery[d].state

\* Other events than those of an end say nothing of a row.
LEMMA QuietAudit ==
    ASSUME AuditInv, GrantsTargeted, GrantsKept, EndsKept,
           \A event : event \in audit' => \/ event \in audit
                                          \/ \E of : \E a \in {"private.start", "public.start",
                                                "public.completed", "public.failed"} :
                                                    event = Event(a, of)
    PROVE  AuditInv'
<1>1. \A of, a : /\ a \in PassActions \cup {"private.completed", "private.failed"}
                 /\ Event(a, of) \in audit'
                 => Event(a, of) \in audit
  BY DEF Event, PassActions
<1>2. ASSUME NEW g \in Grants, grant[g].state # "none"
      PROVE  /\ grant[g].target \in Deliveries /\ grant'[g].target = grant[g].target
             /\ grant'[g].state # "none"
  BY <1>2 DEF GrantsTargeted, GrantsKept
<1>3. ASSUME NEW g \in Grants, Event("private.completed", g) \in audit'
      PROVE  /\ grant'[g].state # "none"
             /\ delivery'[grant'[g].target].state = "server_completed"
  BY <1>1, <1>2, <1>3 DEF AuditInv, EndsKept
<1>4. ASSUME NEW g \in Grants, Event("private.failed", g) \in audit'
      PROVE  /\ grant'[g].state # "none"
             /\ delivery'[grant'[g].target].state = "failed"
             /\ \A a \in PassActions : Event(a, grant'[g].target) \notin audit'
  <2>1. Event("private.failed", g) \in audit
    BY <1>1, <1>4
  <2> QED BY <2>1, <1>1, <1>2 DEF AuditInv, EndsKept
<1>5. ASSUME NEW d \in Deliveries, NEW a \in PassActions, Event(a, d) \in audit'
      PROVE  /\ delivery'[d].state = "failed"
             /\ \A b \in PassActions \ {a} : Event(b, d) \notin audit'
  <2>1. Event(a, d) \in audit
    BY <1>1, <1>5
  <2> QED BY <2>1, <1>1 DEF AuditInv, EndsKept
<1> QED BY <1>3, <1>4, <1>5 DEF AuditInv

\* Failing an open row changes the state of that row only.
LEMMA FailEndsOpenRow ==
    ASSUME TypeOK, NEW d \in Deliveries, NEW code, NEW now, NEW event,
           FailAndRevoke(d, code, now, event), delivery[d].state # "server_completed"
    PROVE  /\ EndsKept /\ delivery'[d].state = "failed"
           /\ delivery[d].state \in {"pending", "transferring"}
           /\ audit' = audit \cup {event}
BY DEF FailAndRevoke, Fail, CanFail, TypeOK, DeliveryRows, EndsKept

\* A pass ends a row no event of an end is about yet.
LEMMA PassKeepsAudit ==
    ASSUME TypeOK, AuditInv, GrantsTargeted, GrantsKept, NEW d \in Deliveries,
           NEW code, NEW now, NEW action \in PassActions,
           FailAndRevoke(d, code, now, Event(action, d)),
           delivery[d].state # "server_completed"
    PROVE  AuditInv'
<1>1. /\ EndsKept /\ delivery'[d].state = "failed"
      /\ delivery[d].state \in {"pending", "transferring"}
      /\ audit' = audit \cup {Event(action, d)}
  BY FailEndsOpenRow
<1>2. ASSUME NEW a, NEW of, Event(a, of) \in audit'
      PROVE  Event(a, of) \in audit \/ (a = action /\ of = d)
  BY <1>1, <1>2 DEF Event
<1>3. \A a \in PassActions : Event(a, d) \notin audit
  BY <1>1 DEF AuditInv
<1>4. ASSUME NEW g \in Grants, grant[g].state # "none"
      PROVE  /\ grant[g].target \in Deliveries /\ grant'[g].target = grant[g].target
             /\ grant'[g].state # "none"
  BY <1>4 DEF GrantsTargeted, GrantsKept
<1>5. ASSUME NEW g \in Grants, Event("private.completed", g) \in audit'
      PROVE  /\ grant'[g].state # "none"
             /\ delivery'[grant'[g].target].state = "server_completed"
  <2>1. Event("private.completed", g) \in audit
    BY <1>2, <1>5 DEF PassActions
  <2> QED BY <2>1, <1>1, <1>4 DEF AuditInv, EndsKept
<1>6. ASSUME NEW g \in Grants, Event("private.failed", g) \in audit'
      PROVE  /\ grant'[g].state # "none"
             /\ delivery'[grant'[g].target].state = "failed"
             /\ \A a \in PassActions : Event(a, grant'[g].target) \notin audit'
  <2>1. Event("private.failed", g) \in audit
    BY <1>2, <1>6 DEF PassActions
  <2>2. grant[g].target # d
    BY <2>1, <1>1 DEF AuditInv
  <2> QED BY <2>1, <2>2, <1>1, <1>2, <1>4 DEF AuditInv, EndsKept
<1>7. ASSUME NEW e \in Deliveries, NEW a \in PassActions, Event(a, e) \in audit'
      PROVE  /\ delivery'[e].state = "failed"
             /\ \A b \in PassActions \ {a} : Event(b, e) \notin audit'
  <2>1. CASE e = d
    BY <2>1, <1>1, <1>2, <1>3, <1>7
  <2>2. CASE e # d
    BY <2>2, <1>1, <1>2, <1>7 DEF AuditInv, EndsKept
  <2> QED BY <2>1, <2>2
<1> QED BY <1>5, <1>6, <1>7 DEF AuditInv

\* So does the call that records the outcome of its own transfer.
LEMMA OutcomeKeepsAudit ==
    ASSUME TypeOK, CustodyInv, AuditInv, GrantsKept, NEW r \in Requests,
           req[r].pc = "recording", Private(req[r].grant), OutcomeStored(r)
    PROVE  AuditInv'
<1> DEFINE g == req[r].grant
           d == grant[g].target
<1>1. /\ g \in Grants /\ grant[g].state # "none" /\ d \in Deliveries /\ Carries(r, d)
      /\ delivery[d].state \in {"transferring", "failed"}
      /\ grant' = grant
  BY DEF CustodyInv, CallsHoldGrants, GrantsTargeted, CarriersClaimed, Carries, OutcomeStored
<1>2. PICK k \in Grants : k = g
  BY <1>1
<1>3. PICK e \in Deliveries : e = d
  BY <1>1
<1>4. /\ EndsKept /\ delivery[e].state = "transferring"
      /\ \/ /\ delivery'[e].state = "server_completed"
            /\ audit' = audit \cup {Event("private.completed", k)}
         \/ /\ delivery'[e].state = "failed"
            /\ audit' = audit \cup {Event("private.failed", k)}
  <2>1. CASE req[r].result = "completed"
    <3>1. /\ delivery[e].state = "transferring" /\ delivery' = Complete(e, req[r].finishedAt)
          /\ audit' = audit \cup {Event("private.completed", k)}
      BY <2>1, <1>2, <1>3 DEF OutcomeStored, CanComplete
    <3>2. EndsKept /\ delivery'[e].state = "server_completed"
      BY <3>1 DEF Complete, EndsKept, TypeOK, DeliveryRows
    <3> QED BY <3>1, <3>2
  <2>2. CASE req[r].result # "completed"
    <3>1. PICK code : FailAndRevoke(e, code, req[r].finishedAt, Event("private.failed", k))
      BY <2>2, <1>2, <1>3 DEF OutcomeStored
    <3>2. delivery[e].state # "server_completed" /\ delivery[e].state # "pending"
      BY <1>1, <1>3
    <3> QED BY <3>1, <3>2, FailEndsOpenRow
  <2> QED BY <2>1, <2>2
<1>5. grant[k].state # "none" /\ grant[k].target = e
  BY <1>1, <1>2, <1>3
<1>6. ASSUME NEW a, NEW of, Event(a, of) \in audit'
      PROVE  \/ Event(a, of) \in audit
             \/ a \in {"private.completed", "private.failed"} /\ of = k
  BY <1>4, <1>6 DEF Event
<1>7. \A a \in PassActions : Event(a, e) \notin audit'
  BY <1>4, <1>6 DEF AuditInv, PassActions
<1>t. \A h \in Grants : grant[h].state # "none" => grant[h].target \in Deliveries
  BY DEF CustodyInv, GrantsTargeted
<1> HIDE DEF g, d
<1>8. ASSUME NEW h \in Grants, Event("private.completed", h) \in audit'
      PROVE  /\ grant[h].state # "none"
             /\ delivery'[grant[h].target].state = "server_completed"
  <2>1. CASE Event("private.completed", h) \in audit
    BY <2>1, <1>t, <1>4 DEF AuditInv, EndsKept
  <2>2. CASE Event("private.completed", h) \notin audit
    <3>1. h = k /\ delivery'[e].state = "server_completed"
      BY <1>4, <1>8, <2>2 DEF Event
    <3> QED BY <3>1, <1>5
  <2> QED BY <2>1, <2>2
<1>9. ASSUME NEW h \in Grants, Event("private.failed", h) \in audit'
      PROVE  /\ grant[h].state # "none"
             /\ delivery'[grant[h].target].state = "failed"
             /\ \A a \in PassActions : Event(a, grant[h].target) \notin audit'
  <2>1. CASE Event("private.failed", h) \in audit
    BY <2>1, <1>t, <1>4, <1>6 DEF AuditInv, EndsKept, PassActions
  <2>2. CASE Event("private.failed", h) \notin audit
    <3>1. h = k /\ delivery'[e].state = "failed"
      BY <1>4, <1>9, <2>2 DEF Event
    <3> QED BY <3>1, <1>5, <1>7
  <2> QED BY <2>1, <2>2
<1>10. ASSUME NEW c \in Deliveries, NEW a \in PassActions, Event(a, c) \in audit'
       PROVE  /\ delivery'[c].state = "failed"
              /\ \A b \in PassActions \ {a} : Event(b, c) \notin audit'
  <2>1. Event(a, c) \in audit /\ \A b \in PassActions : Event(b, c) \in audit'
                                                          => Event(b, c) \in audit
    BY <1>6, <1>10 DEF PassActions
  <2> QED BY <2>1, <1>4 DEF AuditInv, EndsKept
<1> QED BY <1>1, <1>8, <1>9, <1>10 DEF AuditInv

\* Every step keeps the trail.
LEMMA AuditStep == TypeOK /\ CustodyInv /\ AuditInv /\ [Next]_vars => AuditInv'
<1> SUFFICES ASSUME TypeOK, CustodyInv, AuditInv, [Next]_vars PROVE AuditInv'
  OBVIOUS
<1>k. GrantsKept /\ GrantsTargeted
  BY GrantsKeptStep DEF CustodyInv
<1>a. UNCHANGED <<delivery, audit>> => AuditInv'
  BY <1>k, QuietAudit DEF EndsKept
<1>1. ASSUME NEW d \in Deliveries, StoreFreshKeyAndDelivery(d) PROVE AuditInv'
  <2>1. EndsKept /\ audit' = audit
    BY <1>1 DEF StoreFreshKeyAndDelivery, EndsKept, TypeOK, DeliveryRows
  <2> QED BY <2>1, <1>k, QuietAudit
<1>2. ASSUME NEW r \in Requests, DeliverStep(r) PROVE AuditInv'
  <2>1. CASE ConsumeStored(req[r].grant)
    <3> DEFINE d == grant[req[r].grant].target
    <3>1. EndsKept
      <4>1. \/ delivery' = delivery
            \/ delivery' = Consume(d, clock) /\ delivery[d].state = "pending"
        BY <2>1 DEF ConsumeStored, CanConsume
      <4> HIDE DEF d
      <4> QED BY <4>1 DEF Consume, EndsKept, TypeOK, DeliveryRows
    <3>2. \/ audit' = audit \cup {Event("private.start", req[r].grant)}
          \/ audit' = audit \cup {Event("public.start", req[r].grant)}
      BY <2>1 DEF ConsumeStored
    <3> QED BY <3>1, <3>2, <1>k, QuietAudit
  <2>2. CASE OutcomeStored(r) /\ req[r].pc = "recording" /\ Private(req[r].grant)
    BY <2>2, <1>k, OutcomeKeepsAudit
  <2>3. CASE RecordPublicOutcome(r)
    <3>1. \/ audit' = audit
          \/ audit' = audit \cup {Event("public.completed", req[r].grant)}
          \/ audit' = audit \cup {Event("public.failed", req[r].grant)}
      BY <2>3 DEF RecordPublicOutcome
    <3>2. EndsKept
      BY <2>3 DEF RecordPublicOutcome, EndsKept
    <3> QED BY <3>1, <3>2, <1>k, QuietAudit
  <2> QED BY <1>2, <2>1, <2>2, <2>3, <1>a
          DEF DeliverStep, Prepare, CommitConsumption, ConsumptionRolledBack,
              ConsumptionUnknown, InvokeSink, SendReturned, RecordPrivateOutcome,
              PrivateOutcomeUnresolved, storeVars
<1>3. ASSUME NEW d \in Deliveries, PassStep(d) PROVE AuditInv'
  <2>1. ASSUME NEW now, NEW action \in PassActions, InterruptedStored(d, now, action)
        PROVE  AuditInv'
    BY <2>1, <1>k, PassKeepsAudit DEF InterruptedStored
  <2>2. CASE ExpiryStored(d)
    BY <2>2, <1>k, PassKeepsAudit DEF ExpiryStored, PassActions
  <2>3. {"recovery", "recover_transfers"} \subseteq PassActions
    BY DEF PassActions
  <2> QED BY <1>3, <2>1, <2>2, <2>3, <1>a
          DEF PassStep, FailInterruptedTransfer, RecoveryAborted, ExpireOneDelivery,
              ExpiryUnknown, RecoverOneTransfer, RecoverOneTransferUnknown, storeVars
<1>4. CASE UNCHANGED vars
  BY <1>4, <1>a DEF vars, storeVars
<1>5. ASSUME NEW g \in Grants, NEW d \in Deliveries, NEW purpose \in GrantPurposes,
             InsertGrant(g, d, purpose)
      PROVE  AuditInv'
  BY <1>5, <1>a DEF InsertGrant
<1>6. CASE Crash \/ Terminate \/ StartRecovery \/ OpenAdmission \/ Tick \/ StepBack
  BY <1>6, <1>a DEF Crash, Terminate, Halt, StartRecovery, OpenAdmission, Tick, StepBack,
                    storeVars
<1> QED BY <1>1, <1>2, <1>3, <1>4, <1>5, <1>6 DEF Next

\* The trail holds in every reachable state.
LEMMA AuditInvariance == Spec => []AuditInv
<1>1. Init => AuditInv
  BY DEF Init, AuditInv
<1> QED BY <1>1, AuditStep, Invariance, PTL DEF Spec

\* One event of a failure or none, whatever links a delivery has.
LEMMA FailuresExclusive ==
    ASSUME TypeOK, AuditInv, NEW g \in Grants,
           NEW x \in audit, NEW y \in audit,
           {x, y} \subseteq {Event("private.failed", g)} \cup
                 {Event(a, grant[g].target) : a \in PassActions}
    PROVE  x = y
<1> DEFINE d == grant[g].target
<1>1. ASSUME NEW a \in PassActions, Event(a, d) \in audit
      PROVE  d \in Deliveries
  BY <1>1, DeliveryConstants DEF TypeOK, Event, GrantRows
<1>2. ASSUME NEW a \in PassActions, NEW b \in PassActions, Event(a, d) \in audit,
             Event(b, d) \in audit
      PROVE  a = b
  BY <1>1, <1>2 DEF AuditInv
<1>3. ASSUME NEW a \in PassActions, Event(a, d) \in audit
      PROVE  Event("private.failed", g) \notin audit
  BY <1>1, <1>3 DEF AuditInv
<1> QED BY <1>2, <1>3

\* A completed event excludes every failure event of the same delivery, and a
\* transfer has at most one of those, whoever wrote it.
THEOREM OneOutcomeAuditedCorrect == Spec => []OneOutcomeAudited
<1>1. ASSUME TypeOK, CustodyInv, AuditInv PROVE OneOutcomeAudited
  <2> SUFFICES ASSUME NEW g \in Grants
               PROVE  LET d == grant[g].target
                          failures == {Event("private.failed", g), Event("recovery", d),
                                       Event("recover_transfers", d), Event("expiry", d)}
                      IN  /\ Event("private.completed", g) \in audit =>
                                /\ delivery[d].state = "server_completed"
                                /\ audit \cap failures = {}
                          /\ Cardinality(audit \cap failures) <= 1
    BY DEF OneOutcomeAudited
  <2> DEFINE d == grant[g].target
             failures == {Event("private.failed", g), Event("recovery", d),
                          Event("recover_transfers", d), Event("expiry", d)}
  <2>1. failures = {Event("private.failed", g)} \cup {Event(a, d) : a \in PassActions}
    BY DEF PassActions
  <2>2. ASSUME Event("private.completed", g) \in audit
        PROVE  delivery[d].state = "server_completed" /\ audit \cap failures = {}
    <3>1. delivery[d].state = "server_completed" /\ d \in Deliveries
      BY <1>1, <2>2 DEF AuditInv, CustodyInv, GrantsTargeted
    <3>2. Event("private.failed", g) \notin audit
      BY <1>1, <3>1 DEF AuditInv
    <3>3. \A a \in PassActions : Event(a, d) \notin audit
      BY <1>1, <3>1 DEF AuditInv
    <3> QED BY <3>1, <3>2, <3>3, <2>1
  <2>3. \A x, y \in audit \cap failures : x = y
    BY <1>1, <2>1, FailuresExclusive
  <2>4. Cardinality(audit \cap failures) <= 1
    <3> HIDE DEF failures
    <3>1. CASE audit \cap failures = {}
      BY <3>1, FS_EmptySet
    <3>2. CASE audit \cap failures # {}
      <4>1. PICK x : x \in audit \cap failures
        BY <3>2
      <4>2. audit \cap failures = {x}
        BY <4>1, <2>3
      <4>3. Cardinality({x}) = 1
        BY FS_Singleton
      <4> QED BY <4>2, <4>3
    <3> QED BY <3>1, <3>2
  <2> QED BY <2>2, <2>4
<1> QED BY <1>1, Invariance, AuditInvariance, PTL

-----------------------------------------------------------------------------
(* Admission and recovery leave no transfer without an owner.              *)

\* Every step keeps each transfer in progress with a call or with recovery.
LEMMA NoOrphanStep ==
    TypeOK /\ CustodyInv /\ CustodyInv' /\ NoOrphanTransfer /\ [Next]_vars
        => NoOrphanTransfer'
<1> SUFFICES ASSUME TypeOK, CustodyInv, CustodyInv', NoOrphanTransfer, [Next]_vars,
                    phase' = "open", NEW d \in Deliveries,
                    delivery'[d].state = "transferring"
             PROVE  \E r \in Requests : Carries(r, d)'
  BY DEF NoOrphanTransfer
<1>k. GrantsKept
  BY GrantsKeptStep
\* A transfer that was open before, and whose carrier goes on.
<1>a. ASSUME phase = "open", delivery[d].state = "transferring",
             \A r \in Requests : Carries(r, d) => Carries(r, d)'
      PROVE  \E r \in Requests : Carries(r, d)'
  BY <1>a DEF NoOrphanTransfer
<1>b. ASSUME NEW r \in Requests, req'[r] = req[r], Carries(r, d)
      PROVE  Carries(r, d)'
  BY <1>b, <1>k DEF Carries, CustodyInv, CallsHoldGrants, GrantsKept, Private
<1>e. ASSUME UNCHANGED <<phase, req>>, delivery[d].state = "transferring"
      PROVE  \E r \in Requests : Carries(r, d)'
  BY <1>e, <1>a, <1>b
<1>1. CASE UNCHANGED vars
  BY <1>1, <1>e DEF vars, storeVars
<1>2. ASSUME NEW e \in Deliveries, StoreFreshKeyAndDelivery(e)
      PROVE  \E r \in Requests : Carries(r, d)'
  <2>1. delivery[d].state = "transferring"
    BY <1>2 DEF StoreFreshKeyAndDelivery, TypeOK, DeliveryRows
  <2> QED BY <1>2, <2>1, <1>e DEF StoreFreshKeyAndDelivery
<1>3. ASSUME NEW g \in Grants, NEW e \in Deliveries, NEW purpose \in GrantPurposes,
             InsertGrant(g, e, purpose)
      PROVE  \E r \in Requests : Carries(r, d)'
  BY <1>3, <1>e DEF InsertGrant
<1>4. ASSUME NEW r \in Requests, DeliverStep(r) PROVE \E s \in Requests : Carries(s, d)'
  <2>a. ASSUME req[r].pc \in {"idle", "prepared"} \/ ~Carries(r, d),
               UNCHANGED phase, \A s \in Requests : s # r => req'[s] = req[s],
               delivery[d].state = "transferring"
        PROVE  \E s \in Requests : Carries(s, d)'
    <3>1. ~Carries(r, d)
      BY <2>a DEF Carries
    <3> QED BY <3>1, <2>a, <1>a, <1>b
  <2>1. ASSUME NEW g \in Grants, Prepare(r, g) PROVE \E s \in Requests : Carries(s, d)'
    BY <2>1, <2>a DEF Prepare, storeVars, TypeOK
  <2>2. CASE CommitConsumption(r)
    <3> DEFINE g == req[r].grant
    <3>1. g \in Grants /\ ConsumeStored(g) /\ grant[g].target \in Deliveries
      BY <2>2 DEF CommitConsumption, CustodyInv, CallsHoldGrants, GrantsTargeted
    <3>3. CASE delivery[d].state = "transferring"
      BY <2>2, <3>3, <2>a DEF CommitConsumption, TypeOK
    <3>4. CASE delivery[d].state # "transferring"
      <4>1. Private(g) /\ d = grant[g].target
        BY <3>1, <3>4 DEF ConsumeStored, Consume, TypeOK, DeliveryRows
      <4>2. grant'[g].target = d /\ grant'[g].purpose = "leaf_private"
        BY <3>1, <4>1, ConsumeKeepsGrants DEF Private
      <4>3. req'[r].pc = "consumed" /\ req'[r].grant = g
        BY <2>2 DEF CommitConsumption, TypeOK, RequestRows
      <4> QED BY <4>2, <4>3 DEF Carries, Private
    <3> QED BY <3>3, <3>4
  <2>3. CASE ConsumptionRolledBack(r)
    BY <2>3, <2>a DEF ConsumptionRolledBack, storeVars, TypeOK
  <2>4. CASE ConsumptionUnknown(r)
    <3> DEFINE g == req[r].grant
    <3>1. g \in Grants /\ ~Private(g) /\ UNCHANGED <<delivery, phase>>
      BY <2>4 DEF ConsumptionUnknown, FailClosed, CustodyInv, CallsHoldGrants,
                  ConsumeStored, storeVars
    <3> QED BY <2>4, <3>1, <2>a DEF ConsumptionUnknown, TypeOK
  <2>5. CASE InvokeSink(r)
    <3>1. /\ req[r].pc = "consumed" /\ req'[r].pc = "sending"
          /\ req'[r].grant = req[r].grant
          /\ \A s \in Requests : s # r => req'[s] = req[s]
          /\ UNCHANGED <<storeVars, phase, delivery>>
      BY <2>5 DEF InvokeSink, TypeOK, RequestRows, storeVars
    <3> QED BY <3>1, <1>a, CallAdvances
  <2>6. ASSUME NEW result \in SendResults, SendReturned(r, result)
        PROVE  \E s \in Requests : Carries(s, d)'
    <3>1. /\ req[r].pc = "sending" /\ req'[r].pc = "recording"
          /\ req'[r].grant = req[r].grant
          /\ \A s \in Requests : s # r => req'[s] = req[s]
          /\ UNCHANGED <<storeVars, phase, delivery>>
      BY <2>6 DEF SendReturned, TypeOK, RequestRows, storeVars
    <3> QED BY <3>1, <1>a, CallAdvances
  <2>7. CASE RecordPrivateOutcome(r)
    <3> DEFINE e == grant[req[r].grant].target
    <3>1. e \in Deliveries /\ OutcomeStored(r) /\ grant' = grant
      BY <2>7 DEF RecordPrivateOutcome, OutcomeStored, CustodyInv, CallsHoldGrants,
                  GrantsTargeted
    <3>2. d # e /\ delivery[d].state = "transferring"
      <4>1. \/ \E now : delivery' = Complete(e, now)
            \/ \E code, now : delivery' = Fail(e, code, now)
        BY <3>1 DEF OutcomeStored, FailAndRevoke
      <4>2. \A now, code :
               /\ Complete(e, now)[e].state = "server_completed"
               /\ Fail(e, code, now)[e].state = "failed"
               /\ d # e => /\ Complete(e, now)[d] = delivery[d]
                           /\ Fail(e, code, now)[d] = delivery[d]
        BY <3>1 DEF Complete, Fail, TypeOK, DeliveryRows
      <4> HIDE DEF e
      <4> QED BY <4>1, <4>2
    <3>3. ~Carries(r, d)
      BY <3>2 DEF Carries
    <3> QED BY <2>7, <3>1, <3>2, <3>3, <2>a DEF RecordPrivateOutcome, TypeOK
  <2>8. CASE PrivateOutcomeUnresolved(r)
    BY <2>8 DEF PrivateOutcomeUnresolved, FailClosed
  <2>9. CASE RecordPublicOutcome(r)
    BY <2>9, <2>a DEF RecordPublicOutcome, Carries, TypeOK
  <2> QED BY <1>4, <2>1, <2>2, <2>3, <2>4, <2>5, <2>6, <2>7, <2>8, <2>9 DEF DeliverStep
<1>5. ASSUME NEW e \in Deliveries, PassStep(e) PROVE \E r \in Requests : Carries(r, d)'
  <2>1. ASSUME NEW code, NEW now, NEW event, FailAndRevoke(e, code, now, event)
        PROVE  delivery[d].state = "transferring"
    BY <2>1 DEF FailAndRevoke, Fail, TypeOK, DeliveryRows
  <2>2. CASE ExpireOneDelivery(e)
    BY <2>2, <2>1, <1>e DEF ExpireOneDelivery, ExpiryStored
  <2>3. CASE RecoverOneTransfer(e)
    BY <2>3, <2>1, <1>e DEF RecoverOneTransfer, InterruptedStored
  <2> QED BY <1>5, <2>2, <2>3
          DEF PassStep, FailInterruptedTransfer, RecoveryAborted, ExpiryUnknown,
              RecoverOneTransferUnknown, FailClosed
<1>6. CASE Crash \/ Terminate \/ StartRecovery
  BY <1>6 DEF Crash, Terminate, Halt, StartRecovery
<1>7. CASE OpenAdmission
  BY <1>7 DEF OpenAdmission, storeVars
<1>8. CASE Tick \/ StepBack
  BY <1>8, <1>e DEF Tick, StepBack, storeVars
<1> QED BY <1>1, <1>2, <1>3, <1>4, <1>5, <1>6, <1>7, <1>8 DEF Next

\* While work is admitted every open transfer has the one call that will
\* record its outcome: FailClosed, the outcome transaction and the restart
\* recovery leave no gap.
THEOREM NoOrphanCorrect == Spec => []NoOrphanTransfer
<1>1. Init => NoOrphanTransfer
  BY DEF Init, NoOrphanTransfer
<1> QED BY <1>1, NoOrphanStep, Invariance, PTL DEF Spec

-----------------------------------------------------------------------------
(* Delivery implements OneShotHandoff.                                     *)

\* The refinement mapping, named.
MappedCustody == [d \in Deliveries |-> Custody[delivery[d].state]]
MappedClaims == {d \in Deliveries : delivery[d].consumedAt # Unset}

\* What a step does to the mapped variables of one key.
HandoffStep(k) ==
    \/ /\ MappedCustody[k] = "none"
       /\ MappedCustody' = [MappedCustody EXCEPT ![k] = "held"]
       /\ UNCHANGED <<MappedClaims, handed>>
    \/ /\ MappedCustody[k] = "held" /\ k \notin MappedClaims
       /\ MappedCustody' = [MappedCustody EXCEPT ![k] = "claimed"]
       /\ MappedClaims' = MappedClaims \cup {k}
       /\ UNCHANGED handed
    \/ /\ k \in MappedClaims /\ handed[k] = 0
       /\ MappedCustody[k] \in {"claimed", "revoked"}
       /\ handed' = [handed EXCEPT ![k] = 1]
       /\ UNCHANGED <<MappedCustody, MappedClaims>>
    \/ /\ MappedCustody[k] = "claimed" /\ handed[k] = 1
       /\ MappedCustody' = [MappedCustody EXCEPT ![k] = "confirmed"]
       /\ UNCHANGED <<MappedClaims, handed>>
    \/ /\ MappedCustody[k] \in {"held", "claimed"}
       /\ MappedCustody' = [MappedCustody EXCEPT ![k] = "revoked"]
       /\ UNCHANGED <<MappedClaims, handed>>

HandoffStutter == UNCHANGED <<MappedCustody, MappedClaims, handed>>

\* The mapped state after a step that writes one row.
LEMMA MappedRowWrite ==
    ASSUME TypeOK, NEW k \in Deliveries,
           \A d \in Deliveries : d # k => delivery'[d] = delivery[d]
    PROVE  /\ MappedCustody' = [MappedCustody EXCEPT ![k] = Custody[delivery'[k].state]]
           /\ MappedCustody[k] = Custody[delivery[k].state]
           /\ delivery'[k].consumedAt = delivery[k].consumedAt => UNCHANGED MappedClaims
           /\ delivery'[k].consumedAt # Unset => MappedClaims' = MappedClaims \cup {k}
BY DEF MappedCustody, MappedClaims

\* A failure recorded by any path is a Revoke of the abstract handoff.
LEMMA FailIsRevoke ==
    ASSUME TypeOK, NEW d \in Deliveries, NEW code, NEW now, NEW event,
           FailAndRevoke(d, code, now, event), UNCHANGED handed,
           delivery[d].state # "server_completed"
    PROVE  HandoffStep(d)
<1>1. /\ delivery'[d].state = "failed" /\ delivery'[d].consumedAt = delivery[d].consumedAt
      /\ \A e \in Deliveries : e # d => delivery'[e] = delivery[e]
      /\ delivery[d].state \in {"pending", "transferring"}
  BY DEF FailAndRevoke, Fail, CanFail, TypeOK, DeliveryRows
<1>2. /\ Custody["failed"] = "revoked" /\ Custody["pending"] = "held"
      /\ Custody["transferring"] = "claimed"
  BY DEF Custody
<1>3. /\ MappedCustody' = [MappedCustody EXCEPT ![d] = "revoked"]
      /\ MappedCustody[d] \in {"held", "claimed"} /\ UNCHANGED MappedClaims
  BY <1>1, <1>2, MappedRowWrite
<1> QED BY <1>3 DEF HandoffStep

\* A committed consumption is a Claim of the abstract handoff.
LEMMA ConsumeIsClaim ==
    ASSUME TypeOK, CustodyInv, NEW g \in Grants, grant[g].target \in Deliveries,
           ConsumeStored(g), UNCHANGED handed
    PROVE  HandoffStutter \/ \E k \in Deliveries : HandoffStep(k)
<1>1. CASE ~Private(g)
  <2>1. delivery' = delivery
    BY <1>1 DEF ConsumeStored
  <2> QED BY <2>1 DEF HandoffStutter, MappedCustody, MappedClaims
<1>2. CASE Private(g)
  <2> DEFINE d == grant[g].target
  <2>1. delivery[d].state = "pending" /\ delivery' = Consume(d, clock)
    BY <1>2 DEF ConsumeStored, CanConsume
  <2>2. /\ delivery'[d].state = "transferring" /\ delivery'[d].consumedAt = clock
        /\ \A e \in Deliveries : e # d => delivery'[e] = delivery[e]
    BY <2>1 DEF Consume, TypeOK, DeliveryRows
  <2>3. delivery[d].consumedAt = Unset /\ clock # Unset
    BY <2>1 DEF CustodyInv, ClaimRecorded, TypeOK, Unset
  <2>4. Custody["pending"] = "held" /\ Custody["transferring"] = "claimed"
    BY DEF Custody
  <2>5. PICK k \in Deliveries : k = d
    OBVIOUS
  <2>6. /\ MappedCustody' = [MappedCustody EXCEPT ![k] = "claimed"]
        /\ MappedCustody[k] = "held" /\ MappedClaims' = MappedClaims \cup {k}
    <3> HIDE DEF d
    <3> QED BY <2>1, <2>2, <2>3, <2>4, <2>5, MappedRowWrite
  <2>7. k \notin MappedClaims
    BY <2>3, <2>5 DEF MappedClaims
  <2> QED BY <2>6, <2>7 DEF HandoffStep
<1> QED BY <1>1, <1>2

\* A recorded outcome ends the abstract handoff.
LEMMA OutcomeIsEnd ==
    ASSUME TypeOK, CustodyInv, NEW r \in Requests, req[r].pc = "recording",
           Private(req[r].grant), OutcomeStored(r), UNCHANGED handed
    PROVE  \E k \in Deliveries : HandoffStep(k)
<1> DEFINE d == grant[req[r].grant].target
<1>1. /\ d \in Deliveries /\ handed[d] = 1
      /\ delivery[d].state \in {"transferring", "failed"}
  BY DEF CustodyInv, CallsHoldGrants, GrantsTargeted, CarriersClaimed, Carries
<1>2. CASE req[r].result = "completed"
  <2>1. delivery[d].state = "transferring" /\ delivery' = Complete(d, req[r].finishedAt)
    BY <1>2 DEF OutcomeStored, CanComplete
  <2>2. /\ delivery'[d].state = "server_completed"
        /\ delivery'[d].consumedAt = delivery[d].consumedAt
        /\ \A e \in Deliveries : e # d => delivery'[e] = delivery[e]
    BY <1>1, <2>1 DEF Complete, TypeOK, DeliveryRows
  <2>3. Custody["server_completed"] = "confirmed" /\ Custody["transferring"] = "claimed"
    BY DEF Custody
  <2>4. PICK k \in Deliveries : k = d
    BY <1>1
  <2>5. /\ MappedCustody' = [MappedCustody EXCEPT ![k] = "confirmed"]
        /\ MappedCustody[k] = "claimed" /\ UNCHANGED MappedClaims
    <3> HIDE DEF d
    <3> QED BY <2>1, <2>2, <2>3, <2>4, MappedRowWrite
  <2> QED BY <1>1, <2>4, <2>5 DEF HandoffStep
<1>3. CASE req[r].result # "completed"
  BY <1>1, <1>3, FailIsRevoke DEF OutcomeStored
<1> QED BY <1>2, <1>3

\* Giving the payload to the sink is a Release of the abstract handoff.
LEMMA SinkIsRelease ==
    ASSUME TypeOK, CustodyInv, NEW r \in Requests, InvokeSink(r)
    PROVE  HandoffStutter \/ \E k \in Deliveries : HandoffStep(k)
<1>1. delivery' = delivery /\ UNCHANGED <<MappedCustody, MappedClaims>>
  BY DEF InvokeSink, storeVars, MappedCustody, MappedClaims
<1>2. CASE ~Private(req[r].grant)
  BY <1>1, <1>2 DEF InvokeSink, HandoffStutter
<1>3. CASE Private(req[r].grant)
  <2> DEFINE d == grant[req[r].grant].target
  <2>1. /\ d \in Deliveries /\ handed[d] = 0 /\ delivery[d].consumedAt # Unset
        /\ delivery[d].state \in {"transferring", "failed"}
    BY <1>3 DEF InvokeSink, CustodyInv, CallsHoldGrants, GrantsTargeted, CarriersClaimed,
                Carries
  <2>2. handed' = [handed EXCEPT ![d] = 1]
    BY <1>3, <2>1 DEF InvokeSink, TypeOK
  <2>3. PICK k \in Deliveries : k = d
    BY <2>1
  <2>4. k \in MappedClaims
    BY <2>1, <2>3 DEF MappedClaims
  <2>5. MappedCustody[k] \in {"claimed", "revoked"}
    BY <2>1, <2>3 DEF MappedCustody, Custody
  <2> QED BY <1>1, <2>1, <2>2, <2>3, <2>4, <2>5 DEF HandoffStep
<1> QED BY <1>2, <1>3

\* Every step of Delivery is a step of the abstract handoff or a stutter.
LEMMA HandoffStepStep ==
    TypeOK /\ CustodyInv /\ [Next]_vars
        => HandoffStutter \/ \E k \in Deliveries : HandoffStep(k)
<1> SUFFICES ASSUME TypeOK, CustodyInv, [Next]_vars
             PROVE  HandoffStutter \/ \E k \in Deliveries : HandoffStep(k)
  OBVIOUS
<1>a. UNCHANGED <<delivery, handed>> => HandoffStutter
  BY DEF HandoffStutter, MappedCustody, MappedClaims
<1>b. ASSUME NEW r \in Requests, req[r].pc # "idle"
      PROVE  req[r].grant \in Grants /\ grant[req[r].grant].target \in Deliveries
  BY <1>b DEF CustodyInv, CallsHoldGrants, GrantsTargeted
<1>1. ASSUME NEW d \in Deliveries, StoreFreshKeyAndDelivery(d) PROVE HandoffStep(d)
  <2>1. /\ delivery[d].state = "none" /\ delivery'[d].state = "pending"
        /\ delivery'[d].consumedAt = delivery[d].consumedAt
        /\ \A e \in Deliveries : e # d => delivery'[e] = delivery[e]
    BY <1>1 DEF StoreFreshKeyAndDelivery, TypeOK, DeliveryRows
  <2>2. Custody["none"] = "none" /\ Custody["pending"] = "held"
    BY DEF Custody
  <2>3. /\ MappedCustody' = [MappedCustody EXCEPT ![d] = "held"]
        /\ MappedCustody[d] = "none" /\ UNCHANGED MappedClaims
    BY <2>1, <2>2, MappedRowWrite
  <2> QED BY <1>1, <2>3 DEF StoreFreshKeyAndDelivery, HandoffStep
<1>2. ASSUME NEW r \in Requests, DeliverStep(r)
      PROVE  HandoffStutter \/ \E k \in Deliveries : HandoffStep(k)
  <2>1. CASE ConsumeStored(req[r].grant) /\ req[r].pc = "prepared" /\ UNCHANGED handed
    BY <2>1, <1>b, ConsumeIsClaim
  <2>2. CASE /\ OutcomeStored(r) /\ req[r].pc = "recording" /\ UNCHANGED handed
             /\ Private(req[r].grant)
    BY <2>2, OutcomeIsEnd
  <2>3. CASE InvokeSink(r)
    BY <2>3, SinkIsRelease
  <2> QED BY <1>2, <2>1, <2>2, <2>3, <1>a
          DEF DeliverStep, Prepare, CommitConsumption, ConsumptionRolledBack,
              ConsumptionUnknown, SendReturned, RecordPrivateOutcome,
              PrivateOutcomeUnresolved, RecordPublicOutcome, storeVars
<1>3. ASSUME NEW d \in Deliveries, PassStep(d) PROVE HandoffStutter \/ HandoffStep(d)
  <2>1. ASSUME NEW now, NEW action, InterruptedStored(d, now, action), UNCHANGED handed
        PROVE  HandoffStep(d)
    BY <2>1, FailIsRevoke DEF InterruptedStored
  <2>2. CASE ExpiryStored(d) /\ UNCHANGED handed
    BY <2>2, FailIsRevoke DEF ExpiryStored
  <2> QED BY <1>3, <2>1, <2>2, <1>a
          DEF PassStep, FailInterruptedTransfer, RecoveryAborted, ExpireOneDelivery,
              ExpiryUnknown, RecoverOneTransfer, RecoverOneTransferUnknown, storeVars
<1>4. CASE UNCHANGED vars
  BY <1>4, <1>a DEF vars, storeVars
<1>5. ASSUME NEW g \in Grants, NEW d \in Deliveries, NEW purpose \in GrantPurposes,
             InsertGrant(g, d, purpose)
      PROVE  HandoffStutter
  BY <1>5, <1>a DEF InsertGrant
<1>6. CASE Crash \/ Terminate \/ StartRecovery \/ OpenAdmission \/ Tick \/ StepBack
  BY <1>6, <1>a DEF Crash, Terminate, Halt, StartRecovery, OpenAdmission, Tick, StepBack,
                    storeVars
<1> QED BY <1>1, <1>2, <1>3, <1>4, <1>5, <1>6 DEF Next

\* The delivery code, with its store, links, clock, concurrent calls, crashes
\* and passes, implements the one-shot hand-off of a key.
THEOREM DeliveryImplementsHandoff == Spec => ImplementsHandoff
<1>1. Init => Handoff!HandoffInit
  <2> SUFFICES ASSUME Init PROVE Handoff!HandoffInit
    OBVIOUS
  <2>1. \A d \in Deliveries : delivery[d].state = "none" /\ delivery[d].consumedAt = Unset
    BY DEF Init, NoDelivery
  <2>2. Custody["none"] = "none"
    BY DEF Custody
  <2>3. handed = [d \in Deliveries |-> 0]
    BY DEF Init
  <2> QED BY <2>1, <2>2, <2>3 DEF Handoff!HandoffInit
<1>2. TypeOK /\ CustodyInv /\ [Next]_vars
        => [Handoff!HandoffNext]_(Handoff!handoffVars)
  <2>1. HandoffStutter => UNCHANGED Handoff!handoffVars
    BY DEF HandoffStutter, Handoff!handoffVars, MappedCustody, MappedClaims
  <2>2. ASSUME NEW k \in Deliveries, HandoffStep(k) PROVE Handoff!HandoffNext
    BY <2>2 DEF HandoffStep, MappedCustody, MappedClaims, Handoff!HandoffNext,
        Handoff!Deposit, Handoff!Claim, Handoff!Release, Handoff!Confirm, Handoff!Revoke
  <2> QED BY <2>1, <2>2, HandoffStepStep
<1> QED BY <1>1, <1>2, Invariance, PTL DEF Spec, ImplementsHandoff, Handoff!HandoffSpec
=============================================================================
