---------------------------- MODULE RestoreProofs ----------------------------
(***************************************************************************)
(* Proofs about CRLPublication, for any serials, workers and bounds, and   *)
(* about Restore, which adds the restore procedure to it: whatever the     *)
(* order of calls, stops and publications, a finished restore leaves no    *)
(* key of the restored database usable, and the evidence a run names is a  *)
(* stored document.  The invariant of CRLPublication is kept by every step *)
(* of the procedure, most of which leave its rows alone or are the         *)
(* revocations it already knows.                                           *)
(***************************************************************************)
EXTENDS Restore, CRLRefinement, TLAPS

-----------------------------------------------------------------------------
(* CRLPublication: types.                                                  *)

\* The document a call reserves and the row of a call that is over are typed.
LEMMA RowsTyped ==
    /\ NoDocument \in Documents
    /\ IdleWorker \in WorkerRows
    /\ [IdleWorker EXCEPT !.pc = "claimed"] \in WorkerRows
BY DEF NoDocument, Documents, IdleWorker, WorkerRows

\* Every row a batch resolves to is a row of the revocations table.
LEMMA ResolvedTyped ==
    ASSUME TypeOK, NEW s \in Serials,
           NEW c \in [facts : Facts, linked : BOOLEAN, review : BOOLEAN]
    PROVE  ResolveChange(s, c) \in RevocationRows
<1>1. revocation[s] \in RevocationRows
  BY DEF TypeOK
<1>2. Merge(revocation[s], c) \in RevocationRows
  BY <1>1 DEF Merge, RevocationRows
<1>3. [stamp |-> 0, facts |-> c.facts, linked |-> c.linked,
       review |-> c.review] \in RevocationRows
  BY DEF RevocationRows
<1> QED
  BY <1>2, <1>3 DEF ResolveChange

\* UpsertDemand leaves a job row that is typed and still to be worked on.
LEMMA DemandRecorded ==
    ASSUME TypeOK, UpsertDemand
    PROVE  /\ job' \in JobRows
           /\ job'.state \in {"pending", "running"}
BY DEF TypeOK, UpsertDemand, JobRows

\* A batch whose changes are well formed.
Batches ==
    UNION {[S -> [facts : Facts, linked : BOOLEAN, review : BOOLEAN]] :
               S \in SUBSET Serials}

\* What a batch does to the ledger and to the CRL state: rows it changes get
\* the one new generation, the others stay, and nothing else moves; a new
\* generation is that of some row.
LEMMA BatchEffect ==
    ASSUME TypeOK, NEW batch \in Batches, NEW state \in CRLStates,
           state.revGen = crl.revGen, ApplyIssuerBatch(batch, state)
    PROVE  /\ revocation' \in [Serials -> RevocationRows]
           /\ crl' \in CRLStates
           /\ job' \in JobRows
           /\ crl'.maxReserved = state.maxReserved
           /\ crl'.published = state.published
           /\ crl'.revGen \in {crl.revGen, crl.revGen + 1}
           /\ crl'.revGen # crl.revGen => job'.state \in {"pending", "running"}
           /\ crl'.revGen = crl.revGen => job' = job
           /\ \A s \in Serials :
                \/ revocation'[s] = revocation[s]
                \/ /\ crl'.revGen = crl.revGen + 1
                   /\ revocation'[s].stamp = crl.revGen + 1
           /\ crl'.revGen = crl.revGen + 1 =>
                \E s \in Serials : revocation'[s].stamp = crl.revGen + 1
<1>1. CASE /\ Pending(batch) = {}
           /\ crl' = state
           /\ UNCHANGED <<revocation, job>>
  BY <1>1 DEF TypeOK, CRLStates
<1>2. CASE /\ Pending(batch) # {}
           /\ crl' = [state EXCEPT !.revGen = @ + 1]
           /\ revocation' = Stamped(batch, crl.revGen + 1)
           /\ UpsertDemand
  <2>1. PICK S \in SUBSET Serials :
            batch \in [S -> [facts : Facts, linked : BOOLEAN, review : BOOLEAN]]
    BY DEF Batches
  <2>2. crl.revGen \in Nat /\ crl.revGen + 1 \in Nat
    BY DEF TypeOK, CRLStates
  <2>3. \A s \in Pending(batch) :
            [ResolveChange(s, batch[s]) EXCEPT !.stamp = crl.revGen + 1]
                \in RevocationRows
    <3>1. SUFFICES ASSUME NEW s \in Pending(batch)
                   PROVE  [ResolveChange(s, batch[s]) EXCEPT !.stamp = crl.revGen + 1]
                            \in RevocationRows
      OBVIOUS
    <3>2. s \in S /\ s \in Serials
      BY <2>1 DEF Pending
    <3>3. batch[s] \in [facts : Facts, linked : BOOLEAN, review : BOOLEAN]
      BY <2>1, <3>2
    <3>4. ResolveChange(s, batch[s]) \in RevocationRows
      BY <3>2, <3>3, ResolvedTyped
    <3> QED
      BY <2>2, <3>4 DEF RevocationRows
  <2>4. revocation' \in [Serials -> RevocationRows]
    BY <1>2, <2>3 DEF Stamped, TypeOK
  <2>5. \A s \in Pending(batch) :
            s \in Serials /\ revocation'[s].stamp = crl.revGen + 1
    <3>1. SUFFICES ASSUME NEW s \in Pending(batch)
                   PROVE  s \in Serials /\ revocation'[s].stamp = crl.revGen + 1
      OBVIOUS
    <3>2. s \in S /\ s \in Serials
      BY <2>1 DEF Pending
    <3>3. batch[s] \in [facts : Facts, linked : BOOLEAN, review : BOOLEAN]
      BY <2>1, <3>2
    <3>4. ResolveChange(s, batch[s]) \in RevocationRows
      BY <3>2, <3>3, ResolvedTyped
    <3>5. revocation'[s] =
            [ResolveChange(s, batch[s]) EXCEPT !.stamp = crl.revGen + 1]
      BY <1>2, <3>2 DEF Stamped
    <3>6. \A r \in RevocationRows, g \in Nat : [r EXCEPT !.stamp = g].stamp = g
      BY DEF RevocationRows
    <3> QED
      BY <2>2, <3>2, <3>4, <3>5, <3>6
  <2>6. \A s \in Serials :
            s \in Pending(batch) \/ revocation'[s] = revocation[s]
    BY <1>2 DEF Stamped
  <2>7. /\ crl' \in CRLStates
        /\ crl'.maxReserved = state.maxReserved
        /\ crl'.published = state.published
        /\ crl'.revGen = crl.revGen + 1
    BY <1>2, <2>2 DEF CRLStates
  <2> QED
    BY <1>2, <2>2, <2>4, <2>5, <2>6, <2>7, DemandRecorded
<1> QED
  BY <1>1, <1>2 DEF ApplyIssuerBatch

\* The batches of applyRevocations and of an import are well formed.
LEMMA LedgerActions ==
    ASSUME TypeOK, ApplyRevocations \/ \E n \in ImportedNumbers : ImportCRL(n)
    PROVE  \E batch \in Batches, state \in CRLStates :
             /\ state.revGen = crl.revGen
             /\ state.published = crl.published
             /\ state.maxReserved >= crl.maxReserved
             /\ imported' \in Nat
             /\ imported' = imported \/ imported' <= state.maxReserved
             /\ ApplyIssuerBatch(batch, state)
             /\ UNCHANGED <<docs, signer, worker, demand, faults>>
<1>1. CASE ApplyRevocations
  <2>1. PICK S \in SUBSET Serials :
          \E batch \in [S -> [facts : Facts, linked : {TRUE}, review : {FALSE}]] :
            ApplyIssuerBatch(batch, crl)
    BY <1>1 DEF ApplyRevocations
  <2>2. PICK batch \in [S -> [facts : Facts, linked : {TRUE}, review : {FALSE}]] :
          ApplyIssuerBatch(batch, crl)
    BY <2>1
  <2>3. batch \in [S -> [facts : Facts, linked : BOOLEAN, review : BOOLEAN]]
    OBVIOUS
  <2>4. batch \in Batches
    BY <2>3 DEF Batches
  <2>5. crl \in CRLStates /\ imported \in Nat /\ crl.maxReserved >= crl.maxReserved
    BY DEF TypeOK, CRLStates
  <2> QED
    BY <1>1, <2>2, <2>4, <2>5 DEF ApplyRevocations
<1>2. CASE \E n \in ImportedNumbers : ImportCRL(n)
  <2>1. PICK n \in ImportedNumbers : ImportCRL(n)
    BY <1>2
  <2>2. PICK S \in SUBSET Serials, stale \in BOOLEAN :
          \E batch \in [S -> [facts : Facts, linked : BOOLEAN, review : {stale}]] :
            ApplyIssuerBatch(batch, ObserveImportedNumber(n))
    BY <2>1 DEF ImportCRL
  <2>3. PICK batch \in [S -> [facts : Facts, linked : BOOLEAN, review : {stale}]] :
          ApplyIssuerBatch(batch, ObserveImportedNumber(n))
    BY <2>2
  <2>4. batch \in [S -> [facts : Facts, linked : BOOLEAN, review : BOOLEAN]]
    OBVIOUS
  <2>5. batch \in Batches
    BY <2>4 DEF Batches
  <2>6. n \in Nat /\ crl \in CRLStates /\ imported \in Nat
    BY CRLConstants DEF TypeOK
  <2>7. /\ ObserveImportedNumber(n) \in CRLStates
        /\ ObserveImportedNumber(n).revGen = crl.revGen
        /\ ObserveImportedNumber(n).published = crl.published
        /\ ObserveImportedNumber(n).maxReserved >= crl.maxReserved
        /\ ObserveImportedNumber(n).maxReserved >= n
    BY <2>6 DEF ObserveImportedNumber, CRLStates
  <2>8. imported' \in Nat /\ (imported' = imported \/ imported' = n)
    BY <2>1, <2>6 DEF ImportCRL
  <2>9. UNCHANGED <<docs, signer, worker, demand, faults>>
    BY <2>1 DEF ImportCRL
  <2> HIDE DEF ObserveImportedNumber
  <2> QED
    BY <2>3, <2>5, <2>6, <2>7, <2>8, <2>9
<1> QED
  BY <1>1, <1>2

\* Every step keeps the types.
LEMMA TypeStep ==
    ASSUME TypeOK, [Next]_vars
    PROVE  TypeOK'
<1> USE DEF TypeOK
<1>1. CASE ApplyRevocations \/ \E n \in ImportedNumbers : ImportCRL(n)
  <2>1. PICK batch \in Batches, state \in CRLStates :
             /\ state.revGen = crl.revGen
             /\ imported' \in Nat
             /\ ApplyIssuerBatch(batch, state)
             /\ UNCHANGED <<docs, signer, worker, demand, faults>>
    BY <1>1, LedgerActions
  <2>2. /\ revocation' \in [Serials -> RevocationRows]
        /\ crl' \in CRLStates
        /\ job' \in JobRows
    BY <2>1, BatchEffect
  <2> QED
    BY <2>1, <2>2
<1>2. CASE RequestPublication
  BY <1>2, DemandRecorded DEF RequestPublication
<1>3. CASE DestroyKey \/ Archive
  BY <1>3 DEF DestroyKey, Archive
<1>4. CASE LeaseLapses
  <2>1. job' \in JobRows
    BY <1>4 DEF LeaseLapses, JobRows
  <2>2. faults' \in Nat
    BY <1>4 DEF LeaseLapses
  <2> QED
    BY <1>4, <2>1, <2>2 DEF LeaseLapses
<1>5. ASSUME NEW w \in Workers, Publish(w) \/ WorkerStops(w)
      PROVE  TypeOK'
  <2>1. CASE ClaimDue(w)
    <3>1. job' \in JobRows
      BY <2>1 DEF ClaimDue, JobRows
    <3>2. worker' \in [Workers -> WorkerRows]
      BY <2>1, RowsTyped DEF ClaimDue
    <3> QED
      BY <2>1, <3>1, <3>2 DEF ClaimDue
  <2>2. CASE ReserveSnapshot(w)
    <3>1. crl.maxReserved \in Nat /\ crl.revGen \in Nat /\ Revoked \subseteq Serials
      BY DEF CRLStates, Revoked
    <3>2. crl' \in CRLStates
      BY <2>2, <3>1 DEF ReserveSnapshot, ReserveNext, CRLStates
    <3>3. [pc |-> "reserved",
           doc |-> [number |-> ReserveNext, covered |-> crl.revGen,
                    listed |-> Revoked]] \in WorkerRows
      BY <3>1 DEF ReserveNext, WorkerRows, Documents
    <3>4. worker' \in [Workers -> WorkerRows]
      BY <2>2, <3>3 DEF ReserveSnapshot
    <3> QED
      BY <2>2, <3>2, <3>4 DEF ReserveSnapshot
  <2>3. CASE FinalizePublish(w)
    <3>1. worker[w].doc \in Documents
      BY DEF WorkerRows
    <3>2. docs' \subseteq Documents
      BY <2>3, <3>1 DEF FinalizePublish
    <3>3. crl' \in CRLStates
      BY <2>3, <3>1 DEF FinalizePublish, MarkPublished, CRLStates
    <3>4. job' \in JobRows
      BY <2>3 DEF FinalizePublish, FinishJob, JobRows
    <3>5. worker' \in [Workers -> WorkerRows]
      BY <2>3, RowsTyped DEF FinalizePublish
    <3> QED
      BY <2>3, <3>2, <3>3, <3>4, <3>5 DEF FinalizePublish
  <2>4. CASE PublishRefused(w) \/ WorkerStops(w)
    <3>1. worker' \in [Workers -> WorkerRows]
      BY <2>4, RowsTyped DEF PublishRefused, WorkerStops
    <3> QED
      BY <2>4, <3>1 DEF PublishRefused, WorkerStops, storeVars
  <2> QED
    BY <1>5, <2>1, <2>2, <2>3, <2>4 DEF Publish
<1>6. CASE UNCHANGED vars
  BY <1>6 DEF vars, storeVars
<1> QED
  BY <1>1, <1>2, <1>3, <1>4, <1>5, <1>6 DEF Next

\* The rows of every table and of every call of Publish are well formed in
\* every reachable state.
THEOREM CRLTypeCorrect == Spec => []TypeOK
<1>1. Init => TypeOK
  BY RowsTyped DEF Init, TypeOK, NotRevoked, RevocationRows, CRLStates, JobRows
<1>2. TypeOK /\ [Next]_vars => TypeOK'
  BY TypeStep
<1> QED
  BY <1>1, <1>2, PTL DEF Spec

-----------------------------------------------------------------------------
(* CRLPublication: safety.  The inductive invariant is CRLInv.             *)

CRLInv ==
    /\ TypeOK
    /\ StorableState
    /\ NumbersInSnapshotOrder
    /\ IssuedWithinLedger
    /\ DemandNotLost

\* A step that reserves no number.
NoReservation ==
    /\ Issued' \subseteq Issued
    /\ \A v \in Workers : worker'[v].pc = "reserved" => worker'[v] = worker[v]

\* An issued document is stored or with a worker.
LEMMA IssuedMember ==
    \A d : d \in Issued <=>
            \/ d \in docs
            \/ \E w \in Workers : worker[w].pc = "reserved" /\ d = worker[w].doc
BY DEF Issued

\* Without a reservation the numbers stay in order.
LEMMA OrderKept ==
    ASSUME NumbersInSnapshotOrder, NoReservation
    PROVE  NumbersInSnapshotOrder'
<1>1. \A d, e \in Issued' :
        d.number <= e.number => d.covered <= e.covered /\ d.listed \subseteq e.listed
  BY DEF NumbersInSnapshotOrder, NoReservation
<1>2. \A v, w \in Workers :
        /\ worker'[v].pc = "reserved" /\ worker'[w].pc = "reserved"
        /\ worker'[v].doc.number = worker'[w].doc.number
        => v = w
  BY DEF NumbersInSnapshotOrder, NoReservation
<1> QED
  BY <1>1, <1>2 DEF NumbersInSnapshotOrder

\* A step that leaves ledger, CRL state and documents alone, reserves nothing
\* and does not finish the job.
LEMMA QuietStep ==
    ASSUME CRLInv, TypeOK', NoReservation,
           UNCHANGED <<revocation, crl, docs, imported>>,
           job.state \in {"pending", "running"} => job'.state \in {"pending", "running"}
    PROVE  CRLInv'
<1>1. StorableState'
  BY DEF CRLInv, StorableState
<1>2. NumbersInSnapshotOrder'
  BY OrderKept DEF CRLInv
<1>3. Revoked' = Revoked
  BY DEF Revoked
<1>4. IssuedWithinLedger'
  BY <1>3 DEF CRLInv, IssuedWithinLedger, NoReservation
<1>5. DemandNotLost'
  BY DEF CRLInv, DemandNotLost
<1> QED
  BY <1>1, <1>2, <1>4, <1>5 DEF CRLInv

\* A call that ends or has only claimed the job reserves nothing.
LEMMA WorkerSteps ==
    ASSUME TypeOK, NEW w \in Workers, NEW row \in WorkerRows,
           row.pc # "reserved", docs' = docs,
           worker' = [worker EXCEPT ![w] = row]
    PROVE  NoReservation
<1>1. \A v \in Workers : worker'[v] = IF v = w THEN row ELSE worker[v]
  BY DEF TypeOK
<1>2. \A v \in Workers : worker'[v].pc = "reserved" => worker'[v] = worker[v]
  BY <1>1
<1>3. Issued' \subseteq Issued
  BY <1>2 DEF Issued
<1> QED
  BY <1>2, <1>3 DEF NoReservation

\* Revocations and imports: the ledger moves on to a generation that no issued
\* document covers yet, and the demand for it is recorded.
LEMMA LedgerStep ==
    ASSUME CRLInv, TypeOK',
           ApplyRevocations \/ \E n \in ImportedNumbers : ImportCRL(n)
    PROVE  CRLInv'
<1>1. PICK batch \in Batches, state \in CRLStates :
             /\ state.revGen = crl.revGen
             /\ state.published = crl.published
             /\ state.maxReserved >= crl.maxReserved
             /\ imported' \in Nat
             /\ imported' = imported \/ imported' <= state.maxReserved
             /\ ApplyIssuerBatch(batch, state)
             /\ UNCHANGED <<docs, signer, worker, demand, faults>>
  BY LedgerActions DEF CRLInv
<1>2. /\ crl'.maxReserved = state.maxReserved
      /\ crl'.published = crl.published
      /\ crl'.revGen \in {crl.revGen, crl.revGen + 1}
      /\ crl'.revGen # crl.revGen => job'.state \in {"pending", "running"}
      /\ crl'.revGen = crl.revGen => job' = job
      /\ \A s \in Serials :
            \/ revocation'[s] = revocation[s]
            \/ /\ crl'.revGen = crl.revGen + 1
               /\ revocation'[s].stamp = crl.revGen + 1
  BY <1>1, BatchEffect DEF CRLInv
<1>3. /\ crl.maxReserved \in Nat /\ crl'.maxReserved \in Nat
      /\ crl.revGen \in Nat /\ crl'.revGen \in Nat
      /\ crl.published \in Documents
      /\ crl.published.number \in Nat /\ crl.published.covered \in Nat
      /\ imported \in Nat
      /\ \A s \in Serials : revocation[s].stamp \in Nat
  BY DEF CRLInv, TypeOK, CRLStates, Documents, RevocationRows
<1>4. Issued' = Issued
  BY <1>1 DEF Issued
<1>5. NoReservation
  BY <1>1, <1>4 DEF NoReservation
<1>6. StorableState'
  <2>1. \A s \in Serials : revocation'[s].stamp <= crl'.revGen
    BY <1>2, <1>3 DEF CRLInv, StorableState
  <2>2. imported' <= crl'.maxReserved
    BY <1>1, <1>2, <1>3 DEF CRLInv, StorableState, CRLStates
  <2> QED
    BY <1>1, <1>2, <1>3, <2>1, <2>2 DEF CRLInv, StorableState, CRLStates
<1>7. Revoked \subseteq Revoked'
  BY <1>2, <1>3 DEF Revoked
<1>8. IssuedWithinLedger'
  <2>1. SUFFICES ASSUME NEW d \in Issued
                 PROVE  /\ d.number \in 1..crl'.maxReserved
                        /\ d.covered <= crl'.revGen
                        /\ d.listed \subseteq Revoked'
                        /\ \A s \in Revoked' :
                              revocation'[s].stamp <= d.covered => s \in d.listed
    BY <1>4 DEF IssuedWithinLedger
  <2>2. /\ d.number \in 1..crl.maxReserved
        /\ d.covered <= crl.revGen
        /\ d.listed \subseteq Revoked
        /\ \A s \in Revoked : revocation[s].stamp <= d.covered => s \in d.listed
    BY DEF CRLInv, IssuedWithinLedger
  <2>3. d \in Documents
    BY IssuedMember DEF CRLInv, TypeOK, WorkerRows
  <2>4. d.covered \in Nat
    BY <2>3 DEF Documents
  <2>5. d.number \in 1..crl'.maxReserved /\ d.covered <= crl'.revGen
    BY <1>1, <1>2, <1>3, <2>2, <2>4 DEF CRLStates
  <2>6. ASSUME NEW s \in Revoked', revocation'[s].stamp <= d.covered
        PROVE  s \in d.listed
    <3>1. s \in Serials
      BY DEF Revoked
    <3>2. revocation'[s] = revocation[s]
      BY <1>2, <1>3, <2>2, <2>4, <2>6, <3>1
    <3>3. s \in Revoked
      BY <3>1, <3>2 DEF Revoked
    <3> QED
      BY <2>2, <2>6, <3>2, <3>3
  <2> QED
    BY <1>7, <2>2, <2>5, <2>6
<1>9. DemandNotLost'
  BY <1>2 DEF CRLInv, DemandNotLost
<1> QED
  BY <1>5, <1>6, <1>8, <1>9, OrderKept DEF CRLInv

\* The new snapshot is numbered above, and covers at least as much as, every
\* document issued before.
LEMMA ReserveStep ==
    ASSUME CRLInv, TypeOK', NEW w \in Workers, ReserveSnapshot(w)
    PROVE  CRLInv'
<1> DEFINE new == [number |-> crl.maxReserved + 1, covered |-> crl.revGen,
                   listed |-> Revoked]
<1>1. /\ crl.maxReserved \in Nat /\ crl.revGen \in Nat
      /\ crl.published.number \in Nat /\ imported \in Nat
      /\ \A s \in Serials : revocation[s].stamp \in Nat
      /\ worker \in [Workers -> WorkerRows]
  BY DEF CRLInv, TypeOK, CRLStates, Documents, RevocationRows
<1>2. /\ crl'.maxReserved = crl.maxReserved + 1
      /\ crl'.revGen = crl.revGen
      /\ crl'.published = crl.published
      /\ UNCHANGED <<revocation, docs, imported, job>>
  BY DEF ReserveSnapshot, ReserveNext, CRLInv, TypeOK, CRLStates
<1>3. /\ worker'[w].pc = "reserved" /\ worker'[w].doc = new
      /\ \A v \in Workers \ {w} : worker'[v] = worker[v]
  BY <1>1 DEF ReserveSnapshot, ReserveNext
<1>4. Issued' \subseteq Issued \cup {new}
  BY <1>2, <1>3 DEF Issued
<1>5. \A d \in Issued : /\ d.number \in Nat /\ d.covered \in Nat
                        /\ d.number <= crl.maxReserved
                        /\ d.covered <= crl.revGen
                        /\ d.listed \subseteq Revoked
  BY <1>1, IssuedMember
  DEF CRLInv, IssuedWithinLedger, TypeOK, WorkerRows, Documents
<1>6. new.number = crl.maxReserved + 1 /\ new.covered = crl.revGen /\ new.listed = Revoked
  OBVIOUS
<1> HIDE DEF new
<1>7. Revoked' = Revoked
  BY <1>2 DEF Revoked
<1>8. StorableState'
  BY <1>1, <1>2 DEF CRLInv, StorableState
<1>9. NumbersInSnapshotOrder'
  <2>1. ASSUME NEW d \in Issued', NEW e \in Issued', d.number <= e.number
        PROVE  d.covered <= e.covered /\ d.listed \subseteq e.listed
    <3>1. CASE d \in Issued /\ e \in Issued
      BY <2>1, <3>1 DEF CRLInv, NumbersInSnapshotOrder
    <3>2. CASE e = new
      BY <1>1, <1>4, <1>5, <1>6, <3>2
    <3>3. CASE d = new /\ e \in Issued
      BY <1>1, <1>5, <1>6, <2>1, <3>3
    <3> QED
      BY <1>4, <3>1, <3>2, <3>3
  <2>2. \A v \in Workers \ {w} :
            worker'[v].pc = "reserved" => worker'[v].doc.number # new.number
    <3>1. SUFFICES ASSUME NEW v \in Workers \ {w}, worker[v].pc = "reserved"
                   PROVE  worker[v].doc.number # new.number
      BY <1>3
    <3>2. worker[v].doc \in Issued
      BY <3>1, IssuedMember
    <3> QED
      BY <1>1, <1>5, <1>6, <3>2
  <2>3. ASSUME NEW u \in Workers, NEW v \in Workers,
               worker'[u].pc = "reserved", worker'[v].pc = "reserved",
               worker'[u].doc.number = worker'[v].doc.number
        PROVE  u = v
    <3>1. CASE u = w \/ v = w
      BY <1>3, <2>2, <2>3, <3>1
    <3>2. CASE u # w /\ v # w
      BY <1>3, <2>3, <3>2 DEF CRLInv, NumbersInSnapshotOrder
    <3> QED
      BY <3>1, <3>2
  <2> QED
    BY <2>1, <2>3 DEF NumbersInSnapshotOrder
<1>10. IssuedWithinLedger'
  <2>1. SUFFICES ASSUME NEW d \in Issued'
                 PROVE  /\ d.number \in 1..crl'.maxReserved
                        /\ d.covered <= crl'.revGen
                        /\ d.listed \subseteq Revoked'
                        /\ \A s \in Revoked' :
                              revocation'[s].stamp <= d.covered => s \in d.listed
    BY DEF IssuedWithinLedger
  <2>2. CASE d = new
    BY <1>1, <1>2, <1>6, <1>7, <2>2
  <2>3. CASE d \in Issued
    BY <1>1, <1>2, <1>7, <2>3 DEF CRLInv, IssuedWithinLedger
  <2> QED
    BY <1>4, <2>2, <2>3
<1>11. DemandNotLost'
  BY <1>2 DEF CRLInv, DemandNotLost
<1> QED
  BY <1>8, <1>9, <1>10, <1>11 DEF CRLInv

\* What finalizePublish leaves as the published document: the one before, or
\* the worker's own, which then numbers higher, covers at least as much and
\* lists at least as much.
LEMMA FinalizeEffect ==
    ASSUME CRLInv, NEW w \in Workers, FinalizePublish(w)
    PROVE  /\ crl'.maxReserved = crl.maxReserved
           /\ crl'.revGen = crl.revGen
           /\ worker[w].doc \in Issued
           /\ crl'.published.covered >= crl.published.covered
           /\ \/ crl'.published = crl.published
              \/ /\ crl'.published = worker[w].doc
                 /\ crl'.published.number > crl.published.number
                 /\ crl.published.listed \subseteq crl'.published.listed
<1>1. worker[w].doc \in Issued
  BY IssuedMember DEF FinalizePublish, MayFinalize
<1>2. /\ crl \in CRLStates /\ crl.published \in Documents
      /\ crl.published.covered \in Nat /\ crl.published.number \in Nat
      /\ worker[w].doc \in Documents
      /\ worker[w].doc.covered \in Nat /\ worker[w].doc.number \in Nat
  BY DEF CRLInv, TypeOK, CRLStates, Documents, WorkerRows
<1>3. CASE CanPublish(worker[w].doc)
  <2>1. crl' = [crl EXCEPT !.published = worker[w].doc]
    BY <1>3 DEF FinalizePublish, MarkPublished
  <2>2. /\ crl'.maxReserved = crl.maxReserved
        /\ crl'.revGen = crl.revGen
        /\ crl'.published = worker[w].doc
    BY <1>2, <2>1 DEF CRLStates
  <2>3. /\ worker[w].doc.number > crl.published.number
        /\ worker[w].doc.covered >= crl.published.covered
    BY <1>3 DEF CanPublish
  <2>4. crl.published.listed \subseteq worker[w].doc.listed
    <3>1. CASE crl.published = NoDocument
      BY <3>1 DEF NoDocument
    <3>2. CASE crl.published \in docs
      <4>1. crl.published \in Issued /\ crl.published.number <= worker[w].doc.number
        BY <1>2, <2>3, <3>2, IssuedMember
      <4> QED
        BY <1>1, <4>1 DEF CRLInv, NumbersInSnapshotOrder
    <3> QED
      BY <3>1, <3>2 DEF CRLInv, StorableState
  <2> QED
    BY <1>1, <2>2, <2>3, <2>4
<1>4. CASE ~CanPublish(worker[w].doc)
  <2>1. crl' = crl
    BY <1>4 DEF FinalizePublish
  <2> QED
    BY <1>1, <1>2, <2>1
<1> QED
  BY <1>3, <1>4

\* A completion keeps the demand for whatever is still not covered.
LEMMA FinalizeStep ==
    ASSUME CRLInv, TypeOK', NEW w \in Workers, FinalizePublish(w)
    PROVE  CRLInv'
<1>1. /\ crl'.maxReserved = crl.maxReserved
      /\ crl'.revGen = crl.revGen
      /\ worker[w].doc \in Issued
      /\ crl'.published.covered >= crl.published.covered
      /\ crl'.published = crl.published \/ crl'.published = worker[w].doc
  BY FinalizeEffect
<1>2. /\ docs' = docs \cup {worker[w].doc}
      /\ job' = FinishJob(crl')
      /\ UNCHANGED <<revocation, imported>>
  BY DEF FinalizePublish
<1>3. \A v \in Workers : worker'[v].pc = "reserved" => worker'[v] = worker[v]
  BY DEF FinalizePublish, IdleWorker, CRLInv, TypeOK
<1>4. Issued' \subseteq Issued
  BY <1>1, <1>2, <1>3 DEF Issued
<1>5. NumbersInSnapshotOrder'
  BY <1>3, <1>4, OrderKept DEF CRLInv, NoReservation
<1>6. StorableState'
  <2>1. crl'.published \in docs' \cup {NoDocument}
    BY <1>1, <1>2 DEF CRLInv, StorableState
  <2>2. /\ worker[w].doc.number <= crl.maxReserved
        /\ worker[w].doc.covered <= crl.revGen
    BY <1>1 DEF CRLInv, IssuedWithinLedger, TypeOK, CRLStates
  <2> QED
    BY <1>1, <1>2, <2>1, <2>2 DEF CRLInv, StorableState
<1>7. Revoked' = Revoked
  BY <1>2 DEF Revoked
<1>8. IssuedWithinLedger'
  BY <1>1, <1>2, <1>4, <1>7 DEF CRLInv, IssuedWithinLedger
<1>9. DemandNotLost'
  <2>1. crl.revGen \in Nat /\ crl.published.covered \in Nat /\ crl'.published.covered \in Nat
    BY DEF CRLInv, TypeOK, CRLStates, Documents
  <2>2. CASE job.state # "running"
    BY <1>1, <1>2, <2>1, <2>2 DEF CRLInv, DemandNotLost, FinishJob
  <2>3. CASE job.state = "running"
    BY <1>1, <1>2, <2>1, <2>3 DEF CRLInv, TypeOK, JobRows, DemandNotLost, FinishJob
  <2> QED
    BY <2>2, <2>3
<1> QED
  BY <1>5, <1>6, <1>8, <1>9 DEF CRLInv

\* The invariant holds initially.
LEMMA CRLInit == Init => CRLInv
<1> SUFFICES ASSUME Init PROVE CRLInv
  OBVIOUS
<1>1. TypeOK
  BY RowsTyped DEF Init, TypeOK, NotRevoked, RevocationRows, CRLStates, JobRows
<1>2. Issued = {}
  BY DEF Init, Issued, IdleWorker
<1>3. StorableState /\ DemandNotLost
  BY DEF Init, StorableState, DemandNotLost, NoDocument, NotRevoked
<1>4. NumbersInSnapshotOrder /\ IssuedWithinLedger
  BY <1>2 DEF Init, NumbersInSnapshotOrder, IssuedWithinLedger, IdleWorker
<1> QED
  BY <1>1, <1>3, <1>4 DEF CRLInv

\* Every step keeps the invariant.
LEMMA CRLStep == CRLInv /\ [Next]_vars => CRLInv'
<1> SUFFICES ASSUME CRLInv, [Next]_vars PROVE CRLInv'
  OBVIOUS
<1>0. TypeOK'
  BY TypeStep DEF CRLInv
<1>1. CASE ApplyRevocations \/ \E n \in ImportedNumbers : ImportCRL(n)
  BY <1>0, <1>1, LedgerStep
<1>2. CASE RequestPublication
  <2>1. NoReservation
    BY <1>2 DEF RequestPublication, NoReservation, Issued
  <2>2. job'.state \in {"pending", "running"}
    BY <1>2, DemandRecorded DEF RequestPublication, CRLInv
  <2> QED
    BY <1>0, <1>2, <2>1, <2>2, QuietStep DEF RequestPublication
<1>3. CASE DestroyKey \/ Archive
  <2>1. NoReservation
    BY <1>3 DEF DestroyKey, Archive, NoReservation, Issued
  <2> QED
    BY <1>0, <1>3, <2>1, QuietStep DEF DestroyKey, Archive
<1>4. CASE LeaseLapses
  <2>1. NoReservation
    BY <1>4 DEF LeaseLapses, NoReservation, Issued
  <2>2. job'.state = job.state
    BY <1>4 DEF LeaseLapses, CRLInv, TypeOK, JobRows
  <2> QED
    BY <1>0, <1>4, <2>1, <2>2, QuietStep DEF LeaseLapses
<1>5. ASSUME NEW w \in Workers, Publish(w) \/ WorkerStops(w)
      PROVE  CRLInv'
  <2>1. CASE ClaimDue(w)
    <3>1. [IdleWorker EXCEPT !.pc = "claimed"].pc # "reserved"
      BY DEF IdleWorker
    <3>2. NoReservation
      BY <2>1, <3>1, RowsTyped, WorkerSteps DEF ClaimDue, CRLInv
    <3> QED
      BY <1>0, <2>1, <3>2, QuietStep DEF ClaimDue
  <2>2. CASE ReserveSnapshot(w)
    BY <1>0, <2>2, ReserveStep
  <2>3. CASE FinalizePublish(w)
    BY <1>0, <2>3, FinalizeStep
  <2>4. CASE PublishRefused(w) \/ WorkerStops(w)
    <3>1. IdleWorker.pc # "reserved"
      BY DEF IdleWorker
    <3>2. UNCHANGED storeVars /\ worker' = [worker EXCEPT ![w] = IdleWorker]
      BY <2>4 DEF PublishRefused, WorkerStops
    <3>3. NoReservation
      BY <3>1, <3>2, RowsTyped, WorkerSteps DEF CRLInv, storeVars
    <3> QED
      BY <1>0, <3>2, <3>3, QuietStep DEF storeVars
  <2> QED
    BY <1>5, <2>1, <2>2, <2>3, <2>4 DEF Publish
<1>6. CASE UNCHANGED vars
  <2>1. NoReservation
    BY <1>6 DEF vars, storeVars, NoReservation, Issued
  <2> QED
    BY <1>0, <1>6, <2>1, QuietStep DEF vars, storeVars
<1> QED
  BY <1>1, <1>2, <1>3, <1>4, <1>5, <1>6 DEF Next

\* CRLInv is an invariant of the specification.
THEOREM CRLInvariant == Spec => []CRLInv
BY CRLInit, CRLStep, PTL DEF Spec

\* Nothing the services save is refused by the storage layer's own checks.
THEOREM StorableCorrect == Spec => []StorableState
<1>1. CRLInv => StorableState
  BY DEF CRLInv
<1> QED
  BY <1>1, CRLInvariant, PTL

\* CRL numbers are used once and order the snapshots, for any number of
\* concurrent publications.
THEOREM NumbersCorrect == Spec => []NumbersInSnapshotOrder
<1>1. CRLInv => NumbersInSnapshotOrder
  BY DEF CRLInv
<1> QED
  BY <1>1, CRLInvariant, PTL

\* Every signed CRL is complete up to the generation it covers.
THEOREM IssuedCorrect == Spec => []IssuedWithinLedger
<1>1. CRLInv => IssuedWithinLedger
  BY DEF CRLInv
<1> QED
  BY <1>1, CRLInvariant, PTL

\* What is credited to the published CRL is in it.
LEMMA CRLCovers ==
    ASSUME CRLInv
    PROVE  PublishedCoversLedger
<1>1. SUFFICES ASSUME NEW s \in Revoked,
                      revocation[s].stamp <= crl.published.covered
               PROVE  s \in crl.published.listed
  BY DEF PublishedCoversLedger
<1>2. CASE crl.published = NoDocument
  <2>1. revocation[s].stamp \in Nat /\ revocation[s].stamp > 0
    BY <1>1 DEF Revoked, CRLInv, TypeOK, RevocationRows
  <2> QED
    BY <1>1, <1>2, <2>1 DEF NoDocument
<1>3. CASE crl.published \in docs
  BY <1>1, <1>3, IssuedMember DEF CRLInv, IssuedWithinLedger
<1> QED
  BY <1>2, <1>3 DEF CRLInv, StorableState

\* The published CRL lists every revocation of its generation.
THEOREM PublishedCoversCorrect == Spec => []PublishedCoversLedger
<1>1. CRLInv => PublishedCoversLedger
  BY CRLCovers
<1> QED
  BY <1>1, CRLInvariant, PTL

\* No demand for an uncovered revocation is lost.
THEOREM DemandCorrect == Spec => []DemandNotLost
<1>1. CRLInv => DemandNotLost
  BY DEF CRLInv
<1> QED
  BY <1>1, CRLInvariant, PTL

\* A replaced document is followed by one that goes further.
Forward ==
    crl'.published # crl.published =>
        /\ crl'.published.number > crl.published.number
        /\ crl'.published.covered >= crl.published.covered
        /\ crl.published.listed \subseteq crl'.published.listed

\* Every step takes publication forward.
LEMMA CRLForward ==
    ASSUME CRLInv, Next
    PROVE  Forward
<1>1. CASE ApplyRevocations \/ \E n \in ImportedNumbers : ImportCRL(n)
  <2>1. PICK batch \in Batches, state \in CRLStates :
           /\ state.revGen = crl.revGen
           /\ state.published = crl.published
           /\ ApplyIssuerBatch(batch, state)
    BY <1>1, LedgerActions DEF CRLInv
  <2> QED
    BY <2>1, BatchEffect DEF CRLInv, Forward
<1>2. CASE RequestPublication \/ DestroyKey \/ Archive \/ LeaseLapses
  BY <1>2 DEF RequestPublication, DestroyKey, Archive, LeaseLapses, Forward
<1>3. ASSUME NEW w \in Workers, Publish(w) \/ WorkerStops(w)
      PROVE  Forward
  <2>1. CASE FinalizePublish(w)
    BY <2>1, FinalizeEffect DEF Forward
  <2>2. CASE ReserveSnapshot(w)
    BY <2>2 DEF ReserveSnapshot, CRLInv, TypeOK, CRLStates, Forward
  <2>3. CASE ClaimDue(w) \/ PublishRefused(w) \/ WorkerStops(w)
    BY <2>3 DEF ClaimDue, PublishRefused, WorkerStops, storeVars, Forward
  <2> QED
    BY <1>3, <2>1, <2>2, <2>3 DEF Publish
<1> QED
  BY <1>1, <1>2, <1>3 DEF Next

\* No step forgets a stored document or a revocation.
LEMMA CRLKeeps ==
    ASSUME TypeOK, Next
    PROVE  docs \subseteq docs' /\ Revoked \subseteq Revoked'
<1>1. CASE ApplyRevocations \/ \E n \in ImportedNumbers : ImportCRL(n)
  <2>1. PICK batch \in Batches, state \in CRLStates :
           /\ state.revGen = crl.revGen
           /\ ApplyIssuerBatch(batch, state)
           /\ UNCHANGED <<docs, signer, worker, demand, faults>>
    BY <1>1, LedgerActions
  <2>2. /\ revocation' \in [Serials -> RevocationRows]
        /\ \A s \in Serials :
             \/ revocation'[s] = revocation[s]
             \/ revocation'[s].stamp = crl.revGen + 1
    BY <2>1, BatchEffect
  <2>3. crl.revGen \in Nat
    BY DEF TypeOK, CRLStates
  <2>4. Revoked \subseteq Revoked'
    BY <2>2, <2>3 DEF Revoked
  <2> QED
    BY <2>1, <2>4
<1>2. CASE RequestPublication \/ DestroyKey \/ Archive \/ LeaseLapses
  BY <1>2 DEF RequestPublication, DestroyKey, Archive, LeaseLapses, Revoked
<1>3. ASSUME NEW w \in Workers, Publish(w) \/ WorkerStops(w)
      PROVE  docs \subseteq docs' /\ Revoked \subseteq Revoked'
  BY <1>3 DEF Publish, ClaimDue, ReserveSnapshot, FinalizePublish, PublishRefused,
              WorkerStops, storeVars, Revoked
<1> QED
  BY <1>1, <1>2, <1>3 DEF Next

\* Publication never goes back in number, generation or listed serials.
THEOREM NeverRegressesCorrect == Spec => PublicationNeverRegresses
<1>1. CRLInv /\ [Next]_vars => [Forward]_vars
  BY CRLForward
<1>2. Spec => [][Forward]_vars
  BY <1>1, CRLInvariant, PTL DEF Spec
<1> QED
  BY <1>2 DEF PublicationNeverRegresses, Forward

\* A retired signer publishes nothing more, whatever was reserved before.
THEOREM RetiredSignerCorrect == Spec => RetiredSignerPublishesNothing
<1> DEFINE Quiet == ~CanSignCRL => crl'.published = crl.published
<1>1. TypeOK /\ [Next]_vars => [Quiet]_vars
  <2> SUFFICES ASSUME TypeOK, Next, ~CanSignCRL PROVE crl'.published = crl.published
    OBVIOUS
  <2>1. CASE ApplyRevocations \/ \E n \in ImportedNumbers : ImportCRL(n)
    <3>1. PICK batch \in Batches, state \in CRLStates :
             /\ state.revGen = crl.revGen
             /\ state.published = crl.published
             /\ ApplyIssuerBatch(batch, state)
      BY <2>1, LedgerActions
    <3> QED
      BY <3>1, BatchEffect
  <2>2. CASE RequestPublication \/ DestroyKey \/ Archive \/ LeaseLapses
    BY <2>2 DEF RequestPublication, DestroyKey, Archive, LeaseLapses
  <2>3. ASSUME NEW w \in Workers, Publish(w) \/ WorkerStops(w)
        PROVE  crl'.published = crl.published
    BY <2>3 DEF Publish, ClaimDue, ReserveSnapshot, FinalizePublish, MayFinalize,
                PublishRefused, WorkerStops, storeVars
  <2> QED
    BY <2>1, <2>2, <2>3 DEF Next
<1>2. Spec => [][Quiet]_vars
  BY <1>1, CRLTypeCorrect, PTL DEF Spec
<1> QED
  BY <1>2 DEF RetiredSignerPublishesNothing

-----------------------------------------------------------------------------
(* CRLPublication implements RevocationList.                               *)

\* The steps of RevocationList, on the rows.
RecordStep ==
    \E S \in (SUBSET Serials) \ {{}} :
        /\ crl'.revGen = crl.revGen + 1
        /\ Stamps' = [s \in Serials |->
                        IF s \in S THEN crl.revGen + 1 ELSE Stamps[s]]
        /\ crl'.published = crl.published
        /\ signer' = signer

ReplaceStep ==
    /\ CanSignCRL
    /\ crl'.published \in Documents
    /\ crl'.published.number > crl.published.number
    /\ crl'.published.covered \in crl.published.covered..crl.revGen
    /\ crl.published.listed \subseteq crl'.published.listed
    /\ \A s \in Revoked :
         revocation[s].stamp <= crl'.published.covered => s \in crl'.published.listed
    /\ crl'.published.listed \subseteq Revoked
    /\ crl'.revGen = crl.revGen
    /\ UNCHANGED <<revocation, signer>>

RetireStep ==
    /\ CanSignCRL
    /\ ~CanSignCRL'
    /\ crl.published.number > 0
    /\ crl.published.covered = crl.revGen
    /\ UNCHANGED <<revocation, crl>>

ListQuiet ==
    /\ crl'.revGen = crl.revGen
    /\ crl'.published = crl.published
    /\ revocation' = revocation
    /\ CanSignCRL' = CanSignCRL

ListStep == RecordStep \/ ReplaceStep \/ RetireStep \/ ListQuiet

\* A batch records the revocations it stamps, or changes nothing.
LEMMA BatchRecords ==
    ASSUME CRLInv, NEW batch \in Batches, NEW state \in CRLStates,
           state.revGen = crl.revGen, state.published = crl.published,
           ApplyIssuerBatch(batch, state), signer' = signer
    PROVE  RecordStep \/ ListQuiet
<1>1. /\ revocation' \in [Serials -> RevocationRows]
      /\ crl'.published = crl.published
      /\ crl'.revGen \in {crl.revGen, crl.revGen + 1}
      /\ \A s \in Serials :
           \/ revocation'[s] = revocation[s]
           \/ /\ crl'.revGen = crl.revGen + 1
              /\ revocation'[s].stamp = crl.revGen + 1
      /\ crl'.revGen = crl.revGen + 1 =>
           \E s \in Serials : revocation'[s].stamp = crl.revGen + 1
  BY BatchEffect DEF CRLInv
<1>2. crl.revGen \in Nat /\ revocation \in [Serials -> RevocationRows]
  BY DEF CRLInv, TypeOK, CRLStates
<1>3. CanSignCRL' = CanSignCRL
  BY DEF CanSignCRL
<1>4. CASE crl'.revGen = crl.revGen
  <2>1. \A s \in Serials : revocation'[s] = revocation[s]
    BY <1>1, <1>2, <1>4
  <2>2. revocation' = revocation
    BY <1>1, <1>2, <2>1
  <2> QED
    BY <1>1, <1>3, <1>4, <2>2 DEF ListQuiet
<1>5. CASE crl'.revGen = crl.revGen + 1
  <2> DEFINE S == {s \in Serials : revocation'[s].stamp = crl.revGen + 1}
  <2>1. S \in (SUBSET Serials) \ {{}}
    BY <1>1, <1>5
  <2>2. Stamps' = [s \in Serials |->
                     IF s \in S THEN crl.revGen + 1 ELSE Stamps[s]]
    BY <1>1 DEF Stamps
  <2> QED
    BY <1>1, <1>5, <2>1, <2>2 DEF RecordStep
<1> QED
  BY <1>1, <1>4, <1>5

\* Every step of CRLPublication is one of RevocationList or leaves the list
\* alone.
LEMMA ListStepStep ==
    ASSUME CRLInv, [Next]_vars
    PROVE  ListStep
<1>1. CASE ApplyRevocations \/ \E n \in ImportedNumbers : ImportCRL(n)
  <2>1. PICK batch \in Batches, state \in CRLStates :
             /\ state.revGen = crl.revGen
             /\ state.published = crl.published
             /\ ApplyIssuerBatch(batch, state)
             /\ UNCHANGED <<docs, signer, worker, demand, faults>>
    BY <1>1, LedgerActions DEF CRLInv
  <2> QED
    BY <2>1, BatchRecords DEF ListStep
<1>2. CASE RequestPublication \/ LeaseLapses \/ UNCHANGED vars
  BY <1>2 DEF RequestPublication, LeaseLapses, vars, storeVars, ListStep, ListQuiet,
              CanSignCRL
<1>3. CASE DestroyKey \/ Archive
  <2>1. RequiredCRLsPublished /\ UNCHANGED <<revocation, crl>>
    BY <1>3 DEF DestroyKey, Archive
  <2>2. /\ crl.published.covered \in Nat /\ crl.revGen \in Nat
        /\ crl.published.covered <= crl.revGen
    BY DEF CRLInv, StorableState, TypeOK, CRLStates, Documents
  <2>3. crl.published.number > 0 /\ crl.published.covered = crl.revGen
    BY <2>1, <2>2 DEF RequiredCRLsPublished
  <2>4. ~CanSignCRL'
    BY <1>3 DEF DestroyKey, Archive, CanSignCRL, CRLInv, TypeOK
  <2>5. CASE CanSignCRL
    BY <2>1, <2>3, <2>4, <2>5 DEF RetireStep, ListStep
  <2>6. CASE ~CanSignCRL
    <3>1. CanSignCRL' = CanSignCRL
      BY <2>4, <2>6 DEF CanSignCRL
    <3> QED
      BY <2>1, <3>1 DEF ListQuiet, ListStep
  <2> QED
    BY <2>5, <2>6
<1>4. ASSUME NEW w \in Workers, Publish(w) \/ WorkerStops(w)
      PROVE  ListStep
  <2>1. CASE FinalizePublish(w)
    <3>1. /\ crl'.revGen = crl.revGen
          /\ worker[w].doc \in Issued
          /\ crl'.published.covered >= crl.published.covered
          /\ \/ crl'.published = crl.published
             \/ /\ crl'.published = worker[w].doc
                /\ crl'.published.number > crl.published.number
                /\ crl.published.listed \subseteq crl'.published.listed
      BY <2>1, FinalizeEffect
    <3>2. CanSignCRL /\ UNCHANGED <<revocation, signer>>
      BY <2>1 DEF FinalizePublish, MayFinalize
    <3>3. CASE crl'.published = crl.published
      BY <3>1, <3>2, <3>3 DEF ListStep, ListQuiet, CanSignCRL
    <3>4. CASE crl'.published # crl.published
      <4>1. /\ worker[w].doc.covered <= crl.revGen
            /\ worker[w].doc.listed \subseteq Revoked
            /\ \A s \in Revoked : revocation[s].stamp <= worker[w].doc.covered
                                    => s \in worker[w].doc.listed
        BY <3>1 DEF CRLInv, IssuedWithinLedger
      <4>2. worker[w].doc \in Documents /\ crl.published \in Documents /\ crl.revGen \in Nat
        BY DEF CRLInv, TypeOK, CRLStates, WorkerRows
      <4>3. worker[w].doc.covered \in Nat /\ crl.published.covered \in Nat
        BY <4>2 DEF Documents
      <4>4. crl'.published.covered \in crl.published.covered..crl.revGen
        BY <3>1, <3>4, <4>1, <4>2, <4>3
      <4> QED
        BY <3>1, <3>2, <3>4, <4>1, <4>2, <4>4 DEF ReplaceStep, ListStep
    <3> QED
      BY <3>3, <3>4
  <2>2. CASE ReserveSnapshot(w)
    BY <2>2 DEF ReserveSnapshot, CRLInv, TypeOK, CRLStates, ListStep, ListQuiet,
                CanSignCRL
  <2>3. CASE ClaimDue(w) \/ PublishRefused(w) \/ WorkerStops(w)
    BY <2>3 DEF ClaimDue, PublishRefused, WorkerStops, storeVars, ListStep, ListQuiet,
                CanSignCRL
  <2> QED
    BY <1>4, <2>1, <2>2, <2>3 DEF Publish
<1> QED
  BY <1>1, <1>2, <1>3, <1>4 DEF Next

\* The initial rows are the empty list.
LEMMA ListInitial == Init => List!ListInit
<1> SUFFICES ASSUME Init PROVE List!ListInit
  OBVIOUS
<1>1. Stamps = [s \in Serials |-> 0]
  BY DEF Init, Stamps, NotRevoked
<1>2. crl.revGen = 0 /\ crl.published = [number |-> 0, covered |-> 0, listed |-> {}]
  BY DEF Init, NoDocument
<1>3. (~CanSignCRL) = FALSE
  BY DEF Init, CanSignCRL
<1> QED
  BY <1>1, <1>2, <1>3 DEF List!ListInit

\* The steps on the rows are those of RevocationList.
LEMMA ListStepMaps == CRLInv /\ ListStep => [List!ListNext]_(List!listVars)
<1> SUFFICES ASSUME CRLInv, ListStep PROVE [List!ListNext]_(List!listVars)
  OBVIOUS
<1>1. CASE RecordStep
  <2>1. PICK S \in (SUBSET Serials) \ {{}} :
        /\ crl'.revGen = crl.revGen + 1
        /\ Stamps' = [s \in Serials |->
                        IF s \in S THEN crl.revGen + 1 ELSE Stamps[s]]
        /\ crl'.published = crl.published
        /\ signer' = signer
    BY <1>1 DEF RecordStep
  <2>2. (~CanSignCRL)' = (~CanSignCRL)
    BY <2>1 DEF CanSignCRL
  <2>3. List!Record(S)
    BY <2>1, <2>2 DEF List!Record
  <2> QED
    BY <2>3 DEF List!ListNext
<1>2. CASE ReplaceStep
  <2>1. {s \in List!Recorded : Stamps[s] <= crl'.published.covered}
          \subseteq crl'.published.listed
    BY <1>2 DEF ReplaceStep, List!Recorded, Stamps, Revoked
  <2>2. crl'.published.listed \subseteq List!Recorded
    BY <1>2 DEF ReplaceStep, List!Recorded, Stamps, Revoked
  <2>3. crl'.published \in List!Lists
    BY <1>2 DEF ReplaceStep, List!Lists, Documents
  <2>4. Stamps' = Stamps /\ (~CanSignCRL)' = (~CanSignCRL)
    BY <1>2 DEF ReplaceStep, Stamps, CanSignCRL
  <2>5. List!Replace
    BY <1>2, <2>1, <2>2, <2>3, <2>4 DEF ReplaceStep, List!Replace
  <2> QED
    BY <2>5 DEF List!ListNext
<1>3. CASE RetireStep
  <2>1. Stamps' = Stamps
    BY <1>3 DEF RetireStep, Stamps
  <2>2. (~CanSignCRL)' = TRUE
    BY <1>3 DEF RetireStep
  <2>3. List!Retire
    BY <1>3, <2>1, <2>2 DEF RetireStep, List!Retire
  <2> QED
    BY <2>3 DEF List!ListNext
<1>4. CASE ListQuiet
  <2>1. Stamps' = Stamps /\ (~CanSignCRL)' = (~CanSignCRL)
    BY <1>4 DEF ListQuiet, Stamps
  <2> QED
    BY <1>4, <2>1 DEF ListQuiet, List!listVars
<1> QED
  BY <1>1, <1>2, <1>3, <1>4 DEF ListStep

\* The publication of CRLs implements the promised list, for any number of
\* concurrent workers and any order in which they finish.
THEOREM CRLImplementsList == Spec => ImplementsRevocationList
<1>1. CRLInv /\ [Next]_vars => [List!ListNext]_(List!listVars)
  BY ListStepStep, ListStepMaps
<1> QED
  BY <1>1, ListInitial, CRLInvariant, PTL
     DEF Spec, ImplementsRevocationList, List!ListSpec

-----------------------------------------------------------------------------
(* Restore: the part of CRLPublication.                                    *)

\* A revocation of one leaf is one of the batches of applyRevocations.
LEMMA RevokeLeafApplies ==
    ASSUME NEW s \in Serials, RevokeLeaf(s)
    PROVE  Next
<1>1. PICK f \in Facts :
        ApplyIssuerBatch(
          [t \in {s} |-> [facts |-> f, linked |-> TRUE, review |-> FALSE]], crl)
  BY DEF RevokeLeaf
<1>2. [t \in {s} |-> [facts |-> f, linked |-> TRUE, review |-> FALSE]]
        \in [{s} -> [facts : Facts, linked : {TRUE}, review : {FALSE}]]
  OBVIOUS
<1>3. {s} \in SUBSET Serials
  OBVIOUS
<1>4. ApplyRevocations
  BY <1>1, <1>2, <1>3 DEF ApplyRevocations, RevokeLeaf
<1> QED
  BY <1>4 DEF Next

\* The steps that are no step of CRLPublication: a stopped service and the two
\* ends of a call.
Interruption == StopService \/ FinalizeRestoreRun \/ CallStops

\* Every other step is one of CRLPublication, or leaves it alone.
LEMMA OtherStepsProject ==
    ASSUME [RestoreNext]_allVars, ~Interruption
    PROVE  [Next]_vars
<1>1. CASE UNCHANGED allVars
  BY <1>1 DEF allVars
<1>2. ASSUME NEW s \in Serials, FailDelivery(s) \/ RestoreOneDelivery(s)
      PROVE  Next
  BY <1>2, RevokeLeafApplies DEF FailDelivery, RestoreOneDelivery
<1>3. ASSUME NEW s \in Serials,
             IssueLeaf(s) \/ ConsumeDelivery(s) \/ CompleteDelivery(s)
      PROVE  UNCHANGED vars
  BY <1>3 DEF IssueLeaf, ConsumeDelivery, CompleteDelivery
<1>4. CASE OpenCredentials \/ Reopen \/ \E r \in RunIds : StartRestoreRun(r)
  BY <1>4 DEF OpenCredentials, Reopen, StartRestoreRun
<1>5. CASE CRLService \/ CRLWorker
  BY <1>5 DEF CRLService, CRLWorker, Next
<1>6. CASE InvalidateAllAdminSessions \/ InvalidateAllPublicGrants \/ RestoreCRLPlan
  BY <1>6 DEF InvalidateAllAdminSessions, InvalidateAllPublicGrants, RestoreCRLPlan
<1> QED
  BY <1>1, <1>2, <1>3, <1>4, <1>5, <1>6
     DEF RestoreNext, Service, FinalizeRestore, Interruption

\* An interruption leaves ledger, CRL state and documents alone.
LEMMA InterruptionQuiet ==
    ASSUME CRLInv, Interruption
    PROVE  /\ CRLInv'
           /\ UNCHANGED <<revocation, crl, docs, imported, signer>>
<1>0. TypeOK
  BY DEF CRLInv
<1>1. CASE StopService
  <2>1. UNCHANGED <<revocation, crl, docs, imported, job, signer, demand, faults>>
    BY <1>1 DEF StopService, storeVars
  <2>2. worker' = [w \in Workers |-> IdleWorker]
    BY <1>1 DEF StopService
  <2>3. worker' \in [Workers -> WorkerRows]
    BY <2>2, RowsTyped
  <2>4. TypeOK'
    BY <1>0, <2>1, <2>3 DEF TypeOK
  <2>5. \A w \in Workers : worker'[w].pc # "reserved"
    BY <2>2 DEF IdleWorker
  <2>6. NoReservation
    BY <2>1, <2>5 DEF NoReservation, Issued
  <2> QED
    BY <2>1, <2>4, <2>6, QuietStep
<1>2. CASE FinalizeRestoreRun
  <2>1. UNCHANGED <<revocation, crl, docs, imported, signer, worker, demand, faults>>
    BY <1>2 DEF FinalizeRestoreRun
  <2>2. job' = job \/ UpsertDemand
    BY <1>2 DEF FinalizeRestoreRun, RecordCRLDemand
  <2>3. /\ job' \in JobRows
        /\ job.state \in {"pending", "running"} => job'.state \in {"pending", "running"}
    BY <1>0, <2>2, DemandRecorded DEF TypeOK
  <2>4. TypeOK'
    BY <1>0, <2>1, <2>3 DEF TypeOK
  <2>5. NoReservation
    BY <2>1 DEF NoReservation, Issued
  <2> QED
    BY <2>1, <2>3, <2>4, <2>5, QuietStep
<1>3. CASE CallStops
  <2>1. UNCHANGED <<revocation, crl, docs, imported, job, signer, worker, demand>>
    BY <1>3 DEF CallStops, storeVars
  <2>2. faults' \in Nat
    BY <1>0, <1>3 DEF CallStops, TypeOK
  <2>3. TypeOK'
    BY <1>0, <2>1, <2>2 DEF TypeOK
  <2>4. NoReservation
    BY <2>1 DEF NoReservation, Issued
  <2> QED
    BY <2>1, <2>3, <2>4, QuietStep
<1> QED
  BY <1>1, <1>2, <1>3 DEF Interruption

\* What no step takes back.
Onward ==
    /\ docs \subseteq docs'
    /\ Revoked \subseteq Revoked'
    /\ crl.published.listed \subseteq crl'.published.listed
    /\ crl'.published.covered >= crl.published.covered

\* Every step of the procedure keeps the invariant of CRLPublication and what
\* was stored, revoked and listed.
LEMMA CRLPart ==
    ASSUME CRLInv, [RestoreNext]_allVars
    PROVE  CRLInv' /\ Onward
<1>0. crl.published.covered \in Nat
  BY DEF CRLInv, TypeOK, CRLStates, Documents
<1>1. CASE Interruption
  <2>1. CRLInv' /\ UNCHANGED <<revocation, crl, docs>>
    BY <1>1, InterruptionQuiet
  <2> QED
    BY <1>0, <2>1 DEF Onward, Revoked
<1>2. CASE ~Interruption
  <2>1. [Next]_vars
    BY <1>2, OtherStepsProject
  <2>2. CRLInv'
    BY <2>1, CRLStep
  <2>3. CASE Next
    <3>1. Forward /\ docs \subseteq docs' /\ Revoked \subseteq Revoked'
      BY <2>3, CRLForward, CRLKeeps DEF CRLInv
    <3> QED
      BY <1>0, <2>2, <3>1 DEF Onward, Forward
  <2>4. CASE UNCHANGED vars
    BY <1>0, <2>2, <2>4 DEF Onward, Revoked, vars, storeVars
  <2> QED
    BY <2>1, <2>3, <2>4
<1> QED
  BY <1>1, <1>2

-----------------------------------------------------------------------------
(* Restore: types.                                                         *)

LeafTypes ==
    /\ delivery \in [Serials ->
         {"none", "pending", "transferring", "completed", "failed"}]
    /\ secret \subseteq Serials
    /\ link \subseteq Serials

ProcedureTypes ==
    /\ credential \subseteq Credentials
    /\ run \in [RunIds -> Runs]
    /\ mode \in {"service", "restore", "restored"}
    /\ call \in Calls
    /\ found \subseteq Serials
    /\ restores \in Nat

\* The rows a run or a call starts with, and the fields a row may get.
LEMMA RowsOfRunsTyped ==
    /\ NoRunRow \in Runs
    /\ Idle \in Calls
    /\ \A r \in RunIds : [Idle EXCEPT !.pc = "sessions", !.id = r] \in Calls
    /\ \A c \in Calls : [c EXCEPT !.pc = "deliveries"] \in Calls
    /\ \A c \in Calls : [c EXCEPT !.pc = "plan"] \in Calls
    /\ \A c \in Calls, q \in Requirements :
         [c EXCEPT !.pc = "finalize", !.plan = q] \in Calls
    /\ \A w \in Runs : [w EXCEPT !.phase = "started"] \in Runs
BY DEF NoRunRow, NoRequirement, Requirements, Runs, Idle, Calls

\* The numbers of the published document.
LEMMA PublishedTyped ==
    ASSUME TypeOK
    PROVE  /\ crl.published.number \in Nat /\ crl.published.covered \in Nat
           /\ crl.revGen \in Nat /\ crl.maxReserved \in Nat
BY DEF TypeOK, CRLStates, Documents

\* A raised requirement covers the generation reached and keeps the rest.
LEMMA Raised ==
    ASSUME TypeOK, NEW q \in Requirements
    PROVE  /\ RaiseRequirement(q) \in Requirements
           /\ RaiseRequirement(q).generation >= crl.revGen
           /\ RaiseRequirement(q).required = q.required
<1>1. crl.revGen \in Nat /\ NextNumber \in Nat
  BY PublishedTyped DEF NextNumber
<1>2. q.generation \in Nat /\ q.number \in Nat
  BY DEF Requirements
<1>3. CASE crl.revGen > q.generation
  <2> DEFINE n == IF NextNumber > q.number THEN NextNumber ELSE q.number
  <2>1. RaiseRequirement(q) = [q EXCEPT !.generation = crl.revGen, !.number = n]
    BY <1>3 DEF RaiseRequirement
  <2>2. n \in Nat
    BY <1>1, <1>2
  <2> HIDE DEF n
  <2>3. [q EXCEPT !.generation = crl.revGen, !.number = n] \in Requirements
    BY <1>1, <2>2 DEF Requirements
  <2>4. [q EXCEPT !.generation = crl.revGen, !.number = n].generation = crl.revGen
    BY DEF Requirements
  <2>5. [q EXCEPT !.generation = crl.revGen, !.number = n].required = q.required
    BY DEF Requirements
  <2> QED
    BY <1>1, <2>1, <2>3, <2>4, <2>5
<1>4. CASE ~(crl.revGen > q.generation)
  BY <1>1, <1>2, <1>4 DEF RaiseRequirement
<1> QED
  BY <1>3, <1>4

\* The plan is a requirement; it demands nothing only of an archived authority
\* or when the published CRL covers the ledger.
LEMMA Planned ==
    ASSUME TypeOK, NEW q \in Requirements
    PROVE  /\ PlannedRequirement(q) \in Requirements
           /\ \/ PlannedRequirement(q).required
              \/ signer.archived
              \/ crl.revGen <= crl.published.covered
<1>1. crl.revGen \in Nat /\ NextNumber \in Nat
  BY PublishedTyped DEF NextNumber
<1>2. NoRequirement \in Requirements
  BY DEF NoRequirement, Requirements
<1>3. [required |-> TRUE, generation |-> crl.revGen, number |-> NextNumber,
       satisfied |-> 0] \in Requirements
  BY <1>1 DEF Requirements
<1>4. RaiseRequirement(q) \in Requirements /\ RaiseRequirement(q).required = q.required
  BY Raised
<1> QED
  BY <1>2, <1>3, <1>4 DEF PlannedRequirement

\* Evidence is the published document, and then it covers the requirement.
LEMMA Evidenced ==
    ASSUME TypeOK, NEW q \in Requirements
    PROVE  /\ WithEvidence(q) \in Requirements
           /\ WithEvidence(q).required = q.required
           /\ WithEvidence(q).generation = q.generation
           /\ WithEvidence(q).number = q.number
           /\ WithEvidence(q).satisfied > 0 =>
                /\ WithEvidence(q).satisfied = crl.published.number
                /\ CRLRequirementSatisfied(q)
<1>1. crl.published.number \in Nat
  BY PublishedTyped
<1> DEFINE n == IF CRLRequirementSatisfied(q) THEN crl.published.number ELSE 0
<1>2. n \in Nat /\ (n > 0 => n = crl.published.number /\ CRLRequirementSatisfied(q))
  BY <1>1
<1>3. WithEvidence(q) = [q EXCEPT !.satisfied = n]
  BY DEF WithEvidence
<1> HIDE DEF n
<1>4. /\ [q EXCEPT !.satisfied = n] \in Requirements
      /\ [q EXCEPT !.satisfied = n].required = q.required
      /\ [q EXCEPT !.satisfied = n].generation = q.generation
      /\ [q EXCEPT !.satisfied = n].number = q.number
      /\ [q EXCEPT !.satisfied = n].satisfied = n
  BY <1>2 DEF Requirements
<1> QED
  BY <1>2, <1>3, <1>4

\* The outcome of the last transaction of a call.
Outcome == WithEvidence(RaiseRequirement(call.plan))
Completed == call.plan.required => Outcome.satisfied > 0

\* The last transaction, spelled out.
LEMMA FinalizeRun ==
    ASSUME FinalizeRestoreRun
    PROVE  /\ call.pc = "finalize"
           /\ run' = [run EXCEPT ![call.id] =
                        [phase |-> IF Completed THEN "finished" ELSE "blocked",
                         crl |-> IF call.plan.required THEN Outcome ELSE run[call.id].crl]]
           /\ mode' = IF Completed THEN "restored" ELSE mode
           /\ call' = Idle
           /\ UNCHANGED <<leafVars, credential, found, restores>>
BY DEF FinalizeRestoreRun, Outcome, Completed

\* Every step keeps the types of the leaf rows.
LEMMA LeafTypeStep ==
    ASSUME LeafTypes, [RestoreNext]_allVars
    PROVE  LeafTypes'
<1> USE DEF LeafTypes
<1>1. CASE UNCHANGED allVars
  BY <1>1 DEF allVars, restoreVars, leafVars
<1>2. ASSUME NEW s \in Serials,
             \/ IssueLeaf(s) \/ ConsumeDelivery(s) \/ CompleteDelivery(s)
             \/ FailDelivery(s) \/ RestoreOneDelivery(s)
      PROVE  LeafTypes'
  BY <1>2 DEF IssueLeaf, ConsumeDelivery, CompleteDelivery, FailDelivery,
              RestoreOneDelivery
<1>3. CASE OpenCredentials \/ StopService \/ Reopen
           \/ \E r \in RunIds : StartRestoreRun(r)
  BY <1>3 DEF OpenCredentials, StopService, Reopen, StartRestoreRun, leafVars
<1>4. CASE CRLService \/ CRLWorker
  BY <1>4 DEF CRLService, CRLWorker, restoreVars, leafVars
<1>5. CASE InvalidateAllAdminSessions \/ InvalidateAllPublicGrants \/ RestoreCRLPlan
  BY <1>5 DEF InvalidateAllAdminSessions, InvalidateAllPublicGrants, RestoreCRLPlan,
              leafVars
<1>6. CASE FinalizeRestoreRun \/ CallStops
  BY <1>6 DEF FinalizeRestoreRun, CallStops, leafVars
<1> QED
  BY <1>1, <1>2, <1>3, <1>4, <1>5, <1>6 DEF RestoreNext, Service, FinalizeRestore

\* A call in progress belongs to a run, in a database being restored.
CallPlace == call.pc # "idle" => mode = "restore" /\ call.id \in RunIds

\* Every step keeps the types of the procedure and the place of the call.
LEMMA ProcedureStep ==
    ASSUME TypeOK, ProcedureTypes, CallPlace, [RestoreNext]_allVars
    PROVE  ProcedureTypes' /\ CallPlace'
<1> USE DEF ProcedureTypes
<1>1. CASE UNCHANGED allVars
  BY <1>1 DEF allVars, restoreVars, leafVars, CallPlace
<1>2. ASSUME NEW s \in Serials,
             \/ IssueLeaf(s) \/ ConsumeDelivery(s) \/ CompleteDelivery(s)
             \/ FailDelivery(s) \/ RestoreOneDelivery(s)
      PROVE  ProcedureTypes' /\ CallPlace'
  BY <1>2 DEF IssueLeaf, ConsumeDelivery, CompleteDelivery, FailDelivery,
              RestoreOneDelivery, CallPlace
<1>3. CASE OpenCredentials
  BY <1>3 DEF OpenCredentials, CallPlace, Credentials
<1>4. CASE StopService
  <2>1. call.pc = "idle"
    BY <1>4 DEF StopService, InService, CallPlace
  <2> QED
    BY <1>4, <2>1 DEF StopService, Deliverable, CallPlace
<1>5. CASE Reopen
  <2>1. call.pc = "idle"
    BY <1>5 DEF Reopen, CallPlace
  <2> QED
    BY <1>5, <2>1 DEF Reopen, CallPlace
<1>6. CASE CRLService \/ CRLWorker
  BY <1>6 DEF CRLService, CRLWorker, restoreVars, CallPlace
<1>7. ASSUME NEW r \in RunIds, StartRestoreRun(r)
      PROVE  ProcedureTypes' /\ CallPlace'
  <2>1. run' = [run EXCEPT ![r] = [run[r] EXCEPT !.phase = "started"]]
    BY <1>7 DEF StartRestoreRun
  <2>2. run' \in [RunIds -> Runs]
    BY <2>1, RowsOfRunsTyped
  <2>3. call' \in Calls /\ call'.id = r
    BY <1>7, RowsOfRunsTyped DEF StartRestoreRun, Idle
  <2> QED
    BY <1>7, <2>2, <2>3 DEF StartRestoreRun, CallPlace
<1>8. CASE InvalidateAllAdminSessions \/ InvalidateAllPublicGrants
  <2>0. call \in Calls
    OBVIOUS
  <2>1. call' \in Calls /\ call'.id = call.id
    <3>1. CASE InvalidateAllAdminSessions
      <4>1. call' = [call EXCEPT !.pc = "deliveries"]
        BY <3>1 DEF InvalidateAllAdminSessions
      <4>2. [call EXCEPT !.pc = "deliveries"] \in Calls
        BY <2>0, RowsOfRunsTyped
      <4>3. [call EXCEPT !.pc = "deliveries"].id = call.id
        BY <2>0 DEF Calls
      <4> QED
        BY <4>1, <4>2, <4>3
    <3>2. CASE InvalidateAllPublicGrants
      <4>1. call' = [call EXCEPT !.pc = "plan"]
        BY <3>2 DEF InvalidateAllPublicGrants
      <4>2. [call EXCEPT !.pc = "plan"] \in Calls
        BY <2>0, RowsOfRunsTyped
      <4>3. [call EXCEPT !.pc = "plan"].id = call.id
        BY <2>0 DEF Calls
      <4> QED
        BY <4>1, <4>2, <4>3
    <3> QED
      BY <1>8, <3>1, <3>2
  <2> QED
    BY <1>8, <2>1
       DEF InvalidateAllAdminSessions, InvalidateAllPublicGrants, CallPlace
<1>9. CASE RestoreCRLPlan
  <2>1. call.id \in RunIds /\ run[call.id].crl \in Requirements
    BY <1>9 DEF RestoreCRLPlan, CallPlace, Runs
  <2>2. PlannedRequirement(run[call.id].crl) \in Requirements
    BY <2>1, Planned
  <2>3. call' \in Calls
    BY <1>9, <2>2, RowsOfRunsTyped DEF RestoreCRLPlan
  <2>4. call'.id = call.id
    BY <1>9 DEF RestoreCRLPlan, Calls
  <2> QED
    BY <1>9, <2>1, <2>3, <2>4 DEF RestoreCRLPlan, CallPlace
<1>10. CASE FinalizeRestoreRun
  <2>1. call.plan \in Requirements
    BY DEF Calls
  <2>2. Outcome \in Requirements
    BY <2>1, Raised, Evidenced DEF Outcome
  <2>3. call.id \in RunIds /\ run[call.id].crl \in Requirements
    BY <1>10 DEF FinalizeRestoreRun, CallPlace, Runs
  <2>4. [phase |-> IF Completed THEN "finished" ELSE "blocked",
         crl |-> IF call.plan.required THEN Outcome ELSE run[call.id].crl] \in Runs
    BY <2>2, <2>3 DEF Runs
  <2>5. run' \in [RunIds -> Runs]
    BY <1>10, <2>4, FinalizeRun
  <2>6. /\ call' = Idle
        /\ mode' \in {"restored", mode}
        /\ UNCHANGED <<credential, found, restores>>
    BY <1>10, FinalizeRun
  <2> QED
    BY <2>5, <2>6, RowsOfRunsTyped DEF CallPlace, Idle
<1>11. CASE CallStops
  BY <1>11, RowsOfRunsTyped DEF CallStops, CallPlace, Idle
<1> QED
  BY <1>1, <1>2, <1>3, <1>4, <1>5, <1>6, <1>7, <1>8, <1>9, <1>10, <1>11
     DEF RestoreNext, Service, FinalizeRestore

-----------------------------------------------------------------------------
(* The leaves a restore finds.                                             *)

\* A serial that is not revoked has no facts yet.
BlankRows == \A s \in Serials : revocation[s].stamp = 0 => revocation[s].facts = NoFacts

\* A row the ledger changes is the row of a revoked serial.
LEMMA ChangedRows ==
    ASSUME TypeOK, Next
    PROVE  \A s \in Serials :
             revocation'[s] = revocation[s] \/ revocation'[s].stamp > 0
<1>1. CASE ApplyRevocations \/ \E n \in ImportedNumbers : ImportCRL(n)
  <2>1. PICK batch \in Batches, state \in CRLStates :
           /\ state.revGen = crl.revGen
           /\ ApplyIssuerBatch(batch, state)
    BY <1>1, LedgerActions
  <2>2. \A s \in Serials :
          \/ revocation'[s] = revocation[s]
          \/ revocation'[s].stamp = crl.revGen + 1
    BY <2>1, BatchEffect
  <2>3. crl.revGen \in Nat
    BY DEF TypeOK, CRLStates
  <2> QED
    BY <2>2, <2>3
<1>2. CASE RequestPublication \/ DestroyKey \/ Archive \/ LeaseLapses
  BY <1>2 DEF RequestPublication, DestroyKey, Archive, LeaseLapses
<1>3. ASSUME NEW w \in Workers, Publish(w) \/ WorkerStops(w)
      PROVE  UNCHANGED revocation
  BY <1>3 DEF Publish, ClaimDue, ReserveSnapshot, FinalizePublish, PublishRefused,
              WorkerStops, storeVars
<1> QED
  BY <1>1, <1>2, <1>3 DEF Next

\* No step gives facts to a serial it does not revoke.
LEMMA BlankStep ==
    ASSUME CRLInv, BlankRows, [RestoreNext]_allVars
    PROVE  BlankRows'
<1>1. CASE Interruption
  BY <1>1, InterruptionQuiet DEF BlankRows
<1>2. CASE ~Interruption
  <2>1. [Next]_vars
    BY <1>2, OtherStepsProject
  <2>2. CASE Next
    BY <2>2, ChangedRows DEF CRLInv, BlankRows
  <2>3. CASE UNCHANGED vars
    BY <2>3 DEF vars, storeVars, BlankRows
  <2> QED
    BY <2>1, <2>2, <2>3
<1> QED
  BY <1>1, <1>2

\* The batch of a failed delivery records the revocation, or finds it there.
LEMMA RevokeLeafRevokes ==
    ASSUME TypeOK, BlankRows, NEW s \in Serials, RevokeLeaf(s)
    PROVE  s \in Revoked'
<1>1. PICK f \in Facts :
        ApplyIssuerBatch(
          [t \in {s} |-> [facts |-> f, linked |-> TRUE, review |-> FALSE]], crl)
  BY DEF RevokeLeaf
<1> DEFINE change == [facts |-> f, linked |-> TRUE, review |-> FALSE]
           batch == [t \in {s} |-> change]
<1>2. /\ change \in [facts : Facts, linked : BOOLEAN, review : BOOLEAN]
      /\ change.facts \in Facts
      /\ batch[s] = change /\ DOMAIN batch = {s}
  OBVIOUS
<1>3. revocation \in [Serials -> RevocationRows] /\ crl.revGen \in Nat
  BY DEF TypeOK, CRLStates
<1>4. ResolveChange(s, change) \in RevocationRows
  BY <1>2, ResolvedTyped
<1>5. s \notin Revoked => revocation[s].stamp = 0 /\ revocation[s].facts = NoFacts
  BY <1>3 DEF Revoked, BlankRows, RevocationRows
<1>6. s \notin Revoked => ResolveChange(s, change).facts = change.facts
  BY DEF ResolveChange
<1>7. s \in Pending(batch) <=> ResolveChange(s, change) # revocation[s]
  BY <1>2 DEF Pending
<1>8. ApplyIssuerBatch(batch, crl)
  BY <1>1
<1> HIDE DEF change, batch
<1>9. CASE Pending(batch) = {}
  <2>1. revocation' = revocation
    BY <1>8, <1>9 DEF ApplyIssuerBatch
  <2>2. s \in Revoked
    BY <1>2, <1>5, <1>6, <1>7, <1>9, CRLConstants
  <2> QED
    BY <2>1, <2>2 DEF Revoked
<1>10. CASE Pending(batch) # {}
  <2>1. s \in Pending(batch)
    BY <1>2, <1>10 DEF Pending
  <2>2. revocation' = Stamped(batch, crl.revGen + 1)
    BY <1>8, <1>10 DEF ApplyIssuerBatch
  <2>3. revocation'[s] = [ResolveChange(s, change) EXCEPT !.stamp = crl.revGen + 1]
    BY <1>2, <2>1, <2>2 DEF Stamped
  <2>4. revocation'[s].stamp = crl.revGen + 1
    BY <1>4, <2>3 DEF RevocationRows
  <2> QED
    BY <1>3, <2>4 DEF Revoked
<1> QED
  BY <1>9, <1>10

\* A leaf whose key can no longer be handed out, and whose certificate the
\* ledger revokes.
Dead(s) ==
    /\ delivery[s] = "failed"
    /\ s \notin secret /\ s \notin link
    /\ s \in Revoked

\* Between the sweep and the end of the call nothing found is deliverable.
Swept == call.pc \in {"plan", "finalize"} \/ mode # "restore"

FoundSwept == \A s \in found : Dead(s) \/ (~Swept /\ s \in Deliverable)

\* Nothing revives a dead leaf.
LEMMA DeadStays ==
    ASSUME LeafTypes, CRLInv, [RestoreNext]_allVars, NEW d \in Serials, Dead(d)
    PROVE  Dead(d)'
<1>0. d \in Revoked'
  BY CRLPart DEF Dead, Onward
<1> USE DEF Dead, LeafTypes
<1>1. CASE UNCHANGED leafVars
  BY <1>0, <1>1 DEF leafVars
<1>2. ASSUME NEW s \in Serials,
             \/ IssueLeaf(s) \/ ConsumeDelivery(s) \/ CompleteDelivery(s)
             \/ FailDelivery(s) \/ RestoreOneDelivery(s)
      PROVE  Dead(d)'
  BY <1>0, <1>2 DEF IssueLeaf, ConsumeDelivery, CompleteDelivery, FailDelivery,
                    RestoreOneDelivery, Deliverable
<1>3. CASE OpenCredentials \/ StopService \/ Reopen
           \/ \E r \in RunIds : StartRestoreRun(r)
  BY <1>1, <1>3 DEF OpenCredentials, StopService, Reopen, StartRestoreRun
<1>4. CASE UNCHANGED allVars \/ CRLService \/ CRLWorker
  BY <1>1, <1>4 DEF allVars, CRLService, CRLWorker, restoreVars
<1>5. CASE InvalidateAllAdminSessions \/ InvalidateAllPublicGrants \/ RestoreCRLPlan
  BY <1>1, <1>5
     DEF InvalidateAllAdminSessions, InvalidateAllPublicGrants, RestoreCRLPlan
<1>6. CASE FinalizeRestoreRun \/ CallStops
  BY <1>1, <1>6 DEF FinalizeRestoreRun, CallStops
<1> QED
  BY <1>2, <1>3, <1>4, <1>5, <1>6 DEF RestoreNext, Service, FinalizeRestore

\* The rows, the call and the ledger as the steps of a restore need them.
RestoreBase == LeafTypes /\ ProcedureTypes /\ CallPlace /\ CRLInv /\ BlankRows

\* A leaf the sweep is finished without is not deliverable.
LEMMA SweepDone ==
    ASSUME \A s \in Serials : ~SweepDue(s)
    PROVE  Deliverable = {}
BY DEF SweepDue, Deliverable

\* Every leaf found is dead or still to be swept, whatever comes between.
LEMMA FoundStep ==
    ASSUME RestoreBase, FoundSwept, [RestoreNext]_allVars
    PROVE  FoundSwept'
<1>0. /\ found \subseteq Serials
      /\ delivery \in [Serials ->
           {"none", "pending", "transferring", "completed", "failed"}]
  BY DEF RestoreBase, ProcedureTypes, LeafTypes
<1>1. \A d \in Serials : Dead(d) => Dead(d)'
  BY DeadStays DEF RestoreBase
<1>2. CASE UNCHANGED <<found, mode, call, delivery>>
  BY <1>0, <1>1, <1>2 DEF FoundSwept, Swept, Deliverable
<1>3. CASE StopService
  <2>1. call.pc = "idle"
    BY <1>3 DEF StopService, InService, RestoreBase, CallPlace
  <2>2. /\ found' = Deliverable /\ delivery' = delivery
        /\ mode' = "restore" /\ call' = call
    BY <1>3 DEF StopService, leafVars
  <2> QED
    BY <2>1, <2>2 DEF FoundSwept, Swept, Deliverable
<1>4. CASE InService /\ UNCHANGED <<found, mode>>
  BY <1>0, <1>1, <1>4 DEF InService, FoundSwept, Swept
<1>5. CASE Reopen
  BY <1>0, <1>1, <1>5 DEF Reopen, FoundSwept, Swept
<1>6. ASSUME NEW r \in RunIds, StartRestoreRun(r)
      PROVE  FoundSwept'
  <2>1. /\ UNCHANGED <<found, delivery>>
        /\ call'.pc = "sessions" /\ mode' = "restore"
    BY <1>6 DEF StartRestoreRun, leafVars, Idle
  <2> QED
    BY <1>0, <1>1, <2>1 DEF FoundSwept, Swept, Deliverable
<1>7. CASE InvalidateAllAdminSessions
  <2>1. /\ UNCHANGED <<found, delivery, mode>>
        /\ call.pc = "sessions" /\ call'.pc = "deliveries"
    BY <1>7 DEF InvalidateAllAdminSessions, leafVars, RestoreBase, ProcedureTypes, Calls
  <2> QED
    BY <1>0, <1>1, <2>1 DEF FoundSwept, Swept, Deliverable
<1>8. ASSUME NEW s \in Serials, RestoreOneDelivery(s)
      PROVE  FoundSwept'
  <2>1. /\ UNCHANGED <<found, mode, call>>
        /\ delivery' = [delivery EXCEPT ![s] = "failed"]
        /\ secret' = secret \ {s} /\ link' = link \ {s}
        /\ RevokeLeaf(s)
    BY <1>8 DEF RestoreOneDelivery
  <2>2. s \in Revoked'
    BY <2>1, RevokeLeafRevokes DEF RestoreBase, CRLInv
  <2>3. Dead(s)'
    BY <1>0, <2>1, <2>2 DEF Dead
  <2>4. \A d \in Serials \ {s} : d \in Deliverable => d \in Deliverable'
    BY <1>0, <2>1 DEF Deliverable
  <2>5. Swept' = Swept
    BY <2>1 DEF Swept
  <2>6. ASSUME NEW d \in found
        PROVE  Dead(d)' \/ (~Swept' /\ d \in Deliverable')
    BY <1>0, <1>1, <2>3, <2>4, <2>5 DEF FoundSwept
  <2> QED
    BY <2>1, <2>6 DEF FoundSwept
<1>9. CASE InvalidateAllPublicGrants
  <2>1. Deliverable = {}
    BY <1>9, SweepDone DEF InvalidateAllPublicGrants
  <2>2. found' = found
    BY <1>9 DEF InvalidateAllPublicGrants
  <2> QED
    BY <1>0, <1>1, <2>1, <2>2 DEF FoundSwept
<1>10. CASE RestoreCRLPlan \/ FinalizeRestoreRun
  <2>1. Swept /\ found' = found
    BY <1>10 DEF RestoreCRLPlan, FinalizeRestoreRun, Swept
  <2> QED
    BY <1>0, <1>1, <2>1 DEF FoundSwept
<1>11. CASE CallStops
  <2>1. /\ UNCHANGED <<found, delivery, mode>>
        /\ mode = "restore" /\ call'.pc = "idle"
    BY <1>11 DEF CallStops, leafVars, RestoreBase, CallPlace, Idle
  <2> QED
    BY <1>0, <1>1, <2>1 DEF FoundSwept, Swept, Deliverable
<1>12. ASSUME NEW s \in Serials,
              IssueLeaf(s) \/ ConsumeDelivery(s) \/ CompleteDelivery(s) \/ FailDelivery(s)
       PROVE  InService /\ UNCHANGED <<found, mode>>
  BY <1>12 DEF IssueLeaf, ConsumeDelivery, CompleteDelivery, FailDelivery
<1>13. CASE OpenCredentials
  BY <1>2, <1>13 DEF OpenCredentials, leafVars
<1>14. CASE UNCHANGED allVars \/ CRLService \/ CRLWorker
  BY <1>2, <1>14 DEF allVars, CRLService, CRLWorker, restoreVars, leafVars
<1> QED
  BY <1>3, <1>4, <1>5, <1>6, <1>7, <1>8, <1>9, <1>10, <1>11, <1>12, <1>13, <1>14
     DEF RestoreNext, Service, FinalizeRestore

-----------------------------------------------------------------------------
(* Credentials, the plan, and the end of a restore.                        *)

\* How far a call has come with the credentials of the restored database.
CredentialsClosed ==
    /\ call.pc = "deliveries" => credential \subseteq {"publicLink"}
    /\ call.pc \in {"plan", "finalize"} \/ mode = "restored" => credential = {}

\* Outside the service nothing opens a credential.
LEMMA CredentialStep ==
    ASSUME RestoreBase, CredentialsClosed, [RestoreNext]_allVars
    PROVE  CredentialsClosed'
<1>0. /\ call.pc # "idle" => mode = "restore"
      /\ credential \subseteq {"account", "publicLink"}
      /\ call \in Calls
  BY DEF RestoreBase, CallPlace, ProcedureTypes, Credentials
<1>1. CASE UNCHANGED <<credential, call, mode>>
  BY <1>1 DEF CredentialsClosed
<1>2. CASE InService /\ UNCHANGED <<call, mode>>
  BY <1>0, <1>2 DEF InService, CredentialsClosed
<1>3. CASE StopService
  <2>1. mode = "service" /\ mode' = "restore" /\ call' = call
    BY <1>3 DEF StopService, InService
  <2> QED
    BY <1>0, <2>1 DEF CredentialsClosed
<1>4. CASE Reopen
  <2>1. mode = "restored" /\ mode' = "service" /\ call' = call
    BY <1>4 DEF Reopen
  <2> QED
    BY <1>0, <2>1 DEF CredentialsClosed
<1>5. ASSUME NEW r \in RunIds, StartRestoreRun(r)
      PROVE  CredentialsClosed'
  <2>1. call'.pc = "sessions" /\ mode' = "restore"
    BY <1>5 DEF StartRestoreRun, Idle
  <2> QED
    BY <2>1 DEF CredentialsClosed
<1>6. CASE InvalidateAllAdminSessions
  <2>1. /\ call'.pc = "deliveries" /\ mode' = mode /\ mode = "restore"
        /\ credential' = credential \ {"account"}
    BY <1>0, <1>6 DEF InvalidateAllAdminSessions, Calls
  <2> QED
    BY <1>0, <2>1 DEF CredentialsClosed
<1>7. CASE InvalidateAllPublicGrants
  <2>1. credential \subseteq {"publicLink"} /\ credential' = credential \ {"publicLink"}
    BY <1>7 DEF InvalidateAllPublicGrants, CredentialsClosed
  <2>2. call'.pc = "plan"
    BY <1>0, <1>7 DEF InvalidateAllPublicGrants, Calls
  <2> QED
    BY <2>1, <2>2 DEF CredentialsClosed
<1>8. CASE RestoreCRLPlan
  <2>1. call'.pc = "finalize" /\ credential' = credential /\ credential = {}
    BY <1>0, <1>8 DEF RestoreCRLPlan, Calls, CredentialsClosed
  <2> QED
    BY <2>1 DEF CredentialsClosed
<1>9. CASE FinalizeRestoreRun
  <2>1. call'.pc = "idle" /\ credential' = credential /\ credential = {}
    BY <1>9, FinalizeRun DEF Idle, CredentialsClosed
  <2> QED
    BY <2>1 DEF CredentialsClosed
<1>10. CASE CallStops
  <2>1. call'.pc = "idle" /\ UNCHANGED <<mode, credential>>
    BY <1>10 DEF CallStops, Idle
  <2> QED
    BY <2>1 DEF CredentialsClosed
<1>11. ASSUME NEW s \in Serials,
              IssueLeaf(s) \/ ConsumeDelivery(s) \/ CompleteDelivery(s) \/ FailDelivery(s)
       PROVE  UNCHANGED <<credential, call, mode>>
  BY <1>11 DEF IssueLeaf, ConsumeDelivery, CompleteDelivery, FailDelivery
<1>12. CASE OpenCredentials
  BY <1>2, <1>12 DEF OpenCredentials
<1>13. ASSUME NEW s \in Serials, RestoreOneDelivery(s)
       PROVE  UNCHANGED <<credential, call, mode>>
  BY <1>13 DEF RestoreOneDelivery
<1>14. CASE UNCHANGED allVars \/ CRLService \/ CRLWorker
  BY <1>1, <1>14 DEF allVars, CRLService, CRLWorker, restoreVars
<1> QED
  BY <1>1, <1>3, <1>4, <1>5, <1>6, <1>7, <1>8, <1>9, <1>10, <1>11, <1>12, <1>13, <1>14
     DEF RestoreNext, Service, FinalizeRestore

\* A plan that demands no document was right when it was made, and still is:
\* no revocation is recorded between the plan and the end of the call.
PlanCovers ==
    call.pc = "finalize" /\ ~call.plan.required =>
        signer.archived \/ crl.revGen <= crl.published.covered

\* The worker of CRLPublication only publishes.
LEMMA WorkerPublishes ==
    ASSUME CRLInv, CRLWorker
    PROVE  crl'.revGen = crl.revGen /\ signer' = signer
<1>1. CASE LeaseLapses
  BY <1>1 DEF LeaseLapses
<1>2. ASSUME NEW w \in Workers, Publish(w) \/ WorkerStops(w)
      PROVE  crl'.revGen = crl.revGen /\ signer' = signer
  <2>1. CASE FinalizePublish(w)
    BY <2>1, FinalizeEffect DEF FinalizePublish
  <2>2. CASE ReserveSnapshot(w)
    BY <2>2 DEF ReserveSnapshot, CRLInv, TypeOK, CRLStates
  <2>3. CASE ClaimDue(w) \/ PublishRefused(w) \/ WorkerStops(w)
    BY <2>3 DEF ClaimDue, PublishRefused, WorkerStops, storeVars
  <2> QED
    BY <1>2, <2>1, <2>2, <2>3 DEF Publish
<1> QED
  BY <1>1, <1>2 DEF CRLWorker

\* Every step keeps the plan of the call in progress right.
LEMMA PlanStep ==
    ASSUME RestoreBase, PlanCovers, [RestoreNext]_allVars
    PROVE  PlanCovers'
<1>0. /\ call.pc # "idle" => mode = "restore"
      /\ call \in Calls /\ TypeOK
      /\ crl.revGen \in Nat /\ crl.published.covered \in Nat
  BY PublishedTyped DEF RestoreBase, CallPlace, ProcedureTypes, CRLInv
<1>1. CASE call'.pc # "finalize"
  BY <1>1 DEF PlanCovers
<1>2. CASE UNCHANGED allVars
  BY <1>2 DEF allVars, restoreVars, vars, storeVars, PlanCovers
<1>3. CASE InService /\ call' = call
  BY <1>0, <1>1, <1>3 DEF InService
<1>4. CASE CRLWorker
  <2>1. call' = call
    BY <1>4 DEF CRLWorker, restoreVars
  <2>2. crl'.revGen = crl.revGen /\ signer' = signer
    BY <1>4, WorkerPublishes DEF RestoreBase
  <2>3. /\ crl'.published.covered >= crl.published.covered
        /\ crl'.published.covered \in Nat
    BY CRLPart DEF RestoreBase, Onward, CRLInv, TypeOK, CRLStates, Documents
  <2> QED
    BY <1>0, <2>1, <2>2, <2>3 DEF PlanCovers
<1>5. ASSUME NEW r \in RunIds, StartRestoreRun(r)
      PROVE  call'.pc # "finalize"
  BY <1>5 DEF StartRestoreRun, Idle
<1>6. CASE InvalidateAllAdminSessions \/ InvalidateAllPublicGrants
  BY <1>0, <1>1, <1>6 DEF InvalidateAllAdminSessions, InvalidateAllPublicGrants, Calls
<1>7. CASE RestoreCRLPlan
  <2>1. call.id \in RunIds /\ run[call.id].crl \in Requirements
    BY <1>7 DEF RestoreCRLPlan, RestoreBase, CallPlace, ProcedureTypes, Runs
  <2>2. /\ call'.plan = PlannedRequirement(run[call.id].crl)
        /\ UNCHANGED <<crl, signer>>
    BY <1>0, <1>7 DEF RestoreCRLPlan, Calls, vars, storeVars
  <2> QED
    BY <1>0, <2>1, <2>2, Planned DEF PlanCovers
<1>8. CASE FinalizeRestoreRun \/ CallStops
  BY <1>1, <1>8 DEF FinalizeRestoreRun, CallStops, Idle
<1>9. ASSUME NEW s \in Serials, RestoreOneDelivery(s)
      PROVE  call'.pc # "finalize"
  BY <1>9 DEF RestoreOneDelivery
<1>10. ASSUME NEW s \in Serials,
              IssueLeaf(s) \/ ConsumeDelivery(s) \/ CompleteDelivery(s) \/ FailDelivery(s)
       PROVE  InService /\ call' = call
  BY <1>10 DEF IssueLeaf, ConsumeDelivery, CompleteDelivery, FailDelivery
<1>11. CASE OpenCredentials \/ CRLService \/ StopService
  BY <1>3, <1>11 DEF OpenCredentials, CRLService, StopService, restoreVars
<1>12. CASE Reopen
  BY <1>0, <1>1, <1>12 DEF Reopen
<1> QED
  BY <1>1, <1>2, <1>4, <1>3, <1>5, <1>6, <1>7, <1>8, <1>9, <1>10, <1>11, <1>12
     DEF RestoreNext, Service, FinalizeRestore

\* A leaf found is listed once its restore is over, unless its authority was
\* archived.
FoundListed ==
    mode # "restore" =>
        \A s \in found : s \in crl.published.listed \/ signer.archived

\* A published CRL that has reached the ledger lists every revocation.
LEMMA CaughtUp ==
    ASSUME CRLInv, crl.revGen <= crl.published.covered
    PROVE  Revoked \subseteq crl.published.listed
<1>1. \A s \in Revoked : revocation[s].stamp <= crl.revGen
  BY DEF CRLInv, StorableState, Revoked
<1>2. \A s \in Revoked : revocation[s].stamp \in Nat
  BY DEF CRLInv, TypeOK, RevocationRows, Revoked
<1>3. crl.revGen \in Nat /\ crl.published.covered \in Nat
  BY PublishedTyped DEF CRLInv
<1>4. \A s \in Revoked : revocation[s].stamp <= crl.published.covered
  BY <1>1, <1>2, <1>3
<1> QED
  BY <1>4, CRLCovers DEF PublishedCoversLedger

\* An authority that is archived stays so.
LEMMA ArchivedStays ==
    ASSUME CRLInv, [RestoreNext]_allVars, signer.archived
    PROVE  signer'.archived
<1>0. signer \in [key : BOOLEAN, archived : BOOLEAN]
  BY DEF CRLInv, TypeOK
<1>1. CASE Interruption
  BY <1>1, InterruptionQuiet
<1>2. CASE ~Interruption
  <2>1. [Next]_vars
    BY <1>2, OtherStepsProject
  <2>2. CASE UNCHANGED vars
    BY <2>2 DEF vars, storeVars
  <2>3. CASE DestroyKey \/ Archive
    BY <1>0, <2>3 DEF DestroyKey, Archive
  <2>4. CASE \/ ApplyRevocations \/ RequestPublication \/ LeaseLapses
             \/ \E n \in ImportedNumbers : ImportCRL(n)
    BY <2>4 DEF ApplyRevocations, ImportCRL, RequestPublication, LeaseLapses
  <2>5. ASSUME NEW w \in Workers, Publish(w) \/ WorkerStops(w)
        PROVE  signer' = signer
    BY <2>5 DEF Publish, ClaimDue, ReserveSnapshot, FinalizePublish, PublishRefused,
                WorkerStops, storeVars
  <2> QED
    BY <2>1, <2>2, <2>3, <2>4, <2>5 DEF Next
<1> QED
  BY <1>1, <1>2

\* A restore ends with every leaf found listed, and nothing takes it back.
LEMMA ListedStep ==
    ASSUME RestoreBase, FoundSwept, PlanCovers, FoundListed, [RestoreNext]_allVars
    PROVE  FoundListed'
<1>0. /\ CRLInv /\ TypeOK
      /\ crl.published.listed \subseteq crl'.published.listed
      /\ crl.revGen \in Nat /\ crl.published.covered \in Nat
  BY CRLPart, PublishedTyped DEF RestoreBase, Onward, CRLInv
<1>1. Swept => found \subseteq Revoked
  BY DEF FoundSwept, Dead
<1>2. CASE mode' = "restore"
  BY <1>2 DEF FoundListed
<1>3. CASE mode # "restore" /\ found' = found
  <2>1. signer.archived => signer'.archived
    BY <1>0, ArchivedStays
  <2> QED
    BY <1>0, <1>3, <2>1 DEF FoundListed
<1>4. CASE FinalizeRestoreRun /\ mode' # "restore" /\ mode = "restore"
  <2>1. /\ call.pc = "finalize" /\ Completed
        /\ UNCHANGED <<found, crl, signer>>
    BY <1>4, FinalizeRun DEF FinalizeRestoreRun
  <2>2. call.plan \in Requirements
    BY DEF RestoreBase, ProcedureTypes, Calls
  <2>3. signer.archived \/ crl.revGen <= crl.published.covered
    <3>1. CASE call.plan.required
      <4>1. /\ RaiseRequirement(call.plan) \in Requirements
            /\ RaiseRequirement(call.plan).generation >= crl.revGen
        BY <1>0, <2>2, Raised
      <4>2. CRLRequirementSatisfied(RaiseRequirement(call.plan))
        BY <1>0, <2>1, <3>1, <4>1, Evidenced DEF Completed, Outcome
      <4>3. RaiseRequirement(call.plan).generation \in Nat
        BY <4>1 DEF Requirements
      <4> QED
        BY <1>0, <4>1, <4>2, <4>3 DEF CRLRequirementSatisfied
    <3>2. CASE ~call.plan.required
      BY <2>1, <3>2 DEF PlanCovers
    <3> QED
      BY <3>1, <3>2
  <2>4. found \subseteq Revoked
    BY <1>1, <2>1 DEF Swept
  <2> QED
    BY <1>0, <2>1, <2>3, <2>4, CaughtUp DEF FoundListed
<1>5. CASE UNCHANGED <<mode, found>>
  BY <1>2, <1>3, <1>5
<1>6. CASE StopService \/ Reopen \/ \E r \in RunIds : StartRestoreRun(r)
  BY <1>2, <1>3, <1>6 DEF StopService, Reopen, StartRestoreRun
<1>7. CASE FinalizeRestoreRun
  BY <1>2, <1>3, <1>4, <1>7, FinalizeRun
<1>8. ASSUME NEW s \in Serials,
             \/ IssueLeaf(s) \/ ConsumeDelivery(s) \/ CompleteDelivery(s)
             \/ FailDelivery(s) \/ RestoreOneDelivery(s)
      PROVE  UNCHANGED <<mode, found>>
  BY <1>8 DEF IssueLeaf, ConsumeDelivery, CompleteDelivery, FailDelivery,
              RestoreOneDelivery
<1>9. CASE UNCHANGED allVars \/ OpenCredentials \/ CRLService \/ CRLWorker \/ CallStops
  BY <1>5, <1>9 DEF allVars, OpenCredentials, CRLService, CRLWorker, CallStops,
                    restoreVars
<1>10. CASE InvalidateAllAdminSessions \/ InvalidateAllPublicGrants \/ RestoreCRLPlan
  BY <1>5, <1>10
     DEF InvalidateAllAdminSessions, InvalidateAllPublicGrants, RestoreCRLPlan
<1> QED
  BY <1>5, <1>6, <1>7, <1>8, <1>9, <1>10 DEF RestoreNext, Service, FinalizeRestore

-----------------------------------------------------------------------------
(* The evidence of the runs.                                               *)

\* A stored document that meets a requirement.
Meets(q, d) ==
    /\ d.number = q.satisfied
    /\ d.number >= q.number
    /\ d.covered >= q.generation

Evidence == \A r \in RunIds : run[r].crl.satisfied > 0 => \E d \in docs : Meets(run[r].crl, d)

\* Evidence is stored when it is found, and documents stay.
LEMMA EvidenceStep ==
    ASSUME RestoreBase, Evidence, [RestoreNext]_allVars
    PROVE  Evidence'
<1>0. /\ CRLInv /\ TypeOK
      /\ docs \subseteq docs'
      /\ run \in [RunIds -> Runs]
  BY CRLPart DEF RestoreBase, Onward, CRLInv, ProcedureTypes
<1>1. CASE \A r \in RunIds : run'[r].crl = run[r].crl
  BY <1>0, <1>1 DEF Evidence
<1>2. ASSUME NEW i \in RunIds, StartRestoreRun(i)
      PROVE  \A r \in RunIds : run'[r].crl = run[r].crl
  <2>1. run' = [run EXCEPT ![i] = [run[i] EXCEPT !.phase = "started"]]
    BY <1>2 DEF StartRestoreRun
  <2> QED
    BY <1>0, <2>1 DEF Runs
<1>3. CASE FinalizeRestoreRun
  <2>1. /\ call.pc = "finalize" /\ call.id \in RunIds /\ call.plan \in Requirements
        /\ UNCHANGED <<crl, docs>>
    BY <1>3 DEF FinalizeRestoreRun, RestoreBase, CallPlace, ProcedureTypes, Calls
  <2> DEFINE q == RaiseRequirement(call.plan)
  <2>2. q \in Requirements
    BY <1>0, <2>1, Raised
  <2>3. /\ run'[call.id].crl = IF call.plan.required THEN WithEvidence(q) ELSE run[call.id].crl
        /\ \A r \in RunIds \ {call.id} : run'[r] = run[r]
    BY <1>0, <1>3, <2>1, FinalizeRun DEF Outcome
  <2>4. ASSUME WithEvidence(q).satisfied > 0
        PROVE  \E d \in docs : Meets(WithEvidence(q), d)
    <3>1. /\ WithEvidence(q).satisfied = crl.published.number
          /\ CRLRequirementSatisfied(q)
          /\ WithEvidence(q).generation = q.generation
          /\ WithEvidence(q).number = q.number
      BY <1>0, <2>2, <2>4, Evidenced
    <3>2. crl.published \in docs
      BY <1>0, <2>4, <3>1 DEF CRLInv, StorableState, NoDocument
    <3> QED
      BY <3>1, <3>2 DEF Meets, CRLRequirementSatisfied
  <2> HIDE DEF q
  <2>5. ASSUME NEW r \in RunIds, run'[r].crl.satisfied > 0
        PROVE  \E d \in docs' : Meets(run'[r].crl, d)
    <3>1. CASE r = call.id /\ call.plan.required
      <4>1. run'[r].crl = WithEvidence(q)
        BY <2>3, <3>1
      <4> QED
        BY <2>1, <2>4, <2>5, <4>1
    <3>2. CASE ~(r = call.id /\ call.plan.required)
      <4>1. run'[r].crl = run[r].crl
        BY <2>3, <3>2
      <4> QED
        BY <2>1, <2>5, <4>1 DEF Evidence
    <3> QED
      BY <3>1, <3>2
  <2> QED
    BY <2>5 DEF Evidence, Meets
<1>4. ASSUME NEW s \in Serials,
             \/ IssueLeaf(s) \/ ConsumeDelivery(s) \/ CompleteDelivery(s)
             \/ FailDelivery(s) \/ RestoreOneDelivery(s)
      PROVE  run' = run
  BY <1>4 DEF IssueLeaf, ConsumeDelivery, CompleteDelivery, FailDelivery,
              RestoreOneDelivery
<1>5. CASE UNCHANGED allVars \/ OpenCredentials \/ CRLService \/ CRLWorker \/ CallStops
           \/ StopService \/ Reopen
  BY <1>1, <1>5 DEF allVars, OpenCredentials, CRLService, CRLWorker, CallStops,
                    StopService, Reopen, restoreVars
<1>6. CASE InvalidateAllAdminSessions \/ InvalidateAllPublicGrants \/ RestoreCRLPlan
  BY <1>1, <1>6
     DEF InvalidateAllAdminSessions, InvalidateAllPublicGrants, RestoreCRLPlan
<1> QED
  BY <1>1, <1>2, <1>3, <1>4, <1>5, <1>6 DEF RestoreNext, Service, FinalizeRestore

-----------------------------------------------------------------------------
(* The theorems.                                                           *)

RestoreInv ==
    /\ RestoreBase
    /\ FoundSwept
    /\ CredentialsClosed
    /\ PlanCovers
    /\ FoundListed
    /\ Evidence

\* The empty database satisfies the invariant.
LEMMA RestoreInitial == RestoreInit => RestoreInv
<1>1. SUFFICES ASSUME RestoreInit PROVE RestoreInv
  OBVIOUS
<1>2. CRLInv
  BY <1>1, CRLInit DEF RestoreInit
<1>3. BlankRows
  BY <1>1 DEF RestoreInit, Init, NotRevoked, BlankRows
<1>4. LeafTypes /\ ProcedureTypes /\ CallPlace
  BY <1>1, RowsOfRunsTyped
     DEF RestoreInit, LeafTypes, ProcedureTypes, CallPlace, Credentials, Idle
<1>5. FoundSwept /\ CredentialsClosed /\ PlanCovers /\ FoundListed
  BY <1>1 DEF RestoreInit, Idle, FoundSwept, CredentialsClosed, PlanCovers, FoundListed
<1>6. Evidence
  BY <1>1 DEF RestoreInit, NoRunRow, NoRequirement, Evidence
<1> QED
  BY <1>2, <1>3, <1>4, <1>5, <1>6 DEF RestoreInv, RestoreBase

\* Every step keeps it.
LEMMA RestoreStep == RestoreInv /\ [RestoreNext]_allVars => RestoreInv'
<1>1. SUFFICES ASSUME RestoreInv, [RestoreNext]_allVars PROVE RestoreInv'
  OBVIOUS
<1>2. RestoreBase /\ CRLInv /\ TypeOK
  BY <1>1 DEF RestoreInv, RestoreBase, CRLInv
<1>3. LeafTypes'
  BY <1>1, <1>2, LeafTypeStep DEF RestoreBase
<1>4. ProcedureTypes' /\ CallPlace'
  BY <1>1, <1>2, ProcedureStep DEF RestoreBase
<1>5. CRLInv'
  BY <1>1, <1>2, CRLPart
<1>6. BlankRows'
  BY <1>1, <1>2, BlankStep DEF RestoreBase
<1>7. FoundSwept'
  BY <1>1, <1>2, FoundStep DEF RestoreInv
<1>8. CredentialsClosed'
  BY <1>1, <1>2, CredentialStep DEF RestoreInv
<1>9. PlanCovers'
  BY <1>1, <1>2, PlanStep DEF RestoreInv
<1>10. FoundListed'
  BY <1>1, <1>2, ListedStep DEF RestoreInv
<1>11. Evidence'
  BY <1>1, <1>2, EvidenceStep DEF RestoreInv
<1> QED
  BY <1>3, <1>4, <1>5, <1>6, <1>7, <1>8, <1>9, <1>10, <1>11 DEF RestoreInv, RestoreBase

\* The inductive invariant holds in every reachable state, for any leaves,
\* workers and run ids.
THEOREM RestoreInvariant == RestoreSpec => []RestoreInv
BY RestoreInitial, RestoreStep, PTL DEF RestoreSpec

\* Every variable keeps its type.
THEOREM RestoreTypeCorrect == RestoreSpec => []RestoreTypeOK
<1>1. RestoreInv => RestoreTypeOK
  BY DEF RestoreInv, RestoreBase, LeafTypes, ProcedureTypes, CRLInv, RestoreTypeOK
<1> QED
  BY <1>1, RestoreInvariant, PTL

\* A finished restore leaves no key of the restored database usable and no
\* credential of it open, however often FinalizeRestore was interrupted and
\* called again, and whatever the worker published in between.
THEOREM FinishedRestoreIsSafeCorrect == RestoreSpec => []FinishedRestoreIsSafe
<1>1. RestoreInv => FinishedRestoreIsSafe
  BY DEF RestoreInv, FoundSwept, Swept, Dead, FoundListed, CredentialsClosed,
         FinishedRestoreIsSafe
<1> QED
  BY <1>1, RestoreInvariant, PTL

\* The document a run names as the evidence of its CRL requirement is stored
\* and lists every revocation the requirement is about.
THEOREM EvidenceHoldsCorrect == RestoreSpec => []EvidenceHolds
<1>1. ASSUME RestoreInv
      PROVE  EvidenceHolds
  <2>1. SUFFICES ASSUME NEW r \in RunIds, run[r].crl.satisfied > 0
                 PROVE  \E d \in docs :
                          /\ d.number = run[r].crl.satisfied
                          /\ d.number >= run[r].crl.number
                          /\ d.covered >= run[r].crl.generation
                          /\ \A s \in Revoked :
                               revocation[s].stamp <= run[r].crl.generation
                                 => s \in d.listed
    BY DEF EvidenceHolds
  <2>2. PICK d \in docs : Meets(run[r].crl, d)
    BY <1>1, <2>1 DEF RestoreInv, Evidence
  <2>3. d \in Issued /\ IssuedWithinLedger /\ TypeOK
    BY <1>1, IssuedMember DEF RestoreInv, RestoreBase, CRLInv
  <2>4. run[r].crl.generation \in Nat /\ d.covered \in Nat
    BY <1>1, <2>3 DEF RestoreInv, RestoreBase, ProcedureTypes, Runs, Requirements,
                      TypeOK, Documents
  <2>5. ASSUME NEW s \in Revoked, revocation[s].stamp <= run[r].crl.generation
        PROVE  s \in d.listed
    <3>1. revocation[s].stamp \in Nat
      BY <2>3 DEF TypeOK, RevocationRows, Revoked
    <3>2. revocation[s].stamp <= d.covered
      BY <2>2, <2>4, <2>5, <3>1 DEF Meets
    <3> QED
      BY <2>3, <3>2 DEF IssuedWithinLedger
  <2> QED
    BY <2>2, <2>5 DEF Meets
<1>2. RestoreInv => EvidenceHolds
  BY <1>1
<1> QED
  BY <1>2, RestoreInvariant, PTL

\* The CRL a reader gets while databases are restored and restores are called,
\* stopped and called again is still that of the promised list.
THEOREM RestoreImplementsList == RestoreSpec => ImplementsRevocationList
<1>1. RestoreInit => CRLInv /\ List!ListInit
  BY CRLInit, ListInitial DEF RestoreInit
<1>2. CRLInv /\ [RestoreNext]_allVars => CRLInv'
  BY CRLPart
<1>3. CRLInv /\ [RestoreNext]_allVars => ListStep
  <2> SUFFICES ASSUME CRLInv, [RestoreNext]_allVars PROVE ListStep
    OBVIOUS
  <2>1. CASE Interruption
    BY <2>1, InterruptionQuiet DEF ListStep, ListQuiet, CanSignCRL
  <2>2. CASE ~Interruption
    BY <2>2, OtherStepsProject, ListStepStep
  <2> QED
    BY <2>1, <2>2
<1>4. CRLInv /\ [RestoreNext]_allVars => [List!ListNext]_(List!listVars)
  BY <1>3, ListStepMaps
<1> QED
  BY <1>1, <1>2, <1>4, PTL DEF RestoreSpec, ImplementsRevocationList, List!ListSpec
=============================================================================
