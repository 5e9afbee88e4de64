------------------------------- MODULE TLSProofs -------------------------------
(***************************************************************************)
(* TLSActivation, proved for every set of versions and for both            *)
(* repositories.                                                           *)
(***************************************************************************)
EXTENDS TLSActivation, TLAPS

\* A row that was never saved says nothing, and the active version's change was
\* committed and not rolled back.
RowFacts ==
    /\ \A v \in Versions : change[v].version = 0 => change[v].phase = "none"
    /\ Pointer # None =>
          change[Pointer].phase \in {"committed", "applied", "recovery_required"}

\* The call that holds TLSService.mu works on the active version; what it stored
\* is stored, what it has not swapped is not served.
CallFacts ==
    call.pc # "idle" =>
        /\ call.version \in Versions
        /\ Pointer = call.version
        /\ call.row.phase = "committed"
        /\ call.row.version = 2
        /\ call.pc \in {"committed", "rollback", "record"} =>
            /\ process \in {"starting", "open"}
            /\ change[call.version] = call.row
        /\ call.pc \in {"committed", "rollback"} => served \in {None, call.row.previous}
        /\ call.pc = "record" => served = call.version
        /\ call.pc = "mark" =>
            /\ process = "closed"
            /\ change[call.version] = call.row \/ change[call.version].version # 2

\* A process that is down has no call and serves nothing.
DownFacts == process = "down" => call.pc = "idle" /\ served = None

TLSInv ==
    /\ TypeOK
    /\ RowFacts
    /\ CallFacts
    /\ DownFacts
    /\ UnresolvedIsActive
    /\ ResolvedWhileOpen
    /\ ServedIsRecorded
    /\ RecoveryKeysKept

-----------------------------------------------------------------------------
(* Rows.                                                                   *)

\* The rows the code builds are rows.
LEMMA RowTypes ==
    /\ NoChange \in ChangeRows /\ NoCall \in CallRows /\ NoCall.pc = "idle"
    /\ \A u \in Versions \cup {None} :
        /\ Commit(u) \in ChangeRows
        /\ Commit(u).phase = "committed"
        /\ Commit(u).version = 2
        /\ Commit(u).previous = u
    /\ \A row \in ChangeRows, phase \in Phases :
        /\ Moved(row, phase) \in ChangeRows
        /\ Moved(row, phase).phase = phase
        /\ Moved(row, phase).version = row.version + 1
        /\ Moved(row, phase).previous = row.previous
<1>1. NoChange \in ChangeRows
  BY DEF NoChange, ChangeRows, Phases
<1>2. NoCall \in CallRows /\ NoCall.pc = "idle"
  BY <1>1 DEF NoCall, CallRows
<1>3. ASSUME NEW u \in Versions \cup {None}
      PROVE  /\ Commit(u) \in ChangeRows
             /\ Commit(u).phase = "committed"
             /\ Commit(u).version = 2
             /\ Commit(u).previous = u
  BY DEF Commit, ChangeRows, Phases
<1>4. ASSUME NEW row \in ChangeRows, NEW phase \in Phases
      PROVE  /\ Moved(row, phase) \in ChangeRows
             /\ Moved(row, phase).phase = phase
             /\ Moved(row, phase).version = row.version + 1
             /\ Moved(row, phase).previous = row.previous
  <2>1. PICK n \in Nat : n = row.version + 1
    BY DEF ChangeRows
  <2>2. Moved(row, phase) = [row EXCEPT !.phase = phase, !.version = n]
    BY <2>1 DEF Moved
  <2> QED BY <2>1, <2>2 DEF ChangeRows
<1> QED BY <1>1, <1>2, <1>3, <1>4

\* What a saved row leaves.
LEMMA Saved ==
    ASSUME change \in [Versions -> ChangeRows], NEW v \in Versions,
           NEW row \in ChangeRows, NEW expected, SaveChange(v, row, expected)
    PROVE  /\ change' \in [Versions -> ChangeRows]
           /\ change[v].version = expected
           /\ change'[v] = row
           /\ \A u \in Versions \ {v} : change'[u] = change[u]
BY DEF SaveChange, SaveAccepted

\* What the installation row points at after SetActive.
LEMMA Activated ==
    ASSUME TypeOK, NEW v \in Versions \cup {None}, NEW expected,
           SetActive(v, expected)
    PROVE  /\ Pointer' = v
           /\ installation' \in [pointer : Versions \cup {None}, version : Nat]
BY DEF SetActive, TypeOK, Pointer

\* Bootstrap keys go; the key of the version in use stays.
LEMMA Retired ==
    ASSUME TypeOK, NEW v \in Versions, DeleteBootstrapSecrets(v)
    PROVE  /\ keys' \subseteq Versions /\ rootKeys' \subseteq Bootstraps
           /\ v \in keys => v \in keys'
BY DEF DeleteBootstrapSecrets, TypeOK, Versions

-----------------------------------------------------------------------------
(* Beside the calls.                                                       *)

\* Candidates come, validation facts change and the installation row is written
\* for other reasons; nothing that is decided is touched.
LEMMA BesideStep ==
    ASSUME TLSInv,
           \/ \E v \in Candidates : AddCandidate(v)
           \/ \E v \in Versions : FactsChange(v)
           \/ InstallationSaved
    PROVE  TLSInv'
<1>1. /\ UNCHANGED <<repository, rootKeys, change, process, served, call>>
      /\ keys \subseteq keys' /\ keys' \subseteq Versions
      /\ versions' \subseteq Versions /\ valid' \subseteq Versions
      /\ installation' \in [pointer : Versions \cup {None}, version : Nat]
      /\ Pointer' = Pointer
  BY DEF AddCandidate, FactsChange, InstallationSaved, tlsVars, TLSInv, TypeOK,
         Versions, Pointer
<1>2. TypeOK'
  BY <1>1 DEF TLSInv, TypeOK
<1> QED
  BY <1>1, <1>2
     DEF TLSInv, RowFacts, CallFacts, DownFacts, UnresolvedIsActive, Unresolved,
         ResolvedWhileOpen, ServedIsRecorded, RecoveryKeysKept

\* The process starts or ends.
LEMMA LifeStep ==
    ASSUME TLSInv, Start \/ Crash \/ Terminate \/ ReconcileNoop \/ ReconcileRefused
    PROVE  TLSInv'
<1>1. UNCHANGED <<tlsVars, valid>>
  BY DEF Start, Crash, Terminate, ReconcileNoop, ReconcileRefused, Halt
<1>2. /\ process' \in {"down", "starting", "open", "closed"}
      /\ served' \in Versions \cup {None} /\ call' \in CallRows
      /\ call'.pc = "idle"
  BY RowTypes
     DEF Start, Crash, Terminate, ReconcileNoop, ReconcileRefused, Halt, FailClosed,
         TLSInv, TypeOK, DownFacts
<1>3. TypeOK'
  BY <1>1, <1>2 DEF TLSInv, TypeOK, tlsVars
<1>4. RowFacts' /\ CallFacts' /\ UnresolvedIsActive' /\ RecoveryKeysKept'
  BY <1>1, <1>2 DEF TLSInv, RowFacts, CallFacts, UnresolvedIsActive, RecoveryKeysKept,
     Unresolved, Pointer, tlsVars
<1>5. DownFacts'
  BY <1>2
     DEF Start, Crash, Terminate, ReconcileNoop, ReconcileRefused, Halt, FailClosed,
         DownFacts
<1>6. ResolvedWhileOpen'
  BY <1>1
     DEF Start, Crash, Terminate, ReconcileNoop, ReconcileRefused, Halt, FailClosed,
         ReconcileIdle, ResolvedWhileOpen, Pointer, tlsVars
<1>7. ServedIsRecorded'
  BY <1>1
     DEF Start, Crash, Terminate, ReconcileNoop, ReconcileRefused, Halt, FailClosed,
         TLSInv, DownFacts, ServedIsRecorded, Pointer, tlsVars
<1> QED BY <1>3, <1>4, <1>5, <1>6, <1>7 DEF TLSInv

-----------------------------------------------------------------------------
(* A call.                                                                 *)

\* The stored decision of Activate or Bootstrap: what was active was decided, so
\* it can be fallen back to, and the new version is new.
LEMMA Deciding ==
    ASSUME TLSInv, call.pc = "idle", NEW v \in Versions, CommitStored(v)
    PROVE  /\ Pointer' = v /\ v \in keys'
           /\ change'[v] = Commit(PreviousVersion)
           /\ PreviousVersion = Pointer
           /\ Pointer # None => change[Pointer].phase = "applied"
           /\ v # Pointer
           /\ keys \subseteq keys'
           /\ change[v].phase = "none"
           /\ \A u \in Versions \ {v} : change'[u] = change[u]
           /\ change' \in [Versions -> ChangeRows]
           /\ keys' \subseteq Versions /\ rootKeys' \subseteq Bootstraps
           /\ versions' \subseteq Versions
           /\ installation' \in [pointer : Versions \cup {None}, version : Nat]
<1>1. Pointer \in Versions \cup {None}
  BY DEF TLSInv, TypeOK, Pointer
<1>2. Pointer # None => change[Pointer].phase = "applied"
  <2>1. CASE process = "open"
    BY <2>1 DEF TLSInv, ResolvedWhileOpen
  <2>2. CASE process # "open"
    BY <2>2 DEF CommitStored, BootstrapStored, BootstrapAllowed
  <2> QED BY <2>1, <2>2
<1>3. PreviousVersion = Pointer
  BY <1>2 DEF CommitStored, ActivationStored, ActivationAllowed, BootstrapStored,
     BootstrapAllowed, PreviousVersion, ActiveRead
<1>4. PICK row \in ChangeRows : row = Commit(PreviousVersion)
  BY <1>1, <1>3, RowTypes
<1>5. SaveChange(v, row, 0) /\ SetActive(v, installation.version)
  BY <1>4 DEF CommitStored, ActivationStored, BootstrapStored
<1>6. /\ change' \in [Versions -> ChangeRows]
      /\ change[v].version = 0 /\ change'[v] = row
      /\ \A u \in Versions \ {v} : change'[u] = change[u]
  BY <1>5, Saved DEF TLSInv, TypeOK
<1>7. change[v].phase = "none"
  BY <1>6 DEF TLSInv, RowFacts
<1>8. /\ keys \subseteq keys' /\ keys' \subseteq Versions
      /\ rootKeys' \subseteq Bootstraps /\ versions' \subseteq Versions
      /\ v \in keys'
  BY DEF CommitStored, ActivationStored, BootstrapStored, TLSInv, TypeOK
<1>9. /\ Pointer' = v
      /\ installation' \in [pointer : Versions \cup {None}, version : Nat]
  BY <1>5, Activated DEF TLSInv
<1>10. v # Pointer
  BY <1>2, <1>7, TLSConstants
<1> QED BY <1>2, <1>3, <1>4, <1>6, <1>7, <1>8, <1>9, <1>10

\* The decision is stored, with its outcome known or not.
LEMMA CommitStep ==
    ASSUME TLSInv, NEW v \in Versions, CommitChange(v) \/ CommitUnknown(v)
    PROVE  TLSInv'
<1>1. call.pc = "idle" /\ CommitStored(v) /\ UNCHANGED <<repository, valid, served>>
  BY DEF CommitChange, CommitUnknown, CommitStored, ActivationStored, BootstrapStored
<1>2. PICK p \in Versions \cup {None}, row \in ChangeRows :
        /\ p = Pointer
        /\ row = Commit(p)
        /\ row.phase = "committed" /\ row.version = 2 /\ row.previous = p
  BY RowTypes DEF TLSInv, TypeOK, Pointer
<1>3. /\ Pointer' = v /\ v \in keys'
      /\ change'[v] = row
      /\ p # None => change[p].phase = "applied"
      /\ v # p
      /\ keys \subseteq keys'
      /\ change[v].phase = "none"
      /\ \A u \in Versions \ {v} : change'[u] = change[u]
      /\ change' \in [Versions -> ChangeRows]
      /\ keys' \subseteq Versions /\ rootKeys' \subseteq Bootstraps
      /\ versions' \subseteq Versions
      /\ installation' \in [pointer : Versions \cup {None}, version : Nat]
      /\ PreviousVersion = p
  BY <1>1, <1>2, Deciding
<1>4. None \notin Versions
  BY TLSConstants
<1>5. \/ /\ call' = [pc |-> "committed", version |-> v, row |-> row,
                     installation |-> installation.version + 1]
         /\ process' = process /\ process \in {"starting", "open"}
      \/ call' = call /\ process' = "closed"
  BY <1>1, <1>2, <1>3
     DEF CommitChange, CommitUnknown, Begin, FailClosed, CommitStored
<1>6. TypeOK'
  <2>1. installation.version + 1 \in Nat
    BY DEF TLSInv, TypeOK
  <2>2. call' \in CallRows
    BY <1>5, <2>1 DEF CallRows, TLSInv, TypeOK
  <2> QED BY <1>1, <1>3, <1>5, <2>2 DEF TLSInv, TypeOK
<1>7. RowFacts'
  BY <1>2, <1>3 DEF TLSInv, RowFacts
<1>8. CallFacts'
  <2>1. CASE call' = call
    BY <1>1, <2>1 DEF CallFacts
  <2>2. CASE call' # call
    <3>1. served \in {None, p}
      BY <1>1, <1>2, <1>5, <2>2 DEF TLSInv, ServedIsRecorded
    <3> QED BY <1>1, <1>2, <1>3, <1>5, <2>2, <3>1 DEF CallFacts
  <2> QED BY <2>1, <2>2
<1>9. DownFacts'
  BY <1>5 DEF DownFacts
<1>10. UnresolvedIsActive'
  <2>1. \A u \in Versions : Unresolved(u) => u = p
    BY <1>2 DEF TLSInv, UnresolvedIsActive
  <2>2. \A u \in Versions : ~Unresolved(u)
    BY <1>3, <1>4, <2>1 DEF Unresolved
  <2> QED BY <1>3, <2>2 DEF UnresolvedIsActive, Unresolved
<1>11. ResolvedWhileOpen' /\ ServedIsRecorded'
  BY <1>5 DEF ResolvedWhileOpen, ServedIsRecorded
<1>12. RecoveryKeysKept'
  <2>1. p # None => p \in keys
    BY <1>2 DEF TLSInv, RecoveryKeysKept
  <2> QED BY <1>2, <1>3, <2>1 DEF RecoveryKeysKept
<1> QED BY <1>6, <1>7, <1>8, <1>9, <1>10, <1>11, <1>12 DEF TLSInv

\* The listener's certificate is swapped, or is not.
LEMMA InstallerStep ==
    ASSUME TLSInv, InstallerApplies \/ InstallerFails
    PROVE  TLSInv'
<1>1. /\ UNCHANGED <<tlsVars, valid, process>>
      /\ call.pc = "committed"
      /\ \/ call' = [call EXCEPT !.pc = "record"] /\ served' = call.version
         \/ call' = [call EXCEPT !.pc = "rollback"] /\ served' = served
  BY DEF InstallerApplies, InstallerFails
<1>2. /\ call' \in CallRows
      /\ call'.version = call.version /\ call'.row = call.row
      /\ \/ call'.pc = "record" /\ served' = call.version
         \/ call'.pc = "rollback" /\ served' = served
  BY <1>1 DEF TLSInv, TypeOK, CallRows
<1>3. TypeOK'
  BY <1>1, <1>2 DEF TLSInv, TypeOK, tlsVars, CallFacts
<1>4. CallFacts' /\ DownFacts' /\ ResolvedWhileOpen' /\ ServedIsRecorded'
  BY <1>1, <1>2 DEF TLSInv, CallFacts, DownFacts, ResolvedWhileOpen, ServedIsRecorded,
     tlsVars, Pointer
<1>5. RowFacts' /\ UnresolvedIsActive' /\ RecoveryKeysKept'
  BY <1>1 DEF TLSInv, RowFacts, UnresolvedIsActive, RecoveryKeysKept, Unresolved,
     Pointer, tlsVars
<1> QED BY <1>3, <1>4, <1>5 DEF TLSInv

\* The decision is taken back: the version it replaced is active again, and it is
\* what the listener serves.
LEMMA RollingBack ==
    ASSUME TLSInv, call.pc = "rollback", RollbackStored
    PROVE  /\ change' \in [Versions -> ChangeRows]
           /\ installation' \in [pointer : Versions \cup {None}, version : Nat]
           /\ Pointer' = call.row.previous
           /\ UNCHANGED <<repository, versions, keys, rootKeys>>
           /\ change'[call.version].phase = "rolled_back"
           /\ change'[call.version].version = 3
           /\ \A u \in Versions \ {call.version} : change'[u] = change[u]
           /\ Pointer' # None => /\ change'[Pointer'].phase = "applied"
                                 /\ Pointer' \in keys
           /\ served \in {None, Pointer'}
<1>1. PICK v \in Versions, r \in ChangeRows, p \in Versions \cup {None} :
        /\ v = call.version /\ r = call.row /\ p = call.row.previous
        /\ v = Pointer
        /\ r.phase = "committed" /\ r.version = 2 /\ change[v] = r
        /\ served \in {None, p}
  BY DEF TLSInv, CallFacts, TypeOK, CallRows, ChangeRows
<1>2. PICK row \in ChangeRows :
        row = Moved(r, "rolled_back") /\ row.phase = "rolled_back" /\ row.version = 3
  <2>1. "rolled_back" \in Phases
    BY DEF Phases
  <2> QED BY <1>1, <2>1, RowTypes
<1>3. SaveChange(v, row, 2)
  BY <1>1, <1>2 DEF RollbackStored
<1>4. /\ change' \in [Versions -> ChangeRows] /\ change'[v] = row
      /\ \A u \in Versions \ {v} : change'[u] = change[u]
  BY <1>3, Saved DEF TLSInv, TypeOK
<1>5. /\ Pointer' = p
      /\ installation' \in [pointer : Versions \cup {None}, version : Nat]
  BY <1>1, Activated DEF RollbackStored, TLSInv
<1>6. p # None => p \in keys /\ change[p].phase = "applied"
  BY <1>1, TLSConstants DEF TLSInv, RecoveryKeysKept, Unresolved
<1>7. p # v
  BY <1>1, <1>6, TLSConstants
<1>8. p # None => change'[p].phase = "applied"
  BY <1>4, <1>6, <1>7
<1> QED BY <1>1, <1>2, <1>4, <1>5, <1>6, <1>8 DEF RollbackStored

\* rollbackActivation succeeds, or it does not and the process closes.
LEMMA RollbackStep ==
    ASSUME TLSInv, RollbackActivation \/ RollbackUnresolved
    PROVE  TLSInv'
<1>1. /\ call.pc = "rollback" /\ call' = NoCall
      /\ UNCHANGED <<valid, served>>
      /\ \/ RollbackStored /\ process' = process
         \/ RollbackStored /\ process' = "closed"
         \/ UNCHANGED tlsVars /\ process' = "closed"
  BY DEF RollbackActivation, RollbackUnresolved, FailClosed
<1>2. process \in {"starting", "open"}
  BY <1>1 DEF TLSInv, CallFacts
<1>3. CallFacts' /\ DownFacts'
  BY <1>1, <1>2, RowTypes DEF CallFacts, DownFacts
<1>4. CASE RollbackStored
  <2>1. PICK v \in Versions, p \in Versions \cup {None} :
            /\ v = call.version /\ v = Pointer /\ p = Pointer'
            /\ change' \in [Versions -> ChangeRows]
            /\ installation' \in [pointer : Versions \cup {None}, version : Nat]
            /\ UNCHANGED <<repository, versions, keys, rootKeys>>
            /\ change'[v].phase = "rolled_back" /\ change'[v].version = 3
            /\ \A u \in Versions \ {v} : change'[u] = change[u]
            /\ p # None => change'[p].phase = "applied" /\ p \in keys
            /\ served \in {None, p}
    BY <1>1, <1>4, RollingBack DEF TLSInv, CallFacts, TypeOK, CallRows, ChangeRows
  <2>2. TypeOK'
    BY <1>1, <1>2, <2>1, RowTypes DEF TLSInv, TypeOK
  <2>3. RowFacts' /\ UnresolvedIsActive'
    BY <2>1 DEF TLSInv, RowFacts, UnresolvedIsActive, Unresolved
  <2>4. ResolvedWhileOpen' /\ ServedIsRecorded' /\ RecoveryKeysKept'
    BY <1>1, <2>1 DEF ResolvedWhileOpen, ServedIsRecorded, RecoveryKeysKept, Unresolved
  <2> QED BY <1>3, <2>2, <2>3, <2>4 DEF TLSInv
<1>5. CASE UNCHANGED tlsVars /\ process' = "closed"
  <2>1. TypeOK'
    BY <1>1, <1>5, RowTypes DEF TLSInv, TypeOK, tlsVars
  <2>2. RowFacts' /\ UnresolvedIsActive' /\ RecoveryKeysKept'
    BY <1>5 DEF TLSInv, RowFacts, UnresolvedIsActive, RecoveryKeysKept, Unresolved,
       Pointer, tlsVars
  <2>3. ResolvedWhileOpen' /\ ServedIsRecorded'
    BY <1>5 DEF ResolvedWhileOpen, ServedIsRecorded
  <2> QED BY <1>3, <2>1, <2>2, <2>3 DEF TLSInv
<1> QED BY <1>1, <1>4, <1>5

\* The applied change is recorded and bootstrap keys go.
LEMMA Recording ==
    ASSUME TLSInv, call.pc = "record", AppliedStored
    PROVE  /\ change' \in [Versions -> ChangeRows]
           /\ keys' \subseteq Versions /\ rootKeys' \subseteq Bootstraps
           /\ UNCHANGED <<repository, versions, installation>>
           /\ change'[Pointer].phase = "applied" /\ change'[Pointer].version = 3
           /\ \A u \in Versions \ {Pointer} : change'[u] = change[u]
           /\ Pointer \in keys'
<1>1. PICK v \in Versions, r \in ChangeRows :
        /\ v = call.version /\ r = call.row /\ v = Pointer
        /\ r.version = 2 /\ change[v] = r
  BY DEF TLSInv, CallFacts, TypeOK, CallRows
<1>2. PICK row \in ChangeRows :
        row = Moved(r, "applied") /\ row.phase = "applied" /\ row.version = 3
  <2>1. "applied" \in Phases
    BY DEF Phases
  <2> QED BY <1>1, <2>1, RowTypes
<1>3. SaveChange(v, row, 2) /\ DeleteBootstrapSecrets(v)
  BY <1>1, <1>2 DEF AppliedStored
<1>4. /\ change' \in [Versions -> ChangeRows] /\ change'[v] = row
      /\ \A u \in Versions \ {v} : change'[u] = change[u]
  BY <1>3, Saved DEF TLSInv, TypeOK
<1>5. v \in keys
  BY <1>1, TLSConstants DEF TLSInv, RecoveryKeysKept
<1> QED BY <1>1, <1>2, <1>3, <1>4, <1>5, Retired DEF TLSInv, AppliedStored

\* The state after the change was recorded, whether the caller learns it or not.
LEMMA RecordedFacts ==
    ASSUME TLSInv, call.pc = "record", AppliedStored, UNCHANGED served
    PROVE  /\ RowFacts' /\ UnresolvedIsActive' /\ RecoveryKeysKept'
           /\ ResolvedWhileOpen' /\ ServedIsRecorded'
<1>1. PICK v \in Versions : v = call.version /\ v = Pointer /\ served = v
  BY DEF TLSInv, CallFacts
<1>2. /\ Pointer' = v
      /\ change'[v].phase = "applied" /\ change'[v].version = 3
      /\ \A u \in Versions \ {v} : change'[u] = change[u]
      /\ v \in keys'
  BY <1>1, Recording DEF Pointer
<1>3. RowFacts' /\ UnresolvedIsActive'
  BY <1>1, <1>2 DEF TLSInv, RowFacts, UnresolvedIsActive, Unresolved
<1>4. RecoveryKeysKept' /\ ResolvedWhileOpen' /\ ServedIsRecorded'
  BY <1>1, <1>2 DEF RecoveryKeysKept, ResolvedWhileOpen, ServedIsRecorded, Unresolved
<1> QED BY <1>3, <1>4

\* The applied change is recorded, or the process closes and marks it.
LEMMA RecordStep ==
    ASSUME TLSInv, RecordApplied \/ RecordUnresolved
    PROVE  TLSInv'
<1>1. /\ call.pc = "record" /\ UNCHANGED <<valid, served>>
      /\ \/ AppliedStored /\ call' = NoCall /\ process' = process
         \/ /\ AppliedStored \/ UNCHANGED tlsVars
            /\ call' = [call EXCEPT !.pc = "mark"]
            /\ process' = "closed"
  BY DEF RecordApplied, RecordUnresolved, FailClosed
<1>2. /\ call' \in CallRows
      /\ \/ call'.pc = "idle"
         \/ /\ call'.pc = "mark" /\ process' = "closed"
            /\ call'.version = call.version /\ call'.row = call.row
      /\ process' \in {"starting", "open", "closed"}
  BY <1>1, RowTypes DEF TLSInv, TypeOK, CallRows, CallFacts
<1>3. PICK v \in Versions : v = call.version /\ v = Pointer
  BY <1>1 DEF TLSInv, CallFacts
<1>4. DownFacts'
  BY <1>2 DEF DownFacts
<1>5. CASE AppliedStored
  <2>1. TypeOK'
    BY <1>1, <1>2, <1>5, Recording DEF TLSInv, TypeOK
  <2>2. CallFacts'
    <3>1. Pointer' = v /\ change'[v].version = 3
      BY <1>1, <1>3, <1>5, Recording DEF Pointer
    <3> QED BY <1>1, <1>2, <1>3, <3>1 DEF TLSInv, CallFacts
  <2> QED BY <1>1, <1>4, <1>5, <2>1, <2>2, RecordedFacts DEF TLSInv
<1>6. CASE UNCHANGED tlsVars /\ process' = "closed" /\ call'.pc = "mark"
  <2>1. TypeOK'
    BY <1>1, <1>2, <1>6 DEF TLSInv, TypeOK, tlsVars
  <2>2. RowFacts' /\ UnresolvedIsActive' /\ RecoveryKeysKept'
    BY <1>6 DEF TLSInv, RowFacts, UnresolvedIsActive, RecoveryKeysKept, Unresolved,
       Pointer, tlsVars
  <2>3. ResolvedWhileOpen' /\ ServedIsRecorded'
    BY <1>6 DEF ResolvedWhileOpen, ServedIsRecorded
  <2>4. CallFacts'
    BY <1>1, <1>2, <1>6 DEF TLSInv, CallFacts, Pointer, tlsVars
  <2> QED BY <1>4, <2>1, <2>2, <2>3, <2>4 DEF TLSInv
<1>7. AppliedStored \/ (UNCHANGED tlsVars /\ process' = "closed" /\ call'.pc = "mark")
  BY <1>1, <1>2, RowTypes DEF TLSInv, TypeOK, CallRows
<1> QED BY <1>5, <1>6, <1>7

\* markRecoveryRequired changes a change that is still committed.
LEMMA MarkStep ==
    ASSUME TLSInv, MarkChange
    PROVE  TLSInv'
<1>1. /\ call.pc = "mark" /\ call' = NoCall /\ process = "closed"
      /\ UNCHANGED <<valid, process, served, repository, versions, keys, rootKeys,
                     installation>>
  BY DEF MarkChange, TLSInv, CallFacts, tlsVars
<1>2. CallFacts' /\ DownFacts' /\ ResolvedWhileOpen' /\ ServedIsRecorded'
  BY <1>1, RowTypes DEF CallFacts, DownFacts, ResolvedWhileOpen, ServedIsRecorded
<1>3. CASE UNCHANGED tlsVars
  <2>1. TypeOK'
    BY <1>1, <1>3, RowTypes DEF TLSInv, TypeOK, tlsVars
  <2>2. RowFacts' /\ UnresolvedIsActive' /\ RecoveryKeysKept'
    BY <1>3 DEF TLSInv, RowFacts, UnresolvedIsActive, RecoveryKeysKept, Unresolved,
       Pointer, tlsVars
  <2> QED BY <1>2, <2>1, <2>2 DEF TLSInv
<1>4. CASE SaveChange(call.version, MarkRecoveryRequired(call.row), call.row.version)
  <2>1. PICK v \in Versions, r \in ChangeRows :
            /\ v = call.version /\ r = call.row /\ v = Pointer
            /\ r.phase = "committed" /\ r.version = 2
            /\ change[v] = r \/ change[v].version # 2
    BY <1>1 DEF TLSInv, CallFacts, TypeOK, CallRows
  <2>2. PICK row \in ChangeRows :
            /\ row = Moved(r, "recovery_required")
            /\ row.phase = "recovery_required" /\ row.version = 3
            /\ row.previous = r.previous
    <3>1. "recovery_required" \in Phases
      BY DEF Phases
    <3> QED BY <2>1, <3>1, RowTypes
  <2>3. SaveChange(v, row, 2)
    BY <1>4, <2>1, <2>2 DEF MarkRecoveryRequired
  <2>4. /\ change' \in [Versions -> ChangeRows] /\ change[v].version = 2
        /\ change'[v] = row
        /\ \A u \in Versions \ {v} : change'[u] = change[u]
    BY <2>3, Saved DEF TLSInv, TypeOK
  <2>5. change[v] = r /\ Pointer' = v
    BY <1>1, <2>1, <2>4 DEF Pointer
  <2>6. TypeOK'
    BY <1>1, <2>4, RowTypes DEF TLSInv, TypeOK
  <2>7. RowFacts' /\ UnresolvedIsActive'
    BY <2>1, <2>2, <2>4, <2>5 DEF TLSInv, RowFacts, UnresolvedIsActive, Unresolved
  <2>8. RecoveryKeysKept'
    <3>1. /\ v \in keys
          /\ r.previous # None => /\ r.previous \in keys
                                  /\ change[r.previous].phase = "applied"
      BY <2>1, <2>5, TLSConstants DEF TLSInv, RecoveryKeysKept, Unresolved
    <3>2. r.previous # None => r.previous \in Versions \ {v}
      BY <2>1, <2>5, <3>1 DEF ChangeRows
    <3> QED BY <1>1, <2>2, <2>4, <2>5, <3>1, <3>2 DEF RecoveryKeysKept
  <2> QED BY <1>2, <2>6, <2>7, <2>8 DEF TLSInv
<1> QED BY <1>3, <1>4 DEF MarkChange

-----------------------------------------------------------------------------
(* Reconcile.                                                              *)

\* Reconcile decides for the active version or for the one it replaced, and the
\* one it decides for is applied and has its key.
LEMMA Reconciling ==
    ASSUME TLSInv, Reconcilable, ReconcileStored
    PROVE  /\ change' \in [Versions -> ChangeRows]
           /\ installation' \in [pointer : Versions \cup {None}, version : Nat]
           /\ keys' \subseteq Versions /\ rootKeys' \subseteq Bootstraps
           /\ UNCHANGED <<repository, versions>>
           /\ Winner \in Versions
           /\ Pointer' = Winner
           /\ change'[Winner].phase = "applied"
           /\ Winner \in keys'
           /\ \A v \in Versions : change'[v].version = 0 => change'[v].phase = "none"
           /\ \A v \in Versions :
                change'[v].phase \notin {"committed", "recovery_required"}
<1>1. PICK p \in Versions, r \in ChangeRows, w \in Versions :
        /\ p = Pointer /\ r = change[p] /\ w = Winner
        /\ r.phase \in {"committed", "recovery_required"}
        /\ w \in keys
        /\ w = p \/ w = r.previous
  BY DEF Reconcilable, Unresolved, ActiveRead, Winner, TLSInv, TypeOK, Pointer,
     ChangeRows
<1>2. w # p => change[w].phase = "applied"
  BY <1>1, TLSConstants DEF TLSInv, RecoveryKeysKept, Unresolved
<1>3. PICK row \in ChangeRows :
        /\ row = ReconciledRow
        /\ row.phase = IF w = p THEN "applied" ELSE "rolled_back"
        /\ row.version # 0
  <2>1. /\ "recovery_required" \in Phases
        /\ (IF w = p THEN "applied" ELSE "rolled_back") \in Phases
    BY DEF Phases
  <2>2. PICK r2 \in ChangeRows :
            r2 = IF r.phase = "committed" THEN MarkRecoveryRequired(r) ELSE r
    BY <2>1, RowTypes DEF MarkRecoveryRequired
  <2>3. ReconciledRow = Moved(r2, IF w = p THEN "applied" ELSE "rolled_back")
    BY <1>1, <2>2 DEF ReconciledRow
  <2>4. r2.version \in Nat
    BY DEF ChangeRows
  <2> QED BY <2>1, <2>3, <2>4, RowTypes
<1>4. change' = [change EXCEPT ![p] = row]
  BY <1>1, <1>3 DEF ReconcileStored
<1>5. /\ change' \in [Versions -> ChangeRows]
      /\ change'[p] = row
      /\ \A v \in Versions \ {p} : change'[v] = change[v]
  BY <1>4 DEF TLSInv, TypeOK
<1>6. /\ keys' \subseteq Versions /\ rootKeys' \subseteq Bootstraps
      /\ w \in keys'
  BY <1>1, Retired DEF ReconcileStored, TLSInv
<1>7. /\ Pointer' = w
      /\ installation' \in [pointer : Versions \cup {None}, version : Nat]
  <2>1. CASE w = p
    BY <1>1, <2>1 DEF ReconcileStored, Pointer, TLSInv, TypeOK
  <2>2. CASE w # p
    BY <1>1, <2>2, Activated DEF ReconcileStored, TLSInv
  <2> QED BY <2>1, <2>2
<1>8. change'[w].phase = "applied"
  BY <1>2, <1>3, <1>5
<1>9. \A v \in Versions : change'[v].version = 0 => change'[v].phase = "none"
  BY <1>3, <1>5 DEF TLSInv, RowFacts
<1>10. \A v \in Versions :
        change'[v].phase \notin {"committed", "recovery_required"}
  BY <1>1, <1>3, <1>5 DEF TLSInv, UnresolvedIsActive, Unresolved
<1> QED BY <1>1, <1>5, <1>6, <1>7, <1>8, <1>9, <1>10 DEF ReconcileStored

\* The winner is recorded and served, or the process closes.
LEMMA ReconcileStep ==
    ASSUME TLSInv, Reconcile \/ ReconcileUnresolved
    PROVE  TLSInv'
<1>1. /\ call.pc = "idle" /\ Reconcilable /\ UNCHANGED <<valid, call>>
      /\ \/ ReconcileStored /\ served' = Winner /\ process' \in {"open", "closed"}
         \/ /\ UNCHANGED tlsVars /\ served' \in {served, Winner}
            /\ process' = "closed"
  BY DEF Reconcile, ReconcileUnresolved, FailClosed
<1>2. CallFacts' /\ DownFacts'
  BY <1>1 DEF CallFacts, DownFacts
<1>3. CASE ReconcileStored /\ served' = Winner /\ process' \in {"open", "closed"}
  <2>1. PICK w \in Versions :
           /\ w = Winner /\ served' = w
           /\ change' \in [Versions -> ChangeRows]
           /\ installation' \in [pointer : Versions \cup {None}, version : Nat]
           /\ keys' \subseteq Versions /\ rootKeys' \subseteq Bootstraps
           /\ UNCHANGED <<repository, versions>>
           /\ Pointer' = w
           /\ change'[w].phase = "applied"
           /\ w \in keys'
           /\ \A v \in Versions : change'[v].version = 0 => change'[v].phase = "none"
           /\ \A v \in Versions :
                change'[v].phase \notin {"committed", "recovery_required"}
    BY <1>1, <1>3, Reconciling
  <2>2. TypeOK'
    BY <1>1, <1>3, <2>1 DEF TLSInv, TypeOK
  <2>3. RowFacts' /\ UnresolvedIsActive'
    BY <2>1 DEF RowFacts, UnresolvedIsActive, Unresolved
  <2>4. ResolvedWhileOpen' /\ ServedIsRecorded' /\ RecoveryKeysKept'
    BY <2>1 DEF ResolvedWhileOpen, ServedIsRecorded, RecoveryKeysKept, Unresolved
  <2> QED BY <1>2, <2>2, <2>3, <2>4 DEF TLSInv
<1>4. CASE UNCHANGED tlsVars /\ process' = "closed"
  <2>1. Winner \in Versions \cup {None}
    BY DEF Winner, TLSInv, TypeOK
  <2>2. TypeOK'
    BY <1>1, <1>4, <2>1 DEF TLSInv, TypeOK, tlsVars, Reconcilable, ReconcileStored
  <2>3. RowFacts' /\ UnresolvedIsActive' /\ RecoveryKeysKept'
    BY <1>4 DEF TLSInv, RowFacts, UnresolvedIsActive, RecoveryKeysKept, Unresolved,
       Pointer, tlsVars
  <2>4. ResolvedWhileOpen' /\ ServedIsRecorded'
    BY <1>4 DEF ResolvedWhileOpen, ServedIsRecorded
  <2> QED BY <1>2, <2>2, <2>3, <2>4 DEF TLSInv
<1> QED BY <1>1, <1>3, <1>4

-----------------------------------------------------------------------------
(* The specification.                                                      *)

\* Before the first start.
LEMMA TLSInit ==
    ASSUME Init
    PROVE  TLSInv
<1>1. Pointer = None
  BY DEF Init, Pointer
<1>2. TypeOK
  BY RowTypes DEF Init, TypeOK, Versions
<1> QED
  BY <1>1, <1>2, RowTypes
     DEF Init, TLSInv, RowFacts, CallFacts, DownFacts, UnresolvedIsActive, Unresolved,
         ResolvedWhileOpen, ServedIsRecorded, RecoveryKeysKept, NoChange

\* Every step keeps the invariant.
LEMMA TLSNext ==
    ASSUME TLSInv, [Next]_vars
    PROVE  TLSInv'
<1>1. CASE UNCHANGED vars
  BY <1>1 DEF vars, tlsVars, TLSInv, TypeOK, RowFacts, CallFacts, DownFacts,
     UnresolvedIsActive, Unresolved, ResolvedWhileOpen, ServedIsRecorded,
     RecoveryKeysKept, Pointer
<1>2. CASE CallStep
  BY <1>2, InstallerStep, RollbackStep, RecordStep, MarkStep DEF CallStep
<1> QED BY <1>1, <1>2, BesideStep, CommitStep, LifeStep, ReconcileStep DEF Next

\* In every behaviour.
THEOREM TLSInvariant == Spec => []TLSInv
BY TLSInit, TLSNext, PTL DEF Spec

\* Every variable holds a value of the table or record it models.
THEOREM TLSTypeCorrect == Spec => []TypeOK
<1>1. TLSInv => TypeOK
  BY DEF TLSInv
<1> QED BY <1>1, TLSInvariant, PTL

\* An open process between activations has a decided active version, whichever
\* repository it runs on and whatever failed or crashed before.
THEOREM ResolvedWhileOpenCorrect == Spec => []ResolvedWhileOpen
<1>1. TLSInv => ResolvedWhileOpen
  BY DEF TLSInv
<1> QED BY <1>1, TLSInvariant, PTL

\* The listener serves what the installation row records.
THEOREM ServedIsRecordedCorrect == Spec => []ServedIsRecorded
<1>1. TLSInv => ServedIsRecorded
  BY DEF TLSInv
<1> QED BY <1>1, TLSInvariant, PTL

\* deleteBootstrapSecrets never removes a key that recovery may need.
THEOREM RecoveryKeysKeptCorrect == Spec => []RecoveryKeysKept
<1>1. TLSInv => RecoveryKeysKept
  BY DEF TLSInv
<1> QED BY <1>1, TLSInvariant, PTL

\* Reconcile has one decision to take: no change but the active one is unresolved.
THEOREM UnresolvedIsActiveCorrect == Spec => []UnresolvedIsActive
<1>1. TLSInv => UnresolvedIsActive
  BY DEF TLSInv
<1> QED BY <1>1, TLSInvariant, PTL

\* An interrupted change is invisible to GetActiveForUpdate of the SQL store, so
\* nothing that reads the active change goes on.
LEMMA Undecidable ==
    ASSUME TLSInv, NEW v \in Versions, Unresolved(v), repository = "sqlstore",
           call.pc = "idle"
    PROVE  /\ process # "open"
           /\ ~ReconcileIdle /\ ~Reconcilable
           /\ \A u \in Versions : ~CommitStored(u)
<1>1. Pointer = v /\ v # None /\ change[Pointer].phase # "applied"
  BY TLSConstants DEF TLSInv, UnresolvedIsActive, Unresolved
<1>2. process # "open"
  BY <1>1 DEF TLSInv, ResolvedWhileOpen
<1>3. ActiveRead = "missing"
  BY <1>1 DEF ActiveRead
<1>4. ~ReconcileIdle /\ ~Reconcilable
  BY <1>1, <1>3 DEF ReconcileIdle, Reconcilable
<1>5. ~BootstrapAllowed
  BY <1>1, <1>3 DEF BootstrapAllowed
<1> QED BY <1>2, <1>4, <1>5 DEF CommitStored, BootstrapStored

\* With the SQL store Reconcile neither completes nor undoes an interrupted
\* activation, and the process does not open over it.
THEOREM InterruptedStaysUndecidedCorrect == Spec => InterruptedStaysUndecided
<1>1. ASSUME TLSInv, Next, NEW v \in Versions, Unresolved(v),
             repository = "sqlstore", call.pc = "idle"
      PROVE  UNCHANGED change /\ call'.pc = "idle" /\ process' # "open"
  <2>1. /\ process # "open" /\ ~ReconcileIdle /\ ~Reconcilable
        /\ \A u \in Versions : ~CommitStored(u)
    BY <1>1, Undecidable
  <2>2. CASE \/ \E u \in Candidates : AddCandidate(u)
             \/ \E u \in Versions : FactsChange(u)
             \/ InstallationSaved
    BY <1>1, <2>1, <2>2 DEF AddCandidate, FactsChange, InstallationSaved, tlsVars
  <2>3. CASE Start \/ Crash \/ Terminate \/ ReconcileRefused
    BY <1>1, <2>3, RowTypes
       DEF Start, Crash, Terminate, Halt, ReconcileRefused, FailClosed, tlsVars
  <2>4. ~CallStep
    BY <1>1 DEF CallStep, InstallerApplies, InstallerFails, RollbackActivation,
       RollbackUnresolved, RecordApplied, RecordUnresolved, MarkChange
  <2>5. \A u \in Versions : ~CommitChange(u) /\ ~CommitUnknown(u)
    BY <2>1 DEF CommitChange, CommitUnknown
  <2>6. ~ReconcileNoop /\ ~Reconcile /\ ~ReconcileUnresolved
    BY <2>1 DEF ReconcileNoop, Reconcile, ReconcileUnresolved
  <2> QED BY <1>1, <2>2, <2>3, <2>4, <2>5, <2>6 DEF Next
<1>2. TLSInv /\ [Next]_vars =>
        [\A v \in Versions :
            repository = "sqlstore" /\ Unresolved(v) /\ call.pc = "idle" =>
                UNCHANGED change /\ call'.pc = "idle" /\ process' # "open"]_vars
  BY <1>1
<1> QED BY <1>2, TLSInvariant, PTL DEF Spec, InterruptedStaysUndecided

=============================================================================
