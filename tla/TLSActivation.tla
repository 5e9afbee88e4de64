---------------------------- MODULE TLSActivation ----------------------------
(***************************************************************************)
(* The internal HTTPS certificate: candidates, activation, bootstrap and   *)
(* restart recovery, as implemented by                                     *)
(*   internal/domain/tls.go             (TLSVersion, TLSChange)            *)
(*   internal/app/service/tls.go        (TLSService)                       *)
(*   internal/tlsruntime/manager.go     (ConfigManager, the installer)     *)
(* over one of the two TLS repositories of the code base, which differ in  *)
(* what GetActiveForUpdate returns:                                        *)
(*   internal/storage/sqlstore/operations/tls.go   ("sqlstore", shipped)   *)
(*   internal/app/porttest/tls.go                  ("double", the          *)
(*       in-memory store the services are tested on)                       *)
(*                                                                         *)
(* An activation is a transaction that commits the decision, a swap of the *)
(* listener's certificate in memory, and a transaction that records it.    *)
(* TLSService.mu is held from the first to the last, so there is one call  *)
(* at a time; a crash may come between any two of them.                    *)
(***************************************************************************)
EXTENDS Naturals

CONSTANTS
    Bootstraps,      \* TLS versions Bootstrap may create
    Candidates,      \* versions uploaded, reloaded or issued as candidates
    None,            \* no version
    MaxInstallation  \* bound on the other writes of the installation row

Versions == Bootstraps \cup Candidates

ASSUME TLSConstants ==
    /\ None \notin Versions
    /\ Bootstraps \cap Candidates = {}
    /\ MaxInstallation \in Nat

VARIABLES
    repository,    \* which TLSRepository the process runs on: "sqlstore" or "double"
    versions,      \* tls_versions rows
    keys,          \* versions whose internal_tls key is stored
    rootKeys,      \* bootstrap versions whose bootstrap_ca key is stored
    change,        \* tls_changes, by candidate_version_id
    installation,  \* the installation row: active pointer and version
    valid,         \* versions whose validation facts all pass now
    process,       \* "down", "starting", "open", or "closed" by FailClosed
    served,        \* the version new TLS connections get
    call           \* the call that holds TLSService.mu

tlsVars == <<repository, versions, keys, rootKeys, change, installation>>
vars == <<tlsVars, valid, process, served, call>>

Phases == {"none", "committed", "applied", "rolled_back", "recovery_required"}

ChangeRows ==
    [phase : Phases, previous : Versions \cup {None}, version : Nat]

NoChange == [phase |-> "none", previous |-> None, version |-> 0]

CallRows ==
    [pc : {"idle", "committed", "rollback", "record", "mark"},
     version : Versions \cup {None}, row : ChangeRows, installation : Nat]

NoCall == [pc |-> "idle", version |-> None, row |-> NoChange, installation |-> 0]

Pointer == installation.pointer

-----------------------------------------------------------------------------
(* TLSChange.                                                              *)

\* NewCandidateTLSChange, ValidateCandidate and Commit, each a new version.
Commit(previous) == [phase |-> "committed", previous |-> previous, version |-> 2]

Moved(row, phase) == [row EXCEPT !.phase = phase, !.version = @ + 1]

MarkRecoveryRequired(row) == Moved(row, "recovery_required")

Unresolved(v) == change[v].phase \in {"committed", "recovery_required"}

-----------------------------------------------------------------------------
(* TLSRepository.                                                          *)

\* GetActiveForUpdate.  The SQL query asks for phase = 'applied', and its scan
\* refuses a NULL previous_version_id; the double returns the row it finds.
ActiveRead ==
    IF \/ Pointer = None
       \/ change[Pointer].phase = "none"
       \/ repository = "sqlstore" /\ change[Pointer].phase # "applied"
    THEN "missing"
    ELSE IF repository = "sqlstore" /\ change[Pointer].previous = None
    THEN "unreadable"
    ELSE "found"

\* SaveChange: the row still has the expected version; 0 for a new row.
SaveAccepted(v, expected) == change[v].version = expected

SaveChange(v, row, expected) ==
    /\ SaveAccepted(v, expected)
    /\ change' = [change EXCEPT ![v] = row]

\* SetActive and, for v = None, ClearActive.
SetActive(v, expected) ==
    /\ installation.version = expected
    /\ installation' = [pointer |-> v, version |-> expected + 1]

\* deleteBootstrapSecrets, once an operational version is in use.
DeleteBootstrapSecrets(winner) ==
    /\ rootKeys' = IF winner \in Bootstraps THEN rootKeys ELSE {}
    /\ keys' = IF winner \in Bootstraps THEN keys ELSE keys \ Bootstraps

-----------------------------------------------------------------------------
(* Candidates.                                                             *)

\* UploadCandidate, Reload and IssueCandidate, none of which holds the mutex.
AddCandidate(v) ==
    /\ process = "open"
    /\ v \notin versions
    /\ versions' = versions \cup {v}
    /\ keys' = keys \cup {v}
    /\ UNCHANGED <<repository, rootKeys, change, installation, valid, process, served, call>>

\* Time passes, a chain breaks or the service URL is changed: the facts that
\* buildValidationFacts gathers about a version are different from now on.
FactsChange(v) ==
    /\ valid' = IF v \in valid THEN valid \ {v} ELSE valid \cup {v}
    /\ UNCHANGED <<tlsVars, process, served, call>>

\* Setup and key rotation write the same installation row.
InstallationSaved ==
    /\ process = "open"
    /\ installation.version < MaxInstallation
    /\ installation' = [installation EXCEPT !.version = @ + 1]
    /\ UNCHANGED <<repository, versions, keys, rootKeys, change, valid, process, served, call>>

-----------------------------------------------------------------------------
(* Activate and Bootstrap.                                                 *)

FailClosed == process' = "closed"

Begin(v, row) ==
    call' = [pc |-> "committed", version |-> v, row |-> row,
             installation |-> installation.version + 1]

\* Activate reads the active change: unreadable is an error, and an unresolved
\* change blocks until Reconcile.
ActivationAllowed ==
    /\ ActiveRead # "unreadable"
    /\ ActiveRead = "found" => change[Pointer].phase \in {"applied", "rolled_back"}

\* The version a new change falls back to.
PreviousVersion == IF ActiveRead = "found" THEN Pointer ELSE None

\* Mutant of ActivationStored: bootstrap keys go when the decision is stored.
ActivationStoredRetires(v) ==
    /\ v \in versions
    /\ ActivationAllowed
    /\ v \in keys
    /\ v \in valid
    /\ SaveChange(v, Commit(PreviousVersion), 0)
    /\ SetActive(v, installation.version)
    /\ DeleteBootstrapSecrets(v)
    /\ UNCHANGED <<repository, versions>>

\* The first transaction of Activate.
ActivationStored(v) ==
    /\ v \in versions
    /\ ActivationAllowed
    /\ v \in keys
    /\ v \in valid
    /\ SaveChange(v, Commit(PreviousVersion), 0)
    /\ SetActive(v, installation.version)
    /\ UNCHANGED <<repository, versions, keys, rootKeys>>

\* Bootstrap never replaces an operational version or an unresolved change.
BootstrapAllowed ==
    \/ ActiveRead = "found" /\ change[Pointer].phase = "applied"
                            /\ Pointer \in Bootstraps
    \/ ActiveRead = "missing" /\ Pointer = None

\* The first transaction of Bootstrap stores a fresh root and leaf as well.
BootstrapStored(v) ==
    /\ v \in Bootstraps \ versions
    /\ v \in valid
    /\ BootstrapAllowed
    /\ versions' = versions \cup {v}
    /\ keys' = keys \cup {v}
    /\ rootKeys' = rootKeys \cup {v}
    /\ SaveChange(v, Commit(PreviousVersion), 0)
    /\ SetActive(v, installation.version)
    /\ UNCHANGED repository

CommitStored(v) ==
    \/ process = "open" /\ ActivationStored(v)
    \/ process \in {"starting", "open"} /\ BootstrapStored(v)

CommitChange(v) ==
    /\ call.pc = "idle"
    /\ CommitStored(v)
    /\ Begin(v, Commit(PreviousVersion))
    /\ UNCHANGED <<valid, process, served>>

\* ErrCommitUnknown: the decision is stored and nothing else is done.
CommitUnknown(v) ==
    /\ call.pc = "idle"
    /\ CommitStored(v)
    /\ FailClosed
    /\ UNCHANGED <<valid, served, call>>

\* TLSInstaller.Prepare and Apply, outside any transaction.
InstallerApplies ==
    /\ call.pc = "committed"
    /\ served' = call.version
    /\ call' = [call EXCEPT !.pc = "record"]
    /\ UNCHANGED <<tlsVars, valid, process>>

InstallerFails ==
    /\ call.pc = "committed"
    /\ call' = [call EXCEPT !.pc = "rollback"]
    /\ UNCHANGED <<tlsVars, valid, process, served>>

\* Mutant of RollbackStored: the pointer stays where the activation put it.
RollbackStoredRowOnly ==
    /\ SaveChange(call.version, Moved(call.row, "rolled_back"), call.row.version)
    /\ UNCHANGED <<repository, versions, keys, rootKeys, installation>>

\* Mutant of RollbackStored: the pointer goes back and the row stays committed.
RollbackStoredPointerOnly ==
    /\ SaveAccepted(call.version, call.row.version)
    /\ call.row.previous # None \/ Pointer = call.version
    /\ SetActive(call.row.previous, call.installation)
    /\ UNCHANGED <<repository, versions, keys, rootKeys, change>>

\* The transaction of rollbackActivation.
RollbackStored ==
    /\ SaveChange(call.version, Moved(call.row, "rolled_back"), call.row.version)
    /\ call.row.previous # None \/ Pointer = call.version
    /\ SetActive(call.row.previous, call.installation)
    /\ UNCHANGED <<repository, versions, keys, rootKeys>>

RollbackActivation ==
    /\ call.pc = "rollback"
    /\ RollbackStored
    /\ call' = NoCall
    /\ UNCHANGED <<valid, process, served>>

\* The rollback is refused, fails or is unknown.
RollbackUnresolved ==
    /\ call.pc = "rollback"
    /\ RollbackStored \/ UNCHANGED tlsVars
    /\ FailClosed
    /\ call' = NoCall
    /\ UNCHANGED <<valid, served>>

\* The transaction that records the applied change.
AppliedStored ==
    /\ SaveChange(call.version, Moved(call.row, "applied"), call.row.version)
    /\ DeleteBootstrapSecrets(call.version)
    /\ UNCHANGED <<repository, versions, installation>>

RecordApplied ==
    /\ call.pc = "record"
    /\ AppliedStored
    /\ call' = NoCall
    /\ UNCHANGED <<valid, process, served>>

\* Mutant of RecordUnresolved: the process goes on serving.
RecordUnresolvedOpen ==
    /\ call.pc = "record"
    /\ AppliedStored \/ UNCHANGED tlsVars
    /\ call' = [call EXCEPT !.pc = "mark"]
    /\ UNCHANGED <<valid, process, served>>

\* Recording failed or is unknown: the process closes, then the row is marked.
RecordUnresolved ==
    /\ call.pc = "record"
    /\ AppliedStored \/ UNCHANGED tlsVars
    /\ FailClosed
    /\ call' = [call EXCEPT !.pc = "mark"]
    /\ UNCHANGED <<valid, served>>

\* markRecoveryRequired, best effort.
MarkChange ==
    /\ call.pc = "mark"
    /\ \/ /\ SaveChange(call.version, MarkRecoveryRequired(call.row),
                        call.row.version)
          /\ UNCHANGED <<repository, versions, keys, rootKeys, installation>>
       \/ UNCHANGED tlsVars
    /\ call' = NoCall
    /\ UNCHANGED <<valid, process, served>>

-----------------------------------------------------------------------------
(* Process life and Reconcile, which runs before admission opens.          *)

Start ==
    /\ process = "down"
    /\ process' = "starting"
    /\ UNCHANGED <<tlsVars, valid, served, call>>

Halt ==
    /\ process' = "down"
    /\ served' = None
    /\ call' = NoCall
    /\ UNCHANGED <<tlsVars, valid>>

Crash == process # "down" /\ Halt

Terminate == process = "closed" /\ Halt

\* TLSChange.Reconcile: the candidate if it still validates, else the version
\* it replaced, else nothing.
Winner ==
    IF Pointer \in valid THEN Pointer
    ELSE IF change[Pointer].previous \in valid THEN change[Pointer].previous
    ELSE None

\* The row Reconcile saves: a committed row is first marked for recovery.
ReconciledRow ==
    LET row == IF change[Pointer].phase = "committed"
               THEN MarkRecoveryRequired(change[Pointer]) ELSE change[Pointer]
    IN  Moved(row, IF Winner = Pointer THEN "applied" ELSE "rolled_back")

\* Mutant of ReconcileIdle: no active change is taken for none ever active.
ReconcileIdleMissing ==
    \/ ActiveRead = "missing"
    \/ ActiveRead = "found" /\ change[Pointer].phase = "applied"

\* Nothing to do: no version was ever active, or the active one is applied.
ReconcileIdle ==
    \/ ActiveRead = "missing" /\ Pointer = None
    \/ ActiveRead = "found" /\ change[Pointer].phase = "applied"

\* An unresolved change with a winner whose key is stored.
Reconcilable ==
    /\ ActiveRead = "found"
    /\ Unresolved(Pointer)
    /\ Winner # None
    /\ Winner \in keys

ReconcileStored ==
    /\ change' = [change EXCEPT ![Pointer] = ReconciledRow]
    /\ DeleteBootstrapSecrets(Winner)
    /\ IF Winner = Pointer THEN UNCHANGED installation
                           ELSE SetActive(Winner, installation.version)
    /\ UNCHANGED <<repository, versions>>

ReconcileNoop ==
    /\ process = "starting" /\ call.pc = "idle"
    /\ ReconcileIdle
    /\ process' = "open"
    /\ UNCHANGED <<tlsVars, valid, served, call>>

\* The installer swaps inside the transaction that records the winner.
Reconcile ==
    /\ process = "starting" /\ call.pc = "idle"
    /\ Reconcilable
    /\ ReconcileStored
    /\ served' = Winner
    /\ process' = "open"
    /\ UNCHANGED <<valid, call>>

\* The installer or a later write fails, or the commit is unknown.  A swap
\* that was done stays done.
ReconcileUnresolved ==
    /\ process = "starting" /\ call.pc = "idle"
    /\ Reconcilable
    /\ \/ UNCHANGED <<tlsVars, served>>
       \/ UNCHANGED tlsVars /\ served' = Winner
       \/ ReconcileStored /\ served' = Winner
    /\ FailClosed
    /\ UNCHANGED <<valid, call>>

\* The active change cannot be read or decided.
ReconcileRefused ==
    /\ process = "starting" /\ call.pc = "idle"
    /\ ~ReconcileIdle /\ ~Reconcilable
    /\ FailClosed
    /\ UNCHANGED <<tlsVars, valid, served, call>>

-----------------------------------------------------------------------------
Init ==
    /\ repository \in {"sqlstore", "double"}
    /\ versions = {}
    /\ keys = {}
    /\ rootKeys = {}
    /\ change = [v \in Versions |-> NoChange]
    /\ installation = [pointer |-> None, version |-> 0]
    /\ valid = Versions
    /\ process = "down"
    /\ served = None
    /\ call = NoCall

CallStep ==
    \/ InstallerApplies
    \/ InstallerFails
    \/ RollbackActivation
    \/ RollbackUnresolved
    \/ RecordApplied
    \/ RecordUnresolved
    \/ MarkChange

Next ==
    \/ \E v \in Candidates : AddCandidate(v)
    \/ \E v \in Versions : FactsChange(v)
    \/ InstallationSaved
    \/ \E v \in Versions : CommitChange(v) \/ CommitUnknown(v)
    \/ CallStep
    \/ Start
    \/ Crash
    \/ Terminate
    \/ ReconcileNoop
    \/ Reconcile
    \/ ReconcileUnresolved
    \/ ReconcileRefused

Spec == Init /\ [][Next]_vars

\* A call under the mutex runs on, the runtime ends a closed process and starts
\* it again, and every start runs Reconcile, whose store and installer work
\* again and again.
Fairness ==
    /\ WF_vars(CallStep)
    /\ WF_vars(Start)
    /\ WF_vars(Terminate)
    /\ SF_vars(ReconcileNoop)
    /\ SF_vars(Reconcile)

FairSpec == Spec /\ Fairness

-----------------------------------------------------------------------------
(* Properties.                                                             *)

\* Every variable holds a value of the table or record it models.
TypeOK ==
    /\ repository \in {"sqlstore", "double"}
    /\ versions \subseteq Versions
    /\ keys \subseteq Versions
    /\ rootKeys \subseteq Bootstraps
    /\ change \in [Versions -> ChangeRows]
    /\ installation \in [pointer : Versions \cup {None}, version : Nat]
    /\ valid \subseteq Versions
    /\ process \in {"down", "starting", "open", "closed"}
    /\ served \in Versions \cup {None}
    /\ call \in CallRows

\* Whatever failed, crashed or was rolled back before, a process that serves
\* and has no activation under way has a decided active version: the pointer
\* names nothing or an applied change.
ResolvedWhileOpen ==
    process = "open" /\ call.pc = "idle" =>
        Pointer = None \/ change[Pointer].phase = "applied"

\* The certificate new connections get is the one the installation records,
\* although memory and store are changed by different steps.
ServedIsRecorded ==
    process \in {"starting", "open"} /\ call.pc = "idle" /\ served # None =>
        served = Pointer /\ change[served].phase = "applied"

\* Only the active change can be unresolved, so recovery has one decision to
\* take and sees it through the pointer.
UnresolvedIsActive == \A v \in Versions : Unresolved(v) => Pointer = v

\* Recovery can load what it decides for: the active version and, while its
\* change is unresolved, the version it replaces still have their keys, and
\* that version was applied.
RecoveryKeysKept ==
    Pointer # None =>
        /\ Pointer \in keys
        /\ Unresolved(Pointer) /\ change[Pointer].previous # None =>
              /\ change[Pointer].previous \in keys
              /\ change[change[Pointer].previous].phase = "applied"

\* With the SQL store an interrupted activation stays as it was left: Reconcile
\* cannot see a change that is not applied, so it neither completes nor undoes it,
\* and the process does not open over it.
InterruptedStaysUndecided ==
    [][\A v \in Versions :
          repository = "sqlstore" /\ Unresolved(v) /\ call.pc = "idle" =>
              UNCHANGED change /\ call'.pc = "idle" /\ process' # "open"]_vars

\* A process whose active version is applied opens again after a restart.
AppliedOpensAgain ==
    Pointer # None /\ change[Pointer].phase = "applied" /\ process = "down"
        ~> process = "open"
=============================================================================
