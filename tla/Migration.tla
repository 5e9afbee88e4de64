----------------------------- MODULE Migration -----------------------------
(***************************************************************************)
(* Schema migrations: the journal, the catalog and the commands            *)
(* "cert-me db migrate" and "cert-me db resume":                           *)
(*   internal/storage/migrate/runner.go, journal.go, apply.go, plan.go,    *)
(*   handlers.go, internal/storage/executionlock/lock.go                   *)
(*                                                                         *)
(* PostgreSQL and SQLite run a version in one transaction; MySQL and       *)
(* MariaDB commit every DDL statement by itself and the journal after it.  *)
(* What a command knows of an interrupted one is the journal and the       *)
(* catalog.  A single DDL statement is atomic, and nobody else changes the *)
(* schema.  Everything a runner writes goes over the connection that holds *)
(* its lock, so it writes nothing after it lost the lock.                  *)
(***************************************************************************)
EXTENDS Integers

CONSTANTS
    Runners,     \* processes running a command
    None,        \* no runner
    Target,      \* targetVersion
    Backfill,    \* auditScopeBackfillVersion, which ends with a data handler
    DDL,         \* number of reviewed statements of each version
    MaxFaults    \* bound on stopped runners and failing statements

ASSUME MigrationConstants ==
    /\ None \notin Runners
    /\ Target \in Nat
    /\ Backfill \in 1 .. Target - 1
    /\ DDL \in [0 .. Target -> Nat \ {0}]
    /\ DDL[0] = 1
    /\ MaxFaults \in Nat

VARIABLES
    transactional,  \* PostgreSQL or SQLite, not MySQL or MariaDB
    catalog,        \* the last statement the schema contains
    journal,        \* schema_migrations
    events,         \* kinds of rows in audit_events that matter to the handler
    lock,           \* holder of the execution lock
    runner,         \* commands in progress
    faults

vars == <<transactional, catalog, journal, events, lock, runner, faults>>

Versions == 0 .. Target

\* auditScopeRequiredVersion
Required == Backfill + 1

\* Statement ddl of a version is the last one the schema contains.  The plan's
\* schemas are cumulative, and every statement changes the schema.
Catalog(v, k) == [version |-> v, ddl |-> k]

NoTables == Catalog(0, 0)

\* plan.full
Full(v) == Catalog(v, DDL[v])

\* len(file.steps): the handler is a step of its own.
NumSteps(v) == IF v = Backfill THEN DDL[v] + 1 ELSE DDL[v]

\* The expected schema once k steps of version v are done; a handler's before
\* and after are the same schema.
At(v, k) ==
    IF k = 0 THEN Full(v - 1)
    ELSE IF k <= DDL[v] THEN Catalog(v, k)
    ELSE Full(v)

NoEntry == [state |-> "none", lastStep |-> 0]

Entry(state, k) == [state |-> state, lastStep |-> k]

\* A completed row as markApplied may leave it, whatever the wall clock did since
\* insertApplying.  "backwards" stands for an applied row with completed_at before
\* started_at, which validEntryState refuses.
Completed(v) ==
    {Entry("applied", NumSteps(v)), Entry("backwards", NumSteps(v))}

Stopped == [pc |-> "idle", command |-> "migrate", version |-> 0, step |-> 0]

-----------------------------------------------------------------------------
(* The data handler.  An event with scopes and a global action is a        *)
(* conflict, one with neither cannot be classified and is left alone, and  *)
(* the others are classified by the handler.                               *)

Satisfied == "unset" \notin events /\ "conflict" \notin events

Backfilled == events \ {"unset"}

HandlerPending(v) == v = Backfill /\ ~ Satisfied

\* The required column refuses what the handler left unset.
StatementFails(v) == v = Required /\ "orphan" \in events

-----------------------------------------------------------------------------
(* inspectWithPlan.                                                        *)

AppliedBelow(v) ==
    \A u \in 0 .. v - 1 : journal[u] = Entry("applied", NumSteps(u))

NothingFrom(v) == \A u \in v .. Target : journal[u].state = "none"

IsEmpty == catalog = NoTables

\* The journal table exists and has no row.
IsUnrecorded == catalog = Full(0) /\ NothingFrom(0)

\* upgrade_required: version v is the first that is missing.
UpgradeFrom(v) ==
    /\ AppliedBelow(v)
    /\ NothingFrom(v)
    /\ v = Required => Satisfied
    /\ catalog = Full(v - 1)

\* Mutant of Recognised: only the schema the journal speaks of is accepted.
RecognisedExactly(v) ==
    IF catalog = Full(v) THEN ~ HandlerPending(v)
    ELSE IF transactional THEN catalog = Full(v - 1)
    ELSE catalog = At(v, journal[v].lastStep)

\* The schema an incomplete version may have left: complete up to the handler,
\* or at the recorded step, or one step further.
Recognised(v) ==
    IF catalog = Full(v) THEN
        HandlerPending(v) =>
            /\ "conflict" \notin events
            /\ journal[v].lastStep < NumSteps(v)
            /\ ~ transactional
    ELSE IF transactional THEN catalog = Full(v - 1)
    ELSE \E k \in journal[v].lastStep .. journal[v].lastStep + 1 :
            k <= NumSteps(v) /\ catalog = At(v, k)

\* Mutant of ResumeAt: a version that was marked failed is not resumed.
ResumeAtApplying(v) ==
    /\ AppliedBelow(v)
    /\ journal[v].state = "applying"
    /\ journal[v].lastStep <= NumSteps(v)
    /\ NothingFrom(v + 1)
    /\ v = Required => Satisfied
    /\ Recognised(v)

\* resume_required with version v incomplete.
ResumeAt(v) ==
    /\ AppliedBelow(v)
    /\ journal[v].state \in {"applying", "failed"}
    /\ journal[v].lastStep <= NumSteps(v)
    /\ NothingFrom(v + 1)
    /\ v = Required => Satisfied
    /\ Recognised(v)

IsCurrent ==
    /\ AppliedBelow(Target + 1)
    /\ catalog = Full(Target)
    /\ Satisfied

IsIncompatible ==
    /\ ~ IsEmpty
    /\ ~ IsUnrecorded
    /\ ~ IsCurrent
    /\ \A v \in 1 .. Target : ~ UpgradeFrom(v) /\ ~ ResumeAt(v)

\* lastVerifiedStep of an incomplete version.
LastVerifiedStep(v) ==
    IF catalog = Full(v) THEN IF HandlerPending(v) THEN NumSteps(v) - 1 ELSE NumSteps(v)
    ELSE IF transactional THEN 0
    ELSE IF catalog = At(v, journal[v].lastStep) THEN journal[v].lastStep
    ELSE journal[v].lastStep + 1

-----------------------------------------------------------------------------
(* Commands.                                                               *)

Goes(r, pc, v, k) ==
    runner' = [runner EXCEPT ![r] =
        [pc |-> pc, command |-> runner[r].command, version |-> v, step |-> k]]

\* The loop of mutate over the versions, where the two commands are the same.
Migrates(r, v) ==
    runner' = [runner EXCEPT ![r] =
        [pc |-> "version", command |-> "migrate", version |-> v, step |-> 0]]

Ends(r) ==
    /\ runner' = [runner EXCEPT ![r] = Stopped]
    /\ lock' = None

LockFree == lock = None

\* withLockedConnection; a lock that is held refuses the command as busy.
Acquire(r, command) ==
    /\ runner[r].pc = "idle"
    /\ LockFree
    /\ lock' = r
    /\ runner' = [runner EXCEPT ![r] =
          [pc |-> "inspect", command |-> command, version |-> 0, step |-> 0]]
    /\ UNCHANGED <<transactional, catalog, journal, events, faults>>

\* The state the command finds is one it does not act on: nothing to do, the
\* other command is required, or incompatible.
Refused(r) ==
    /\ runner[r].pc = "inspect"
    /\ \/ IsCurrent
       \/ IsIncompatible
       \/ runner[r].command = "resume" /\ (IsEmpty \/ \E v \in 1 .. Target : UpgradeFrom(v))
       \/ runner[r].command = "migrate" /\ (IsUnrecorded \/ \E v \in 1 .. Target : ResumeAt(v))
    /\ Ends(r)
    /\ UNCHANGED <<transactional, catalog, journal, events, faults>>

\* bootstrap creates the journal table and commits.
Bootstrap(r) ==
    /\ runner[r].pc = "inspect"
    /\ runner[r].command = "migrate"
    /\ IsEmpty
    /\ catalog' = Full(0)
    /\ Goes(r, "created", 0, 0)
    /\ UNCHANGED <<transactional, journal, events, lock, faults>>

\* insertApplied for version 0, at the end of bootstrap or by resumeIncomplete.
RecordBootstrap(r) ==
    /\ \/ runner[r].pc = "created"
       \/ runner[r].pc = "inspect" /\ runner[r].command = "resume" /\ IsUnrecorded
    /\ catalog = Full(0)
    /\ journal' = [journal EXCEPT ![0] = Entry("applied", NumSteps(0))]
    /\ Goes(r, "again", 0, 0)
    /\ UNCHANGED <<transactional, catalog, events, lock, faults>>

\* The second inspection, after bootstrap or resumeIncomplete, and the first one
\* of migrate over a finished older version.
UpgradeStarts(r, v) ==
    /\ \/ runner[r].pc = "again"
       \/ runner[r].pc = "inspect" /\ runner[r].command = "migrate"
    /\ UpgradeFrom(v)
    /\ Migrates(r, v)
    /\ UNCHANGED <<transactional, catalog, journal, events, lock, faults>>

\* The second inspection finds the target version, or a state it refuses.
CommandEnds(r) ==
    /\ runner[r].pc = "again"
    /\ \A v \in 1 .. Target : ~ UpgradeFrom(v)
    /\ Ends(r)
    /\ UNCHANGED <<transactional, catalog, journal, events, faults>>

\* resumeIncomplete for a later version.
ResumeStarts(r, v) ==
    /\ runner[r].pc = "inspect"
    /\ runner[r].command = "resume"
    /\ ResumeAt(v)
    /\ Goes(r, "resume", v, 0)
    /\ UNCHANGED <<transactional, catalog, journal, events, lock, faults>>

\* promoteApplying
PromoteApplying(r) ==
    LET v == runner[r].version
    IN /\ runner[r].pc = "resume"
       /\ journal[v].state = "failed"
       /\ journal' = [journal EXCEPT ![v].state = "applying"]
       /\ UNCHANGED <<transactional, catalog, events, lock, runner, faults>>

\* Mutant of MustApply: a complete schema is taken for a complete version.
MustApplyStatements(v) == catalog # Full(v)

\* resumeIncomplete runs the rest of the version: from the handler, or from the
\* verified step when the schema is not complete yet.
MustApply(v) == catalog # Full(v) \/ LastVerifiedStep(v) < NumSteps(v)

\* updateLastStep for the step that was done and not recorded.  A handler still
\* to run records itself.
CatchUp(r) ==
    LET v == runner[r].version
    IN /\ runner[r].pc = "resume"
       /\ journal[v].state = "applying"
       /\ ~ HandlerPending(v) \/ catalog # Full(v)
       /\ LastVerifiedStep(v) > journal[v].lastStep
       /\ journal' = [journal EXCEPT ![v].lastStep = LastVerifiedStep(v)]
       /\ UNCHANGED <<transactional, catalog, events, lock, runner, faults>>

ResumeApplies(r) ==
    LET v == runner[r].version
    IN /\ runner[r].pc = "resume"
       /\ journal[v].state = "applying"
       /\ MustApply(v)
       /\ catalog = Full(v) \/ LastVerifiedStep(v) <= journal[v].lastStep
       /\ Goes(r, "apply", v, LastVerifiedStep(v))
       /\ UNCHANGED <<transactional, catalog, journal, events, lock, faults>>

\* The version is complete and only its journal row is not.
ResumeMarks(r) ==
    LET v == runner[r].version
    IN /\ runner[r].pc = "resume"
       /\ journal[v].state = "applying"
       /\ ~ MustApply(v)
       /\ LastVerifiedStep(v) <= journal[v].lastStep
       /\ \E e \in Completed(v) : journal' = [journal EXCEPT ![v] = e]
       /\ Goes(r, "again", v, 0)
       /\ UNCHANGED <<transactional, catalog, events, lock, faults>>

-----------------------------------------------------------------------------
(* applyVersion.                                                           *)

\* insertApplying.
InsertApplying(r) ==
    LET v == runner[r].version
    IN /\ runner[r].pc = "version"
       /\ v = Required => Satisfied
       /\ journal' = [journal EXCEPT ![v] = Entry("applying", 0)]
       /\ Goes(r, "apply", v, 0)
       /\ UNCHANGED <<transactional, catalog, events, lock, faults>>

\* After a version, resumeIncomplete returns to the second inspection and the
\* loop goes on with the next version.
VersionDone(r, v) ==
    \/ runner[r].command = "resume" /\ Goes(r, "again", v, 0) /\ UNCHANGED lock
    \/ runner[r].command = "migrate" /\ v < Target /\ Migrates(r, v + 1) /\ UNCHANGED lock
    \/ runner[r].command = "migrate" /\ v = Target /\ Ends(r)

\* applyTransactional: statements, handler and journal row in one transaction.
ApplyTransactional(r) ==
    LET v == runner[r].version
    IN /\ runner[r].pc = "apply"
       /\ transactional
       /\ catalog = Full(v - 1)
       /\ ~ StatementFails(v)
       /\ v = Backfill => "conflict" \notin events
       /\ catalog' = Full(v)
       /\ events' = IF v = Backfill THEN Backfilled ELSE events
       /\ \E e \in Completed(v) : journal' = [journal EXCEPT ![v] = e]
       /\ VersionDone(r, v)
       /\ UNCHANGED <<transactional, faults>>

\* The next step is a statement and the schema is the one it expects.
StatementDue(v, k) == k < DDL[v] /\ catalog = At(v, k)

\* applyNonTransactional runs one statement, which commits by itself.
ExecuteStatement(r) ==
    LET v == runner[r].version
        k == runner[r].step
    IN /\ runner[r].pc = "apply"
       /\ ~ transactional
       /\ StatementDue(v, k)
       /\ ~ StatementFails(v)
       /\ catalog' = At(v, k + 1)
       /\ Goes(r, "record", v, k + 1)
       /\ UNCHANGED <<transactional, journal, events, lock, faults>>

\* ... or the handler, in a transaction of its own.
ExecuteHandler(r) ==
    LET v == runner[r].version
        k == runner[r].step
    IN /\ runner[r].pc = "apply"
       /\ ~ transactional
       /\ v = Backfill
       /\ k = DDL[v]
       /\ catalog = Full(v)
       /\ "conflict" \notin events
       /\ events' = Backfilled
       /\ Goes(r, "record", v, k + 1)
       /\ UNCHANGED <<transactional, catalog, journal, lock, faults>>

\* updateLastStep, in a transaction after the step.
RecordStep(r) ==
    LET v == runner[r].version
        k == runner[r].step
    IN /\ runner[r].pc = "record"
       /\ journal[v].state = "applying"
       /\ journal' = [journal EXCEPT ![v].lastStep = k]
       /\ Goes(r, "apply", v, k)
       /\ UNCHANGED <<transactional, catalog, events, lock, faults>>

\* markApplied, after the last step.
MarkApplied(r) ==
    LET v == runner[r].version
    IN /\ runner[r].pc = "apply"
       /\ ~ transactional
       /\ runner[r].step = NumSteps(v)
       /\ catalog = Full(v)
       /\ journal[v].state = "applying"
       /\ \E e \in Completed(v) : journal' = [journal EXCEPT ![v] = e]
       /\ VersionDone(r, v)
       /\ UNCHANGED <<transactional, catalog, events, faults>>

\* A statement fails and the failure is recorded by markFailed.  In a
\* transactional database the version is rolled back first.
StepFails(r) ==
    LET v == runner[r].version
    IN /\ runner[r].pc = "apply"
       /\ transactional \/ StatementDue(v, runner[r].step)
       /\ ~ StatementFails(v) => faults < MaxFaults
       /\ faults' = IF StatementFails(v) THEN faults ELSE faults + 1
       /\ journal' = [journal EXCEPT ![v].state = "failed"]
       /\ Ends(r)
       /\ UNCHANGED <<transactional, catalog, events>>

\* The handler finds rows it cannot classify; nothing is recorded.
HandlerRefuses(r) ==
    /\ runner[r].pc = "apply"
    /\ runner[r].version = Backfill
    /\ transactional \/ runner[r].step = DDL[Backfill]
    /\ "conflict" \in events
    /\ Ends(r)
    /\ UNCHANGED <<transactional, catalog, journal, events, faults>>

\* The process ends, the connection breaks, a deadline passes, or a commit is
\* not answered: before a step, or after it when the write was done.
RunnerStops(r) ==
    /\ runner[r].pc # "idle"
    /\ faults < MaxFaults
    /\ faults' = faults + 1
    /\ Ends(r)
    /\ UNCHANGED <<transactional, catalog, journal, events>>

-----------------------------------------------------------------------------

\* The database is empty, or an earlier release finished version v and worked
\* with it.  Since Backfill, every event a server writes is classified.
Init ==
    /\ transactional \in BOOLEAN
    /\ \/ /\ catalog = NoTables
          /\ journal = [v \in Versions |-> NoEntry]
          /\ events = {}
       \/ \E v \in Versions :
            /\ catalog = Full(v)
            /\ journal = [u \in Versions |->
                  IF u <= v THEN Entry("applied", NumSteps(u)) ELSE NoEntry]
            /\ events \in SUBSET {"unset", "orphan", "conflict"}
            /\ v >= Backfill => Satisfied
            /\ v >= Required => "orphan" \notin events
    /\ lock = None
    /\ runner = [r \in Runners |-> Stopped]
    /\ faults = 0

Works(r) ==
    \/ Refused(r)
    \/ Bootstrap(r)
    \/ RecordBootstrap(r)
    \/ \E v \in 1 .. Target : UpgradeStarts(r, v) \/ ResumeStarts(r, v)
    \/ CommandEnds(r)
    \/ PromoteApplying(r)
    \/ CatchUp(r)
    \/ ResumeApplies(r)
    \/ ResumeMarks(r)
    \/ InsertApplying(r)
    \/ ApplyTransactional(r)
    \/ ExecuteStatement(r)
    \/ ExecuteHandler(r)
    \/ RecordStep(r)
    \/ MarkApplied(r)
    \/ HandlerRefuses(r)

Next ==
    \E r \in Runners :
        \/ \E command \in {"migrate", "resume"} : Acquire(r, command)
        \/ Works(r)
        \/ StepFails(r)
        \/ RunnerStops(r)

\* A command runs on until it ends or fails, and the operator keeps running the
\* command the status names.
Fairness ==
    \A r \in Runners :
        /\ WF_vars(Works(r) \/ StepFails(r))
        /\ SF_vars(Acquire(r, "migrate"))
        /\ SF_vars(Acquire(r, "resume"))

Spec == Init /\ [][Next]_vars /\ Fairness

-----------------------------------------------------------------------------
(* Properties.                                                             *)

\* Rows and runners have their types, and only the holder of the execution lock
\* is at work.
TypeOK ==
    /\ transactional \in BOOLEAN
    /\ catalog \in [version : Versions, ddl : Nat]
    /\ journal \in [Versions ->
          [state : {"none", "applying", "failed", "applied", "backwards"}, lastStep : Nat]]
    /\ events \subseteq {"unset", "orphan", "conflict"}
    /\ lock \in Runners \cup {None}
    /\ runner \in [Runners ->
          [pc : {"idle", "inspect", "created", "again", "resume", "version",
                 "apply", "record"},
           command : {"migrate", "resume"}, version : Versions, step : Nat]]
    /\ faults \in Nat
    /\ \A r \in Runners : runner[r].pc # "idle" <=> lock = r

Backwards == \E v \in Versions : journal[v].state = "backwards"

\* Wherever a command is interrupted, the next inspection can tell where: the
\* journal and the schema never drift apart by more than the one step that
\* inspectWithPlan accepts.  Unless audit rows contradict themselves, it gives up
\* when the clock was set back while a version was incomplete, and only then.
AlwaysRecognised == "conflict" \notin events => (IsIncompatible <=> Backwards)

\* A completed row tells the truth, whatever the clock read: all earlier versions
\* are complete, the schema contains the version, and from Backfill on the audit
\* events are classified.
AppliedIsReal ==
    \A v \in Versions :
        journal[v].state \in {"applied", "backwards"} =>
            /\ \A u \in 0 .. v : journal[u] \in Completed(u)
            /\ catalog.version >= v
            /\ catalog.version = v => catalog = Full(v)
            /\ v >= Backfill => Satisfied

\* With audit events the handler can classify, repeating the command the status
\* names brings every database to the target version, whatever was interrupted,
\* unless the clock was set back while a version was incomplete.
MigrationCompletes ==
    (events \subseteq {"unset"}) ~> (IsCurrent \/ Backwards)

=============================================================================
