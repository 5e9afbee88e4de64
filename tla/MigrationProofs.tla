-------------------------- MODULE MigrationProofs --------------------------
(***************************************************************************)
(* Proofs about Migration, for every number of versions, of statements per *)
(* version, of runners and of interruptions, whatever the wall clock reads *)
(* when a version is completed.                                            *)
(*                                                                         *)
(* The database is always in one of four shapes: fresh, with an empty      *)
(* journal, finished up to a version, or part of the way through the next  *)
(* one.  A runner at work sits at a known place of that shape.             *)
(***************************************************************************)
EXTENDS Migration, TLAPS

Fresh == catalog = NoTables /\ NothingFrom(0)

\* All versions below v are complete, though the inspection may refuse the row of
\* one that ended before it began.
CompleteBelow(v) ==
    \A u \in 0 .. v - 1 : journal[u] \in Completed(u)

\* All versions below v are complete and nothing else was begun.
Finished(v) ==
    /\ CompleteBelow(v)
    /\ NothingFrom(v)
    /\ catalog = Full(v - 1)
    /\ v >= Required => Satisfied

\* How far the schema of version v may be ahead of its journal row.
Progress(v) ==
    IF transactional
    THEN catalog = Full(v - 1) /\ journal[v].lastStep = 0
    ELSE \E k \in 0 .. DDL[v] :
            /\ catalog = At(v, k)
            /\ k < DDL[v] => journal[v].lastStep \in k - 1 .. k
            /\ k = DDL[v] => journal[v].lastStep \in k - 1 .. NumSteps(v)
            /\ journal[v].lastStep > DDL[v] => Satisfied

\* Version v was begun and is not complete.
Partial(v) ==
    /\ CompleteBelow(v)
    /\ journal[v].state \in {"applying", "failed"}
    /\ NothingFrom(v + 1)
    /\ v >= Required => Satisfied
    /\ Progress(v)

Shape ==
    \/ Fresh
    \/ IsUnrecorded
    \/ \E v \in 1 .. Target + 1 : Finished(v)
    \/ \E v \in 1 .. Target : Partial(v)

\* Where a runner is within its version: a statement that was run by itself may
\* be one ahead of the journal, and so is the handler of a resumed version.
Applies(v, k) ==
    /\ Partial(v)
    /\ journal[v].state = "applying"
    /\ ~ transactional =>
          /\ k \in 0 .. NumSteps(v)
          /\ catalog = At(v, k)
          /\ k < DDL[v] => journal[v].lastStep = k
          /\ k > DDL[v] => Satisfied

Records(v, k) ==
    /\ Partial(v)
    /\ journal[v].state = "applying"
    /\ ~ transactional
    /\ k \in 1 .. NumSteps(v)
    /\ catalog = At(v, k)
    /\ k > DDL[v] => Satisfied

Place(pc, v, k) ==
    /\ pc = "created" => IsUnrecorded
    /\ pc \in {"version", "resume", "apply", "record"} => v \in 1 .. Target
    /\ pc = "version" => Finished(v)
    /\ pc = "resume" => Partial(v)
    /\ pc = "apply" => Applies(v, k)
    /\ pc = "record" => Records(v, k)

Places ==
    \A r \in Runners : Place(runner[r].pc, runner[r].version, runner[r].step)

MigrationInv == TypeOK /\ Shape /\ Places

-----------------------------------------------------------------------------
(* Facts about the plan.                                                   *)

\* The sizes of the plan are numbers, and version 0 comes before Backfill.
LEMMA PlanFacts ==
    /\ Target \in Nat
    /\ Backfill \in 1 .. Target - 1
    /\ Required \in 2 .. Target
    /\ \A v \in Versions :
          /\ DDL[v] \in Nat \ {0}
          /\ NumSteps(v) \in Nat \ {0}
          /\ NumSteps(v) \in DDL[v] .. DDL[v] + 1
          /\ v # Backfill => NumSteps(v) = DDL[v]
          /\ v = Backfill => NumSteps(v) = DDL[v] + 1
BY MigrationConstants DEF Versions, Required, NumSteps

\* The schemas of different places of the plan differ.
LEMMA CatalogFacts ==
    /\ \A v \in Versions : Full(v) # NoTables
    /\ \A v, u \in Versions : Full(v) = Full(u) => u = v
    /\ \A v \in 1 .. Target, k, l \in Nat :
          /\ k <= DDL[v] /\ l <= DDL[v] /\ At(v, k) = At(v, l) => k = l
          /\ At(v, k) # NoTables
    /\ \A v \in 1 .. Target, k \in Nat :
          /\ k >= DDL[v] <=> At(v, k) = Full(v)
          /\ At(v, 0) = Full(v - 1)
          /\ At(v, k) \in [version : Versions, ddl : Nat]
    /\ \A v \in Versions : Full(v) \in [version : Versions, ddl : Nat]
<1>1. \A v \in Versions : v \in Nat /\ DDL[v] \in Nat \ {0}
  BY PlanFacts DEF Versions
<1>2. \A v \in 1 .. Target : v \in Versions /\ v - 1 \in Versions /\ v # v - 1
  BY PlanFacts DEF Versions
<1>3. \A v, u \in Versions : Full(v).version = v /\ Full(v).ddl = DDL[v]
  BY DEF Full, Catalog
<1>4. NoTables.ddl = 0 /\ NoTables.version = 0
  BY DEF NoTables, Catalog
<1>5. \A v \in 1 .. Target, k \in Nat :
          /\ At(v, k).version = IF k = 0 THEN v - 1 ELSE v
          /\ k # 0 => At(v, k).ddl = IF k <= DDL[v] THEN k ELSE DDL[v]
          /\ k = 0 => At(v, k).ddl = DDL[v - 1]
  BY <1>1, <1>2 DEF At, Full, Catalog
<1>6. \A v \in Versions : Full(v) # NoTables
  BY <1>1, <1>3, <1>4
<1>7. \A v, u \in Versions : Full(v) = Full(u) => u = v
  BY <1>3
<1>8. ASSUME NEW v \in 1 .. Target, NEW k \in Nat
      PROVE  /\ At(v, k) # NoTables
             /\ k >= DDL[v] <=> At(v, k) = Full(v)
             /\ At(v, 0) = Full(v - 1)
             /\ At(v, k) \in [version : Versions, ddl : Nat]
  <2>1. v \in Versions /\ v - 1 \in Versions /\ DDL[v] \in Nat \ {0} /\ DDL[v - 1] \in Nat \ {0}
    BY <1>1, <1>2
  <2>2. At(v, k) # NoTables
    BY <1>4, <1>5, <2>1
  <2>3. k >= DDL[v] <=> At(v, k) = Full(v)
    BY <2>1 DEF At, Full, Catalog
  <2>4. At(v, 0) = Full(v - 1)
    BY DEF At
  <2>5. At(v, k) \in [version : Versions, ddl : Nat]
    BY <2>1 DEF At, Full, Catalog
  <2> QED
    BY <2>2, <2>3, <2>4, <2>5
<1>9. \A v \in 1 .. Target, k, l \in Nat :
          k <= DDL[v] /\ l <= DDL[v] /\ At(v, k) = At(v, l) => k = l
  BY <1>2, <1>5
<1>10. \A v \in Versions : Full(v) \in [version : Versions, ddl : Nat]
  BY <1>1 DEF Full, Catalog
<1> QED
  BY <1>6, <1>7, <1>8, <1>9, <1>10

-----------------------------------------------------------------------------
(* Type correctness.                                                       *)

RunnerRows ==
    [pc : {"idle", "inspect", "created", "again", "resume", "version", "apply", "record"},
     command : {"migrate", "resume"}, version : Versions, step : Nat]

EntryRows ==
    [state : {"none", "applying", "failed", "applied", "backwards"}, lastStep : Nat]

\* The last verified step is a number of a step.
LEMMA VerifiedType ==
    ASSUME TypeOK, NEW v \in Versions
    PROVE  LastVerifiedStep(v) \in Nat
<1>1. journal[v].lastStep \in Nat
  BY DEF TypeOK
<1> QED
  BY <1>1, PlanFacts DEF LastVerifiedStep

\* A runner that ends leaves the lock and everybody idle.
LEMMA EndsType ==
    ASSUME TypeOK, NEW r \in Runners, runner[r].pc # "idle", Ends(r)
    PROVE  /\ lock' \in Runners \cup {None}
           /\ runner' \in [Runners -> RunnerRows]
           /\ \A s \in Runners : runner'[s].pc # "idle" <=> lock' = s
<1>1. Stopped \in RunnerRows /\ Stopped.pc = "idle"
  BY PlanFacts DEF Stopped, RunnerRows, Versions
<1>2. runner \in [Runners -> RunnerRows] /\ lock = r
  BY DEF TypeOK, RunnerRows
<1>3. \A s \in Runners : s # r => runner[s].pc = "idle"
  BY <1>2 DEF TypeOK
<1> QED
  BY <1>1, <1>2, <1>3, MigrationConstants DEF Ends

\* A runner that goes on keeps the lock.
LEMMA GoesType ==
    ASSUME TypeOK, NEW r \in Runners, runner[r].pc # "idle", lock' = lock,
           NEW row \in RunnerRows, row.pc # "idle",
           runner' = [runner EXCEPT ![r] = row]
    PROVE  /\ lock' \in Runners \cup {None}
           /\ runner' \in [Runners -> RunnerRows]
           /\ \A s \in Runners : runner'[s].pc # "idle" <=> lock' = s
<1>1. runner \in [Runners -> RunnerRows] /\ lock = r
  BY DEF TypeOK, RunnerRows
<1>2. \A s \in Runners : s # r => runner[s].pc = "idle"
  BY <1>1 DEF TypeOK
<1> QED
  BY <1>1, <1>2

TypeDb ==
    /\ transactional \in BOOLEAN
    /\ catalog \in [version : Versions, ddl : Nat]
    /\ journal \in [Versions -> EntryRows]
    /\ events \subseteq {"unset", "orphan", "conflict"}
    /\ faults \in Nat

TypeRun ==
    /\ lock \in Runners \cup {None}
    /\ runner \in [Runners -> RunnerRows]
    /\ \A r \in Runners : runner[r].pc # "idle" <=> lock = r

\* The type invariant, split into rows and runners.
LEMMA TypeParts == TypeOK <=> TypeDb /\ TypeRun
BY DEF TypeOK, TypeDb, TypeRun, EntryRows, RunnerRows

\* Every step keeps the types.
LEMMA TypeStep ==
    ASSUME TypeOK, Places, Next
    PROVE  TypeOK'
<1>1. PICK r \in Runners :
          \/ \E command \in {"migrate", "resume"} : Acquire(r, command)
          \/ Works(r)
          \/ StepFails(r)
          \/ RunnerStops(r)
  BY DEF Next
<1> DEFINE v == runner[r].version
           k == runner[r].step
<1>2. TypeDb /\ TypeRun
  BY TypeParts
<1>3. runner[r] \in RunnerRows /\ v \in Versions /\ k \in Nat
  BY <1>2 DEF TypeRun, RunnerRows
<1>4. 0 \in Versions /\ \A u \in 1 .. Target : u \in Versions
  BY PlanFacts DEF Versions
<1>5. /\ Full(v) \in [version : Versions, ddl : Nat]
      /\ Full(0) \in [version : Versions, ddl : Nat]
  BY <1>3, <1>4, CatalogFacts
<1>6. \A u \in Versions : NumSteps(u) \in Nat
  BY PlanFacts
<1>7. /\ \A c \in {"applying", "failed", "applied"}, n \in Nat : Entry(c, n) \in EntryRows
      /\ Completed(v) \subseteq EntryRows
  BY <1>3, <1>6 DEF Entry, EntryRows, Completed
<1>8. LastVerifiedStep(v) \in Nat
  BY <1>3, VerifiedType
<1>9. runner[r].pc \in {"resume", "apply", "record", "version"} => v \in 1 .. Target
  BY DEF Places, Place
<1>10. ASSUME TypeDb', runner[r].pc # "idle", Ends(r)
       PROVE  TypeOK'
  BY <1>10, EndsType, TypeParts DEF TypeRun, TypeOK, TypeDb, EntryRows, RunnerRows
<1>11. ASSUME TypeDb', runner[r].pc # "idle", lock' = lock,
              NEW row \in RunnerRows, row.pc # "idle",
              runner' = [runner EXCEPT ![r] = row]
       PROVE  TypeOK'
  <2>1. TypeRun'
    BY <1>11, GoesType DEF TypeRun
  <2> QED
    BY <1>11, <2>1 DEF TypeRun, TypeOK, TypeDb, EntryRows, RunnerRows
<1>12. ASSUME TypeDb', runner[r].pc # "idle", lock' = lock,
              NEW pc \in {"created", "again", "resume", "version", "apply", "record"},
              NEW u \in Versions, NEW n \in Nat, Goes(r, pc, u, n)
       PROVE  TypeOK'
  <2> DEFINE row == [pc |-> pc, command |-> runner[r].command, version |-> u, step |-> n]
  <2>1. row \in RunnerRows /\ row.pc # "idle"
    BY <1>3 DEF RunnerRows
  <2>2. runner' = [runner EXCEPT ![r] = row]
    BY <1>12 DEF Goes
  <2> HIDE DEF row
  <2> QED
    BY <1>11, <1>12, <2>1, <2>2
<1>13. ASSUME TypeDb', runner[r].pc # "idle", lock' = lock, NEW u \in Versions, Migrates(r, u)
       PROVE  TypeOK'
  <2> DEFINE row == [pc |-> "version", command |-> "migrate", version |-> u, step |-> 0]
  <2>1. row \in RunnerRows /\ row.pc # "idle"
    BY DEF RunnerRows
  <2>2. runner' = [runner EXCEPT ![r] = row]
    BY <1>13 DEF Migrates
  <2> HIDE DEF row
  <2> QED
    BY <1>11, <1>13, <2>1, <2>2
<1>14. ASSUME TypeDb', runner[r].pc # "idle", VersionDone(r, v)
       PROVE  TypeOK'
  <2>1. v < Target => v + 1 \in Versions
    BY <1>3, PlanFacts DEF Versions
  <2> QED
    BY <1>3, <1>10, <1>12, <1>13, <1>14, <2>1 DEF VersionDone
<1>15. ASSUME UNCHANGED <<transactional, catalog, journal, events, faults>>
       PROVE  TypeDb'
  BY <1>2, <1>15 DEF TypeDb
<1>16. ASSUME NEW command \in {"migrate", "resume"}, Acquire(r, command)
       PROVE  TypeOK'
  <2>1. TypeDb'
    BY <1>15, <1>16 DEF Acquire
  <2>2. TypeRun'
    BY <1>2, <1>4, <1>16, MigrationConstants DEF Acquire, LockFree, TypeRun, RunnerRows
  <2> QED
    BY <2>1, <2>2 DEF TypeRun, TypeOK, TypeDb, EntryRows, RunnerRows
<1>17. CASE Refused(r)
  BY <1>10, <1>15, <1>17 DEF Refused
<1>18. CASE Bootstrap(r)
  <2>1. TypeDb'
    BY <1>2, <1>5, <1>18 DEF TypeDb, Bootstrap
  <2> QED
    BY <1>4, <1>12, <1>18, <2>1 DEF Bootstrap
<1>19. CASE RecordBootstrap(r)
  <2>1. TypeDb'
    BY <1>2, <1>4, <1>6, <1>7, <1>19 DEF TypeDb, RecordBootstrap
  <2>2. runner[r].pc # "idle"
    BY <1>19 DEF RecordBootstrap
  <2> QED
    BY <1>4, <1>12, <1>19, <2>1, <2>2 DEF RecordBootstrap
<1>20. ASSUME NEW u \in 1 .. Target, UpgradeStarts(r, u)
       PROVE  TypeOK'
  <2>1. runner[r].pc # "idle"
    BY <1>20 DEF UpgradeStarts
  <2> QED
    BY <1>4, <1>13, <1>15, <1>20, <2>1 DEF UpgradeStarts
<1>21. ASSUME NEW u \in 1 .. Target, ResumeStarts(r, u)
       PROVE  TypeOK'
  BY <1>4, <1>12, <1>15, <1>21 DEF ResumeStarts
<1>22. CASE CommandEnds(r)
  BY <1>10, <1>15, <1>22 DEF CommandEnds
<1>23. CASE PromoteApplying(r)
  <2>1. TypeDb'
    BY <1>2, <1>3, <1>23 DEF TypeDb, PromoteApplying, EntryRows
  <2>2. TypeRun'
    BY <1>2, <1>23 DEF TypeRun, PromoteApplying
  <2> QED
    BY <2>1, <2>2 DEF TypeRun, TypeOK, TypeDb, EntryRows, RunnerRows
<1>24. CASE CatchUp(r)
  <2>1. TypeDb'
    BY <1>2, <1>3, <1>8, <1>24 DEF TypeDb, CatchUp, EntryRows
  <2>2. TypeRun'
    BY <1>2, <1>24 DEF TypeRun, CatchUp
  <2> QED
    BY <2>1, <2>2 DEF TypeRun, TypeOK, TypeDb, EntryRows, RunnerRows
<1>25. CASE ResumeApplies(r)
  BY <1>3, <1>8, <1>12, <1>15, <1>25 DEF ResumeApplies
<1>26. CASE ResumeMarks(r)
  <2>1. TypeDb'
    BY <1>2, <1>3, <1>6, <1>7, <1>26 DEF TypeDb, ResumeMarks
  <2> QED
    BY <1>3, <1>12, <1>26, <2>1 DEF ResumeMarks
<1>27. CASE InsertApplying(r)
  <2>1. TypeDb'
    BY <1>2, <1>3, <1>7, <1>27 DEF TypeDb, InsertApplying
  <2> QED
    BY <1>3, <1>12, <1>27, <2>1 DEF InsertApplying
<1>28. CASE ApplyTransactional(r)
  <2>1. TypeDb'
    BY <1>2, <1>3, <1>5, <1>6, <1>7, <1>28 DEF TypeDb, ApplyTransactional, Backfilled
  <2> QED
    BY <1>14, <1>28, <2>1 DEF ApplyTransactional
<1>29. CASE ExecuteStatement(r)
  <2>1. At(v, k + 1) \in [version : Versions, ddl : Nat]
    BY <1>3, <1>9, <1>29, CatalogFacts DEF ExecuteStatement
  <2>2. TypeDb'
    BY <1>2, <1>29, <2>1 DEF TypeDb, ExecuteStatement
  <2> QED
    BY <1>3, <1>12, <1>29, <2>2 DEF ExecuteStatement
<1>30. CASE ExecuteHandler(r)
  <2>1. TypeDb'
    BY <1>2, <1>30 DEF TypeDb, ExecuteHandler, Backfilled
  <2> QED
    BY <1>3, <1>12, <1>30, <2>1 DEF ExecuteHandler
<1>31. CASE RecordStep(r)
  <2>1. TypeDb'
    BY <1>2, <1>3, <1>31 DEF TypeDb, RecordStep, EntryRows
  <2> QED
    BY <1>3, <1>12, <1>31, <2>1 DEF RecordStep
<1>32. CASE MarkApplied(r)
  <2>1. TypeDb'
    BY <1>2, <1>3, <1>6, <1>7, <1>32 DEF TypeDb, MarkApplied
  <2> QED
    BY <1>14, <1>32, <2>1 DEF MarkApplied
<1>33. CASE HandlerRefuses(r)
  BY <1>10, <1>15, <1>33 DEF HandlerRefuses
<1>34. CASE StepFails(r)
  <2>1. TypeDb'
    BY <1>2, <1>3, <1>34 DEF TypeDb, StepFails, EntryRows
  <2> QED
    BY <1>10, <1>34, <2>1 DEF StepFails
<1>35. CASE RunnerStops(r)
  <2>1. TypeDb'
    BY <1>2, <1>35 DEF TypeDb, RunnerStops
  <2> QED
    BY <1>10, <1>35, <2>1 DEF RunnerStops
<1> QED
  BY <1>1, <1>16, <1>17, <1>18, <1>19, <1>20, <1>21, <1>22, <1>23, <1>24, <1>25, <1>26,
     <1>27, <1>28, <1>29, <1>30, <1>31, <1>32, <1>33, <1>34, <1>35 DEF Works

-----------------------------------------------------------------------------
(* The shape of the database.                                              *)

DbUnchanged == UNCHANGED <<transactional, catalog, journal, events>>

\* The rows of a completed version.
LEMMA CompletedRows ==
    \A v, e : e \in Completed(v) =>
        /\ e.state \in {"applied", "backwards"}
        /\ e.state # "backwards" => e = Entry("applied", NumSteps(v))
BY DEF Completed, Entry

\* A step that writes nothing to the database keeps what is known of it.
LEMMA Frame ==
    ASSUME DbUnchanged
    PROVE  /\ Shape' <=> Shape
           /\ IsUnrecorded' <=> IsUnrecorded
           /\ \A v \in 1 .. Target + 1 : Finished(v)' <=> Finished(v)
           /\ \A v \in 1 .. Target : Partial(v)' <=> Partial(v)
           /\ \A v \in 1 .. Target, k \in Nat :
                 (Applies(v, k)' <=> Applies(v, k)) /\ (Records(v, k)' <=> Records(v, k))
<1>1. IsUnrecorded' <=> IsUnrecorded
  BY DEF DbUnchanged, IsUnrecorded, NothingFrom
<1>2. Fresh' <=> Fresh
  BY DEF DbUnchanged, Fresh, NothingFrom
<1>3. Satisfied' <=> Satisfied
  BY DEF DbUnchanged, Satisfied
<1>4. ASSUME NEW v \in Int
      PROVE  (CompleteBelow(v)' <=> CompleteBelow(v)) /\ (NothingFrom(v)' <=> NothingFrom(v))
  BY DEF DbUnchanged, CompleteBelow, NothingFrom
<1>5. ASSUME NEW v \in 1 .. Target + 1
      PROVE  Finished(v)' <=> Finished(v)
  BY <1>3, <1>4 DEF DbUnchanged, Finished
<1>6. ASSUME NEW v \in 1 .. Target
      PROVE  Partial(v)' <=> Partial(v)
  <2>1. Progress(v)' <=> Progress(v)
    BY <1>3 DEF DbUnchanged, Progress
  <2> QED
    BY <1>3, <1>4, <2>1 DEF DbUnchanged, Partial
<1>7. ASSUME NEW v \in 1 .. Target, NEW k \in Nat
      PROVE  (Applies(v, k)' <=> Applies(v, k)) /\ (Records(v, k)' <=> Records(v, k))
  BY <1>3, <1>6 DEF DbUnchanged, Applies, Records
<1>8. Shape' <=> Shape
  BY <1>1, <1>2, <1>5, <1>6 DEF Shape
<1> QED
  BY <1>1, <1>5, <1>6, <1>7, <1>8

\* Other runners are idle, so a step is judged by the place its runner reaches.
LEMMA PlacesFrom ==
    ASSUME TypeOK, TypeOK', NEW r \in Runners,
           lock = r \/ lock' = r,
           \A s \in Runners : s # r => runner'[s] = runner[s],
           Place(runner[r].pc, runner[r].version, runner[r].step)'
    PROVE  Places'
<1> SUFFICES ASSUME NEW s \in Runners, s # r
             PROVE  Place(runner[s].pc, runner[s].version, runner[s].step)'
  BY DEF Places
<1>1. runner'[s].pc = "idle"
  BY DEF TypeOK
<1> QED
  BY <1>1 DEF Place

\* Writing the row of version v leaves the others as they are.
LEMMA RowWritten ==
    ASSUME TypeOK, NEW v \in 1 .. Target, NEW e,
           journal' = [journal EXCEPT ![v] = e]
    PROVE  /\ journal'[v] = e
           /\ CompleteBelow(v)' <=> CompleteBelow(v)
           /\ NothingFrom(v + 1)' <=> NothingFrom(v + 1)
           /\ CompleteBelow(v) /\ e \in Completed(v) => CompleteBelow(v + 1)'
<1>1. v \in Versions /\ journal \in [Versions -> EntryRows]
  BY PlanFacts DEF TypeOK, EntryRows, Versions
<1>2. journal'[v] = e /\ \A u \in Versions : u # v => journal'[u] = journal[u]
  BY <1>1
<1>3. \A u \in 0 .. v - 1 : u \in Versions /\ u # v
  BY PlanFacts DEF Versions
<1>4. \A u \in v + 1 .. Target : u \in Versions /\ u # v
  BY PlanFacts DEF Versions
<1>5. \A u \in 0 .. (v + 1) - 1 : u = v \/ u \in 0 .. v - 1
  BY PlanFacts
<1>6. CompleteBelow(v)' <=> CompleteBelow(v)
  BY <1>2, <1>3 DEF CompleteBelow
<1>7. NothingFrom(v + 1)' <=> NothingFrom(v + 1)
  BY <1>2, <1>4 DEF NothingFrom
<1>8. CompleteBelow(v) /\ e \in Completed(v) => CompleteBelow(v + 1)'
  BY <1>2, <1>3, <1>5 DEF CompleteBelow
<1> QED
  BY <1>2, <1>6, <1>7, <1>8

\* Once the row and the schema of a version are complete, the next
\* version may begin.
LEMMA VersionFinished ==
    ASSUME TypeOK, NEW v \in 1 .. Target, Partial(v), NEW e \in Completed(v),
           journal' = [journal EXCEPT ![v] = e],
           catalog' = Full(v),
           v = Backfill => Satisfied',
           v # Backfill => UNCHANGED events
    PROVE  Finished(v + 1)'
<1>1. CompleteBelow(v + 1)' /\ NothingFrom(v + 1)'
  BY RowWritten DEF Partial
<1>2. catalog' = Full((v + 1) - 1)
  BY PlanFacts
<1>3. v + 1 >= Required => Satisfied'
  <2>1. CASE v = Backfill
    BY <2>1
  <2>2. CASE v # Backfill
    BY <2>2, PlanFacts DEF Partial, Satisfied, Required
  <2> QED
    BY <2>1, <2>2
<1> QED
  BY <1>1, <1>2, <1>3 DEF Finished

\* The fields of a journal row.
LEMMA EntryFields ==
    \A state, k : Entry(state, k).state = state /\ Entry(state, k).lastStep = k
BY DEF Entry

\* Writing one field of a row writes the row.
LEMMA FieldWritten ==
    \A e \in EntryRows : \A state, k :
        /\ [e EXCEPT !.state = state] = Entry(state, e.lastStep)
        /\ [e EXCEPT !.lastStep = k] = Entry(e.state, k)
BY DEF EntryRows, Entry

\* The first version that is not applied decides the shape.
LEMMA Frontier ==
    ASSUME TypeOK, Shape, NEW v \in 1 .. Target, AppliedBelow(v)
    PROVE  /\ NothingFrom(v) => Finished(v)
           /\ journal[v].state \in {"applying", "failed"} => Partial(v)
<1>1. /\ \A u \in 0 .. v - 1 : journal[u].state = "applied"
      /\ 0 \in 0 .. v - 1 /\ v \in v .. Target
  BY PlanFacts, EntryFields DEF AppliedBelow
<1>2. ~ NothingFrom(0)
  BY <1>1, PlanFacts DEF NothingFrom
<1>3. ASSUME NEW u \in 1 .. Target + 1, Finished(u)
      PROVE  /\ NothingFrom(v) => u = v
             /\ journal[v].state \notin {"applying", "failed"}
  <2>1. u <= Target => journal[u].state = "none"
    BY <1>3, PlanFacts DEF Finished, NothingFrom
  <2>2. ~ (u < v)
    BY <1>1, <2>1, PlanFacts
  <2>3. u > v => journal[v].state \in {"applied", "backwards"}
    BY <1>3, PlanFacts, CompletedRows DEF Finished, CompleteBelow
  <2>4. NothingFrom(v) => journal[v].state = "none"
    BY <1>1 DEF NothingFrom
  <2> QED
    BY <2>1, <2>2, <2>3, <2>4, PlanFacts
<1>4. ASSUME NEW u \in 1 .. Target, Partial(u)
      PROVE  /\ ~ NothingFrom(v)
             /\ journal[v].state \in {"applying", "failed"} => u = v
  <2>1. journal[u].state \in {"applying", "failed"}
    BY <1>4 DEF Partial
  <2>2. ~ (u < v)
    BY <1>1, <2>1, PlanFacts
  <2>3. u > v => journal[v].state \in {"applied", "backwards"}
    BY <1>4, PlanFacts, CompletedRows DEF Partial, CompleteBelow
  <2>4. NothingFrom(v) => journal[u].state = "none"
    BY <2>2, PlanFacts DEF NothingFrom
  <2> QED
    BY <2>1, <2>2, <2>3, <2>4, PlanFacts
<1> QED
  BY <1>2, <1>3, <1>4 DEF Shape, Fresh, IsUnrecorded

\* Only a fresh database has no tables.
LEMMA EmptyIsFresh ==
    ASSUME Shape, IsEmpty
    PROVE  NothingFrom(0)
<1>1. catalog = NoTables /\ catalog # Full(0)
  BY CatalogFacts, PlanFacts DEF IsEmpty, Versions
<1>2. ASSUME NEW u \in 1 .. Target + 1, Finished(u)
      PROVE  FALSE
  <2>1. u - 1 \in Versions
    BY PlanFacts DEF Versions
  <2> QED
    BY <1>1, <1>2, <2>1, CatalogFacts DEF Finished
<1>3. ASSUME NEW u \in 1 .. Target, Partial(u)
      PROVE  FALSE
  <2>1. u - 1 \in Versions /\ u \in Versions
    BY PlanFacts DEF Versions
  <2>2. Full(u - 1) # NoTables /\ \A k \in 0 .. DDL[u] : At(u, k) # NoTables
    BY <2>1, CatalogFacts, PlanFacts
  <2> QED
    BY <1>1, <1>3, <2>2 DEF Partial, Progress
<1> QED
  BY <1>1, <1>2, <1>3 DEF Shape, Fresh, IsUnrecorded

\* What the last verified step says of an incomplete version.
LEMMA VerifiedFacts ==
    ASSUME TypeOK, NEW v \in 1 .. Target, Partial(v)
    PROVE  /\ transactional => catalog # Full(v) /\ LastVerifiedStep(v) = 0
           /\ ~ transactional /\ catalog = Full(v) =>
                 LastVerifiedStep(v) = IF HandlerPending(v) THEN DDL[v] ELSE NumSteps(v)
           /\ ~ transactional /\ catalog # Full(v) =>
                 /\ LastVerifiedStep(v) \in 0 .. DDL[v] - 1
                 /\ catalog = At(v, LastVerifiedStep(v))
                 /\ journal[v].lastStep <= LastVerifiedStep(v)
<1>1. v \in Versions /\ v - 1 \in Versions /\ DDL[v] \in Nat \ {0}
  BY PlanFacts DEF Versions
<1>2. Full(v) # Full(v - 1)
  BY <1>1, CatalogFacts, PlanFacts
<1>3. transactional => catalog # Full(v) /\ LastVerifiedStep(v) = 0
  BY <1>2 DEF Partial, Progress, LastVerifiedStep
<1>4. ~ transactional /\ catalog = Full(v) =>
          LastVerifiedStep(v) = IF HandlerPending(v) THEN DDL[v] ELSE NumSteps(v)
  BY <1>1, PlanFacts DEF LastVerifiedStep, HandlerPending
<1>5. ASSUME ~ transactional, catalog # Full(v)
      PROVE  /\ LastVerifiedStep(v) \in 0 .. DDL[v] - 1
             /\ catalog = At(v, LastVerifiedStep(v))
             /\ journal[v].lastStep <= LastVerifiedStep(v)
  <2>1. PICK k \in 0 .. DDL[v] :
            /\ catalog = At(v, k)
            /\ k < DDL[v] => journal[v].lastStep \in k - 1 .. k
    BY <1>5 DEF Partial, Progress
  <2>2. k \in Nat /\ k < DDL[v]
    BY <1>1, <1>5, <2>1, CatalogFacts
  <2>3. journal[v].lastStep \in Nat
    BY <1>1 DEF TypeOK
  <2>4. CASE journal[v].lastStep = k
    <3>1. LastVerifiedStep(v) = k
      BY <1>5, <2>1, <2>4 DEF LastVerifiedStep
    <3> QED
      BY <1>1, <2>1, <2>2, <2>4, <3>1
  <2>5. CASE journal[v].lastStep = k - 1
    <3>1. catalog # At(v, journal[v].lastStep)
      BY <1>1, <2>1, <2>2, <2>3, <2>5, CatalogFacts
    <3>2. LastVerifiedStep(v) = journal[v].lastStep + 1
      BY <1>5, <3>1 DEF LastVerifiedStep
    <3>3. LastVerifiedStep(v) = k
      BY <2>2, <2>5, <3>2
    <3> QED
      BY <1>1, <2>1, <2>2, <2>5, <3>3
  <2> QED
    BY <2>1, <2>2, <2>4, <2>5
<1> QED
  BY <1>3, <1>4, <1>5

\* A runner that is at work is judged by where it arrives.
LEMMA Arrives ==
    ASSUME TypeOK, TypeOK', NEW r \in Runners, lock' = r,
           \A s \in Runners : s # r => runner'[s] = runner[s],
           NEW pc, NEW v, NEW k, Place(pc, v, k)',
           runner'[r].pc = pc, runner'[r].version = v, runner'[r].step = k
    PROVE  Places'
<1>1. Place(runner[r].pc, runner[r].version, runner[r].step)'
  BY DEF Place
<1> QED
  BY <1>1, PlacesFrom

\* Nobody is at work once a runner ended.
LEMMA AllIdle ==
    ASSUME TypeOK', lock' = None
    PROVE  Places'
BY MigrationConstants DEF TypeOK, Places, Place

\* An incomplete version stays one while its row is rewritten.
LEMMA PartialWritten ==
    ASSUME TypeOK, NEW v \in 1 .. Target, CompleteBelow(v), NothingFrom(v + 1),
           v >= Required => Satisfied',
           NEW e, journal' = [journal EXCEPT ![v] = e],
           e.state \in {"applying", "failed"},
           Progress(v)'
    PROVE  Partial(v)' /\ journal'[v] = e
<1>1. journal'[v] = e /\ CompleteBelow(v)' /\ NothingFrom(v + 1)'
  BY RowWritten
<1> QED
  BY <1>1 DEF Partial

\* A version ends: the runner goes on with the next one, inspects or stops.
LEMMA VersionEnds ==
    ASSUME TypeOK, TypeOK', NEW r \in Runners, runner[r].pc # "idle",
           NEW v \in 1 .. Target, Finished(v + 1)', VersionDone(r, v)
    PROVE  Shape' /\ Places'
<1>1. v + 1 \in 1 .. Target + 1 /\ (v < Target => v + 1 \in 1 .. Target)
  BY PlanFacts
<1>2. Shape'
  BY <1>1 DEF Shape
<1>3. lock = r /\ runner \in [Runners -> RunnerRows]
  BY DEF TypeOK, RunnerRows
<1>4. CASE Goes(r, "again", v, 0) /\ UNCHANGED lock
  <2>1. Place("again", v, 0)'
    BY DEF Place
  <2> QED
    BY <1>2, <1>3, <1>4, <2>1, Arrives DEF Goes
<1>5. CASE v < Target /\ Migrates(r, v + 1) /\ UNCHANGED lock
  <2>1. Place("version", v + 1, 0)'
    BY <1>1, <1>5 DEF Place
  <2> QED
    BY <1>2, <1>3, <1>5, <2>1, Arrives DEF Migrates
<1>6. CASE Ends(r)
  BY <1>2, <1>6, AllIdle DEF Ends
<1> QED
  BY <1>4, <1>5, <1>6 DEF VersionDone

\* Steps that write nothing, and the steps that set up the journal.
LEMMA ControlStep ==
    ASSUME MigrationInv, TypeOK', NEW r \in Runners,
           \/ \E command \in {"migrate", "resume"} : Acquire(r, command)
           \/ Refused(r) \/ CommandEnds(r) \/ HandlerRefuses(r) \/ RunnerStops(r)
           \/ Bootstrap(r) \/ RecordBootstrap(r)
           \/ \E v \in 1 .. Target : UpgradeStarts(r, v) \/ ResumeStarts(r, v)
    PROVE  Shape' /\ Places'
<1>1. TypeOK /\ Shape /\ Places
  BY DEF MigrationInv
<1>2. runner \in [Runners -> RunnerRows]
  BY <1>1 DEF TypeOK, RunnerRows
<1>3. runner[r].pc # "idle" => lock = r
  BY <1>1 DEF TypeOK
<1>4. ASSUME NEW command \in {"migrate", "resume"}, Acquire(r, command)
      PROVE  Shape' /\ Places'
  <2>1. Shape'
    BY <1>1, <1>4, Frame DEF Acquire, DbUnchanged
  <2>2. Place("inspect", 0, 0)'
    BY DEF Place
  <2> QED
    BY <1>1, <1>2, <1>4, <2>1, <2>2, Arrives DEF Acquire
<1>5. ASSUME DbUnchanged, Ends(r)
      PROVE  Shape' /\ Places'
  BY <1>1, <1>5, Frame, AllIdle DEF Ends
<1>6. CASE Refused(r) \/ CommandEnds(r) \/ HandlerRefuses(r) \/ RunnerStops(r)
  BY <1>5, <1>6 DEF Refused, CommandEnds, HandlerRefuses, RunnerStops, DbUnchanged
<1>7. CASE Bootstrap(r)
  <2>1. NothingFrom(0)
    BY <1>1, <1>7, EmptyIsFresh DEF Bootstrap
  <2>2. IsUnrecorded'
    BY <1>7, <2>1 DEF Bootstrap, IsUnrecorded, NothingFrom
  <2>3. Shape' /\ Place("created", 0, 0)'
    BY <2>2 DEF Shape, Place
  <2> QED
    BY <1>1, <1>2, <1>3, <1>7, <2>3, Arrives DEF Bootstrap, Goes
<1>8. CASE RecordBootstrap(r)
  <2>1. IsUnrecorded
    BY <1>1, <1>8 DEF RecordBootstrap, Places, Place
  <2>2. journal \in [Versions -> EntryRows] /\ 0 \in Versions
    <3>1. 0 \in Versions
      BY PlanFacts DEF Versions
    <3> QED
      BY <1>1, <3>1 DEF TypeOK, EntryRows
  <2>3. journal'[0] = Entry("applied", NumSteps(0))
    BY <1>8, <2>2 DEF RecordBootstrap
  <2>4. \A u \in 1 .. Target : u \in Versions /\ u \in 0 .. Target /\ u # 0
    BY PlanFacts DEF Versions
  <2>5. \A u \in 1 .. Target : journal'[u] = journal[u]
    BY <1>8, <2>2, <2>4 DEF RecordBootstrap
  <2>6. CompleteBelow(1)'
    <3>1. \A u \in 0 .. 1 - 1 : u = 0
      OBVIOUS
    <3> QED
      BY <2>3, <3>1 DEF CompleteBelow, Completed
  <2>7. NothingFrom(1)'
    BY <2>1, <2>4, <2>5 DEF IsUnrecorded, NothingFrom
  <2>8. catalog' = Full(1 - 1) /\ ~ (1 >= Required) /\ 1 \in 1 .. Target + 1
    BY <1>8, PlanFacts DEF RecordBootstrap
  <2>9. Finished(1)'
    BY <2>6, <2>7, <2>8 DEF Finished
  <2>10. Shape' /\ Place("again", 0, 0)'
    BY <2>8, <2>9 DEF Shape, Place
  <2> QED
    BY <1>1, <1>2, <1>3, <1>8, <2>10, Arrives DEF RecordBootstrap, Goes
<1>9. ASSUME NEW v \in 1 .. Target, UpgradeStarts(r, v)
      PROVE  Shape' /\ Places'
  <2>1. Finished(v) /\ v \in 1 .. Target + 1
    BY <1>1, <1>9, Frontier, PlanFacts DEF UpgradeStarts, UpgradeFrom
  <2>2. Shape' /\ Place("version", v, 0)'
    BY <1>1, <1>9, <2>1, Frame DEF UpgradeStarts, DbUnchanged, Place
  <2> QED
    BY <1>1, <1>2, <1>3, <1>9, <2>2, Arrives DEF UpgradeStarts, Migrates
<1>10. ASSUME NEW v \in 1 .. Target, ResumeStarts(r, v)
       PROVE  Shape' /\ Places'
  <2>1. Partial(v)
    BY <1>1, <1>10, Frontier DEF ResumeStarts, ResumeAt
  <2>2. Shape' /\ Place("resume", v, 0)'
    BY <1>1, <1>10, <2>1, Frame DEF ResumeStarts, DbUnchanged, Place
  <2> QED
    BY <1>1, <1>2, <1>3, <1>10, <2>2, Arrives DEF ResumeStarts, Goes
<1> QED
  BY <1>4, <1>6, <1>7, <1>8, <1>9, <1>10

\* resumeIncomplete keeps the shape.
LEMMA ResumeStep ==
    ASSUME MigrationInv, TypeOK', NEW r \in Runners,
           PromoteApplying(r) \/ CatchUp(r) \/ ResumeApplies(r) \/ ResumeMarks(r)
    PROVE  Shape' /\ Places'
<1>1. TypeOK /\ Shape /\ Places
  BY DEF MigrationInv
<1>2. runner \in [Runners -> RunnerRows] /\ runner[r] \in RunnerRows
  BY <1>1 DEF TypeOK, RunnerRows
<1>3. PICK v \in Versions, k \in Nat : v = runner[r].version /\ k = runner[r].step
  BY <1>2 DEF RunnerRows
<1>4. runner[r].pc = "resume" /\ lock = r
  BY <1>1 DEF PromoteApplying, CatchUp, ResumeApplies, ResumeMarks, TypeOK
<1>5. v \in 1 .. Target /\ Partial(v)
  BY <1>1, <1>3, <1>4 DEF Places, Place
<1>6. PICK n \in Nat : n = LastVerifiedStep(v)
  BY <1>1, VerifiedType
<1>7. DDL[v] \in Nat \ {0} /\ NumSteps(v) \in DDL[v] .. DDL[v] + 1 /\ journal[v].lastStep \in Nat
  BY <1>1, PlanFacts DEF TypeOK
<1>8. /\ transactional => catalog # Full(v) /\ n = 0
      /\ ~ transactional /\ catalog = Full(v) =>
            n = IF HandlerPending(v) THEN DDL[v] ELSE NumSteps(v)
      /\ ~ transactional /\ catalog # Full(v) =>
            /\ n \in 0 .. DDL[v] - 1
            /\ catalog = At(v, n)
            /\ journal[v].lastStep <= n
  BY <1>1, <1>5, <1>6, VerifiedFacts
<1>9. NumSteps(v) > DDL[v] => v = Backfill
  BY <1>7, PlanFacts
<1>10. journal \in [Versions -> EntryRows] /\ journal[v] \in EntryRows
  BY <1>1 DEF TypeOK, EntryRows
<1>11. CASE PromoteApplying(r)
  <2> DEFINE e == Entry("applying", journal[v].lastStep)
  <2>1. journal' = [journal EXCEPT ![v] = e]
    <3>1. [journal[v] EXCEPT !.state = "applying"] = e
      BY <1>10, FieldWritten
    <3>2. journal' = [journal EXCEPT ![v] = [journal[v] EXCEPT !.state = "applying"]]
      BY <1>3, <1>11 DEF PromoteApplying
    <3> QED
      BY <3>1, <3>2
  <2>2. journal'[v].lastStep = journal[v].lastStep
    BY <1>10, <2>1 DEF Entry
  <2>3. Progress(v)' /\ (v >= Required => Satisfied')
    BY <1>5, <1>11, <2>2 DEF PromoteApplying, Partial, Progress, Satisfied
  <2>4. e.state = "applying"
    BY DEF Entry
  <2>5. Partial(v)'
    <3> HIDE DEF e
    <3> QED
      BY <1>1, <1>5, <2>1, <2>3, <2>4, PartialWritten DEF Partial
  <2>6. Shape' /\ Place("resume", v, k)'
    BY <1>5, <2>5 DEF Shape, Place
  <2> QED
    BY <1>1, <1>3, <1>4, <1>11, <2>6, Arrives DEF PromoteApplying
<1>12. CASE CatchUp(r)
  <2> DEFINE e == Entry("applying", n)
  <2>1. journal' = [journal EXCEPT ![v] = e]
    <3>1. journal[v].state = "applying"
      BY <1>3, <1>12 DEF CatchUp
    <3>2. [journal[v] EXCEPT !.lastStep = n] = e
      BY <1>10, <3>1, FieldWritten
    <3>3. journal' = [journal EXCEPT ![v] = [journal[v] EXCEPT !.lastStep = n]]
      BY <1>3, <1>6, <1>12 DEF CatchUp
    <3> QED
      BY <3>2, <3>3
  <2>2. journal'[v].lastStep = n
    BY <1>10, <2>1 DEF Entry
  <2>3. ~ transactional /\ n > journal[v].lastStep
    BY <1>3, <1>6, <1>7, <1>8, <1>12 DEF CatchUp
  <2>4. catalog = Full(v) => n = NumSteps(v) /\ (v = Backfill => Satisfied)
    BY <1>3, <1>8, <1>12, <2>3 DEF CatchUp, HandlerPending
  <2>5. UNCHANGED <<transactional, catalog, events>>
    BY <1>12 DEF CatchUp
  <2>6. Progress(v)'
    <3>1. CASE catalog = Full(v)
      <4>1. catalog' = At(v, DDL[v]) /\ DDL[v] \in 0 .. DDL[v]
        BY <1>5, <1>7, <2>5, <3>1, CatalogFacts
      <4>2. n \in DDL[v] - 1 .. NumSteps(v)
        BY <1>7, <2>4, <3>1
      <4>3. n > DDL[v] => Satisfied'
        BY <1>9, <2>4, <2>5, <3>1 DEF Satisfied
      <4> QED
        BY <1>7, <2>2, <2>3, <2>5, <4>1, <4>2, <4>3 DEF Progress
    <3>2. CASE catalog # Full(v)
      <4>1. catalog' = At(v, n) /\ n \in 0 .. DDL[v] /\ n < DDL[v]
        BY <1>7, <1>8, <2>3, <2>5, <3>2
      <4> QED
        BY <1>7, <2>2, <2>3, <2>5, <4>1 DEF Progress
    <3> QED
      BY <3>1, <3>2
  <2>7. e.state = "applying"
    BY DEF Entry
  <2>8. v >= Required => Satisfied'
    BY <1>5, <2>5 DEF Partial, Satisfied
  <2>9. Partial(v)'
    <3> HIDE DEF e
    <3> QED
      BY <1>1, <1>5, <2>1, <2>6, <2>7, <2>8, PartialWritten DEF Partial
  <2>10. Shape' /\ Place("resume", v, k)'
    BY <1>5, <2>9 DEF Shape, Place
  <2> QED
    BY <1>1, <1>3, <1>4, <1>12, <2>10, Arrives DEF CatchUp
<1>13. CASE ResumeApplies(r)
  <2>1. journal[v].state = "applying" /\ (catalog = Full(v) \/ n <= journal[v].lastStep)
    BY <1>3, <1>6, <1>13 DEF ResumeApplies
  <2>2. ASSUME ~ transactional
        PROVE  /\ n \in 0 .. NumSteps(v)
               /\ catalog = At(v, n)
               /\ n < DDL[v] => journal[v].lastStep = n
               /\ n > DDL[v] => Satisfied
    <3>1. CASE catalog = Full(v)
      <4>1. n = IF HandlerPending(v) THEN DDL[v] ELSE NumSteps(v)
        BY <1>8, <2>2, <3>1
      <4>2. n \in Nat /\ n >= DDL[v] /\ n <= NumSteps(v)
        BY <1>7, <4>1
      <4>3. At(v, n) = Full(v)
        BY <1>5, <4>2, CatalogFacts
      <4>4. n > DDL[v] => Satisfied
        BY <1>7, <1>9, <4>1 DEF HandlerPending
      <4> QED
        BY <1>7, <3>1, <4>2, <4>3, <4>4
    <3>2. CASE catalog # Full(v)
      BY <1>7, <1>8, <2>1, <2>2, <3>2
    <3> QED
      BY <3>1, <3>2
  <2>3. Applies(v, n)
    BY <1>5, <2>1, <2>2 DEF Applies
  <2>4. Shape' /\ Place("apply", v, n)'
    BY <1>1, <1>5, <1>13, <2>3, Frame DEF ResumeApplies, DbUnchanged, Place
  <2> QED
    BY <1>1, <1>2, <1>3, <1>4, <1>6, <1>13, <2>4, Arrives DEF ResumeApplies, Goes
<1>14. CASE ResumeMarks(r)
  <2>1. catalog = Full(v) /\ ~ (n < NumSteps(v))
    BY <1>3, <1>6, <1>14 DEF ResumeMarks, MustApply
  <2>2. v = Backfill => Satisfied
    BY <1>7, <1>8, <2>1, PlanFacts DEF HandlerPending
  <2>3. PICK e \in Completed(v) :
            /\ journal' = [journal EXCEPT ![v] = e]
            /\ catalog' = Full(v) /\ UNCHANGED events
    BY <1>3, <1>14, <2>1 DEF ResumeMarks
  <2>4. v = Backfill => Satisfied'
    BY <2>2, <2>3 DEF Satisfied
  <2>5. Finished(v + 1)'
    BY <1>1, <1>5, <2>3, <2>4, VersionFinished
  <2>6. Shape' /\ Place("again", v, 0)'
    BY <1>5, <2>5, PlanFacts DEF Shape, Place
  <2> QED
    BY <1>1, <1>2, <1>3, <1>4, <1>14, <2>6, Arrives DEF ResumeMarks, Goes
<1> QED
  BY <1>11, <1>12, <1>13, <1>14

\* applyVersion keeps the shape.
LEMMA ApplyStep ==
    ASSUME MigrationInv, TypeOK', NEW r \in Runners,
           \/ InsertApplying(r) \/ ApplyTransactional(r) \/ ExecuteStatement(r)
           \/ ExecuteHandler(r) \/ RecordStep(r) \/ MarkApplied(r) \/ StepFails(r)
    PROVE  Shape' /\ Places'
<1>1. TypeOK /\ Shape /\ Places
  BY DEF MigrationInv
<1>2. runner \in [Runners -> RunnerRows] /\ runner[r] \in RunnerRows
  BY <1>1 DEF TypeOK, RunnerRows
<1>3. PICK v \in Versions, k \in Nat : v = runner[r].version /\ k = runner[r].step
  BY <1>2 DEF RunnerRows
<1>4. runner[r].pc \in {"version", "apply", "record"} /\ lock = r
  BY <1>1 DEF InsertApplying, ApplyTransactional, ExecuteStatement, ExecuteHandler,
              RecordStep, MarkApplied, StepFails, TypeOK
<1>5. /\ v \in 1 .. Target
      /\ runner[r].pc = "version" => Finished(v)
      /\ runner[r].pc = "apply" => Applies(v, k)
      /\ runner[r].pc = "record" => Records(v, k)
  BY <1>1, <1>3, <1>4 DEF Places, Place
<1>6. /\ DDL[v] \in Nat \ {0} /\ NumSteps(v) \in DDL[v] .. DDL[v] + 1
      /\ journal[v].lastStep \in Nat
      /\ v \in Int /\ Required \in Int
  BY <1>1, <1>5, PlanFacts DEF TypeOK
<1>7. journal \in [Versions -> EntryRows] /\ journal[v] \in EntryRows
  BY <1>1 DEF TypeOK, EntryRows
<1>8. ASSUME UNCHANGED <<journal, transactional>>, Partial(v), Progress(v)',
             v >= Required => Satisfied'
      PROVE  Partial(v)'
  BY <1>8 DEF Partial, CompleteBelow, NothingFrom
<1>9. CASE InsertApplying(r)
  <2> DEFINE e == Entry("applying", 0)
  <2>1. Finished(v)
    BY <1>5, <1>9 DEF InsertApplying
  <2>2. /\ journal' = [journal EXCEPT ![v] = e]
        /\ UNCHANGED <<transactional, catalog, events, lock>>
        /\ Goes(r, "apply", v, 0)
    BY <1>3, <1>9 DEF InsertApplying
  <2>3. e.state = "applying" /\ e.lastStep = 0
    BY DEF Entry
  <2>4. journal'[v].lastStep = 0 /\ journal'[v].state = "applying"
    BY <1>7, <2>2, <2>3
  <2>5. catalog' = Full(v - 1) /\ catalog' = At(v, 0)
    BY <1>5, <2>1, <2>2, CatalogFacts DEF Finished
  <2>6. Progress(v)'
    BY <1>6, <2>4, <2>5 DEF Progress
  <2>7. \A u \in v + 1 .. Target : u \in v .. Target
    BY <1>6, PlanFacts
  <2>8. NothingFrom(v + 1) /\ CompleteBelow(v)
    BY <2>1, <2>7 DEF Finished, NothingFrom
  <2>9. v >= Required => Satisfied'
    BY <2>1, <2>2 DEF Finished, Satisfied
  <2>10. Partial(v)'
    <3> HIDE DEF e
    <3> QED
      BY <1>1, <1>5, <2>2, <2>3, <2>6, <2>8, <2>9, PartialWritten
  <2>11. Applies(v, 0)'
    BY <1>6, <2>4, <2>5, <2>10 DEF Applies
  <2>12. Shape' /\ Place("apply", v, 0)'
    BY <1>5, <2>10, <2>11 DEF Shape, Place
  <2> QED
    BY <1>1, <1>2, <1>4, <2>2, <2>12, Arrives DEF Goes
<1>10. CASE ApplyTransactional(r)
  <2>1. Partial(v)
    BY <1>5, <1>10 DEF ApplyTransactional, Applies
  <2>2. PICK e \in Completed(v) :
            /\ journal' = [journal EXCEPT ![v] = e]
            /\ catalog' = Full(v)
            /\ v # Backfill => UNCHANGED events
            /\ VersionDone(r, v)
    BY <1>3, <1>10 DEF ApplyTransactional
  <2>3. v = Backfill => Satisfied'
    BY <1>3, <1>10 DEF ApplyTransactional, Backfilled, Satisfied
  <2>4. Finished(v + 1)'
    BY <1>1, <1>5, <2>1, <2>2, <2>3, VersionFinished
  <2> QED
    BY <1>1, <1>4, <1>5, <2>2, <2>4, VersionEnds
<1>11. CASE ExecuteStatement(r)
  <2>1. /\ Applies(v, k) /\ ~ transactional /\ k < DDL[v] /\ catalog' = At(v, k + 1)
        /\ UNCHANGED <<transactional, journal, events, lock>>
        /\ Goes(r, "record", v, k + 1)
    BY <1>3, <1>5, <1>11 DEF ExecuteStatement, StatementDue
  <2>2. journal[v].lastStep = k /\ Partial(v) /\ journal[v].state = "applying"
    BY <2>1 DEF Applies
  <2>3. Satisfied' <=> Satisfied
    BY <2>1 DEF Satisfied
  <2>4. k + 1 \in 0 .. DDL[v] /\ k \in (k + 1) - 1 .. k + 1 /\ k \in (k + 1) - 1 .. NumSteps(v)
    BY <1>6, <2>1
  <2>5. Progress(v)'
    BY <1>6, <2>1, <2>2, <2>4 DEF Progress
  <2>6. Partial(v)'
    BY <1>8, <2>1, <2>2, <2>3, <2>5 DEF Partial
  <2>7. Records(v, k + 1)'
    BY <1>6, <2>1, <2>2, <2>6 DEF Records
  <2>8. Shape' /\ Place("record", v, k + 1)'
    BY <1>5, <2>6, <2>7 DEF Shape, Place
  <2> QED
    BY <1>1, <1>2, <1>4, <2>1, <2>8, Arrives DEF Goes
<1>12. CASE ExecuteHandler(r)
  <2>1. /\ Applies(v, k) /\ ~ transactional /\ k = DDL[v] /\ catalog = Full(v) /\ v = Backfill
        /\ UNCHANGED <<transactional, journal, catalog, lock>>
        /\ Goes(r, "record", v, k + 1)
    BY <1>3, <1>5, <1>12 DEF ExecuteHandler
  <2>2. Partial(v) /\ journal[v].state = "applying"
    BY <2>1 DEF Applies
  <2>3. Satisfied'
    BY <1>12 DEF ExecuteHandler, Backfilled, Satisfied
  <2>4. Progress(v)'
    BY <2>1, <2>2, <2>3 DEF Partial, Progress
  <2>5. Partial(v)'
    BY <1>8, <2>1, <2>2, <2>3, <2>4
  <2>6. k + 1 \in 1 .. NumSteps(v) /\ catalog' = At(v, k + 1)
    BY <1>5, <1>6, <2>1, PlanFacts, CatalogFacts
  <2>7. Records(v, k + 1)'
    BY <2>1, <2>2, <2>3, <2>5, <2>6 DEF Records
  <2>8. Shape' /\ Place("record", v, k + 1)'
    BY <1>5, <2>5, <2>7 DEF Shape, Place
  <2> QED
    BY <1>1, <1>2, <1>4, <2>1, <2>8, Arrives DEF Goes
<1>13. CASE RecordStep(r)
  <2> DEFINE e == Entry("applying", k)
  <2>1. /\ Records(v, k)
        /\ journal' = [journal EXCEPT ![v] = e]
        /\ UNCHANGED <<transactional, catalog, events, lock>>
        /\ Goes(r, "apply", v, k)
    <3>1. journal[v].state = "applying"
      BY <1>3, <1>13 DEF RecordStep
    <3>2. [journal[v] EXCEPT !.lastStep = k] = e
      BY <1>7, <3>1, FieldWritten
    <3>3. journal' = [journal EXCEPT ![v] = [journal[v] EXCEPT !.lastStep = k]]
      BY <1>3, <1>13 DEF RecordStep
    <3>4. Records(v, k)
      BY <1>5, <1>13 DEF RecordStep
    <3> QED
      BY <1>3, <1>13, <3>2, <3>3, <3>4 DEF RecordStep
  <2>2. e.state = "applying" /\ e.lastStep = k
    BY DEF Entry
  <2>3. journal'[v].lastStep = k /\ journal'[v].state = "applying"
    BY <1>7, <2>1, <2>2
  <2>4. /\ Partial(v) /\ ~ transactional /\ k \in 1 .. NumSteps(v)
        /\ catalog = At(v, k) /\ (k > DDL[v] => Satisfied)
    BY <2>1 DEF Records
  <2>5. Satisfied' <=> Satisfied
    BY <2>1 DEF Satisfied
  <2>6. Progress(v)'
    <3>1. CASE k <= DDL[v]
      <4>1. k \in 0 .. DDL[v] /\ k \in k - 1 .. k /\ k \in k - 1 .. NumSteps(v)
        BY <1>6, <3>1
      <4> QED
        BY <1>6, <2>1, <2>3, <2>4, <3>1, <4>1 DEF Progress
    <3>2. CASE k > DDL[v]
      <4>1. DDL[v] \in 0 .. DDL[v] /\ k \in DDL[v] - 1 .. NumSteps(v)
        BY <1>6, <2>4, <3>2
      <4>2. catalog' = At(v, DDL[v])
        BY <1>5, <1>6, <2>1, <2>4, <3>2, CatalogFacts
      <4> QED
        BY <1>6, <2>1, <2>3, <2>4, <2>5, <3>2, <4>1, <4>2 DEF Progress
    <3> QED
      BY <1>6, <3>1, <3>2
  <2>7. Partial(v)'
    <3> HIDE DEF e
    <3> QED
      BY <1>1, <1>5, <2>1, <2>2, <2>4, <2>5, <2>6, PartialWritten DEF Partial
  <2>8. Applies(v, k)'
    BY <1>6, <2>1, <2>3, <2>4, <2>5, <2>7 DEF Applies
  <2>9. Shape' /\ Place("apply", v, k)'
    BY <1>5, <2>7, <2>8 DEF Shape, Place
  <2> QED
    BY <1>1, <1>2, <1>4, <2>1, <2>9, Arrives DEF Goes
<1>14. CASE MarkApplied(r)
  <2>1. Applies(v, k) /\ ~ transactional /\ k = NumSteps(v) /\ catalog = Full(v)
    BY <1>3, <1>5, <1>14 DEF MarkApplied
  <2>2. PICK e \in Completed(v) :
            /\ journal' = [journal EXCEPT ![v] = e]
            /\ catalog' = Full(v)
            /\ UNCHANGED events
            /\ VersionDone(r, v)
    BY <1>3, <2>1, <1>14 DEF MarkApplied
  <2>3. v = Backfill => k > DDL[v]
    BY <1>6, <2>1, PlanFacts
  <2>4. Partial(v) /\ (v = Backfill => Satisfied')
    BY <2>1, <2>2, <2>3 DEF Applies, Satisfied
  <2>5. Finished(v + 1)'
    BY <1>1, <1>5, <2>2, <2>4, VersionFinished
  <2> QED
    BY <1>1, <1>4, <1>5, <2>2, <2>5, VersionEnds
<1>15. CASE StepFails(r)
  <2> DEFINE e == Entry("failed", journal[v].lastStep)
  <2>1. journal' = [journal EXCEPT ![v] = e]
    <3>1. [journal[v] EXCEPT !.state = "failed"] = e
      BY <1>7, FieldWritten
    <3>2. journal' = [journal EXCEPT ![v] = [journal[v] EXCEPT !.state = "failed"]]
      BY <1>3, <1>15 DEF StepFails
    <3> QED
      BY <3>1, <3>2
  <2>2. Applies(v, k) /\ UNCHANGED <<transactional, catalog, events>> /\ lock' = None
    BY <1>5, <1>15 DEF StepFails, Ends
  <2>3. Partial(v)
    BY <2>2 DEF Applies
  <2>4. e.state = "failed" /\ e.lastStep = journal[v].lastStep
    BY DEF Entry
  <2>5. journal'[v].lastStep = journal[v].lastStep
    BY <1>7, <2>1, <2>4
  <2>6. Progress(v)' /\ (v >= Required => Satisfied')
    BY <2>2, <2>3, <2>5 DEF Partial, Progress, Satisfied
  <2>7. Partial(v)'
    <3> HIDE DEF e
    <3> QED
      BY <1>1, <1>5, <2>1, <2>3, <2>4, <2>6, PartialWritten DEF Partial
  <2> QED
    BY <1>5, <2>2, <2>7, AllIdle DEF Shape
<1> QED
  BY <1>9, <1>10, <1>11, <1>12, <1>13, <1>14, <1>15

-----------------------------------------------------------------------------
(* Theorems.                                                               *)

\* Every database the commands may start from has a known shape.
LEMMA InitInv == Init => MigrationInv
<1> SUFFICES ASSUME Init
             PROVE  MigrationInv
  OBVIOUS
<1>1. /\ transactional \in BOOLEAN /\ lock = None /\ faults = 0
      /\ runner = [r \in Runners |-> Stopped]
  BY DEF Init
<1>2. Stopped \in RunnerRows /\ Stopped.pc = "idle"
  BY PlanFacts DEF Stopped, RunnerRows, Versions
<1>3. TypeRun
  BY <1>1, <1>2, MigrationConstants DEF TypeRun
<1>4. Places
  BY <1>1, <1>2 DEF Places, Place
<1>5. CASE catalog = NoTables /\ journal = [v \in Versions |-> NoEntry] /\ events = {}
  <2>1. 0 \in Versions /\ NoTables \in [version : Versions, ddl : Nat]
    BY PlanFacts DEF Versions, NoTables, Catalog
  <2>2. NoEntry \in EntryRows /\ NoEntry.state = "none"
    BY DEF NoEntry, EntryRows
  <2>3. TypeDb
    BY <1>1, <1>5, <2>1, <2>2 DEF TypeDb
  <2>4. Fresh
    BY <1>5, <2>2 DEF Fresh, NothingFrom, Versions
  <2> QED
    BY <1>3, <1>4, <2>3, <2>4, TypeParts DEF MigrationInv, Shape
<1>6. ASSUME NEW v \in Versions,
             catalog = Full(v),
             journal = [u \in Versions |->
                IF u <= v THEN Entry("applied", NumSteps(u)) ELSE NoEntry],
             events \in SUBSET {"unset", "orphan", "conflict"},
             v >= Backfill => Satisfied
      PROVE  MigrationInv
  <2>1. \A u \in Versions : Entry("applied", NumSteps(u)) \in EntryRows
    BY PlanFacts DEF Entry, EntryRows
  <2>2. NoEntry \in EntryRows /\ NoEntry.state = "none"
    BY DEF NoEntry, EntryRows
  <2>3. TypeDb
    BY <1>1, <1>6, <2>1, <2>2, CatalogFacts DEF TypeDb
  <2>4. \A u \in 0 .. (v + 1) - 1 : u \in Versions /\ u <= v
    BY PlanFacts DEF Versions
  <2>5. CompleteBelow(v + 1)
    BY <1>6, <2>4 DEF CompleteBelow, Completed
  <2>6. \A u \in v + 1 .. Target : u \in Versions /\ ~ (u <= v)
    BY PlanFacts DEF Versions
  <2>7. NothingFrom(v + 1)
    BY <1>6, <2>2, <2>6 DEF NothingFrom
  <2>8. /\ v + 1 \in 1 .. Target + 1
        /\ (v + 1) - 1 = v
        /\ v + 1 >= Required => v >= Backfill
    BY PlanFacts DEF Versions, Required
  <2>9. Finished(v + 1)
    BY <1>6, <2>5, <2>7, <2>8 DEF Finished
  <2> QED
    BY <1>3, <1>4, <2>3, <2>8, <2>9, TypeParts DEF MigrationInv, Shape
<1> QED
  BY <1>5, <1>6 DEF Init

\* Every step of every command, and every interruption, keeps the shape.
LEMMA InvStep == MigrationInv /\ [Next]_vars => MigrationInv'
<1> SUFFICES ASSUME MigrationInv, [Next]_vars
             PROVE  MigrationInv'
  OBVIOUS
<1>1. CASE Next
  <2>1. TypeOK'
    BY <1>1, TypeStep DEF MigrationInv
  <2>2. PICK r \in Runners :
          \/ \E command \in {"migrate", "resume"} : Acquire(r, command)
          \/ Works(r)
          \/ StepFails(r)
          \/ RunnerStops(r)
    BY <1>1 DEF Next
  <2>3. Shape' /\ Places'
    BY <2>1, <2>2, ControlStep, ResumeStep, ApplyStep DEF Works
  <2> QED
    BY <2>1, <2>3 DEF MigrationInv
<1>2. CASE UNCHANGED vars
  <2>1. TypeOK'
    BY <1>2 DEF vars, MigrationInv, TypeOK
  <2>2. Shape'
    BY <1>2, Frame DEF vars, DbUnchanged, MigrationInv
  <2>3. Places'
    <3> SUFFICES ASSUME NEW r \in Runners
                 PROVE  Place(runner[r].pc, runner[r].version, runner[r].step)'
      BY DEF Places
    <3>1. Place(runner[r].pc, runner[r].version, runner[r].step)
      BY DEF MigrationInv, Places
    <3>2. runner[r].step \in Nat
      BY DEF MigrationInv, TypeOK
    <3>3. runner[r].version \in 1 .. Target => runner[r].version \in 1 .. Target + 1
      BY PlanFacts
    <3> QED
      BY <1>2, <3>1, <3>2, <3>3, Frame DEF vars, DbUnchanged, Place
  <2> QED
    BY <2>1, <2>2, <2>3 DEF MigrationInv
<1> QED
  BY <1>1, <1>2

\* Whatever commands run, wherever they stop and whatever the clock reads, the
\* database keeps one of the four shapes and every runner its place in it.
THEOREM MigrationCorrect == Spec => []MigrationInv
BY InitInv, InvStep, PTL DEF Spec

\* mutate and withLockedConnection: rows keep their types and only the holder of
\* the execution lock is at work.
THEOREM TypeCorrect == Spec => []TypeOK
<1>1. MigrationInv => TypeOK
  BY DEF MigrationInv
<1> QED
  BY <1>1, MigrationCorrect, PTL

\* An incomplete version is one that resume accepts, if its handler can run.
LEMMA PartialResumes ==
    ASSUME TypeOK, NEW v \in 1 .. Target, Partial(v), AppliedBelow(v),
           "conflict" \notin events
    PROVE  ResumeAt(v)
<1>1. /\ v \in Versions /\ v - 1 \in Versions /\ v # v - 1 /\ DDL[v] \in Nat \ {0}
      /\ NumSteps(v) \in DDL[v] .. DDL[v] + 1
      /\ v = Required => v >= Required
  BY PlanFacts DEF Versions
<1>2. Full(v) # Full(v - 1) /\ journal[v].lastStep \in Nat
  BY <1>1, CatalogFacts DEF TypeOK
<1>3. CASE transactional
  <2>1. catalog = Full(v - 1) /\ journal[v].lastStep = 0
    BY <1>3 DEF Partial, Progress
  <2>2. Recognised(v)
    BY <1>2, <1>3, <2>1 DEF Recognised
  <2> QED
    BY <1>1, <2>1, <2>2 DEF Partial, ResumeAt
<1>4. CASE ~ transactional
  <2>1. PICK k \in 0 .. DDL[v] :
            /\ catalog = At(v, k)
            /\ k < DDL[v] => journal[v].lastStep \in k - 1 .. k
            /\ k = DDL[v] => journal[v].lastStep \in k - 1 .. NumSteps(v)
            /\ journal[v].lastStep > DDL[v] => Satisfied
    BY <1>4 DEF Partial, Progress
  <2>2. k \in Nat /\ k <= DDL[v] /\ journal[v].lastStep <= NumSteps(v)
    BY <1>1, <1>2, <2>1
  <2>3. CASE catalog = Full(v)
    <3>1. HandlerPending(v) => journal[v].lastStep < NumSteps(v)
      BY <1>1, <1>2, <2>1, <2>2, PlanFacts DEF HandlerPending
    <3> QED
      BY <1>1, <1>4, <2>2, <2>3, <3>1 DEF Partial, ResumeAt, Recognised
  <2>4. CASE catalog # Full(v)
    <3>1. k < DDL[v]
      BY <1>1, <2>1, <2>2, <2>4, CatalogFacts
    <3>2. k \in journal[v].lastStep .. journal[v].lastStep + 1 /\ k <= NumSteps(v)
      BY <1>1, <1>2, <2>1, <2>2, <3>1
    <3> QED
      BY <1>1, <1>4, <2>1, <2>2, <2>4, <3>2 DEF Partial, ResumeAt, Recognised
  <2> QED
    BY <2>3, <2>4
<1> QED
  BY <1>3, <1>4

\* A row that ended before it began makes inspectWithPlan refuse the database.
LEMMA BackwardsRefused ==
    ASSUME MigrationInv, Backwards
    PROVE  IsIncompatible
<1>1. PICK w \in Versions : journal[w].state = "backwards"
  BY DEF Backwards
<1>2. w \in 0 .. Target
  BY DEF Versions
<1>3. ASSUME NEW v \in Nat, AppliedBelow(v)
      PROVE  ~ (w < v)
  BY <1>1, <1>2, <1>3, EntryFields, PlanFacts DEF AppliedBelow
<1>4. ASSUME NEW v \in Nat, NothingFrom(v)
      PROVE  w < v
  BY <1>1, <1>2, <1>4, PlanFacts DEF NothingFrom
<1>5. ~ IsEmpty /\ ~ IsUnrecorded
  BY <1>2, <1>4, EmptyIsFresh DEF MigrationInv, IsUnrecorded
<1>6. ~ IsCurrent
  BY <1>2, <1>3, PlanFacts DEF IsCurrent
<1>7. ASSUME NEW v \in 1 .. Target
      PROVE  ~ UpgradeFrom(v) /\ ~ ResumeAt(v)
  <2>1. v \in Nat /\ v + 1 \in Nat
    BY PlanFacts
  <2>2. ~ UpgradeFrom(v)
    BY <1>3, <1>4, <2>1 DEF UpgradeFrom
  <2>3. ASSUME ResumeAt(v)
        PROVE  FALSE
    <3>1. ~ (w < v) /\ w < v + 1
      BY <1>3, <1>4, <2>1, <2>3 DEF ResumeAt
    <3>2. w = v
      BY <1>2, <2>1, <3>1
    <3> QED
      BY <1>1, <2>3, <3>2 DEF ResumeAt
  <2> QED
    BY <2>2, <2>3
<1> QED
  BY <1>5, <1>6, <1>7 DEF IsIncompatible

\* inspectWithPlan recognises an interrupted migration wherever it stopped, unless
\* audit rows contradict themselves or a completed row ended before it began; a
\* database with such a row it always refuses.
THEOREM RecognisedCorrect == Spec => []AlwaysRecognised
<1>1. ASSUME MigrationInv, "conflict" \notin events, IsIncompatible, ~ Backwards
      PROVE  FALSE
  <2>1. ~ Fresh /\ ~ IsUnrecorded
    BY <1>1 DEF IsIncompatible, Fresh, IsEmpty
  <2>2. ASSUME NEW v \in 1 .. Target + 1, CompleteBelow(v)
        PROVE  AppliedBelow(v)
    <3>1. \A u \in 0 .. v - 1 : u \in Versions
      BY PlanFacts DEF Versions
    <3> QED
      BY <1>1, <2>2, <3>1, CompletedRows DEF CompleteBelow, AppliedBelow, Backwards
  <2>3. ASSUME NEW v \in 1 .. Target, Finished(v)
        PROVE  FALSE
    <3>1. (v = Required => v >= Required) /\ v \in 1 .. Target + 1
      BY PlanFacts
    <3>2. UpgradeFrom(v)
      BY <2>2, <2>3, <3>1 DEF Finished, UpgradeFrom
    <3> QED
      BY <1>1, <3>2 DEF IsIncompatible
  <2>4. ASSUME Finished(Target + 1)
        PROVE  FALSE
    <3>1. /\ (Target + 1) - 1 = Target /\ Target + 1 >= Required
          /\ Target + 1 \in 1 .. Target + 1
      BY PlanFacts
    <3> QED
      BY <1>1, <2>2, <2>4, <3>1 DEF Finished, IsCurrent, IsIncompatible
  <2>5. ASSUME NEW v \in 1 .. Target, Partial(v)
        PROVE  FALSE
    <3>1. v \in 1 .. Target + 1
      BY PlanFacts
    <3>2. ResumeAt(v)
      BY <1>1, <2>2, <2>5, <3>1, PartialResumes DEF MigrationInv, Partial
    <3> QED
      BY <1>1, <3>2 DEF IsIncompatible
  <2>6. \A v \in 1 .. Target + 1 : v \in 1 .. Target \/ v = Target + 1
    BY PlanFacts
  <2> QED
    BY <1>1, <2>1, <2>3, <2>4, <2>5, <2>6 DEF MigrationInv, Shape
<1>2. MigrationInv => AlwaysRecognised
  BY <1>1, BackwardsRefused DEF AlwaysRecognised
<1> QED
  BY <1>2, MigrationCorrect, PTL

\* A completed row of schema_migrations tells the truth about the schema, the
\* earlier versions and, from Backfill on, the audit events.
THEOREM AppliedCorrect == Spec => []AppliedIsReal
<1>1. ASSUME MigrationInv, NEW v \in Versions, journal[v].state \in {"applied", "backwards"}
      PROVE  /\ \A u \in 0 .. v : journal[u] \in Completed(u)
             /\ catalog.version >= v
             /\ catalog.version = v => catalog = Full(v)
             /\ v >= Backfill => Satisfied
  <2> DEFINE Rows == \A w \in 0 .. v : journal[w] \in Completed(w)
  <2>1. ~ NothingFrom(0)
    BY <1>1 DEF NothingFrom, Versions
  <2>2. ASSUME NEW u \in 1 .. Target + 1, CompleteBelow(u),
               NothingFrom(u + 1), u <= Target => journal[u].state \notin {"applied", "backwards"}
        PROVE  v < u /\ Rows /\ (v >= Backfill => u >= Required)
    <3>1. ~ (v \in u + 1 .. Target)
      BY <1>1, <2>2 DEF NothingFrom
    <3>2. v # u
      BY <1>1, <2>2, PlanFacts DEF Versions
    <3>3. v < u
      BY <3>1, <3>2, PlanFacts DEF Versions
    <3>4. \A w \in 0 .. v : w \in 0 .. u - 1
      BY <3>3, PlanFacts DEF Versions
    <3>5. v >= Backfill => u >= Required
      BY <3>3, PlanFacts DEF Versions, Required
    <3> QED
      BY <2>2, <3>3, <3>4, <3>5 DEF CompleteBelow
  <2>3. ASSUME NEW u \in 1 .. Target + 1, Finished(u)
        PROVE  /\ Rows
               /\ catalog.version >= v
               /\ catalog.version = v => catalog = Full(v)
               /\ v >= Backfill => Satisfied
    <3>1. (\A w \in u + 1 .. Target : w \in u .. Target) /\ (u <= Target => u \in u .. Target)
      BY PlanFacts
    <3>2. NothingFrom(u + 1) /\ (u <= Target => journal[u].state \notin {"applied", "backwards"})
      BY <2>3, <3>1 DEF Finished, NothingFrom
    <3>3. v < u /\ Rows /\ (v >= Backfill => u >= Required)
      BY <2>2, <2>3, <3>2 DEF Finished
    <3>4. catalog = Full(u - 1) /\ catalog.version = u - 1
      BY <2>3 DEF Finished, Full, Catalog
    <3> QED
      BY <2>3, <3>3, <3>4, PlanFacts DEF Finished, Versions
  <2>4. ASSUME NEW u \in 1 .. Target, Partial(u)
        PROVE  /\ Rows
               /\ catalog.version >= v
               /\ catalog.version = v => catalog = Full(v)
               /\ v >= Backfill => Satisfied
    <3>1. u \in 1 .. Target + 1 /\ u \in Versions
      BY PlanFacts DEF Versions
    <3>2. v < u /\ Rows /\ (v >= Backfill => u >= Required)
      BY <2>2, <2>4, <3>1 DEF Partial
    <3>3. \/ catalog = Full(u - 1) /\ catalog.version = u - 1
          \/ catalog.version = u
      <4>1. Full(u - 1).version = u - 1 /\ Full(u).version = u
        BY DEF Full, Catalog
      <4>2. \A k \in Nat : At(u, k) = Full(u - 1) \/ At(u, k).version = u
        BY <4>1 DEF At, Catalog
      <4>3. DDL[u] \in Nat
        BY <3>1, PlanFacts
      <4> QED
        BY <2>4, <4>1, <4>2, <4>3 DEF Partial, Progress
    <3> QED
      BY <2>4, <3>2, <3>3, PlanFacts DEF Partial, Versions
  <2> QED
    BY <1>1, <2>1, <2>3, <2>4 DEF MigrationInv, Shape, Fresh, IsUnrecorded
<1>2. MigrationInv => AppliedIsReal
  BY <1>1 DEF AppliedIsReal
<1> QED
  BY <1>2, MigrationCorrect, PTL

=============================================================================
