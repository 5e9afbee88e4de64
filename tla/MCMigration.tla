---------------------------- MODULE MCMigration ----------------------------
EXTENDS Migration

\* Version 0 is the journal, 1 has two statements, Backfill one and a handler.
MCDDL == [v \in 0 .. 4 |-> IF v = 1 THEN 2 ELSE 1]

=============================================================================
