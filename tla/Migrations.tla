------------------------------ MODULE Migrations ------------------------------
(* How a replica gets its database: initDb (src/db/pool.ts) runs the SQL       *)
(* migrations (src/db/migrationRunner.ts) with a few attempts, and in          *)
(* production initializeServices (src/index.ts) then runs Drizzle's            *)
(* (src/db/migrate.ts).  No lock keeps two replicas apart: the primary key of  *)
(* schema_migrations does.                                                     *)
EXTENDS Integers, FiniteSets

CONSTANTS
  Versions,         \* migrations in the directory, 1..n
  Reversible,       \* those for which rollback() finds a file
  MigReplicas,      \* processes that start
  MaxInitAttempts,  \* DB_POOL_MAX_RETRIES
  MaxMigFaults,     \* bound on lost connections
  MaxRollbacks      \* bound on calls of rollback()

ASSUME MigrationsAssumption ==
  /\ IsFiniteSet(Versions) /\ Versions = 1..Cardinality(Versions)
  /\ Reversible \subseteq Versions
  /\ MaxInitAttempts \in Nat \ {0} /\ MaxMigFaults \in Nat /\ MaxRollbacks \in Nat

VARIABLES
  migApplied,       \* schema_migrations
  migDone,          \* history: how often a migration's SQL is in effect
  migEdited,        \* applied migrations whose file has been edited since
  migRun,           \* a replica's step, its attempts, and the migrations to go
  migTx,            \* the replica that holds the locks of an uncommitted migration
  migProduction,    \* NODE_ENV = "production"
  migRolled,        \* history: versions rolled back
  migRollback,      \* rollback(): the version it is about to roll back, or 0
  migFaults, migRollbacks

migVars == <<migApplied, migDone, migEdited, migRun, migTx, migProduction, migRolled,
             migRollback, migFaults, migRollbacks>>

NewRun == [pc |-> "connect", attempt |-> 0, todo |-> {}]
MigSteps == {"connect", "apply", "commit", "again", "drizzle", "up", "exited"}

MigTypeOK ==
  /\ migApplied \subseteq Versions /\ migEdited \subseteq Versions /\ migRolled \subseteq Versions
  /\ migDone \in [Versions -> 0..2]
  /\ migRun \in [MigReplicas ->
       [pc : MigSteps, attempt : 0..MaxInitAttempts, todo : SUBSET Versions]]
  /\ migTx \in [Versions -> SUBSET MigReplicas] /\ migProduction \in BOOLEAN
  /\ migRollback \in Versions \cup {0}
  /\ migFaults \in 0..MaxMigFaults /\ migRollbacks \in 0..MaxRollbacks

\* Some release has been deployed before, and a file may have been edited.
MigInit ==
  /\ \E n \in {0} \cup Versions :
       /\ migApplied = 1..n
       /\ migDone = [v \in Versions |-> IF v <= n THEN 1 ELSE 0]
       /\ migEdited \in {{}} \cup {{v} : v \in 1..n}
  /\ migRun = [p \in MigReplicas |-> NewRun]
  /\ migTx = [v \in Versions |-> {}]
  /\ migProduction \in BOOLEAN
  /\ migRolled = {} /\ migRollback = 0 /\ migFaults = 0 /\ migRollbacks = 0

\* The migrations to go run in the order of their versions.
Lowest(v, todo) == v \in todo /\ \A w \in todo : v <= w

MigGoes(p, pc) == migRun' = [migRun EXCEPT ![p].pc = pc]
migWorld == <<migEdited, migProduction, migRolled, migRollback, migFaults, migRollbacks>>

\* initDb's catch: a pause and another attempt, or the process exits.
AttemptFails(p) ==
  MigGoes(p, IF migRun[p].attempt >= MaxInitAttempts THEN "exited" ELSE "again")

\* What follows initDb in initializeServices.
Initialized == IF migProduction THEN "drizzle" ELSE "up"

\* connect and migrate() up to its first transaction: an edited file ends the
\* attempt, and the pending migrations are settled here.
MigrationPlan(p) ==
  /\ migRun[p].pc \in {"connect", "again"}
  /\ LET attempt == migRun[p].attempt + 1 IN
     migRun' = [migRun EXCEPT ![p] =
       IF migEdited \cap migApplied # {}
       THEN [@ EXCEPT !.pc = IF attempt >= MaxInitAttempts THEN "exited" ELSE "again",
                      !.attempt = attempt]
       ELSE [pc |-> "apply", attempt |-> attempt,
             todo |-> Versions \ migApplied]]
  /\ UNCHANGED <<migApplied, migDone, migTx, migWorld>>

\* The connection, or a statement before the first transaction, fails.
ConnectFails(p) ==
  /\ migRun[p].pc \in {"connect", "again"}
  /\ migFaults < MaxMigFaults /\ migFaults' = migFaults + 1
  /\ LET attempt == migRun[p].attempt + 1 IN
     migRun' = [migRun EXCEPT ![p] =
       [@ EXCEPT !.pc = IF attempt >= MaxInitAttempts THEN "exited" ELSE "again",
                 !.attempt = attempt]]
  /\ UNCHANGED <<migApplied, migDone, migTx, migEdited, migProduction, migRolled,
                 migRollback, migRollbacks>>

\* The migrations are through.
MigrationsEnd(p) ==
  /\ migRun[p].pc = "apply" /\ migRun[p].todo = {}
  /\ MigGoes(p, Initialized)
  /\ UNCHANGED <<migApplied, migDone, migTx, migWorld>>

\* BEGIN, the migration's SQL and its row.  While another replica's transaction
\* holds them this one waits; a row that is there by now is refused, and the
\* SQL with it.
MigrationRuns(p) ==
  /\ migRun[p].pc = "apply"
  /\ \E v \in Versions :
       /\ Lowest(v, migRun[p].todo) /\ migTx[v] = {}
       /\ IF v \in migApplied
          THEN AttemptFails(p) /\ UNCHANGED migTx
          ELSE MigGoes(p, "commit") /\ migTx' = [migTx EXCEPT ![v] = {p}]
  /\ UNCHANGED <<migApplied, migDone, migWorld>>

\* A migration is behind a replica.
Past(run, v) == [run EXCEPT !.pc = "apply", !.todo = @ \ {v}]

MigrationCommits(p) ==
  /\ migRun[p].pc = "commit"
  /\ \E v \in Versions :
       /\ Lowest(v, migRun[p].todo)
       /\ migApplied' = migApplied \cup {v}
       /\ migDone' = [migDone EXCEPT ![v] = @ + 1]
       /\ migTx' = [migTx EXCEPT ![v] = {}]
       /\ migRun' = [migRun EXCEPT ![p] = Past(@, v)]
  /\ UNCHANGED migWorld

\* Mutation of MigrationFails: the failure is logged and the next one follows.
MigrationFailsQuietly(p) ==
  /\ migRun[p].pc \in {"apply", "commit"} /\ migRun[p].todo # {}
  /\ migFaults < MaxMigFaults /\ migFaults' = migFaults + 1
  /\ migTx' = [v \in Versions |-> migTx[v] \ {p}]
  /\ \E v \in Versions :
       Lowest(v, migRun[p].todo) /\ migRun' = [migRun EXCEPT ![p] = Past(@, v)]
  /\ UNCHANGED <<migApplied, migDone, migEdited, migProduction, migRolled,
                 migRollback, migRollbacks>>

\* A statement fails, and the transaction is rolled back.
MigrationFails(p) ==
  /\ migRun[p].pc \in {"apply", "commit"} /\ migRun[p].todo # {}
  /\ migFaults < MaxMigFaults /\ migFaults' = migFaults + 1
  /\ migTx' = [v \in Versions |-> migTx[v] \ {p}]
  /\ AttemptFails(p)
  /\ UNCHANGED <<migApplied, migDone, migEdited, migProduction, migRolled,
                 migRollback, migRollbacks>>

\* runMigrations throws: its folder is outside the repository, and its tables
\* exist.  In production the process exits.
DrizzleMigrates(p) ==
  /\ migRun[p].pc = "drizzle"
  /\ MigGoes(p, "exited")
  /\ UNCHANGED <<migApplied, migDone, migTx, migWorld>>

\* rollback(), of which src/ has no caller but the tests (npm run migrate:rollback
\* starts db/migrate.ts, which ignores its argument): an operator's call, for the
\* last version, if its file is found.
RollbackReads ==
  /\ migRollback = 0 /\ migRollbacks < MaxRollbacks
  /\ \E v \in migApplied \cap Reversible :
       (\A w \in migApplied : w <= v) /\ migRollback' = v
  /\ migRollbacks' = migRollbacks + 1
  /\ UNCHANGED <<migApplied, migDone, migEdited, migRun, migTx, migProduction,
                 migRolled, migFaults>>

RollbackCommits ==
  /\ migRollback # 0 /\ migTx[migRollback] = {}
  /\ migApplied' = migApplied \ {migRollback}
  /\ migDone' = [migDone EXCEPT ![migRollback] = @ - 1]
  /\ migRolled' = migRolled \cup {migRollback}
  /\ migRollback' = 0
  /\ UNCHANGED <<migEdited, migRun, migTx, migProduction, migFaults, migRollbacks>>

MigStep(p) ==
  MigrationPlan(p) \/ MigrationsEnd(p) \/ MigrationRuns(p) \/ MigrationCommits(p) \/ DrizzleMigrates(p)

MigNext ==
  \/ \E p \in MigReplicas : MigStep(p) \/ MigrationFails(p) \/ ConnectFails(p)
  \/ RollbackReads \/ RollbackCommits

MigFairness == \A p \in MigReplicas : WF_migVars(MigStep(p))
MigSpec == MigInit /\ [][MigNext]_migVars /\ MigFairness

-----------------------------------------------------------------------------
\* Whatever replicas start together and whichever of them lose a connection, a
\* replica serves only on the whole schema, each migration applied once, with
\* unedited files, and rolled back only by an operator (migrationRunner.ts:
\* 152-228, pool.ts:293-388).
ServesMigrated ==
  /\ \A v \in Versions : migDone[v] = IF v \in migApplied THEN 1 ELSE 0
  /\ \A p \in MigReplicas : migRun[p].pc \in {"drizzle", "up"} =>
       /\ Versions \subseteq migApplied \cup migRolled
       /\ migEdited \subseteq migRolled

\* Every replica that starts ends up serving or exits: two of them do not wait
\* for each other's locks for ever (pool.ts:293-388).
InitEnds == \A p \in MigReplicas : <>(migRun[p].pc \in {"up", "exited"})
=============================================================================
