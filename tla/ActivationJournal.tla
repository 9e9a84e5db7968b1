------------------------- MODULE ActivationJournal --------------------------
(***************************************************************************)
(* The rows of tools/source_activation_journal_service.py for one          *)
(* workspace: the activation journal of every job, the workspace's import  *)
(* lease, and the two stores an activation has to move together - SQLite's *)
(* current source run and active versions, and DuckDB's manifest.          *)
(*                                                                         *)
(* A source run is named by the worker process that staged it: a worker    *)
(* stages at most one, and its run id is fresh.  None stands for a NULL    *)
(* run and for a table that is not in the DuckDB manifest.                 *)
(***************************************************************************)
EXTENDS JobRuntime

CONSTANTS
  Worker,     \* worker processes; each carries a lease token of its own
  Table,      \* logical tables of the workspace
  TablesOf,   \* TablesOf[j]: the tables that job j's frozen plan replaces
  None

ASSUME TablesOfAssumption == TablesOf \in [Job -> SUBSET Table]
ASSUME NoneAssumption == None \notin Job \union Worker

VARIABLES
  jobParent,        \* parent source run frozen in the job's plan
  journalPhase,     \* phase of the job's latest journal, "none" without one
  journalTarget,    \* its target_source_run_id
  journalOutcome,   \* its outcome
  rollbackManifest, \* its rollback material: the DuckDB versions it replaces
  leaseHolder,      \* import_workspace_leases: job and token of the last claim
  leaseEpoch,       \* lease_epoch, 0 before the first claim
  leaseActive,      \* active
  currentSourceRun, \* SQLite: workspaces.current_source_run_id
  activeVersion,    \* SQLite: table_registry.active_version_id
  duckManifest      \* DuckDB: the version every published view reads

journalVars == <<journalPhase, journalTarget, journalOutcome, rollbackManifest>>
leaseVars == <<leaseHolder, leaseEpoch, leaseActive>>
sqliteData == <<currentSourceRun, activeVersion>>

Run == Worker \union {None}

Phases == {"none", "prepared", "commit_started", "source_selection_committed", "finalized"}
Outcomes == {"none", "committed", "rolled_back"}

\* "replica_published" is written and left within one SQLite transaction, so no
\* other process ever reads it.
UnfinishedPhases == {"prepared", "commit_started", "source_selection_committed"}

Unfinished(j) == journalPhase[j] \in UnfinishedPhases

Finalize(j, outcome) ==
  /\ journalPhase' = [journalPhase EXCEPT ![j] = "finalized"]
  /\ journalOutcome' = [journalOutcome EXCEPT ![j] = outcome]
  /\ UNCHANGED <<journalTarget, rollbackManifest>>

\* Faulty variant of Restored: only the tables the journal knows as published.
RestoredTargetOnly(j) ==
  [t \in Table |-> IF t \in TablesOf[j] /\ duckManifest[t] = journalTarget[j]
                   THEN rollbackManifest[j][t] ELSE duckManifest[t]]

\* restore_replica_manifest: one DuckDB transaction over the job's tables.
Restored(j) ==
  [t \in Table |-> IF t \in TablesOf[j] THEN rollbackManifest[j][t] ELSE duckManifest[t]]

ReplicaMatches(j) == \A t \in TablesOf[j] : duckManifest[t] = journalTarget[j]

\* The three verdicts of reconcile_activation on an unfinished import journal.
Switched(j) == journalTarget[j] # None /\ currentSourceRun = journalTarget[j]

\* Faulty variants of the verdicts: a matching replica alone proves the commit;
\* the rollback waits for the replica to be published.
CommitProvenByReplica(j) == ReplicaMatches(j)
RollbackProvenByReplica(j) ==
  ~Switched(j) /\ currentSourceRun = jobParent[j] /\ duckManifest # rollbackManifest[j]

CommitProven(j) == Switched(j) /\ ReplicaMatches(j)
RollbackProven(j) == ~Switched(j) /\ currentSourceRun = jobParent[j]

\* prepare_activation on a job without an unfinished journal.
PrepareJournal(j) ==
  /\ journalPhase' = [journalPhase EXCEPT ![j] = "prepared"]
  /\ journalTarget' = [journalTarget EXCEPT ![j] = None]
  /\ journalOutcome' = [journalOutcome EXCEPT ![j] = "none"]
  /\ rollbackManifest' = [rollbackManifest EXCEPT ![j] =
                            [t \in Table |-> IF t \in TablesOf[j] THEN duckManifest[t] ELSE None]]

\* Faulty variant of Competing: a committed journal does not fence.
CompetingUncommitted(j) == \E i \in Job \ {j} : journalPhase[i] \in {"prepared", "commit_started"}

Competing(j) == \E i \in Job \ {j} : Unfinished(i)

\* claim_import_workspace grants the lease; it defers a claim while the lease
\* is active.
GrantLease(w) ==
  /\ ~leaseActive
  /\ leaseHolder' = w
  /\ leaseEpoch' = leaseEpoch + 1
  /\ leaseActive' = TRUE

ReleaseLease == leaseActive' = FALSE /\ UNCHANGED <<leaseHolder, leaseEpoch>>

\* revoke_import_workspace_leases: an active lease is ended under a new epoch.
RevokeLease ==
  /\ leaseActive' = FALSE
  /\ leaseEpoch' = IF leaseActive THEN leaseEpoch + 1 ELSE leaseEpoch
  /\ UNCHANGED leaseHolder

\* The types of the rows, with the versions that a table of the workspace has and
\* the source runs that can be its current one.
JournalTypes(versions, runs) ==
  /\ jobParent \in [Job -> runs]
  /\ journalPhase \in [Job -> Phases]
  /\ journalTarget \in [Job -> Run]
  /\ journalOutcome \in [Job -> Outcomes]
  /\ rollbackManifest \in [Job -> [Table -> versions]]
  /\ leaseHolder \in Worker \union {None}
  /\ leaseEpoch \in Nat
  /\ leaseActive \in BOOLEAN
  /\ currentSourceRun \in runs
  /\ activeVersion \in [Table -> versions]
  /\ duckManifest \in [Table -> versions]

JournalTypeOK == JournalTypes(Run, Run)
=============================================================================
