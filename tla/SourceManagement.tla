-------------------------- MODULE SourceManagement --------------------------
(***************************************************************************)
(* Deleting a source (delete_source_command) and laying a table out anew   *)
(* (execute_index_plan) beside the imports of ImportActivation.  All three *)
(* move SQLite and DuckDB under a journal of the same table, which admits  *)
(* one unfinished journal per workspace, and all three are reconciled by   *)
(* the same start-up command.                                              *)
(*                                                                         *)
(* Neither command looks at the import lease.  A deletion holds the        *)
(* boundary (as one of its readers; the gateway's one writer keeps other   *)
(* commands from it), but a worker takes it only with its journal: between *)
(* its claim and its journal it reads the stores with no lock held.        *)
(*                                                                         *)
(* The dataset versions of a table are named by the worker or the layout   *)
(* that made them.  Their files are content addressed: versions may share  *)
(* an object, and a deletion collects those nothing refers to any more.    *)
(***************************************************************************)
EXTENDS ImportActivation

CONSTANTS
  Layout,         \* the versions layouts make
  Object,         \* stored Parquet objects
  ObjectOf,       \* ObjectOf[v]: the object that version v reads
  SharedKeys,     \* the tables whose key another workspace uses as well
  Elsewhere,      \* the latest source run of such a key, in that workspace
  Manager,        \* the process of a deletion or a layout, as a lock holder
  MaxCommands,    \* bound: deletions and layouts started
  ManagerFaults   \* the failures a run allows beyond the crash of the process

\* repeatLayout   a layout is repeated while its own journal is still open
\* finalizeError  the last journal write of a layout raises
AllManagerFaults == {"repeatLayout", "finalizeError"}

\* The tables of a folder import each have a source run; here an import has one.
ASSUME OneTableAssumption == \A j \in Job : \E t \in Table : TablesOf[j] = {t}
ASSUME LayoutAssumption == Layout \intersect (Worker \union {None}) = {}
ASSUME ObjectAssumption == ObjectOf \in [Worker \union Layout -> Object]
ASSUME SharedKeysAssumption == SharedKeys \subseteq Table
ASSUME ElsewhereAssumption == Elsewhere \notin Worker \union Layout \union {None}
ASSUME ManagerAssumption == Manager \notin Worker \union {None}
ASSUME MaxCommandsAssumption == MaxCommands \in Nat
ASSUME ManagerFaultsAssumption == ManagerFaults \subseteq AllManagerFaults

VARIABLES
  mpc,        \* where the deletion or layout process is
  upkeep,     \* the latest journal of a deletion or layout
  base,       \* current_version of the layout process
  tableRun,   \* source_runs: the latest run of each table
  catalogue,  \* dataset_versions: the versions of each table
  objects,    \* the objects in the store
  commands    \* deletions and layouts started so far

managerVars == <<mpc, upkeep, base, tableRun, catalogue, objects, commands>>
importVars == <<jobVars, jobParent, journalVars, leaseVars, workerVars, dbLock>>
managedVars == <<vars, managerVars>>

NoUpkeep == [kind |-> "none", table |-> None, target |-> None, rollback |-> None,
             candidates |-> {}, phase |-> "none"]

UpkeepOpen == upkeep.phase \notin {"none", "finalized"}

Registered(t) == activeVersion[t] # None

\* dataset_object_candidates
ObjectsOf(versions) == {ObjectOf[v] : v \in versions}

MInit ==
  /\ Init
  /\ mpc = "idle"
  /\ upkeep = NoUpkeep
  /\ base = None
  /\ tableRun = [t \in Table |-> None]
  /\ catalogue = [t \in Table |-> {}]
  /\ objects = {}
  /\ commands = 0

MGoto(label) == mpc' = label
Enter(phase) == upkeep' = [upkeep EXCEPT !.phase = phase]

\* The process ends, or dies: its lock and its memory go with it.
ManagerEnds == mpc' = "idle" /\ base' = None /\ fileLock' = None

-----------------------------------------------------------------------------
(* The two commands                                                         *)

Starts(t) ==
  /\ mpc = "idle" /\ commands < MaxCommands
  /\ BoundaryFree /\ DbFree
  /\ Registered(t)
  /\ mpc' = "start" /\ fileLock' = Manager /\ commands' = commands + 1

\* prepare_activation: an unfinished journal of the same command is taken over,
\* any other refuses this one.
NoJournalButOwn(kind, t, target) ==
  /\ \A j \in Job : ~Unfinished(j)
  /\ UpkeepOpen => upkeep.kind = kind /\ upkeep.table = t /\ upkeep.target = target

\* delete_source_command up to its journal.  A journal left behind by a crash
\* past "commit_started" makes the repeated command fail.
BeginDeletion(t) ==
  /\ Starts(t)
  /\ NoJournalButOwn("delete", t, None)
  /\ UpkeepOpen => upkeep.phase \in {"prepared", "commit_started"}
  /\ upkeep' = IF UpkeepOpen THEN upkeep
               ELSE [kind |-> "delete", table |-> t, target |-> None,
                     rollback |-> duckManifest[t], candidates |-> ObjectsOf(catalogue[t]),
                     phase |-> "prepared"]
  /\ UNCHANGED <<importVars, sqliteData, duckManifest, base, tableRun, catalogue, objects>>

\* What reconcile_activation can prove of an open deletion or layout.
CommitUpkeepProven ==
  \/ upkeep.kind = "delete" /\ ~Registered(upkeep.table)
  \/ /\ upkeep.kind = "layout"
     /\ activeVersion[upkeep.table] = upkeep.target
     /\ duckManifest[upkeep.table] = upkeep.target

RollbackUpkeepProven ==
  \/ upkeep.kind = "delete" /\ Registered(upkeep.table)
  \/ /\ upkeep.kind = "layout"
     /\ activeVersion[upkeep.table] # upkeep.target
     /\ activeVersion[upkeep.table] = upkeep.rollback

\* execute_index_plan up to its journal.  The manifest to roll back to is read
\* first: an open journal of the same layout past "prepared" is reconciled, and
\* so DuckDB restored, only afterwards.
BeginLayout(t, v) ==
  /\ Starts(t)
  /\ activeVersion[t] # v
  /\ \A u \in Table \ {t} : v \notin catalogue[u]
  /\ NoJournalButOwn("layout", t, v)
  /\ UpkeepOpen => "repeatLayout" \in ManagerFaults /\ RollbackUpkeepProven
  /\ LET taken == UpkeepOpen /\ upkeep.phase = "prepared" IN
     /\ upkeep' = IF taken THEN upkeep
                  ELSE [kind |-> "layout", table |-> t, target |-> v,
                        rollback |-> duckManifest[t], candidates |-> {}, phase |-> "prepared"]
     /\ duckManifest' = IF UpkeepOpen /\ ~taken THEN [duckManifest EXCEPT ![t] = upkeep.rollback]
                        ELSE duckManifest
  /\ base' = activeVersion[t]
  /\ catalogue' = [catalogue EXCEPT ![t] = @ \union {v}]
  /\ objects' = objects \union {ObjectOf[v]}
  /\ UNCHANGED <<importVars, sqliteData, tableRun>>

StartUpkeep ==
  /\ mpc = "start"
  /\ Enter("commit_started")
  /\ MGoto("publish")
  /\ UNCHANGED <<importVars, fileLock, sqliteData, duckManifest, base, tableRun, catalogue,
                 objects, commands>>

\* One DuckDB transaction: the view is dropped, or reads the new version.
PublishUpkeep ==
  /\ mpc = "publish"
  /\ duckManifest' = [duckManifest EXCEPT ![upkeep.table] = upkeep.target]
  /\ MGoto("published")
  /\ UNCHANGED <<importVars, fileLock, sqliteData, upkeep, base, tableRun, catalogue,
                 objects, commands>>

RecordUpkeep ==
  /\ mpc = "published"
  /\ Enter("replica_published")
  /\ MGoto("switch")
  /\ UNCHANGED <<importVars, fileLock, sqliteData, duckManifest, base, tableRun, catalogue,
                 objects, commands>>

\* Faulty variant of NextDefault: a current run of another table is kept.
NextDefaultKept(t, run) == run = currentSourceRun

\* The source runs that can be the latest under a table's key: the lookup of
\* delete_source_command names the key and no workspace, so another workspace's run
\* may be newer.
LatestRuns(t) == {tableRun[t]} \union (IF t \in SharedKeys THEN {Elsewhere} ELSE {})

\* remaining_table_key_after_delete takes the largest table that is left.
NextDefault(t, run) ==
  LET left == {u \in Table \ {t} : Registered(u)} IN
  IF left = {} THEN run = None ELSE \E u \in left : run \in LatestRuns(u)

\* The SQLite transaction of a deletion.
SwitchDeletion ==
  LET t == upkeep.table IN
  /\ mpc = "switch" /\ upkeep.kind = "delete" /\ DbFree
  /\ activeVersion' = [activeVersion EXCEPT ![t] = None]
  /\ tableRun' = [tableRun EXCEPT ![t] = None]
  /\ catalogue' = [catalogue EXCEPT ![t] = {}]
  /\ currentSourceRun' \in Run \union {Elsewhere} /\ NextDefault(t, currentSourceRun')
  /\ Enter("source_selection_committed")
  /\ MGoto("collect")
  /\ UNCHANGED <<importVars, fileLock, duckManifest, base, objects, commands>>

\* activate_dataset_version in the SQLite transaction of a layout.
SwitchLayout ==
  /\ mpc = "switch" /\ upkeep.kind = "layout" /\ DbFree
  /\ activeVersion' = [activeVersion EXCEPT ![upkeep.table] = upkeep.target]
  /\ Enter("source_selection_committed")
  /\ MGoto("finish")
  /\ UNCHANGED <<importVars, fileLock, currentSourceRun, duckManifest, base, tableRun, catalogue,
                 objects, commands>>

\* Faulty variant of Referenced: the catalogue of versions is not looked at.
ReferencedByViews == ObjectsOf({duckManifest[t] : t \in Table} \ {None})

\* The objects a version of the catalogue or a published view still reads.
Referenced ==
  ObjectsOf((UNION {catalogue[t] : t \in Table}) \union ({duckManifest[t] : t \in Table} \ {None}))

\* collect_unreferenced_dataset_objects
Collected == objects \ (upkeep.candidates \ Referenced)

CollectObjects ==
  /\ mpc = "collect"
  /\ objects' = Collected
  /\ MGoto("finish")
  /\ UNCHANGED <<importVars, fileLock, sqliteData, duckManifest, upkeep, base, tableRun, catalogue,
                 commands>>

FinishUpkeep ==
  /\ mpc = "finish"
  /\ Enter("finalized")
  /\ ManagerEnds
  /\ UNCHANGED <<importVars, sqliteData, duckManifest, tableRun, catalogue, objects, commands>>

\* Anything raised once the journal is at "commit_started" is handled.
UpkeepFails ==
  /\ \/ mpc \in {"publish", "published", "switch", "collect"}
     \/ mpc = "finish" /\ (upkeep.kind = "delete" \/ "finalizeError" \in ManagerFaults)
  /\ MGoto("undo")
  /\ UNCHANGED <<importVars, fileLock, sqliteData, duckManifest, upkeep, base, tableRun, catalogue,
                 objects, commands>>

-----------------------------------------------------------------------------
(* Reconciliation                                                           *)

\* Faulty variant of ReconcileStores: DuckDB is restored only if the journal says
\* that it was published.
ReconcilePublishedStores ==
  LET served == IF CommitUpkeepProven THEN upkeep.target
                ELSE IF upkeep.phase = "replica_published" THEN upkeep.rollback
                ELSE duckManifest[upkeep.table]
  IN
  /\ duckManifest' = [duckManifest EXCEPT ![upkeep.table] = served]
  /\ objects' = IF CommitUpkeepProven THEN Collected ELSE objects

\* The DuckDB side of reconcile_activation: what it restores or drops, and the
\* objects it collects, before SQLite commits the end of the journal.
ReconcileStores ==
  LET served == IF CommitUpkeepProven THEN upkeep.target ELSE upkeep.rollback IN
  /\ duckManifest' = [duckManifest EXCEPT ![upkeep.table] = served]
  /\ objects' = IF CommitUpkeepProven THEN Collected ELSE objects

\* The handler of a deletion reconciles its own journal.
UndoDeletion ==
  /\ mpc = "undo" /\ upkeep.kind = "delete"
  /\ ReconcileStores
  /\ MGoto("undone")
  /\ UNCHANGED <<importVars, fileLock, sqliteData, upkeep, base, tableRun, catalogue, commands>>

\* The handler of a layout restores DuckDB, whatever SQLite says.
UndoLayout ==
  /\ mpc = "undo" /\ upkeep.kind = "layout"
  /\ duckManifest' = [duckManifest EXCEPT ![upkeep.table] = upkeep.rollback]
  /\ MGoto("undone")
  /\ UNCHANGED <<importVars, fileLock, sqliteData, upkeep, base, tableRun, catalogue,
                 objects, commands>>

\* ... and SQLite, whose version it sets back, before it closes the journal.
EndUndo ==
  /\ mpc = "undone" /\ DbFree
  /\ activeVersion' = IF upkeep.kind = "layout"
                      THEN [activeVersion EXCEPT ![upkeep.table] = base] ELSE activeVersion
  /\ Enter("finalized")
  /\ ManagerEnds
  /\ UNCHANGED <<importVars, currentSourceRun, duckManifest, tableRun, catalogue, objects, commands>>

ManagerDies ==
  /\ mpc # "idle"
  /\ ManagerEnds
  /\ UNCHANGED <<importVars, sqliteData, duckManifest, upkeep, tableRun, catalogue, objects, commands>>

\* import-job-recover over the journal of a deletion or a layout; no import has
\* an unfinished one then.
RecoverUpkeep ==
  /\ UpkeepOpen /\ BoundaryFree /\ DbFree
  /\ RevokeLease
  /\ RecoverJobs(Job, None)
  /\ IF CommitUpkeepProven \/ RollbackUpkeepProven
     THEN ReconcileStores /\ Enter("finalized")
     ELSE UNCHANGED <<duckManifest, objects, upkeep>>
  /\ UNCHANGED <<jobParent, journalVars, sqliteData, workerVars, lockVars,
                 mpc, base, tableRun, catalogue, commands>>

\* It dies before its SQLite commit.
RecoverUpkeepCrash ==
  /\ UpkeepOpen /\ BoundaryFree /\ DbFree
  /\ CommitUpkeepProven \/ RollbackUpkeepProven
  /\ ReconcileStores
  /\ UNCHANGED <<importVars, fileLock, sqliteData, mpc, upkeep, base, tableRun, catalogue, commands>>

-----------------------------------------------------------------------------
(* The imports beside them                                                  *)

\* prepare_activation refuses an import while the other journal is open.
PrepareRefused(w) ==
  /\ UpkeepOpen
  /\ pc[w] = "prepare" /\ fileLock = None /\ DbFree
  /\ fileLock' = w
  /\ Goto(w, "failed")
  /\ UNCHANGED <<jobVars, jobParent, journalVars, leaseVars, sqliteData, duckManifest,
                 wjob, wepoch, seen, dbLock, managerVars>>

\* A worker stores its objects before it publishes them; its commit adds the
\* version to the catalogue and a run to the table's source runs.
Staged == {w \in Worker : pc'[w] \in {"publish", "switch"}}

Recorded ==
  /\ objects' = objects \union ObjectsOf(Staged)
  /\ catalogue' = [t \in Table |-> IF activeVersion'[t] = activeVersion[t] THEN catalogue[t]
                                   ELSE catalogue[t] \union {activeVersion'[t]}]
  /\ tableRun' = [t \in Table |-> IF activeVersion'[t] = activeVersion[t] THEN tableRun[t]
                                  ELSE activeVersion'[t]]
  /\ UNCHANGED <<mpc, upkeep, base, commands>>

ImportStep ==
  /\ \/ \E j \in Job : Owner(j)
     \/ \E w \in Worker, j \in Job : Launch(w, j)
     \/ \E w \in Worker : (UpkeepOpen => pc[w] # "prepare") /\ WorkerStep(w)
     \/ \E w \in Worker : WorkerDies(w)
     \/ \E u \in Job \union {None} : ~UpkeepOpen /\ Recover(u)
     \/ \E w \in Worker, u \in Job \union {None} : ProcessExit(w, u)
     \/ \E u \in Job : RecoveryCrash(u)
  /\ Recorded

ManagerStep ==
  \/ StartUpkeep \/ PublishUpkeep \/ RecordUpkeep
  \/ SwitchDeletion \/ SwitchLayout \/ CollectObjects \/ FinishUpkeep
  \/ UpkeepFails \/ UndoDeletion \/ UndoLayout \/ EndUndo

MNext ==
  \/ ImportStep
  \/ \E w \in Worker : PrepareRefused(w)
  \/ \E t \in Table : BeginDeletion(t)
  \/ \E t \in Table, v \in Layout : BeginLayout(t, v)
  \/ ManagerStep
  \/ ManagerDies
  \/ RecoverUpkeep \/ RecoverUpkeepCrash

MSpec == MInit /\ [][MNext]_managedVars

-----------------------------------------------------------------------------
(* Properties                                                               *)

\* A table under the open journal of its import, deletion or layout.
Journaled(t) ==
  \/ \E j \in Job : Unfinished(j) /\ t \in TablesOf[j]
  \/ UpkeepOpen /\ upkeep.table = t

\* However imports, deletions and layouts interleave and die, DuckDB serves what
\* SQLite names for every table no journal is open for; and where one is open,
\* its rollback material is SQLite's version until SQLite switches.
StoresAgreeOnceReconciled ==
  /\ \A t \in Table : ~Journaled(t) => duckManifest[t] = activeVersion[t]
  /\ \A j \in Job : Unfinished(j) /\ ~Switched(j) =>
       \A t \in TablesOf[j] : rollbackManifest[j][t] = activeVersion[t]
  /\ UpkeepOpen /\ ~CommitUpkeepProven => upkeep.rollback = activeVersion[upkeep.table]

\* Nothing that is still read loses its file: no deletion collects an object of
\* a served view, of a version in the catalogue, or of the rollback material an
\* open journal would publish again.
RetainedObjectsExist ==
  LET restorable == (UNION {{rollbackManifest[j][t] : t \in Table} : j \in {i \in Job : Unfinished(i)}})
                      \union (IF UpkeepOpen /\ ~CommitUpkeepProven THEN {upkeep.rollback} ELSE {})
      served == {duckManifest[t] : t \in Table}
  IN ObjectsOf((served \union restorable \union UNION {catalogue[t] : t \in Table}) \ {None})
       \subseteq objects

\* The workspace's current source run is the latest run under the key of a table
\* that exists (its own table's, unless another workspace uses that key as well),
\* and is missing only when no table is left: imports are planned on it.
CurrentRunIsOfATable ==
  LET left == {t \in Table : Registered(t)} IN
  IF left = {} THEN currentSourceRun = None ELSE \E t \in left : currentSourceRun \in LatestRuns(t)
=============================================================================
