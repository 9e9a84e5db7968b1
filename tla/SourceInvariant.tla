--------------------------- MODULE SourceInvariant ----------------------------
(***************************************************************************)
(* The inductive invariants behind the safety of SourceManagement.         *)
(*                                                                         *)
(* CurrentRunIsOfATable needs only types and RunInv, which hold whatever   *)
(* the faults.  StoresAgreeOnceReconciled and RetainedObjectsExist need    *)
(* BoundaryInv, StoresInv and FilesInv, which hold when no second worker   *)
(* is started for a job that still has one, no DuckDB rollback raises and  *)
(* no layout meets a fault of its own.                                     *)
(*                                                                         *)
(* The invariant of ImportInvariant does not hold here: a deletion may     *)
(* move the current source run between a worker's check of its plan and    *)
(* its journal, which recovery can then prove neither way.  These rest     *)
(* instead on the boundary: whoever has an open journal and lives          *)
(* holds it.                                                               *)
(***************************************************************************)
EXTENDS ImportInvariant, SourceManagement

\* A version of a table, or none.
Version == Run \union Layout

\* What the current source run and the parents of the plans can be.
SourceRun == Run \union {Elsewhere}

MPCs == {"idle", "start", "publish", "published", "switch", "collect", "finish", "undo", "undone"}

UpkeepRows ==
  [kind : {"none", "delete", "layout"}, table : Table \union {None}, target : Layout \union {None},
   rollback : Version, candidates : SUBSET Object,
   phase : Phases \union {"replica_published"}]

MTypeOK ==
  /\ ProcessTypes
  /\ JournalTypes(Version, SourceRun)
  /\ fileLock \in Worker \union {None, Manager}
  /\ mpc \in MPCs
  /\ upkeep \in UpkeepRows
  /\ base \in Version
  /\ tableRun \in [Table -> Run]
  /\ catalogue \in [Table -> SUBSET (Worker \union Layout)]
  /\ objects \in SUBSET Object
  /\ commands \in Nat

-----------------------------------------------------------------------------
(* Whatever the faults                                                      *)

\* A worker that has not switched yet: its version is nowhere in SQLite.
Unswitched == {"idle", "launched", "claim", "rebuild", "prepare", "start", "begin", "publish", "switch"}

FreshUntilSwitched ==
  \A w \in Worker : pc[w] \in Unswitched => base # w /\ \A t \in Table : activeVersion[t] # w

\* A table is registered when it has a run.
RunsOfRegistered == \A t \in Table : Registered(t) <=> tableRun[t] # None

\* The command that runs has a table, and a layout one to return to.
CommandHasTable ==
  mpc # "idle" =>
    /\ upkeep.kind \in {"delete", "layout"} /\ upkeep.table \in Table
    /\ upkeep.kind = "layout" => /\ upkeep.target # None /\ base # None
                                 /\ Registered(upkeep.table)

RunInv == FreshUntilSwitched /\ RunsOfRegistered /\ CommandHasTable /\ CurrentRunIsOfATable

-----------------------------------------------------------------------------
(* Who holds the boundary                                                   *)

NoStoreFaults == NoDuplicateNorRestoreError /\ ManagerFaults = {}

\* From its journal to its commit, and until it has finalized it.
Journaling == {"start", "begin", "publish", "switch", "finalize"}

WorkersHoldBoundary == \A w \in Worker : pc[w] \in Journaling => fileLock = w

ManagerHoldsBoundary == mpc # "idle" => fileLock = Manager /\ UpkeepOpen

\* One unfinished journal, whatever its kind.
OneJournal ==
  /\ OneUnfinished
  /\ UpkeepOpen => \A j \in Job : ~Unfinished(j)

\* The live worker of an open journal holds the boundary and the lease, and what
\* its handler has read of its job is still true.
OpenIsHeld ==
  \A w \in Worker : Live(w) /\ Open(wjob[w]) =>
    /\ fileLock = w /\ Leased(w) /\ wepoch[w] > 0
    /\ pc[w] \in {"start", "begin", "publish", "switch", "failed", "rollback"}
    /\ Running(wjob[w])
    /\ pc[w] = "rollback" => seen[w] = jobStatus[wjob[w]]

CommittedIsDone ==
  \A w \in Worker : Live(w) /\ Committed(wjob[w]) => pc[w] \in {"finalize", "release"}

\* A worker past its journal has it, one past its commit has committed it, and none
\* undoes a replica without a lease.
WorkersHaveJournals ==
  \A w \in Worker :
    /\ pc[w] \in {"start", "begin", "publish", "switch"} => Open(wjob[w])
    /\ pc[w] = "finalize" => Committed(wjob[w])
    /\ pc[w] \notin {"undo", "undone", "unknown"}

\* An open journal whose job does not run any more is one recovery cannot prove:
\* the source run moved before the journal was written.
OpenRunsOrIsBlocked ==
  \A j \in Job : Open(j) =>
    \/ Running(j)
    \/ currentSourceRun # jobParent[j] /\ jobStatus[j] \in {"needs_attention", "canceled"}

CommittedHasSucceeded == \A j \in Job : Committed(j) => jobStatus[j] = "succeeded"

BoundaryInv ==
  /\ OneWorkerPerJob /\ ActiveEpoch /\ WorkersHoldBoundary /\ ManagerHoldsBoundary /\ OneJournal
  /\ OpenIsHeld /\ CommittedIsDone /\ WorkersHaveJournals
  /\ OpenRunsOrIsBlocked /\ CommittedHasSucceeded

-----------------------------------------------------------------------------
(* The stores                                                               *)

ImportStores ==
  /\ \A j \in Job : Open(j) =>
       /\ journalTarget[j] = None
       /\ \A t \in Table : IF t \in TablesOf[j] THEN rollbackManifest[j][t] = activeVersion[t]
                                                ELSE duckManifest[t] = activeVersion[t]
  /\ CommittedIsServed
  /\ SwitchIsComplete

\* What the journal of a deletion or a layout says of its table: before SQLite
\* switches, its rollback material is SQLite's version; after, DuckDB has followed.
UpkeepStores ==
  UpkeepOpen =>
    LET t == upkeep.table IN
    /\ upkeep.kind \in {"delete", "layout"} /\ t \in Table
    /\ \A u \in Table \ {t} : duckManifest[u] = activeVersion[u]
    /\ upkeep.kind = "delete" => upkeep.target = None
    /\ upkeep.kind = "layout" => /\ upkeep.target \in Layout /\ upkeep.target \in catalogue[t]
                                 /\ upkeep.candidates = {} /\ Registered(t)
    /\ IF activeVersion[t] = upkeep.target THEN duckManifest[t] = upkeep.target
                                           ELSE upkeep.rollback = activeVersion[t]

\* How far the command that holds it has come.
CommandStores ==
  LET t == upkeep.table
      switched == activeVersion[t] = upkeep.target IN
  /\ mpc \in {"start", "publish", "published", "switch"} => ~switched
  /\ mpc \in {"published", "switch"} => duckManifest[t] = upkeep.target
  /\ mpc \in {"collect", "finish"} => switched
  /\ mpc = "collect" => upkeep.kind = "delete"
  /\ mpc \in {"undo", "undone"} /\ upkeep.kind = "layout" => ~switched
  /\ mpc # "idle" /\ upkeep.kind = "layout" /\ ~switched => base = activeVersion[t]
  /\ mpc = "undone" => duckManifest[t] = activeVersion[t]

SettledStores == (\A j \in Job : ~Unfinished(j)) /\ ~UpkeepOpen => duckManifest = activeVersion

StoresInv == ImportStores /\ UpkeepStores /\ CommandStores /\ SettledStores

-----------------------------------------------------------------------------
(* The files                                                                *)

\* A version something may still read: a served view, the rollback material of an
\* open journal, or the catalogue.
Kept(v) ==
  \/ \E t \in Table : duckManifest[t] = v
  \/ \E j \in Job : Unfinished(j) /\ \E t \in Table : rollbackManifest[j][t] = v
  \/ UpkeepOpen /\ ~CommitUpkeepProven /\ upkeep.rollback = v
  \/ \E t \in Table : v \in catalogue[t]

Stored == \A v \in Worker \union Layout : Kept(v) => ObjectOf[v] \in objects

\* The objects of the versions a worker is about to commit have been stored.
StagedIsStored == \A w \in Worker : pc[w] \in Activating => ObjectOf[w] \in objects

FilesInv == Stored /\ StagedIsStored
=============================================================================
