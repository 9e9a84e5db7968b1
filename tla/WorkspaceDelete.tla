-------------------------- MODULE WorkspaceDelete ---------------------------
(***************************************************************************)
(* The deletion of a workspace, tools/workspace_command_service, and what  *)
(* reconcile_unfinished_restores makes of one that was interrupted.        *)
(*                                                                         *)
(* The workspace has its rows in the SQLite control database and its       *)
(* dataset bindings in the DuckDB catalogue.  A receipt on disk goes       *)
(* before each removal: its publications are tombstoned, a recovery point  *)
(* of the result is kept for the audit, the bindings are dropped, the rows *)
(* deleted, the Parquet objects collected.  Commands hold the cross-engine *)
(* lock, so one runs at a time; at is where it is.  It may die between any *)
(* two writes, or an error may end it.                                     *)
(***************************************************************************)
EXTENDS Integers, FiniteSets

CONSTANTS
  MaxVersion,            \* bound on the changes made to the workspace
  MaxCrashes, MaxFaults,
  None

Version == 0 .. MaxVersion

\* What a recovery point holds, and a plan is drawn from.
Point == [sqlite : Version, duckdb : Version, tombstoned : BOOLEAN]

ASSUME DeleteAssumption ==
  /\ MaxVersion \in Nat /\ MaxCrashes \in Nat /\ MaxFaults \in Nat
  /\ None \notin Version \union Point

VARIABLES
  sqlite, duckdb,  \* the version of the workspace in each store, None once deleted
  tombstoned,      \* its publications are tombstoned
  active,          \* it is the active workspace
  objects,         \* versions whose Parquet objects are on disk
  points,          \* its recovery points, by what they hold
  plan,            \* the state a deletion was previewed in
  stage,           \* status of the receipt
  resume,          \* resumeFromStatus of a receipt that needs attention
  safety,          \* point of the create receipt the deletion has for its audit
  audit,           \* auditRecoveryPoint of the receipt
  candidates,      \* datasetObjectCandidates of the receipt
  importing,       \* an import activation owns the workspace
  op, at,          \* the command that holds the lock
  fresh, crashes, faults

stores == <<sqlite, duckdb, tombstoned, objects, points>>
receipt == <<stage, resume, audit, candidates>>
others == <<active, plan, importing, fresh>>
limits == <<crashes, faults>>
vars == <<stores, receipt, safety, others, op, at, limits>>

State == [sqlite |-> sqlite, duckdb |-> duckdb, tombstoned |-> tombstoned]

Unfinished == {"prepared", "duckdb_deleted", "sqlite_deleted"}

TypeOK ==
  /\ sqlite \in Version \union {None} /\ duckdb \in Version \union {None}
  /\ tombstoned \in BOOLEAN /\ active \in BOOLEAN /\ importing \in BOOLEAN
  /\ objects \subseteq Version /\ candidates \subseteq Version
  /\ points \subseteq Point
  /\ {plan, safety, audit} \subseteq Point \union {None}
  /\ stage \in {"none", "needs_attention", "completed"} \union Unfinished
  /\ resume \in {"none"} \union Unfinished
  /\ op \in {"idle", "delete", "reconcile"}
  /\ at \in {"start", "tombstone", "publish", "receipt", "name", "drop", "dropped",
             "delete", "deleted", "collect", "finish"}
  /\ fresh \in Version /\ crashes \in 0 .. MaxCrashes /\ faults \in 0 .. MaxFaults

Init ==
  /\ sqlite = 0 /\ duckdb = 0 /\ tombstoned = FALSE
  /\ active = TRUE /\ importing = FALSE
  /\ objects = {0} /\ points = {} /\ plan = None
  /\ stage = "none" /\ resume = "none"
  /\ safety = None /\ audit = None /\ candidates = {}
  /\ op = "idle" /\ at = "start"
  /\ fresh = 0 /\ crashes = 0 /\ faults = 0

-----------------------------------------------------------------------------
(* What else happens to the workspace.                                      *)

\* Faulty variant of Fenced: a deletion fences once it has removed something.
FencedOnceRemoving == stage \in {"duckdb_deleted", "sqlite_deleted", "needs_attention"}

\* An unfinished receipt keeps every command but inspections and the
\* reconciliation away, from all workspaces.
Fenced == stage \in Unfinished \union {"needs_attention"}

Exists == sqlite # None

Free == op = "idle" /\ ~Fenced /\ Exists

\* Another workspace is selected, or this one again.
Select ==
  /\ Free
  /\ active' = ~active
  /\ UNCHANGED <<stores, receipt, safety, plan, importing, fresh, op, at, limits>>

Change ==
  /\ fresh < MaxVersion
  /\ fresh' = fresh + 1
  /\ sqlite' = fresh + 1 /\ duckdb' = fresh + 1
  /\ objects' = objects \union {fresh + 1}
  /\ UNCHANGED <<tombstoned, points, receipt, safety, active, plan, importing, op, at, limits>>

Edit == Free /\ Change

\* A worker claims the workspace under the lock, commits under it unless a fence
\* has appeared, and lets go without it.
ImportClaims ==
  /\ Free /\ ~importing
  /\ importing' = TRUE
  /\ UNCHANGED <<stores, receipt, safety, active, plan, fresh, op, at, limits>>

ImportCommits == Free /\ importing /\ Change

ImportEnds ==
  /\ importing /\ importing' = FALSE
  /\ UNCHANGED <<stores, receipt, safety, active, plan, fresh, op, at, limits>>

\* workspace-recovery-create, whole: WorkspaceRecovery has its steps.
CreatePoint ==
  /\ Free /\ ~importing /\ duckdb \in objects
  /\ points' = points \union {State}
  /\ UNCHANGED <<sqlite, duckdb, tombstoned, objects, receipt, safety, others, op, at, limits>>

-----------------------------------------------------------------------------
(* workspace_delete_command and _advance_workspace_delete.                  *)

Preview ==
  /\ Free /\ ~active
  /\ plan' = State
  /\ UNCHANGED <<stores, receipt, safety, active, importing, fresh, op, at, limits>>

GoTo(place) == at' = place /\ UNCHANGED op

End == op' = "idle" /\ at' = "start"

\* The plan is drawn again and must be the one confirmed.
DeleteConfirmed ==
  /\ Free /\ ~active /\ plan = State
  /\ stage' = "prepared"
  /\ op' = "delete" /\ at' = "tombstone"
  /\ UNCHANGED <<stores, resume, audit, candidates, safety, others, limits>>

Tombstone ==
  /\ at = "tombstone"
  /\ tombstoned' = TRUE
  /\ GoTo("publish")
  /\ UNCHANGED <<sqlite, duckdb, objects, points, receipt, safety, others, limits>>

\* The state can be read: the catalogue has every binding the rows ask for.
Readable == duckdb # None

Whole(point) == point \in points /\ point.duckdb \in objects

\* service.create refuses a workspace that an import owns, unless it replays a
\* receipt of its own.
Refused == at = "publish" /\ (~Readable \/ (safety = None /\ importing))

\* The point is published, or found published or receipted by an earlier attempt.
Publish ==
  /\ at = "publish" /\ ~Refused
  /\ IF safety = None
     THEN points' = points \union {State} /\ GoTo("receipt")
     ELSE UNCHANGED points /\ GoTo("name")
  /\ UNCHANGED <<sqlite, duckdb, tombstoned, objects, receipt, safety, others, limits>>

CreateReceipt ==
  /\ at = "receipt"
  /\ safety' = State
  /\ GoTo("name")
  /\ UNCHANGED <<stores, receipt, others, limits>>

\* The point is verified, the live rows are compared with it, and the receipt
\* names it with the objects of every version of the workspace.
NameAudit ==
  /\ at = "name"
  /\ Whole(safety) /\ safety.sqlite = sqlite
  /\ audit' = safety /\ candidates' = objects
  /\ GoTo("drop")
  /\ UNCHANGED <<stores, stage, resume, safety, others, limits>>

\* drop_duckdb_tables, in one transaction.
Drop ==
  /\ at = "drop" /\ audit # None /\ Whole(audit)
  /\ duckdb' = None
  /\ GoTo("dropped")
  /\ UNCHANGED <<sqlite, tombstoned, objects, points, receipt, safety, others, limits>>

DuckdbDeleted ==
  /\ at = "dropped"
  /\ stage' = "duckdb_deleted"
  /\ GoTo("delete")
  /\ UNCHANGED <<stores, resume, audit, candidates, safety, others, limits>>

\* _delete_workspace_sqlite, in one transaction.
DeleteRows ==
  /\ at = "delete" /\ duckdb = None
  /\ sqlite' = None
  /\ GoTo("deleted")
  /\ UNCHANGED <<duckdb, tombstoned, objects, points, receipt, safety, others, limits>>

SqliteDeleted ==
  /\ at = "deleted"
  /\ stage' = "sqlite_deleted"
  /\ GoTo("collect")
  /\ UNCHANGED <<stores, resume, audit, candidates, safety, others, limits>>

\* What its recovery points name stays.
Unreferenced == candidates \ {p.duckdb : p \in points}

\* Faulty variant of Collect: the recovery points are not looked at.
CollectAll ==
  /\ at = "collect" /\ duckdb = None /\ ~Exists
  /\ objects' = objects \ candidates
  /\ GoTo("finish")
  /\ UNCHANGED <<sqlite, duckdb, tombstoned, points, receipt, safety, others, limits>>

Collect ==
  /\ at = "collect" /\ duckdb = None /\ ~Exists
  /\ objects' = objects \ Unreferenced
  /\ GoTo("finish")
  /\ UNCHANGED <<sqlite, duckdb, tombstoned, points, receipt, safety, others, limits>>

Completed ==
  /\ at = "finish"
  /\ stage' = "completed" /\ resume' = "none"
  /\ End
  /\ UNCHANGED <<stores, audit, candidates, safety, others, limits>>

\* An error ends the command.  The receipt of a reconciled deletion then asks for
\* attention and remembers where it was.
Raise ==
  /\ End
  /\ IF op = "reconcile"
     THEN /\ stage' = "needs_attention"
          /\ resume' = IF stage = "needs_attention" THEN resume ELSE stage
     ELSE UNCHANGED <<stage, resume>>
  /\ UNCHANGED <<sqlite, duckdb, tombstoned, points, audit, candidates, safety, others>>

PublishRefused == Refused /\ Raise /\ UNCHANGED <<objects, limits>>

\* Any step may fail; a collection after it has unlinked some of its objects.
Fault ==
  /\ op # "idle" /\ faults < MaxFaults
  /\ faults' = faults + 1
  /\ Raise
  /\ IF at = "collect"
     THEN \E gone \in SUBSET Unreferenced : objects' = objects \ gone
     ELSE UNCHANGED objects
  /\ UNCHANGED crashes

Crash ==
  /\ op # "idle" /\ crashes < MaxCrashes
  /\ crashes' = crashes + 1
  /\ End
  /\ UNCHANGED <<stores, receipt, safety, others, faults>>

-----------------------------------------------------------------------------
(* reconcile_unfinished_restores, its last loop.                            *)

Resumed == IF stage = "needs_attention" THEN resume ELSE stage

\* Faulty variant of Reconcilable: what asked for attention once is left alone.
ReconcilableOnce == stage \in Unfinished

\* Of the receipts that need attention only the last stage is taken up again.
Reconcilable ==
  \/ stage \in Unfinished
  \/ stage = "needs_attention" /\ resume = "sqlite_deleted"

\* Faulty variant of ReconcileStarts: a prepared deletion has tombstoned its
\* publications.
ReconcileStartsPublished ==
  /\ op = "idle" /\ Reconcilable
  /\ op' = "reconcile"
  /\ at' = CASE Resumed = "prepared" -> IF Exists THEN "publish" ELSE "drop"
             [] Resumed = "duckdb_deleted" -> "delete"
             [] Resumed = "sqlite_deleted" -> "collect"
  /\ UNCHANGED <<stores, receipt, safety, others, limits>>

ReconcileStarts ==
  /\ op = "idle" /\ Reconcilable
  /\ op' = "reconcile"
  /\ at' = CASE Resumed = "prepared" -> IF Exists THEN "tombstone" ELSE "drop"
             [] Resumed = "duckdb_deleted" -> "delete"
             [] Resumed = "sqlite_deleted" -> "collect"
  /\ UNCHANGED <<stores, receipt, safety, others, limits>>

-----------------------------------------------------------------------------
\* The next write of the command that holds the lock.
Step ==
  \/ Tombstone \/ Publish \/ PublishRefused \/ CreateReceipt \/ NameAudit
  \/ Drop \/ DuckdbDeleted \/ DeleteRows \/ SqliteDeleted \/ Collect \/ Completed

Next ==
  \/ Select \/ Edit \/ ImportClaims \/ ImportCommits \/ ImportEnds \/ CreatePoint
  \/ Preview \/ DeleteConfirmed \/ Step \/ Fault \/ Crash \/ ReconcileStarts

\* A command that holds the lock goes on, and the gateway reconciles at every
\* start of its writer process.
Spec == Init /\ [][Next]_vars /\ WF_vars(Step) /\ WF_vars(ReconcileStarts)

-----------------------------------------------------------------------------
\* The last state of the workspace, with its publications tombstoned.
Full == [sqlite |-> fresh, duckdb |-> fresh, tombstoned |-> TRUE]

\* Nothing of the workspace is removed before a recovery point holds all of it, its
\* publications tombstoned, and that point stays whole; whatever crashed or failed,
\* and whoever went on with the deletion.
AuditBeforeRemoval ==
  duckdb = None \/ ~Exists =>
    audit = Full /\ Whole(audit)

\* While no command runs, a deletion that has begun keeps a fence until both stores
\* have lost the workspace; nobody can select it, or import into it, meanwhile.
TornDeletionIsFenced ==
  /\ op = "idle" /\ (tombstoned \/ duckdb = None \/ ~Exists) =>
       Fenced \/ (stage = "completed" /\ duckdb = None /\ ~Exists)
  /\ active => Exists /\ duckdb # None

\* The recovery points of the workspace, the audit's and older ones, keep their
\* objects through the collection, and a completed one leaves no others.
PointsKeepTheirObjects ==
  /\ \A p \in points : p.duckdb \in objects
  /\ stage = "completed" => objects = {p.duckdb : p \in points}

Wedged == stage = "needs_attention" /\ resume # "sqlite_deleted"

\* A confirmed deletion is completed in the end, by reconciliation if it is
\* interrupted; unless a reconciliation of it fails before the rows are gone.
DeletionCompletes == stage = "prepared" ~> (stage = "completed" \/ Wedged)

-----------------------------------------------------------------------------
(* The inductive invariant.                                                 *)

\* How far the receipt says the deletion is, and what the stores are then.
StageStands ==
  /\ stage = "none" => sqlite = fresh /\ duckdb = fresh /\ ~tombstoned /\ safety = None
  /\ stage # "none" => ~active
  /\ stage = "needs_attention" => resume \in Unfinished
  /\ Resumed = "prepared" => sqlite = fresh /\ duckdb \in {fresh, None}
  /\ Resumed = "duckdb_deleted" => duckdb = None /\ sqlite \in {fresh, None}
  /\ Resumed \in {"sqlite_deleted", "completed"} => duckdb = None /\ ~Exists

\* Where the command is.
CommandStands ==
  /\ op = "idle" <=> at = "start"
  /\ op = "delete" => stage \in Unfinished
  /\ op = "reconcile" => Reconcilable
  /\ at \in {"tombstone", "publish", "receipt", "name", "drop", "dropped"} => Resumed = "prepared"
  /\ at \in {"publish", "receipt", "name", "drop", "dropped"} => tombstoned
  /\ at \in {"receipt", "name", "drop"} => duckdb = fresh
  /\ at = "receipt" => State \in points
  /\ at = "name" => safety # None
  /\ at \in {"drop", "dropped"} => audit # None
  /\ at = "dropped" => duckdb = None
  /\ at \in {"delete", "deleted"} => Resumed = "duckdb_deleted"
  /\ at = "deleted" => ~Exists
  /\ at \in {"collect", "finish"} => Resumed = "sqlite_deleted"
  /\ at = "finish" => objects \subseteq {p.duckdb : p \in points}

\* The points are whole, and the audit's is the last state.
PointsStand ==
  /\ \A p \in points : p.duckdb \in objects
  /\ duckdb # None => duckdb \in objects
  /\ safety # None => safety = Full /\ safety \in points /\ tombstoned
  /\ audit # None => audit = safety /\ objects \subseteq candidates
  /\ duckdb = None => audit # None
  /\ stage = "completed" => objects \subseteq {p.duckdb : p \in points}

IInv == TypeOK /\ StageStands /\ CommandStands /\ PointsStand
=============================================================================
