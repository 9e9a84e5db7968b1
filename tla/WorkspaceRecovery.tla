------------------------ MODULE WorkspaceRecovery --------------------------
(***************************************************************************)
(* The recovery points of one workspace, tools/workspace_recovery_service: *)
(* create, restore, delete and the reconciliation of what a crash left.    *)
(*                                                                         *)
(* A workspace lives in two stores that no transaction spans: its rows in  *)
(* the SQLite control database and its dataset bindings in the DuckDB      *)
(* catalogue.  Both hold a version of the workspace; what the fingerprint  *)
(* of the state compares is the pair.  A point is named by the request     *)
(* that made it and the state it holds, as its key is a hash of the two.   *)
(* The safety point of a restore is made in the name of the restore.       *)
(*                                                                         *)
(* Commands hold the cross-engine lock (aibi_runtime/dispatch), so one     *)
(* runs at a time: (op, req, at, point) is where it is.  It may die        *)
(* between any two writes, and the lock dies with it.                      *)
(***************************************************************************)
EXTENDS Integers, FiniteSets

CONSTANTS
  Create, Restore, Delete,  \* request keys of the confirmed commands
  MaxVersion,               \* bound on the changes made to the workspace
  MaxCrashes, MaxFaults,
  None

Request == Create \union Restore \union Delete

Version == 0 .. MaxVersion
Content == Version \X Version
Point == (Create \union Restore) \X Content
Previewed == [point : Point \union {None}, state : Content]

ASSUME RecoveryAssumption ==
  /\ Create \intersect (Restore \union Delete) = {}
  /\ Restore \intersect Delete = {}
  /\ None \notin Request \union Point \union Previewed
  /\ MaxVersion \in Nat /\ MaxCrashes \in Nat /\ MaxFaults \in Nat

VARIABLES
  sqlite, duckdb,     \* the version in each store
  fresh,              \* the last version made
  objects,            \* versions whose Parquet objects are on disk
  points,             \* published recovery points
  tombs,              \* points renamed by a delete and not yet removed
  receipts,           \* points whose create has its receipt
  restored,           \* restores whose receipt says completed
  deletion,           \* receipt of each delete
  journal,            \* status of each restore's journal
  plan,               \* the latest preview of each request: its point and state
  importing,          \* an import activation owns the workspace
  op, req, at, point, \* the command that holds the lock
  todo,               \* requests a reconciliation has not visited
  crashes, faults,
  undone              \* completed restores a reconciliation set out to undo (history)

stores == <<sqlite, duckdb, objects>>
points_ == <<points, tombs, receipts>>
records == <<restored, deletion, journal>>
command == <<op, req, at, point, todo>>
limits == <<fresh, crashes, faults>>
vars == <<stores, points_, records, plan, importing, command, limits, undone>>

Sqlite(p) == p[2][1]
Duckdb(p) == p[2][2]

State == <<sqlite, duckdb>>

\* Journals in these states fence the workspace: unfinished_recovery_fences.
Open == {"prepared", "applying", "applied", "needs_attention"}
Closed == {"none", "completed", "rolled_back"}

Ops == {"idle", "create", "restore", "rollback", "delete", "reconcile"}
Places == {"start", "publish", "receipt", "prepare", "apply", "duckdb", "sqlite", "check",
           "settle", "complete", "rename", "remove", "collect", "finish", "next"}

TypeOK ==
  /\ sqlite \in Version /\ duckdb \in Version /\ fresh \in Version
  /\ objects \subseteq Version
  /\ points \subseteq Point /\ receipts \subseteq Point
  /\ tombs \subseteq Delete \X Point
  /\ restored \subseteq Restore /\ undone \subseteq Restore
  /\ deletion \in [Delete -> {"none", "prepared", "completed"}]
  /\ journal \in [Restore -> Open \union Closed]
  /\ plan \in [Request -> {None} \union Previewed]
  /\ importing \in BOOLEAN
  /\ op \in Ops /\ at \in Places
  /\ req \in Request \union {None} /\ point \in Point \union {None}
  /\ todo \subseteq Restore \union Delete
  /\ crashes \in 0 .. MaxCrashes /\ faults \in 0 .. MaxFaults

Init ==
  /\ sqlite = 0 /\ duckdb = 0 /\ fresh = 0 /\ objects = {0}
  /\ points = {} /\ tombs = {} /\ receipts = {}
  /\ restored = {} /\ undone = {}
  /\ deletion = [d \in Delete |-> "none"]
  /\ journal = [r \in Restore |-> "none"]
  /\ plan = [q \in Request |-> None]
  /\ importing = FALSE
  /\ op = "idle" /\ req = None /\ at = "start" /\ point = None /\ todo = {}
  /\ crashes = 0 /\ faults = 0

-----------------------------------------------------------------------------
(* Guards.                                                                  *)

\* Faulty variant of Fenced: a journal that needs attention is taken for settled.
FencedInFlight == \E r \in Restore : journal[r] \in Open \ {"needs_attention"}

\* Every command but the inspections and the reconciliation is refused.
Fenced == \E r \in Restore : journal[r] \in Open

Idle == op = "idle"

Target(r) == plan[r].point
Safety(r) == <<r, plan[r].state>>

\* The point is published and whole, its dataset objects included.
Loads(p) == p \in points /\ Duckdb(p) \in objects

\* The confirmation carries the fingerprint of a preview of this very state.
PlanIsCurrent(q) == plan[q] # None /\ plan[q].state = State

\* The command ends and releases the lock.
End ==
  /\ op' = "idle" /\ req' = None /\ at' = "start" /\ point' = None /\ todo' = {}

GoTo(place) == at' = place /\ UNCHANGED <<op, req, point, todo>>

\* A reconciliation goes on with the next record, any other command ends.
Leave == IF op = "reconcile" THEN GoTo("next") ELSE End

-----------------------------------------------------------------------------
(* What else changes the workspace.                                         *)

\* A command or the commit of an import writes both stores in one go.
Change ==
  /\ Idle /\ ~Fenced /\ fresh < MaxVersion
  /\ fresh' = fresh + 1
  /\ sqlite' = fresh + 1 /\ duckdb' = fresh + 1
  /\ objects' = objects \union {fresh + 1}
  /\ UNCHANGED <<points_, records, plan, importing, command, crashes, faults, undone>>

\* An import worker claims the workspace under the lock; it lets go without it.
ImportClaims ==
  /\ Idle /\ ~Fenced /\ ~importing
  /\ importing' = TRUE
  /\ UNCHANGED <<stores, points_, records, plan, command, limits, undone>>

ImportEnds ==
  /\ importing /\ importing' = FALSE
  /\ UNCHANGED <<stores, points_, records, plan, command, limits, undone>>

\* preview_create, preview_restore, preview_delete.  A restore or a delete is
\* previewed for one point, again if the state has changed since.
Preview(q, p) ==
  /\ Idle /\ ~Fenced
  /\ IF q \in Create THEN p = None ELSE Loads(p)
  /\ q \in Restore => q \notin restored
  /\ q \in Delete => deletion[q] = "none"
  /\ plan[q] # None => plan[q].point = p
  /\ plan' = [plan EXCEPT ![q] = [point |-> p, state |-> State]]
  /\ UNCHANGED <<stores, points_, records, importing, command, limits, undone>>

-----------------------------------------------------------------------------
(* Create: _create_confirmed.  The snapshots are taken in a staging         *)
(* directory; nothing of them counts before the rename that publishes it.   *)

CreateConfirmed(c) ==
  /\ Idle /\ ~Fenced /\ ~importing /\ PlanIsCurrent(c)
  /\ \A p \in receipts : p[1] # c
  /\ op' = "create" /\ req' = c /\ point' = <<c, State>>
  /\ at' = IF <<c, State>> \in points THEN "receipt" ELSE "publish"
  /\ UNCHANGED <<stores, points_, records, plan, importing, todo, limits, undone>>

\* os.replace(staging, final_directory); the point then loads and verifies.
Publish ==
  /\ op \in {"create", "restore"} /\ at = "publish"
  /\ duckdb \in objects
  /\ points' = points \union {point}
  /\ GoTo("receipt")
  /\ UNCHANGED <<stores, tombs, receipts, records, plan, importing, limits, undone>>

CreateReceipt ==
  /\ op \in {"create", "restore"} /\ at = "receipt"
  /\ receipts' = receipts \union {point}
  /\ IF op = "create" THEN End ELSE GoTo("prepare")
  /\ UNCHANGED <<stores, points, tombs, records, plan, importing, limits, undone>>

-----------------------------------------------------------------------------
(* Restore.                                                                 *)

\* Faulty variant of RestoreConfirmed: an import that owns the workspace is not
\* looked for.
RestoreConfirmedAnyway(r) ==
  /\ Idle /\ ~Fenced
  /\ r \notin restored /\ PlanIsCurrent(r) /\ Loads(Target(r))
  /\ Safety(r) \in receipts => Loads(Safety(r))
  /\ op' = "restore" /\ req' = r /\ point' = Safety(r)
  /\ at' = IF Safety(r) \in receipts THEN "prepare"
           ELSE IF Safety(r) \in points THEN "receipt" ELSE "publish"
  /\ UNCHANGED <<stores, points_, records, plan, importing, todo, limits, undone>>

\* The safety point of this request and state is made, found published without
\* its receipt, or replayed; replayed, it must still load.
RestoreConfirmed(r) ==
  /\ Idle /\ ~Fenced /\ ~importing
  /\ r \notin restored /\ PlanIsCurrent(r) /\ Loads(Target(r))
  /\ Safety(r) \in receipts => Loads(Safety(r))
  /\ op' = "restore" /\ req' = r /\ point' = Safety(r)
  /\ at' = IF Safety(r) \in receipts THEN "prepare"
           ELSE IF Safety(r) \in points THEN "receipt" ELSE "publish"
  /\ UNCHANGED <<stores, points_, records, plan, importing, todo, limits, undone>>

WriteJournal(status) == journal' = [journal EXCEPT ![req] = status]

RestorePrepared ==
  /\ op = "restore" /\ at = "prepare"
  /\ WriteJournal("prepared")
  /\ GoTo("apply")
  /\ UNCHANGED <<stores, points_, restored, deletion, plan, importing, limits, undone>>

RestoreApplying ==
  /\ op = "restore" /\ at = "apply"
  /\ WriteJournal("applying")
  /\ at' = "duckdb" /\ point' = Target(req)
  /\ UNCHANGED <<stores, points_, restored, deletion, plan, importing, op, req, todo, limits, undone>>

\* _apply_point: the DuckDB transaction, then the SQLite transaction, then the
\* fingerprint of the state against that of the point.
ApplyDuckdb ==
  /\ at = "duckdb"
  /\ duckdb' = Duckdb(point)
  /\ GoTo("sqlite")
  /\ UNCHANGED <<sqlite, objects, points_, records, plan, importing, limits, undone>>

ApplySqlite ==
  /\ at = "sqlite"
  /\ sqlite' = Sqlite(point)
  /\ GoTo("check")
  /\ UNCHANGED <<duckdb, objects, points_, records, plan, importing, limits, undone>>

\* The journal holds the result before the receipt is written.
Applied ==
  /\ op = "restore" /\ at = "check" /\ State = point[2]
  /\ WriteJournal("applied")
  /\ GoTo("settle")
  /\ UNCHANGED <<stores, points_, restored, deletion, plan, importing, limits, undone>>

RestoreReceipt ==
  /\ op = "restore" /\ at = "settle"
  /\ restored' = restored \union {req}
  /\ GoTo("complete")
  /\ UNCHANGED <<stores, points_, deletion, journal, plan, importing, limits, undone>>

RestoreCompleted ==
  /\ op = "restore" /\ at = "complete"
  /\ WriteJournal("completed")
  /\ End
  /\ UNCHANGED <<stores, points_, restored, deletion, plan, importing, limits, undone>>

RolledBack ==
  /\ op \in {"rollback", "reconcile"} /\ at = "check" /\ State = point[2]
  /\ WriteJournal("rolled_back")
  /\ Leave
  /\ UNCHANGED <<stores, points_, restored, deletion, plan, importing, limits, undone>>

\* A step of _apply_point raises.  A restore then applies its safety point; when
\* that fails too, the journal asks for attention.
ApplyFails ==
  /\ at \in {"duckdb", "sqlite", "check"} /\ faults < MaxFaults
  /\ faults' = faults + 1
  /\ IF op = "restore"
     THEN /\ op' = "rollback" /\ at' = "duckdb" /\ point' = Safety(req)
          /\ UNCHANGED <<req, todo, journal>>
     ELSE WriteJournal("needs_attention") /\ Leave
  /\ UNCHANGED <<stores, points_, restored, deletion, plan, importing, fresh, crashes, undone>>

-----------------------------------------------------------------------------
(* Delete: the receipt says prepared before anything is removed.            *)

DeleteConfirmed(d) ==
  /\ Idle /\ ~Fenced /\ ~importing
  /\ deletion[d] = "none" /\ PlanIsCurrent(d) /\ Loads(Target(d))
  /\ deletion' = [deletion EXCEPT ![d] = "prepared"]
  /\ op' = "delete" /\ req' = d /\ at' = "rename" /\ point' = Target(d)
  /\ UNCHANGED <<stores, points_, restored, journal, plan, importing, todo, limits, undone>>

\* The same request again finishes what its receipt says is prepared.
DeleteReplayed(d) ==
  /\ Idle /\ ~Fenced /\ deletion[d] = "prepared"
  /\ op' = "delete" /\ req' = d /\ at' = "rename" /\ point' = Target(d)
  /\ UNCHANGED <<stores, points_, records, plan, importing, todo, limits, undone>>

\* _finish_prepared_delete, from its rename on.
DeleteRenames ==
  /\ at = "rename" /\ ~(point \in points /\ <<req, point>> \in tombs)
  /\ points' = points \ {point}
  /\ tombs' = IF point \in points THEN tombs \union {<<req, point>>} ELSE tombs
  /\ GoTo("remove")
  /\ UNCHANGED <<stores, receipts, records, plan, importing, limits, undone>>

\* Both the point and its tombstone exist: nothing is done.
DeleteAmbiguous ==
  /\ at = "rename" /\ point \in points /\ <<req, point>> \in tombs
  /\ Leave
  /\ UNCHANGED <<stores, points_, records, plan, importing, limits, undone>>

DeleteRemoves ==
  /\ at = "remove"
  /\ tombs' = tombs \ {<<req, point>>}
  /\ GoTo("collect")
  /\ UNCHANGED <<stores, points, receipts, records, plan, importing, limits, undone>>

\* Objects the control database, the catalogue or a published point still names.
Referenced == {sqlite, duckdb} \union {Duckdb(p) : p \in points}

\* Faulty variant of DeleteCollects: the other recovery points are not looked at.
DeleteCollectsMore ==
  /\ at = "collect"
  /\ objects' = objects \ ({Duckdb(point)} \ {sqlite, duckdb})
  /\ GoTo("finish")
  /\ UNCHANGED <<sqlite, duckdb, points_, records, plan, importing, limits, undone>>

DeleteCollects ==
  /\ at = "collect"
  /\ objects' = objects \ ({Duckdb(point)} \ Referenced)
  /\ GoTo("finish")
  /\ UNCHANGED <<sqlite, duckdb, points_, records, plan, importing, limits, undone>>

DeleteCompleted ==
  /\ at = "finish"
  /\ deletion' = [deletion EXCEPT ![req] = "completed"]
  /\ Leave
  /\ UNCHANGED <<stores, points_, restored, journal, plan, importing, limits, undone>>

-----------------------------------------------------------------------------
(* reconcile_unfinished_restores: every journal, then every prepared delete. *)

ReconcileStarts ==
  /\ Idle
  /\ LET found == {r \in Restore : journal[r] # "none"}
                    \union {d \in Delete : deletion[d] = "prepared"}
     IN  found # {} /\ todo' = found
  /\ op' = "reconcile" /\ at' = "next"
  /\ UNCHANGED <<stores, points_, records, plan, importing, req, point, limits, undone>>

AtNext == op = "reconcile" /\ at = "next"

\* Faulty variant of Proven: a journal that reached the stores is believed without
\* a look at the state.
ProvenByStatus(r) == journal[r] \in {"applying", "applied", "completed"}

\* The journal says applied and the workspace is in the state it promises.
Proven(r) == journal[r] \in {"applied", "completed"} /\ State = Target(r)[2]

\* The receipt is written (again) and the journal completed.
RepairReceipt(r) ==
  /\ AtNext /\ r \in todo /\ Proven(r)
  /\ restored' = restored \union {r}
  /\ journal' = [journal EXCEPT ![r] = "completed"]
  /\ todo' = todo \ {r}
  /\ UNCHANGED <<stores, points_, deletion, plan, importing, op, req, at, point, limits, undone>>

\* Faulty variant of SkipRolledBack: what asked for attention once is left alone.
SkipSettled(r) ==
  /\ AtNext /\ r \in todo /\ journal[r] \in {"rolled_back", "needs_attention"}
  /\ todo' = todo \ {r}
  /\ UNCHANGED <<stores, points_, records, plan, importing, op, req, at, point, limits, undone>>

SkipRolledBack(r) ==
  /\ AtNext /\ r \in todo /\ journal[r] = "rolled_back"
  /\ todo' = todo \ {r}
  /\ UNCHANGED <<stores, points_, records, plan, importing, op, req, at, point, limits, undone>>

\* Every other journal, a completed one whose workspace has changed included, is
\* rolled back to its safety point.
BeginRollback(r) ==
  /\ AtNext /\ r \in todo /\ ~Proven(r) /\ journal[r] # "rolled_back"
  /\ undone' = IF journal[r] = "completed" THEN undone \union {r} ELSE undone
  /\ todo' = todo \ {r} /\ req' = r
  /\ IF Loads(Safety(r))
     THEN /\ at' = "duckdb" /\ point' = Safety(r)
          /\ UNCHANGED journal
     ELSE /\ journal' = [journal EXCEPT ![r] = "needs_attention"]
          /\ UNCHANGED <<at, point>>
  /\ UNCHANGED <<stores, points_, restored, deletion, plan, importing, op, limits>>

FinishDelete(d) ==
  /\ AtNext /\ d \in todo /\ todo \intersect Restore = {}
  /\ todo' = todo \ {d} /\ req' = d
  /\ at' = "rename" /\ point' = Target(d)
  /\ UNCHANGED <<stores, points_, records, plan, importing, op, limits, undone>>

ReconcileEnds ==
  /\ AtNext /\ todo = {} /\ End
  /\ UNCHANGED <<stores, points_, records, plan, importing, limits, undone>>

\* The process dies, or an exception outside the handlers ends the command.
Crash ==
  /\ ~Idle /\ crashes < MaxCrashes
  /\ crashes' = crashes + 1
  /\ End
  /\ UNCHANGED <<stores, points_, records, plan, importing, fresh, faults, undone>>

-----------------------------------------------------------------------------
\* The next write of the command that holds the lock.
Step ==
  \/ Publish \/ CreateReceipt
  \/ RestorePrepared \/ RestoreApplying \/ Applied \/ RestoreReceipt \/ RestoreCompleted
  \/ ApplyDuckdb \/ ApplySqlite \/ RolledBack
  \/ DeleteRenames \/ DeleteAmbiguous \/ DeleteRemoves \/ DeleteCollects \/ DeleteCompleted
  \/ \E r \in Restore : RepairReceipt(r) \/ SkipRolledBack(r) \/ BeginRollback(r)
  \/ \E d \in Delete : FinishDelete(d)
  \/ ReconcileEnds

Next ==
  \/ Change \/ ImportClaims \/ ImportEnds
  \/ \E q \in Request : \E p \in points \union {None} : Preview(q, p)
  \/ \E c \in Create : CreateConfirmed(c)
  \/ \E r \in Restore : RestoreConfirmed(r)
  \/ \E d \in Delete : DeleteConfirmed(d) \/ DeleteReplayed(d)
  \/ ReconcileStarts
  \/ Step \/ ApplyFails \/ Crash

\* A command that holds the lock goes on, and the gateway reconciles at every
\* start of its writer process.
Spec == Init /\ [][Next]_vars /\ WF_vars(Step) /\ WF_vars(ReconcileStarts)

-----------------------------------------------------------------------------
\* While no command runs, a workspace whose stores disagree is fenced, whatever
\* crashed or failed; except after a reconciliation of a completed restore.
TornIsFenced == Idle /\ sqlite # duckdb /\ undone = {} => Fenced

\* Whatever is deleted, and by whichever of the commands and reconciliations that
\* crashed on the way, the stores and the recovery points keep their objects.
ReferencedObjectsExist == undone = {} => Referenced \subseteq objects

\* A restore is acknowledged, at once or after a restart, only over the content
\* of its point, and a journal that is rolled back leaves that of its safety point.
RestoreEndsWhole ==
  [][\A r \in Restore :
       /\ r \in restored' \ restored => State' = Target(r)[2]
       /\ journal'[r] = "rolled_back" /\ journal[r] # "rolled_back" => State' = plan[r].state]_vars

\* While an import owns the workspace no recovery writes its stores, except to
\* undo a completed restore.
ImportsOwnTheStores ==
  [][importing /\ ~Idle => UNCHANGED <<sqlite, duckdb>> \/ req \in undone]_vars

\* The journal is open and its safety point is gone: a delete of that point, left
\* prepared by a crash, is finished by the reconciliation that fails to apply it.
Stranded(r) == journal[r] \in Open /\ ~Loads(Safety(r))

\* A fence is lifted in the end: reconciliation settles every journal it can.
FencesLift == Fenced ~> (~Fenced \/ undone # {} \/ \E r \in Restore : Stranded(r))

-----------------------------------------------------------------------------
(* The inductive invariant.                                                 *)

Whole(content) == content[1] = content[2]

\* Where each command can be, with the journal of its restore.
Confirmed(q) == plan[q] # None

RestoreStands ==
  op = "restore" =>
    /\ req \in Restore /\ Confirmed(req) /\ Target(req) \in Point
    /\ at \in {"publish", "receipt", "prepare", "apply", "duckdb", "sqlite", "check",
              "settle", "complete"}
    /\ at \in {"publish", "receipt", "prepare"} => ~Fenced /\ point = Safety(req) /\ State = point[2]
    /\ at = "apply" => journal[req] = "prepared"
    /\ at \in {"duckdb", "sqlite", "check"} => journal[req] = "applying" /\ point = Target(req)
    /\ at \in {"settle", "complete"} => journal[req] = "applied" /\ State = Target(req)[2]

RollbackStands ==
  op \in {"rollback", "reconcile"} /\ at \in {"duckdb", "sqlite", "check"} =>
    /\ req \in Restore /\ Confirmed(req) /\ point = Safety(req)
    /\ op = "rollback" => journal[req] = "applying"
    /\ journal[req] \in Open \/ req \in undone

OthersStand ==
  /\ op = "idle" => at = "start" /\ todo = {}
  /\ op = "create" => /\ at \in {"publish", "receipt"} /\ req \in Create
                     /\ ~Fenced /\ point \in Point /\ State = point[2]
  /\ op = "rollback" => at \in {"duckdb", "sqlite", "check"}
  /\ op = "delete" => at \in {"rename", "remove", "collect", "finish"}
  /\ op = "reconcile" => at \in {"next", "duckdb", "sqlite", "check",
                                "rename", "remove", "collect", "finish"}
  /\ at \in {"rename", "remove", "collect", "finish"} =>
       req \in Delete /\ deletion[req] # "none" /\ point \in Point

\* Progress of _apply_point.
ApplyStands ==
  /\ at = "sqlite" => duckdb = Duckdb(point)
  /\ at = "check" => State = point[2]

\* What was previewed, and what has a journal or a receipt in need of its preview.
PlansStand ==
  /\ \A q \in Request : Confirmed(q) =>
       IF q \in Create THEN plan[q].point = None ELSE plan[q].point \in Point
  /\ \A r \in Restore : journal[r] # "none" => Confirmed(r)
  /\ \A d \in Delete : deletion[d] # "none" => Confirmed(d)
  /\ todo \subseteq {r \in Restore : journal[r] # "none"} \union {d \in Delete : deletion[d] # "none"}

\* Until a completed restore is undone, only a fenced workspace is torn, and no
\* point or preview ever holds a torn one.
WholeUnlessOpen ==
  undone = {} =>
    /\ sqlite # duckdb => Fenced
    /\ \A p \in points : Whole(p[2])
    /\ \A q \in Request : Confirmed(q) =>
         Whole(plan[q].state) /\ (plan[q].point # None => Whole(plan[q].point[2]))

\* An import and an open journal exclude each other.
ImportStands ==
  importing => /\ op \notin {"create", "restore", "rollback"}
               /\ \A r \in Restore : journal[r] \in Open => r \in undone

\* The point a command applies, or would roll back to, stays published under it.
PointsStand ==
  /\ op = "restore" => \/ at = "publish"
                       \/ Safety(req) \in points
  /\ op = "restore" /\ at \in {"publish", "receipt", "prepare", "apply"} => Target(req) \in points
  /\ at \in {"duckdb", "sqlite"} => point \in points

IInv ==
  /\ TypeOK /\ RestoreStands /\ RollbackStands /\ OthersStand /\ ApplyStands
  /\ PointsStand /\ PlansStand /\ WholeUnlessOpen /\ ImportStands
  /\ ReferencedObjectsExist
=============================================================================
