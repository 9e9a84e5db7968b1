------------------------ MODULE SqlServerActivation -------------------------
(***************************************************************************)
(* From a SQL Server connector to active data: a catalog is discovered, a  *)
(* plan drawn from it, the plan's snapshot read and sealed in a staging    *)
(* directory, the sealed artifact imported by a durable job, and the       *)
(* activation finalized with a receipt (tools/sqlserver_snapshot_commands, *)
(* tools/sqlserver_snapshot_adapter_service).                              *)
(*                                                                         *)
(* Imports are what AtomicImport promises of them; ImportActivation keeps  *)
(* that promise.  Every write holds the cross-engine lock, so a snapshot   *)
(* (op, at, read) excludes the other commands until it ends or its process *)
(* dies.  The gateway finalizes the activations it launched, and all of    *)
(* them each time it or its writer process starts.                         *)
(***************************************************************************)
EXTENDS Integers, FiniteSets

CONSTANTS
  Plan,        \* snapshot plans, by request key
  Activation,  \* import jobs of confirmed activations, by request key
  Import,      \* every other import of the workspace
  MaxReads,    \* bound on reads of the remote tables
  MaxEvents,   \* bound on what happens to the system: changes of the connector and
               \* of the remote tables, deaths and failed calls, taken together
  Null

Job == Activation \union Import

Catalog == (0 .. MaxEvents) \X (0 .. MaxEvents)
Content == (0 .. MaxEvents) \X (1 .. MaxReads)
Input == Plan \X Content \X (Job \union {Null})

ASSUME SqlServerAssumption ==
  /\ Activation \intersect Import = {}
  /\ Null \notin Plan \union Job \union Catalog \union Content \union Input
  /\ MaxEvents \in Nat /\ MaxReads \in Nat

VARIABLES
  config,      \* the connector's target, as configured
  remote,      \* the contract of its tables: columns, types, network binding
  catalogs,    \* discovered catalogs: the target and the contract each names
  plan,        \* the catalog a plan was drawn from
  status,      \* of each plan
  sealed,      \* content of the artifact a plan has in the staging directory
  snapshot,    \* content named by a plan's snapshot receipt
  activated,   \* job named by a plan's activation receipt
  bound,       \* the plan, the content and the parent source run of a job's input
  before,      \* activations created before a job
  outcome, current,  \* of the imports, and the current source run
  live,        \* jobs whose worker may commit: queued, or holding a lease
  imported,    \* content a job committed (history)
  op, at, read,      \* the running snapshot, its place and what it has read
  reads,       \* reads so far; tells their contents apart
  up,          \* the gateway accepts calls
  due,         \* jobs the gateway launched and has not made its call for
  missed,      \* jobs whose call failed in the life of this gateway
  events

source == <<config, remote>>
plans == <<catalogs, plan, status, snapshot, activated>>
jobs == <<bound, before, outcome, current, live, imported>>
command == <<op, at, read, reads>>
gateway == <<up, due, missed, events>>
sqlVars == <<source, plans, sealed, jobs, command, gateway>>

\* A source run is named after the job that made it.
Imports == INSTANCE AtomicImport
  WITH Job <- Job, Run <- Job, Table <- {}, TablesOf <- [j \in Job |-> {}],
       version <- [t \in {} |-> Null], None <- Null

SqlTypeOK ==
  /\ events \in 0 .. MaxEvents
  /\ config \in 0 .. events /\ remote \in 0 .. events
  /\ catalogs \subseteq Catalog
  /\ plan \in [Plan -> Catalog \union {Null}]
  /\ status \in [Plan -> {"none", "planned", "staged", "activated"}]
  /\ sealed \in [Plan -> Content \union {Null}]
  /\ snapshot \in [Plan -> Content \union {Null}]
  /\ activated \in [Plan -> Activation \union {Null}]
  /\ bound \in [Activation -> Input \union {Null}]
  /\ before \in [Activation -> SUBSET Activation]
  /\ outcome \in [Job -> {"absent", "open", "succeeded", "failed", "canceled"}]
  /\ current \in Job \union {Null}
  /\ live \subseteq Activation
  /\ imported \in [Activation -> Content \union {Null}]
  /\ op \in Plan \union {Null}
  /\ at \in {"read", "seal", "persist"}
  /\ read \in Content \union {Null}
  /\ reads \in 0 .. MaxReads
  /\ up \in BOOLEAN
  /\ due \subseteq Activation /\ missed \subseteq Activation

SqlInit ==
  /\ config = 0 /\ remote = 0 /\ catalogs = {}
  /\ plan = [p \in Plan |-> Null]
  /\ status = [p \in Plan |-> "none"]
  /\ sealed = [p \in Plan |-> Null]
  /\ snapshot = [p \in Plan |-> Null]
  /\ activated = [p \in Plan |-> Null]
  /\ bound = [k \in Activation |-> Null]
  /\ before = [k \in Activation |-> {}]
  /\ Imports!Init
  /\ live = {} /\ imported = [k \in Activation |-> Null]
  /\ op = Null /\ at = "read" /\ read = Null /\ reads = 0
  /\ up = TRUE /\ due = {} /\ missed = {} /\ events = 0

Idle == op = Null

Happens == events < MaxEvents /\ events' = events + 1

-----------------------------------------------------------------------------
(* The connector and its plans.                                             *)

\* The connector is pointed elsewhere; the remote tables change on their own.
Reconfigure ==
  /\ Idle /\ Happens
  /\ config' = config + 1
  /\ UNCHANGED <<remote, plans, sealed, jobs, command, up, due, missed>>

RemoteChanges ==
  /\ Happens
  /\ remote' = remote + 1
  /\ UNCHANGED <<config, plans, sealed, jobs, command, up, due, missed>>

Discover ==
  /\ Idle
  /\ catalogs' = catalogs \union {<<config, remote>>}
  /\ UNCHANGED <<source, plan, status, snapshot, activated, sealed, jobs, command, gateway>>

\* The catalog must be of the target now configured, and may be stale otherwise.
DrawPlan(p, c) ==
  /\ Idle /\ plan[p] = Null /\ c[1] = config
  /\ plan' = [plan EXCEPT ![p] = c]
  /\ status' = [status EXCEPT ![p] = "planned"]
  /\ UNCHANGED <<source, catalogs, snapshot, activated, sealed, jobs, command, gateway>>

-----------------------------------------------------------------------------
(* The snapshot command.                                                    *)

End == op' = Null /\ at' = "read" /\ read' = Null

\* Faulty variant of ExecuteConfirmed: a sealed artifact is not looked for.
ExecuteConfirmedAgain(p) ==
  /\ Idle /\ plan[p] # Null /\ plan[p][1] = config
  /\ op' = p /\ at' = "read"
  /\ UNCHANGED <<source, plans, sealed, jobs, read, reads, gateway>>

\* A plan of the configured target is executed; an artifact it has already sealed
\* is verified and answered instead.
ExecuteConfirmed(p) ==
  /\ Idle /\ plan[p] # Null /\ plan[p][1] = config
  /\ op' = p
  /\ IF sealed[p] = Null
     THEN at' = "read" /\ UNCHANGED read
     ELSE at' = "persist" /\ read' = sealed[p]
  /\ UNCHANGED <<source, plans, sealed, jobs, reads, gateway>>

\* The tables are described again and must be as planned; their rows are written
\* to a temporary directory with a manifest.
ReadRemote ==
  /\ ~Idle /\ at = "read" /\ reads < MaxReads
  /\ remote = plan[op][2]
  /\ reads' = reads + 1
  /\ read' = <<remote, reads + 1>>
  /\ at' = "seal"
  /\ UNCHANGED <<source, plans, sealed, jobs, op, gateway>>

\* SQLSERVER_CATALOG_DRIFT, or any failure of the read: the directory is removed.
ReadFails ==
  /\ ~Idle /\ at = "read" /\ End
  /\ UNCHANGED <<source, plans, sealed, jobs, reads, gateway>>

\* os.replace of the temporary directory.
Seal ==
  /\ ~Idle /\ at = "seal"
  /\ sealed' = [sealed EXCEPT ![op] = read]
  /\ at' = "persist"
  /\ UNCHANGED <<source, plans, jobs, op, read, reads, gateway>>

\* The receipt is kept when there is one; the plan is staged in any case.
PersistSnapshot ==
  /\ ~Idle /\ at = "persist" /\ End
  /\ snapshot' = IF snapshot[op] = Null THEN [snapshot EXCEPT ![op] = read] ELSE snapshot
  /\ status' = [status EXCEPT ![op] = "staged"]
  /\ UNCHANGED <<source, catalogs, plan, activated, sealed, jobs, reads, gateway>>

SnapshotDies ==
  /\ ~Idle /\ Happens /\ End
  /\ UNCHANGED <<source, plans, sealed, jobs, reads, up, due, missed>>

-----------------------------------------------------------------------------
(* The activation and its import.                                           *)

\* The artifact is whole and the one its receipt names.
Verified(p) == sealed[p] # Null /\ sealed[p] = snapshot[p]

Existing == {k \in Activation : outcome[k] # "absent"}

\* The owner confirms the manifest of the receipt; the gateway queues the job.
ActivatePlan(k, p) ==
  /\ Idle /\ up
  /\ status[p] \in {"staged", "activated"} /\ Verified(p)
  /\ Imports!Submit(k)
  /\ bound' = [bound EXCEPT ![k] = <<p, sealed[p], current>>]
  /\ before' = [before EXCEPT ![k] = Existing]
  /\ live' = live \union {k} /\ due' = due \union {k}
  /\ UNCHANGED <<source, plans, sealed, imported, command, up, missed, events>>

\* The worker draws the plan of the import again, from the artifact and the current
\* source run, and it must be the one confirmed.
ActivationCommits(k) ==
  /\ Idle /\ k \in live
  /\ Imports!Activate(k, k)
  /\ sealed[bound[k][1]] = bound[k][2] /\ current = bound[k][3]
  /\ imported' = [imported EXCEPT ![k] = sealed[bound[k][1]]]
  /\ UNCHANGED <<source, plans, sealed, bound, before, live, command, gateway>>

\* A job that a recovery has stopped is queued again.
Resume(k) ==
  /\ Idle /\ up
  /\ outcome[k] = "open" /\ k \notin live
  /\ sealed[bound[k][1]] = bound[k][2] /\ current = bound[k][3]
  /\ live' = live \union {k} /\ due' = due \union {k}
  /\ UNCHANGED <<source, plans, sealed, bound, before, outcome, current, imported,
                 command, up, missed, events>>

\* It fails or is canceled.
ActivationEnds(k) ==
  /\ Imports!Abandon(k)
  /\ UNCHANGED <<source, plans, sealed, bound, before, live, imported, command, gateway>>

OtherSubmits(i) ==
  /\ Idle
  /\ Imports!Submit(i)
  /\ UNCHANGED <<source, plans, sealed, bound, before, live, imported, command, gateway>>

OtherCommits(i) ==
  /\ Idle
  /\ Imports!Activate(i, i)
  /\ UNCHANGED <<source, plans, sealed, bound, before, live, imported, command, gateway>>

-----------------------------------------------------------------------------
(* Finalization: _finalize_activation_job.                                  *)

PlanOf(k) == bound[k][1]

\* The receipt is there, and of this job.
Replays(k) ==
  /\ activated[PlanOf(k)] = k
  /\ status[PlanOf(k)] = "activated" /\ outcome[k] = "succeeded"

\* Faulty variant of Finalizable: any settled job is finalized.
FinalizableSettled(k) ==
  /\ activated[PlanOf(k)] = Null /\ Verified(PlanOf(k))
  /\ outcome[k] \notin {"absent", "open"}

\* The job committed what is still the current source run.
Finalizable(k) ==
  /\ activated[PlanOf(k)] = Null /\ Verified(PlanOf(k))
  /\ outcome[k] = "succeeded" /\ current = k

\* Nothing to finalize, unless a job before it has just finalized the same plan.
Skips(k) ==
  /\ activated[PlanOf(k)] = Null /\ Verified(PlanOf(k))
  /\ outcome[k] # "succeeded"
  /\ ~\E j \in before[k] : PlanOf(j) = PlanOf(k) /\ Finalizable(j)

\* The receipts and plan statuses of the finalized jobs are persisted.
Finalize(ks) ==
  /\ activated' = [p \in Plan |->
       IF \E k \in ks : PlanOf(k) = p THEN CHOOSE k \in ks : PlanOf(k) = p ELSE activated[p]]
  /\ status' = [p \in Plan |-> IF \E k \in ks : PlanOf(k) = p THEN "activated" ELSE status[p]]

\* Faulty variant of FinalizeJob: the call is made before the job has settled.
FinalizeJobEarly(k) ==
  /\ Idle /\ up /\ k \in due
  /\ due' = due \ {k}
  /\ Finalize({j \in {k} : Finalizable(j)})
  /\ UNCHANGED <<source, catalogs, plan, snapshot, sealed, jobs, command, up, missed, events>>

\* The gateway finalizes a job it launched, once, when the job has settled.
FinalizeJob(k) ==
  /\ Idle /\ up /\ k \in due /\ outcome[k] # "open"
  /\ due' = due \ {k}
  /\ Finalize({j \in {k} : Finalizable(j)})
  /\ UNCHANGED <<source, catalogs, plan, snapshot, sealed, jobs, command, up, missed, events>>

\* The call fails; that is logged.
FinalizeJobFails(k) ==
  /\ up /\ k \in due /\ outcome[k] # "open" /\ Happens
  /\ due' = due \ {k} /\ missed' = missed \union {k}
  /\ UNCHANGED <<source, plans, sealed, jobs, command, up>>

GatewayDies ==
  /\ up /\ Happens
  /\ up' = FALSE /\ due' = {} /\ missed' = {}
  /\ UNCHANGED <<source, plans, sealed, jobs, command>>

\* Its writer process alone dies: calls wait for a recovery, as after a start.
WriterDies ==
  /\ up /\ Happens
  /\ up' = FALSE
  /\ UNCHANGED <<source, plans, sealed, jobs, command, due, missed>>

\* Imports are recovered first, which revokes the leases of their workers.
RevokeLeases ==
  /\ live' = {}
  /\ UNCHANGED <<bound, before, outcome, current, imported>>

AllFinalize == \A k \in Existing : Replays(k) \/ Finalizable(k) \/ Skips(k)

\* Every activation job is finalized, replayed or skipped, in one transaction.
Starts ==
  /\ Idle /\ ~up /\ AllFinalize
  /\ RevokeLeases
  /\ up' = TRUE
  /\ Finalize({k \in Existing : Finalizable(k)})
  /\ UNCHANGED <<source, catalogs, plan, snapshot, sealed, command, due, missed, events>>

\* When one of them fails all are rolled back and no call is accepted.
StartRefused ==
  /\ Idle /\ ~up /\ ~AllFinalize
  /\ RevokeLeases
  /\ UNCHANGED <<source, plans, sealed, command, gateway>>

-----------------------------------------------------------------------------
Step == ReadRemote \/ ReadFails \/ Seal \/ PersistSnapshot

SqlNext ==
  \/ Reconfigure \/ RemoteChanges \/ Discover
  \/ \E p \in Plan : \E c \in catalogs : DrawPlan(p, c)
  \/ \E p \in Plan : ExecuteConfirmed(p)
  \/ Step \/ SnapshotDies
  \/ \E k \in Activation : \/ \E p \in Plan : ActivatePlan(k, p)
                           \/ ActivationCommits(k) \/ ActivationEnds(k) \/ Resume(k)
                           \/ FinalizeJob(k) \/ FinalizeJobFails(k)
  \/ \E i \in Import : OtherSubmits(i) \/ OtherCommits(i)
  \/ GatewayDies \/ WriterDies \/ Starts \/ StartRefused

\* A snapshot goes on or fails, its time budget being finite.  The gateway makes the
\* call it owes a settled job, and is started again after it dies; both wait for the
\* lock, and get it though others take it again and again.
Fairness ==
  /\ WF_sqlVars(Step) /\ SF_sqlVars(Starts)
  /\ \A k \in Activation : SF_sqlVars(FinalizeJob(k))

SqlSpec == SqlInit /\ [][SqlNext]_sqlVars /\ Fairness

-----------------------------------------------------------------------------
\* A plan's activation receipt names a job that was created for that plan, has
\* succeeded, and imported the very content of the plan's snapshot receipt, read
\* while the remote tables were as planned.
ActivationIsProven ==
  \A p \in Plan : activated[p] # Null =>
    LET k == activated[p]
    IN  /\ outcome[k] = "succeeded"
        /\ bound[k][1] = p /\ bound[k][2] = snapshot[p]
        /\ imported[k] = snapshot[p]
        /\ snapshot[p][1] = plan[p][2]

\* What the owner has confirmed stays: an artifact, once sealed, and its receipt
\* are never replaced, whatever commands are repeated or die.
SealedStays ==
  [][\A p \in Plan : /\ sealed[p] # Null => sealed'[p] = sealed[p]
                     /\ snapshot[p] # Null => snapshot'[p] = snapshot[p]
                     /\ activated[p] # Null => activated'[p] = activated[p]]_sqlVars

\* A gateway that has started owes no activation a receipt.
StartupFinalizesAll ==
  [][~up /\ up' => \A k \in Activation :
                     outcome[k] = "succeeded" => activated'[PlanOf(k)] = k]_sqlVars

Receipted(k) == \E p \in Plan : activated[p] = k

\* A committed activation gets its receipt, from its own gateway or from the next
\* one, unless another import replaces it first, its one call has failed and the
\* gateway lives on, or the gateway is kept from starting.
CommittedIsFinalized ==
  \A k \in Activation :
    outcome[k] = "succeeded" ~>
      (Receipted(k) \/ current # k \/ ~AllFinalize \/ k \in missed)

-----------------------------------------------------------------------------
(* The inductive invariant.                                                 *)

\* What the running snapshot has in hand.
SnapshotStands ==
  op # Null =>
    /\ plan[op] # Null
    /\ at = "read" => sealed[op] = Null
    /\ at = "seal" => /\ sealed[op] = Null
                      /\ read # Null /\ read[1] = plan[op][2]
    /\ at = "persist" => read # Null /\ sealed[op] = read

\* An artifact is of the tables its plan names, and a receipt of the artifact.
SealsStand ==
  \A p \in Plan :
    /\ sealed[p] # Null => plan[p] # Null /\ sealed[p][1] = plan[p][2]
    /\ snapshot[p] # Null => sealed[p] = snapshot[p]
    /\ status[p] \in {"staged", "activated"} => snapshot[p] # Null
    /\ plan[p] = Null => status[p] = "none"

\* A job is bound to a receipt, and commits what it is bound to.
JobsStand ==
  \A k \in Activation :
    /\ outcome[k] # "absent" => /\ bound[k] # Null
                                /\ snapshot[PlanOf(k)] = bound[k][2]
    /\ outcome[k] = "succeeded" => imported[k] = bound[k][2]

SqlInv == SqlTypeOK /\ SnapshotStands /\ SealsStand /\ JobsStand /\ ActivationIsProven
=============================================================================
