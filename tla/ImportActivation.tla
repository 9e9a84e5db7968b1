-------------------------- MODULE ImportActivation --------------------------
(***************************************************************************)
(* Durable imports of one workspace: the worker process of                 *)
(* import_job_run_command, the cancel, resume, process-exit and recover    *)
(* commands that race with it, and the crash of any of these processes.    *)
(*                                                                         *)
(* An import moves two stores.  The new version of every table of the plan *)
(* becomes readable in the DuckDB manifest, table by table, and SQLite     *)
(* then switches the active versions, the current source run, the journal  *)
(* and the job in one transaction.  Each SQLite transaction is a step; the *)
(* one that activates is open while DuckDB is published, so it is split at *)
(* every DuckDB commit and dbLock is SQLite's write lock meanwhile.        *)
(***************************************************************************)
EXTENDS ActivationJournal

CONSTANT
  Faults   \* the failures a run allows beyond the crash of a process

\* inputDrift       a sealed input or the plan changed since it was confirmed
\* boundaryDenied   the wait for the mutation lock expires, or an unfinished
\*                  workspace recovery fences imports
\* restoreError     the DuckDB rollback of a failed worker raises
\* duplicateLaunch  a second worker is started for a job that still has one
AllFaults == {"inputDrift", "boundaryDenied", "restoreError", "duplicateLaunch"}

ASSUME FaultsAssumption == Faults \subseteq AllFaults

VARIABLES
  pc,        \* where each worker is in import_job_run_command
  wjob,      \* the job it was launched for
  wepoch,    \* its lease_epoch; 0 until it sets lease_claimed
  seen,      \* the job status its exception handler read
  fileLock,  \* holder of the cross-process mutation lock
  dbLock     \* worker whose activation transaction is open in SQLite

workerVars == <<pc, wjob, wepoch, seen>>
lockVars == <<fileLock, dbLock>>
vars == <<jobVars, jobParent, journalVars, leaseVars, sqliteData, duckManifest,
          workerVars, lockVars>>

PCs == {"idle", "launched", "claim", "rebuild", "prepare", "start", "begin", "publish", "switch",
        "finalize", "failed", "rollback", "inspect", "undo", "undone", "unknown",
        "settle", "release", "exited", "reaped"}

\* Past these points the process does nothing any more.
Ended == {"idle", "exited", "reaped"}

Goto(w, label) == pc' = [pc EXCEPT ![w] = label]

\* The end of a process, whose memory goes with it.
Exit(w) ==
  /\ Goto(w, "exited")
  /\ wepoch' = [wepoch EXCEPT ![w] = 0]
  /\ seen' = [seen EXCEPT ![w] = "absent"]

DbFree == dbLock = None

\* execute_command runs every other command inside the boundary that a worker
\* owns from its journal to its end: no cancel and no recovery gets in between.
BoundaryFree == fileLock = None

\* The publishing worker keeps DuckDB open from its first table to its last.
DuckFree ==
  \A w \in Worker : pc[w] = "publish" => \A t \in TablesOf[wjob[w]] : duckManifest[t] # w

\* assert_import_workspace
Leased(w) == leaseActive /\ leaseHolder = w /\ leaseEpoch = wepoch[w]

Init ==
  /\ jobStatus = [j \in Job |-> "absent"]
  /\ jobProgress = [j \in Job |-> 0]
  /\ jobParent = [j \in Job |-> None]
  /\ journalPhase = [j \in Job |-> "none"]
  /\ journalTarget = [j \in Job |-> None]
  /\ journalOutcome = [j \in Job |-> "none"]
  /\ rollbackManifest = [j \in Job |-> [t \in Table |-> None]]
  /\ leaseHolder = None
  /\ leaseEpoch = 0
  /\ leaseActive = FALSE
  /\ currentSourceRun = None
  /\ activeVersion = [t \in Table |-> None]
  /\ duckManifest = [t \in Table |-> None]
  /\ pc = [w \in Worker |-> "idle"]
  /\ wjob = [w \in Worker |-> None]
  /\ wepoch = [w \in Worker |-> 0]
  /\ seen = [w \in Worker |-> "absent"]
  /\ fileLock = None
  /\ dbLock = None

-----------------------------------------------------------------------------
(* The owner's requests                                                     *)

\* import_job_create_command, under the mutation lock.
CreateJob(j) ==
  /\ BoundaryFree /\ DbFree
  /\ CreateJobRow(j)
  /\ jobParent' = [jobParent EXCEPT ![j] = currentSourceRun]
  /\ UNCHANGED <<journalVars, leaseVars, sqliteData, duckManifest, workerVars, lockVars>>

CancelJob(j) ==
  /\ BoundaryFree /\ DbFree
  /\ RequestJobCancel(j)
  /\ UNCHANGED <<jobParent, journalVars, leaseVars, sqliteData, duckManifest, workerVars, lockVars>>

\* import_job_resume_command, its plan still current; with a drifted plan it
\* changes nothing.
ResumeJob(j) ==
  /\ BoundaryFree /\ DbFree
  /\ jobStatus[j] = "needs_attention"
  /\ currentSourceRun = jobParent[j]
  /\ TransitionJob(j, "queued", jobProgress[j])
  /\ UNCHANGED <<jobParent, journalVars, leaseVars, sqliteData, duckManifest, workerVars, lockVars>>

-----------------------------------------------------------------------------
(* A worker: from its start to the commit boundary                          *)

\* The gateway starts a worker for a job it has seen queued and for which it
\* owns no process.  A command line, or a gateway that lost its processes in a
\* crash, looks at neither.
Launch(w, j) ==
  /\ pc[w] = "idle"
  /\ jobStatus[j] # "absent"
  /\ \/ "duplicateLaunch" \in Faults
     \/ /\ jobStatus[j] = "queued"
        /\ \A v \in Worker : wjob[v] = j => pc[v] \in Ended
  /\ wjob' = [wjob EXCEPT ![w] = j]
  /\ Goto(w, "launched")
  /\ UNCHANGED <<jobVars, jobParent, journalVars, leaseVars, sqliteData, duckManifest,
                 wepoch, seen, lockVars>>

\* The process has started and reads the job, with no lock held.
ReadJob(w) ==
  /\ pc[w] = "launched"
  /\ Goto(w, CASE Terminal(wjob[w]) -> "exited"
               [] jobStatus[wjob[w]] = "needs_attention" -> "failed"
               [] OTHER -> "claim")
  /\ UNCHANGED <<jobVars, jobParent, journalVars, leaseVars, sqliteData, duckManifest,
                 wjob, wepoch, seen, lockVars>>

ClaimGranted(w) ==
  /\ pc[w] = "claim" /\ fileLock = None /\ DbFree
  /\ GrantLease(w)
  /\ jobStatus[wjob[w]] = "queued"
  /\ TransitionJob(wjob[w], "running", 5)
  /\ wepoch' = [wepoch EXCEPT ![w] = leaseEpoch + 1]
  /\ Goto(w, "rebuild")
  /\ UNCHANGED <<jobParent, journalVars, sqliteData, duckManifest, wjob, seen, lockVars>>

\* Another job is being imported: the worker leaves without a trace.
ClaimDeferred(w) ==
  /\ pc[w] = "claim" /\ fileLock = None /\ DbFree
  /\ leaseActive
  /\ Exit(w)
  /\ UNCHANGED <<jobVars, jobParent, journalVars, leaseVars, sqliteData, duckManifest,
                 wjob, lockVars>>

\* transition_job raises after the lease was granted: the transaction is lost,
\* lease_claimed and lease_epoch stay set in the process.
ClaimRefused(w) ==
  /\ pc[w] = "claim" /\ fileLock = None /\ DbFree
  /\ ~leaseActive
  /\ ~ /\ jobStatus[wjob[w]] = "queued"
       /\ MayTransition(wjob[w], "running", 5)
  /\ wepoch' = [wepoch EXCEPT ![w] = leaseEpoch + 1]
  /\ Goto(w, "failed")
  /\ UNCHANGED <<jobVars, jobParent, journalVars, leaseVars, sqliteData, duckManifest,
                 wjob, seen, lockVars>>

\* Both waits for the mutation lock, before the claim and before the journal.
BoundaryDenied(w) ==
  /\ "boundaryDenied" \in Faults
  /\ pc[w] \in {"claim", "prepare"}
  /\ Goto(w, "failed")
  /\ UNCHANGED <<jobVars, jobParent, journalVars, leaseVars, sqliteData, duckManifest,
                 wjob, wepoch, seen, lockVars>>

\* Faulty variant of RebuildPlan: the parent source run is not in the fingerprint.
RebuildPlanAnyParent(w) ==
  /\ pc[w] = "rebuild"
  /\ Goto(w, "prepare")
  /\ UNCHANGED <<jobVars, jobParent, journalVars, leaseVars, sqliteData, duckManifest,
                 wjob, wepoch, seen, lockVars>>

\* The plan is rebuilt with no lock held and compared with the frozen one,
\* whose fingerprint covers the parent source run.
RebuildPlan(w) ==
  /\ pc[w] = "rebuild"
  /\ \/ currentSourceRun = jobParent[wjob[w]] /\ Goto(w, "prepare")
     \/ currentSourceRun # jobParent[wjob[w]] /\ Goto(w, "failed")
     \/ "inputDrift" \in Faults /\ Goto(w, "failed")
  /\ UNCHANGED <<jobVars, jobParent, journalVars, leaseVars, sqliteData, duckManifest,
                 wjob, wepoch, seen, lockVars>>

\* Faulty variant of PrepareActivation: the claim is not looked at again once
\* the boundary is entered.
PrepareActivationUnfenced(w) ==
  LET j == wjob[w] IN
  /\ pc[w] = "prepare" /\ fileLock = None /\ DbFree
  /\ fileLock' = w
  /\ \/ Unfinished(j) /\ UNCHANGED journalVars
     \/ ~Unfinished(j) /\ ~Competing(j) /\ PrepareJournal(j)
  /\ jobProgress' = [jobProgress EXCEPT ![j] = 25]
  /\ Goto(w, "start")
  /\ UNCHANGED <<jobStatus, jobParent, leaseVars, sqliteData, duckManifest,
                 wjob, wepoch, seen, dbLock>>

\* The journal is prepared under the mutation lock, which the worker keeps
\* until it ends.  An unfinished journal of the same job is taken over.
PrepareActivation(w) ==
  LET j == wjob[w] IN
  /\ pc[w] = "prepare" /\ fileLock = None /\ DbFree
  /\ fileLock' = w
  /\ Leased(w) /\ MayReport(j, 15)
  /\ \/ Unfinished(j) /\ UNCHANGED journalVars
     \/ ~Unfinished(j) /\ ~Competing(j) /\ PrepareJournal(j)
  /\ jobProgress' = [jobProgress EXCEPT ![j] = 25]
  /\ Goto(w, "start")
  /\ UNCHANGED <<jobStatus, jobParent, leaseVars, sqliteData, duckManifest,
                 wjob, wepoch, seen, dbLock>>

PrepareFails(w) ==
  LET j == wjob[w] IN
  /\ pc[w] = "prepare" /\ fileLock = None /\ DbFree
  /\ fileLock' = w
  /\ ~ /\ Leased(w) /\ MayReport(j, 15)
       /\ Unfinished(j) \/ ~Competing(j)
  /\ Goto(w, "failed")
  /\ UNCHANGED <<jobVars, jobParent, journalVars, leaseVars, sqliteData, duckManifest,
                 wjob, wepoch, seen, dbLock>>

StartCommit(w) ==
  LET j == wjob[w] IN
  /\ pc[w] = "start" /\ DbFree
  /\ Leased(w) /\ MayReport(j, 35)
  /\ journalPhase[j] \in {"prepared", "commit_started"}
  /\ journalPhase' = [journalPhase EXCEPT ![j] = "commit_started"]
  /\ jobProgress' = [jobProgress EXCEPT ![j] = 35]
  /\ Goto(w, "begin")
  /\ UNCHANGED <<jobStatus, jobParent, journalTarget, journalOutcome, rollbackManifest,
                 leaseVars, sqliteData, duckManifest, wjob, wepoch, seen, lockVars>>

StartFails(w) ==
  LET j == wjob[w] IN
  /\ pc[w] = "start" /\ DbFree
  /\ ~ /\ Leased(w) /\ MayReport(j, 35)
       /\ journalPhase[j] \in {"prepared", "commit_started"}
  /\ Goto(w, "failed")
  /\ UNCHANGED <<jobVars, jobParent, journalVars, leaseVars, sqliteData, duckManifest,
                 wjob, wepoch, seen, lockVars>>

-----------------------------------------------------------------------------
(* A worker: the activation transaction                                     *)

\* BEGIN IMMEDIATE, the fence, and the staged rows; update_job_progress(55)
\* raises when a cancel request came first.
BeginActivation(w) ==
  /\ pc[w] = "begin" /\ DbFree
  /\ Leased(w) /\ MayReport(wjob[w], 55)
  /\ dbLock' = w
  /\ Goto(w, IF TablesOf[wjob[w]] = {} THEN "switch" ELSE "publish")
  /\ UNCHANGED <<jobVars, jobParent, journalVars, leaseVars, sqliteData, duckManifest,
                 wjob, wepoch, seen, fileLock>>

BeginFails(w) ==
  /\ pc[w] = "begin" /\ DbFree
  /\ ~(Leased(w) /\ MayReport(wjob[w], 55))
  /\ Goto(w, "failed")
  /\ UNCHANGED <<jobVars, jobParent, journalVars, leaseVars, sqliteData, duckManifest,
                 wjob, wepoch, seen, lockVars>>

\* publish_dataset_view: DuckDB commits each table on its own.
PublishReplica(w, t) ==
  /\ pc[w] = "publish"
  /\ t \in TablesOf[wjob[w]] /\ duckManifest[t] # w
  /\ duckManifest' = [duckManifest EXCEPT ![t] = w]
  /\ Goto(w, IF \A u \in TablesOf[wjob[w]] \ {t} : duckManifest[u] = w
             THEN "switch" ELSE "publish")
  /\ UNCHANGED <<jobVars, jobParent, journalVars, leaseVars, sqliteData,
                 wjob, wepoch, seen, lockVars>>

\* Anything raised while the transaction is open rolls SQLite back; what DuckDB
\* has published stays.
ActivationFails(w) ==
  /\ pc[w] \in {"publish", "switch"}
  /\ dbLock' = None
  /\ Goto(w, "failed")
  /\ UNCHANGED <<jobVars, jobParent, journalVars, leaseVars, sqliteData, duckManifest,
                 wjob, wepoch, seen, fileLock>>

CommitActivation(w) ==
  LET j == wjob[w] IN
  /\ pc[w] = "switch"
  /\ activeVersion' = [t \in Table |-> IF t \in TablesOf[j] THEN w ELSE activeVersion[t]]
  /\ currentSourceRun' = w
  /\ journalPhase' = [journalPhase EXCEPT ![j] = "source_selection_committed"]
  /\ journalTarget' = [journalTarget EXCEPT ![j] = w]
  /\ TransitionJob(j, "succeeded", 95)
  /\ dbLock' = None
  /\ Goto(w, "finalize")
  /\ UNCHANGED <<jobParent, journalOutcome, rollbackManifest, leaseVars, duckManifest,
                 wjob, wepoch, seen, fileLock>>

\* The committed journal is finalized without a look at the lease; recovery may
\* have done it already.
FinalizeActivation(w) ==
  LET j == wjob[w] IN
  /\ pc[w] = "finalize" /\ DbFree
  /\ IF journalPhase[j] = "finalized" THEN UNCHANGED journalVars ELSE Finalize(j, "committed")
  /\ Goto(w, "release")
  /\ UNCHANGED <<jobVars, jobParent, leaseVars, sqliteData, duckManifest,
                 wjob, wepoch, seen, lockVars>>

\* An error here is only reported as a deferred finalization.
FinalizeFails(w) ==
  /\ pc[w] = "finalize"
  /\ Goto(w, "release")
  /\ UNCHANGED <<jobVars, jobParent, journalVars, leaseVars, sqliteData, duckManifest,
                 wjob, wepoch, seen, lockVars>>

-----------------------------------------------------------------------------
(* A worker: its exception handler and its end                              *)

\* The handler reads the job before its transaction begins, and fences itself
\* only when it had claimed the lease.
ReadOutcome(w) ==
  /\ pc[w] = "failed"
  /\ seen' = [seen EXCEPT ![w] = jobStatus[wjob[w]]]
  /\ Goto(w, IF wepoch[w] > 0 THEN "rollback" ELSE "inspect")
  /\ UNCHANGED <<jobVars, jobParent, journalVars, leaseVars, sqliteData, duckManifest,
                 wjob, wepoch, lockVars>>

\* The status the handler gives the job, decided by the status it read.
HandlerStatus(w, unknown) ==
  CASE seen[w] \in TerminalStatuses -> jobStatus[wjob[w]]
    [] seen[w] \notin TerminalStatuses /\ unknown -> "needs_attention"
    [] seen[w] = "cancel_requested" /\ ~unknown -> "canceled"
    [] OTHER -> "failed"

SettleJob(w, unknown) ==
  TransitionJob(wjob[w], HandlerStatus(w, unknown), jobProgress[wjob[w]])

\* One SQLite transaction from the fence to the job's end; the DuckDB rollback
\* commits inside it.
RollBack(w) ==
  LET j == wjob[w] IN
  /\ pc[w] = "rollback" /\ DbFree
  /\ Leased(w)
  /\ SettleJob(w, FALSE)
  /\ IF Unfinished(j)
     THEN duckManifest' = Restored(j) /\ Finalize(j, "rolled_back")
     ELSE UNCHANGED <<duckManifest, journalVars>>
  /\ Goto(w, "release")
  /\ UNCHANGED <<jobParent, leaseVars, sqliteData, wjob, wepoch, seen, lockVars>>

RollBackFenced(w) ==
  /\ pc[w] = "rollback" /\ DbFree
  /\ ~Leased(w)
  /\ Goto(w, "release")
  /\ UNCHANGED <<jobVars, jobParent, journalVars, leaseVars, sqliteData, duckManifest,
                 wjob, wepoch, seen, lockVars>>

\* The job was settled by someone else since it was read: transition_job raises
\* and takes the journal's end with it, not the DuckDB rollback.
RollBackRaises(w) ==
  LET j == wjob[w] IN
  /\ pc[w] = "rollback" /\ DbFree
  /\ Leased(w)
  /\ ~MayTransition(j, HandlerStatus(w, FALSE), jobProgress[j])
  /\ duckManifest' = IF Unfinished(j) THEN Restored(j) ELSE duckManifest
  /\ Goto(w, "release")
  /\ UNCHANGED <<jobVars, jobParent, journalVars, leaseVars, sqliteData,
                 wjob, wepoch, seen, lockVars>>

\* The DuckDB rollback raises: the journal stays open and recovery is asked for.
RollBackDeferred(w) ==
  /\ "restoreError" \in Faults
  /\ pc[w] = "rollback" /\ DbFree
  /\ Leased(w) /\ Unfinished(wjob[w])
  /\ SettleJob(w, TRUE)
  /\ Goto(w, "release")
  /\ UNCHANGED <<jobParent, journalVars, leaseVars, sqliteData, duckManifest,
                 wjob, wepoch, seen, lockVars>>

\* The process dies between the DuckDB rollback and its SQLite commit.
RollBackCrash(w) ==
  /\ pc[w] = "rollback" /\ DbFree
  /\ Leased(w) /\ Unfinished(wjob[w])
  /\ duckManifest' = Restored(wjob[w])
  /\ fileLock' = IF fileLock = w THEN None ELSE fileLock
  /\ Exit(w)
  /\ UNCHANGED <<jobVars, jobParent, journalVars, leaseVars, sqliteData,
                 wjob, dbLock>>

\* Without a lease the handler runs unfenced, and with no transaction open
\* until its first write.
InspectJournal(w) ==
  /\ pc[w] = "inspect"
  /\ Goto(w, IF Unfinished(wjob[w]) THEN "undo" ELSE "settle")
  /\ UNCHANGED <<jobVars, jobParent, journalVars, leaseVars, sqliteData, duckManifest,
                 wjob, wepoch, seen, lockVars>>

UndoReplica(w) ==
  /\ pc[w] = "undo" /\ DuckFree
  /\ duckManifest' = Restored(wjob[w])
  /\ Goto(w, "undone")
  /\ UNCHANGED <<jobVars, jobParent, journalVars, leaseVars, sqliteData,
                 wjob, wepoch, seen, lockVars>>

UndoFails(w) ==
  /\ "restoreError" \in Faults
  /\ pc[w] = "undo"
  /\ Goto(w, "unknown")
  /\ UNCHANGED <<jobVars, jobParent, journalVars, leaseVars, sqliteData, duckManifest,
                 wjob, wepoch, seen, lockVars>>

SettleUnfenced(w) ==
  LET j == wjob[w] IN
  /\ pc[w] \in {"settle", "undone", "unknown"} /\ DbFree
  /\ SettleJob(w, pc[w] = "unknown")
  /\ IF pc[w] = "undone" /\ Unfinished(j) THEN Finalize(j, "rolled_back")
                                          ELSE UNCHANGED journalVars
  /\ Goto(w, "release")
  /\ UNCHANGED <<jobParent, leaseVars, sqliteData, duckManifest, wjob, wepoch, seen, lockVars>>

\* The job has moved on since it was read: transition_job raises and SQLite is
\* rolled back, DuckDB is not.
SettleRaises(w) ==
  /\ pc[w] \in {"settle", "undone", "unknown"} /\ DbFree
  /\ ~MayTransition(wjob[w], HandlerStatus(w, pc[w] = "unknown"), jobProgress[wjob[w]])
  /\ Goto(w, "release")
  /\ UNCHANGED <<jobVars, jobParent, journalVars, leaseVars, sqliteData, duckManifest,
                 wjob, wepoch, seen, lockVars>>

\* The finally block: the mutation lock, then the lease if it is still held.
Release(w) ==
  /\ pc[w] = "release" /\ DbFree
  /\ fileLock' = IF fileLock = w THEN None ELSE fileLock
  /\ IF Leased(w) THEN ReleaseLease ELSE UNCHANGED leaseVars
  /\ Exit(w)
  /\ UNCHANGED <<jobVars, jobParent, journalVars, sqliteData, duckManifest,
                 wjob, dbLock>>

\* The process dies or is killed: both locks go with it, the lease stays.
Crash(w) ==
  /\ pc[w] \notin Ended
  /\ Exit(w)
  /\ fileLock' = IF fileLock = w THEN None ELSE fileLock
  /\ dbLock' = IF dbLock = w THEN None ELSE dbLock
  /\ UNCHANGED <<jobVars, jobParent, journalVars, leaseVars, sqliteData, duckManifest,
                 wjob>>

-----------------------------------------------------------------------------
(* Recovery                                                                 *)

\* Faulty variants of RecoveredStatus: any reconciled journal counts as a
\* commit; an interrupted job keeps its status.
RecoveredStatusReconciled(j, u) ==
  IF j = u THEN "succeeded"
  ELSE IF jobStatus[j] = "cancel_requested" THEN "canceled" ELSE "needs_attention"

RecoveredStatusKept(j, u) ==
  IF j = u /\ CommitProven(j) THEN "succeeded" ELSE jobStatus[j]

\* recover_import_jobs over the jobs of a scope, u being the one among them
\* whose unfinished journal was reconciled (the schema admits one unfinished
\* journal per workspace), None if there is none.
RecoveredStatus(j, u) ==
  IF j = u /\ CommitProven(j) THEN "succeeded"
  ELSE IF jobStatus[j] = "cancel_requested" THEN "canceled" ELSE "needs_attention"

RecoverJobs(scope, u) ==
  /\ jobStatus' = [j \in Job |-> IF j \in scope /\ jobStatus[j] \in LiveStatuses
                                 THEN RecoveredStatus(j, u) ELSE jobStatus[j]]
  /\ jobProgress' = [j \in Job |-> IF /\ j \in scope /\ jobStatus[j] \in LiveStatuses
                                      /\ RecoveredStatus(j, u) = "succeeded"
                                   THEN 100 ELSE jobProgress[j]]

\* reconcile_activation; a journal it cannot prove either way stays open.
Reconcile(u) ==
  IF u = None THEN UNCHANGED <<journalVars, duckManifest>>
  ELSE \/ CommitProven(u) /\ Finalize(u, "committed") /\ UNCHANGED duckManifest
       \/ RollbackProven(u) /\ Finalize(u, "rolled_back") /\ duckManifest' = Restored(u)
       \/ ~CommitProven(u) /\ ~RollbackProven(u) /\ UNCHANGED <<journalVars, duckManifest>>

ToReconcile(scope, u) ==
  IF u = None THEN \A j \in scope : ~Unfinished(j) ELSE u \in scope /\ Unfinished(u)

\* import-job-recover, run when the runtime host starts a writer, or by hand.
Recover(u) ==
  /\ BoundaryFree /\ DbFree
  /\ ToReconcile(Job, u)
  /\ RevokeLease
  /\ Reconcile(u)
  /\ RecoverJobs(Job, u)
  /\ UNCHANGED <<jobParent, sqliteData, workerVars, lockVars>>

\* import-job-process-exit for a worker the gateway has seen end.  A worker
\* that a newer lease superseded reconciles nothing.
ProcessExit(w, u) ==
  LET scope == IF leaseHolder = w THEN {wjob[w]} ELSE {} IN
  /\ pc[w] = "exited" /\ BoundaryFree /\ DbFree
  /\ ToReconcile(scope, u)
  /\ IF leaseHolder = w THEN RevokeLease ELSE UNCHANGED leaseVars
  /\ Reconcile(u)
  /\ RecoverJobs(scope, u)
  /\ Goto(w, "reaped")
  /\ UNCHANGED <<jobParent, sqliteData, wjob, wepoch, seen, lockVars>>

\* Either command dies between the DuckDB rollback and its SQLite commit.
RecoveryCrash(u) ==
  /\ BoundaryFree /\ DbFree
  /\ Unfinished(u) /\ RollbackProven(u) /\ ~CommitProven(u)
  /\ duckManifest' = Restored(u)
  /\ UNCHANGED <<jobVars, jobParent, journalVars, leaseVars, sqliteData, workerVars, lockVars>>

-----------------------------------------------------------------------------

Owner(j) == CreateJob(j) \/ CancelJob(j) \/ ResumeJob(j)

WorkerStep(w) ==
  \/ ReadJob(w)
  \/ ClaimGranted(w) \/ ClaimDeferred(w) \/ ClaimRefused(w) \/ BoundaryDenied(w)
  \/ RebuildPlan(w)
  \/ PrepareActivation(w) \/ PrepareFails(w)
  \/ StartCommit(w) \/ StartFails(w)
  \/ BeginActivation(w) \/ BeginFails(w)
  \/ \E t \in Table : PublishReplica(w, t)
  \/ ActivationFails(w) \/ CommitActivation(w)
  \/ FinalizeActivation(w) \/ FinalizeFails(w)
  \/ ReadOutcome(w) \/ RollBack(w) \/ RollBackFenced(w) \/ RollBackRaises(w)
  \/ RollBackDeferred(w)
  \/ InspectJournal(w) \/ UndoReplica(w) \/ UndoFails(w)
  \/ SettleUnfenced(w) \/ SettleRaises(w)
  \/ Release(w)

WorkerDies(w) == Crash(w) \/ RollBackCrash(w)

Recovery ==
  \/ \E u \in Job \union {None} : Recover(u)
  \/ \E w \in Worker, u \in Job \union {None} : ProcessExit(w, u)

Next ==
  \/ \E j \in Job : Owner(j)
  \/ \E w \in Worker, j \in Job : Launch(w, j)
  \/ \E w \in Worker : WorkerStep(w) \/ WorkerDies(w)
  \/ Recovery
  \/ \E u \in Job : RecoveryCrash(u)

Spec == Init /\ [][Next]_vars

-----------------------------------------------------------------------------
(* Properties                                                               *)

ProcessTypes ==
  /\ JobTypeOK
  /\ pc \in [Worker -> PCs]
  /\ wjob \in [Worker -> Job \union {None}]
  /\ wepoch \in [Worker -> Nat]
  /\ seen \in [Worker -> AllStatuses]
  /\ dbLock \in Worker \union {None}

TypeOK ==
  /\ ProcessTypes
  /\ JournalTypeOK
  /\ fileLock \in Worker \union {None}

\* Once no activation is unfinished, DuckDB serves exactly the versions SQLite
\* names: however imports failed, no old or half-published version passes for
\* the current one.
CatalogAgreesWhenSettled == (\A j \in Job : ~Unfinished(j)) => duckManifest = activeVersion

\* While an activation is unfinished, a reader of DuckDB finds each table at the
\* version it had before or at one a worker of this job staged, and tables
\* outside the plan are untouched; the rollback material restores SQLite's
\* versions until the switch.
PreviousOrTarget ==
  \A j \in Job : Unfinished(j) =>
    \A t \in Table :
      /\ \/ duckManifest[t] = activeVersion[t]
         \/ /\ t \in TablesOf[j]
            /\ duckManifest[t] \in Worker /\ wjob[duckManifest[t]] = j
      /\ t \in TablesOf[j] /\ ~Switched(j) => rollbackManifest[j][t] = activeVersion[t]

\* Reconciliation can always prove what happened: it never has to leave an
\* import journal blocked, outside the activation transaction itself.
RecoveryNeverBlocked ==
  DbFree => \A j \in Job : Unfinished(j) => CommitProven(j) \/ RollbackProven(j)

\* A job has succeeded exactly when its activation was committed: no failed,
\* canceled or still open import has switched anything.
SuccessIsActivation ==
  \A j \in Job : jobStatus[j] = "succeeded" <=>
    \/ journalPhase[j] = "source_selection_committed"
    \/ journalPhase[j] = "finalized" /\ journalOutcome[j] = "committed"

\* Whatever the faults, the current source run and every active version were
\* staged for a job that succeeded.
VersionsComeFromSuccess ==
  \A r \in {currentSourceRun} \union {activeVersion[t] : t \in Table} :
    r # None => jobStatus[wjob[r]] = "succeeded"

\* A worker that lost its lease to recovery or to another owner changes neither
\* the stores nor any journal from then on.
FencedWorkersAreInert ==
  [][\A w \in Worker : wepoch[w] > 0 /\ ~Leased(w) /\ pc'[w] # pc[w] =>
       UNCHANGED <<sqliteData, duckManifest, journalVars>>]_vars

\* Whatever the faults, only the worker that still holds the lease, of a job that
\* still runs, switches the current source run: what it checked when it began the
\* activation is true when it commits.
SwitchIsOwned ==
  [][currentSourceRun' # currentSourceRun =>
       /\ currentSourceRun' \in Worker
       /\ leaseActive /\ leaseHolder = currentSourceRun' /\ leaseEpoch = wepoch[currentSourceRun']
       /\ jobStatus[wjob[currentSourceRun']] = "running"]_vars

-----------------------------------------------------------------------------
(* What the owner sees: an atomic import                                    *)

RolledBackOnRecovery(j, t) == Unfinished(j) /\ ~Switched(j) /\ t \in TablesOf[j]

\* The version a table reads once the unfinished activation, if any, has been
\* reconciled.
ReadableVersion ==
  [t \in Table |->
     IF \E j \in Job : RolledBackOnRecovery(j, t)
     THEN rollbackManifest[CHOOSE j \in Job : RolledBackOnRecovery(j, t)][t]
     ELSE duckManifest[t]]

JobOutcome ==
  [j \in Job |-> IF jobStatus[j] \in LiveStatuses THEN "open" ELSE jobStatus[j]]

Atomic == INSTANCE AtomicImport
            WITH outcome <- JobOutcome, current <- currentSourceRun,
                 version <- ReadableVersion

\* Interleaved, crashing, canceled and recovered workers over two stores
\* implement an import that is atomic in both.
ImportIsAtomic == Atomic!Spec

-----------------------------------------------------------------------------
(* Liveness                                                                 *)

\* A live process is scheduled, and the gateway reconciles every worker whose
\* process it has seen end.
FairSpec ==
  /\ Spec
  /\ \A w \in Worker : WF_vars(WorkerStep(w))
  /\ \A w \in Worker : WF_vars(\E u \in Job \union {None} : ProcessExit(w, u))

\* Besides, the runtime host starts a writer, and so recovers, again and again.
RestartSpec == FairSpec /\ WF_vars(\E u \in Job \union {None} : Recover(u))

\* No job runs, or waits for its cancellation, for ever: its worker ends it, or
\* the worker's end does.
RunningJobsEnd ==
  \A j \in Job : jobStatus[j] \in {"running", "cancel_requested"} ~>
                   jobStatus[j] \notin {"running", "cancel_requested"}

\* Every unfinished activation is finalized in the end, so that it does not
\* fence the workspace's next import for good; unless a second process of the job
\* has taken the replica back under a commit.
ActivationsSettle ==
  \A j \in Job : Unfinished(j) ~> ~Unfinished(j) \/ (Switched(j) /\ ~ReplicaMatches(j))
=============================================================================
