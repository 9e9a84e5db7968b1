----------------------- MODULE ImportActivation_proofs ------------------------
(***************************************************************************)
(* The theorems about ImportActivation, for every set of jobs, workers and *)
(* tables, every assignment of tables to jobs and every set of plans.      *)
(* Types and ownership come first; they are inductive whatever the faults, *)
(* and the theorems about the switch and the versions follow from them.    *)
(* Then the invariant IInv of ImportInvariant, its lease part and its      *)
(* store part: what the journal says of the two stores, with the theorems  *)
(* about readers, recovery and jobs.  Last, that an import implements      *)
(* AtomicImport, and that a worker whose lease is gone changes nothing.    *)
(***************************************************************************)
EXTENDS ImportInvariant, TLAPS

-----------------------------------------------------------------------------
(* Type correctness                                                         *)

\* A process that was started works for a job.
StartedHaveJobs == \A w \in Worker : pc[w] # "idle" => wjob[w] \in Job

Typed == TypeOK /\ StartedHaveJobs

\* What the types rest on, with the versions the tables have: only a started
\* process acts, and on its job.
Shaped(V, R) == ProcessTypes /\ JournalTypes(V, R) /\ StartedHaveJobs

\* transition_job keeps the job table well typed.
LEMMA TransitionJobType ==
  ASSUME JobTypeOK, NEW j \in Job, NEW status \in AllStatuses, NEW progress \in 0..100,
         TransitionJob(j, status, progress)
  PROVE  JobTypeOK'
<1>1. jobStatus' \in [Job -> AllStatuses]
  BY DEF JobTypeOK, TransitionJob
<1>2. jobProgress' \in [Job -> 0..100]
  BY DEF JobTypeOK, TransitionJob
<1> QED BY <1>1, <1>2 DEF JobTypeOK

\* The status an exception handler decides on is a job status.
LEMMA HandlerStatusType ==
  ASSUME JobTypeOK, NEW w \in Worker, wjob[w] \in Job, NEW unknown \in BOOLEAN
  PROVE  HandlerStatus(w, unknown) \in AllStatuses
BY DEF JobTypeOK, HandlerStatus, AllStatuses, LiveStatuses, TerminalStatuses

\* restore_replica_manifest puts known versions back.
LEMMA RestoredType ==
  ASSUME NEW V, NEW R, Run \subseteq V, Run \subseteq R, JournalTypes(V, R), NEW j \in Job
  PROVE  Restored(j) \in [Table -> V]
BY DEF JournalTypes, Restored

\* The end of a journal keeps the journal table well typed.
LEMMA FinalizeType ==
  ASSUME NEW V, NEW R, Run \subseteq V, Run \subseteq R,
         JournalTypes(V, R), NEW j, NEW outcome \in Outcomes, Finalize(j, outcome)
  PROVE  /\ journalPhase' \in [Job -> Phases]
         /\ journalOutcome' \in [Job -> Outcomes]
         /\ journalTarget' = journalTarget
         /\ rollbackManifest' = rollbackManifest
BY DEF JournalTypes, Finalize, Phases

LEMMA PrepareJournalType ==
  ASSUME NEW V, NEW R, Run \subseteq V, Run \subseteq R,
         JournalTypes(V, R), NEW j \in Job, PrepareJournal(j)
  PROVE  /\ journalPhase' \in [Job -> Phases]
         /\ journalTarget' \in [Job -> Run]
         /\ journalOutcome' \in [Job -> Outcomes]
         /\ rollbackManifest' \in [Job -> [Table -> V]]
BY DEF JournalTypes, PrepareJournal, Phases, Outcomes, Run

\* recover_import_jobs keeps the job table well typed.
LEMMA RecoverJobsType ==
  ASSUME JobTypeOK, NEW scope, NEW u, RecoverJobs(scope, u)
  PROVE  JobTypeOK'
BY DEF JobTypeOK, RecoverJobs, RecoveredStatus, AllStatuses, LiveStatuses, TerminalStatuses

LEMMA ReconcileType ==
  ASSUME NEW V, NEW R, Run \subseteq V, Run \subseteq R,
         JournalTypes(V, R), NEW u \in Job \union {None}, Reconcile(u)
  PROVE  /\ journalPhase' \in [Job -> Phases]
         /\ journalTarget' \in [Job -> Run]
         /\ journalOutcome' \in [Job -> Outcomes]
         /\ rollbackManifest' \in [Job -> [Table -> V]]
         /\ duckManifest' \in [Table -> V]
<1>1. CASE u = None
  BY <1>1 DEF Reconcile, JournalTypes, journalVars
<1>2. CASE u # None
  <2>1. u \in Job
    BY <1>2
  <2>2. CASE CommitProven(u) /\ Finalize(u, "committed") /\ UNCHANGED duckManifest
    BY <2>2, FinalizeType DEF JournalTypes, Outcomes
  <2>3. CASE RollbackProven(u) /\ Finalize(u, "rolled_back") /\ duckManifest' = Restored(u)
    BY <2>1, <2>3, FinalizeType, RestoredType DEF JournalTypes, Outcomes
  <2>4. CASE UNCHANGED <<journalVars, duckManifest>>
    BY <2>4 DEF JournalTypes, journalVars
  <2> QED BY <1>2, <2>2, <2>3, <2>4 DEF Reconcile
<1> QED BY <1>1, <1>2

LEMMA ShapedInit == ASSUME NEW V, NEW R, Run \subseteq V, Run \subseteq R, Init PROVE Shaped(V, R)
<1>1. JobTypeOK
  BY DEF Init, JobTypeOK, AllStatuses
<1>2. JournalTypes(V, R)
  BY DEF Init, JournalTypes, Run, Phases, Outcomes
<1>3. /\ pc \in [Worker -> PCs] /\ wjob \in [Worker -> Job \union {None}]
      /\ wepoch \in [Worker -> Nat] /\ seen \in [Worker -> AllStatuses]
      /\ dbLock = None
  BY DEF Init, PCs, AllStatuses
<1>4. StartedHaveJobs
  BY DEF Init, StartedHaveJobs
<1> QED BY <1>1, <1>2, <1>3, <1>4 DEF Shaped, ProcessTypes

\* The owner's requests and the start of a worker.
LEMMA ShapedOwner ==
  ASSUME NEW V, NEW R, Run \subseteq V, Run \subseteq R, Shaped(V, R), NEW j \in Job, Owner(j)
  PROVE  Shaped(V, R)'
<1> USE DEF Shaped, ProcessTypes, StartedHaveJobs
<1>1. CASE CreateJob(j)
  BY <1>1 DEF CreateJob, CreateJobRow, JobTypeOK, JournalTypes, AllStatuses, LiveStatuses,
              journalVars, leaseVars, sqliteData, workerVars, lockVars
<1>2. CASE CancelJob(j)
  <2>1. JobTypeOK'
    BY <1>2, TransitionJobType
       DEF CancelJob, RequestJobCancel, JobTypeOK, AllStatuses, LiveStatuses, TerminalStatuses
  <2> QED
    BY <1>2, <2>1 DEF CancelJob, JournalTypes, journalVars, leaseVars, sqliteData, workerVars, lockVars
<1>3. CASE ResumeJob(j)
  <2>1. JobTypeOK'
    BY <1>3, TransitionJobType
       DEF ResumeJob, JobTypeOK, AllStatuses, LiveStatuses, TerminalStatuses
  <2> QED
    BY <1>3, <2>1 DEF ResumeJob, JournalTypes, journalVars, leaseVars, sqliteData, workerVars, lockVars
<1> QED BY <1>1, <1>2, <1>3 DEF Owner

LEMMA ShapedLaunch ==
  ASSUME NEW V, NEW R, Run \subseteq V, Run \subseteq R,
         Shaped(V, R), NEW w \in Worker, NEW j \in Job, Launch(w, j)
  PROVE  Shaped(V, R)'
BY DEF Shaped, ProcessTypes, StartedHaveJobs, Launch, JobTypeOK, JournalTypes, Goto, PCs,
       jobVars, journalVars, leaseVars, sqliteData, lockVars

\* Every step of a worker.
LEMMA ShapedWorkerStep ==
  ASSUME NEW V, NEW R, Run \subseteq V, Run \subseteq R,
         Shaped(V, R), NEW w \in Worker, WorkerStep(w)
  PROVE  Shaped(V, R)'
<1> USE DEF Shaped, ProcessTypes, StartedHaveJobs, Goto, Exit, PCs
<1> DEFINE j == wjob[w]
<1>job. pc[w] # "idle" => j \in Job
  OBVIOUS
<1>1. CASE ReadJob(w)
  BY <1>1 DEF ReadJob, JobTypeOK, JournalTypes, jobVars, journalVars, leaseVars, sqliteData, lockVars
<1>2. CASE ClaimGranted(w)
  <2>1. JobTypeOK'
    BY <1>2, <1>job, TransitionJobType DEF ClaimGranted, AllStatuses, LiveStatuses
  <2> QED
    BY <1>2, <2>1 DEF ClaimGranted, GrantLease, JournalTypes, journalVars, leaseVars, sqliteData, lockVars
<1>3. CASE ClaimDeferred(w)
  BY <1>3 DEF ClaimDeferred, JobTypeOK, JournalTypes, AllStatuses, jobVars, journalVars, leaseVars, sqliteData, lockVars
<1>4. CASE ClaimRefused(w)
  BY <1>4 DEF ClaimRefused, JobTypeOK, JournalTypes, jobVars, journalVars, leaseVars, sqliteData, lockVars
<1>5. CASE BoundaryDenied(w)
  BY <1>5 DEF BoundaryDenied, JobTypeOK, JournalTypes, jobVars, journalVars, leaseVars, sqliteData, lockVars
<1>6. CASE RebuildPlan(w)
  BY <1>6 DEF RebuildPlan, JobTypeOK, JournalTypes, jobVars, journalVars, leaseVars, sqliteData, lockVars
<1>7. CASE PrepareActivation(w)
  <2>1. JobTypeOK'
    BY <1>7 DEF PrepareActivation, JobTypeOK
  <2>2. /\ journalPhase' \in [Job -> Phases]
        /\ journalTarget' \in [Job -> Run]
        /\ journalOutcome' \in [Job -> Outcomes]
        /\ rollbackManifest' \in [Job -> [Table -> V]]
    BY <1>7, <1>job, PrepareJournalType DEF PrepareActivation, JournalTypes, journalVars
  <2> QED
    BY <1>7, <2>1, <2>2 DEF PrepareActivation, JournalTypes, leaseVars, sqliteData, lockVars
<1>8. CASE PrepareFails(w)
  BY <1>8 DEF PrepareFails, JobTypeOK, JournalTypes, jobVars, journalVars, leaseVars, sqliteData, lockVars
<1>9. CASE StartCommit(w)
  BY <1>9 DEF StartCommit, JobTypeOK, JournalTypes, Phases, jobVars, journalVars, leaseVars, sqliteData, lockVars
<1>11. CASE StartFails(w)
  BY <1>11 DEF StartFails, JobTypeOK, JournalTypes, jobVars, journalVars, leaseVars, sqliteData, lockVars
<1>12. CASE BeginActivation(w)
  BY <1>12 DEF BeginActivation, JobTypeOK, JournalTypes, jobVars, journalVars, leaseVars, sqliteData, lockVars
<1>13. CASE BeginFails(w)
  BY <1>13 DEF BeginFails, JobTypeOK, JournalTypes, jobVars, journalVars, leaseVars, sqliteData, lockVars
<1>14. ASSUME NEW t \in Table, PublishReplica(w, t) PROVE Shaped(V, R)'
  BY <1>14 DEF PublishReplica, JobTypeOK, JournalTypes, Run, jobVars, journalVars, leaseVars, sqliteData, lockVars
<1>15. CASE ActivationFails(w)
  BY <1>15 DEF ActivationFails, JobTypeOK, JournalTypes, jobVars, journalVars, leaseVars, sqliteData, lockVars
<1>16. CASE CommitActivation(w)
  <2>1. JobTypeOK'
    BY <1>16, <1>job, TransitionJobType DEF CommitActivation, AllStatuses, TerminalStatuses
  <2> QED
    BY <1>16, <2>1 DEF CommitActivation, JournalTypes, Phases, Run, leaseVars, sqliteData, lockVars
<1>17. CASE FinalizeActivation(w)
  <2>1. journalPhase' \in [Job -> Phases] /\ journalOutcome' \in [Job -> Outcomes]
    BY <1>17, FinalizeType DEF FinalizeActivation, JournalTypes, Outcomes, journalVars
  <2> QED
    BY <1>17, <2>1 DEF FinalizeActivation, Finalize, JobTypeOK, JournalTypes, jobVars, journalVars, leaseVars, sqliteData, lockVars
<1>18. CASE FinalizeFails(w)
  BY <1>18 DEF FinalizeFails, JobTypeOK, JournalTypes, jobVars, journalVars, leaseVars, sqliteData, lockVars
<1>19. CASE ReadOutcome(w)
  BY <1>19 DEF ReadOutcome, JobTypeOK, JournalTypes, jobVars, journalVars, leaseVars, sqliteData, lockVars
<1>20. CASE RollBack(w)
  <2>1. JobTypeOK'
    <3>1. HandlerStatus(w, FALSE) \in AllStatuses
      BY <1>20, <1>job, HandlerStatusType DEF RollBack
    <3>2. TransitionJob(j, HandlerStatus(w, FALSE), jobProgress[j])
      BY <1>20 DEF RollBack, SettleJob
    <3> QED BY <1>20, <1>job, <3>1, <3>2, TransitionJobType DEF RollBack, JobTypeOK
  <2>2. /\ journalPhase' \in [Job -> Phases] /\ journalOutcome' \in [Job -> Outcomes]
        /\ UNCHANGED <<journalTarget, rollbackManifest>>
        /\ duckManifest' \in [Table -> V]
    <3>1. CASE Unfinished(j)
      BY <1>20, <1>job, <3>1, FinalizeType, RestoredType DEF RollBack, Outcomes
    <3>2. CASE ~Unfinished(j)
      BY <1>20, <3>2 DEF RollBack, JournalTypes, journalVars
    <3> QED BY <3>1, <3>2
  <2> QED
    BY <1>20, <2>1, <2>2 DEF RollBack, JournalTypes, leaseVars, sqliteData, lockVars
<1>21. CASE RollBackFenced(w)
  BY <1>21 DEF RollBackFenced, JobTypeOK, JournalTypes, jobVars, journalVars, leaseVars, sqliteData, lockVars
<1>22. CASE RollBackRaises(w)
  <2>1. duckManifest' \in [Table -> V]
    BY <1>22, <1>job, RestoredType DEF RollBackRaises, JournalTypes
  <2> QED
    BY <1>22, <2>1 DEF RollBackRaises, JobTypeOK, JournalTypes, jobVars, journalVars, leaseVars, sqliteData, lockVars
<1>23. CASE RollBackDeferred(w)
  <2>1. JobTypeOK'
    <3>1. HandlerStatus(w, TRUE) \in AllStatuses
      BY <1>23, <1>job, HandlerStatusType DEF RollBackDeferred
    <3>2. TransitionJob(j, HandlerStatus(w, TRUE), jobProgress[j])
      BY <1>23 DEF RollBackDeferred, SettleJob
    <3> QED BY <1>23, <1>job, <3>1, <3>2, TransitionJobType DEF RollBackDeferred, JobTypeOK
  <2> QED
    BY <1>23, <2>1 DEF RollBackDeferred, JournalTypes, journalVars, leaseVars, sqliteData, lockVars
<1>24. CASE InspectJournal(w)
  BY <1>24 DEF InspectJournal, JobTypeOK, JournalTypes, jobVars, journalVars, leaseVars, sqliteData, lockVars
<1>25. CASE UndoReplica(w)
  <2>1. duckManifest' \in [Table -> V]
    BY <1>25, <1>job, RestoredType DEF UndoReplica
  <2> QED
    BY <1>25, <2>1 DEF UndoReplica, JobTypeOK, JournalTypes, jobVars, journalVars, leaseVars, sqliteData, lockVars
<1>26. CASE UndoFails(w)
  BY <1>26 DEF UndoFails, JobTypeOK, JournalTypes, jobVars, journalVars, leaseVars, sqliteData, lockVars
<1>27. CASE SettleUnfenced(w)
  <2>1. JobTypeOK'
    <3>1. HandlerStatus(w, pc[w] = "unknown") \in AllStatuses
      BY <1>27, <1>job, HandlerStatusType DEF SettleUnfenced
    <3>2. TransitionJob(j, HandlerStatus(w, pc[w] = "unknown"), jobProgress[j])
      BY <1>27 DEF SettleUnfenced, SettleJob
    <3> QED BY <1>27, <1>job, <3>1, <3>2, TransitionJobType DEF SettleUnfenced, JobTypeOK
  <2>2. /\ journalPhase' \in [Job -> Phases] /\ journalOutcome' \in [Job -> Outcomes]
        /\ UNCHANGED <<journalTarget, rollbackManifest>>
    BY <1>27, FinalizeType DEF SettleUnfenced, JournalTypes, Outcomes, journalVars
  <2> QED
    BY <1>27, <2>1, <2>2 DEF SettleUnfenced, JournalTypes, leaseVars, sqliteData, lockVars
<1>28. CASE SettleRaises(w)
  BY <1>28 DEF SettleRaises, JobTypeOK, JournalTypes, jobVars, journalVars, leaseVars, sqliteData, lockVars
<1>29. CASE Release(w)
  BY <1>29 DEF Release, JobTypeOK, JournalTypes, ReleaseLease, AllStatuses, jobVars, journalVars, leaseVars, sqliteData, lockVars
<1> QED
  BY <1>1, <1>2, <1>3, <1>4, <1>5, <1>6, <1>7, <1>8, <1>9, <1>11, <1>12, <1>13, <1>14, <1>15, <1>16, <1>17, <1>18, <1>19, <1>20, <1>21, <1>22, <1>23, <1>24, <1>25, <1>26, <1>27, <1>28, <1>29
  DEF WorkerStep

\* The death of a worker, and the recovery commands.
LEMMA ShapedWorkerDies ==
  ASSUME NEW V, NEW R, Run \subseteq V, Run \subseteq R,
         Shaped(V, R), NEW w \in Worker, WorkerDies(w)
  PROVE  Shaped(V, R)'
<1> USE DEF Shaped, ProcessTypes, StartedHaveJobs, Goto, Exit, PCs
<1>1. CASE Crash(w)
  BY <1>1 DEF Crash, Ended, JobTypeOK, JournalTypes, AllStatuses, jobVars, journalVars, leaseVars,
              sqliteData
<1>2. CASE RollBackCrash(w)
  <2>1. duckManifest' \in [Table -> V]
    BY <1>2, RestoredType DEF RollBackCrash
  <2> QED
    BY <1>2, <2>1 DEF RollBackCrash, JobTypeOK, JournalTypes, AllStatuses, jobVars, journalVars,
                      leaseVars, sqliteData
<1> QED BY <1>1, <1>2 DEF WorkerDies

LEMMA RevokeLeaseType ==
  ASSUME NEW V, NEW R, Run \subseteq V, Run \subseteq R, JournalTypes(V, R), RevokeLease
  PROVE  leaseHolder' \in Worker \union {None} /\ leaseEpoch' \in Nat /\ leaseActive' \in BOOLEAN
<1>1. leaseEpoch' \in {leaseEpoch, leaseEpoch + 1}
  BY DEF RevokeLease
<1>2. leaseEpoch' \in Nat
  BY <1>1 DEF JournalTypes
<1>3. leaseActive' \in BOOLEAN
  BY Zenon DEF RevokeLease
<1> QED BY <1>2, <1>3 DEF JournalTypes, RevokeLease

LEMMA ShapedRecover ==
  ASSUME NEW V, NEW R, Run \subseteq V, Run \subseteq R,
         Shaped(V, R), NEW u \in Job \union {None}, Recover(u)
  PROVE  Shaped(V, R)'
<1> USE DEF Shaped, ProcessTypes, StartedHaveJobs
<1>1. JobTypeOK'
  BY RecoverJobsType DEF Recover
<1>2. JournalTypes(V, R)'
  <2>1. Reconcile(u) /\ RevokeLease
    BY DEF Recover
  <2> QED
    BY <2>1, ReconcileType, RevokeLeaseType DEF Recover, JournalTypes, sqliteData
<1> QED BY <1>1, <1>2 DEF Recover, workerVars, lockVars

LEMMA ShapedProcessExit ==
  ASSUME NEW V, NEW R, Run \subseteq V, Run \subseteq R,
         Shaped(V, R), NEW w \in Worker, NEW u \in Job \union {None}, ProcessExit(w, u)
  PROVE  Shaped(V, R)'
<1> USE DEF Shaped, ProcessTypes, StartedHaveJobs
<1>1. JobTypeOK'
  BY RecoverJobsType DEF ProcessExit
<1>2. JournalTypes(V, R)'
  <2>1. Reconcile(u) /\ (RevokeLease \/ UNCHANGED leaseVars)
    BY DEF ProcessExit
  <2>2. leaseHolder' \in Worker \union {None} /\ leaseEpoch' \in Nat /\ leaseActive' \in BOOLEAN
    BY <2>1, RevokeLeaseType DEF JournalTypes, leaseVars
  <2> QED
    BY <2>1, <2>2, ReconcileType DEF ProcessExit, JournalTypes, sqliteData
<1> QED BY <1>1, <1>2 DEF ProcessExit, Goto, PCs, lockVars

LEMMA ShapedRecoveryCrash ==
  ASSUME NEW V, NEW R, Run \subseteq V, Run \subseteq R,
         Shaped(V, R), NEW u \in Job, RecoveryCrash(u)
  PROVE  Shaped(V, R)'
<1>1. duckManifest' \in [Table -> V]
  BY RestoredType DEF Shaped, ProcessTypes, RecoveryCrash
<1> QED
  BY <1>1 DEF Shaped, ProcessTypes, StartedHaveJobs, RecoveryCrash, JobTypeOK, JournalTypes,
              jobVars, journalVars, leaseVars, sqliteData, workerVars, lockVars

LEMMA ShapedNext ==
  ASSUME NEW V, NEW R, Run \subseteq V, Run \subseteq R, Shaped(V, R), [Next]_vars
  PROVE  Shaped(V, R)'
<1>1. CASE Next
  BY <1>1, ShapedOwner, ShapedLaunch, ShapedWorkerStep, ShapedWorkerDies, ShapedRecover,
     ShapedProcessExit, ShapedRecoveryCrash DEF Next, Recovery
<1>2. CASE UNCHANGED vars
  BY <1>2 DEF Shaped, ProcessTypes, StartedHaveJobs, JobTypeOK, JournalTypes, vars, jobVars,
              journalVars, leaseVars, sqliteData, workerVars, lockVars
<1> QED BY <1>1, <1>2

\* The boundary passes from worker to worker.
LEMMA FileLockNext ==
  ASSUME [Next]_vars
  PROVE  fileLock' \in Worker \union {None, fileLock}
<1>1. ASSUME NEW w \in Worker, WorkerStep(w) PROVE fileLock' \in {w, None, fileLock}
  BY <1>1 DEF WorkerStep, ReadJob, ClaimGranted, ClaimDeferred, ClaimRefused, BoundaryDenied,
         RebuildPlan, PrepareActivation, PrepareFails, StartCommit, StartFails, BeginActivation,
         BeginFails, PublishReplica, ActivationFails, CommitActivation, FinalizeActivation,
         FinalizeFails, ReadOutcome, RollBack, RollBackFenced, RollBackRaises, RollBackDeferred,
         InspectJournal, UndoReplica, UndoFails, SettleUnfenced, SettleRaises, Release, lockVars
<1>2. ASSUME NEW w \in Worker, WorkerDies(w) PROVE fileLock' \in {None, fileLock}
  BY <1>2 DEF WorkerDies, Crash, RollBackCrash
<1>3. CASE UNCHANGED vars
  BY <1>3 DEF vars, lockVars
<1> QED
  BY <1>1, <1>2, <1>3 DEF Next, Owner, CreateJob, CancelJob, ResumeJob, Launch, Recovery, Recover,
     ProcessExit, RecoveryCrash, lockVars

LEMMA TypedIsShaped == Typed <=> Shaped(Run, Run) /\ fileLock \in Worker \union {None}
BY DEF Typed, TypeOK, Shaped, JournalTypeOK

LEMMA TypedInit == Init => Typed
BY ShapedInit, TypedIsShaped DEF Init

LEMMA TypedNext == Typed /\ [Next]_vars => Typed'
<1> SUFFICES ASSUME Typed, [Next]_vars PROVE Typed'
  OBVIOUS
<1>1. Shaped(Run, Run)'
  BY ShapedNext, TypedIsShaped
<1>2. fileLock' \in Worker \union {None}
  BY FileLockNext, TypedIsShaped
<1>3. Typed' <=> Shaped(Run, Run)' /\ fileLock' \in Worker \union {None}
  BY DEF Typed, TypeOK, Shaped, JournalTypeOK
<1> QED BY <1>1, <1>2, <1>3

\* Whatever the faults, every variable keeps the type the code's rows and
\* process state have, and every process that was started has a job.
THEOREM TypeCorrect == Spec => []TypeOK
<1>1. Typed => TypeOK
  BY DEF Typed
<1> QED BY <1>1, TypedInit, TypedNext, PTL DEF Spec

-----------------------------------------------------------------------------
(* What no step undoes                                                      *)

\* transition_job never moves a job out of a terminal status.
LEMMA TransitionKeepsTerminal ==
  ASSUME JobTypeOK, NEW j \in Job, NEW status, NEW progress, TransitionJob(j, status, progress)
  PROVE  \A i \in Job : Terminal(i) => jobStatus'[i] = jobStatus[i]
BY DEF JobTypeOK, TransitionJob, MayTransition, AllowedTransitions, Terminal, TerminalStatuses,
       AllStatuses, LiveStatuses

LEMMA RecoverKeepsTerminal ==
  ASSUME JobTypeOK, NEW scope, NEW u, RecoverJobs(scope, u)
  PROVE  \A i \in Job : Terminal(i) => jobStatus'[i] = jobStatus[i]
BY DEF JobTypeOK, RecoverJobs, Terminal, TerminalStatuses, LiveStatuses

\* A job that has ended stays as it ended.
LEMMA EndedJobsStay ==
  ASSUME Typed, [Next]_vars
  PROVE  \A i \in Job : Terminal(i) => jobStatus'[i] = jobStatus[i]
<1> USE DEF Typed, TypeOK, ProcessTypes, StartedHaveJobs
<1>1. ASSUME NEW j \in Job, Owner(j) PROVE \A i \in Job : Terminal(i) => jobStatus'[i] = jobStatus[i]
  BY <1>1, TransitionKeepsTerminal
     DEF Owner, CreateJob, CreateJobRow, CancelJob, RequestJobCancel, ResumeJob, Terminal,
         TerminalStatuses, JobTypeOK
<1>2. ASSUME NEW w \in Worker, WorkerStep(w)
      PROVE  \A i \in Job : Terminal(i) => jobStatus'[i] = jobStatus[i]
  <2>1. \/ UNCHANGED jobStatus
        \/ pc[w] # "idle" /\ \E s, p : TransitionJob(wjob[w], s, p)
    BY <1>2 DEF WorkerStep, ReadJob, ClaimDeferred, ClaimRefused, BoundaryDenied, RebuildPlan, PrepareActivation, PrepareFails, StartCommit, StartFails, BeginActivation, BeginFails, PublishReplica, ActivationFails, FinalizeActivation, FinalizeFails, ReadOutcome, RollBackFenced, RollBackRaises, InspectJournal, UndoReplica, UndoFails, SettleRaises, Release, ClaimGranted, CommitActivation, RollBack, RollBackDeferred, SettleUnfenced, SettleJob, jobVars
  <2> QED BY <2>1, TransitionKeepsTerminal
<1>3. CASE \E w \in Worker, j \in Job : Launch(w, j)
  BY <1>3 DEF Launch, jobVars
<1>4. CASE \E w \in Worker : WorkerDies(w)
  BY <1>4 DEF WorkerDies, Crash, RollBackCrash, jobVars
<1>5. CASE Recovery
  BY <1>5, RecoverKeepsTerminal DEF Recovery, Recover, ProcessExit
<1>6. CASE \E u \in Job : RecoveryCrash(u)
  BY <1>6 DEF RecoveryCrash, jobVars
<1>7. CASE UNCHANGED vars
  BY <1>7 DEF vars, jobVars
<1> QED BY <1>1, <1>2, <1>3, <1>4, <1>5, <1>6, <1>7 DEF Next

\* A process that was started never becomes unstarted, and keeps its job.
LEMMA StartedStay ==
  ASSUME Typed, [Next]_vars, NEW w \in Worker, pc[w] # "idle"
  PROVE  pc'[w] # "idle" /\ wjob'[w] = wjob[w]
<1> USE DEF Typed, TypeOK, ProcessTypes
<1>1. ASSUME NEW j \in Job, Owner(j) PROVE UNCHANGED workerVars
  BY <1>1 DEF Owner, CreateJob, CancelJob, ResumeJob
<1>2. ASSUME NEW v \in Worker, WorkerStep(v)
      PROVE  wjob' = wjob /\ \E label \in PCs \ {"idle"} : pc' = [pc EXCEPT ![v] = label]
  BY <1>2 DEF WorkerStep, ReadJob, ClaimGranted, ClaimDeferred, ClaimRefused, BoundaryDenied,
         RebuildPlan, PrepareActivation, PrepareFails, StartCommit, StartFails, BeginActivation, BeginFails, PublishReplica, ActivationFails,
         CommitActivation, FinalizeActivation, FinalizeFails, ReadOutcome, RollBack,
         RollBackFenced, RollBackRaises, RollBackDeferred, InspectJournal, UndoReplica,
         UndoFails, SettleUnfenced, SettleRaises, Release, Exit, Goto, PCs
<1>3. ASSUME NEW v \in Worker, NEW j \in Job, Launch(v, j)
      PROVE  /\ pc[v] = "idle" /\ pc' = [pc EXCEPT ![v] = "launched"]
             /\ wjob' = [wjob EXCEPT ![v] = j]
  BY <1>3 DEF Launch, Goto
<1>4. ASSUME NEW v \in Worker, WorkerDies(v)
      PROVE  wjob' = wjob /\ pc' = [pc EXCEPT ![v] = "exited"]
  BY <1>4 DEF WorkerDies, Crash, RollBackCrash, Exit, Goto
<1>5. CASE Recovery
  BY <1>5 DEF Recovery, Recover, ProcessExit, Goto, workerVars
<1>6. CASE (\E u \in Job : RecoveryCrash(u)) \/ UNCHANGED vars
  BY <1>6 DEF RecoveryCrash, vars, workerVars
<1> QED BY <1>1, <1>2, <1>3, <1>4, <1>5, <1>6 DEF Next, workerVars

-----------------------------------------------------------------------------
(* Ownership, whatever the faults                                           *)

LEMMA OwnershipInit == Init => Ownership
BY NoneAssumption
   DEF Init, Ownership, DbLockIsActivation, ActivationKeepsClaim, VersionsSucceeded, IsVersion,
       Activating

\* Only the switch writes SQLite's pointers, and a version it writes has its job
\* succeed in the same step.
LEMMA SwitchOnly ==
  ASSUME [Next]_vars
  PROVE  UNCHANGED sqliteData \/ \E w \in Worker : CommitActivation(w)
<1>1. ASSUME NEW w \in Worker, WorkerStep(w) PROVE UNCHANGED sqliteData \/ CommitActivation(w)
  BY <1>1 DEF WorkerStep, ReadJob, ClaimGranted, ClaimDeferred, ClaimRefused, BoundaryDenied,
         RebuildPlan, PrepareActivation, PrepareFails, StartCommit, StartFails, BeginActivation, BeginFails, PublishReplica, ActivationFails,
         FinalizeActivation, FinalizeFails, ReadOutcome, RollBack, RollBackFenced,
         RollBackRaises, RollBackDeferred, InspectJournal, UndoReplica, UndoFails,
         SettleUnfenced, SettleRaises, Release
<1>2. CASE UNCHANGED vars
  BY <1>2 DEF vars
<1> QED
  BY <1>1, <1>2
     DEF Next, Owner, CreateJob, CancelJob, ResumeJob, Launch, WorkerDies, Crash, RollBackCrash,
         Recovery, Recover, ProcessExit, RecoveryCrash

LEMMA VersionsSucceededNext ==
  ASSUME Typed, Ownership, [Next]_vars
  PROVE  VersionsSucceeded'
<1>1. CASE UNCHANGED sqliteData
  <2> SUFFICES ASSUME NEW w \in Worker, IsVersion(w)
               PROVE  pc'[w] # "idle" /\ jobStatus'[wjob'[w]] = "succeeded"
    BY <1>1 DEF VersionsSucceeded, IsVersion, sqliteData
  <2>1. pc[w] # "idle" /\ wjob[w] \in Job /\ jobStatus[wjob[w]] = "succeeded"
    BY DEF Ownership, VersionsSucceeded, Typed, StartedHaveJobs
  <2> QED BY <2>1, StartedStay, EndedJobsStay DEF Terminal, TerminalStatuses
<1>2. ASSUME NEW v \in Worker, CommitActivation(v) PROVE VersionsSucceeded'
  <2> SUFFICES ASSUME NEW w \in Worker, IsVersion(w)'
               PROVE  pc'[w] # "idle" /\ jobStatus'[wjob'[w]] = "succeeded"
    BY DEF VersionsSucceeded
  <2>1. CASE w = v
    BY <1>2, <2>1, StartedStay
       DEF CommitActivation, TransitionJob, Typed, TypeOK, ProcessTypes, JobTypeOK, StartedHaveJobs
  <2>2. CASE w # v
    <3>1. IsVersion(w)
      BY <1>2, <2>2 DEF CommitActivation, IsVersion, Typed, TypeOK, ProcessTypes, JournalTypeOK, JournalTypes
    <3>2. pc[w] # "idle" /\ wjob[w] \in Job /\ jobStatus[wjob[w]] = "succeeded"
      BY <3>1 DEF Ownership, VersionsSucceeded, Typed, StartedHaveJobs
    <3> QED BY <3>2, StartedStay, EndedJobsStay DEF Terminal, TerminalStatuses
  <2> QED BY <2>1, <2>2
<1> QED BY <1>1, <1>2, SwitchOnly

LEMMA ActivationNext ==
  ASSUME Typed, Ownership, [Next]_vars
  PROVE  DbLockIsActivation' /\ ActivationKeepsClaim'
<1> DEFINE Fenced == DbLockIsActivation' /\ ActivationKeepsClaim'
<1> USE NoneAssumption
    DEF Typed, TypeOK, ProcessTypes, Ownership, DbLockIsActivation, ActivationKeepsClaim, Activating, Leased
<1>1. ASSUME NEW j \in Job, Owner(j) PROVE Fenced
  BY <1>1 DEF Owner, CreateJob, CancelJob, ResumeJob, DbFree, workerVars, lockVars
<1>2. ASSUME NEW w \in Worker, NEW j \in Job, Launch(w, j) PROVE Fenced
  BY <1>2 DEF Launch, Goto, jobVars, leaseVars, lockVars
<1>3. ASSUME NEW w \in Worker, WorkerDies(w) PROVE Fenced
  BY <1>3 DEF WorkerDies, Crash, RollBackCrash, Exit, Goto, DbFree, jobVars, leaseVars
<1>4. CASE Recovery \/ \E u \in Job : RecoveryCrash(u)
  BY <1>4 DEF Recovery, Recover, ProcessExit, RecoveryCrash, Goto, DbFree, workerVars, lockVars
<1>5. CASE UNCHANGED vars
  BY <1>5 DEF vars, workerVars, lockVars, jobVars, leaseVars
<1>6. ASSUME NEW w \in Worker, WorkerStep(w) PROVE Fenced
  \* Steps outside the activation that wait for SQLite's write lock.
  <2>1. ASSUME DbFree, dbLock' = dbLock, NEW label \in PCs \ Activating,
               pc' = [pc EXCEPT ![w] = label]
        PROVE  Fenced
    BY <2>1 DEF DbFree
  <2>2. CASE BeginActivation(w)
    BY <1>6, <2>2 DEF BeginActivation, MayReport, DbFree, Goto, jobVars, leaseVars
  <2>3. CASE ClaimGranted(w) \/ ClaimDeferred(w) \/ ClaimRefused(w) \/ PrepareActivation(w) \/
           PrepareFails(w) \/ StartCommit(w)
    BY <2>1, <2>3 DEF ClaimGranted, ClaimDeferred, ClaimRefused, PrepareActivation, PrepareFails,
           StartCommit, Exit, Goto, PCs, lockVars
  <2>4. CASE StartFails(w) \/ BeginFails(w) \/ FinalizeActivation(w)
           \/ RollBack(w) \/ RollBackFenced(w)
    BY <2>1, <2>4 DEF StartFails, BeginFails, FinalizeActivation, RollBack,
           RollBackFenced, Exit, Goto, PCs, lockVars
  <2>5. CASE RollBackRaises(w) \/ RollBackDeferred(w) \/ SettleUnfenced(w) \/ SettleRaises(w) \/
           Release(w)
    BY <2>1, <2>5 DEF RollBackRaises, RollBackDeferred, SettleUnfenced, SettleRaises, Release, Exit, Goto,
           PCs, lockVars
  <2>6. CASE ReadJob(w)
    BY <2>6 DEF ReadJob, Goto, jobVars, leaseVars, lockVars
  <2>7. CASE BoundaryDenied(w)
    BY <2>7 DEF BoundaryDenied, Goto, jobVars, leaseVars, lockVars
  <2>8. CASE RebuildPlan(w)
    BY <2>8 DEF RebuildPlan, Goto, jobVars, leaseVars, lockVars
  <2>9. ASSUME NEW t \in Table, PublishReplica(w, t) PROVE Fenced
    BY <2>9 DEF PublishReplica, Goto, jobVars, leaseVars, lockVars
  <2>10. CASE ActivationFails(w)
    BY <2>10 DEF ActivationFails, Goto, jobVars, leaseVars, lockVars
  <2>11. CASE CommitActivation(w)
    BY <2>11 DEF CommitActivation, Goto, jobVars, leaseVars, lockVars
  <2>12. CASE FinalizeFails(w)
    BY <2>12 DEF FinalizeFails, Goto, jobVars, leaseVars, lockVars
  <2>13. CASE ReadOutcome(w)
    BY <2>13 DEF ReadOutcome, Goto, jobVars, leaseVars, lockVars
  <2>14. CASE InspectJournal(w)
    BY <2>14 DEF InspectJournal, Goto, jobVars, leaseVars, lockVars
  <2>15. CASE UndoReplica(w)
    BY <2>15 DEF UndoReplica, Goto, jobVars, leaseVars, lockVars
  <2>16. CASE UndoFails(w)
    BY <2>16 DEF UndoFails, Goto, jobVars, leaseVars, lockVars
  <2> QED BY <1>6, <2>2, <2>3, <2>4, <2>5, <2>6, <2>7, <2>8, <2>9, <2>10, <2>11, <2>12, <2>13, <2>14, <2>15, <2>16 DEF WorkerStep
<1> QED BY <1>1, <1>2, <1>3, <1>4, <1>5, <1>6 DEF Next

LEMMA OwnershipNext == Typed /\ Ownership /\ [Next]_vars => Ownership'
BY ActivationNext, VersionsSucceededNext DEF Ownership

LEMMA OwnershipInvariant == Spec => [](Typed /\ Ownership)
BY TypedInit, TypedNext, OwnershipInit, OwnershipNext, PTL DEF Spec

\* Whatever the faults, the current source run and every active version were
\* staged for a job that succeeded.
THEOREM VersionsSucceed == Spec => []VersionsComeFromSuccess
<1>1. Typed /\ Ownership => VersionsComeFromSuccess
  BY DEF Typed, TypeOK, ProcessTypes, JournalTypeOK, JournalTypes, Run, Ownership, VersionsSucceeded, IsVersion,
         VersionsComeFromSuccess
<1> QED BY <1>1, OwnershipInvariant, PTL

\* Whatever the faults, only the worker that still holds the lease, of a job that
\* still runs, switches the current source run.
THEOREM SwitchesAreOwned == Spec => SwitchIsOwned
<1> DEFINE Owned ==
      currentSourceRun' # currentSourceRun =>
        /\ currentSourceRun' \in Worker
        /\ leaseActive /\ leaseHolder = currentSourceRun' /\ leaseEpoch = wepoch[currentSourceRun']
        /\ jobStatus[wjob[currentSourceRun']] = "running"
<1>1. Typed /\ Ownership /\ [Next]_vars => Owned
  BY SwitchOnly
     DEF CommitActivation, sqliteData, Ownership, ActivationKeepsClaim, Activating, Leased
<1>2. Typed /\ Ownership /\ [Next]_vars => [Owned]_vars
  BY <1>1
<1> QED BY <1>2, OwnershipInvariant, PTL DEF Spec, SwitchIsOwned

-----------------------------------------------------------------------------
(* The lease part of the invariant IInv of ImportInvariant: a job that     *)
(* runs has the lease and a live worker that holds it.  First what the     *)
(* steps of workers, owners and recovery do to jobs and leases.            *)

(* What a step of a worker touches                                          *)

\* A worker's step moves only its own control, and only while it is live.
LEMMA WorkerStepPc ==
  ASSUME Typed, NEW w \in Worker, WorkerStep(w)
  PROVE  /\ Live(w) /\ wjob' = wjob /\ wjob[w] \in Job
         /\ \E label \in PCs \ {"idle"} : pc' = [pc EXCEPT ![w] = label]
<1>1. Live(w)
  BY DEF Live, Ended, WorkerStep, ReadJob, ClaimGranted, ClaimDeferred, ClaimRefused, BoundaryDenied,
         RebuildPlan, PrepareActivation, PrepareFails, StartCommit, StartFails, BeginActivation, BeginFails, PublishReplica, ActivationFails,
         CommitActivation, FinalizeActivation, FinalizeFails, ReadOutcome, RollBack,
         RollBackFenced, RollBackRaises, RollBackDeferred, InspectJournal, UndoReplica,
         UndoFails, SettleUnfenced, SettleRaises, Release
<1>2. wjob' = wjob /\ \E label \in PCs \ {"idle"} : pc' = [pc EXCEPT ![w] = label]
  BY DEF WorkerStep, ReadJob, ClaimGranted, ClaimDeferred, ClaimRefused, BoundaryDenied,
         RebuildPlan, PrepareActivation, PrepareFails, StartCommit, StartFails, BeginActivation, BeginFails, PublishReplica, ActivationFails,
         CommitActivation, FinalizeActivation, FinalizeFails, ReadOutcome, RollBack,
         RollBackFenced, RollBackRaises, RollBackDeferred, InspectJournal, UndoReplica,
         UndoFails, SettleUnfenced, SettleRaises, Release, Exit, Goto, PCs
<1> QED BY <1>1, <1>2 DEF Live, Ended, Typed, StartedHaveJobs

\* Only a claim, and a worker's end, touch the lease or what a worker remembers of it.
LEMMA WorkerStepLease ==
  ASSUME NEW w \in Worker, WorkerStep(w)
  PROVE  \/ UNCHANGED <<leaseVars, wepoch>>
         \/ ClaimGranted(w) \/ ClaimDeferred(w) \/ ClaimRefused(w) \/ Release(w)
BY DEF WorkerStep, ReadJob, BoundaryDenied, RebuildPlan, PrepareActivation, PrepareFails,
       StartCommit, StartFails, BeginActivation, BeginFails,
       PublishReplica, ActivationFails, CommitActivation, FinalizeActivation, FinalizeFails,
       ReadOutcome, RollBack, RollBackFenced, RollBackRaises, RollBackDeferred, InspectJournal,
       UndoReplica, UndoFails, SettleUnfenced, SettleRaises

\* What has claimed does not claim again.
LEMMA WorkerStepClaim ==
  ASSUME Typed, NEW w \in Worker, WorkerStep(w), pc[w] \notin Unclaimed
  PROVE  pc'[w] \notin Unclaimed
BY DEF Typed, TypeOK, ProcessTypes, Unclaimed, WorkerStep, ReadJob, ClaimGranted, ClaimDeferred, ClaimRefused, BoundaryDenied,
       RebuildPlan, PrepareActivation, PrepareFails, StartCommit, StartFails, BeginActivation, BeginFails, PublishReplica, ActivationFails,
       CommitActivation, FinalizeActivation, FinalizeFails, ReadOutcome, RollBack,
       RollBackFenced, RollBackRaises, RollBackDeferred, InspectJournal, UndoReplica, UndoFails,
       SettleUnfenced, SettleRaises, Release, Exit, Goto

LEMMA OneWorkerPerJobNext ==
  ASSUME Typed, OneWorkerPerJob, [Next]_vars, NoDuplicateNorRestoreError
  PROVE  OneWorkerPerJob'
<1> USE DEF OneWorkerPerJob, Live, Typed, TypeOK, ProcessTypes
<1>1. ASSUME NEW j \in Job, Owner(j) PROVE OneWorkerPerJob'
  BY <1>1 DEF Owner, CreateJob, CancelJob, ResumeJob, workerVars
<1>2. ASSUME NEW w \in Worker, NEW j \in Job, Launch(w, j) PROVE OneWorkerPerJob'
  BY <1>2 DEF Launch, Goto, NoDuplicateNorRestoreError
<1>3. ASSUME NEW w \in Worker, WorkerStep(w) PROVE OneWorkerPerJob'
  BY <1>3, WorkerStepPc
<1>4. ASSUME NEW w \in Worker, WorkerDies(w) PROVE OneWorkerPerJob'
  BY <1>4 DEF WorkerDies, Crash, RollBackCrash, Exit, Goto, Ended
<1>5. CASE Recovery
  BY <1>5 DEF Recovery, Recover, ProcessExit, Goto, Ended, workerVars
<1>6. CASE (\E u \in Job : RecoveryCrash(u)) \/ UNCHANGED vars
  BY <1>6 DEF RecoveryCrash, vars, workerVars
<1> QED BY <1>1, <1>2, <1>3, <1>4, <1>5, <1>6 DEF Next

LEMMA HolderNext ==
  ASSUME Typed, HolderClaimed, ActiveEpoch, [Next]_vars
  PROVE  HolderClaimed' /\ ActiveEpoch'
<1> DEFINE Goal == HolderClaimed' /\ ActiveEpoch'
<1> USE NoneAssumption DEF HolderClaimed, ActiveEpoch, Live, Unclaimed, Ended, Typed, TypeOK, ProcessTypes, StartedHaveJobs, JobTypeOK, JournalTypeOK, JournalTypes, leaseVars
<1>1. ASSUME NEW j \in Job, Owner(j) PROVE Goal
  BY <1>1 DEF Owner, CreateJob, CancelJob, ResumeJob, workerVars
<1>2. ASSUME NEW w \in Worker, NEW j \in Job, Launch(w, j) PROVE Goal
  BY <1>2 DEF Launch, Goto
<1>3. ASSUME NEW w \in Worker, WorkerStep(w) PROVE Goal
  <2>1. CASE UNCHANGED <<leaseVars, wepoch>>
    BY <1>3, <2>1, WorkerStepPc, WorkerStepClaim DEF leaseVars
  <2>2. CASE ClaimGranted(w)
    BY <2>2 DEF ClaimGranted, GrantLease, Goto
  <2>3. CASE ClaimDeferred(w)
    BY <2>3 DEF ClaimDeferred, Exit, Goto
  <2>4. CASE ClaimRefused(w)
    BY <2>4 DEF ClaimRefused, Goto
  <2>5. CASE Release(w)
    BY <2>5 DEF Release, ReleaseLease, Exit, Goto
  <2> QED BY <1>3, <2>1, <2>2, <2>3, <2>4, <2>5, WorkerStepLease
<1>4. ASSUME NEW w \in Worker, WorkerDies(w) PROVE Goal
  BY <1>4 DEF WorkerDies, Crash, RollBackCrash, Exit, Goto
<1>5. CASE Recovery
  BY <1>5 DEF Recovery, Recover, ProcessExit, RevokeLease, Goto, workerVars
<1>6. CASE (\E u \in Job : RecoveryCrash(u)) \/ UNCHANGED vars
  BY <1>6 DEF RecoveryCrash, vars, workerVars
<1> QED BY <1>1, <1>2, <1>3, <1>4, <1>5, <1>6 DEF Next

-----------------------------------------------------------------------------
(* What workers and recovery can do to jobs                                 *)

\* A worker without a lease works for a job that neither runs nor has succeeded.
LEMMA UnclaimedJob ==
  ASSUME Typed, IInv, NEW w \in Worker, Live(w), wepoch[w] = 0 \/ ~Leased(w)
  PROVE  ~Running(wjob[w])
<1>1. Leased(w) => wepoch[w] > 0
  BY DEF Leased, IInv, LeaseInv, ActiveEpoch
<1> QED BY <1>1 DEF IInv, LeaseInv, LiveRunningLeased

\* These steps need a fault that is excluded here, or a journal that is not there.
LEMMA NoUndo ==
  ASSUME Typed, IInv, NoDuplicateNorRestoreError, NEW w \in Worker
  PROVE  ~UndoReplica(w) /\ ~UndoFails(w) /\ ~RollBackRaises(w) /\ ~RollBackDeferred(w)
<1>1. ~UndoReplica(w) /\ ~UndoFails(w)
  BY DEF IInv, LeaseInv, UnfencedIsHarmless, UndoReplica, UndoFails
<1>2. ASSUME RollBackRaises(w) PROVE FALSE
  <2>1. /\ wjob[w] \in Job /\ jobStatus[wjob[w]] \in {"running", "cancel_requested"}
        /\ seen[w] \in AllStatuses \ TerminalStatuses
        /\ seen[w] = "cancel_requested" => jobStatus[wjob[w]] = "cancel_requested"
    BY <1>2 DEF RollBackRaises, IInv, LeaseInv, LeasedRuns, Running, Typed, TypeOK, ProcessTypes, StartedHaveJobs
  <2>2. HandlerStatus(w, FALSE) = IF seen[w] = "cancel_requested" THEN "canceled" ELSE "failed"
    BY <2>1 DEF HandlerStatus
  <2>3. HandlerStatus(w, FALSE) \in AllowedTransitions[jobStatus[wjob[w]]]
    BY <2>1, <2>2 DEF AllowedTransitions, AllStatuses, LiveStatuses
  <2>4. jobProgress[wjob[w]] >= jobProgress[wjob[w]]
    BY <2>1 DEF Typed, TypeOK, ProcessTypes, JobTypeOK
  <2>5. MayTransition(wjob[w], HandlerStatus(w, FALSE), jobProgress[wjob[w]])
    BY <2>3, <2>4 DEF MayTransition
  <2> QED BY <1>2, <2>5 DEF RollBackRaises
<1>3. ~RollBackDeferred(w)
  BY DEF RollBackDeferred, NoDuplicateNorRestoreError
<1> QED BY <1>1, <1>2, <1>3

LEMMA RollBackEnds ==
  ASSUME Typed, IInv, NEW w \in Worker, RollBack(w)
  PROVE  \E s \in {"failed", "canceled"} : jobStatus' = [jobStatus EXCEPT ![wjob[w]] = s]
<1>1. seen[w] \notin TerminalStatuses
  BY DEF RollBack, IInv, LeaseInv, LeasedRuns
<1>2. HandlerStatus(w, FALSE) \in {"failed", "canceled"}
  BY <1>1 DEF HandlerStatus
<1> QED BY <1>2 DEF RollBack, SettleJob, TransitionJob

\* The unfenced handler finds nothing to roll back and settles a job that does
\* not run.
LEMMA SettleEnds ==
  ASSUME Typed, IInv, NEW w \in Worker, SettleUnfenced(w)
  PROVE  /\ pc[w] = "settle" /\ ~Running(wjob[w]) /\ jobStatus[wjob[w]] # "succeeded"
         /\ UNCHANGED journalVars
         /\ \E s \in {"failed", "canceled", jobStatus[wjob[w]]} :
               jobStatus' = [jobStatus EXCEPT ![wjob[w]] = s]
<1>1. pc[w] = "settle"
  BY DEF SettleUnfenced, IInv, LeaseInv, UnfencedIsHarmless
<1>2. ~Running(wjob[w])
  BY <1>1, UnclaimedJob DEF IInv, LeaseInv, UnfencedIsHarmless, Live, Ended
<1>3. jobStatus[wjob[w]] # "succeeded"
  BY <1>1 DEF IInv, LeaseInv, SucceededHere, Live, Ended
<1>4. HandlerStatus(w, FALSE) \in {"failed", "canceled", jobStatus[wjob[w]]}
  BY DEF HandlerStatus
<1>5. TransitionJob(wjob[w], HandlerStatus(w, FALSE), jobProgress[wjob[w]])
  BY <1>1 DEF SettleUnfenced, SettleJob
<1> QED BY <1>1, <1>2, <1>3, <1>4, <1>5 DEF SettleUnfenced, TransitionJob

\* The steps of a worker that write its job.
LEMMA WorkerStepJob ==
  ASSUME Typed, IInv, NoDuplicateNorRestoreError, NEW w \in Worker, WorkerStep(w)
  PROVE  \/ UNCHANGED jobStatus
         \/ ClaimGranted(w) \/ CommitActivation(w)
         \/ RollBack(w) \/ SettleUnfenced(w)
BY NoUndo DEF WorkerStep, ReadJob, ClaimDeferred, ClaimRefused, BoundaryDenied, RebuildPlan,
            PrepareActivation, PrepareFails, StartCommit, StartFails, BeginActivation,
            BeginFails, PublishReplica, ActivationFails, FinalizeActivation, FinalizeFails,
            ReadOutcome, RollBackFenced, InspectJournal, SettleRaises, Release, jobVars

\* Recovery: nothing in its scope runs any more, and nothing succeeds by it.
LEMMA RecoverEnds ==
  ASSUME Typed, IInv, NEW scope \in SUBSET Job, NEW u \in Job \union {None},
         ToReconcile(scope, u), RecoverJobs(scope, u)
  PROVE  \A j \in Job :
           /\ \/ jobStatus'[j] = jobStatus[j]
              \/ /\ j \in scope /\ jobStatus[j] \in LiveStatuses
                 /\ jobStatus'[j] \in {"canceled", "needs_attention"}
           /\ j \in scope => jobStatus'[j] \notin {"running", "cancel_requested", "queued"}
<1> SUFFICES ASSUME NEW j \in Job
             PROVE  /\ \/ jobStatus'[j] = jobStatus[j]
                       \/ /\ j \in scope /\ jobStatus[j] \in LiveStatuses
                          /\ jobStatus'[j] \in {"canceled", "needs_attention"}
                    /\ j \in scope => jobStatus'[j] \notin {"running", "cancel_requested", "queued"}
  OBVIOUS
<1>1. CASE j \in scope /\ jobStatus[j] \in LiveStatuses
  <2>1. ~(j = u /\ CommitProven(u))
    <3> SUFFICES ASSUME j = u, CommitProven(u) PROVE FALSE
      OBVIOUS
    <3>1. Unfinished(u)
      BY NoneAssumption DEF ToReconcile
    <3>2. CASE Open(u)
      BY <3>2 DEF IInv, StoreInv, OpenCanRollBack, CommitProven, Switched
    <3>3. CASE Committed(u)
      BY <1>1, <3>3 DEF IInv, StoreInv, SuccessIsActivation, Committed, LiveStatuses
    <3> QED BY <3>1, <3>2, <3>3 DEF Unfinished, UnfinishedPhases, Open, Committed
  <2>2. RecoveredStatus(j, u) \in {"canceled", "needs_attention"}
    BY <2>1 DEF RecoveredStatus
  <2> QED BY <1>1, <2>2 DEF RecoverJobs
<1>2. CASE ~(j \in scope /\ jobStatus[j] \in LiveStatuses)
  BY <1>2 DEF RecoverJobs, LiveStatuses
<1> QED BY <1>1, <1>2

LEMMA OwnerEnds ==
  ASSUME Typed, NEW j \in Job, Owner(j)
  PROVE  \A i \in Job :
           /\ jobStatus'[i] \in {"running", "cancel_requested"} => Running(i)
           /\ jobStatus[i] = "cancel_requested" => jobStatus'[i] # "running"
           /\ Running(i) => jobStatus'[i] \in {"running", "cancel_requested"}
           /\ jobStatus'[i] = "succeeded" <=> jobStatus[i] = "succeeded"
<1> USE DEF Typed, TypeOK, ProcessTypes, JobTypeOK, Running
<1>1. CASE CreateJob(j)
  BY <1>1 DEF CreateJob, CreateJobRow
<1>2. CASE CancelJob(j)
  BY <1>2 DEF CancelJob, RequestJobCancel, TransitionJob, LiveStatuses
<1>3. CASE ResumeJob(j)
  BY <1>3 DEF ResumeJob, TransitionJob
<1> QED BY <1>1, <1>2, <1>3 DEF Owner

LEMMA WorkerStepEnds ==
  ASSUME Typed, IInv, NoDuplicateNorRestoreError, NEW w \in Worker, WorkerStep(w)
  PROVE  /\ \A i \in Job \ {wjob[w]} : jobStatus'[i] = jobStatus[i]
         /\ \/ ClaimGranted(w)
            \/ \A i \in Job : jobStatus'[i] \in {"running", "cancel_requested"} =>
                               jobStatus'[i] = jobStatus[i]
         /\ \/ CommitActivation(w)
            \/ \A i \in Job : jobStatus'[i] = "succeeded" => jobStatus[i] = "succeeded"
<1> USE WorkerStepPc DEF Typed, TypeOK, ProcessTypes, JobTypeOK
<1>1. CASE UNCHANGED jobStatus
  BY <1>1
<1>2. CASE ClaimGranted(w)
  BY <1>2 DEF ClaimGranted, TransitionJob
<1>4. CASE CommitActivation(w)
  BY <1>4 DEF CommitActivation, TransitionJob
<1>5. CASE RollBack(w)
  BY <1>5, RollBackEnds
<1>6. CASE SettleUnfenced(w)
  BY <1>6, SettleEnds
<1> QED BY <1>1, <1>2, <1>4, <1>5, <1>6, WorkerStepJob

\* The exit report of a worker is about its own job, if it was the last to claim.
LEMMA ExitScope ==
  ASSUME Typed, NEW w \in Worker, NEW u \in Job \union {None}, ProcessExit(w, u)
  PROVE  /\ wjob[w] \in Job /\ pc[w] = "exited" /\ pc' = [pc EXCEPT ![w] = "reaped"]
         /\ UNCHANGED <<wjob, wepoch, seen, lockVars, jobParent, sqliteData>>
         /\ DbFree
         /\ \/ /\ leaseHolder = w
               /\ RevokeLease /\ Reconcile(u) /\ ToReconcile({wjob[w]}, u)
               /\ RecoverJobs({wjob[w]}, u)
            \/ leaseHolder # w /\ UNCHANGED <<leaseVars, journalVars, duckManifest, jobStatus>>
<1> USE DEF ProcessExit
<1>1. wjob[w] \in Job
  BY DEF Typed, StartedHaveJobs
<1>2. CASE leaseHolder = w
  BY <1>1, <1>2 DEF Goto
<1>3. CASE leaseHolder # w
  <2>1. u = None /\ RecoverJobs({}, u)
    BY <1>3 DEF ToReconcile
  <2>2. jobStatus' = jobStatus
    BY <2>1 DEF RecoverJobs, Typed, TypeOK, ProcessTypes, JobTypeOK
  <2> QED BY <1>1, <1>3, <2>1, <2>2 DEF Reconcile, Goto
<1> QED BY <1>2, <1>3

\* So it ends that job if it still ran, and changes no other.
LEMMA ExitEnds ==
  ASSUME Typed, IInv, NEW w \in Worker, NEW u \in Job \union {None}, ProcessExit(w, u)
  PROVE  \A j \in Job :
           /\ jobStatus'[j] \in {"running", "cancel_requested"} =>
                jobStatus[j] = jobStatus'[j] /\ (leaseHolder = w => j # wjob[w])
           /\ jobStatus'[j] = "succeeded" <=> jobStatus[j] = "succeeded"
           /\ j # wjob[w] => jobStatus'[j] = jobStatus[j]
<1>1. CASE leaseHolder = w
  <2>1. ToReconcile({wjob[w]}, u) /\ RecoverJobs({wjob[w]}, u) /\ {wjob[w]} \in SUBSET Job
    BY <1>1, ExitScope
  <2>2. \A j \in Job :
           /\ \/ jobStatus'[j] = jobStatus[j]
              \/ /\ j \in {wjob[w]} /\ jobStatus[j] \in LiveStatuses
                 /\ jobStatus'[j] \in {"canceled", "needs_attention"}
           /\ j \in {wjob[w]} => jobStatus'[j] \notin {"running", "cancel_requested", "queued"}
    BY <2>1, RecoverEnds
  <2> QED BY <2>2 DEF LiveStatuses
<1>2. CASE leaseHolder # w
  BY <1>2, ExitScope
<1> QED BY <1>1, <1>2

-----------------------------------------------------------------------------
(* The lease                                                                *)

LEMMA RunningHasLeaseNext ==
  ASSUME Typed, IInv, [Next]_vars, NoDuplicateNorRestoreError
  PROVE  RunningHasLease'
<1> USE DEF RunningHasLease, Running, IInv, LeaseInv, Typed, TypeOK, ProcessTypes, leaseVars
<1>1. ASSUME NEW j \in Job, Owner(j) PROVE RunningHasLease'
  BY <1>1, OwnerEnds DEF Owner, CreateJob, CancelJob, ResumeJob, workerVars
<1>2. ASSUME NEW w \in Worker, NEW j \in Job, Launch(w, j) PROVE RunningHasLease'
  BY <1>2 DEF Launch, HolderClaimed, Unclaimed, jobVars
<1>3. ASSUME NEW w \in Worker, WorkerStep(w) PROVE RunningHasLease'
  <2>1. CASE ClaimGranted(w)
    BY <1>3, <2>1, WorkerStepEnds, WorkerStepPc DEF ClaimGranted, GrantLease
  <2>2. CASE Release(w)
    BY <1>3, <2>2, WorkerStepPc DEF Release, ReleaseLease, UnfencedIsHarmless, Leased, jobVars
  <2>3. CASE UNCHANGED leaseVars
    BY <1>3, <2>1, <2>3, WorkerStepEnds, WorkerStepPc
  <2>4. ClaimDeferred(w) \/ ClaimRefused(w) => UNCHANGED leaseVars
    BY DEF ClaimDeferred, ClaimRefused
  <2> QED BY <1>3, <2>1, <2>2, <2>3, <2>4, WorkerStepLease
<1>4. ASSUME NEW w \in Worker, WorkerDies(w) PROVE RunningHasLease'
  BY <1>4 DEF WorkerDies, Crash, RollBackCrash, Exit, jobVars
<1>5. ASSUME NEW u \in Job \union {None}, Recover(u) PROVE RunningHasLease'
  BY <1>5, RecoverEnds DEF Recover
<1>6. ASSUME NEW w \in Worker, NEW u \in Job \union {None}, ProcessExit(w, u) PROVE RunningHasLease'
  <2>1. CASE leaseHolder = w
    BY <1>6, <2>1, ExitScope, ExitEnds
  <2>2. CASE leaseHolder # w
    <3>1. jobStatus' = jobStatus /\ wjob' = wjob /\ leaseHolder' = leaseHolder /\ leaseActive' = leaseActive
      BY <1>6, <2>2, ExitScope DEF leaseVars
    <3> QED BY <3>1
  <2> QED BY <2>1, <2>2
<1>7. CASE (\E u \in Job : RecoveryCrash(u)) \/ UNCHANGED vars
  BY <1>7 DEF RecoveryCrash, vars, workerVars, jobVars
<1> QED BY <1>1, <1>2, <1>3, <1>4, <1>5, <1>6, <1>7 DEF Next, Recovery

LEMMA LiveRunningLeasedNext ==
  ASSUME Typed, IInv, [Next]_vars, NoDuplicateNorRestoreError
  PROVE  LiveRunningLeased'
<1> USE DEF LiveRunningLeased, Leased, Live, Running, IInv, LeaseInv, Typed, TypeOK, ProcessTypes, StartedHaveJobs,
            leaseVars
<1>0. \A w \in Worker : Live(w) => wjob[w] \in Job
  BY DEF Ended
<1>1. ASSUME NEW j \in Job, Owner(j) PROVE LiveRunningLeased'
  BY <1>0, <1>1, OwnerEnds DEF Owner, CreateJob, CancelJob, ResumeJob, workerVars
<1>2. ASSUME NEW w \in Worker, NEW j \in Job, Launch(w, j) PROVE LiveRunningLeased'
  BY <1>0, <1>2 DEF Launch, Goto, NoDuplicateNorRestoreError, jobVars
<1>3. ASSUME NEW w \in Worker, WorkerStep(w) PROVE LiveRunningLeased'
  <2>1. CASE ClaimGranted(w)
    <3>1. /\ leaseHolder' = w /\ leaseEpoch' = leaseEpoch + 1 /\ leaseActive'
          /\ wepoch' = [wepoch EXCEPT ![w] = leaseEpoch + 1] /\ wjob' = wjob
          /\ ~leaseActive
          /\ jobStatus' = [jobStatus EXCEPT ![wjob[w]] = "running"]
      BY <2>1 DEF ClaimGranted, GrantLease, TransitionJob
    <3>2. Leased(w)'
      BY <3>1
    <3>3. \A v \in Worker \ {w} : Live(v)' => Live(v) /\ wjob[v] # wjob[w] /\ ~Running(wjob[v])
      BY <1>3, <3>1, WorkerStepPc DEF OneWorkerPerJob
    <3>4. \A v \in Worker \ {w} : Live(v)' => jobStatus'[wjob'[v]] = jobStatus[wjob[v]]
      BY <1>0, <3>1, <3>3
    <3> QED BY <3>2, <3>3, <3>4
  <2>2. CASE Release(w)
    BY <1>0, <1>3, <2>2, WorkerStepPc
       DEF Release, ReleaseLease, Exit, Goto, Ended, jobVars
  <2>3. CASE ClaimDeferred(w)
    BY <1>0, <1>3, <2>3 DEF ClaimDeferred, Exit, Goto, Ended, jobVars
  <2>4. CASE ClaimRefused(w)
    <3>1. /\ jobStatus' = jobStatus /\ wjob' = wjob /\ leaseHolder' = leaseHolder
          /\ leaseEpoch' = leaseEpoch /\ leaseActive' = leaseActive
          /\ Live(w) /\ ~Leased(w)
          /\ \A v \in Worker \ {w} : wepoch'[v] = wepoch[v] /\ pc'[v] = pc[v]
      BY <2>4 DEF ClaimRefused, Goto, HolderClaimed, Unclaimed, jobVars, Ended
    <3>2. \A v \in Worker : Live(v)' /\ Running(wjob[v]) => v # w /\ Leased(v)
      BY <3>1
    <3> QED BY <3>1, <3>2
  <2>5. CASE UNCHANGED <<leaseVars, wepoch>>
    <3>1. CASE ClaimGranted(w)
      BY <2>1, <3>1
    <3>2. CASE ~ClaimGranted(w)
      <4>1. \A v \in Worker : Live(v)' => Live(v) /\ wjob'[v] = wjob[v]
        BY <1>3, WorkerStepPc
      <4>2. \A v \in Worker : Live(v) /\ Running(wjob[v])' => Running(wjob[v])
        BY <1>0, <1>3, <3>2, WorkerStepEnds, WorkerStepPc
      <4> QED BY <2>5, <4>1, <4>2
    <3> QED BY <3>1, <3>2
  <2> QED
    BY <1>3, <2>1, <2>2, <2>3, <2>4, <2>5, WorkerStepLease
<1>4. ASSUME NEW w \in Worker, WorkerDies(w) PROVE LiveRunningLeased'
  BY <1>4 DEF WorkerDies, Crash, RollBackCrash, Exit, Goto, Ended, jobVars
<1>5. ASSUME NEW u \in Job \union {None}, Recover(u) PROVE LiveRunningLeased'
  BY <1>0, <1>5, RecoverEnds DEF Recover, workerVars
<1>6. ASSUME NEW w \in Worker, NEW u \in Job \union {None}, ProcessExit(w, u) PROVE LiveRunningLeased'
  <2>1. CASE leaseHolder = w
    <3>1. /\ wjob[w] \in Job /\ wjob' = wjob /\ pc[w] = "exited" /\ pc' = [pc EXCEPT ![w] = "reaped"]
          /\ \A j \in Job : jobStatus'[j] \in {"running", "cancel_requested"} =>
                             jobStatus[j] = jobStatus'[j] /\ j # wjob[w]
      BY <1>6, <2>1, ExitScope, ExitEnds
    <3>2. \A v \in Worker : Live(v)' => Live(v)
      BY <3>1 DEF Ended
    <3>3. \A v \in Worker : Live(v)' => ~Running(wjob[v])'
      BY <1>0, <2>1, <3>1, <3>2 DEF RunningHasLease
    <3> QED BY <3>3
  <2>2. CASE leaseHolder # w
    <3>1. /\ jobStatus' = jobStatus /\ wjob' = wjob /\ wepoch' = wepoch /\ leaseHolder' = leaseHolder
          /\ leaseEpoch' = leaseEpoch /\ leaseActive' = leaseActive
          /\ pc[w] = "exited" /\ pc' = [pc EXCEPT ![w] = "reaped"]
      BY <1>6, <2>2, ExitScope DEF leaseVars
    <3> QED BY <3>1 DEF Ended
  <2> QED BY <2>1, <2>2
<1>7. CASE (\E u \in Job : RecoveryCrash(u)) \/ UNCHANGED vars
  BY <1>7 DEF RecoveryCrash, vars, workerVars, jobVars
<1> QED BY <1>1, <1>2, <1>3, <1>4, <1>5, <1>6, <1>7 DEF Next, Recovery

LEMMA SucceededHereNext ==
  ASSUME Typed, IInv, [Next]_vars, NoDuplicateNorRestoreError
  PROVE  SucceededHere'
<1> USE DEF SucceededHere, Live, IInv, LeaseInv, Typed, TypeOK, ProcessTypes, StartedHaveJobs
<1>0. \A w \in Worker : Live(w) => wjob[w] \in Job
  BY DEF Ended
<1>1. ASSUME NEW j \in Job, Owner(j) PROVE SucceededHere'
  BY <1>0, <1>1, OwnerEnds DEF Owner, CreateJob, CancelJob, ResumeJob, workerVars, Ended
<1>2. ASSUME NEW w \in Worker, NEW j \in Job, Launch(w, j) PROVE SucceededHere'
  BY <1>0, <1>2 DEF Launch, Goto, NoDuplicateNorRestoreError, jobVars
<1>3. ASSUME NEW w \in Worker, WorkerStep(w) PROVE SucceededHere'
  <2>1. CASE CommitActivation(w)
    BY <1>0, <1>3, <2>1, WorkerStepEnds, WorkerStepPc
       DEF CommitActivation, Goto, TransitionJob, OneWorkerPerJob, JobTypeOK, Ended
  <2>2. CASE FinalizeActivation(w) \/ FinalizeFails(w)
    BY <1>0, <1>3, <2>2 DEF FinalizeActivation, FinalizeFails, Goto, jobVars
  <2>3. CASE Release(w)
    BY <1>0, <1>3, <2>3 DEF Release, Exit, Goto, Ended, jobVars
  <2>4. CASE pc[w] \notin {"switch", "finalize", "release"}
    <3>1. jobStatus[wjob[w]] # "succeeded" /\ pc'[w] # "finalize"
      BY <1>3, <2>4, WorkerStepPc DEF WorkerStep, ReadJob, ClaimGranted, ClaimDeferred, ClaimRefused, BoundaryDenied,
                 RebuildPlan, PrepareActivation, PrepareFails, StartCommit,
                 StartFails, BeginActivation, BeginFails, PublishReplica,
                 ActivationFails, CommitActivation, FinalizeActivation, FinalizeFails,
                 ReadOutcome, RollBack, RollBackFenced, RollBackRaises, RollBackDeferred,
                 InspectJournal, UndoReplica, UndoFails, SettleUnfenced, SettleRaises, Release,
                 Exit, Goto
    <3> QED
      BY <1>0, <1>3, <2>1, <2>4, <3>1, WorkerStepEnds, WorkerStepPc, EndedJobsStay
         DEF Terminal, TerminalStatuses, Ended, CommitActivation
  <2>5. CASE ActivationFails(w)
    BY <1>0, <1>3, <2>5 DEF ActivationFails, Goto, jobVars, Ended
  <2> QED BY <1>3, <2>1, <2>2, <2>3, <2>4, <2>5 DEF WorkerStep, ReadJob, ClaimGranted, ClaimDeferred, ClaimRefused, BoundaryDenied,
                 RebuildPlan, PrepareActivation, PrepareFails, StartCommit,
                 StartFails, BeginActivation, BeginFails, PublishReplica,
                 ActivationFails, CommitActivation, FinalizeActivation, FinalizeFails,
                 ReadOutcome, RollBack, RollBackFenced, RollBackRaises, RollBackDeferred,
                 InspectJournal, UndoReplica, UndoFails, SettleUnfenced, SettleRaises, Release,
                 Exit, Goto
<1>4. ASSUME NEW w \in Worker, WorkerDies(w) PROVE SucceededHere'
  BY <1>4 DEF WorkerDies, Crash, RollBackCrash, Exit, Goto, Ended, jobVars
<1>5. ASSUME NEW u \in Job \union {None}, Recover(u) PROVE SucceededHere'
  BY <1>0, <1>5, RecoverEnds DEF Recover, workerVars, LiveStatuses, Ended
<1>6. ASSUME NEW w \in Worker, NEW u \in Job \union {None}, ProcessExit(w, u) PROVE SucceededHere'
  <2>1. CASE leaseHolder = w
    <3>1. /\ wjob' = wjob /\ pc[w] = "exited" /\ pc' = [pc EXCEPT ![w] = "reaped"]
          /\ \A j \in Job : jobStatus'[j] = "succeeded" <=> jobStatus[j] = "succeeded"
      BY <1>6, <2>1, ExitScope, ExitEnds
    <3>2. \A v \in Worker : Live(v)' => Live(v) /\ pc'[v] = pc[v]
      BY <3>1 DEF Ended
    <3>3. \A v \in Worker : pc'[v] = "finalize" => pc[v] = "finalize" /\ Live(v)
      BY <3>1 DEF Ended
    <3> QED BY <1>0, <3>1, <3>2, <3>3
  <2>2. CASE leaseHolder # w
    BY <1>0, <1>6, <2>2, ExitScope DEF Ended
  <2> QED BY <2>1, <2>2
<1>7. CASE (\E u \in Job : RecoveryCrash(u)) \/ UNCHANGED vars
  BY <1>7 DEF RecoveryCrash, vars, workerVars, jobVars
<1> QED BY <1>1, <1>2, <1>3, <1>4, <1>5, <1>6, <1>7 DEF Next, Recovery

-----------------------------------------------------------------------------
(* What the invariant says at once                                          *)

LEMMA PhaseCases == \A j : Unfinished(j) <=> Open(j) \/ Committed(j)
BY DEF Unfinished, UnfinishedPhases, Open, Committed

LEMMA CommittedSucceeded ==
  ASSUME IInv, NEW j \in Job, Committed(j)
  PROVE  jobStatus[j] = "succeeded"
BY DEF IInv, StoreInv, SuccessIsActivation, Committed

\* The journal of a running job has not been committed.
LEMMA RunningUnfinishedIsOpen ==
  ASSUME IInv, NEW j \in Job, Running(j), Unfinished(j)
  PROVE  Open(j)
BY PhaseCases, CommittedSucceeded DEF Running

\* Rolling an open journal back gives DuckDB the versions SQLite names.
LEMMA OpenRestores ==
  ASSUME Typed, IInv, NEW j \in Job, Open(j)
  PROVE  Restored(j) = activeVersion /\ RollbackProven(j) /\ ~CommitProven(j)
<1>1. \A t \in Table : Restored(j)[t] = activeVersion[t]
  BY TablesOfAssumption DEF Restored, IInv, StoreInv, OpenCanRollBack
<1>2. Restored(j) = activeVersion
  BY <1>1 DEF Restored, Typed, TypeOK, ProcessTypes, JournalTypeOK, JournalTypes
<1> QED BY <1>2 DEF IInv, StoreInv, OpenCanRollBack, RollbackProven, CommitProven, Switched

LEMMA CommittedProven ==
  ASSUME Typed, IInv, NEW j \in Job, Committed(j)
  PROVE  CommitProven(j) /\ ~RollbackProven(j) /\ duckManifest = activeVersion
BY DEF IInv, StoreInv, CommittedIsServed, CommitProven, RollbackProven, Switched, ReplicaMatches

\* What a worker in its activation transaction knows.
LEMMA ActivatingFacts ==
  ASSUME Typed, IInv, NEW w \in Worker, pc[w] \in Activating
  PROVE  /\ wjob[w] \in Job /\ Leased(w) /\ jobStatus[wjob[w]] = "running" /\ dbLock = w
         /\ journalPhase[wjob[w]] = "commit_started" /\ Open(wjob[w])
         /\ currentSourceRun = jobParent[wjob[w]]
BY DEF IInv, Ownership, DbLockIsActivation, ActivationKeepsClaim, LeaseInv, LeasedRuns, Open,
       Activating, Typed, StartedHaveJobs

-----------------------------------------------------------------------------
(* What a worker's step does to the stores                                  *)

LEMMA WorkerStepStores ==
  ASSUME Typed, IInv, NoDuplicateNorRestoreError, NEW w \in Worker, WorkerStep(w)
  PROVE  \/ UNCHANGED <<journalVars, duckManifest, sqliteData>>
         \/ PrepareActivation(w) \/ StartCommit(w)
         \/ (\E t \in Table : PublishReplica(w, t))
         \/ CommitActivation(w) \/ FinalizeActivation(w) \/ RollBack(w)
<1>1. SettleUnfenced(w) => UNCHANGED <<journalVars, duckManifest, sqliteData>>
  BY SettleEnds DEF SettleUnfenced
<1> QED
  BY <1>1, NoUndo DEF WorkerStep, ReadJob, ClaimGranted, ClaimDeferred, ClaimRefused, BoundaryDenied, RebuildPlan,
            PrepareFails, StartFails, BeginActivation, BeginFails, ActivationFails, FinalizeFails,
            ReadOutcome, RollBackFenced, InspectJournal, SettleRaises, Release

\* A worker writes only the journal of its own job.
LEMMA OtherJournals ==
  ASSUME Typed, IInv, NoDuplicateNorRestoreError, NEW w \in Worker, WorkerStep(w)
  PROVE  /\ jobParent' = jobParent
         /\ \A j \in Job \ {wjob[w]} :
              /\ journalPhase'[j] = journalPhase[j] /\ journalTarget'[j] = journalTarget[j]
              /\ journalOutcome'[j] = journalOutcome[j]
              /\ rollbackManifest'[j] = rollbackManifest[j]
<1>1. jobParent' = jobParent
  BY DEF WorkerStep, ReadJob, ClaimGranted, ClaimDeferred, ClaimRefused, BoundaryDenied,
         RebuildPlan, PrepareActivation, PrepareFails, StartCommit, StartFails, BeginActivation, BeginFails, PublishReplica, ActivationFails,
         CommitActivation, FinalizeActivation, FinalizeFails, ReadOutcome, RollBack,
         RollBackFenced, RollBackRaises, RollBackDeferred, InspectJournal, UndoReplica,
         UndoFails, SettleUnfenced, SettleRaises, Release
<1>2. \/ UNCHANGED journalVars
      \/ PrepareJournal(wjob[w]) \/ StartCommit(w) \/ CommitActivation(w)
      \/ \E o \in Outcomes : Finalize(wjob[w], o)
  BY WorkerStepStores DEF PrepareActivation, PublishReplica,
       FinalizeActivation, RollBack, Outcomes
<1> QED
  BY <1>1, <1>2 DEF Typed, TypeOK, ProcessTypes, JournalTypeOK, JournalTypes, journalVars, PrepareJournal, StartCommit,
       CommitActivation, Finalize

\* A worker neither takes the lease from another nor gives it one.
LEMMA OtherLeases ==
  ASSUME Typed, IInv, NEW w \in Worker, WorkerStep(w)
  PROVE  \A v \in Worker \ {w} : Leased(v)' <=> Leased(v)
<1> USE DEF Leased, Typed, TypeOK, ProcessTypes
<1>1. CASE UNCHANGED <<leaseVars, wepoch>>
  BY <1>1 DEF leaseVars
<1>2. CASE ClaimGranted(w)
  BY <1>2 DEF ClaimGranted, GrantLease
<1>3. CASE ClaimDeferred(w) \/ ClaimRefused(w)
  BY <1>3 DEF ClaimDeferred, ClaimRefused, Exit, leaseVars
<1>4. CASE Release(w)
  BY <1>4 DEF Release, ReleaseLease, Exit, leaseVars
<1> QED BY <1>1, <1>2, <1>3, <1>4, WorkerStepLease

\* Restoring an open journal and finalizing it, what a worker's rollback does.
LEMMA RollBackStores ==
  ASSUME Typed, IInv, NEW w \in Worker, RollBack(w)
  PROVE  /\ wjob[w] \in Job /\ Running(wjob[w])
         /\ \/ ~Unfinished(wjob[w]) /\ UNCHANGED <<duckManifest, journalVars>>
            \/ /\ Open(wjob[w]) /\ Finalize(wjob[w], "rolled_back")
               /\ duckManifest' = activeVersion
         /\ UNCHANGED sqliteData
<1>1. wjob[w] \in Job /\ Running(wjob[w])
  BY DEF RollBack, Typed, StartedHaveJobs, IInv, LeaseInv, LeasedRuns
<1> QED BY <1>1, OpenRestores, RunningUnfinishedIsOpen DEF RollBack

-----------------------------------------------------------------------------
(* What recovery does to the stores                                         *)

\* Reconciliation proves the one unfinished journal it is given, rolls it back
\* or finalizes it, and leaves DuckDB at SQLite's versions.
LEMMA ReconcileSettles ==
  ASSUME Typed, IInv, NEW scope \in SUBSET Job, NEW u \in Job \union {None},
         ToReconcile(scope, u), Reconcile(u)
  PROVE  \/ u = None /\ UNCHANGED <<journalVars, duckManifest>> /\ \A j \in scope : ~Unfinished(j)
         \/ /\ u \in scope /\ Unfinished(u)
            /\ \/ Open(u) /\ Finalize(u, "rolled_back")
               \/ Committed(u) /\ Finalize(u, "committed")
            /\ duckManifest' = activeVersion
<1>1. CASE u = None
  BY <1>1 DEF ToReconcile, Reconcile
<1>2. CASE u # None
  <2>1. u \in scope /\ u \in Job /\ Unfinished(u)
    BY <1>2 DEF ToReconcile
  <2>2. CASE Open(u)
    BY <1>2, <2>1, <2>2, OpenRestores DEF Reconcile
  <2>3. CASE Committed(u)
    BY <1>2, <2>1, <2>3, CommittedProven DEF Reconcile
  <2> QED BY <2>1, <2>2, <2>3, PhaseCases
<1> QED BY <1>1, <1>2

\* After either recovery command no journal in its scope is unfinished and no
\* other has changed.
LEMMA RecoveryStores ==
  ASSUME Typed, IInv,
         \/ \E u \in Job \union {None} : Recover(u)
         \/ \E w \in Worker, u \in Job \union {None} : ProcessExit(w, u)
  PROVE  /\ UNCHANGED <<journalTarget, rollbackManifest, jobParent, sqliteData, wjob>>
         /\ DbFree
         /\ \/ UNCHANGED <<journalVars, duckManifest>>
            \/ \E u \in Job :
                 /\ Unfinished(u) /\ duckManifest' = activeVersion
                 /\ \/ Open(u) /\ Finalize(u, "rolled_back")
                    \/ Committed(u) /\ Finalize(u, "committed")
<1>1. ASSUME NEW u \in Job \union {None}, Recover(u)
      PROVE  /\ UNCHANGED <<jobParent, sqliteData, wjob>> /\ DbFree
             /\ ToReconcile(Job, u) /\ Reconcile(u)
  BY <1>1 DEF Recover, workerVars
<1>2. ASSUME NEW w \in Worker, NEW u \in Job \union {None}, ProcessExit(w, u)
      PROVE  /\ UNCHANGED <<jobParent, sqliteData, wjob>> /\ DbFree
             /\ \/ UNCHANGED <<journalVars, duckManifest>>
                \/ ToReconcile({wjob[w]}, u) /\ Reconcile(u) /\ {wjob[w]} \in SUBSET Job
  BY <1>2, ExitScope
<1>3. ASSUME NEW scope \in SUBSET Job, NEW u \in Job \union {None}, ToReconcile(scope, u), Reconcile(u)
      PROVE  /\ UNCHANGED <<journalTarget, rollbackManifest>>
             /\ \/ UNCHANGED <<journalVars, duckManifest>>
                \/ /\ u \in Job /\ Unfinished(u) /\ duckManifest' = activeVersion
                   /\ \/ Open(u) /\ Finalize(u, "rolled_back")
                      \/ Committed(u) /\ Finalize(u, "committed")
  BY <1>3, ReconcileSettles DEF Finalize, journalVars
<1>4. CASE \E u \in Job \union {None} : Recover(u)
  BY <1>1, <1>3, <1>4
<1>5. CASE \E w \in Worker, u \in Job \union {None} : ProcessExit(w, u)
  BY <1>2, <1>3, <1>5 DEF journalVars
<1> QED BY <1>4, <1>5

\* A recovery that dies after the DuckDB rollback has lost nothing.
LEMMA RecoveryCrashStores ==
  ASSUME Typed, IInv, NEW u \in Job, RecoveryCrash(u)
  PROVE  Open(u) /\ duckManifest' = activeVersion /\ DbFree
BY PhaseCases, OpenRestores, CommittedProven DEF RecoveryCrash

-----------------------------------------------------------------------------
(* What workers rely on                                                     *)

\* LeasedRuns of one worker.
RunsLeased(w) ==
  Leased(w) =>
    LET j == wjob[w] IN
    /\ pc[w] \in {"rebuild", "prepare", "start", "begin", "failed", "rollback"} => Running(j)
    /\ pc[w] \in {"rebuild", "prepare"} => ~Unfinished(j)
    /\ pc[w] = "start" => Open(j) /\ duckManifest = activeVersion
    /\ pc[w] \in {"begin"} \union Activating => journalPhase[j] = "commit_started"
    /\ pc[w] \in {"prepare", "start", "begin"} \union Activating => currentSourceRun = jobParent[j]
    /\ pc[w] = "rollback" => /\ seen[w] \notin TerminalStatuses
                             /\ seen[w] = "cancel_requested" => jobStatus[j] = "cancel_requested"

\* Another worker's step leaves them true.
LEMMA RunsLeasedOther ==
  ASSUME Typed, IInv, NoDuplicateNorRestoreError, NEW v \in Worker, WorkerStep(v),
         NEW w \in Worker \ {v}
  PROVE  RunsLeased(w)'
<1> SUFFICES ASSUME Leased(w)', pc[w] \in {"rebuild", "prepare", "start", "begin", "failed", "rollback"} \union Activating
             PROVE  RunsLeased(w)'
  BY WorkerStepPc DEF RunsLeased, Typed, TypeOK, ProcessTypes
<1>1. Leased(w) /\ RunsLeased(w)
  BY OtherLeases DEF IInv, LeaseInv, LeasedRuns, RunsLeased
<1>2. wjob[w] \in Job /\ wjob[v] \in Job /\ wjob[w] # wjob[v] /\ wjob' = wjob /\ pc'[w] = pc[w]
  BY WorkerStepPc DEF Live, Ended, Activating, IInv, LeaseInv, OneWorkerPerJob, Typed, TypeOK, ProcessTypes, StartedHaveJobs
<1>3. ~Leased(v)
  BY <1>1 DEF Leased
<1>4. /\ jobStatus'[wjob[w]] = jobStatus[wjob[w]] /\ jobParent' = jobParent
      /\ journalPhase'[wjob[w]] = journalPhase[wjob[w]]
  BY <1>2, WorkerStepEnds, OtherJournals
<1>5. seen'[w] = seen[w]
  BY DEF Typed, TypeOK, ProcessTypes, WorkerStep, ReadJob, ClaimGranted, ClaimDeferred, ClaimRefused,
         BoundaryDenied, RebuildPlan, PrepareActivation, PrepareFails, StartCommit,
         StartFails, BeginActivation, BeginFails, PublishReplica,
         ActivationFails, CommitActivation, FinalizeActivation, FinalizeFails, ReadOutcome,
         RollBack, RollBackFenced, RollBackRaises, RollBackDeferred, InspectJournal, UndoReplica,
         UndoFails, SettleUnfenced, SettleRaises, Release, Exit
<1>6. UNCHANGED <<duckManifest, sqliteData>>
  <2>1. ~CommitActivation(v) /\ \A t \in Table : ~PublishReplica(v, t)
    BY <1>3, ActivatingFacts DEF CommitActivation, PublishReplica, Activating
  <2>2. ~RollBack(v)
    BY <1>3 DEF RollBack
  <2>3. PrepareActivation(v) \/ StartCommit(v) \/ FinalizeActivation(v)
          => UNCHANGED <<duckManifest, sqliteData>>
    BY DEF PrepareActivation, StartCommit, FinalizeActivation
  <2> QED BY <2>1, <2>2, <2>3, WorkerStepStores
<1> QED
  BY <1>1, <1>2, <1>4, <1>5, <1>6 DEF RunsLeased, Running, Unfinished, Open, sqliteData

\* A job that waits to be claimed has no unfinished journal.
LEMMA QueuedIsSettled ==
  ASSUME IInv, NEW j \in Job, jobStatus[j] = "queued"
  PROVE  ~Unfinished(j)
BY PhaseCases, CommittedSucceeded DEF IInv, StoreInv, OpenRuns, Running

\* The steps of the worker that rely on them.
LEMMA RunsLeasedOwn ==
  ASSUME Typed, IInv, NoDuplicateNorRestoreError, NEW w \in Worker, WorkerStep(w)
  PROVE  RunsLeased(w)'
<1> DEFINE j == wjob[w]
<1>0. /\ j \in Job /\ wjob' = wjob /\ RunsLeased(w) /\ Live(w)
      /\ \E label \in PCs : pc' = [pc EXCEPT ![w] = label]
  BY WorkerStepPc DEF IInv, LeaseInv, LeasedRuns, RunsLeased
<1>1. Leased(w) => pc[w] \notin Unclaimed
  BY DEF Leased, IInv, LeaseInv, HolderClaimed
<1> USE DEF RunsLeased, Activating, Typed, TypeOK, ProcessTypes
<1>2. CASE ReadJob(w)
  BY <1>0, <1>1, <1>2 DEF ReadJob, Goto, Leased, leaseVars, Unclaimed
<1>3. CASE ClaimGranted(w)
  <2>1. ~Unfinished(j)
    BY <1>0, <1>3, QueuedIsSettled DEF ClaimGranted
  <2>2. pc'[w] = "rebuild" /\ jobStatus'[j] = "running" /\ journalPhase' = journalPhase
    BY <1>0, <1>3 DEF ClaimGranted, Goto, TransitionJob, JobTypeOK, journalVars
  <2> QED BY <1>0, <2>1, <2>2 DEF Running, Unfinished
<1>4. CASE ClaimDeferred(w) \/ Release(w)
  BY <1>0, <1>4 DEF ClaimDeferred, Release, Exit, Goto
<1>5. CASE ClaimRefused(w)
  BY <1>0, <1>5 DEF ClaimRefused, Leased, leaseVars
<1>6. CASE BoundaryDenied(w)
  BY <1>0, <1>1, <1>6 DEF BoundaryDenied, Goto, Leased, leaseVars, Unclaimed, Running, jobVars
<1>7. CASE RebuildPlan(w)
  BY <1>0, <1>7 DEF RebuildPlan, Goto, Leased, leaseVars, Running, Unfinished, jobVars, journalVars, sqliteData
<1>8. CASE PrepareActivation(w)
  <2>1. /\ Leased(w) /\ pc[w] = "prepare" /\ ~Unfinished(j) /\ currentSourceRun = jobParent[j]
        /\ Running(j)
    BY <1>0, <1>8 DEF PrepareActivation
  <2>2. ~Competing(j) /\ PrepareJournal(j)
    BY <1>8, <2>1 DEF PrepareActivation
  <2>3. duckManifest = activeVersion
    BY <2>1, <2>2 DEF Competing, IInv, StoreInv, CatalogAgreesWhenSettled
  <2>4. Open(j)'
    BY <1>0, <2>2 DEF PrepareJournal, Open, JournalTypeOK, JournalTypes
  <2> QED
    BY <1>0, <1>8, <2>1, <2>3, <2>4 DEF PrepareActivation, Goto, Running, sqliteData
<1>9. CASE PrepareFails(w) \/ StartFails(w) \/ BeginFails(w)
  BY <1>0, <1>9 DEF PrepareFails, StartFails, BeginFails, Goto, Leased, leaseVars, Running, jobVars
<1>10. CASE StartCommit(w)
  BY <1>0, <1>10 DEF StartCommit, Goto, Leased, leaseVars, Running, JournalTypeOK, JournalTypes, sqliteData
<1>11. CASE BeginActivation(w)
  BY <1>0, <1>11 DEF BeginActivation, Goto, Leased, leaseVars, journalVars, sqliteData
<1>12. CASE \E t \in Table : PublishReplica(w, t)
  BY <1>0, <1>12 DEF PublishReplica, Goto, Leased, leaseVars, journalVars, sqliteData
<1>13. CASE ActivationFails(w)
  BY <1>0, <1>13, ActivatingFacts DEF ActivationFails, Goto, Running, jobVars
<1>14. CASE ReadOutcome(w)
  BY <1>0, <1>14 DEF ReadOutcome, Goto, Leased, leaseVars, Running, TerminalStatuses, jobVars
<1>15. CASE pc'[w] \in {"finalize", "release", "inspect", "settle"}
  BY <1>0, <1>15
<1>16. \/ pc'[w] \in {"finalize", "release", "inspect", "settle"}
       \/ ReadJob(w) \/ ClaimGranted(w) \/ ClaimDeferred(w) \/ ClaimRefused(w) \/ BoundaryDenied(w)
       \/ RebuildPlan(w) \/ PrepareActivation(w) \/ PrepareFails(w) \/ StartCommit(w)
       \/ StartFails(w) \/ BeginActivation(w) \/ BeginFails(w)
       \/ (\E t \in Table : PublishReplica(w, t)) \/ ActivationFails(w) \/ ReadOutcome(w)
       \/ Release(w)
  <2>1. InspectJournal(w) => pc'[w] = "settle"
    <3> SUFFICES ASSUME InspectJournal(w) PROVE ~Unfinished(j)
      BY <1>0 DEF InspectJournal, Goto
    <3>1. ~Running(j) /\ jobStatus[j] # "succeeded"
      BY <1>0, UnclaimedJob DEF InspectJournal, IInv, LeaseInv, UnfencedIsHarmless, SucceededHere
    <3> QED
      BY <1>0, <3>1, PhaseCases, CommittedSucceeded DEF IInv, StoreInv, OpenRuns
  <2> QED
    BY <1>0, <2>1, NoUndo DEF WorkerStep, CommitActivation, FinalizeActivation,
       FinalizeFails, RollBack, RollBackFenced, SettleUnfenced, SettleRaises, Goto
<1> QED
  BY <1>2, <1>3, <1>4, <1>5, <1>6, <1>7, <1>8, <1>9, <1>10, <1>11, <1>12, <1>13, <1>14, <1>15, <1>16

LEMMA LeasedRunsNext ==
  ASSUME Typed, IInv, [Next]_vars, NoDuplicateNorRestoreError
  PROVE  LeasedRuns'
<1> SUFFICES ASSUME NEW w \in Worker PROVE RunsLeased(w)'
  BY DEF LeasedRuns, RunsLeased
<1>0. RunsLeased(w) /\ (pc[w] # "idle" => wjob[w] \in Job)
  BY DEF IInv, LeaseInv, LeasedRuns, RunsLeased, Typed, StartedHaveJobs
<1>1. ASSUME NEW j \in Job, Owner(j) PROVE RunsLeased(w)'
  <2>1. /\ UNCHANGED <<journalVars, leaseVars, sqliteData, duckManifest, workerVars>>
        /\ \A i \in Job : jobStatus[i] # "absent" => jobParent'[i] = jobParent[i]
    BY <1>1 DEF Owner, CreateJob, CreateJobRow, CancelJob, ResumeJob, Typed, TypeOK, ProcessTypes, JournalTypeOK, JournalTypes
  <2>2. pc[w] \in Activating /\ Leased(w) => Running(wjob[w])
    BY DEF IInv, Ownership, ActivationKeepsClaim, Running
  <2> QED
    BY <1>0, <1>1, <2>1, <2>2, OwnerEnds
       DEF RunsLeased, Leased, Running, Unfinished, Open, Activating, journalVars, leaseVars,
           sqliteData, workerVars
<1>2. ASSUME NEW v \in Worker, NEW j \in Job, Launch(v, j) PROVE RunsLeased(w)'
  BY <1>0, <1>2 DEF Launch, Goto, RunsLeased, Leased, Running, Unfinished, Open, Activating, Typed,
     TypeOK, jobVars, journalVars, leaseVars, sqliteData
<1>3. ASSUME NEW v \in Worker, WorkerStep(v) PROVE RunsLeased(w)'
  BY <1>3, RunsLeasedOther, RunsLeasedOwn
<1>4. ASSUME NEW v \in Worker, WorkerDies(v) PROVE RunsLeased(w)'
  <2>1. pc'[v] = "exited"
    BY <1>4 DEF WorkerDies, Crash, RollBackCrash, Exit, Goto, Typed, TypeOK, ProcessTypes
  <2>2. CASE v = w
    BY <2>1, <2>2 DEF RunsLeased, Activating
  <2>3. CASE v # w /\ Crash(v)
    BY <1>0, <2>3 DEF Crash, Exit, Goto, RunsLeased, Leased, Running, Unfinished, Open, Activating,
       Typed, TypeOK, ProcessTypes, jobVars, journalVars, leaseVars, sqliteData
  <2>4. CASE v # w /\ RollBackCrash(v)
    BY <1>0, <2>4 DEF RollBackCrash, RunsLeased, Leased, leaseVars, Exit, Typed, TypeOK, ProcessTypes
  <2> QED BY <1>4, <2>2, <2>3, <2>4 DEF WorkerDies
<1>5. ASSUME NEW u \in Job \union {None}, Recover(u) PROVE RunsLeased(w)'
  BY <1>5 DEF Recover, RevokeLease, RunsLeased, Leased
<1>6. ASSUME NEW v \in Worker, NEW u \in Job \union {None}, ProcessExit(v, u) PROVE RunsLeased(w)'
  <2>1. CASE leaseHolder = v
    BY <1>6, <2>1, ExitScope DEF RevokeLease, RunsLeased, Leased
  <2>2. CASE leaseHolder # v
    <3>1. /\ pc' = [pc EXCEPT ![v] = "reaped"]
          /\ UNCHANGED <<wjob, wepoch, seen, jobParent, sqliteData, leaseVars, journalVars,
                         duckManifest, jobStatus>>
      BY <1>6, <2>2, ExitScope
    <3> QED
      BY <1>0, <3>1 DEF RunsLeased, Leased, Running, Unfinished, Open, Activating, Typed, TypeOK, ProcessTypes,
         journalVars, leaseVars, sqliteData
  <2> QED BY <2>1, <2>2
<1>7. ASSUME NEW u \in Job, RecoveryCrash(u) PROVE RunsLeased(w)'
  BY <1>0, <1>7, RecoveryCrashStores
     DEF RecoveryCrash, RunsLeased, Leased, Running, Unfinished, Open, Activating, jobVars,
         journalVars, leaseVars, sqliteData, workerVars
<1>8. CASE UNCHANGED vars
  BY <1>0, <1>8
     DEF vars, RunsLeased, Leased, Running, Unfinished, Open, Activating, jobVars, journalVars,
         leaseVars, sqliteData, workerVars
<1> QED BY <1>1, <1>2, <1>3, <1>4, <1>5, <1>6, <1>7, <1>8 DEF Next, Recovery

\* A worker that is done has ended its job, and the handler of one that never
\* claimed finds nothing to undo.
LEMMA UnfencedIsHarmlessNext ==
  ASSUME Typed, IInv, [Next]_vars, NoDuplicateNorRestoreError
  PROVE  UnfencedIsHarmless'
<1> DEFINE Harmless(w) ==
      /\ pc[w] = "release" => ~Running(wjob[w])
      /\ pc[w] \in {"inspect", "settle"} => wepoch[w] = 0
      /\ pc[w] \notin {"undo", "undone", "unknown"}
      /\ pc[w] = "finalize" /\ Committed(wjob[w]) => Leased(w)
<1> SUFFICES ASSUME NEW w \in Worker PROVE Harmless(w)'
  BY DEF UnfencedIsHarmless
<1>0. Harmless(w) /\ (pc[w] # "idle" => wjob[w] \in Job)
  BY DEF IInv, LeaseInv, UnfencedIsHarmless, Typed, StartedHaveJobs
<1> USE DEF Typed, TypeOK, ProcessTypes
<1>1. ASSUME NEW j \in Job, Owner(j) PROVE Harmless(w)'
  <2>1. UNCHANGED <<journalVars, leaseVars, workerVars>>
    BY <1>1 DEF Owner, CreateJob, CancelJob, ResumeJob
  <2> QED
    BY <1>0, <1>1, <2>1, OwnerEnds DEF Running, Committed, Leased, journalVars, leaseVars, workerVars
<1>2. ASSUME NEW v \in Worker, NEW j \in Job, Launch(v, j) PROVE Harmless(w)'
  BY <1>0, <1>2 DEF Launch, Goto, Running, Committed, Leased, jobVars, journalVars, leaseVars
<1>3. ASSUME NEW v \in Worker, WorkerStep(v), v # w PROVE Harmless(w)'
  <2>1. CASE Live(w)
    <3>1. /\ wjob[w] \in Job /\ wjob[v] \in Job /\ wjob[w] # wjob[v] /\ wjob' = wjob
          /\ pc'[w] = pc[w]
      BY <1>3, <2>1, WorkerStepPc
         DEF Live, Ended, IInv, LeaseInv, OneWorkerPerJob, StartedHaveJobs
    <3>2. /\ jobStatus'[wjob[w]] = jobStatus[wjob[w]]
          /\ journalPhase'[wjob[w]] = journalPhase[wjob[w]]
          /\ Leased(w)' <=> Leased(w)
      BY <1>3, <3>1, WorkerStepEnds, OtherJournals, OtherLeases
    <3>3. wepoch'[w] = wepoch[w]
      BY <1>3, WorkerStepLease DEF ClaimGranted, ClaimDeferred, ClaimRefused, Release, Exit
    <3> QED BY <1>0, <3>1, <3>2, <3>3 DEF Running, Committed
  <2>2. CASE ~Live(w)
    BY <1>3, <2>2, WorkerStepPc DEF Live, Ended
  <2> QED BY <2>1, <2>2
<1>4. ASSUME WorkerStep(w) PROVE Harmless(w)'
  <2>0. /\ wjob[w] \in Job /\ wjob' = wjob /\ Live(w)
        /\ \E label \in PCs : pc' = [pc EXCEPT ![w] = label]
    BY <1>4, WorkerStepPc
  <2>2. CASE FinalizeActivation(w) \/ FinalizeFails(w)
    BY <2>0, <2>2 DEF FinalizeActivation, FinalizeFails, Goto, Running, jobVars, IInv, LeaseInv,
       SucceededHere
  <2>3. CASE RollBack(w)
    <3>1. jobStatus'[wjob[w]] \in {"failed", "canceled"}
      BY <2>0, <2>3, RollBackEnds DEF JobTypeOK
    <3>2. pc'[w] = "release"
      BY <2>0, <2>3 DEF RollBack, Goto
    <3> QED BY <2>0, <3>1, <3>2 DEF Running
  <2>4. CASE RollBackFenced(w)
    BY <2>0, <2>4, UnclaimedJob DEF RollBackFenced, Goto, Running, jobVars
  <2>5. CASE SettleUnfenced(w)
    <3>1. jobStatus'[wjob[w]] \in {"failed", "canceled", jobStatus[wjob[w]]} /\ ~Running(wjob[w])
      BY <2>0, <2>5, SettleEnds DEF JobTypeOK
    <3>2. pc'[w] = "release"
      BY <2>0, <2>5 DEF SettleUnfenced, Goto
    <3> QED BY <2>0, <3>1, <3>2 DEF Running
  <2>6. CASE SettleRaises(w)
    BY <1>0, <2>0, <2>6, UnclaimedJob DEF SettleRaises, Goto, Running, jobVars
  <2>7. CASE CommitActivation(w)
    <3>1. Leased(w) /\ pc'[w] = "finalize" /\ UNCHANGED <<leaseVars, wepoch>>
      BY <2>0, <2>7, ActivatingFacts DEF CommitActivation, Activating, Goto
    <3> QED BY <3>1 DEF Leased, leaseVars
  <2>8. CASE ReadOutcome(w)
    <3>1. pc'[w] = IF wepoch[w] > 0 THEN "rollback" ELSE "inspect"
      BY <2>0, <2>8 DEF ReadOutcome, Goto
    <3>2. wepoch' = wepoch /\ wepoch[w] \in Nat
      BY <2>8 DEF ReadOutcome
    <3> QED BY <3>1, <3>2
  <2>9. CASE InspectJournal(w)
    <3>1. ~Running(wjob[w]) /\ jobStatus[wjob[w]] # "succeeded"
      BY <1>0, <2>0, <2>9, UnclaimedJob DEF InspectJournal, IInv, LeaseInv, SucceededHere
    <3>2. ~Unfinished(wjob[w])
      BY <2>0, <3>1, PhaseCases, CommittedSucceeded DEF IInv, StoreInv, OpenRuns
    <3> QED BY <1>0, <2>0, <2>9, <3>2 DEF InspectJournal, Goto
  <2>10. CASE pc'[w] \notin {"release", "inspect", "settle", "undo", "undone", "unknown", "finalize"}
    BY <2>10
  <2> QED
    BY <1>4, <2>0, <2>2, <2>3, <2>4, <2>5, <2>6, <2>7, <2>8, <2>9, <2>10, NoUndo
       DEF WorkerStep, ReadJob, ClaimGranted, ClaimDeferred, ClaimRefused, BoundaryDenied,
           RebuildPlan, PrepareActivation, PrepareFails, StartCommit, StartFails,
           BeginActivation, BeginFails, PublishReplica, ActivationFails, Release, Exit, Goto
<1>5. ASSUME NEW v \in Worker, WorkerDies(v) PROVE Harmless(w)'
  BY <1>0, <1>5 DEF WorkerDies, Crash, RollBackCrash, Exit, Goto, Running, Committed, Leased,
     jobVars, journalVars, leaseVars
<1>6. ASSUME NEW u \in Job \union {None}, Recover(u) PROVE Harmless(w)'
  <2>1. \A j \in Job : ~Running(j)'
    BY <1>6, RecoverEnds DEF Recover, Running
  <2>2. \A j \in Job : ~Committed(j)'
    <3>1. ToReconcile(Job, u) /\ Reconcile(u)
      BY <1>6 DEF Recover
    <3>2. CASE u = None
      BY <3>1, <3>2, ReconcileSettles, PhaseCases DEF Committed, journalVars, Unfinished,
         UnfinishedPhases, ToReconcile, Reconcile
    <3>3. CASE u # None
      <4>1. u \in Job /\ Unfinished(u) /\ \E o \in Outcomes : Finalize(u, o)
        BY <3>1, <3>3, ReconcileSettles DEF Outcomes
      <4>2. \A j \in Job \ {u} : ~Committed(j)
        BY <4>1, PhaseCases DEF IInv, StoreInv, OneUnfinished
      <4> QED BY <4>1, <4>2 DEF Finalize, Committed, JournalTypeOK, JournalTypes
    <3> QED BY <3>2, <3>3
  <2> QED BY <1>0, <1>6, <2>1, <2>2 DEF Recover, workerVars
<1>7. ASSUME NEW v \in Worker, NEW u \in Job \union {None}, ProcessExit(v, u) PROVE Harmless(w)'
  <2>1. /\ wjob' = wjob /\ wepoch' = wepoch /\ pc[v] = "exited" /\ pc' = [pc EXCEPT ![v] = "reaped"]
        /\ pc[w] = "release" => ~Running(wjob[w])'
    BY <1>0, <1>7, ExitScope, ExitEnds DEF Running
  <2>2. CASE pc[w] = "finalize" /\ leaseHolder = v
    <3>1. ~Leased(w) /\ ~Committed(wjob[w])
      BY <1>0, <2>1, <2>2 DEF Leased
    <3>2. ~Committed(wjob[w])'
      <4>1. wjob[w] \in Job
        BY <1>0, <2>2
      <4>2. CASE UNCHANGED journalVars
        BY <2>1, <3>1, <4>2 DEF Committed, journalVars
      <4>3. ASSUME NEW i \in Job, NEW o \in Outcomes, Finalize(i, o) PROVE ~Committed(wjob[w])'
        BY <2>1, <3>1, <4>1, <4>3 DEF Committed, Finalize, JournalTypeOK, JournalTypes
      <4> QED BY <1>7, <4>2, <4>3, RecoveryStores DEF Outcomes, journalVars
    <3> QED BY <2>1, <2>2, <3>2
  <2>3. CASE pc[w] # "finalize"
    BY <1>0, <2>1, <2>3
  <2>4. CASE leaseHolder # v
    BY <1>0, <1>7, <2>1, <2>4, ExitScope DEF Committed, Leased, journalVars, leaseVars
  <2> QED BY <2>2, <2>3, <2>4
<1>8. CASE (\E u \in Job : RecoveryCrash(u)) \/ UNCHANGED vars
  BY <1>0, <1>8 DEF RecoveryCrash, vars, Running, Committed, Leased, jobVars, journalVars,
     leaseVars, workerVars
<1> QED BY <1>1, <1>2, <1>3, <1>4, <1>5, <1>6, <1>7, <1>8 DEF Next, Recovery

-----------------------------------------------------------------------------
(* The journal and the two stores                                           *)

\* A step that moves neither SQLite's versions nor a journal; DuckDB changes only
\* by a rollback whose process dies before it is recorded.
Quiet ==
  /\ UNCHANGED <<journalVars, sqliteData>>
  /\ \/ UNCHANGED duckManifest
     \/ DbFree /\ duckManifest' = activeVersion /\ \E u \in Job : Open(u)
  /\ \A j \in Job :
       /\ jobStatus[j] # "absent" => jobParent'[j] = jobParent[j]
       /\ Running(j)' <=> Running(j)
       /\ jobStatus'[j] = "succeeded" <=> jobStatus[j] = "succeeded"
  /\ \A w \in Worker : pc[w] # "idle" => wjob'[w] = wjob[w]
  /\ \A w \in Worker : pc'[w] = "switch" => pc[w] = "switch"

Recovers ==
  \/ \E u \in Job \union {None} : Recover(u)
  \/ \E w \in Worker, u \in Job \union {None} : ProcessExit(w, u)

\* Every step is quiet, a worker's own, or a recovery.
LEMMA StoreSteps ==
  ASSUME Typed, IInv, [Next]_vars
  PROVE  Quiet \/ (\E w \in Worker : WorkerStep(w)) \/ Recovers
<1> USE DEF Quiet, Typed, TypeOK, ProcessTypes
<1>1. ASSUME NEW j \in Job, Owner(j) PROVE Quiet
  <2>1. /\ UNCHANGED <<journalVars, sqliteData, duckManifest, workerVars>>
        /\ \A i \in Job : jobStatus[i] # "absent" => jobParent'[i] = jobParent[i]
    BY <1>1 DEF Owner, CreateJob, CreateJobRow, CancelJob, ResumeJob, JournalTypeOK, JournalTypes
  <2>2. \A i \in Job : (Running(i)' <=> Running(i)) /\ (jobStatus'[i] = "succeeded" <=> jobStatus[i] = "succeeded")
    BY <1>1, OwnerEnds DEF Running
  <2> QED BY <2>1, <2>2 DEF workerVars
<1>2. ASSUME NEW w \in Worker, NEW j \in Job, Launch(w, j) PROVE Quiet
  BY <1>2 DEF Launch, Goto, Running, jobVars
<1>3. ASSUME NEW w \in Worker, Crash(w) PROVE Quiet
  BY <1>3 DEF Crash, Exit, Goto, Running, jobVars
<1>4. ASSUME NEW w \in Worker, RollBackCrash(w) PROVE Quiet
  <2>1. wjob[w] \in Job /\ Open(wjob[w])
    BY <1>4, RunningUnfinishedIsOpen DEF RollBackCrash, IInv, LeaseInv, LeasedRuns, StartedHaveJobs
  <2>2. DbFree /\ duckManifest' = activeVersion
    BY <1>4, <2>1, OpenRestores DEF RollBackCrash
  <2> QED BY <1>4, <2>1, <2>2 DEF RollBackCrash, Exit, Goto, Running, jobVars
<1>5. ASSUME NEW u \in Job, RecoveryCrash(u) PROVE Quiet
  BY <1>5, RecoveryCrashStores DEF RecoveryCrash, Running, jobVars, workerVars
<1>6. CASE UNCHANGED vars
  BY <1>6 DEF vars, Running, jobVars, workerVars
<1> QED BY <1>1, <1>2, <1>3, <1>4, <1>5, <1>6 DEF Next, WorkerDies, Recovery, Recovers

\* The worker of a step that writes stores, and its journal before and after.
LEMMA StoreStepJob ==
  ASSUME Typed, IInv, NoDuplicateNorRestoreError, NEW w \in Worker, WorkerStep(w)
  PROVE  LET j == wjob[w] IN
         /\ j \in Job /\ pc[w] # "idle" /\ wjob' = wjob
         /\ PrepareActivation(w) => /\ Running(j) /\ ~Unfinished(j) /\ PrepareJournal(j)
                                    /\ \A i \in Job : ~Unfinished(i)
                                    /\ duckManifest = activeVersion
                                    /\ currentSourceRun = jobParent[j]
         /\ StartCommit(w) => Running(j) /\ Open(j)
         /\ FinalizeActivation(w) =>
              /\ jobStatus[j] = "succeeded"
              /\ \/ UNCHANGED journalVars
                 \/ Committed(j) /\ Finalize(j, "committed") /\ duckManifest = activeVersion
<1> DEFINE j == wjob[w]
<1>1. j \in Job /\ pc[w] # "idle" /\ wjob' = wjob
  BY WorkerStepPc DEF Live, Ended
<1>2. ASSUME PrepareActivation(w)
      PROVE  /\ Running(j) /\ ~Unfinished(j) /\ PrepareJournal(j)
             /\ \A i \in Job : ~Unfinished(i)
             /\ duckManifest = activeVersion
             /\ currentSourceRun = jobParent[j]
  <2>1. Running(j) /\ ~Unfinished(j) /\ currentSourceRun = jobParent[j]
    BY <1>2 DEF PrepareActivation, IInv, LeaseInv, LeasedRuns
  <2>2. PrepareJournal(j) /\ \A i \in Job : ~Unfinished(i)
    BY <1>2, <2>1 DEF PrepareActivation, Competing
  <2> QED BY <2>1, <2>2 DEF IInv, StoreInv, CatalogAgreesWhenSettled
<1>3. StartCommit(w) => Running(j) /\ Open(j)
  BY DEF StartCommit, IInv, LeaseInv, LeasedRuns
<1>5. ASSUME FinalizeActivation(w)
      PROVE  /\ jobStatus[j] = "succeeded"
             /\ \/ UNCHANGED journalVars
                \/ Committed(j) /\ Finalize(j, "committed") /\ duckManifest = activeVersion
  <2>1. jobStatus[j] = "succeeded"
    BY <1>5 DEF FinalizeActivation, IInv, LeaseInv, SucceededHere
  <2>2. journalPhase[j] = "finalized" \/ Committed(j)
    BY <1>1, <2>1 DEF IInv, StoreInv, SuccessIsActivation, Committed
  <2> QED BY <1>1, <1>5, <2>1, <2>2, CommittedProven DEF FinalizeActivation, Committed
<1> QED BY <1>1, <1>2, <1>3, <1>5

\* A step leaves no journal unfinished that was not, or it is the first one.
LEMMA UnfinishedSteps ==
  ASSUME Typed, IInv, [Next]_vars, NoDuplicateNorRestoreError
  PROVE  \/ \A i \in Job : journalPhase'[i] \in UnfinishedPhases => Unfinished(i)
         \/ /\ \A i \in Job : ~Unfinished(i)
            /\ \E k \in Job : \A i \in Job \ {k} : journalPhase'[i] \notin UnfinishedPhases
<1> DEFINE Fewer == \A i \in Job : journalPhase'[i] \in UnfinishedPhases => Unfinished(i)
<1>1. CASE UNCHANGED journalVars
  BY <1>1 DEF journalVars, Unfinished
<1>2. ASSUME NEW u \in Job, NEW o, Finalize(u, o) PROVE Fewer
  BY <1>2 DEF Finalize, Typed, TypeOK, ProcessTypes, JournalTypeOK, JournalTypes, Unfinished, UnfinishedPhases
<1>3. Quiet => UNCHANGED journalVars
  BY DEF Quiet
<1>4. Recovers => UNCHANGED journalVars \/ \E u \in Job, o \in {"rolled_back", "committed"} : Finalize(u, o)
  BY RecoveryStores DEF Recovers, journalVars
<1>5. ASSUME NEW w \in Worker, WorkerStep(w)
      PROVE  Fewer \/ PrepareActivation(w)
  <2>1. wjob[w] \in Job /\ \A i \in Job \ {wjob[w]} : journalPhase'[i] = journalPhase[i]
    BY <1>5, StoreStepJob, OtherJournals
  <2>2. Unfinished(wjob[w]) => Fewer
    BY <2>1 DEF Unfinished
  <2>3. StartCommit(w) \/ CommitActivation(w) => Unfinished(wjob[w])
    BY <1>5, StoreStepJob, ActivatingFacts, PhaseCases DEF CommitActivation, Activating
  <2>4. \/ UNCHANGED journalVars
        \/ PrepareActivation(w) \/ StartCommit(w) \/ CommitActivation(w)
        \/ journalPhase' = [journalPhase EXCEPT ![wjob[w]] = "finalized"]
    BY <1>5, WorkerStepStores, RollBackStores
       DEF PublishReplica, FinalizeActivation, Finalize
  <2>5. CASE journalPhase' = [journalPhase EXCEPT ![wjob[w]] = "finalized"]
    BY <2>1, <2>5 DEF Typed, TypeOK, ProcessTypes, JournalTypeOK, JournalTypes, Unfinished, UnfinishedPhases
  <2>6. CASE UNCHANGED journalVars
    BY <2>6 DEF journalVars, Unfinished
  <2> HIDE DEF Fewer
  <2> QED BY <2>2, <2>3, <2>4, <2>5, <2>6
<1>6. ASSUME NEW w \in Worker, WorkerStep(w), PrepareActivation(w)
      PROVE  /\ \A i \in Job : ~Unfinished(i)
             /\ \E k \in Job : \A i \in Job \ {k} : journalPhase'[i] \notin UnfinishedPhases
  <2>1. wjob[w] \in Job /\ \A i \in Job \ {wjob[w]} : journalPhase'[i] = journalPhase[i]
    BY <1>6, StoreStepJob, OtherJournals
  <2>2. \A i \in Job : ~Unfinished(i)
    BY <1>6, StoreStepJob
  <2> QED BY <2>1, <2>2 DEF Unfinished
<1> QED BY <1>1, <1>2, <1>3, <1>4, <1>5, <1>6, StoreSteps

LEMMA OneUnfinishedNext ==
  ASSUME Typed, IInv, [Next]_vars, NoDuplicateNorRestoreError
  PROVE  OneUnfinished'
BY UnfinishedSteps DEF OneUnfinished, Unfinished, IInv, StoreInv

\* The process-exit report as a recovery of its scope.
LEMMA RecoversScope ==
  ASSUME Typed, IInv, Recovers
  PROVE  \/ UNCHANGED <<journalVars, duckManifest, jobStatus>>
         \/ \E scope \in SUBSET Job, u \in Job \union {None} :
              ToReconcile(scope, u) /\ Reconcile(u) /\ RecoverJobs(scope, u)
<1>1. ASSUME NEW u \in Job \union {None}, Recover(u)
      PROVE  ToReconcile(Job, u) /\ Reconcile(u) /\ RecoverJobs(Job, u)
  BY <1>1 DEF Recover
<1>2. ASSUME NEW w \in Worker, NEW u \in Job \union {None}, ProcessExit(w, u), leaseHolder = w
      PROVE  /\ {wjob[w]} \in SUBSET Job
             /\ ToReconcile({wjob[w]}, u) /\ Reconcile(u) /\ RecoverJobs({wjob[w]}, u)
  BY <1>2, ExitScope
<1>3. ASSUME NEW w \in Worker, NEW u \in Job \union {None}, ProcessExit(w, u), leaseHolder # w
      PROVE  UNCHANGED <<journalVars, duckManifest, jobStatus>>
  BY <1>3, ExitScope
<1> DEFINE Scoped == \E scope \in SUBSET Job, u \in Job \union {None} :
                      ToReconcile(scope, u) /\ Reconcile(u) /\ RecoverJobs(scope, u)
<1>4. ASSUME NEW u \in Job \union {None}, Recover(u) PROVE Scoped
  BY <1>1, <1>4
<1>5. ASSUME NEW w \in Worker, NEW u \in Job \union {None}, ProcessExit(w, u), leaseHolder = w
      PROVE  Scoped
  <2>1. PICK scope \in SUBSET Job : scope = {wjob[w]}
    BY <1>2, <1>5
  <2>2. ToReconcile(scope, u) /\ Reconcile(u) /\ RecoverJobs(scope, u)
    BY <1>2, <1>5, <2>1 DEF ToReconcile, RecoverJobs
  <2> QED BY <2>2
<1> HIDE DEF Scoped
<1>6. Scoped \/ UNCHANGED <<journalVars, duckManifest, jobStatus>>
  BY <1>3, <1>4, <1>5 DEF Recovers
<1> QED BY <1>6 DEF Scoped

LEMMA OpenRunsNext ==
  ASSUME Typed, IInv, [Next]_vars, NoDuplicateNorRestoreError
  PROVE  OpenRuns'
<1> SUFFICES ASSUME NEW i \in Job, Open(i)' PROVE Running(i)'
  BY DEF OpenRuns
<1>0. Open(i) => Running(i)
  BY DEF IInv, StoreInv, OpenRuns
<1>1. CASE Quiet
  BY <1>0, <1>1 DEF Quiet, Open, journalVars
<1>2. ASSUME NEW w \in Worker, WorkerStep(w) PROVE Running(i)'
  <2>0. wjob[w] \in Job /\ wjob' = wjob
    BY <1>2, StoreStepJob
  <2>1. CASE i # wjob[w]
    BY <1>0, <1>2, <2>0, <2>1, WorkerStepEnds, OtherJournals DEF Open, Running
  <2>2. CASE i = wjob[w] /\ UNCHANGED <<journalVars, duckManifest, sqliteData>>
    <3>1. Running(i)
      BY <1>0, <2>2 DEF Open, journalVars
    <3>2. ~SettleUnfenced(w)
      BY <2>2, <3>1, SettleEnds
    <3>3. ~ClaimGranted(w) 
      BY <2>2, <3>1 DEF ClaimGranted, Running
    <3>4. ~CommitActivation(w)
      BY <2>0, <2>2 DEF Finalize, CommitActivation, journalVars, Open, Typed, TypeOK, ProcessTypes, JournalTypeOK, JournalTypes
    <3>5. ~RollBack(w)
      BY <2>0, <2>2, RollBackStores, PhaseCases DEF Finalize, journalVars, Open, Typed, TypeOK, ProcessTypes, JournalTypeOK, JournalTypes
    <3> QED BY <1>2, <3>1, <3>2, <3>3, <3>4, <3>5, WorkerStepJob DEF Running
  <2>3. CASE i = wjob[w] /\ (PrepareActivation(w) \/ StartCommit(w))
    BY <1>2, <2>3, StoreStepJob DEF PrepareActivation, StartCommit, Running
  <2>4. CASE i = wjob[w] /\ \E t \in Table : PublishReplica(w, t)
    BY <1>0, <2>4 DEF PublishReplica, Open, Running, jobVars, journalVars
  <2>5. CASE i = wjob[w] /\ (CommitActivation(w))
    BY <2>0, <2>5 DEF CommitActivation, Finalize, Open, Typed, TypeOK, ProcessTypes, JournalTypeOK, JournalTypes
  <2>6. CASE i = wjob[w] /\ FinalizeActivation(w)
    <3>1. journalPhase'[i] = "finalized" \/ (journalPhase' = journalPhase /\ jobStatus' = jobStatus)
      BY <1>2, <2>0, <2>6, StoreStepJob
         DEF FinalizeActivation, Finalize, journalVars, jobVars, Typed, TypeOK, ProcessTypes, JournalTypeOK, JournalTypes
    <3> QED BY <1>0, <3>1 DEF Open, Running
  <2>7. CASE i = wjob[w] /\ RollBack(w)
    <3>1. ~Open(i)'
      BY <2>0, <2>7, RollBackStores, PhaseCases DEF Finalize, Open, journalVars, Typed, TypeOK, ProcessTypes, JournalTypeOK, JournalTypes
    <3> QED BY <3>1
  <2> QED BY <1>2, <2>1, <2>2, <2>3, <2>4, <2>5, <2>6, <2>7, WorkerStepStores
<1>3. ASSUME NEW scope \in SUBSET Job, NEW u \in Job \union {None},
             ToReconcile(scope, u), Reconcile(u), RecoverJobs(scope, u)
      PROVE  Running(i)'
  <2>1. Open(i)
    BY <1>3, ReconcileSettles DEF Finalize, Open, journalVars, Typed, TypeOK, ProcessTypes, JournalTypeOK, JournalTypes
  <2>2. i \notin scope
    <3>1. CASE u = None
      BY <1>3, <2>1, <3>1, PhaseCases DEF ToReconcile
    <3>2. CASE u # None
      <4>1. u \in Job /\ Unfinished(u) /\ journalPhase' = [journalPhase EXCEPT ![u] = "finalized"]
        BY <1>3, <3>2, ReconcileSettles DEF Finalize
      <4>2. i = u
        BY <2>1, <4>1, PhaseCases DEF IInv, StoreInv, OneUnfinished
      <4> QED BY <4>1, <4>2 DEF Open, Typed, TypeOK, ProcessTypes, JournalTypeOK, JournalTypes
    <3> QED BY <3>1, <3>2
  <2>3. jobStatus'[i] = jobStatus[i]
    BY <1>3, <2>2, RecoverEnds
  <2> QED BY <1>0, <2>1, <2>3 DEF Running
<1>4. CASE UNCHANGED <<journalVars, duckManifest, jobStatus>>
  BY <1>0, <1>4 DEF Open, Running, journalVars
<1> QED BY <1>1, <1>2, <1>3, <1>4, StoreSteps, RecoversScope

-----------------------------------------------------------------------------
(* The seven ways to change a store                                         *)

\* A first journal is opened over settled stores.
Opens(j) ==
  /\ Running(j) /\ \A i \in Job : ~Unfinished(i)
  /\ PrepareJournal(j) /\ UNCHANGED <<duckManifest, sqliteData, jobStatus>>
  /\ duckManifest = activeVersion /\ currentSourceRun = jobParent[j]

StartsCommit(j) ==
  /\ Running(j) /\ Open(j)
  /\ journalPhase' = [journalPhase EXCEPT ![j] = "commit_started"]
  /\ UNCHANGED <<journalTarget, journalOutcome, rollbackManifest, duckManifest, sqliteData, jobStatus>>

Publishes(w, t) ==
  /\ pc[w] = "publish" /\ Open(wjob[w]) /\ t \in TablesOf[wjob[w]]
  /\ duckManifest' = [duckManifest EXCEPT ![t] = w]
  /\ pc' = [pc EXCEPT ![w] = IF \A u \in TablesOf[wjob[w]] \ {t} : duckManifest[u] = w
                             THEN "switch" ELSE "publish"]
  /\ UNCHANGED <<journalVars, sqliteData, jobStatus>>

Switches(w) ==
  /\ pc[w] = "switch" /\ Open(wjob[w])
  /\ CommitActivation(w)

\* An open journal is rolled back, by its worker or by recovery.
Undoes(j) ==
  /\ Open(j) /\ duckManifest' = activeVersion
  /\ journalPhase' = [journalPhase EXCEPT ![j] = "finalized"]
  /\ \E o \in Outcomes \ {"committed"} : journalOutcome' = [journalOutcome EXCEPT ![j] = o]
  /\ UNCHANGED <<journalTarget, rollbackManifest, sqliteData>>

\* A committed one is finalized.
Completes(j) ==
  /\ Committed(j) /\ duckManifest = activeVersion /\ duckManifest' = activeVersion
  /\ journalPhase' = [journalPhase EXCEPT ![j] = "finalized"]
  /\ journalOutcome' = [journalOutcome EXCEPT ![j] = "committed"]
  /\ UNCHANGED <<journalTarget, rollbackManifest, sqliteData>>

LEMMA WorkerChanges ==
  ASSUME Typed, IInv, NoDuplicateNorRestoreError, NEW w \in Worker, WorkerStep(w)
  PROVE  /\ wjob[w] \in Job /\ pc[w] # "idle" /\ wjob' = wjob /\ jobParent' = jobParent
         /\ \/ UNCHANGED <<journalVars, duckManifest, sqliteData>>
            \/ Opens(wjob[w]) \/ StartsCommit(wjob[w]) \/ (\E t \in Table : Publishes(w, t))
            \/ Switches(w) \/ Undoes(wjob[w]) \/ Completes(wjob[w])
<1>0. wjob[w] \in Job /\ pc[w] # "idle" /\ wjob' = wjob /\ jobParent' = jobParent
  BY StoreStepJob, OtherJournals
<1>1. PrepareActivation(w) => Opens(wjob[w])
  BY StoreStepJob DEF Opens, PrepareActivation
<1>2. StartCommit(w) => StartsCommit(wjob[w])
  BY StoreStepJob DEF StartsCommit, StartCommit
<1>4. ASSUME NEW t \in Table, PublishReplica(w, t) PROVE Publishes(w, t)
  BY <1>4, ActivatingFacts DEF Publishes, PublishReplica, Activating, Goto, jobVars
<1>5. CommitActivation(w) => Switches(w)
  BY ActivatingFacts DEF Switches, CommitActivation, Activating
<1>6. FinalizeActivation(w) => Completes(wjob[w]) \/ UNCHANGED <<journalVars, duckManifest, sqliteData>>
  BY StoreStepJob DEF Completes, FinalizeActivation, Finalize
<1>7. RollBack(w) => Undoes(wjob[w]) \/ UNCHANGED <<journalVars, duckManifest, sqliteData>>
  BY RollBackStores DEF Undoes, Finalize, Outcomes
<1> QED BY <1>0, <1>1, <1>2, <1>4, <1>5, <1>6, <1>7, WorkerStepStores

LEMMA RecoveryChanges ==
  ASSUME Typed, IInv, Recovers
  PROVE  /\ wjob' = wjob /\ jobParent' = jobParent /\ sqliteData' = sqliteData /\ DbFree
         /\ \/ UNCHANGED <<journalVars, duckManifest>>
            \/ \E u \in Job : Undoes(u) \/ Completes(u)
  BY RecoveryStores, CommittedProven DEF Recovers, Undoes, Completes, Finalize, Outcomes

LEMMA OpenCanRollBackNext ==
  ASSUME Typed, IInv, [Next]_vars, NoDuplicateNorRestoreError
  PROVE  OpenCanRollBack'
<1> DEFINE CanRollBack(i) ==
      /\ journalTarget[i] = None /\ currentSourceRun = jobParent[i]
      /\ \A t \in TablesOf[i] : rollbackManifest[i][t] = activeVersion[t]
      /\ \A t \in Table :
           \/ duckManifest[t] = activeVersion[t]
           \/ t \in TablesOf[i] /\ duckManifest[t] \in Worker /\ wjob[duckManifest[t]] = i
<1> SUFFICES ASSUME NEW i \in Job, Open(i)' PROVE CanRollBack(i)'
  BY DEF OpenCanRollBack
<1>0. /\ Open(i) => CanRollBack(i) /\ Running(i)
      /\ \A k \in Job : Unfinished(i) /\ (Open(k) \/ Committed(k)) => k = i
      /\ Open(i) => Unfinished(i)
      /\ \A t \in Table : duckManifest[t] \in Worker => pc[duckManifest[t]] # "idle"
  BY PhaseCases DEF IInv, StoreInv, OpenCanRollBack, OpenRuns, OneUnfinished, StagedByStarted
<1> USE DEF Typed, TypeOK, ProcessTypes, JournalTypeOK, JournalTypes
<1>1. CASE Quiet
  BY <1>0, <1>1 DEF Quiet, Open, Running, journalVars, sqliteData
<1>2. ASSUME wjob' = wjob, jobParent' = jobParent, UNCHANGED <<journalVars, duckManifest, sqliteData>>
      PROVE  CanRollBack(i)'
  BY <1>0, <1>2 DEF Open, journalVars, sqliteData
<1>3. ASSUME NEW k \in Job, Undoes(k) \/ Completes(k) PROVE FALSE
  <2>1. journalPhase' = [journalPhase EXCEPT ![k] = "finalized"] /\ (Open(k) \/ Committed(k))
    BY <1>3 DEF Undoes, Completes
  <2> QED BY <1>0, <2>1 DEF Open
<1>4. ASSUME NEW w \in Worker, WorkerStep(w) PROVE CanRollBack(i)'
  <2>0. wjob[w] \in Job /\ wjob' = wjob /\ jobParent' = jobParent
    BY <1>4, WorkerChanges
  <2>1. CASE Opens(wjob[w])
    <3>1. i = wjob[w]
      BY <1>0, <2>0, <2>1, PhaseCases DEF Opens, PrepareJournal, Open
    <3>2. /\ journalTarget'[i] = None
          /\ \A t \in TablesOf[i] : t \in Table => rollbackManifest'[i][t] = duckManifest[t]
      BY <2>1, <3>1 DEF Opens, PrepareJournal
    <3> QED BY <2>0, <2>1, <3>1, <3>2, TablesOfAssumption DEF Opens, sqliteData
  <2>2. CASE StartsCommit(wjob[w])
    <3>1. i = wjob[w]
      BY <1>0, <2>0, <2>2, PhaseCases DEF StartsCommit, Open
    <3> QED BY <1>0, <2>0, <2>2, <3>1 DEF StartsCommit, sqliteData
  <2>3. ASSUME NEW t \in Table, Publishes(w, t) PROVE CanRollBack(i)'
    <3>1. i = wjob[w]
      BY <1>0, <2>0, <2>3 DEF Publishes, Open, journalVars
    <3> QED BY <1>0, <2>0, <2>3, <3>1 DEF Publishes, sqliteData, journalVars
  <2>4. ~Switches(w)
    BY <1>0, <2>0 DEF Switches, CommitActivation, Open
  <2>5. ~Undoes(wjob[w]) /\ ~Completes(wjob[w])
    BY <1>0, <2>0 DEF Undoes, Completes, Open
  <2> QED BY <1>2, <1>4, <2>0, <2>1, <2>2, <2>3, <2>4, <2>5, WorkerChanges
<1>5. CASE Recovers
  BY <1>2, <1>3, <1>5, RecoveryChanges
<1> QED BY <1>1, <1>4, <1>5, StoreSteps

LEMMA CommittedIsServedNext ==
  ASSUME Typed, IInv, [Next]_vars, NoDuplicateNorRestoreError
  PROVE  CommittedIsServed'
<1> DEFINE Served(i) ==
      /\ journalTarget[i] # None /\ currentSourceRun = journalTarget[i]
      /\ duckManifest = activeVersion
      /\ \A t \in TablesOf[i] : duckManifest[t] = journalTarget[i]
<1> SUFFICES ASSUME NEW i \in Job, Committed(i)' PROVE Served(i)'
  BY DEF CommittedIsServed
<1>0. /\ Committed(i) => Served(i) /\ Unfinished(i)
      /\ \A k \in Job : Unfinished(i) /\ (Open(k) \/ Committed(k)) => k = i
  BY PhaseCases DEF IInv, StoreInv, CommittedIsServed, OneUnfinished
<1> USE DEF Typed, TypeOK, ProcessTypes, JournalTypeOK, JournalTypes
<1>1. CASE Quiet
  BY <1>0, <1>1 DEF Quiet, Committed, journalVars, sqliteData
<1>2. ASSUME UNCHANGED <<journalVars, duckManifest, sqliteData>>
      PROVE  Served(i)'
  BY <1>0, <1>2 DEF Committed, journalVars, sqliteData
<1>3. ASSUME NEW k \in Job, Undoes(k) \/ Completes(k) PROVE FALSE
  <2>1. journalPhase' = [journalPhase EXCEPT ![k] = "finalized"] /\ (Open(k) \/ Committed(k))
    BY <1>3 DEF Undoes, Completes
  <2> QED BY <1>0, <2>1 DEF Committed
<1>4. ASSUME NEW w \in Worker, WorkerStep(w) PROVE Served(i)'
  <2>0. wjob[w] \in Job
    BY <1>4, WorkerChanges
  <2>1. ~Opens(wjob[w])
    BY <1>0, <2>0 DEF Opens, PrepareJournal, Committed
  <2>2. ~StartsCommit(wjob[w])
    BY <1>0, <2>0 DEF StartsCommit, Committed, Open
  <2>3. \A t \in Table : ~Publishes(w, t)
    BY <1>0, <2>0 DEF Publishes, Committed, Open, journalVars
  <2>4. CASE Switches(w)
    <3>1. i = wjob[w]
      BY <1>0, <2>0, <2>4, PhaseCases DEF Switches, CommitActivation, Committed
    <3>2. /\ \A t \in TablesOf[i] : duckManifest[t] = w
          /\ \A t \in Table \ TablesOf[i] : duckManifest[t] = activeVersion[t]
      BY <2>4, <3>1, TablesOfAssumption DEF Switches, IInv, StoreInv, SwitchIsComplete, OpenCanRollBack
    <3>3. /\ journalTarget'[i] = w /\ currentSourceRun' = w /\ duckManifest' = duckManifest
          /\ activeVersion' = [t \in Table |-> IF t \in TablesOf[i] THEN w ELSE activeVersion[t]]
      BY <2>4, <3>1 DEF Switches, CommitActivation
    <3>4. duckManifest' = activeVersion'
      BY <3>2, <3>3
    <3> QED BY <3>2, <3>3, <3>4, NoneAssumption
  <2>5. ~Undoes(wjob[w]) /\ ~Completes(wjob[w])
    BY <1>0, <2>0 DEF Undoes, Completes, Committed, Open
  <2> QED BY <1>2, <1>4, <2>1, <2>2, <2>3, <2>4, <2>5, WorkerChanges
<1>5. CASE Recovers
  BY <1>2, <1>3, <1>5, RecoveryChanges
<1> QED BY <1>1, <1>4, <1>5, StoreSteps

\* While a worker is about to switch, it holds SQLite's write lock, and nothing
\* else can reach DuckDB.
LEMMA SwitchIsCompleteNext ==
  ASSUME Typed, IInv, [Next]_vars, NoDuplicateNorRestoreError
  PROVE  SwitchIsComplete'
<1> DEFINE Complete(w) == \A t \in TablesOf[wjob[w]] : duckManifest[t] = w
<1> SUFFICES ASSUME NEW w \in Worker, pc'[w] = "switch" PROVE Complete(w)'
  BY DEF SwitchIsComplete
<1>0. pc[w] = "switch" => Complete(w) /\ ~DbFree /\ wjob[w] \in Job
  BY ActivatingFacts, NoneAssumption DEF IInv, StoreInv, SwitchIsComplete, Activating, DbFree
<1> USE DEF Typed, TypeOK, ProcessTypes, JournalTypeOK, JournalTypes
<1>1. CASE Quiet
  BY <1>0, <1>1 DEF Quiet
<1>2. ASSUME NEW v \in Worker, WorkerStep(v), v # w PROVE Complete(w)'
  <2>1. pc[w] = "switch" /\ wjob' = wjob
    BY <1>2, WorkerStepPc
  <2>2. dbLock = w
    BY <2>1, ActivatingFacts DEF Activating
  <2>3. ~CommitActivation(v) /\ \A t \in Table : ~PublishReplica(v, t)
    BY <1>2, <2>2, ActivatingFacts DEF CommitActivation, PublishReplica, Activating
  <2>4. PrepareActivation(v) \/ StartCommit(v) \/ FinalizeActivation(v)
          => duckManifest' = duckManifest
    BY DEF PrepareActivation, StartCommit, FinalizeActivation
  <2>5. ~RollBack(v)
    BY <1>0, <2>1 DEF RollBack
  <2>6. duckManifest' = duckManifest
    BY <1>2, <2>3, <2>4, <2>5, WorkerStepStores
  <2> QED BY <1>0, <2>1, <2>6
<1>3. ASSUME WorkerStep(w) PROVE Complete(w)'
  <2>0. wjob[w] \in Job /\ wjob' = wjob
    BY <1>3, WorkerStepPc
  <2>1. CASE BeginActivation(w)
    BY <2>0, <2>1 DEF BeginActivation, Goto
  <2>2. ASSUME NEW t \in Table, PublishReplica(w, t) PROVE Complete(w)'
    <3>1. duckManifest' = [duckManifest EXCEPT ![t] = w] /\ \A u \in TablesOf[wjob[w]] \ {t} : duckManifest[u] = w
      BY <2>2 DEF PublishReplica, Goto
    <3>2. TablesOf[wjob[w]] \subseteq Table
      BY <2>0, TablesOfAssumption
    <3> QED BY <2>0, <3>1, <3>2
  <2>3. BeginActivation(w) \/ \E t \in Table : PublishReplica(w, t)
    BY <1>3 DEF WorkerStep, ReadJob, ClaimGranted, ClaimDeferred, ClaimRefused, BoundaryDenied,
       RebuildPlan, PrepareActivation, PrepareFails, StartCommit, StartFails, BeginFails, ActivationFails, CommitActivation, FinalizeActivation,
       FinalizeFails, ReadOutcome, RollBack, RollBackFenced, RollBackRaises, RollBackDeferred,
       InspectJournal, UndoReplica, UndoFails, SettleUnfenced, SettleRaises, Release, Exit, Goto
  <2> QED BY <2>1, <2>2, <2>3
<1>4. CASE Recovers
  <2>1. pc[w] = "switch"
    BY <1>4 DEF Recovers, Recover, ProcessExit, Goto, workerVars
  <2> QED BY <1>0, <1>4, <2>1, RecoveryChanges
<1> QED BY <1>1, <1>2, <1>3, <1>4, StoreSteps

LEMMA StagedByStartedNext ==
  ASSUME Typed, IInv, [Next]_vars, NoDuplicateNorRestoreError
  PROVE  StagedByStarted'
<1> SUFFICES ASSUME NEW t \in Table, NEW w \in Worker, duckManifest'[t] = w PROVE pc'[w] # "idle"
  BY DEF StagedByStarted
<1>0. duckManifest[t] = w \/ activeVersion[t] = w => pc[w] # "idle"
  BY DEF IInv, Ownership, VersionsSucceeded, IsVersion, StoreInv, StagedByStarted
<1>1. pc[w] # "idle" => pc'[w] # "idle"
  BY StartedStay
<1>2. \/ duckManifest' \in {duckManifest, activeVersion}
      \/ \E v \in Worker, u \in Table : pc[v] # "idle" /\ duckManifest' = [duckManifest EXCEPT ![u] = v]
  <2>1. Quiet => duckManifest' \in {duckManifest, activeVersion}
    BY DEF Quiet
  <2>2. ASSUME NEW v \in Worker, WorkerStep(v)
        PROVE  \/ duckManifest' \in {duckManifest, activeVersion}
               \/ \E u \in Table : pc[v] # "idle" /\ duckManifest' = [duckManifest EXCEPT ![u] = v]
    BY <2>2, WorkerChanges DEF Opens, StartsCommit, Publishes, Switches, CommitActivation, Undoes, Completes
  <2>3. Recovers => duckManifest' \in {duckManifest, activeVersion}
    BY RecoveryChanges DEF Undoes, Completes
  <2> QED BY <2>1, <2>2, <2>3, StoreSteps
<1> QED BY <1>0, <1>1, <1>2 DEF Typed, TypeOK, ProcessTypes, JournalTypeOK, JournalTypes

LEMMA CatalogAgreesNext ==
  ASSUME Typed, IInv, [Next]_vars, NoDuplicateNorRestoreError
  PROVE  CatalogAgreesWhenSettled'
<1> SUFFICES ASSUME \A i \in Job : journalPhase'[i] \notin UnfinishedPhases
             PROVE  duckManifest' = activeVersion'
  BY DEF CatalogAgreesWhenSettled, Unfinished
<1>0. (\A i \in Job : ~Unfinished(i)) => duckManifest = activeVersion
  BY DEF IInv, StoreInv, CatalogAgreesWhenSettled
<1>1. CASE UNCHANGED <<journalVars, duckManifest, sqliteData>>
  BY <1>0, <1>1 DEF Unfinished, journalVars, sqliteData
<1>2. CASE Quiet
  BY <1>1, <1>2 DEF Quiet, sqliteData
<1>3. ASSUME NEW k \in Job, Undoes(k) \/ Completes(k) PROVE duckManifest' = activeVersion'
  BY <1>3 DEF Undoes, Completes, sqliteData
<1>4. ASSUME NEW w \in Worker, WorkerStep(w) PROVE duckManifest' = activeVersion'
  <2>0. wjob[w] \in Job
    BY <1>4, WorkerChanges
  <2> USE DEF Typed, TypeOK, ProcessTypes, JournalTypeOK, JournalTypes, UnfinishedPhases
  <2>1. ~Opens(wjob[w])
    BY <2>0 DEF Opens, PrepareJournal
  <2>2. ~StartsCommit(wjob[w]) /\ ~Switches(w)
    BY <2>0 DEF StartsCommit, Switches, CommitActivation
  <2>3. \A t \in Table : ~Publishes(w, t)
    BY <2>0 DEF Publishes, Open, journalVars
  <2>4. Undoes(wjob[w]) \/ Completes(wjob[w]) => duckManifest' = activeVersion'
    BY DEF Undoes, Completes, sqliteData
  <2> QED BY <1>1, <1>4, <2>1, <2>2, <2>3, <2>4, WorkerChanges
<1>5. CASE Recovers
  BY <1>1, <1>3, <1>5, RecoveryChanges
<1> QED BY <1>2, <1>4, <1>5, StoreSteps

\* A job has succeeded exactly when its journal says so.
LEMMA SuccessIsActivationNext ==
  ASSUME Typed, IInv, [Next]_vars, NoDuplicateNorRestoreError
  PROVE  SuccessIsActivation'
<1> DEFINE Done(i) ==
      \/ journalPhase[i] = "source_selection_committed"
      \/ journalPhase[i] = "finalized" /\ journalOutcome[i] = "committed"
<1> SUFFICES ASSUME NEW i \in Job PROVE jobStatus'[i] = "succeeded" <=> Done(i)'
  BY DEF SuccessIsActivation
<1>0. jobStatus[i] = "succeeded" <=> Done(i)
  BY DEF IInv, StoreInv, SuccessIsActivation
<1>01. Open(i) => Running(i)
  BY DEF IInv, StoreInv, OpenRuns
<1> USE DEF Typed, TypeOK, ProcessTypes, JournalTypeOK, JournalTypes
<1>1. CASE Quiet
  BY <1>0, <1>1 DEF Quiet, journalVars
<1>2. ASSUME NEW k \in Job, Undoes(k) \/ Completes(k) PROVE Done(i)' <=> Done(i)
  BY <1>2 DEF Undoes, Completes, Open, Committed
<1>3. ASSUME NEW w \in Worker, WorkerStep(w), i # wjob[w] PROVE jobStatus'[i] = "succeeded" <=> Done(i)'
  BY <1>0, <1>3, WorkerStepEnds, OtherJournals
<1>4. ASSUME NEW w \in Worker, WorkerStep(w), i = wjob[w] PROVE jobStatus'[i] = "succeeded" <=> Done(i)'
  <2>1. CASE CommitActivation(w)
    BY <1>4, <2>1 DEF CommitActivation, TransitionJob, JobTypeOK
  <2>2. CASE ~CommitActivation(w) /\ ~RollBack(w)
    <3>1. jobStatus'[i] = "succeeded" <=> jobStatus[i] = "succeeded"
      <4>1. jobStatus'[i] = "succeeded" => jobStatus[i] = "succeeded"
        BY <1>4, <2>2, WorkerStepEnds
      <4>2. jobStatus[i] = "succeeded" => jobStatus'[i] = "succeeded"
        BY <1>4, EndedJobsStay DEF Terminal, TerminalStatuses
      <4> QED BY <4>1, <4>2
    <3>2. CASE UNCHANGED <<journalVars, duckManifest, sqliteData>>
      BY <1>0, <3>1, <3>2 DEF journalVars
    <3>3. CASE Opens(i)
      BY <1>0, <3>1, <3>3 DEF Opens, PrepareJournal, Running
    <3>4. CASE StartsCommit(i)
      BY <1>0, <3>1, <3>4 DEF StartsCommit, Running
    <3>5. ASSUME NEW t \in Table, Publishes(w, t) PROVE jobStatus'[i] = "succeeded" <=> Done(i)'
      BY <1>0, <3>5 DEF Publishes, journalVars
    <3>6. CASE Undoes(i) \/ Completes(i)
      BY <1>0, <1>2, <3>1, <3>6
    <3>7. \/ UNCHANGED <<journalVars, duckManifest, sqliteData>>
          \/ Opens(wjob[w]) \/ StartsCommit(wjob[w]) \/ (\E t \in Table : Publishes(w, t))
          \/ Undoes(wjob[w]) \/ Completes(wjob[w])
      BY <1>4, <2>2, WorkerChanges DEF Switches
    <3> QED BY <1>2, <1>4, <3>2, <3>3, <3>4, <3>5, <3>6, <3>7
         DEF Opens, StartsCommit, PrepareJournal, Undoes, Completes, Open, Committed
  <2>4. CASE RollBack(w)
    <3>1. jobStatus'[i] \in {"failed", "canceled"}
      BY <1>4, <2>4, RollBackEnds DEF JobTypeOK
    <3>2. jobStatus[i] # "succeeded"
      BY <1>4, <2>4, RollBackStores DEF Running
    <3>3. ~Done(i)'
      BY <1>0, <1>4, <2>4, <3>2, RollBackStores DEF Finalize, journalVars
    <3> QED BY <3>1, <3>3
  <2> QED BY <2>1, <2>2, <2>4
<1>5. CASE Recovers
  <2>1. jobStatus'[i] = "succeeded" <=> jobStatus[i] = "succeeded"
    <3>1. ASSUME NEW u \in Job \union {None}, Recover(u)
          PROVE  jobStatus'[i] = "succeeded" <=> jobStatus[i] = "succeeded"
      BY <3>1, RecoverEnds DEF Recover, LiveStatuses
    <3>2. ASSUME NEW w \in Worker, NEW u \in Job \union {None}, ProcessExit(w, u)
          PROVE  jobStatus'[i] = "succeeded" <=> jobStatus[i] = "succeeded"
      BY <3>2, ExitEnds
    <3> QED BY <1>5, <3>1, <3>2 DEF Recovers
  <2>2. Done(i)' <=> Done(i)
    BY <1>2, <1>5, RecoveryChanges DEF journalVars
  <2> QED BY <1>0, <2>1, <2>2
<1> QED BY <1>1, <1>3, <1>4, <1>5, StoreSteps

-----------------------------------------------------------------------------
(* The invariant                                                            *)

LEMMA IInvInit == Init => IInv
<1> SUFFICES ASSUME Init PROVE IInv
  OBVIOUS
<1> USE NoneAssumption DEF Init
<1>1. Ownership
  BY OwnershipInit
<1>2. LeaseInv
  BY DEF LeaseInv, OneWorkerPerJob, HolderClaimed, ActiveEpoch, RunningHasLease, LiveRunningLeased,
     SucceededHere, LeasedRuns, UnfencedIsHarmless, Live, Ended, Leased, Running, Activating
<1>3. StoreInv
  BY DEF StoreInv, OneUnfinished, OpenRuns, OpenCanRollBack, CommittedIsServed, SwitchIsComplete,
     StagedByStarted, CatalogAgreesWhenSettled, SuccessIsActivation, Unfinished, UnfinishedPhases,
     Open, Committed
<1> QED BY <1>1, <1>2, <1>3 DEF IInv

LEMMA IInvNext ==
  ASSUME Typed, IInv, [Next]_vars, NoDuplicateNorRestoreError
  PROVE  IInv'
<1>1. Ownership'
  BY OwnershipNext DEF IInv
<1>2. LeaseInv'
  BY OneWorkerPerJobNext, HolderNext, RunningHasLeaseNext, LiveRunningLeasedNext,
     SucceededHereNext, LeasedRunsNext, UnfencedIsHarmlessNext DEF IInv, LeaseInv
<1>3. StoreInv'
  BY OneUnfinishedNext, OpenRunsNext, OpenCanRollBackNext, CommittedIsServedNext,
     SwitchIsCompleteNext, StagedByStartedNext, CatalogAgreesNext, SuccessIsActivationNext
     DEF StoreInv
<1> QED BY <1>1, <1>2, <1>3 DEF IInv

\* Without a second worker for a job and without an error of the DuckDB rollback,
\* every reachable state satisfies the inductive invariant, however processes
\* crash, cancel and recover.
THEOREM InvariantHolds ==
  ASSUME NoDuplicateNorRestoreError
  PROVE  Spec => [](Typed /\ IInv)
<1>1. Init => Typed /\ IInv
  BY TypedInit, IInvInit
<1>2. Typed /\ IInv /\ [Next]_vars => (Typed /\ IInv)'
  BY TypedNext, IInvNext
<1> QED BY <1>1, <1>2, PTL DEF Spec

\* Once every activation is settled, DuckDB serves the versions SQLite names.
THEOREM CatalogAgrees ==
  ASSUME NoDuplicateNorRestoreError
  PROVE  Spec => []CatalogAgreesWhenSettled
<1>1. Typed /\ IInv => CatalogAgreesWhenSettled
  BY DEF IInv, StoreInv
<1> QED BY <1>1, InvariantHolds, PTL

\* A job has succeeded exactly when its activation was committed.
THEOREM SuccessMeansActivation ==
  ASSUME NoDuplicateNorRestoreError
  PROVE  Spec => []SuccessIsActivation
<1>1. Typed /\ IInv => SuccessIsActivation
  BY DEF IInv, StoreInv
<1> QED BY <1>1, InvariantHolds, PTL

\* A reader finds every table at its previous version or at one the unfinished
\* import staged, and the journal can restore SQLite's versions until the switch.
THEOREM ReadersSeePreviousOrTarget ==
  ASSUME NoDuplicateNorRestoreError
  PROVE  Spec => []PreviousOrTarget
<1>1. ASSUME Typed, IInv PROVE PreviousOrTarget
  <2> SUFFICES ASSUME NEW j \in Job, Unfinished(j), NEW t \in Table
               PROVE  /\ \/ duckManifest[t] = activeVersion[t]
                         \/ /\ t \in TablesOf[j]
                            /\ duckManifest[t] \in Worker /\ wjob[duckManifest[t]] = j
                      /\ t \in TablesOf[j] /\ ~Switched(j) => rollbackManifest[j][t] = activeVersion[t]
    BY DEF PreviousOrTarget
  <2>1. CASE Open(j)
    BY <1>1, <2>1 DEF IInv, StoreInv, OpenCanRollBack
  <2>2. CASE Committed(j)
    BY <1>1, <2>2 DEF IInv, StoreInv, CommittedIsServed, Switched
  <2> QED BY <2>1, <2>2, PhaseCases
<1>2. Typed /\ IInv => PreviousOrTarget
  BY <1>1
<1> QED BY <1>2, InvariantHolds, PTL

\* Outside the activation transaction, reconciliation can always prove what
\* happened to an unfinished journal.
THEOREM RecoveryProves ==
  ASSUME NoDuplicateNorRestoreError
  PROVE  Spec => []RecoveryNeverBlocked
<1>1. ASSUME Typed, IInv PROVE RecoveryNeverBlocked
  <2> SUFFICES ASSUME NEW j \in Job, Unfinished(j) PROVE CommitProven(j) \/ RollbackProven(j)
    BY DEF RecoveryNeverBlocked
  <2> QED BY <1>1, PhaseCases, OpenRestores, CommittedProven
<1>2. Typed /\ IInv => RecoveryNeverBlocked
  BY <1>1
<1> QED BY <1>2, InvariantHolds, PTL

-----------------------------------------------------------------------------
(* Workers that lost their lease                                            *)

\* A process that has not claimed yet, or has ended, remembers no epoch.
Forgets == \A w \in Worker : pc[w] \in {"idle", "launched", "exited"} => wepoch[w] = 0

LEMMA ForgetsNext ==
  ASSUME Typed, Forgets, [Next]_vars
  PROVE  Forgets'
<1> USE DEF Forgets, Typed, TypeOK, ProcessTypes
<1>1. ASSUME NEW j \in Job, Owner(j) PROVE Forgets'
  BY <1>1 DEF Owner, CreateJob, CancelJob, ResumeJob, workerVars
<1>2. ASSUME NEW w \in Worker, NEW j \in Job, Launch(w, j) PROVE Forgets'
  BY <1>2 DEF Launch, Goto
<1>3. ASSUME NEW w \in Worker, WorkerStep(w) PROVE Forgets'
  <2>1. CASE ReadJob(w)
    BY <2>1 DEF ReadJob, Goto
  <2>2. CASE ClaimDeferred(w) \/ Release(w)
    BY <2>2 DEF ClaimDeferred, Release, Exit, Goto
  <2>3. ASSUME pc'[w] \notin {"idle", "launched", "exited"},
               \A v \in Worker \ {w} : pc'[v] = pc[v] /\ wepoch'[v] = wepoch[v]
        PROVE  Forgets'
    BY <2>3
  <2>4. CASE ClaimGranted(w) \/ ClaimRefused(w)
    BY <2>3, <2>4 DEF ClaimGranted, ClaimRefused, Goto
  <2>5. CASE UNCHANGED <<leaseVars, wepoch>> /\ ~ReadJob(w) /\ ~ClaimDeferred(w) /\ ~Release(w)
    <3>1. pc'[w] \notin {"idle", "launched", "exited"}
      BY <1>3, <2>5
         DEF WorkerStep, ClaimGranted, ClaimRefused, BoundaryDenied, RebuildPlan,
             PrepareActivation, PrepareFails, StartCommit, StartFails,
             BeginActivation, BeginFails, PublishReplica, ActivationFails, CommitActivation,
             FinalizeActivation, FinalizeFails, ReadOutcome, RollBack, RollBackFenced,
             RollBackRaises, RollBackDeferred, InspectJournal, UndoReplica, UndoFails,
             SettleUnfenced, SettleRaises, Goto
    <3>2. \A v \in Worker \ {w} : pc'[v] = pc[v]
      BY <1>3, WorkerStepPc
    <3> QED BY <2>3, <2>5, <3>1, <3>2
  <2> QED BY <1>3, <2>1, <2>2, <2>4, <2>5, WorkerStepLease
<1>4. ASSUME NEW w \in Worker, WorkerDies(w) PROVE Forgets'
  BY <1>4 DEF WorkerDies, Crash, RollBackCrash, Exit, Goto
<1>5. CASE Recovery \/ (\E u \in Job : RecoveryCrash(u)) \/ UNCHANGED vars
  BY <1>5 DEF Recovery, Recover, ProcessExit, RecoveryCrash, vars, Goto, workerVars
<1> QED BY <1>1, <1>2, <1>3, <1>4, <1>5 DEF Next

\* A worker that lost its lease to recovery or to another owner changes neither
\* the stores nor any journal.
THEOREM FencedWorkersStayInert ==
  ASSUME NoDuplicateNorRestoreError
  PROVE  Spec => FencedWorkersAreInert
<1> DEFINE Inert == \A w \in Worker : wepoch[w] > 0 /\ ~Leased(w) /\ pc'[w] # pc[w] =>
                      UNCHANGED <<sqliteData, duckManifest, journalVars>>
<1>1. Init => Forgets
  BY DEF Init, Forgets
<1>2. Typed /\ Forgets /\ [Next]_vars => Forgets'
  BY ForgetsNext
<1>3. ASSUME Typed, IInv, Forgets, [Next]_vars PROVE Inert
  <2> SUFFICES ASSUME NEW w \in Worker, wepoch[w] > 0, ~Leased(w), pc'[w] # pc[w]
               PROVE  UNCHANGED <<sqliteData, duckManifest, journalVars>>
    OBVIOUS
  <2> USE <1>3 DEF Typed, TypeOK, ProcessTypes
  <2>1. CASE WorkerStep(w)
    <3>1. ~PrepareActivation(w) /\ ~StartCommit(w) /\ ~RollBack(w)
      BY DEF PrepareActivation, StartCommit, RollBack
    <3>2. ~CommitActivation(w) /\ \A t \in Table : ~PublishReplica(w, t)
      BY ActivatingFacts DEF CommitActivation, PublishReplica, Activating
    <3>3. FinalizeActivation(w) => UNCHANGED <<sqliteData, duckManifest, journalVars>>
      <4> SUFFICES ASSUME FinalizeActivation(w) PROVE UNCHANGED journalVars
        BY DEF FinalizeActivation
      <4>1. ~Committed(wjob[w])
        BY DEF FinalizeActivation, IInv, LeaseInv, UnfencedIsHarmless
      <4> QED BY <2>1, <4>1, StoreStepJob
    <3> QED BY <2>1, <3>1, <3>2, <3>3, WorkerStepStores
  <2>2. CASE WorkerDies(w)
    BY <2>2 DEF WorkerDies, Crash, RollBackCrash
  <2>3. ASSUME NEW j \in Job, Launch(w, j) PROVE FALSE
    BY <2>3 DEF Launch, Forgets
  <2>4. ASSUME NEW u \in Job \union {None}, ProcessExit(w, u) PROVE FALSE
    BY <2>4 DEF ProcessExit, Forgets
  <2>5. ASSUME NEW v \in Worker \ {w}, WorkerStep(v) PROVE FALSE
    BY <2>5, WorkerStepPc
  <2>6. ASSUME NEW v \in Worker \ {w},
               WorkerDies(v) \/ (\E j \in Job : Launch(v, j)) \/ \E u \in Job \union {None} : ProcessExit(v, u)
        PROVE  FALSE
    BY <2>6 DEF WorkerDies, Crash, RollBackCrash, Exit, Launch, ProcessExit, Goto
  <2>7. ~UNCHANGED workerVars
    BY DEF workerVars
  <2> QED
    BY <2>1, <2>2, <2>3, <2>4, <2>5, <2>6, <2>7
       DEF Next, Recovery, Recover, RecoveryCrash, Owner, CreateJob, CancelJob, ResumeJob, vars
<1>4. Typed /\ IInv /\ Forgets /\ [Next]_vars => [Inert]_vars
  BY <1>3
<1>5. Spec => [](Typed /\ IInv)
  BY InvariantHolds
<1> QED BY <1>1, <1>2, <1>4, <1>5, PTL DEF Spec, FencedWorkersAreInert

-----------------------------------------------------------------------------
(* The refinement                                                           *)

\* What DuckDB will read once reconciled is what SQLite names already.
LEMMA ReadableIsActive == Typed /\ IInv => ReadableVersion = activeVersion
<1> SUFFICES ASSUME Typed, IInv, NEW t \in Table
             PROVE  (IF \E j \in Job : RolledBackOnRecovery(j, t)
                     THEN rollbackManifest[CHOOSE j \in Job : RolledBackOnRecovery(j, t)][t]
                     ELSE duckManifest[t]) = activeVersion[t]
  BY DEF ReadableVersion, Typed, TypeOK, ProcessTypes, JournalTypeOK, JournalTypes
<1>1. ASSUME NEW j \in Job, RolledBackOnRecovery(j, t) PROVE rollbackManifest[j][t] = activeVersion[t]
  <2>1. ~Committed(j)
    BY <1>1 DEF RolledBackOnRecovery, IInv, StoreInv, CommittedIsServed, Switched
  <2>2. Open(j) /\ t \in TablesOf[j]
    BY <1>1, <2>1, PhaseCases DEF RolledBackOnRecovery
  <2> QED BY <2>2 DEF IInv, StoreInv, OpenCanRollBack
<1>2. ASSUME \A j \in Job : ~RolledBackOnRecovery(j, t) PROVE duckManifest[t] = activeVersion[t]
  <2>1. CASE \A j \in Job : ~Unfinished(j)
    BY <2>1 DEF IInv, StoreInv, CatalogAgreesWhenSettled
  <2>2. ASSUME NEW j \in Job, Unfinished(j) PROVE duckManifest[t] = activeVersion[t]
    <3>1. CASE Committed(j)
      BY <3>1, CommittedProven
    <3>2. CASE Open(j)
      <4>1. ~Switched(j)
        BY <3>2, OpenRestores DEF RollbackProven
      <4>2. t \notin TablesOf[j]
        BY <1>2, <2>2, <4>1 DEF RolledBackOnRecovery
      <4> QED BY <3>2, <4>2 DEF IInv, StoreInv, OpenCanRollBack
    <3> QED BY <2>2, <3>1, <3>2, PhaseCases
  <2> QED BY <2>1, <2>2
<1> QED BY <1>1, <1>2

LEMMA ReadableIsActiveNext == (Typed /\ IInv => ReadableVersion = activeVersion)'
BY ReadableIsActive, PTL

\* No version that is served, and no current source run, is of a job that is open.
LEMMA FreshVersion ==
  ASSUME Typed, IInv, NEW w \in Worker, pc[w] = "switch"
  PROVE  w \notin {None, currentSourceRun} \union {activeVersion[t] : t \in Table}
BY ActivatingFacts, NoneAssumption
   DEF IInv, Ownership, VersionsSucceeded, IsVersion, Activating

\* How one job's outcome may change.
OutcomeOf(s) == IF s \in LiveStatuses THEN "open" ELSE s

LEMMA OutcomeOfJob == ASSUME NEW j \in Job PROVE JobOutcome[j] = OutcomeOf(jobStatus[j])
BY DEF JobOutcome, OutcomeOf

\* A step of one job that does not switch is abstractly a submission, an end
\* without effect, or nothing.
LEMMA OneJobStep ==
  ASSUME Typed, IInv, IInv', Typed', NEW j \in Job, NEW s,
         jobStatus' = [jobStatus EXCEPT ![j] = s],
         \/ OutcomeOf(s) = OutcomeOf(jobStatus[j])
         \/ jobStatus[j] = "absent" /\ s = "queued"
         \/ jobStatus[j] \in LiveStatuses /\ s \in {"failed", "canceled"},
         UNCHANGED sqliteData
  PROVE  [Atomic!Next]_(Atomic!vars)
<1>1. UNCHANGED <<currentSourceRun, ReadableVersion>>
  BY ReadableIsActive, ReadableIsActiveNext DEF sqliteData
<1>2. JobOutcome' = [JobOutcome EXCEPT ![j] = OutcomeOf(s)]
  BY DEF JobOutcome, OutcomeOf, Typed, TypeOK, ProcessTypes, JobTypeOK
<1>3. CASE OutcomeOf(s) = OutcomeOf(jobStatus[j])
  BY <1>1, <1>2, <1>3, OutcomeOfJob DEF Atomic!vars, JobOutcome
<1>4. CASE jobStatus[j] = "absent" /\ s = "queued"
  BY <1>1, <1>2, <1>4, OutcomeOfJob DEF Atomic!Next, Atomic!Submit, OutcomeOf, LiveStatuses
<1>5. CASE jobStatus[j] \in LiveStatuses /\ s \in {"failed", "canceled"}
  <2>1. JobOutcome[j] = "open" /\ OutcomeOf(s) = s
    BY <1>5, OutcomeOfJob DEF OutcomeOf, LiveStatuses
  <2> QED BY <1>1, <1>2, <1>5, <2>1 DEF Atomic!Next, Atomic!Abandon
<1> QED BY <1>3, <1>4, <1>5

LEMMA AtomicInit == Init => Atomic!Init
<1> SUFFICES ASSUME Init PROVE Atomic!Init
  OBVIOUS
<1>1. ReadableVersion = activeVersion
  BY TypedInit, IInvInit, ReadableIsActive
<1>2. JobOutcome = [j \in Job |-> "absent"]
  BY DEF Init, JobOutcome, LiveStatuses
<1> QED BY <1>1, <1>2 DEF Init, Atomic!Init

\* The activation's commit is the abstract activation.
LEMMA AtomicSwitch ==
  ASSUME Typed, IInv, Typed', IInv', NEW w \in Worker, CommitActivation(w)
  PROVE  Atomic!Next
<1>1. wjob[w] \in Job /\ jobStatus[wjob[w]] = "running" /\ pc[w] = "switch"
  BY ActivatingFacts DEF CommitActivation, Activating
<1>2. /\ JobOutcome[wjob[w]] = "open"
      /\ JobOutcome' = [JobOutcome EXCEPT ![wjob[w]] = "succeeded"]
  BY <1>1, OutcomeOfJob
     DEF CommitActivation, TransitionJob, JobOutcome, OutcomeOf, LiveStatuses, Typed, TypeOK, ProcessTypes, JobTypeOK
<1>3. ReadableVersion = activeVersion /\ ReadableVersion' = activeVersion'
  BY ReadableIsActive, ReadableIsActiveNext
<1>4. w \notin {None, currentSourceRun} \union {ReadableVersion[t] : t \in Table}
  BY <1>1, <1>3, FreshVersion
<1>5. /\ currentSourceRun' = w
      /\ ReadableVersion' = [t \in Table |-> IF t \in TablesOf[wjob[w]] THEN w ELSE ReadableVersion[t]]
  BY <1>3 DEF CommitActivation
<1> QED BY <1>1, <1>2, <1>4, <1>5 DEF Atomic!Next, Atomic!Activate, Run

\* A step that leaves job statuses and SQLite's versions alone is invisible.
LEMMA AtomicStutter ==
  ASSUME Typed, IInv, Typed', IInv', UNCHANGED <<jobStatus, sqliteData>>
  PROVE  UNCHANGED Atomic!vars
BY ReadableIsActive, ReadableIsActiveNext DEF Atomic!vars, JobOutcome, sqliteData

\* transition_job ends a job only from a status that is not terminal.
LEMMA EndsFromLive ==
  ASSUME JobTypeOK, NEW j \in Job, NEW s \in {"failed", "canceled"}, NEW p, TransitionJob(j, s, p)
  PROVE  s = jobStatus[j] \/ jobStatus[j] \in LiveStatuses
BY DEF JobTypeOK, TransitionJob, MayTransition, AllowedTransitions, AllStatuses, LiveStatuses,
       TerminalStatuses

LEMMA AtomicOwner ==
  ASSUME Typed, IInv, Typed', IInv', NEW j \in Job, Owner(j)
  PROVE  [Atomic!Next]_(Atomic!vars)
<1>1. UNCHANGED sqliteData
  BY DEF Owner, CreateJob, CancelJob, ResumeJob
<1>2. CASE CreateJob(j)
  BY <1>1, <1>2, OneJobStep DEF CreateJob, CreateJobRow
<1>3. CASE CancelJob(j)
  <2>1. /\ jobStatus[j] \in LiveStatuses
        /\ \E s \in {"cancel_requested", "canceled"} : jobStatus' = [jobStatus EXCEPT ![j] = s]
    BY <1>3 DEF CancelJob, RequestJobCancel, TransitionJob
  <2>2. OutcomeOf("cancel_requested") = OutcomeOf(jobStatus[j])
    BY <2>1 DEF OutcomeOf, LiveStatuses
  <2> QED BY <1>1, <2>1, <2>2, OneJobStep
<1>4. CASE ResumeJob(j)
  <2>1. jobStatus' = [jobStatus EXCEPT ![j] = "queued"] /\ OutcomeOf("queued") = OutcomeOf(jobStatus[j])
    BY <1>4 DEF ResumeJob, TransitionJob, OutcomeOf, LiveStatuses
  <2> QED BY <1>1, <2>1, OneJobStep
<1> QED BY <1>2, <1>3, <1>4 DEF Owner

LEMMA AtomicWorkerStep ==
  ASSUME Typed, IInv, Typed', IInv', [Next]_vars, NoDuplicateNorRestoreError,
         NEW w \in Worker, WorkerStep(w)
  PROVE  [Atomic!Next]_(Atomic!vars)
<1> DEFINE j == wjob[w]
<1>0. j \in Job /\ (CommitActivation(w) \/ UNCHANGED sqliteData)
  BY WorkerChanges, WorkerStepStores
     DEF PrepareActivation, StartCommit, PublishReplica, FinalizeActivation,
         RollBack
<1>1. CASE CommitActivation(w)
  BY <1>1, AtomicSwitch
<1>2. CASE UNCHANGED <<jobStatus, sqliteData>>
  BY <1>2, AtomicStutter
<1>3. CASE ClaimGranted(w)
  <2>1. jobStatus' = [jobStatus EXCEPT ![j] = "running"] /\ OutcomeOf("running") = OutcomeOf(jobStatus[j])
    BY <1>3 DEF ClaimGranted, TransitionJob, OutcomeOf, LiveStatuses
  <2>2. UNCHANGED sqliteData
    BY <1>3 DEF ClaimGranted
  <2> QED BY <1>0, <2>1, <2>2, OneJobStep
<1>4. ASSUME NEW s \in {"failed", "canceled"}, jobStatus' = [jobStatus EXCEPT ![j] = s],
             s = jobStatus[j] \/ jobStatus[j] \in LiveStatuses, UNCHANGED sqliteData
      PROVE  [Atomic!Next]_(Atomic!vars)
  BY <1>0, <1>4, OneJobStep
<1>6. CASE RollBack(w)
  <2>1. jobStatus[j] \in LiveStatuses /\ UNCHANGED sqliteData
    BY <1>6, RollBackStores DEF Running, LiveStatuses
  <2> QED BY <1>4, <1>6, <2>1, RollBackEnds
<1>7. CASE SettleUnfenced(w)
  <2>1. PICK s \in {"failed", "canceled", jobStatus[j]} : jobStatus' = [jobStatus EXCEPT ![j] = s]
    BY <1>7, SettleEnds
  <2>2. UNCHANGED sqliteData
    BY <1>7 DEF SettleUnfenced
  <2>3. CASE s = jobStatus[j]
    BY <1>0, <2>1, <2>2, <2>3, AtomicStutter DEF Typed, TypeOK, ProcessTypes, JobTypeOK
  <2>4. CASE s # jobStatus[j]
    <3>1. s = HandlerStatus(w, FALSE) /\ TransitionJob(j, s, jobProgress[j])
      <4>1. TransitionJob(j, HandlerStatus(w, FALSE), jobProgress[j])
        BY <1>7, SettleEnds DEF SettleUnfenced, SettleJob
      <4>2. jobStatus'[j] = HandlerStatus(w, FALSE) /\ jobStatus'[j] = s
        BY <1>0, <2>1, <4>1 DEF TransitionJob, Typed, TypeOK, ProcessTypes, JobTypeOK
      <4> QED BY <4>1, <4>2
    <3>2. jobStatus[j] \in LiveStatuses
      BY <1>0, <2>1, <2>4, <3>1, EndsFromLive DEF Typed, TypeOK, ProcessTypes
    <3> QED BY <1>4, <2>1, <2>2, <2>4, <3>2
  <2> QED BY <2>3, <2>4
<1> QED BY <1>0, <1>1, <1>2, <1>3, <1>6, <1>7, WorkerStepJob

LEMMA AtomicRecovers ==
  ASSUME Typed, IInv, Typed', IInv', Recovers
  PROVE  [Atomic!Next]_(Atomic!vars)
<1>1. UNCHANGED <<currentSourceRun, ReadableVersion>> /\ UNCHANGED sqliteData
  BY RecoveryChanges, ReadableIsActive, ReadableIsActiveNext DEF sqliteData
<1>2. CASE UNCHANGED <<journalVars, duckManifest, jobStatus>>
  BY <1>1, <1>2, AtomicStutter
<1>3. ASSUME NEW scope \in SUBSET Job, NEW u \in Job \union {None},
             ToReconcile(scope, u), Reconcile(u), RecoverJobs(scope, u)
      PROVE  [Atomic!Next]_(Atomic!vars)
  <2> DEFINE ended == {j \in Job : jobStatus[j] \in LiveStatuses /\ jobStatus'[j] = "canceled"}
  <2>1. \A j \in Job : \/ jobStatus'[j] = jobStatus[j]
                       \/ jobStatus[j] \in LiveStatuses /\ jobStatus'[j] \in {"canceled", "needs_attention"}
    BY <1>3, RecoverEnds
  <2>2. JobOutcome' = [j \in Job |-> IF j \in ended THEN "canceled" ELSE JobOutcome[j]]
    BY <2>1 DEF JobOutcome, LiveStatuses
  <2>3. \A j \in ended : JobOutcome[j] = "open"
    BY DEF JobOutcome
  <2>4. PICK jobs \in SUBSET Job : jobs = ended
    OBVIOUS
  <2>5. Atomic!AbandonAll(jobs)
    BY <1>1, <2>2, <2>3, <2>4 DEF Atomic!AbandonAll
  <2> QED BY <2>5 DEF Atomic!Next
<1> QED BY <1>2, <1>3, RecoversScope

LEMMA AtomicNext ==
  ASSUME Typed, IInv, Typed', IInv', [Next]_vars, NoDuplicateNorRestoreError
  PROVE  [Atomic!Next]_(Atomic!vars)
<1>1. ASSUME NEW w \in Worker, WorkerDies(w) \/ \E j \in Job : Launch(w, j)
      PROVE  UNCHANGED <<jobStatus, sqliteData>>
  BY <1>1 DEF WorkerDies, Crash, RollBackCrash, Launch, jobVars
<1>2. (\E u \in Job : RecoveryCrash(u)) \/ UNCHANGED vars => UNCHANGED <<jobStatus, sqliteData>>
  BY DEF RecoveryCrash, vars, jobVars
<1> QED
  BY <1>1, <1>2, AtomicStutter, AtomicOwner, AtomicWorkerStep, AtomicRecovers
     DEF Next, Recovery, Recovers

\* However workers interleave, crash, are canceled and recovered, an import is
\* atomic over the two stores: it happens at one step or leaves no trace.
THEOREM ImportsAreAtomic ==
  ASSUME NoDuplicateNorRestoreError
  PROVE  Spec => ImportIsAtomic
<1>1. Init => Atomic!Init
  BY AtomicInit
<1>2. Typed /\ IInv /\ (Typed /\ IInv)' /\ [Next]_vars => [Atomic!Next]_(Atomic!vars)
  BY AtomicNext
<1>3. Spec => [](Typed /\ IInv)
  BY InvariantHolds
<1> QED BY <1>1, <1>2, <1>3, PTL DEF Spec, ImportIsAtomic, Atomic!Spec
===============================================================================
