----------------------- MODULE SourceManagement_proofs -----------------------
(***************************************************************************)
(* SourceManagement for any jobs, workers, tables, layouts and commands.   *)
(* Whatever the faults, it has its types and the current source run is one *)
(* of a table.  When no store fault happens (NoStoreFaults), ManagedInv    *)
(* and FilesInv are inductive, and with them the two stores agree once no  *)
(* journal is open and nothing that is still read is collected.            *)
(***************************************************************************)
EXTENDS ImportActivation_proofs, SourceInvariant

-----------------------------------------------------------------------------
(* Types                                                                    *)

MTyped == MTypeOK /\ StartedHaveJobs

LEMMA Versions ==
  /\ Run \subseteq SourceRun /\ Run \subseteq Version /\ Worker \subseteq Run /\ Layout \subseteq Version /\ None \in Run
  /\ Manager \notin Worker \union {None} /\ \A l \in Layout : l # None /\ l \notin Worker
BY LayoutAssumption, ManagerAssumption DEF Run, Version, SourceRun

LEMMA MTypedIsShaped == MTyped => Shaped(Version, SourceRun)
BY DEF MTyped, MTypeOK, Shaped

LEMMA ImportStepIsNext == ImportStep => Next
BY DEF ImportStep, Next, Recovery

\* What the step of an import leaves of the other commands, and what its commit
\* adds to the rows of its tables.
LEMMA ImportRecords ==
  ASSUME MTyped, ImportStep
  PROVE  /\ UNCHANGED <<mpc, upkeep, base, commands>>
         /\ objects \subseteq objects' /\ objects' \in SUBSET Object
         /\ \/ UNCHANGED <<sqliteData, tableRun, catalogue>>
            \/ \E w \in Worker :
                 /\ CommitActivation(w)
                 /\ tableRun' = [t \in Table |-> IF activeVersion'[t] = activeVersion[t]
                                                 THEN tableRun[t] ELSE w]
                 /\ catalogue' = [t \in Table |-> IF activeVersion'[t] = activeVersion[t]
                                                  THEN catalogue[t] ELSE catalogue[t] \union {w}]
<1> USE DEF MTyped, MTypeOK
<1>1. Recorded
  BY DEF ImportStep
<1>2. UNCHANGED <<mpc, upkeep, base, commands>> /\ objects \subseteq objects'
  BY <1>1 DEF Recorded
<1>3. objects' \in SUBSET Object
  BY <1>1, ObjectAssumption DEF Recorded, ObjectsOf, Staged
<1>4. CASE UNCHANGED sqliteData
  <2>1. tableRun' = [t \in Table |-> tableRun[t]] /\ catalogue' = [t \in Table |-> catalogue[t]]
    BY <1>1, <1>4 DEF Recorded, sqliteData
  <2> QED BY <1>2, <1>3, <1>4, <2>1
<1>5. ASSUME NEW w \in Worker, CommitActivation(w)
      PROVE  /\ tableRun' = [t \in Table |-> IF activeVersion'[t] = activeVersion[t]
                                             THEN tableRun[t] ELSE w]
             /\ catalogue' = [t \in Table |-> IF activeVersion'[t] = activeVersion[t]
                                              THEN catalogue[t] ELSE catalogue[t] \union {w}]
  <2>1. \A t \in Table : activeVersion'[t] # activeVersion[t] => activeVersion'[t] = w
    BY <1>5 DEF CommitActivation
  <2> QED BY <1>1, <2>1 DEF Recorded
<1> QED BY <1>2, <1>3, <1>4, <1>5, ImportStepIsNext, SwitchOnly

\* The phase of its journal is all of it that a command changes.
LEMMA EnterRow ==
  ASSUME upkeep \in UpkeepRows, NEW phase \in Phases \union {"replica_published"}, Enter(phase)
  PROVE  /\ upkeep' \in UpkeepRows /\ upkeep'.phase = phase
         /\ upkeep'.kind = upkeep.kind /\ upkeep'.table = upkeep.table
         /\ upkeep'.target = upkeep.target /\ upkeep'.rollback = upkeep.rollback
         /\ upkeep'.candidates = upkeep.candidates
BY DEF UpkeepRows, Enter

LEMMA MTypedInit == MInit => MTyped
<1> SUFFICES ASSUME MInit PROVE MTyped
  OBVIOUS
<1>1. Shaped(Version, SourceRun)
  BY ShapedInit, Versions DEF MInit
<1>2. fileLock = None
  BY DEF MInit, Init
<1>3. upkeep \in UpkeepRows
  BY Versions DEF MInit, NoUpkeep, UpkeepRows, Phases
<1> QED BY <1>1, <1>2, <1>3, Versions DEF MInit, MTyped, MTypeOK, MPCs, Shaped

LEMMA MTypedImport ==
  ASSUME MTyped, ImportStep
  PROVE  MTyped'
<1>1. ProcessTypes' /\ JournalTypes(Version, SourceRun)' /\ StartedHaveJobs'
  BY ImportStepIsNext, ShapedNext, MTypedIsShaped, Versions DEF Shaped
<1>2. fileLock' \in Worker \union {None, Manager}
  BY ImportStepIsNext, FileLockNext DEF MTyped, MTypeOK
<1>3. tableRun' \in [Table -> Run] /\ catalogue' \in [Table -> SUBSET (Worker \union Layout)]
  BY ImportRecords, Versions DEF MTyped, MTypeOK
<1> QED BY <1>1, <1>2, <1>3, ImportRecords DEF MTyped, MTypeOK

\* The steps that are not an import's leave its rows and its processes alone.
LEMMA CommandTypes ==
  ASSUME MTyped, UNCHANGED importVars
  PROVE  /\ ProcessTypes' /\ StartedHaveJobs'
         /\ currentSourceRun' \in SourceRun /\ activeVersion' \in [Table -> Version]
              /\ duckManifest' \in [Table -> Version] => JournalTypes(Version, SourceRun)'
BY DEF MTyped, MTypeOK, ProcessTypes, StartedHaveJobs, JobTypeOK, JournalTypes, importVars,
       jobVars, journalVars, leaseVars, workerVars

\* What reconciliation, or the collection, leaves in the two places it writes.
LEMMA CollectedType ==
  ASSUME MTyped
  PROVE  Collected \in SUBSET Object
BY DEF MTyped, MTypeOK, Collected

LEMMA ServedType ==
  ASSUME MTyped, NEW v \in {upkeep.target, upkeep.rollback}
  PROVE  [duckManifest EXCEPT ![upkeep.table] = v] \in [Table -> Version]
BY Versions DEF MTyped, MTypeOK, JournalTypes, UpkeepRows

LEMMA ReconcileStoresType ==
  ASSUME MTyped, ReconcileStores
  PROVE  duckManifest' \in [Table -> Version] /\ objects' \in SUBSET Object
BY ServedType, CollectedType DEF ReconcileStores, MTyped, MTypeOK

LEMMA MTypedBegin ==
  ASSUME MTyped, NEW t \in Table, BeginDeletion(t) \/ \E v \in Layout : BeginLayout(t, v)
  PROVE  MTyped'
<1> USE Versions DEF MTyped, MTypeOK
<1>0. /\ UNCHANGED <<importVars, sqliteData, tableRun>> /\ fileLock' = Manager /\ mpc' = "start"
      /\ commands' = commands + 1
  BY DEF BeginDeletion, BeginLayout, Starts
<1>1. ProcessTypes' /\ StartedHaveJobs'
  BY <1>0, CommandTypes
<1>2. duckManifest' \in [Table -> Version] => JournalTypes(Version, SourceRun)'
  BY <1>0, CommandTypes DEF JournalTypes, sqliteData
<1>3. CASE BeginDeletion(t)
  <2>1. ObjectsOf(catalogue[t]) \in SUBSET Object
    BY ObjectAssumption DEF ObjectsOf
  <2>2. upkeep' \in UpkeepRows
    BY <1>3, <2>1 DEF BeginDeletion, UpkeepRows, Phases, JournalTypes
  <2>3. JournalTypes(Version, SourceRun)'
    BY <1>2, <1>3 DEF BeginDeletion, JournalTypes
  <2> QED BY <1>0, <1>1, <1>3, <2>2, <2>3 DEF BeginDeletion, MPCs
<1>4. ASSUME NEW v \in Layout, BeginLayout(t, v) PROVE MTyped'
  <2>1. upkeep' \in UpkeepRows
    BY <1>4 DEF BeginLayout, UpkeepRows, Phases, JournalTypes
  <2>2. duckManifest' \in [Table -> Version]
    BY <1>4 DEF BeginLayout, JournalTypes, UpkeepRows
  <2>3. /\ base' \in Version
        /\ catalogue' \in [Table -> SUBSET (Worker \union Layout)] /\ objects' \in SUBSET Object
    BY <1>4, ObjectAssumption DEF BeginLayout, JournalTypes
  <2> QED BY <1>0, <1>1, <1>2, <2>1, <2>2, <2>3 DEF MPCs
<1> QED BY <1>3, <1>4

LEMMA MTypedCommand ==
  ASSUME MTyped, ManagerStep \/ ManagerDies
  PROVE  MTyped'
<1> USE DEF MTyped, MTypeOK
<1>0. UNCHANGED <<importVars, commands>>
  BY DEF ManagerStep, StartUpkeep, PublishUpkeep, RecordUpkeep, SwitchDeletion, SwitchLayout,
         CollectObjects, FinishUpkeep, UpkeepFails, UndoDeletion, UndoLayout, EndUndo, ManagerDies
<1>1. /\ ProcessTypes' /\ StartedHaveJobs'
      /\ currentSourceRun' \in SourceRun /\ activeVersion' \in [Table -> Version]
              /\ duckManifest' \in [Table -> Version] => JournalTypes(Version, SourceRun)'
  BY <1>0, CommandTypes
<1>2. currentSourceRun' \in SourceRun
  BY DEF SourceRun, JournalTypes, ManagerStep, StartUpkeep, PublishUpkeep, RecordUpkeep,
         SwitchDeletion, SwitchLayout, CollectObjects, FinishUpkeep, UpkeepFails, UndoDeletion, UndoLayout, EndUndo,
         ManagerDies, sqliteData
<1>3. activeVersion' \in [Table -> Version]
  BY Versions DEF JournalTypes, ManagerStep, StartUpkeep, PublishUpkeep, RecordUpkeep,
         SwitchDeletion, SwitchLayout, CollectObjects, FinishUpkeep, UpkeepFails, UndoDeletion,
         UndoLayout, EndUndo, ManagerDies, sqliteData, UpkeepRows
<1>4. duckManifest' \in [Table -> Version] /\ objects' \in SUBSET Object
  BY ServedType, ReconcileStoresType, CollectedType
     DEF JournalTypes, ManagerStep, StartUpkeep, PublishUpkeep, RecordUpkeep, SwitchDeletion,
         SwitchLayout, CollectObjects, FinishUpkeep, UpkeepFails, UndoDeletion, UndoLayout, EndUndo,
         ManagerDies
<1>5. upkeep' = upkeep \/ \E phase \in Phases \union {"replica_published"} : Enter(phase)
  BY DEF ManagerStep, StartUpkeep, PublishUpkeep, RecordUpkeep, SwitchDeletion, SwitchLayout,
         CollectObjects, FinishUpkeep, UpkeepFails, UndoDeletion, UndoLayout, EndUndo, ManagerDies,
         Phases
<1>6. upkeep' \in UpkeepRows
  BY <1>5, EnterRow
<1>7. /\ mpc' \in MPCs /\ fileLock' \in Worker \union {None, Manager} /\ base' \in Version
  BY Versions DEF ManagerStep, StartUpkeep, PublishUpkeep, RecordUpkeep, SwitchDeletion,
         SwitchLayout, CollectObjects, FinishUpkeep, UpkeepFails, UndoDeletion, UndoLayout, EndUndo,
         ManagerDies, ManagerEnds, MGoto, MPCs
<1>8. tableRun' \in [Table -> Run] /\ catalogue' \in [Table -> SUBSET (Worker \union Layout)]
  BY Versions DEF ManagerStep, StartUpkeep, PublishUpkeep, RecordUpkeep, SwitchDeletion,
         SwitchLayout, CollectObjects, FinishUpkeep, UpkeepFails, UndoDeletion, UndoLayout, EndUndo,
         ManagerDies
<1> QED BY <1>0, <1>1, <1>2, <1>3, <1>4, <1>6, <1>7, <1>8

LEMMA MTypedRecovers ==
  ASSUME MTyped, RecoverUpkeep \/ RecoverUpkeepCrash \/ \E w \in Worker : PrepareRefused(w)
  PROVE  MTyped'
<1> USE DEF MTyped, MTypeOK
<1>1. CASE RecoverUpkeep
  <2>1. JobTypeOK'
    BY <1>1, RecoverJobsType DEF RecoverUpkeep, ProcessTypes
  <2>2. leaseHolder' \in Worker \union {None} /\ leaseEpoch' \in Nat /\ leaseActive' \in BOOLEAN
    BY <1>1, RevokeLeaseType, Versions DEF RecoverUpkeep
  <2>3. duckManifest' \in [Table -> Version] /\ objects' \in SUBSET Object /\ upkeep' \in UpkeepRows
    BY <1>1, ReconcileStoresType, EnterRow DEF RecoverUpkeep, JournalTypes, Phases
  <2> QED
    BY <1>1, <2>1, <2>2, <2>3 DEF RecoverUpkeep, ProcessTypes, JournalTypes, StartedHaveJobs,
       journalVars, sqliteData, workerVars, lockVars
<1>2. CASE RecoverUpkeepCrash
  <2>1. duckManifest' \in [Table -> Version] /\ objects' \in SUBSET Object
    BY <1>2, ReconcileStoresType DEF RecoverUpkeepCrash
  <2>2. UNCHANGED <<importVars, fileLock, sqliteData, mpc, upkeep, base, tableRun, catalogue, commands>>
    BY <1>2 DEF RecoverUpkeepCrash
  <2>3. ProcessTypes' /\ StartedHaveJobs' /\ JournalTypes(Version, SourceRun)'
    BY <2>1, <2>2, CommandTypes DEF sqliteData, JournalTypes
  <2> QED BY <2>1, <2>2, <2>3
<1>3. ASSUME NEW w \in Worker, PrepareRefused(w) PROVE MTyped'
  BY <1>3 DEF PrepareRefused, Goto, PCs, ProcessTypes, JournalTypes, StartedHaveJobs, JobTypeOK,
     jobVars, journalVars, leaseVars, sqliteData, managerVars
<1> QED BY <1>1, <1>2, <1>3

LEMMA MTypedNext == MTyped /\ [MNext]_managedVars => MTyped'
<1> SUFFICES ASSUME MTyped, [MNext]_managedVars PROVE MTyped'
  OBVIOUS
<1>1. CASE MNext
  BY <1>1, MTypedImport, MTypedBegin, MTypedCommand, MTypedRecovers DEF MNext
<1>2. CASE UNCHANGED managedVars
  <2>1. UNCHANGED <<importVars, fileLock, sqliteData, duckManifest, managerVars>>
    BY <1>2 DEF managedVars, vars, importVars, lockVars
  <2>2. ProcessTypes' /\ StartedHaveJobs' /\ JournalTypes(Version, SourceRun)'
    BY <2>1, CommandTypes DEF sqliteData, JournalTypes, MTyped, MTypeOK
  <2> QED BY <2>1, <2>2 DEF MTyped, MTypeOK, managerVars
<1> QED BY <1>1, <1>2

\* Deletions and layouts keep every row, every process and every file's name well
\* typed beside the imports, whatever the faults.
THEOREM ManagementTypeCorrect == MSpec => []MTypeOK
<1>1. MTyped => MTypeOK
  BY DEF MTyped
<1> QED BY <1>1, MTypedInit, MTypedNext, PTL DEF MSpec

-----------------------------------------------------------------------------
(* The current source run, whatever the faults                              *)

LEMMA RunInvInit == MInit => RunInv
BY NoneAssumption
   DEF MInit, Init, RunInv, FreshUntilSwitched, RunsOfRegistered, Registered, CommandHasTable,
       CurrentRunIsOfATable

\* No worker comes back to before its switch, and the one that switches leaves.
LEMMA UnswitchedStay ==
  ASSUME ProcessTypes, [Next]_vars, NEW w \in Worker, pc'[w] \in Unswitched
  PROVE  pc[w] \in Unswitched /\ ~CommitActivation(w)
<1> USE DEF ProcessTypes, Unswitched
<1>1. ASSUME NEW j \in Job, Owner(j) PROVE UNCHANGED pc
  BY <1>1 DEF Owner, CreateJob, CancelJob, ResumeJob, workerVars
<1>2. ASSUME NEW v \in Worker, WorkerStep(v), pc[w] \notin Unswitched PROVE FALSE
  <2>1. CASE v = w
    BY <1>2, <2>1 DEF WorkerStep, ReadJob, ClaimGranted, ClaimDeferred, ClaimRefused,
         BoundaryDenied, RebuildPlan, PrepareActivation, PrepareFails, StartCommit, StartFails,
         BeginActivation, BeginFails, PublishReplica, ActivationFails, CommitActivation,
         FinalizeActivation, FinalizeFails, ReadOutcome, RollBack, RollBackFenced, RollBackRaises,
         RollBackDeferred, InspectJournal, UndoReplica, UndoFails, SettleUnfenced, SettleRaises,
         Release, Exit, Goto
  <2>2. CASE v # w
    <3>1. \E label \in PCs : pc' = [pc EXCEPT ![v] = label]
      BY <1>2 DEF WorkerStep, ReadJob, ClaimGranted, ClaimDeferred, ClaimRefused,
           BoundaryDenied, RebuildPlan, PrepareActivation, PrepareFails, StartCommit, StartFails,
           BeginActivation, BeginFails, PublishReplica, ActivationFails, CommitActivation,
           FinalizeActivation, FinalizeFails, ReadOutcome, RollBack, RollBackFenced, RollBackRaises,
           RollBackDeferred, InspectJournal, UndoReplica, UndoFails, SettleUnfenced, SettleRaises,
           Release, Exit, Goto, PCs
    <3> QED BY <1>2, <2>2, <3>1
  <2> QED BY <2>1, <2>2
<1>3. ASSUME NEW v \in Worker, NEW j \in Job, Launch(v, j) PROVE pc[w] \in Unswitched
  BY <1>3 DEF Launch, Goto
<1>4. ASSUME NEW v \in Worker, WorkerDies(v) PROVE pc[w] \in Unswitched
  BY <1>4 DEF WorkerDies, Crash, RollBackCrash, Exit, Goto
<1>5. ASSUME Recovery PROVE pc[w] \in Unswitched
  BY <1>5 DEF Recovery, Recover, ProcessExit, Goto, workerVars
<1>6. ASSUME (\E u \in Job : RecoveryCrash(u)) \/ UNCHANGED vars PROVE pc[w] \in Unswitched
  BY <1>6 DEF RecoveryCrash, vars, workerVars
<1>7. pc[w] \in Unswitched
  BY <1>1, <1>2, <1>3, <1>4, <1>5, <1>6 DEF Next
<1>8. ~CommitActivation(w)
  BY DEF CommitActivation, Goto
<1> QED BY <1>7, <1>8

\* An import registers its table with the run that becomes the current one.
LEMMA RunInvImport ==
  ASSUME MTyped, RunInv, ImportStep
  PROVE  RunInv'
<1> USE DEF MTyped, MTypeOK, JournalTypes
<1>1. CASE UNCHANGED <<sqliteData, tableRun, catalogue>>
  <2>1. UNCHANGED <<activeVersion, currentSourceRun, tableRun, upkeep, mpc, base>>
    BY <1>1, ImportRecords DEF sqliteData
  <2>2. FreshUntilSwitched'
    BY <2>1, ImportStepIsNext, UnswitchedStay DEF RunInv, FreshUntilSwitched
  <2> QED
    BY <2>1, <2>2
       DEF RunInv, RunsOfRegistered, Registered, CommandHasTable, CurrentRunIsOfATable, LatestRuns
<1>2. ASSUME NEW w \in Worker, CommitActivation(w),
             tableRun' = [t \in Table |-> IF activeVersion'[t] = activeVersion[t]
                                          THEN tableRun[t] ELSE w]
      PROVE  RunInv'
  <2>1. /\ pc[w] \in Unswitched /\ wjob[w] \in Job /\ currentSourceRun' = w /\ w # None
        /\ activeVersion' = [t \in Table |-> IF t \in TablesOf[wjob[w]] THEN w ELSE activeVersion[t]]
        /\ \A t \in Table : activeVersion[t] # w
    BY <1>2, NoneAssumption
       DEF CommitActivation, StartedHaveJobs, Unswitched, RunInv, FreshUntilSwitched
  <2>2. PICK own \in Table : TablesOf[wjob[w]] = {own}
    BY <2>1, OneTableAssumption
  <2>3. /\ \A t \in Table \ {own} : activeVersion'[t] = activeVersion[t] /\ tableRun'[t] = tableRun[t]
        /\ activeVersion'[own] = w /\ tableRun'[own] = w
    BY <1>2, <2>1, <2>2
  <2>4. FreshUntilSwitched'
    BY <1>2, <2>1, ImportStepIsNext, ImportRecords, UnswitchedStay DEF RunInv, FreshUntilSwitched
  <2>5. RunsOfRegistered'
    BY <2>1, <2>3 DEF RunInv, RunsOfRegistered, Registered
  <2>6. CommandHasTable'
    BY <2>1, <2>3, ImportRecords DEF RunInv, CommandHasTable, Registered
  <2>7. CurrentRunIsOfATable'
    BY <2>1, <2>3 DEF CurrentRunIsOfATable, LatestRuns, Registered
  <2> QED BY <2>4, <2>5, <2>6, <2>7 DEF RunInv
<1> QED BY <1>1, <1>2, ImportRecords

\* Steps that move no version leave the runs alone.
LEMMA RunsStay ==
  ASSUME RunInv, UNCHANGED <<activeVersion, currentSourceRun, tableRun, pc>>, base' \in {base, None}
  PROVE  FreshUntilSwitched' /\ RunsOfRegistered' /\ CurrentRunIsOfATable'
BY NoneAssumption
   DEF RunInv, FreshUntilSwitched, RunsOfRegistered, Registered, CurrentRunIsOfATable, LatestRuns

LEMMA RunInvBegin ==
  ASSUME MTyped, RunInv, NEW t \in Table, BeginDeletion(t) \/ \E v \in Layout : BeginLayout(t, v)
  PROVE  RunInv'
<1> USE DEF MTyped, MTypeOK
<1>1. UNCHANGED <<activeVersion, currentSourceRun, tableRun, pc>> /\ Registered(t)
  BY DEF BeginDeletion, BeginLayout, Starts, importVars, workerVars, sqliteData
<1>2. RunsOfRegistered' /\ CurrentRunIsOfATable'
  BY <1>1 DEF RunInv, RunsOfRegistered, Registered, CurrentRunIsOfATable, LatestRuns
<1>3. CASE BeginDeletion(t)
  <2>1. upkeep'.kind = "delete" /\ upkeep'.table \in Table /\ base' = base
    BY <1>3 DEF BeginDeletion, NoJournalButOwn
  <2> QED BY <1>1, <1>2, <2>1, RunsStay DEF RunInv, CommandHasTable
<1>4. ASSUME NEW v \in Layout, BeginLayout(t, v) PROVE RunInv'
  <2>1. upkeep'.kind = "layout" /\ upkeep'.table = t /\ upkeep'.target = v /\ base' = activeVersion[t]
    BY <1>4 DEF BeginLayout, NoJournalButOwn
  <2>2. FreshUntilSwitched'
    BY <1>1, <2>1 DEF RunInv, FreshUntilSwitched
  <2>3. CommandHasTable'
    BY <1>1, <2>1, Versions DEF CommandHasTable, Registered
  <2> QED BY <1>2, <2>2, <2>3 DEF RunInv
<1> QED BY <1>3, <1>4

\* The switch of a deletion takes the run of a table that is left; the one of a
\* layout, and its undoing, keep the table and its run.
LEMMA RunInvCommand ==
  ASSUME MTyped, RunInv, ManagerStep \/ ManagerDies
  PROVE  RunInv'
<1> USE DEF MTyped, MTypeOK
<1> DEFINE t == upkeep.table
<1>1. CASE SwitchDeletion
  <2>1. /\ mpc # "idle" /\ t \in Table /\ pc' = pc /\ base' = base /\ upkeep.kind = "delete"
        /\ activeVersion' = [activeVersion EXCEPT ![t] = None]
        /\ tableRun' = [tableRun EXCEPT ![t] = None]
        /\ NextDefault(t, currentSourceRun')
        /\ Enter("source_selection_committed")
    BY <1>1 DEF SwitchDeletion, RunInv, CommandHasTable, importVars, workerVars
  <2>2. FreshUntilSwitched' /\ RunsOfRegistered'
    BY <2>1, NoneAssumption
       DEF JournalTypes, RunInv, FreshUntilSwitched, RunsOfRegistered, Registered
  <2>3. \A u \in Table \ {t} : activeVersion'[u] = activeVersion[u] /\ tableRun'[u] = tableRun[u]
    BY <2>1 DEF JournalTypes
  <2>4. activeVersion'[t] = None
    BY <2>1 DEF JournalTypes
  <2>5. {u \in Table : Registered(u)}' = {u \in Table \ {t} : Registered(u)}
    BY <2>1, <2>3, <2>4 DEF Registered
  <2>6. CurrentRunIsOfATable'
    BY <2>1, <2>3, <2>5 DEF CurrentRunIsOfATable, LatestRuns, NextDefault, Registered
  <2>7. CommandHasTable'
    BY <2>1, EnterRow DEF CommandHasTable, Phases
  <2> QED BY <2>2, <2>6, <2>7 DEF RunInv
<1>2. ASSUME mpc # "idle", upkeep.kind = "layout", NEW v \in Version \ {None},
             \A w \in Worker : pc[w] \in Unswitched => v # w,
             activeVersion' = [activeVersion EXCEPT ![t] = v],
             UNCHANGED <<currentSourceRun, tableRun, pc>>
      PROVE  /\ base' \in {base, None} => FreshUntilSwitched'
             /\ RunsOfRegistered' /\ CurrentRunIsOfATable' /\ activeVersion'[t] # None
  <2>1. t \in Table /\ Registered(t)
    BY <1>2 DEF RunInv, CommandHasTable
  <2>2. \A u \in Table : Registered(u)' <=> Registered(u)
    BY <1>2, <2>1 DEF JournalTypes, Registered
  <2>3. base' \in {base, None} => FreshUntilSwitched'
    BY <1>2, <2>1, NoneAssumption DEF JournalTypes, RunInv, FreshUntilSwitched
  <2>4. RunsOfRegistered'
    BY <1>2, <2>2 DEF RunInv, RunsOfRegistered
  <2>5. {u \in Table : Registered(u)}' = {u \in Table : Registered(u)}
    BY <2>2
  <2>6. CurrentRunIsOfATable'
    BY <1>2, <2>5 DEF RunInv, CurrentRunIsOfATable, LatestRuns
  <2>7. activeVersion'[t] # None
    BY <1>2, <2>1 DEF JournalTypes
  <2> QED BY <2>3, <2>4, <2>6, <2>7
<1>3. CASE SwitchLayout
  <2>1. /\ mpc # "idle" /\ upkeep.kind = "layout" /\ upkeep.target \in Layout
        /\ activeVersion' = [activeVersion EXCEPT ![t] = upkeep.target]
        /\ UNCHANGED <<currentSourceRun, tableRun, pc, base>> /\ Enter("source_selection_committed")
    BY <1>3 DEF SwitchLayout, RunInv, CommandHasTable, importVars, workerVars, UpkeepRows
  <2>2. FreshUntilSwitched' /\ RunsOfRegistered' /\ CurrentRunIsOfATable' /\ activeVersion'[t] # None
    BY <1>2, <2>1, Versions DEF Registered
  <2> QED
    BY <2>1, <2>2, EnterRow DEF RunInv, CommandHasTable, Phases, Registered
<1>4. CASE EndUndo
  <2>1. mpc' = "idle" /\ base' = None /\ UNCHANGED <<currentSourceRun, tableRun, pc>>
    BY <1>4 DEF EndUndo, ManagerEnds, importVars, workerVars
  <2>2. CASE upkeep.kind = "layout"
    BY <1>2, <1>4, <2>1, <2>2 DEF EndUndo, RunInv, CommandHasTable, FreshUntilSwitched
  <2>3. CASE upkeep.kind # "layout"
    BY <1>4, <2>1, <2>3, RunsStay DEF EndUndo, RunInv, CommandHasTable
  <2> QED BY <2>1, <2>2, <2>3 DEF RunInv, CommandHasTable
<1>5. CASE ManagerDies \/ FinishUpkeep
  <2>1. /\ mpc' = "idle" /\ base' = None
        /\ UNCHANGED <<activeVersion, currentSourceRun, tableRun, pc>>
    BY <1>5 DEF ManagerDies, FinishUpkeep, ManagerEnds, importVars, workerVars, sqliteData
  <2> QED BY <2>1, RunsStay DEF RunInv, CommandHasTable
<1>6. CASE StartUpkeep \/ PublishUpkeep \/ RecordUpkeep \/ CollectObjects \/ UpkeepFails
             \/ UndoDeletion \/ UndoLayout
  <2>1. /\ mpc # "idle" /\ base' = base /\ (upkeep' = upkeep \/ \E p \in Phases \union {"replica_published"} : Enter(p))
        /\ UNCHANGED <<activeVersion, currentSourceRun, tableRun, pc>>
    BY <1>6 DEF StartUpkeep, PublishUpkeep, RecordUpkeep, CollectObjects, UpkeepFails, UndoDeletion,
         UndoLayout, importVars, workerVars, sqliteData, Phases
  <2>2. upkeep'.kind = upkeep.kind /\ upkeep'.table = upkeep.table /\ upkeep'.target = upkeep.target
    BY <2>1, EnterRow
  <2> QED BY <2>1, <2>2, RunsStay DEF RunInv, CommandHasTable, Registered
<1> QED BY <1>1, <1>3, <1>4, <1>5, <1>6 DEF ManagerStep

LEMMA RunInvRecovers ==
  ASSUME MTyped, RunInv,
         \/ RecoverUpkeep \/ RecoverUpkeepCrash \/ (\E w \in Worker : PrepareRefused(w))
         \/ UNCHANGED managedVars
  PROVE  RunInv'
<1> USE DEF MTyped, MTypeOK
<1>1. UNCHANGED <<activeVersion, currentSourceRun, tableRun, base, mpc>>
  BY DEF RecoverUpkeep, RecoverUpkeepCrash, PrepareRefused, managedVars, managerVars, vars, sqliteData
<1>2. upkeep' = upkeep \/ Enter("finalized")
  BY DEF RecoverUpkeep, RecoverUpkeepCrash, PrepareRefused, managedVars, managerVars
<1>3. upkeep'.kind = upkeep.kind /\ upkeep'.table = upkeep.table /\ upkeep'.target = upkeep.target
  BY <1>2, EnterRow DEF Phases
<1>4. \A w \in Worker : pc'[w] \in Unswitched => pc[w] \in Unswitched
  BY DEF RecoverUpkeep, RecoverUpkeepCrash, PrepareRefused, managedVars, vars, importVars,
         workerVars, Goto, ProcessTypes, Unswitched
<1> QED
  BY <1>1, <1>3, <1>4 DEF RunInv, FreshUntilSwitched, RunsOfRegistered, Registered,
     CommandHasTable, CurrentRunIsOfATable, LatestRuns

LEMMA RunInvNext == MTyped /\ RunInv /\ [MNext]_managedVars => RunInv'
BY RunInvImport, RunInvBegin, RunInvCommand, RunInvRecovers DEF MNext

\* However imports, deletions and layouts interleave, fail and die, the current
\* source run is the latest run of a table that exists, or none when none is left.
THEOREM CurrentRunExists == MSpec => []CurrentRunIsOfATable
<1>1. RunInv => CurrentRunIsOfATable
  BY DEF RunInv
<1> QED BY <1>1, MTypedInit, MTypedNext, RunInvInit, RunInvNext, PTL DEF MSpec

-----------------------------------------------------------------------------
(* The boundary: what holds it when no store fault happens                  *)

LEMMA BoundaryInvInit == MInit => BoundaryInv
BY NoneAssumption
   DEF MInit, Init, NoUpkeep, BoundaryInv, OneWorkerPerJob, Live, Ended, WorkersHoldBoundary,
       Journaling, ManagerHoldsBoundary, OneJournal, OneUnfinished, UpkeepOpen, Unfinished,
       UnfinishedPhases, OpenIsHeld, CommittedIsDone, WorkersHaveJournals, OpenRunsOrIsBlocked,
       CommittedHasSucceeded, Open, Committed, ActiveEpoch

\* What BoundaryInv says of one worker and of one job.
WorkerBound(w) ==
  /\ pc[w] \in Journaling => fileLock = w
  /\ Live(w) /\ Open(wjob[w]) =>
       /\ fileLock = w /\ Leased(w) /\ wepoch[w] > 0
       /\ pc[w] \in {"start", "begin", "publish", "switch", "failed", "rollback"}
       /\ Running(wjob[w])
       /\ pc[w] = "rollback" => seen[w] = jobStatus[wjob[w]]
  /\ Live(w) /\ Committed(wjob[w]) => pc[w] \in {"finalize", "release"}
  /\ pc[w] \in {"start", "begin", "publish", "switch"} => Open(wjob[w])
  /\ pc[w] = "finalize" => Committed(wjob[w])
  /\ pc[w] \notin {"undo", "undone", "unknown"}

JobBound(j) ==
  /\ Open(j) => \/ Running(j)
                \/ /\ currentSourceRun # jobParent[j]
                   /\ jobStatus[j] \in {"needs_attention", "canceled"}
  /\ Committed(j) => jobStatus[j] = "succeeded"

LEMMA BoundaryParts ==
  BoundaryInv <=> /\ OneWorkerPerJob /\ ActiveEpoch /\ ManagerHoldsBoundary /\ OneJournal
                  /\ \A w \in Worker : WorkerBound(w)
                  /\ \A j \in Job : JobBound(j)
BY DEF BoundaryInv, WorkerBound, JobBound, WorkersHoldBoundary, OpenIsHeld, CommittedIsDone,
       WorkersHaveJournals, OpenRunsOrIsBlocked, CommittedHasSucceeded

LEMMA BoundaryPartsNext ==
  ASSUME OneWorkerPerJob', ActiveEpoch', ManagerHoldsBoundary', OneJournal',
         \A w \in Worker : WorkerBound(w)', \A j \in Job : JobBound(j)'
  PROVE  BoundaryInv'
BY DEF BoundaryInv, WorkerBound, JobBound, WorkersHoldBoundary, OpenIsHeld, CommittedIsDone,
       WorkersHaveJournals, OpenRunsOrIsBlocked, CommittedHasSucceeded

-----------------------------------------------------------------------------
(* What a worker's step leaves alone                                        *)

\* A worker's step moves only its own control, and only while it is live.
LEMMA WorkerMoves ==
  ASSUME ProcessTypes, StartedHaveJobs, NEW w \in Worker, WorkerStep(w)
  PROVE  /\ Live(w) /\ wjob' = wjob /\ wjob[w] \in Job
         /\ \E label \in PCs \ {"idle"} : pc' = [pc EXCEPT ![w] = label]
<1>1. Live(w)
  BY DEF Live, Ended, WorkerStep, ReadJob, ClaimGranted, ClaimDeferred, ClaimRefused, BoundaryDenied,
         RebuildPlan, PrepareActivation, PrepareFails, StartCommit, StartFails, BeginActivation, BeginFails, PublishReplica, ActivationFails,
         CommitActivation, FinalizeActivation, FinalizeFails, ReadOutcome, RollBack,
         RollBackFenced, RollBackRaises, RollBackDeferred, InspectJournal, UndoReplica,
         UndoFails, SettleUnfenced, SettleRaises, Release
<1>2. wjob' = wjob /\ \E label \in PCs \ {"idle"} : pc' = [pc EXCEPT ![w] = label]
  BY DEF WorkerStep, ReadJob, ClaimGranted, ClaimDeferred, ClaimRefused, BoundaryDenied,
         RebuildPlan, PrepareActivation, PrepareFails, StartCommit, StartFails, BeginActivation, BeginFails, PublishReplica, ActivationFails,
         CommitActivation, FinalizeActivation, FinalizeFails, ReadOutcome, RollBack,
         RollBackFenced, RollBackRaises, RollBackDeferred, InspectJournal, UndoReplica,
         UndoFails, SettleUnfenced, SettleRaises, Release, Exit, Goto, PCs
<1> QED BY <1>1, <1>2 DEF Live, Ended, StartedHaveJobs

\* It writes only the journal and the status of its own job.
LEMMA OtherJobsAlone ==
  ASSUME Shaped(Version, SourceRun), NEW w \in Worker, WorkerStep(w)
  PROVE  /\ jobParent' = jobParent
         /\ \A j \in Job \ {wjob[w]} :
              /\ jobStatus'[j] = jobStatus[j]
              /\ journalPhase'[j] = journalPhase[j] /\ journalTarget'[j] = journalTarget[j]
              /\ rollbackManifest'[j] = rollbackManifest[j]
<1>1. jobParent' = jobParent
  BY DEF WorkerStep, ReadJob, ClaimGranted, ClaimDeferred, ClaimRefused, BoundaryDenied,
         RebuildPlan, PrepareActivation, PrepareFails, StartCommit, StartFails, BeginActivation, BeginFails, PublishReplica, ActivationFails,
         CommitActivation, FinalizeActivation, FinalizeFails, ReadOutcome, RollBack,
         RollBackFenced, RollBackRaises, RollBackDeferred, InspectJournal, UndoReplica,
         UndoFails, SettleUnfenced, SettleRaises, Release
<1>2. jobStatus' = jobStatus \/ \E s, p : TransitionJob(wjob[w], s, p)
  BY DEF WorkerStep, ReadJob, ClaimGranted, ClaimDeferred, ClaimRefused, BoundaryDenied,
         RebuildPlan, PrepareActivation, PrepareFails, StartCommit, StartFails, BeginActivation, BeginFails, PublishReplica, ActivationFails,
         CommitActivation, FinalizeActivation, FinalizeFails, ReadOutcome, RollBack,
         RollBackFenced, RollBackRaises, RollBackDeferred, InspectJournal, UndoReplica,
         UndoFails, SettleUnfenced, SettleRaises, Release, SettleJob, jobVars
<1>3. \/ UNCHANGED journalVars
      \/ PrepareJournal(wjob[w]) \/ StartCommit(w) \/ CommitActivation(w)
      \/ \E o \in Outcomes : Finalize(wjob[w], o)
  BY DEF WorkerStep, ReadJob, ClaimGranted, ClaimDeferred, ClaimRefused, BoundaryDenied,
         RebuildPlan, PrepareActivation, PrepareFails, StartFails, BeginActivation, BeginFails, PublishReplica, ActivationFails,
         FinalizeActivation, FinalizeFails, ReadOutcome, RollBack,
         RollBackFenced, RollBackRaises, RollBackDeferred, InspectJournal, UndoReplica,
         UndoFails, SettleUnfenced, SettleRaises, Release, Outcomes
<1>4. \A j \in Job \ {wjob[w]} : jobStatus'[j] = jobStatus[j]
  BY <1>2 DEF TransitionJob, Shaped, ProcessTypes, JobTypeOK
<1> QED
  BY <1>1, <1>3, <1>4 DEF Shaped, JournalTypes, journalVars, PrepareJournal, StartCommit,
     CommitActivation, Finalize

\* It neither takes the boundary or the lease from another worker nor gives it one.
LEMMA OtherWorkersAlone ==
  ASSUME Shaped(Version, SourceRun), NEW w \in Worker, WorkerStep(w)
  PROVE  /\ fileLock' # fileLock => (fileLock = None /\ fileLock' = w) \/ (fileLock = w /\ fileLock' = None)
         /\ \A v \in Worker \ {w} :
              /\ pc'[v] = pc[v] /\ wepoch'[v] = wepoch[v] /\ seen'[v] = seen[v]
              /\ Leased(v)' <=> Leased(v)
<1> USE DEF Shaped, ProcessTypes
<1>1. fileLock' # fileLock => (fileLock = None /\ fileLock' = w) \/ (fileLock = w /\ fileLock' = None)
  BY DEF WorkerStep, ReadJob, ClaimGranted, ClaimDeferred, ClaimRefused, BoundaryDenied,
         RebuildPlan, PrepareActivation, PrepareFails, StartCommit, StartFails, BeginActivation, BeginFails, PublishReplica, ActivationFails,
         CommitActivation, FinalizeActivation, FinalizeFails, ReadOutcome, RollBack,
         RollBackFenced, RollBackRaises, RollBackDeferred, InspectJournal, UndoReplica,
         UndoFails, SettleUnfenced, SettleRaises, Release, lockVars
<1>2. \A v \in Worker \ {w} : wepoch'[v] = wepoch[v] /\ seen'[v] = seen[v]
  BY DEF WorkerStep, ReadJob, ClaimGranted, ClaimDeferred, ClaimRefused, BoundaryDenied,
         RebuildPlan, PrepareActivation, PrepareFails, StartCommit, StartFails, BeginActivation, BeginFails, PublishReplica, ActivationFails,
         CommitActivation, FinalizeActivation, FinalizeFails, ReadOutcome, RollBack,
         RollBackFenced, RollBackRaises, RollBackDeferred, InspectJournal, UndoReplica,
         UndoFails, SettleUnfenced, SettleRaises, Release, Exit
<1>3. \A v \in Worker \ {w} : Leased(v)' <=> Leased(v)
  <2>1. CASE UNCHANGED <<leaseVars, wepoch>>
    BY <2>1 DEF Leased, leaseVars
  <2>2. CASE ClaimGranted(w)
    BY <2>2 DEF ClaimGranted, GrantLease, Leased
  <2>3. CASE ClaimDeferred(w) \/ ClaimRefused(w)
    BY <2>3 DEF ClaimDeferred, ClaimRefused, Exit, leaseVars, Leased
  <2>4. CASE Release(w)
    BY <2>4 DEF Release, ReleaseLease, Exit, leaseVars, Leased
  <2> QED BY <2>1, <2>2, <2>3, <2>4, WorkerStepLease
<1> QED BY <1>1, <1>2, <1>3, WorkerMoves

\* So what BoundaryInv says of another worker, or of another job, stays true.
LEMMA OtherWorkerBound ==
  ASSUME MTyped, BoundaryInv, NEW w \in Worker, WorkerStep(w), NEW v \in Worker \ {w}
  PROVE  WorkerBound(v)'
<1>0. Shaped(Version, SourceRun) /\ WorkerBound(v)
  BY MTypedIsShaped, BoundaryParts
<1>1. wjob' = wjob /\ pc'[v] = pc[v]
  BY <1>0, WorkerMoves, OtherWorkersAlone DEF Shaped
<1>2. CASE Live(v)
  <2>1. wjob[v] \in Job \ {wjob[w]}
    BY <1>0, <1>2, WorkerMoves DEF Shaped, StartedHaveJobs, Live, Ended, BoundaryInv, OneWorkerPerJob
  <2>2. /\ jobStatus'[wjob[v]] = jobStatus[wjob[v]] /\ journalPhase'[wjob[v]] = journalPhase[wjob[v]]
    BY <1>0, <2>1, OtherJobsAlone
  <2>3. fileLock = v => fileLock' = v
    BY <1>0, OtherWorkersAlone, NoneAssumption
  <2>4. wepoch'[v] = wepoch[v] /\ seen'[v] = seen[v] /\ (Leased(v)' <=> Leased(v))
    BY <1>0, OtherWorkersAlone
  <2> QED BY <1>0, <1>1, <2>2, <2>3, <2>4 DEF WorkerBound, Live, Open, Committed, Running
<1>3. CASE ~Live(v)
  BY <1>1, <1>3 DEF WorkerBound, Live, Ended, Journaling
<1> QED BY <1>2, <1>3

\* What the handler has read of a running job lets it settle the job.
LEMMA HandlerMaySettle ==
  ASSUME ProcessTypes, NEW w \in Worker, wjob[w] \in Job, Running(wjob[w]),
         seen[w] = jobStatus[wjob[w]]
  PROVE  MayTransition(wjob[w], HandlerStatus(w, FALSE), jobProgress[wjob[w]])
<1>1. jobStatus[wjob[w]] \in {"running", "cancel_requested"}
  BY DEF Running
<1>2. HandlerStatus(w, FALSE) = IF seen[w] = "cancel_requested" THEN "canceled" ELSE "failed"
  BY <1>1 DEF HandlerStatus, TerminalStatuses
<1>3. HandlerStatus(w, FALSE) \in AllowedTransitions[jobStatus[wjob[w]]]
  BY <1>1, <1>2 DEF AllowedTransitions, AllStatuses, LiveStatuses
<1>4. jobProgress[wjob[w]] >= jobProgress[wjob[w]]
  BY DEF ProcessTypes, JobTypeOK
<1> QED BY <1>3, <1>4 DEF MayTransition

\* Without a store fault a worker never restores a replica its journal forgets.
LEMMA NoStrayUndo ==
  ASSUME MTyped, BoundaryInv, NoStoreFaults, NEW w \in Worker
  PROVE  /\ ~UndoReplica(w) /\ ~UndoFails(w) /\ ~RollBackDeferred(w)
         /\ RollBackRaises(w) => ~Unfinished(wjob[w]) /\ duckManifest' = duckManifest
         /\ SettleUnfenced(w) => pc[w] = "settle" /\ ~Unfinished(wjob[w]) /\ UNCHANGED journalVars
<1>0. WorkerBound(w) /\ ProcessTypes /\ (Live(w) => wjob[w] \in Job)
  BY BoundaryParts DEF MTyped, MTypeOK, StartedHaveJobs, Live, Ended
<1>1. ~UndoReplica(w) /\ ~UndoFails(w)
  BY <1>0 DEF WorkerBound, UndoReplica, UndoFails
<1>2. ~RollBackDeferred(w)
  BY DEF RollBackDeferred, NoStoreFaults, NoDuplicateNorRestoreError
<1>3. ASSUME RollBackRaises(w) PROVE ~Unfinished(wjob[w]) /\ duckManifest' = duckManifest
  <2>1. pc[w] = "rollback" /\ Live(w)
    BY <1>3 DEF RollBackRaises, Live, Ended
  <2>2. ~Open(wjob[w])
    BY <1>0, <1>3, <2>1, HandlerMaySettle DEF WorkerBound, RollBackRaises
  <2> QED BY <1>0, <1>3, <2>1, <2>2, PhaseCases DEF WorkerBound, RollBackRaises
<1>4. ASSUME SettleUnfenced(w) PROVE pc[w] = "settle" /\ ~Unfinished(wjob[w]) /\ UNCHANGED journalVars
  <2>1. pc[w] = "settle" /\ Live(w)
    BY <1>0, <1>4 DEF SettleUnfenced, WorkerBound, Live, Ended
  <2> QED BY <1>0, <1>4, <2>1, PhaseCases DEF WorkerBound, SettleUnfenced
<1> QED BY <1>1, <1>2, <1>3, <1>4

\* The worker that takes a step.
LEMMA OwnWorkerBound ==
  ASSUME MTyped, BoundaryInv, NoStoreFaults, NEW w \in Worker, WorkerStep(w)
  PROVE  WorkerBound(w)'
<1>0. /\ WorkerBound(w) /\ ProcessTypes /\ wjob[w] \in Job /\ wjob' = wjob /\ Live(w)
      /\ journalPhase \in [Job -> Phases]
  BY BoundaryParts, WorkerMoves DEF MTyped, MTypeOK, JournalTypes
<1> USE <1>0 DEF WorkerBound, ProcessTypes, JobTypeOK, Live, Ended, Journaling, Open, Committed, Leased, Running,
          Goto, Exit, jobVars, journalVars, leaseVars, lockVars
<1>1. CASE ReadJob(w)
  BY <1>1 DEF ReadJob
<1>2. CASE ClaimGranted(w)
  BY <1>2 DEF ClaimGranted, GrantLease
<1>3. CASE ClaimDeferred(w)
  BY <1>3 DEF ClaimDeferred
<1>4. CASE ClaimRefused(w)
  BY <1>4 DEF ClaimRefused
<1>5. CASE BoundaryDenied(w)
  BY <1>5 DEF BoundaryDenied
<1>6. CASE RebuildPlan(w)
  BY <1>6 DEF RebuildPlan
<1>7. CASE PrepareActivation(w)
  <2>1. journalPhase' = [journalPhase EXCEPT ![wjob[w]] = "prepared"] /\ jobStatus[wjob[w]] = "running"
    BY <1>7, PhaseCases DEF PrepareActivation, PrepareJournal, MayReport
  <2>2. wepoch[w] > 0
    BY <1>7, BoundaryParts DEF PrepareActivation, ActiveEpoch
  <2> QED BY <1>7, <2>1, <2>2 DEF PrepareActivation
<1>8. CASE PrepareFails(w)
  BY <1>8 DEF PrepareFails
<1>9. CASE StartCommit(w)
  BY <1>9 DEF StartCommit
<1>10. CASE StartFails(w)
  BY <1>10 DEF StartFails
<1>11. CASE BeginActivation(w)
  BY <1>11 DEF BeginActivation
<1>12. CASE BeginFails(w)
  BY <1>12 DEF BeginFails
<1>13. ASSUME NEW t \in Table, PublishReplica(w, t) PROVE WorkerBound(w)'
  BY <1>13 DEF PublishReplica
<1>14. CASE ActivationFails(w)
  BY <1>14 DEF ActivationFails
<1>15. CASE CommitActivation(w)
  BY <1>15 DEF CommitActivation
<1>16. CASE FinalizeActivation(w)
  BY <1>16 DEF FinalizeActivation, Finalize
<1>17. CASE FinalizeFails(w)
  BY <1>17 DEF FinalizeFails
<1>18. CASE ReadOutcome(w)
  BY <1>18 DEF ReadOutcome
<1>19. CASE RollBack(w)
  BY <1>19, PhaseCases DEF RollBack, Finalize
<1>20. CASE RollBackFenced(w)
  BY <1>20 DEF RollBackFenced
<1>21. CASE RollBackRaises(w)
  BY <1>21, NoStrayUndo, PhaseCases DEF RollBackRaises
<1>22. CASE InspectJournal(w)
  BY <1>22, PhaseCases DEF InspectJournal
<1>23. CASE SettleUnfenced(w)
  BY <1>23, NoStrayUndo, PhaseCases DEF SettleUnfenced
<1>24. CASE SettleRaises(w)
  BY <1>24 DEF SettleRaises
<1>25. CASE Release(w)
  BY <1>25 DEF Release
<1> QED
  BY <1>1, <1>2, <1>3, <1>4, <1>5, <1>6, <1>7, <1>8, <1>9, <1>10, <1>11, <1>12, <1>13, <1>14, <1>15,
     <1>16, <1>17, <1>18, <1>19, <1>20, <1>21, <1>22, <1>23, <1>24, <1>25, NoStrayUndo DEF WorkerStep

LEMMA SwitchOnlyOwn ==
  ASSUME NEW w \in Worker, WorkerStep(w)
  PROVE  UNCHANGED sqliteData \/ CommitActivation(w)
BY DEF WorkerStep, ReadJob, ClaimGranted, ClaimDeferred, ClaimRefused, BoundaryDenied,
       RebuildPlan, PrepareActivation, PrepareFails, StartCommit, StartFails, BeginActivation, BeginFails, PublishReplica, ActivationFails,
       FinalizeActivation, FinalizeFails, ReadOutcome, RollBack, RollBackFenced,
       RollBackRaises, RollBackDeferred, InspectJournal, UndoReplica, UndoFails,
       SettleUnfenced, SettleRaises, Release

\* Its own job, and, when it commits, the others.
LEMMA WorkerStepJobBound ==
  ASSUME MTyped, BoundaryInv, NoStoreFaults, NEW w \in Worker, WorkerStep(w), NEW j \in Job
  PROVE  JobBound(j)'
<1>0. /\ WorkerBound(w) /\ JobBound(j) /\ Shaped(Version, SourceRun) /\ wjob[w] \in Job /\ Live(w)
      /\ jobParent' = jobParent
  BY BoundaryParts, MTypedIsShaped, WorkerMoves, OtherJobsAlone DEF Shaped
<1>1. CASE UNCHANGED <<jobStatus, journalPhase, currentSourceRun>>
  BY <1>0, <1>1 DEF JobBound, Open, Committed, Running
<1>2. CASE CommitActivation(w)
  <2>1. Open(wjob[w])
    BY <1>0, <1>2 DEF WorkerBound, CommitActivation
  <2>2. CASE j = wjob[w]
    BY <1>0, <1>2, <2>2 DEF CommitActivation, TransitionJob, JobBound, Open, Committed, Shaped,
       ProcessTypes, JobTypeOK, JournalTypes
  <2>3. CASE j # wjob[w]
    <3>1. ~Unfinished(j)
      BY <1>0, <2>1, <2>3, PhaseCases DEF BoundaryInv, OneJournal, OneUnfinished
    <3>2. journalPhase'[j] = journalPhase[j]
      BY <1>0, <2>3, OtherJobsAlone
    <3> QED BY <3>1, <3>2 DEF JobBound, Unfinished, UnfinishedPhases, Open, Committed
  <2> QED BY <2>2, <2>3
<1>3. CASE ~CommitActivation(w) /\ j # wjob[w]
  <2>1. currentSourceRun' = currentSourceRun
    BY <1>3, SwitchOnlyOwn DEF sqliteData
  <2>2. jobStatus'[j] = jobStatus[j] /\ journalPhase'[j] = journalPhase[j]
    BY <1>0, <1>3, OtherJobsAlone
  <2> QED BY <1>0, <2>1, <2>2 DEF JobBound, Open, Committed, Running
<1>4. CASE ~CommitActivation(w) /\ j = wjob[w]
  <2> USE <1>0 DEF WorkerBound, JobBound, Shaped, ProcessTypes, JobTypeOK, JournalTypes, Live,
            Ended, Open, Committed, Running
  <2>1. CASE ClaimGranted(w)
    BY <1>4, <2>1 DEF ClaimGranted, TransitionJob, journalVars
  <2>2. CASE PrepareActivation(w)
    <3>1. journalPhase' = [journalPhase EXCEPT ![j] = "prepared"] /\ jobStatus[j] = "running"
      BY <1>4, <2>2, PhaseCases DEF PrepareActivation, PrepareJournal, MayReport
    <3> QED BY <3>1, <2>2 DEF PrepareActivation
  <2>3. CASE StartCommit(w)
    BY <1>4, <2>3 DEF StartCommit, MayReport
  <2>4. CASE FinalizeActivation(w)
    BY <1>4, <2>4 DEF FinalizeActivation, Finalize, journalVars, jobVars, sqliteData
  <2>5. CASE RollBack(w)
    BY <1>4, <2>5, PhaseCases DEF RollBack, Finalize, journalVars, sqliteData
  <2>6. CASE SettleUnfenced(w)
    BY <1>4, <2>6, NoStrayUndo, PhaseCases DEF journalVars
  <2>7. UNCHANGED <<jobStatus, journalPhase, currentSourceRun>>
        \/ ClaimGranted(w) \/ PrepareActivation(w) \/ StartCommit(w) \/ FinalizeActivation(w)
        \/ RollBack(w) \/ SettleUnfenced(w)
    BY <1>4, NoStrayUndo
       DEF WorkerStep, ReadJob, ClaimDeferred, ClaimRefused, BoundaryDenied, RebuildPlan,
           PrepareFails, StartFails, BeginActivation, BeginFails, PublishReplica, ActivationFails,
           FinalizeFails, ReadOutcome, RollBackFenced, RollBackRaises, InspectJournal, SettleRaises,
           Release, jobVars, journalVars, sqliteData
  <2> QED BY <1>1, <2>1, <2>2, <2>3, <2>4, <2>5, <2>6, <2>7
<1> QED BY <1>2, <1>3, <1>4

LEMMA BoundaryWorkerStep ==
  ASSUME MTyped, BoundaryInv, NoStoreFaults, NEW w \in Worker, WorkerStep(w),
         UpkeepOpen => pc[w] # "prepare", UNCHANGED <<mpc, upkeep>>
  PROVE  BoundaryInv'
<1>0. /\ Shaped(Version, SourceRun) /\ WorkerBound(w) /\ wjob[w] \in Job /\ wjob' = wjob /\ Live(w)
      /\ \E label \in PCs \ {"idle"} : pc' = [pc EXCEPT ![w] = label]
      /\ UpkeepOpen' = UpkeepOpen
  BY MTypedIsShaped, BoundaryParts, WorkerMoves DEF Shaped, UpkeepOpen
<1>1. OneWorkerPerJob'
  BY <1>0 DEF BoundaryInv, OneWorkerPerJob, Live, Shaped, ProcessTypes
<1>2. ActiveEpoch'
  <2>1. CASE ClaimGranted(w)
    BY <1>0, <2>1 DEF ClaimGranted, GrantLease, ActiveEpoch, Shaped, JournalTypes
  <2>2. CASE UNCHANGED leaseVars
    BY <2>2 DEF BoundaryInv, ActiveEpoch, leaseVars
  <2>3. CASE Release(w)
    BY <2>3 DEF BoundaryInv, ActiveEpoch, leaseVars, Release, ReleaseLease
  <2> QED BY <2>1, <2>2, <2>3, WorkerStepLease DEF ClaimDeferred, ClaimRefused
<1>3. ManagerHoldsBoundary'
  BY <1>0, OtherWorkersAlone, Versions DEF BoundaryInv, ManagerHoldsBoundary
<1>4. OneJournal'
  <2>1. CASE \A j \in Job : Unfinished(j)' => Unfinished(j)
    BY <1>0, <2>1 DEF BoundaryInv, OneJournal, OneUnfinished
  <2>2. CASE PrepareActivation(w) /\ ~Unfinished(wjob[w])
    <3>1. /\ ~Competing(wjob[w]) /\ ~UpkeepOpen
          /\ \A j \in Job \ {wjob[w]} : journalPhase'[j] = journalPhase[j]
      BY <1>0, <2>2, OtherJobsAlone DEF PrepareActivation
    <3> QED BY <1>0, <3>1 DEF Competing, OneJournal, OneUnfinished, Unfinished
  <2>3. CASE Unfinished(wjob[w]) \/ ~Unfinished(wjob[w])'
    BY <1>0, <2>1, <2>3, OtherJobsAlone DEF Unfinished
  <2>4. ASSUME ~Unfinished(wjob[w]), Unfinished(wjob[w])' PROVE PrepareActivation(w)
    <3>1. pc[w] \notin {"start", "begin", "publish", "switch"}
      BY <1>0, <2>4, PhaseCases DEF WorkerBound
    <3> QED
      BY <1>0, <2>4, <3>1, NoStrayUndo
         DEF WorkerStep, ReadJob, ClaimGranted, ClaimDeferred, ClaimRefused, BoundaryDenied,
         RebuildPlan, PrepareFails, StartCommit, StartFails, BeginActivation, BeginFails,
         PublishReplica, ActivationFails, CommitActivation, FinalizeActivation, FinalizeFails,
         ReadOutcome, RollBack, RollBackFenced, RollBackRaises, InspectJournal, SettleRaises,
         Release, Finalize, Unfinished, UnfinishedPhases, journalVars, Shaped, JournalTypes
  <2> QED BY <2>2, <2>3, <2>4
<1>5. \A v \in Worker : WorkerBound(v)'
  BY OtherWorkerBound, OwnWorkerBound
<1>6. \A j \in Job : JobBound(j)'
  BY WorkerStepJobBound
<1> QED BY <1>1, <1>2, <1>3, <1>4, <1>5, <1>6, BoundaryPartsNext

-----------------------------------------------------------------------------
(* The boundary: the other steps                                            *)

\* While no import has a journal, a worker's lock is all there is to it.
LEMMA BoundaryWithoutJournals ==
  ASSUME \A j \in Job : ~Unfinished(j)',
         OneWorkerPerJob', ActiveEpoch', ManagerHoldsBoundary', StartedHaveJobs',
         \A w \in Worker : /\ pc'[w] \in Journaling => fileLock' = w
                           /\ pc'[w] \notin {"start", "begin", "publish", "switch", "finalize"}
                           /\ pc'[w] \notin {"undo", "undone", "unknown"}
  PROVE  BoundaryInv'
<1>1. OneJournal'
  BY DEF OneJournal, OneUnfinished
<1>2. \A j \in Job : ~Open(j)' /\ ~Committed(j)'
  BY DEF Unfinished, UnfinishedPhases, Open, Committed
<1>3. \A j \in Job : JobBound(j)'
  BY <1>2 DEF JobBound
<1>4. \A w \in Worker : WorkerBound(w)'
  <2> TAKE w \in Worker
  <2>1. Live(w)' => wjob'[w] \in Job
    BY DEF StartedHaveJobs, Live, Ended
  <2>2. Live(w)' => ~Open(wjob[w])' /\ ~Committed(wjob[w])'
    BY <1>2, <2>1 DEF Open, Committed
  <2> QED BY <2>2 DEF WorkerBound
<1> QED BY <1>1, <1>3, <1>4, BoundaryPartsNext

\* With the boundary free, no live worker has an open journal.
LEMMA FreeBoundary ==
  ASSUME MTyped, BoundaryInv, fileLock = None, NEW w \in Worker
  PROVE  /\ pc[w] \notin Journaling /\ mpc = "idle"
         /\ Live(w) => ~Open(wjob[w])
BY NoneAssumption, Versions, BoundaryParts DEF WorkerBound, ManagerHoldsBoundary

LEMMA BoundaryOwner ==
  ASSUME MTyped, BoundaryInv, NEW j \in Job, Owner(j), UNCHANGED <<mpc, upkeep>>
  PROVE  BoundaryInv'
<1>0. /\ UNCHANGED <<journalVars, leaseVars, sqliteData, workerVars, lockVars>>
      /\ fileLock = None
  BY DEF Owner, CreateJob, CancelJob, ResumeJob, BoundaryFree
<1>1. OneWorkerPerJob' /\ ActiveEpoch' /\ ManagerHoldsBoundary' /\ OneJournal'
  BY <1>0 DEF BoundaryInv, OneWorkerPerJob, ActiveEpoch, ManagerHoldsBoundary, OneJournal,
       OneUnfinished, UpkeepOpen, Unfinished, Live, journalVars, leaseVars, workerVars, lockVars
<1>2. \A w \in Worker : WorkerBound(w)'
  <2> TAKE w \in Worker
  <2>1. WorkerBound(w) /\ (Live(w) => ~Open(wjob[w]))
    BY <1>0, BoundaryParts, FreeBoundary
  <2> QED
    BY <1>0, <2>1 DEF WorkerBound, Live, Open, Committed, journalVars, workerVars, lockVars
<1>3. \A i \in Job : JobBound(i)'
  <2> TAKE i \in Job
  <2>0. /\ JobBound(i) /\ journalPhase' = journalPhase /\ currentSourceRun' = currentSourceRun
        /\ jobStatus \in [Job -> AllStatuses] /\ jobParent \in [Job -> SourceRun]
    BY <1>0, BoundaryParts
       DEF journalVars, sqliteData, MTyped, MTypeOK, ProcessTypes, JobTypeOK, JournalTypes
  <2>1. CASE i # j
    <3>1. jobStatus'[i] = jobStatus[i] /\ jobParent'[i] = jobParent[i]
      BY <2>0, <2>1 DEF Owner, CreateJob, CreateJobRow, CancelJob, RequestJobCancel, ResumeJob,
           TransitionJob
    <3> QED BY <2>0, <3>1 DEF JobBound, Open, Committed, Running
  <2>2. CASE i = j
    <3> USE <2>0, <2>2 DEF JobBound, Open, Committed, Running
    <3>1. CASE CreateJob(j)
      BY <3>1 DEF CreateJob, CreateJobRow
    <3>2. CASE CancelJob(j)
      BY <3>2 DEF CancelJob, RequestJobCancel, TransitionJob, LiveStatuses
    <3>3. CASE ResumeJob(j)
      BY <3>3 DEF ResumeJob, TransitionJob
    <3> QED BY <3>1, <3>2, <3>3 DEF Owner
  <2> QED BY <2>1, <2>2
<1> QED BY <1>1, <1>2, <1>3, BoundaryPartsNext

\* A worker is started only for a queued job, which has no unfinished journal.
LEMMA BoundaryLaunch ==
  ASSUME MTyped, BoundaryInv, NoStoreFaults, NEW w \in Worker, NEW j \in Job, Launch(w, j),
         UNCHANGED <<mpc, upkeep>>
  PROVE  BoundaryInv'
<1> USE DEF MTyped, MTypeOK, ProcessTypes
<1>0. /\ UNCHANGED <<jobVars, jobParent, journalVars, leaseVars, sqliteData, wepoch, seen, lockVars>>
      /\ wjob' = [wjob EXCEPT ![w] = j] /\ pc' = [pc EXCEPT ![w] = "launched"]
  BY DEF Launch, Goto
<1>1. jobStatus[j] = "queued" /\ \A v \in Worker : Live(v) => wjob[v] # j
  BY DEF Launch, NoStoreFaults, NoDuplicateNorRestoreError, Live
<1>2. ~Open(j) /\ ~Committed(j)
  BY <1>1, BoundaryParts DEF JobBound, Running
<1>3. OneWorkerPerJob'
  BY <1>0, <1>1 DEF BoundaryInv, OneWorkerPerJob, Live
<1>4. ActiveEpoch' /\ ManagerHoldsBoundary' /\ OneJournal'
  BY <1>0 DEF BoundaryInv, ActiveEpoch, ManagerHoldsBoundary, OneJournal,
       OneUnfinished, UpkeepOpen, Unfinished, journalVars, leaseVars, lockVars
<1>5. \A v \in Worker : WorkerBound(v)'
  <2> TAKE v \in Worker
  <2>1. CASE v = w
    BY <1>0, <1>2, <2>1 DEF WorkerBound, Live, Ended, Journaling, Open, Committed, journalVars
  <2>2. CASE v # w
    BY <1>0, <2>2, BoundaryParts
       DEF WorkerBound, Live, Open, Committed, Running, Leased, journalVars, leaseVars, lockVars, jobVars
  <2> QED BY <2>1, <2>2
<1>6. \A i \in Job : JobBound(i)'
  BY <1>0, BoundaryParts DEF JobBound, Open, Committed, Running, journalVars, sqliteData, jobVars
<1> QED BY <1>3, <1>4, <1>5, <1>6, BoundaryPartsNext

LEMMA BoundaryWorkerDies ==
  ASSUME MTyped, BoundaryInv, NEW w \in Worker, WorkerDies(w), UNCHANGED <<mpc, upkeep>>
  PROVE  BoundaryInv'
<1> USE DEF MTyped, MTypeOK, ProcessTypes
<1>0. /\ UNCHANGED <<jobVars, jobParent, journalVars, leaseVars, sqliteData, wjob>>
      /\ pc' = [pc EXCEPT ![w] = "exited"] /\ wepoch' = [wepoch EXCEPT ![w] = 0]
      /\ seen' = [seen EXCEPT ![w] = "absent"]
      /\ fileLock' = IF fileLock = w THEN None ELSE fileLock
  BY DEF WorkerDies, Crash, RollBackCrash, Exit, Goto
<1>1. OneWorkerPerJob'
  BY <1>0 DEF BoundaryInv, OneWorkerPerJob, Live, Ended
<1>2. ActiveEpoch' /\ OneJournal'
  BY <1>0 DEF BoundaryInv, ActiveEpoch, OneJournal, OneUnfinished, UpkeepOpen, Unfinished,
       journalVars, leaseVars
<1>3. ManagerHoldsBoundary'
  BY <1>0, Versions DEF BoundaryInv, ManagerHoldsBoundary, UpkeepOpen
<1>4. \A v \in Worker : WorkerBound(v)'
  <2> TAKE v \in Worker
  <2>1. CASE v = w
    BY <1>0, <2>1 DEF WorkerBound, Live, Ended, Journaling
  <2>2. CASE v # w
    BY <1>0, <2>2, BoundaryParts
       DEF WorkerBound, Live, Open, Committed, Running, Leased, journalVars, leaseVars, jobVars
  <2> QED BY <2>1, <2>2
<1>5. \A i \in Job : JobBound(i)'
  BY <1>0, BoundaryParts DEF JobBound, Open, Committed, Running, journalVars, sqliteData, jobVars
<1> QED BY <1>1, <1>2, <1>3, <1>4, <1>5, BoundaryPartsNext

\* Recovery writes the journal it reconciles and no other; one that stays open is
\* one whose parent is not the current source run any more.
LEMMA ReconcileEnds ==
  ASSUME MTyped, ImportStores, NEW u \in Job \union {None}, Reconcile(u),
         u # None => u \in Job /\ Unfinished(u)
  PROVE  /\ \A j \in Job : Open(j)' => Open(j)
         /\ \A j \in Job : Committed(j)' => Committed(j)
         /\ u # None /\ Open(u)' => currentSourceRun # jobParent[u] /\ ~CommitProven(u)
         /\ \A j \in Job : Open(j) => ~CommitProven(j)
<1> USE DEF MTyped, MTypeOK, JournalTypes
<1>1. \A j \in Job : Open(j) => ~Switched(j)
  BY DEF ImportStores, Switched
<1>2. \A j \in Job : Open(j)' => Open(j)
  BY DEF Reconcile, Finalize, Open, journalVars
<1>3. \A j \in Job : Committed(j)' => Committed(j)
  BY DEF Reconcile, Finalize, Committed, journalVars
<1>4. u # None /\ Open(u)' => ~CommitProven(u) /\ ~RollbackProven(u)
  BY DEF Reconcile, Finalize, Open
<1>5. u # None /\ Open(u)' => currentSourceRun # jobParent[u]
  BY <1>1, <1>2, <1>4 DEF RollbackProven
<1> QED BY <1>1, <1>2, <1>3, <1>4, <1>5 DEF CommitProven

LEMMA RecoveredBound ==
  ASSUME MTyped, BoundaryInv, ImportStores, NEW scope \in SUBSET Job, NEW u \in Job \union {None},
         ToReconcile(scope, u), Reconcile(u), RecoverJobs(scope, u), UNCHANGED <<jobParent, sqliteData>>,
         NEW j \in Job
  PROVE  JobBound(j)'
<1> USE DEF MTyped, MTypeOK, ProcessTypes, JobTypeOK
<1>0. /\ JobBound(j) /\ currentSourceRun' = currentSourceRun /\ jobParent' = jobParent
      /\ u # None => u \in Job /\ Unfinished(u)
  BY BoundaryParts DEF sqliteData, ToReconcile
<1>1. CASE j \notin scope
  <2>1. jobStatus'[j] = jobStatus[j]
    BY <1>1 DEF RecoverJobs
  <2> QED BY <1>0, <2>1, ReconcileEnds DEF JobBound, Running
<1>2. CASE j \in scope
  <2>1. ASSUME Open(j)' PROVE JobBound(j)'
    <3>1. Open(j) /\ j = u
      BY <1>0, <1>2, <2>1, ReconcileEnds, PhaseCases DEF ToReconcile, BoundaryInv, OneJournal, OneUnfinished
    <3>2. currentSourceRun' # jobParent'[j] /\ ~CommitProven(j)
      BY <1>0, <2>1, <3>1, ReconcileEnds, NoneAssumption
    <3>3. jobStatus'[j] \in {"needs_attention", "canceled"}
      BY <1>0, <1>2, <3>1, <3>2 DEF RecoverJobs, RecoveredStatus, JobBound, Running, LiveStatuses
    <3> QED BY <2>1, <3>2, <3>3 DEF JobBound, Open, Committed
  <2>2. ASSUME Committed(j)' PROVE jobStatus'[j] = "succeeded"
    BY <1>0, <2>2, ReconcileEnds DEF RecoverJobs, JobBound, LiveStatuses
  <2> QED BY <2>1, <2>2 DEF JobBound
<1> QED BY <1>1, <1>2

LEMMA BoundaryRecovers ==
  ASSUME MTyped, BoundaryInv, ImportStores, UNCHANGED <<mpc, upkeep>>,
         \/ \E u \in Job \union {None} : Recover(u)
         \/ \E w \in Worker, u \in Job \union {None} : ProcessExit(w, u)
  PROVE  BoundaryInv'
<1> USE DEF MTyped, MTypeOK, ProcessTypes
<1>0. PICK u \in Job \union {None}, scope \in SUBSET Job :
        /\ ToReconcile(scope, u) /\ Reconcile(u) /\ RecoverJobs(scope, u)
        /\ UNCHANGED <<jobParent, sqliteData, wjob, wepoch, seen, lockVars>>
        /\ fileLock = None
        /\ RevokeLease \/ UNCHANGED leaseVars
        /\ pc' = pc \/ \E w \in Worker : pc[w] = "exited" /\ pc' = [pc EXCEPT ![w] = "reaped"]
  <2>1. ASSUME NEW v \in Job \union {None}, Recover(v)
        PROVE  /\ ToReconcile(Job, v) /\ Reconcile(v) /\ RecoverJobs(Job, v)
               /\ UNCHANGED <<jobParent, sqliteData, wjob, wepoch, seen, lockVars>>
               /\ fileLock = None /\ RevokeLease /\ pc' = pc
    BY <2>1 DEF Recover, BoundaryFree, workerVars
  <2>2. ASSUME NEW w \in Worker, NEW v \in Job \union {None}, ProcessExit(w, v)
        PROVE  \E scope \in SUBSET Job :
               /\ ToReconcile(scope, v) /\ Reconcile(v) /\ RecoverJobs(scope, v)
               /\ UNCHANGED <<jobParent, sqliteData, wjob, wepoch, seen, lockVars>>
               /\ fileLock = None
               /\ RevokeLease \/ UNCHANGED leaseVars
               /\ pc[w] = "exited" /\ pc' = [pc EXCEPT ![w] = "reaped"]
    <3> DEFINE scope == IF leaseHolder = w THEN {wjob[w]} ELSE {}
    <3>1. scope \in SUBSET Job
      BY <2>2 DEF ProcessExit, StartedHaveJobs
    <3>2. ToReconcile(scope, v) /\ RecoverJobs(scope, v)
      BY <2>2 DEF ProcessExit
    <3> HIDE DEF scope
    <3> QED BY <2>2, <3>1, <3>2 DEF ProcessExit, BoundaryFree, Goto
  <2> QED BY <2>1, <2>2
<1>1. u # None => u \in Job /\ Unfinished(u)
  BY <1>0 DEF ToReconcile
<1>2. \A j \in Job : (Open(j)' => Open(j)) /\ (Committed(j)' => Committed(j))
  BY <1>0, <1>1, ReconcileEnds
<1>3. OneWorkerPerJob'
  BY <1>0 DEF BoundaryInv, OneWorkerPerJob, Live, Ended
<1>4. ActiveEpoch'
  BY <1>0 DEF BoundaryInv, ActiveEpoch, RevokeLease, leaseVars
<1>5. ManagerHoldsBoundary' /\ OneJournal'
  <2>1. \A j \in Job : Unfinished(j)' => Unfinished(j)
    BY <1>2 DEF Unfinished, UnfinishedPhases, Open, Committed
  <2> QED
    BY <1>0, <2>1 DEF BoundaryInv, ManagerHoldsBoundary, OneJournal, OneUnfinished, UpkeepOpen, lockVars
<1>6. \A w \in Worker : WorkerBound(w)'
  <2> TAKE w \in Worker
  <2>0. WorkerBound(w) /\ (Live(w) => ~Open(wjob[w]) /\ wjob[w] \in Job) /\ pc[w] \notin Journaling
    BY <1>0, BoundaryParts, FreeBoundary DEF StartedHaveJobs, Live, Ended
  <2>1. pc'[w] = pc[w] \/ (pc[w] = "exited" /\ pc'[w] = "reaped")
    BY <1>0
  <2>2. Live(w)' => Live(w) /\ pc'[w] = pc[w] /\ ~Open(wjob[w])' /\ (Committed(wjob[w])' => Committed(wjob[w]))
    BY <1>0, <1>2, <2>0, <2>1 DEF Live, Ended, Open, Committed
  <2>3. pc'[w] \notin Journaling
    BY <2>0, <2>1 DEF Journaling
  <2> QED BY <2>0, <2>1, <2>2, <2>3 DEF WorkerBound, Journaling
<1>7. \A j \in Job : JobBound(j)'
  BY <1>0, RecoveredBound
<1> QED BY <1>3, <1>4, <1>5, <1>6, <1>7, BoundaryPartsNext

\* A command that begins has the boundary, its own journal and no other.
LEMMA BoundaryBegin ==
  ASSUME MTyped, BoundaryInv, NEW t \in Table, BeginDeletion(t) \/ \E v \in Layout : BeginLayout(t, v)
  PROVE  BoundaryInv'
<1>0. /\ UNCHANGED importVars /\ fileLock = None /\ fileLock' = Manager /\ UpkeepOpen'
      /\ \A j \in Job : ~Unfinished(j)
  BY DEF BeginDeletion, BeginLayout, Starts, BoundaryFree, NoJournalButOwn, UpkeepOpen
<1>1. OneWorkerPerJob' /\ ActiveEpoch' /\ StartedHaveJobs'
  BY <1>0 DEF MTyped, BoundaryInv, OneWorkerPerJob, Live, ActiveEpoch, StartedHaveJobs, importVars,
       leaseVars, workerVars
<1>2. \A j \in Job : ~Unfinished(j)'
  BY <1>0 DEF importVars, journalVars, Unfinished
<1>3. \A w \in Worker : pc'[w] = pc[w] /\ WorkerBound(w) /\ pc[w] \notin Journaling
  BY <1>0, BoundaryParts, FreeBoundary DEF importVars, workerVars
<1> QED
  BY <1>0, <1>1, <1>2, <1>3, BoundaryWithoutJournals
     DEF ManagerHoldsBoundary, WorkerBound, Journaling

\* Until it ends it keeps them.
LEMMA BoundaryCommand ==
  ASSUME MTyped, BoundaryInv, ManagerStep \/ ManagerDies
  PROVE  BoundaryInv'
<1>0. /\ UNCHANGED importVars /\ mpc # "idle"
      /\ mpc' = "idle" \/ (fileLock' = fileLock /\ (UpkeepOpen => UpkeepOpen'))
  <2>1. UNCHANGED importVars /\ mpc # "idle"
    BY DEF ManagerStep, StartUpkeep, PublishUpkeep, RecordUpkeep, SwitchDeletion, SwitchLayout,
         CollectObjects, FinishUpkeep, UpkeepFails, UndoDeletion, UndoLayout, EndUndo, ManagerDies
  <2>2. \/ mpc' = "idle"
        \/ fileLock' = fileLock /\ UNCHANGED upkeep
        \/ fileLock' = fileLock /\ \E p \in Phases \ {"none", "finalized"} : Enter(p)
        \/ fileLock' = fileLock /\ Enter("replica_published")
    BY DEF ManagerStep, StartUpkeep, PublishUpkeep, RecordUpkeep, SwitchDeletion, SwitchLayout,
         CollectObjects, FinishUpkeep, UpkeepFails, UndoDeletion, UndoLayout, EndUndo, ManagerDies,
         ManagerEnds, Phases
  <2> QED BY <2>1, <2>2, EnterRow DEF UpkeepOpen, MTyped, MTypeOK
<1>1. fileLock = Manager /\ UpkeepOpen /\ \A j \in Job : ~Unfinished(j)
  BY <1>0 DEF BoundaryInv, ManagerHoldsBoundary, OneJournal
<1>2. OneWorkerPerJob' /\ ActiveEpoch' /\ StartedHaveJobs'
  BY <1>0 DEF MTyped, BoundaryInv, OneWorkerPerJob, Live, ActiveEpoch, StartedHaveJobs, importVars,
       leaseVars, workerVars
<1>3. \A j \in Job : ~Unfinished(j)'
  BY <1>0, <1>1 DEF importVars, journalVars, Unfinished
<1>4. \A w \in Worker : pc'[w] = pc[w] /\ WorkerBound(w) /\ pc[w] \notin Journaling
  BY <1>0, <1>1, BoundaryParts, Versions DEF importVars, workerVars, WorkerBound
<1>5. ManagerHoldsBoundary'
  BY <1>0, <1>1 DEF ManagerHoldsBoundary
<1> QED
  BY <1>2, <1>3, <1>4, <1>5, BoundaryWithoutJournals DEF WorkerBound, Journaling

LEMMA BoundaryUpkeepRecovery ==
  ASSUME MTyped, BoundaryInv, RecoverUpkeep \/ RecoverUpkeepCrash
  PROVE  BoundaryInv'
<1>0. /\ UNCHANGED <<journalVars, workerVars, mpc>> /\ fileLock = None /\ UpkeepOpen
      /\ fileLock' = fileLock /\ (RevokeLease \/ UNCHANGED leaseVars)
  BY DEF RecoverUpkeep, RecoverUpkeepCrash, BoundaryFree, importVars, lockVars
<1>1. \A w \in Worker : pc[w] \notin Journaling /\ WorkerBound(w)
  BY <1>0, FreeBoundary, BoundaryParts
<1>5. mpc = "idle"
  BY <1>0, Versions DEF BoundaryInv, ManagerHoldsBoundary
<1>2. OneWorkerPerJob' /\ StartedHaveJobs' /\ ManagerHoldsBoundary'
  BY <1>0, <1>5 DEF MTyped, BoundaryInv, OneWorkerPerJob, Live, StartedHaveJobs, workerVars,
       ManagerHoldsBoundary
<1>3. ActiveEpoch'
  BY <1>0 DEF BoundaryInv, ActiveEpoch, RevokeLease, leaseVars
<1>4. \A j \in Job : ~Unfinished(j)'
  BY <1>0 DEF BoundaryInv, OneJournal, journalVars, Unfinished
<1> QED
  BY <1>0, <1>1, <1>2, <1>3, <1>4, BoundaryWithoutJournals DEF WorkerBound, Journaling, workerVars

LEMMA BoundaryRefused ==
  ASSUME MTyped, BoundaryInv, NEW w \in Worker, PrepareRefused(w)
  PROVE  BoundaryInv'
<1>0. /\ UNCHANGED <<journalVars, leaseVars, wjob, mpc, upkeep>> /\ UpkeepOpen /\ fileLock = None
      /\ pc[w] = "prepare" /\ pc' = [pc EXCEPT ![w] = "failed"] /\ pc \in [Worker -> PCs]
  BY DEF PrepareRefused, Goto, managerVars, MTyped, MTypeOK, ProcessTypes
<1>1. mpc = "idle" /\ \A v \in Worker : pc[v] \notin Journaling /\ WorkerBound(v)
  BY <1>0, FreeBoundary, BoundaryParts
<1>2. OneWorkerPerJob' /\ StartedHaveJobs' /\ ManagerHoldsBoundary' /\ ActiveEpoch'
  BY <1>0, <1>1 DEF MTyped, BoundaryInv, OneWorkerPerJob, Live, Ended, StartedHaveJobs,
       ManagerHoldsBoundary, ActiveEpoch, leaseVars
<1>3. \A j \in Job : ~Unfinished(j)'
  BY <1>0 DEF BoundaryInv, OneJournal, journalVars, Unfinished
<1> QED BY <1>0, <1>1, <1>2, <1>3, BoundaryWithoutJournals DEF WorkerBound, Journaling

LEMMA BoundaryStays ==
  ASSUME MTyped, BoundaryInv,
         UNCHANGED <<jobStatus, jobParent, journalPhase, leaseVars, workerVars, fileLock,
                     currentSourceRun, mpc, upkeep>>
  PROVE  BoundaryInv'
BY DEF BoundaryInv, OneWorkerPerJob, ActiveEpoch, WorkersHoldBoundary, ManagerHoldsBoundary,
       OneJournal, OneUnfinished, OpenIsHeld, CommittedIsDone, WorkersHaveJournals,
       OpenRunsOrIsBlocked, CommittedHasSucceeded, Live, Leased, Open, Committed, Unfinished,
       UpkeepOpen, Running, leaseVars, workerVars

LEMMA BoundaryNext ==
  ASSUME MTyped, BoundaryInv, ImportStores, NoStoreFaults, [MNext]_managedVars
  PROVE  BoundaryInv'
<1>1. CASE ImportStep
  <2>0. UNCHANGED <<mpc, upkeep>>
    BY <1>1 DEF ImportStep, Recorded
  <2>1. ASSUME NEW u \in Job, RecoveryCrash(u) PROVE BoundaryInv'
    BY <2>0, <2>1, BoundaryStays DEF RecoveryCrash, jobVars, journalVars, sqliteData, lockVars
  <2> QED
    BY <1>1, <2>0, <2>1, BoundaryOwner, BoundaryLaunch, BoundaryWorkerStep, BoundaryWorkerDies,
       BoundaryRecovers DEF ImportStep
<1>2. CASE UNCHANGED managedVars
  BY <1>2, BoundaryStays DEF managedVars, managerVars, vars, jobVars, journalVars, lockVars, sqliteData
<1> QED
  BY <1>1, <1>2, BoundaryRefused, BoundaryBegin, BoundaryCommand, BoundaryUpkeepRecovery DEF MNext

-----------------------------------------------------------------------------
(* The two stores: the import beside a deletion or a layout                 *)

\* The first journal of an import is written over settled stores.
OpensSettled(j) ==
  /\ ~UpkeepOpen /\ \A i \in Job : ~Unfinished(i)
  /\ PrepareJournal(j) /\ duckManifest = activeVersion
  /\ UNCHANGED <<duckManifest, sqliteData>>

\* A rollback of DuckDB whose process dies before it is recorded.
Restores(j) ==
  /\ Open(j) /\ duckManifest' = activeVersion /\ UNCHANGED <<journalVars, sqliteData>>

ImportEffect ==
  \/ UNCHANGED <<journalVars, duckManifest, sqliteData>>
  \/ \E j \in Job : OpensSettled(j) \/ StartsCommit(j) \/ Undoes(j) \/ Completes(j) \/ Restores(j)
  \/ \E w \in Worker : wjob[w] \in Job /\ (Switches(w) \/ \E t \in Table : Publishes(w, t))

\* Rolling an open journal back gives DuckDB the versions SQLite names.
LEMMA OpenRestoresActive ==
  ASSUME MTyped, ImportStores, NEW j \in Job, Open(j)
  PROVE  Restored(j) = activeVersion
<1>1. \A t \in Table : Restored(j)[t] = activeVersion[t]
  BY DEF Restored, ImportStores
<1> QED BY <1>1 DEF Restored, MTyped, MTypeOK, JournalTypes

LEMMA CommittedIsProven ==
  ASSUME ImportStores, NEW j \in Job, Committed(j)
  PROVE  CommitProven(j) /\ ~RollbackProven(j) /\ duckManifest = activeVersion
BY DEF ImportStores, CommittedIsServed, CommitProven, RollbackProven, Switched, ReplicaMatches

\* What recovery, or a command that dies, does to the stores.
LEMMA ReconcileEffect ==
  ASSUME MTyped, ImportStores, NEW u \in Job \union {None}, Reconcile(u),
         u # None => u \in Job /\ Unfinished(u), UNCHANGED sqliteData
  PROVE  ImportEffect
<1>1. CASE u = None
  BY <1>1 DEF Reconcile, ImportEffect
<1>2. CASE u # None
  <2>1. CASE CommitProven(u)
    <3>1. Committed(u)
      BY <1>2, <2>1, ReconcileEnds, PhaseCases
    <3> QED BY <1>2, <2>1, <3>1, CommittedIsProven DEF Reconcile, ImportEffect, Completes, Finalize
  <2>2. CASE RollbackProven(u) /\ ~CommitProven(u)
    <3>1. Open(u)
      BY <1>2, <2>2, CommittedIsProven, PhaseCases
    <3>2. Undoes(u)
      BY <1>2, <2>2, <3>1, OpenRestoresActive DEF Reconcile, Undoes, Finalize, Outcomes
    <3> QED BY <1>2, <3>2 DEF ImportEffect
  <2>3. CASE ~CommitProven(u) /\ ~RollbackProven(u)
    BY <1>2, <2>3 DEF Reconcile, ImportEffect
  <2> QED BY <2>1, <2>2, <2>3
<1> QED BY <1>1, <1>2

\* What a worker does to them.
LEMMA ManagedWorkerEffect ==
  ASSUME MTyped, BoundaryInv, StoresInv, NoStoreFaults, NEW w \in Worker, WorkerStep(w),
         UpkeepOpen => pc[w] # "prepare"
  PROVE  ImportEffect
<1> DEFINE j == wjob[w]
<1>0. j \in Job /\ WorkerBound(w) /\ Live(w)
  BY WorkerMoves, BoundaryParts DEF MTyped, MTypeOK
<1>1. CASE PrepareActivation(w)
  <2>1. ~Unfinished(j)
    BY <1>0, <1>1, PhaseCases DEF PrepareActivation, WorkerBound
  <2>2. ~UpkeepOpen /\ PrepareJournal(j) /\ \A i \in Job : ~Unfinished(i)
    BY <1>1, <2>1 DEF PrepareActivation, Competing
  <2>3. OpensSettled(j)
    BY <1>1, <2>2 DEF PrepareActivation, OpensSettled, StoresInv, SettledStores
  <2> QED BY <1>0, <2>3 DEF ImportEffect
<1>2. CASE StartCommit(w)
  <2>1. StartsCommit(j)
    BY <1>0, <1>2 DEF StartCommit, StartsCommit, WorkerBound
  <2> QED BY <1>0, <2>1 DEF ImportEffect
<1>3. ASSUME NEW t \in Table, PublishReplica(w, t) PROVE ImportEffect
  <2>1. Publishes(w, t)
    BY <1>0, <1>3 DEF PublishReplica, Publishes, WorkerBound, Goto, jobVars
  <2> QED BY <1>0, <2>1 DEF ImportEffect
<1>4. CASE CommitActivation(w)
  <2>1. Switches(w)
    BY <1>0, <1>4 DEF CommitActivation, Switches, WorkerBound
  <2> QED BY <1>0, <2>1 DEF ImportEffect
<1>5. CASE FinalizeActivation(w)
  <2>1. Committed(j)
    BY <1>0, <1>5 DEF WorkerBound, FinalizeActivation
  <2>2. Completes(j)
    BY <1>0, <1>5, <2>1, CommittedIsProven
       DEF StoresInv, Completes, FinalizeActivation, Finalize, Committed
  <2> QED BY <1>0, <2>2 DEF ImportEffect
<1>6. CASE RollBack(w)
  <2>1. CASE Unfinished(j)
    <3>1. Open(j)
      BY <1>0, <1>6, <2>1, PhaseCases DEF WorkerBound, RollBack
    <3>2. Undoes(j)
      BY <1>0, <1>6, <2>1, <3>1, OpenRestoresActive DEF StoresInv, RollBack, Undoes, Finalize, Outcomes
    <3> QED BY <1>0, <3>2 DEF ImportEffect
  <2>2. CASE ~Unfinished(j)
    BY <1>6, <2>2 DEF RollBack, ImportEffect
  <2> QED BY <2>1, <2>2
<1>7. \/ UNCHANGED <<journalVars, duckManifest, sqliteData>>
      \/ PrepareActivation(w) \/ StartCommit(w) \/ (\E t \in Table : PublishReplica(w, t))
      \/ CommitActivation(w) \/ FinalizeActivation(w) \/ RollBack(w)
  BY NoStrayUndo
     DEF WorkerStep, ReadJob, ClaimGranted, ClaimDeferred, ClaimRefused, BoundaryDenied,
         RebuildPlan, PrepareFails, StartFails, BeginActivation, BeginFails, ActivationFails,
         FinalizeFails, ReadOutcome, RollBackFenced, RollBackRaises, InspectJournal, SettleUnfenced,
         SettleRaises, Release
<1> QED BY <1>1, <1>2, <1>3, <1>4, <1>5, <1>6, <1>7 DEF ImportEffect

LEMMA ImportEffects ==
  ASSUME MTyped, BoundaryInv, StoresInv, NoStoreFaults, ImportStep
  PROVE  ImportEffect
<1>1. ASSUME NEW j \in Job, Owner(j) PROVE ImportEffect
  BY <1>1 DEF Owner, CreateJob, CancelJob, ResumeJob, ImportEffect
<1>2. ASSUME NEW w \in Worker, NEW j \in Job, Launch(w, j) PROVE ImportEffect
  BY <1>2 DEF Launch, ImportEffect
<1>3. ASSUME NEW w \in Worker, WorkerDies(w) PROVE ImportEffect
  <2>1. CASE Crash(w)
    BY <2>1 DEF Crash, ImportEffect
  <2>2. CASE RollBackCrash(w)
    <3>1. /\ pc[w] = "rollback" /\ Live(w) /\ wjob[w] \in Job /\ Unfinished(wjob[w])
          /\ duckManifest' = Restored(wjob[w]) /\ UNCHANGED <<journalVars, sqliteData>>
      BY <2>2 DEF RollBackCrash, Live, Ended, MTyped, StartedHaveJobs
    <3>2. WorkerBound(w)
      BY BoundaryParts
    <3>3. Open(wjob[w])
      BY <3>1, <3>2, PhaseCases DEF WorkerBound
    <3>4. Restores(wjob[w])
      BY <3>1, <3>3, OpenRestoresActive DEF Restores, StoresInv
    <3> QED BY <3>1, <3>4 DEF ImportEffect
  <2> QED BY <1>3, <2>1, <2>2 DEF WorkerDies
<1>4. ASSUME NEW u \in Job \union {None}, Recover(u) PROVE ImportEffect
  BY <1>4, ReconcileEffect DEF Recover, ToReconcile, StoresInv
<1>5. ASSUME NEW w \in Worker, NEW u \in Job \union {None}, ProcessExit(w, u) PROVE ImportEffect
  <2>1. wjob[w] \in Job
    BY <1>5 DEF ProcessExit, MTyped, StartedHaveJobs
  <2> QED BY <1>5, <2>1, ReconcileEffect DEF ProcessExit, ToReconcile, StoresInv
<1>6. ASSUME NEW u \in Job, RecoveryCrash(u) PROVE ImportEffect
  <2>1. Open(u)
    BY <1>6, CommittedIsProven, PhaseCases DEF RecoveryCrash, StoresInv
  <2>2. Restores(u)
    BY <1>6, <2>1, OpenRestoresActive DEF RecoveryCrash, Restores, StoresInv
  <2> QED BY <2>2 DEF ImportEffect
<1> QED BY <1>1, <1>2, <1>3, <1>4, <1>5, <1>6, ManagedWorkerEffect DEF ImportStep

\* What ImportStores says of one journal.
JournalStored(j) ==
  /\ Open(j) =>
       /\ journalTarget[j] = None
       /\ \A t \in Table : IF t \in TablesOf[j] THEN rollbackManifest[j][t] = activeVersion[t]
                                                ELSE duckManifest[t] = activeVersion[t]
  /\ Committed(j) =>
       /\ journalTarget[j] # None /\ currentSourceRun = journalTarget[j]
       /\ duckManifest = activeVersion
       /\ \A t \in TablesOf[j] : duckManifest[t] = journalTarget[j]

LEMMA ImportStoresParts ==
  ImportStores <=> SwitchIsComplete /\ \A j \in Job : JournalStored(j)
BY DEF ImportStores, CommittedIsServed, JournalStored

LEMMA ImportStoresPartsNext ==
  ASSUME SwitchIsComplete', \A j \in Job : JournalStored(j)'
  PROVE  ImportStores'
BY DEF ImportStores, CommittedIsServed, JournalStored

LEMMA JournalStoredNext ==
  ASSUME MTyped, BoundaryInv, StoresInv, ImportEffect, NEW i \in Job
  PROVE  JournalStored(i)'
<1> USE DEF MTyped, MTypeOK, JournalTypes
<1>0. /\ JournalStored(i) /\ SwitchIsComplete
      /\ \A k \in Job : (Open(k) \/ Committed(k)) /\ (Open(i) \/ Committed(i)) => k = i
  BY ImportStoresParts, PhaseCases DEF StoresInv, BoundaryInv, OneJournal, OneUnfinished
<1>1. CASE UNCHANGED <<journalVars, duckManifest, sqliteData>>
  BY <1>0, <1>1 DEF JournalStored, Open, Committed, journalVars, sqliteData
<1>2. ASSUME NEW j \in Job, OpensSettled(j) PROVE JournalStored(i)'
  <2>1. CASE i = j
    BY <1>2, <2>1 DEF OpensSettled, PrepareJournal, JournalStored, Open, Committed, sqliteData
  <2>2. CASE i # j
    BY <1>2, <2>2 DEF OpensSettled, PrepareJournal, JournalStored, Open, Committed, Unfinished,
       UnfinishedPhases
  <2> QED BY <2>1, <2>2
<1>3. ASSUME NEW j \in Job, StartsCommit(j) PROVE JournalStored(i)'
  <2>1. Open(i)' => Open(i)
    BY <1>3 DEF StartsCommit, Open
  <2>2. ~Committed(i)'
    BY <1>0, <1>3 DEF StartsCommit, Open, Committed
  <2> QED BY <1>0, <1>3, <2>1, <2>2 DEF StartsCommit, JournalStored, sqliteData
<1>4. ASSUME NEW j \in Job, Undoes(j) \/ Completes(j) PROVE JournalStored(i)'
  <2>1. journalPhase' = [journalPhase EXCEPT ![j] = "finalized"] /\ (Open(j) \/ Committed(j))
    BY <1>4 DEF Undoes, Completes
  <2> QED BY <1>0, <2>1 DEF JournalStored, Open, Committed
<1>5. ASSUME NEW j \in Job, Restores(j) PROVE JournalStored(i)'
  BY <1>0, <1>5 DEF Restores, JournalStored, Open, Committed, journalVars, sqliteData
<1>6. ASSUME NEW w \in Worker, wjob[w] \in Job, Switches(w) PROVE JournalStored(i)'
  <2> DEFINE j == wjob[w]
  <2>0. /\ Open(j) /\ pc[w] = "switch"
        /\ activeVersion' = [t \in Table |-> IF t \in TablesOf[j] THEN w ELSE activeVersion[t]]
        /\ currentSourceRun' = w /\ duckManifest' = duckManifest
        /\ journalPhase' = [journalPhase EXCEPT ![j] = "source_selection_committed"]
        /\ journalTarget' = [journalTarget EXCEPT ![j] = w]
    BY <1>6 DEF Switches, CommitActivation
  <2>1. \A t \in TablesOf[j] : duckManifest[t] = w
    BY <1>0, <2>0 DEF SwitchIsComplete
  <2>2. \A t \in Table \ TablesOf[j] : duckManifest[t] = activeVersion[t]
    BY <1>6, <2>0 DEF StoresInv, ImportStores
  <2>3. duckManifest = activeVersion'
    BY <2>0, <2>1, <2>2
  <2>4. CASE i = j
    BY <1>6, <2>0, <2>1, <2>3, <2>4, NoneAssumption DEF JournalStored, Open, Committed
  <2>5. CASE i # j
    BY <1>0, <1>6, <2>0, <2>5 DEF JournalStored, Open, Committed
  <2> QED BY <2>4, <2>5
<1>7. ASSUME NEW w \in Worker, wjob[w] \in Job, NEW t \in Table, Publishes(w, t)
      PROVE  JournalStored(i)'
  <2>0. /\ Open(wjob[w]) /\ t \in TablesOf[wjob[w]]
        /\ duckManifest' = [duckManifest EXCEPT ![t] = w] /\ UNCHANGED <<journalVars, sqliteData>>
    BY <1>7 DEF Publishes
  <2>1. CASE i = wjob[w]
    BY <1>0, <2>0, <2>1 DEF JournalStored, Open, Committed, journalVars, sqliteData
  <2>2. CASE i # wjob[w]
    BY <1>0, <1>7, <2>0, <2>2 DEF JournalStored, Open, Committed, journalVars
  <2> QED BY <2>1, <2>2
<1> QED BY <1>1, <1>2, <1>3, <1>4, <1>5, <1>6, <1>7 DEF ImportEffect

\* A worker about to switch holds the boundary, and no one else reaches DuckDB.
LEMMA SwitchIsCompleteStays ==
  ASSUME MTyped, BoundaryInv, StoresInv, NoStoreFaults, ImportStep
  PROVE  SwitchIsComplete'
<1> USE DEF MTyped, MTypeOK, ProcessTypes
<1> SUFFICES ASSUME NEW w \in Worker, pc'[w] = "switch"
             PROVE  \A t \in TablesOf[wjob'[w]] : duckManifest'[t] = w
  BY DEF SwitchIsComplete
<1>0. /\ WorkerBound(w) /\ (pc[w] # "idle" => wjob[w] \in Job)
      /\ pc[w] = "switch" => /\ fileLock = w /\ Open(wjob[w])
                             /\ \A t \in TablesOf[wjob[w]] : duckManifest[t] = w
      /\ \A v \in Worker : pc[v] \in Journaling => fileLock = v
      /\ \A v \in Worker : Live(v) /\ Open(wjob[v]) => fileLock = v
  BY BoundaryParts
     DEF StoresInv, ImportStores, SwitchIsComplete, BoundaryInv, WorkersHoldBoundary, OpenIsHeld,
         WorkerBound, Journaling, StartedHaveJobs
<1>1. ASSUME pc[w] = "switch", wjob'[w] = wjob[w], duckManifest' = duckManifest
      PROVE  \A t \in TablesOf[wjob'[w]] : duckManifest'[t] = w
  BY <1>0, <1>1
<1>2. ASSUME NEW j \in Job, Owner(j) PROVE pc[w] = "switch" /\ wjob'[w] = wjob[w] /\ duckManifest' = duckManifest
  BY <1>2 DEF Owner, CreateJob, CancelJob, ResumeJob, workerVars
<1>3. ASSUME NEW v \in Worker, NEW j \in Job, Launch(v, j)
      PROVE pc[w] = "switch" /\ wjob'[w] = wjob[w] /\ duckManifest' = duckManifest
  BY <1>3 DEF Launch, Goto
<1>4. ASSUME NEW v \in Worker, WorkerDies(v)
      PROVE pc[w] = "switch" /\ wjob'[w] = wjob[w] /\ duckManifest' = duckManifest
  <2>1. pc[w] = "switch" /\ wjob'[w] = wjob[w]
    BY <1>4 DEF WorkerDies, Crash, RollBackCrash, Exit, Goto
  <2>2. ~RollBackCrash(v)
    <3>1. SUFFICES ASSUME RollBackCrash(v) PROVE FALSE
      OBVIOUS
    <3>2. pc[v] = "rollback" /\ Unfinished(wjob[v]) /\ Live(v)
      BY <3>1 DEF RollBackCrash, Live, Ended
    <3>3. WorkerBound(v)
      BY BoundaryParts
    <3>4. Open(wjob[v])
      BY <3>2, <3>3, PhaseCases DEF WorkerBound
    <3> QED BY <1>0, <2>1, <3>2, <3>4
  <2> QED BY <1>4, <2>1, <2>2 DEF WorkerDies, Crash
<1>5. ASSUME fileLock = None, pc'[w] = pc[w] PROVE FALSE
  BY <1>0, <1>5, NoneAssumption
<1>6. ASSUME NEW u \in Job \union {None}, Recover(u) \/ (\E v \in Worker : ProcessExit(v, u))
      PROVE  FALSE
  BY <1>5, <1>6 DEF Recover, ProcessExit, BoundaryFree, Goto, workerVars
<1>7. ASSUME NEW u \in Job, RecoveryCrash(u) PROVE FALSE
  BY <1>5, <1>7 DEF RecoveryCrash, BoundaryFree, workerVars
<1>8. ASSUME NEW v \in Worker, WorkerStep(v), v # w
      PROVE pc[w] = "switch" /\ wjob'[w] = wjob[w] /\ duckManifest' = duckManifest
  <2>1. pc[w] = "switch" /\ wjob' = wjob
    BY <1>8, OtherWorkersAlone, WorkerMoves, MTypedIsShaped
  <2>2. pc[v] \notin Journaling /\ (Live(v) => ~Open(wjob[v]))
    BY <1>0, <1>8, <2>1
  <2>3. ~RollBack(v) \/ ~Unfinished(wjob[v])
    <3>1. WorkerBound(v)
      BY BoundaryParts
    <3> QED BY <2>2, <3>1, PhaseCases DEF WorkerBound, RollBack, Live, Ended
  <2>4. duckManifest' = duckManifest
    BY <1>8, <2>2, <2>3, NoStrayUndo
       DEF Journaling, WorkerStep, ReadJob, ClaimGranted, ClaimDeferred, ClaimRefused, BoundaryDenied,
         RebuildPlan, PrepareActivation, PrepareFails, StartCommit, StartFails, BeginActivation,
         BeginFails, PublishReplica, ActivationFails, CommitActivation, FinalizeActivation,
         FinalizeFails, ReadOutcome, RollBack, RollBackFenced, InspectJournal, SettleUnfenced,
         SettleRaises, Release
  <2> QED BY <2>1, <2>4
<1>9. ASSUME WorkerStep(w) PROVE \A t \in TablesOf[wjob'[w]] : duckManifest'[t] = w
  <2>0. wjob[w] \in Job /\ wjob' = wjob
    BY <1>9, WorkerMoves
  <2>1. CASE BeginActivation(w)
    BY <2>0, <2>1 DEF BeginActivation, Goto
  <2>2. ASSUME NEW t \in Table, PublishReplica(w, t)
        PROVE  \A u \in TablesOf[wjob'[w]] : duckManifest'[u] = w
    <3>1. duckManifest' = [duckManifest EXCEPT ![t] = w] /\ \A u \in TablesOf[wjob[w]] \ {t} : duckManifest[u] = w
      BY <2>2 DEF PublishReplica, Goto
    <3>2. TablesOf[wjob[w]] \subseteq Table
      BY <2>0, TablesOfAssumption
    <3> QED BY <2>0, <3>1, <3>2 DEF JournalTypes
  <2>3. BeginActivation(w) \/ \E t \in Table : PublishReplica(w, t)
    BY <1>9 DEF WorkerStep, ReadJob, ClaimGranted, ClaimDeferred, ClaimRefused, BoundaryDenied,
       RebuildPlan, PrepareActivation, PrepareFails, StartCommit, StartFails, BeginFails, ActivationFails, CommitActivation, FinalizeActivation,
       FinalizeFails, ReadOutcome, RollBack, RollBackFenced, RollBackRaises, RollBackDeferred,
       InspectJournal, UndoReplica, UndoFails, SettleUnfenced, SettleRaises, Release, Exit, Goto
  <2> QED BY <2>1, <2>2, <2>3
<1>10. ASSUME NEW v \in Worker, WorkerStep(v) PROVE \A t \in TablesOf[wjob'[w]] : duckManifest'[t] = w
  BY <1>1, <1>8, <1>9, <1>10
<1> QED BY <1>1, <1>2, <1>3, <1>4, <1>6, <1>7, <1>10 DEF ImportStep

LEMMA SettledStoresImport ==
  ASSUME MTyped, BoundaryInv, StoresInv, ImportEffect, upkeep' = upkeep
  PROVE  SettledStores'
<1> USE DEF MTyped, MTypeOK, JournalTypes
<1> SUFFICES ASSUME \A j \in Job : ~Unfinished(j)', ~UpkeepOpen' PROVE duckManifest' = activeVersion'
  BY DEF SettledStores
<1>0. ~UpkeepOpen
  BY DEF UpkeepOpen
<1>1. CASE UNCHANGED <<journalVars, duckManifest, sqliteData>>
  BY <1>0, <1>1 DEF StoresInv, SettledStores, Unfinished, journalVars, sqliteData
<1>2. ASSUME NEW j \in Job, OpensSettled(j) PROVE FALSE
  BY <1>2 DEF OpensSettled, PrepareJournal, Unfinished, UnfinishedPhases
<1>3. ASSUME NEW j \in Job, StartsCommit(j) PROVE FALSE
  BY <1>3 DEF StartsCommit, Unfinished, UnfinishedPhases
<1>4. ASSUME NEW j \in Job, Undoes(j) \/ Completes(j) \/ Restores(j) PROVE duckManifest' = activeVersion'
  BY <1>4 DEF Undoes, Completes, Restores, sqliteData
<1>5. ASSUME NEW w \in Worker, wjob[w] \in Job, Switches(w) PROVE FALSE
  BY <1>5 DEF Switches, CommitActivation, Unfinished, UnfinishedPhases
<1>6. ASSUME NEW w \in Worker, wjob[w] \in Job, NEW t \in Table, Publishes(w, t) PROVE FALSE
  BY <1>6, PhaseCases DEF Publishes, Unfinished, journalVars
<1> QED BY <1>1, <1>2, <1>3, <1>4, <1>5, <1>6 DEF ImportEffect

\* An open deletion or layout keeps its stores to itself.
LEMMA ImportEffectUpkeep ==
  ASSUME BoundaryInv, ImportEffect, UpkeepOpen
  PROVE  UNCHANGED <<journalVars, duckManifest, sqliteData>>
<1>1. \A j \in Job : ~Open(j) /\ ~Committed(j)
  BY PhaseCases DEF BoundaryInv, OneJournal
<1> QED
  BY <1>1 DEF ImportEffect, OpensSettled, StartsCommit, Undoes, Completes, Restores, Switches, Publishes

LEMMA CatalogueKept ==
  ASSUME ImportStep, UNCHANGED sqliteData, MTyped
  PROVE  UNCHANGED <<tableRun, catalogue>>
<1>1. /\ catalogue' = [t \in Table |-> catalogue[t]] /\ tableRun' = [t \in Table |-> tableRun[t]]
  BY DEF ImportStep, Recorded, sqliteData
<1> QED BY <1>1 DEF MTyped, MTypeOK

LEMMA StoresInvImport ==
  ASSUME MTyped, BoundaryInv, StoresInv, NoStoreFaults, ImportStep
  PROVE  StoresInv'
<1>0. ImportEffect /\ UNCHANGED <<mpc, upkeep, base>>
  BY ImportEffects DEF ImportStep, Recorded
<1>1. ImportStores'
  BY <1>0, SwitchIsCompleteStays, JournalStoredNext, ImportStoresPartsNext
<1>2. SettledStores'
  BY <1>0, SettledStoresImport
<1>3. CASE UpkeepOpen
  <2>1. UNCHANGED <<duckManifest, activeVersion, catalogue>>
    BY <1>0, <1>3, ImportEffectUpkeep, CatalogueKept DEF sqliteData
  <2>2. UpkeepStores' /\ CommandStores'
    BY <1>0, <2>1 DEF StoresInv, UpkeepStores, CommandStores, UpkeepOpen, Registered
  <2> QED BY <1>1, <1>2, <2>2 DEF StoresInv
<1>4. CASE ~UpkeepOpen
  <2>1. mpc = "idle"
    BY <1>4 DEF BoundaryInv, ManagerHoldsBoundary
  <2>2. UpkeepStores' /\ CommandStores'
    BY <1>0, <1>4, <2>1 DEF UpkeepStores, CommandStores, UpkeepOpen
  <2> QED BY <1>1, <1>2, <2>2 DEF StoresInv
<1> QED BY <1>3, <1>4

\* No journal of an import is open: its part of the invariant says nothing.
LEMMA ImportStoresIdle ==
  ASSUME \A j \in Job : ~Unfinished(j)', \A w \in Worker : pc'[w] # "switch"
  PROVE  ImportStores'
<1>1. \A j \in Job : ~Open(j)' /\ ~Committed(j)'
  BY DEF Unfinished, UnfinishedPhases, Open, Committed
<1>2. \A j \in Job : JournalStored(j)'
  BY <1>1 DEF JournalStored
<1> QED BY <1>2, ImportStoresPartsNext DEF SwitchIsComplete

LEMMA UpkeepFacts ==
  ASSUME MTyped, StoresInv, UpkeepOpen
  PROVE  LET t == upkeep.table IN
         /\ t \in Table /\ upkeep.kind \in {"delete", "layout"}
         /\ \A u \in Table \ {t} : duckManifest[u] = activeVersion[u]
         /\ upkeep.kind = "delete" => upkeep.target = None
         /\ upkeep.kind = "layout" => /\ upkeep.target \in Layout /\ upkeep.target \in catalogue[t]
                                      /\ upkeep.candidates = {} /\ activeVersion[t] # None
                                      /\ upkeep.target # None
         /\ IF activeVersion[t] = upkeep.target THEN duckManifest[t] = upkeep.target
                                                ELSE upkeep.rollback = activeVersion[t]
         /\ CommitUpkeepProven <=> activeVersion[t] = upkeep.target
         /\ RollbackUpkeepProven <=> activeVersion[t] # upkeep.target
BY Versions DEF StoresInv, UpkeepStores, CommitUpkeepProven, RollbackUpkeepProven, Registered

\* What reconciliation serves is what SQLite names.
LEMMA ReconciledAgrees ==
  ASSUME MTyped, StoresInv, UpkeepOpen, ReconcileStores
  PROVE  duckManifest' = activeVersion
<1> DEFINE t == upkeep.table
<1> USE DEF MTyped, MTypeOK, JournalTypes
<1>1. /\ t \in Table /\ \A u \in Table \ {t} : duckManifest[u] = activeVersion[u]
      /\ CommitUpkeepProven => activeVersion[t] = upkeep.target
      /\ ~CommitUpkeepProven => upkeep.rollback = activeVersion[t]
  BY UpkeepFacts
<1>2. duckManifest' = [duckManifest EXCEPT ![t] = activeVersion[t]]
  BY <1>1 DEF ReconcileStores
<1> HIDE DEF t
<1>3. \A u \in Table : duckManifest'[u] = activeVersion[u]
  BY <1>1, <1>2
<1> QED BY <1>2, <1>3

LEMMA StoresBeginDeletion ==
  ASSUME MTyped, BoundaryInv, StoresInv, NEW t \in Table, BeginDeletion(t)
  PROVE  UpkeepStores' /\ CommandStores' /\ SettledStores'
<1> USE DEF MTyped, MTypeOK, JournalTypes
<1>0. /\ activeVersion[t] # None /\ UNCHANGED <<activeVersion, duckManifest, catalogue, base>>
      /\ \A j \in Job : ~Unfinished(j) /\ UNCHANGED journalVars
      /\ mpc' = "start"
  BY DEF BeginDeletion, Starts, Registered, NoJournalButOwn, sqliteData, importVars
<1>1. CASE UpkeepOpen
  <2>1. upkeep' = upkeep /\ upkeep.kind = "delete" /\ upkeep.table = t /\ upkeep.target = None
    BY <1>1 DEF BeginDeletion, NoJournalButOwn
  <2>2. UpkeepStores' /\ UpkeepOpen'
    BY <1>0, <1>1, <2>1 DEF StoresInv, UpkeepStores, UpkeepOpen, Registered
  <2>3. CommandStores'
    BY <1>0, <2>1 DEF CommandStores
  <2> QED BY <2>2, <2>3 DEF SettledStores
<1>2. CASE ~UpkeepOpen
  <2>1. /\ upkeep'.kind = "delete" /\ upkeep'.table = t /\ upkeep'.target = None
        /\ upkeep'.rollback = duckManifest[t] /\ upkeep'.phase = "prepared"
    BY <1>2 DEF BeginDeletion
  <2>2. duckManifest = activeVersion
    BY <1>0, <1>2 DEF StoresInv, SettledStores
  <2>3. UpkeepStores' /\ UpkeepOpen'
    BY <1>0, <2>1, <2>2 DEF UpkeepStores, UpkeepOpen
  <2>4. CommandStores'
    BY <1>0, <2>1 DEF CommandStores
  <2> QED BY <2>3, <2>4 DEF SettledStores
<1> QED BY <1>1, <1>2

LEMMA StoresBeginLayout ==
  ASSUME MTyped, BoundaryInv, StoresInv, NoStoreFaults, NEW t \in Table, NEW v \in Layout,
         BeginLayout(t, v)
  PROVE  UpkeepStores' /\ CommandStores' /\ SettledStores'
<1> USE DEF MTyped, MTypeOK, JournalTypes
<1>0. ~UpkeepOpen
  BY DEF BeginLayout, NoStoreFaults
<1>1. /\ activeVersion[t] # None /\ activeVersion[t] # v
      /\ UNCHANGED <<activeVersion, duckManifest>> /\ base' = activeVersion[t]
      /\ \A j \in Job : ~Unfinished(j)
      /\ mpc' = "start" /\ catalogue' = [catalogue EXCEPT ![t] = @ \union {v}]
  BY <1>0 DEF BeginLayout, Starts, Registered, NoJournalButOwn, sqliteData
<1>2. /\ upkeep'.kind = "layout" /\ upkeep'.table = t /\ upkeep'.target = v
      /\ upkeep'.rollback = duckManifest[t] /\ upkeep'.phase = "prepared" /\ upkeep'.candidates = {}
  BY <1>0 DEF BeginLayout
<1>3. duckManifest = activeVersion
  BY <1>0, <1>1 DEF StoresInv, SettledStores
<1>4. UpkeepStores' /\ UpkeepOpen'
  BY <1>1, <1>2, <1>3 DEF UpkeepStores, UpkeepOpen, Registered
<1>5. CommandStores'
  BY <1>1, <1>2 DEF CommandStores
<1> QED BY <1>4, <1>5 DEF SettledStores

\* A step of the command; once it has ended or died, recovery is left with what
\* its journal says.
LEMMA StoresCommand ==
  ASSUME MTyped, BoundaryInv, StoresInv, NoStoreFaults, ManagerStep \/ ManagerDies
  PROVE  UpkeepStores' /\ CommandStores' /\ SettledStores'
<1> DEFINE t == upkeep.table
<1> USE DEF MTyped, MTypeOK, JournalTypes
<1>a. UpkeepOpen /\ CommandStores
  BY DEF BoundaryInv, ManagerHoldsBoundary, StoresInv, ManagerStep, StartUpkeep, PublishUpkeep,
         RecordUpkeep, SwitchDeletion, SwitchLayout, CollectObjects, FinishUpkeep, UpkeepFails,
         UndoDeletion, UndoLayout, EndUndo, ManagerDies
<1>b. /\ t \in Table /\ upkeep.kind \in {"delete", "layout"}
      /\ \A u \in Table \ {t} : duckManifest[u] = activeVersion[u]
      /\ upkeep.kind = "delete" => upkeep.target = None
      /\ upkeep.kind = "layout" => /\ upkeep.target \in Layout /\ upkeep.target \in catalogue[t]
                                   /\ upkeep.candidates = {} /\ activeVersion[t] # None
                                   /\ upkeep.target # None
      /\ IF activeVersion[t] = upkeep.target THEN duckManifest[t] = upkeep.target
                                             ELSE upkeep.rollback = activeVersion[t]
  BY <1>a, UpkeepFacts
<1>c. UpkeepOpen' => SettledStores'
  BY DEF SettledStores
\* The row keeps all but its phase.
<1>d. ASSUME NEW p \in Phases \union {"replica_published"}, Enter(p)
      PROVE  /\ upkeep'.kind = upkeep.kind /\ upkeep'.table = t /\ upkeep'.target = upkeep.target
             /\ upkeep'.rollback = upkeep.rollback /\ upkeep'.candidates = upkeep.candidates
             /\ UpkeepOpen' <=> p \notin {"none", "finalized"}
  BY <1>d, EnterRow DEF UpkeepOpen
<1>1. CASE StartUpkeep
  <2>1. Enter("commit_started") /\ UNCHANGED <<activeVersion, duckManifest, catalogue, base>>
        /\ mpc = "start" /\ mpc' = "publish"
    BY <1>1 DEF StartUpkeep, MGoto, sqliteData
  <2>2. UpkeepStores'
    BY <1>b, <1>d, <2>1 DEF UpkeepStores, Registered, Phases
  <2>3. CommandStores' /\ UpkeepOpen'
    BY <1>a, <1>d, <2>1 DEF CommandStores, Phases
  <2> QED BY <1>c, <2>2, <2>3
<1>2. CASE PublishUpkeep
  <2>1. /\ UNCHANGED <<activeVersion, upkeep, catalogue, base>> /\ mpc = "publish" /\ mpc' = "published"
        /\ duckManifest' = [duckManifest EXCEPT ![t] = upkeep.target]
    BY <1>2 DEF PublishUpkeep, MGoto, sqliteData
  <2>2. duckManifest'[t] = upkeep.target /\ \A u \in Table \ {t} : duckManifest'[u] = duckManifest[u]
    BY <1>b, <2>1
  <2>3. UpkeepStores'
    BY <1>a, <1>b, <2>1, <2>2 DEF UpkeepStores, Registered
  <2>4. CommandStores' /\ UpkeepOpen'
    BY <1>a, <2>1, <2>2 DEF CommandStores, UpkeepOpen
  <2> QED BY <1>c, <2>3, <2>4
<1>3. CASE RecordUpkeep
  <2>1. Enter("replica_published") /\ UNCHANGED <<activeVersion, duckManifest, catalogue, base>>
        /\ mpc = "published" /\ mpc' = "switch"
    BY <1>3 DEF RecordUpkeep, MGoto, sqliteData
  <2>2. UpkeepStores'
    BY <1>b, <1>d, <2>1 DEF UpkeepStores, Registered
  <2>3. CommandStores' /\ UpkeepOpen'
    BY <1>a, <1>d, <2>1 DEF CommandStores
  <2> QED BY <1>c, <2>2, <2>3
<1>4. CASE SwitchDeletion
  <2>1. /\ Enter("source_selection_committed") /\ UNCHANGED <<duckManifest, base>>
        /\ mpc = "switch" /\ mpc' = "collect" /\ upkeep.kind = "delete"
        /\ activeVersion' = [activeVersion EXCEPT ![t] = None]
    BY <1>4 DEF SwitchDeletion, MGoto
  <2>2. activeVersion'[t] = None /\ \A u \in Table \ {t} : activeVersion'[u] = activeVersion[u]
    BY <1>b, <2>1
  <2>3. duckManifest[t] = None
    BY <1>a, <1>b, <2>1 DEF CommandStores
  <2>4. UpkeepStores'
    BY <1>b, <1>d, <2>1, <2>2, <2>3 DEF UpkeepStores, Phases
  <2>5. CommandStores' /\ UpkeepOpen'
    BY <1>b, <1>d, <2>1, <2>2 DEF CommandStores, Phases
  <2> QED BY <1>c, <2>4, <2>5
<1>5. CASE SwitchLayout
  <2>1. /\ Enter("source_selection_committed") /\ UNCHANGED <<duckManifest, catalogue, base>>
        /\ mpc = "switch" /\ mpc' = "finish" /\ upkeep.kind = "layout"
        /\ activeVersion' = [activeVersion EXCEPT ![t] = upkeep.target]
    BY <1>5 DEF SwitchLayout, MGoto
  <2>2. activeVersion'[t] = upkeep.target /\ \A u \in Table \ {t} : activeVersion'[u] = activeVersion[u]
    BY <1>b, <2>1
  <2>3. duckManifest[t] = upkeep.target
    BY <1>a, <2>1 DEF CommandStores
  <2>4. UpkeepStores'
    BY <1>b, <1>d, <2>1, <2>2, <2>3 DEF UpkeepStores, Phases, Registered
  <2>5. CommandStores' /\ UpkeepOpen'
    BY <1>b, <1>d, <2>1, <2>2 DEF CommandStores, Phases
  <2> QED BY <1>c, <2>4, <2>5
<1>6. CASE CollectObjects
  <2>1. /\ UNCHANGED <<activeVersion, duckManifest, upkeep, catalogue, base>>
        /\ mpc = "collect" /\ mpc' = "finish"
    BY <1>6 DEF CollectObjects, MGoto, sqliteData
  <2>2. UpkeepStores' /\ UpkeepOpen'
    BY <1>a, <2>1 DEF StoresInv, UpkeepStores, UpkeepOpen, Registered
  <2>3. CommandStores'
    BY <1>a, <2>1 DEF CommandStores
  <2> QED BY <1>c, <2>2, <2>3
<1>7. CASE FinishUpkeep
  <2>1. /\ Enter("finalized") /\ UNCHANGED <<activeVersion, duckManifest>>
        /\ mpc = "finish" /\ mpc' = "idle"
    BY <1>7 DEF FinishUpkeep, ManagerEnds, sqliteData
  <2>2. duckManifest[t] = activeVersion[t]
    BY <1>a, <1>b, <2>1 DEF CommandStores
  <2>3. duckManifest = activeVersion
    BY <1>b, <2>2
  <2>4. ~UpkeepOpen'
    BY <1>d, <2>1 DEF Phases
  <2> QED BY <2>1, <2>3, <2>4 DEF UpkeepStores, CommandStores, SettledStores
<1>8. CASE UpkeepFails
  <2>1. /\ UNCHANGED <<activeVersion, duckManifest, upkeep, catalogue, base>> /\ mpc' = "undo"
        /\ mpc \in {"publish", "published", "switch", "collect"} \/ (mpc = "finish" /\ upkeep.kind = "delete")
    BY <1>8 DEF UpkeepFails, MGoto, sqliteData, NoStoreFaults
  <2>2. UpkeepStores' /\ UpkeepOpen'
    BY <1>a, <2>1 DEF StoresInv, UpkeepStores, UpkeepOpen, Registered
  <2>3. CommandStores'
    BY <1>a, <2>1 DEF CommandStores
  <2> QED BY <1>c, <2>2, <2>3
<1>9. CASE UndoDeletion
  <2>1. /\ UNCHANGED <<activeVersion, upkeep, catalogue, base>> /\ mpc' = "undone"
        /\ upkeep.kind = "delete" /\ duckManifest' = activeVersion
    BY <1>9, <1>a, ReconciledAgrees DEF UndoDeletion, MGoto, sqliteData
  <2>2. UpkeepStores' /\ UpkeepOpen'
    BY <1>a, <1>b, <2>1 DEF UpkeepStores, UpkeepOpen
  <2>3. CommandStores'
    BY <2>1 DEF CommandStores
  <2> QED BY <1>c, <2>2, <2>3
<1>10. CASE UndoLayout
  <2>1. /\ UNCHANGED <<activeVersion, upkeep, catalogue, base>> /\ mpc = "undo" /\ mpc' = "undone"
        /\ upkeep.kind = "layout" /\ duckManifest' = [duckManifest EXCEPT ![t] = upkeep.rollback]
    BY <1>10 DEF UndoLayout, MGoto, sqliteData
  <2>2. activeVersion[t] # upkeep.target /\ upkeep.rollback = activeVersion[t]
    BY <1>a, <1>b, <2>1 DEF CommandStores
  <2>3. duckManifest'[t] = activeVersion[t] /\ \A u \in Table \ {t} : duckManifest'[u] = duckManifest[u]
    BY <1>b, <2>1, <2>2
  <2>4. UpkeepStores' /\ UpkeepOpen'
    BY <1>a, <1>b, <2>1, <2>2, <2>3 DEF UpkeepStores, UpkeepOpen, Registered
  <2>5. CommandStores'
    BY <1>a, <2>1, <2>3 DEF CommandStores
  <2> QED BY <1>c, <2>4, <2>5
<1>11. CASE EndUndo
  <2>1. /\ Enter("finalized") /\ UNCHANGED duckManifest /\ mpc = "undone" /\ mpc' = "idle"
        /\ activeVersion' = IF upkeep.kind = "layout" THEN [activeVersion EXCEPT ![t] = base]
                            ELSE activeVersion
    BY <1>11 DEF EndUndo, ManagerEnds
  <2>2. duckManifest[t] = activeVersion[t] /\ (upkeep.kind = "layout" => base = activeVersion[t])
    BY <1>a, <2>1 DEF CommandStores
  <2>3. activeVersion' = activeVersion
    BY <2>1, <2>2
  <2>4. duckManifest = activeVersion
    BY <1>b, <2>2
  <2>5. ~UpkeepOpen'
    BY <1>d, <2>1 DEF Phases
  <2> QED BY <2>1, <2>3, <2>4, <2>5 DEF UpkeepStores, CommandStores, SettledStores
<1>12. CASE ManagerDies
  <2>1. /\ UNCHANGED <<activeVersion, duckManifest, upkeep, catalogue>> /\ mpc' = "idle"
    BY <1>12 DEF ManagerDies, ManagerEnds, sqliteData
  <2>2. UpkeepStores' /\ UpkeepOpen'
    BY <1>a, <2>1 DEF StoresInv, UpkeepStores, UpkeepOpen, Registered
  <2> QED BY <1>c, <2>1, <2>2 DEF CommandStores
<1> QED BY <1>1, <1>2, <1>3, <1>4, <1>5, <1>6, <1>7, <1>8, <1>9, <1>10, <1>11, <1>12 DEF ManagerStep

LEMMA StoresUpkeepRecovery ==
  ASSUME MTyped, BoundaryInv, StoresInv, RecoverUpkeep \/ RecoverUpkeepCrash
  PROVE  UpkeepStores' /\ CommandStores' /\ SettledStores'
<1> USE DEF MTyped, MTypeOK, JournalTypes
<1>0. /\ UpkeepOpen /\ UNCHANGED <<activeVersion, catalogue, mpc>> /\ fileLock = None
  BY DEF RecoverUpkeep, RecoverUpkeepCrash, BoundaryFree, sqliteData
<1>1. mpc = "idle"
  BY <1>0, Versions DEF BoundaryInv, ManagerHoldsBoundary
<1>2. CASE RecoverUpkeep
  <2>1. ReconcileStores /\ Enter("finalized")
    BY <1>0, <1>2, UpkeepFacts DEF RecoverUpkeep
  <2>2. duckManifest' = activeVersion' /\ ~UpkeepOpen'
    BY <1>0, <2>1, ReconciledAgrees, EnterRow DEF Phases, UpkeepOpen
  <2> QED BY <1>0, <1>1, <2>2 DEF UpkeepStores, CommandStores, SettledStores
<1>3. CASE RecoverUpkeepCrash
  <2>1. duckManifest' = activeVersion /\ upkeep' = upkeep
    BY <1>0, <1>3, ReconciledAgrees DEF RecoverUpkeepCrash
  <2>2. UpkeepStores' /\ UpkeepOpen'
    BY <1>0, <2>1, UpkeepFacts DEF UpkeepStores, UpkeepOpen, Registered
  <2> QED BY <1>0, <1>1, <2>2 DEF CommandStores, SettledStores
<1> QED BY <1>2, <1>3

LEMMA StoresStay ==
  ASSUME StoresInv,
         \A w \in Worker : pc'[w] = "switch" => pc[w] = "switch",
         UNCHANGED <<journalVars, sqliteData, duckManifest, wjob, mpc, upkeep, base, catalogue>>
  PROVE  StoresInv'
<1>1. ImportStores'
  BY DEF StoresInv, ImportStores, CommittedIsServed, SwitchIsComplete, Open, Committed, journalVars,
         sqliteData
<1>2. UpkeepStores' /\ CommandStores' /\ SettledStores'
  BY DEF StoresInv, UpkeepStores, CommandStores, SettledStores, UpkeepOpen, Registered, Unfinished,
         journalVars, sqliteData
<1> QED BY <1>1, <1>2 DEF StoresInv

LEMMA StoresInvNext ==
  ASSUME MTyped, BoundaryInv, StoresInv, NoStoreFaults, [MNext]_managedVars, BoundaryInv'
  PROVE  StoresInv'
<1>1. CASE ImportStep
  BY <1>1, StoresInvImport
<1>2. ASSUME NEW w \in Worker, PrepareRefused(w) PROVE StoresInv'
  BY <1>2, StoresStay DEF PrepareRefused, Goto, managerVars, MTyped, MTypeOK, ProcessTypes
<1>3. CASE UNCHANGED managedVars
  BY <1>3, StoresStay DEF managedVars, vars, managerVars, workerVars
<1>4. ASSUME \/ \E t \in Table : BeginDeletion(t) \/ \E v \in Layout : BeginLayout(t, v)
             \/ ManagerStep \/ ManagerDies \/ RecoverUpkeep \/ RecoverUpkeepCrash
      PROVE  ImportStores'
  <2>1. UNCHANGED <<journalVars, pc>> /\ (fileLock = None \/ mpc # "idle")
    BY <1>4 DEF BeginDeletion, BeginLayout, Starts, BoundaryFree, ManagerStep, StartUpkeep,
         PublishUpkeep, RecordUpkeep, SwitchDeletion, SwitchLayout, CollectObjects, FinishUpkeep,
         UpkeepFails, UndoDeletion, UndoLayout, EndUndo, ManagerDies, RecoverUpkeep,
         RecoverUpkeepCrash, importVars, workerVars
  <2>2. \A w \in Worker : pc'[w] # "switch"
    BY <2>1, NoneAssumption, Versions
       DEF BoundaryInv, ManagerHoldsBoundary, WorkersHoldBoundary, Journaling
  <2>3. \A j \in Job : ~Unfinished(j)
    BY <1>4 DEF BoundaryInv, OneJournal, ManagerHoldsBoundary, BeginDeletion, BeginLayout,
         NoJournalButOwn, ManagerStep, StartUpkeep,
         PublishUpkeep, RecordUpkeep, SwitchDeletion, SwitchLayout, CollectObjects, FinishUpkeep,
         UpkeepFails, UndoDeletion, UndoLayout, EndUndo, ManagerDies, RecoverUpkeep,
         RecoverUpkeepCrash
  <2>4. \A j \in Job : ~Unfinished(j)'
    BY <2>1, <2>3 DEF Unfinished, journalVars
  <2> QED BY <2>2, <2>4, ImportStoresIdle
<1> QED
  BY <1>1, <1>2, <1>3, <1>4, StoresBeginDeletion, StoresBeginLayout, StoresCommand,
     StoresUpkeepRecovery DEF MNext, StoresInv

-----------------------------------------------------------------------------
(* DuckDB and SQLite agree                                                  *)

ManagedInv == MTyped /\ BoundaryInv /\ StoresInv

LEMMA ManagedInvInit == MInit => ManagedInv
<1> SUFFICES ASSUME MInit PROVE ManagedInv
  OBVIOUS
<1>1. ImportStores /\ UpkeepStores /\ CommandStores /\ SettledStores
  BY DEF MInit, Init, NoUpkeep, ImportStores, CommittedIsServed, SwitchIsComplete, UpkeepStores,
         CommandStores, SettledStores, Open, Committed, UpkeepOpen
<1> QED BY <1>1, MTypedInit, BoundaryInvInit DEF ManagedInv, StoresInv

LEMMA ManagedInvNext ==
  NoStoreFaults /\ ManagedInv /\ [MNext]_managedVars => ManagedInv'
<1> SUFFICES ASSUME NoStoreFaults, ManagedInv, [MNext]_managedVars PROVE ManagedInv'
  OBVIOUS
<1>1. MTyped'
  BY MTypedNext DEF ManagedInv
<1>2. BoundaryInv'
  BY BoundaryNext DEF ManagedInv, StoresInv
<1>3. StoresInv'
  BY <1>2, StoresInvNext DEF ManagedInv
<1> QED BY <1>1, <1>2, <1>3 DEF ManagedInv

LEMMA ManagedInvHolds == NoStoreFaults => (MSpec => []ManagedInv)
<1>1. NoStoreFaults => (ManagedInv /\ [MNext]_managedVars => ManagedInv')
  BY ManagedInvNext
<1> SUFFICES ASSUME NoStoreFaults PROVE MSpec => []ManagedInv
  OBVIOUS
<1>2. ManagedInv /\ [MNext]_managedVars => ManagedInv'
  BY <1>1
<1> QED BY <1>2, ManagedInvInit, PTL DEF MSpec

LEMMA StoresAgree ==
  ASSUME ManagedInv
  PROVE  StoresAgreeOnceReconciled
<1> USE DEF ManagedInv, StoresInv
<1>1. ASSUME NEW t \in Table, ~Journaled(t) PROVE duckManifest[t] = activeVersion[t]
  <2>1. CASE UpkeepOpen
    BY <1>1, <2>1, UpkeepFacts DEF Journaled
  <2>2. CASE \E j \in Job : Unfinished(j)
    <3>1. PICK j \in Job : Unfinished(j)
      BY <2>2
    <3>2. t \notin TablesOf[j]
      BY <1>1, <3>1 DEF Journaled
    <3> QED BY <3>1, <3>2, PhaseCases, CommittedIsProven DEF ImportStores
  <2>3. CASE ~UpkeepOpen /\ \A j \in Job : ~Unfinished(j)
    BY <2>3 DEF SettledStores
  <2> QED BY <2>1, <2>2, <2>3
<1>2. ASSUME NEW j \in Job, Unfinished(j), ~Switched(j), NEW t \in TablesOf[j]
      PROVE  rollbackManifest[j][t] = activeVersion[t]
  <2>1. Open(j) /\ t \in Table
    BY <1>2, PhaseCases, CommittedIsProven, TablesOfAssumption DEF CommitProven
  <2> QED BY <1>2, <2>1 DEF ImportStores
<1>3. UpkeepOpen /\ ~CommitUpkeepProven => upkeep.rollback = activeVersion[upkeep.table]
  BY UpkeepFacts
<1> QED BY <1>1, <1>2, <1>3 DEF StoresAgreeOnceReconciled

\* Unless a second worker is started for a job that still has one, a rollback of
\* DuckDB raises or a layout meets a fault of its own: however imports, deletions
\* and layouts interleave and die, DuckDB serves what SQLite names for every table
\* no journal is open for, and an open journal can restore what SQLite names.
THEOREM StoresAgreeWithJournals == NoStoreFaults => (MSpec => []StoresAgreeOnceReconciled)
BY ManagedInvHolds, StoresAgree, PTL

-----------------------------------------------------------------------------
(* What is still read keeps its file                                        *)

LEMMA StoredIsRetained ==
  ASSUME MTyped
  PROVE  Stored <=> RetainedObjectsExist
<1> DEFINE served == {duckManifest[t] : t \in Table}
           journaled == UNION {{rollbackManifest[j][t] : t \in Table} : j \in {i \in Job : Unfinished(i)}}
           row == IF UpkeepOpen /\ ~CommitUpkeepProven THEN {upkeep.rollback} ELSE {}
           catalogued == UNION {catalogue[t] : t \in Table}
           kept == (served \union (journaled \union row) \union catalogued) \ {None}
<1>1. \A v : v \in served <=> \E t \in Table : duckManifest[t] = v
  OBVIOUS
<1>2. \A v : v \in journaled <=> \E j \in Job : Unfinished(j) /\ \E t \in Table : rollbackManifest[j][t] = v
  OBVIOUS
<1>3. \A v : v \in row <=> UpkeepOpen /\ ~CommitUpkeepProven /\ upkeep.rollback = v
  OBVIOUS
<1>4. \A v : v \in catalogued <=> \E t \in Table : v \in catalogue[t]
  OBVIOUS
<1>5. served \subseteq Version /\ journaled \subseteq Version /\ row \subseteq Version
  BY <1>1, <1>2, <1>3 DEF MTyped, MTypeOK, JournalTypes, UpkeepRows
<1>6. catalogued \subseteq Worker \union Layout
  BY <1>4 DEF MTyped, MTypeOK
<1> HIDE DEF served, journaled, row, catalogued
<1>7. kept \subseteq Worker \union Layout
  BY <1>5, <1>6 DEF Version, Run
<1>8. \A v \in Worker \union Layout : v \in kept <=> Kept(v)
  BY <1>1, <1>2, <1>3, <1>4, NoneAssumption, Versions DEF Kept
<1> HIDE DEF kept
<1>9. Stored <=> ObjectsOf(kept) \subseteq objects
  BY <1>7, <1>8 DEF Stored, ObjectsOf
<1>10. RetainedObjectsExist <=> ObjectsOf(kept) \subseteq objects
  BY Zenon DEF RetainedObjectsExist, kept, served, journaled, row, catalogued
<1> QED BY <1>9, <1>10

LEMMA FilesInvInit == MInit => FilesInv
BY NoneAssumption, Versions
   DEF MInit, Init, NoUpkeep, FilesInv, Stored, StagedIsStored, Kept, Unfinished, UnfinishedPhases,
       UpkeepOpen, Activating

\* An import keeps what it served, what it would restore and what it stages.
LEMMA KeptImport ==
  ASSUME ManagedInv, NoStoreFaults, FilesInv, ImportStep, NEW v \in Worker \union Layout, Kept(v)'
  PROVE  ObjectOf[v] \in objects'
<1> USE DEF ManagedInv, MTyped, MTypeOK, JournalTypes
<1>0. /\ ImportEffect /\ objects \subseteq objects' /\ UNCHANGED <<upkeep, mpc>>
      /\ v # None
  BY ImportEffects, ImportRecords, NoneAssumption, Versions
<1>1. \A w \in Worker : pc'[w] \in {"publish", "switch"} => ObjectOf[w] \in objects'
  BY DEF ImportStep, Recorded, Staged, ObjectsOf
<1>2. Kept(v) => ObjectOf[v] \in objects'
  BY <1>0 DEF FilesInv, Stored
<1>3. ASSUME NEW t \in Table, duckManifest'[t] = v PROVE ObjectOf[v] \in objects'
  <2>1. CASE duckManifest' = duckManifest
    BY <1>2, <1>3, <2>1 DEF Kept
  <2>2. ASSUME NEW w \in Worker, NEW u \in Table, Publishes(w, u) PROVE ObjectOf[v] \in objects'
    <3>1. pc'[w] \in {"publish", "switch"} /\ (v = w \/ duckManifest[t] = v)
      BY <1>3, <2>2 DEF Publishes, ProcessTypes
    <3> QED BY <1>1, <1>2, <3>1 DEF Kept
  <2>3. ASSUME NEW j \in Job, Undoes(j) \/ Restores(j) PROVE ObjectOf[v] \in objects'
    <3>1. Open(j) /\ duckManifest' = activeVersion
      BY <2>3 DEF Undoes, Restores
    <3>2. rollbackManifest[j][t] = v \/ duckManifest[t] = v
      BY <1>3, <3>1 DEF StoresInv, ImportStores
    <3> QED BY <1>2, <3>1, <3>2, PhaseCases DEF Kept
  <2>4. duckManifest' = duckManifest \/ (\E w \in Worker, u \in Table : Publishes(w, u))
        \/ \E j \in Job : Undoes(j) \/ Restores(j)
    BY <1>0 DEF ImportEffect, OpensSettled, StartsCommit, Completes, Switches, CommitActivation
  <2> QED BY <2>1, <2>2, <2>3, <2>4
<1>4. ASSUME NEW j \in Job, Unfinished(j)', NEW t \in Table, rollbackManifest'[j][t] = v
      PROVE  ObjectOf[v] \in objects'
  <2>1. CASE Unfinished(j) /\ rollbackManifest'[j][t] = rollbackManifest[j][t]
    BY <1>2, <1>4, <2>1 DEF Kept
  <2>2. ASSUME NEW i \in Job, OpensSettled(i) PROVE ObjectOf[v] \in objects'
    <3>1. i = j
      BY <1>4, <2>2 DEF OpensSettled, PrepareJournal, Unfinished
    <3>2. duckManifest[t] = v
      BY <1>0, <1>4, <2>2, <3>1 DEF OpensSettled, PrepareJournal
    <3> QED BY <1>2, <3>2 DEF Kept
  <2>3. ASSUME NEW i \in Job, StartsCommit(i) \/ Undoes(i) \/ Completes(i)
        PROVE  Unfinished(j) /\ rollbackManifest'[j][t] = rollbackManifest[j][t]
    BY <1>4, <2>3, PhaseCases DEF StartsCommit, Undoes, Completes, Unfinished, UnfinishedPhases
  <2>4. ASSUME NEW w \in Worker, wjob[w] \in Job, Switches(w)
        PROVE  Unfinished(j) /\ rollbackManifest'[j][t] = rollbackManifest[j][t]
    BY <1>4, <2>4, PhaseCases DEF Switches, CommitActivation, Unfinished
  <2>5. CASE UNCHANGED journalVars
    BY <1>4, <2>1, <2>5 DEF journalVars, Unfinished
  <2> QED BY <1>0, <2>1, <2>2, <2>3, <2>4, <2>5 DEF ImportEffect, Restores, Publishes
<1>5. ASSUME UpkeepOpen', ~CommitUpkeepProven', upkeep'.rollback = v PROVE ObjectOf[v] \in objects'
  <2>1. UpkeepOpen
    BY <1>0, <1>5 DEF UpkeepOpen
  <2>2. UNCHANGED <<activeVersion, duckManifest>>
    BY <1>0, <2>1, ImportEffectUpkeep DEF sqliteData
  <2>3. ~CommitUpkeepProven /\ upkeep.rollback = v
    BY <1>0, <1>5, <2>2 DEF CommitUpkeepProven, Registered
  <2> QED BY <1>2, <2>1, <2>3 DEF Kept
<1>6. ASSUME NEW t \in Table, v \in catalogue'[t] PROVE ObjectOf[v] \in objects'
  <2>1. CASE catalogue' = catalogue
    BY <1>2, <1>6, <2>1 DEF Kept
  <2>2. ASSUME NEW w \in Worker, CommitActivation(w),
               catalogue' = [u \in Table |-> IF activeVersion'[u] = activeVersion[u]
                                             THEN catalogue[u] ELSE catalogue[u] \union {w}]
        PROVE  ObjectOf[v] \in objects'
    <3>1. v = w \/ v \in catalogue[t]
      BY <1>6, <2>2
    <3>2. ObjectOf[w] \in objects
      BY <2>2 DEF CommitActivation, FilesInv, StagedIsStored, Activating
    <3> QED BY <1>0, <1>2, <3>1, <3>2 DEF Kept
  <2> QED BY <2>1, <2>2, ImportRecords
<1> QED BY <1>3, <1>4, <1>5, <1>6 DEF Kept

\* The collection keeps the file of every version served or in the catalogue.
LEMMA CollectedKeeps ==
  ASSUME MTyped, FilesInv, NEW v \in Worker \union Layout,
         (\E t \in Table : duckManifest[t] = v) \/ \E t \in Table : v \in catalogue[t]
  PROVE  ObjectOf[v] \in Collected
<1>1. v # None
  BY NoneAssumption, Versions
<1>2. ObjectOf[v] \in objects
  BY DEF FilesInv, Stored, Kept
<1>3. v \in (UNION {catalogue[t] : t \in Table}) \union ({duckManifest[t] : t \in Table} \ {None})
  BY <1>1
<1>4. ObjectOf[v] \in Referenced
  BY <1>3 DEF Referenced, ObjectsOf
<1> QED BY <1>2, <1>4 DEF Collected

\* A command that moves no version that was not kept, and collects nothing.
LEMMA KeptStays ==
  ASSUME FilesInv, objects \subseteq objects', \A j \in Job : ~Unfinished(j)',
         NEW v \in Worker \union Layout, Kept(v)',
         \A t \in Table : duckManifest'[t] = v => Kept(v),
         \A t \in Table : v \in catalogue'[t] => Kept(v),
         UpkeepOpen' /\ ~CommitUpkeepProven' /\ upkeep'.rollback = v => Kept(v)
  PROVE  ObjectOf[v] \in objects'
<1>1. Kept(v)
  BY DEF Kept
<1> QED BY <1>1 DEF FilesInv, Stored

LEMMA KeptBegin ==
  ASSUME ManagedInv, NoStoreFaults, FilesInv, NEW t \in Table,
         BeginDeletion(t) \/ \E l \in Layout : BeginLayout(t, l),
         NEW v \in Worker \union Layout, Kept(v)'
  PROVE  ObjectOf[v] \in objects'
<1> USE DEF ManagedInv, MTyped, MTypeOK, JournalTypes
<1>0. UNCHANGED <<journalVars, activeVersion>> /\ \A j \in Job : ~Unfinished(j)
  BY DEF BeginDeletion, BeginLayout, NoJournalButOwn, importVars, sqliteData
<1>1. \A j \in Job : ~Unfinished(j)'
  BY <1>0 DEF Unfinished, journalVars
<1>2. CASE BeginDeletion(t)
  <2>1. UNCHANGED <<duckManifest, catalogue, objects>>
    BY <1>2 DEF BeginDeletion
  <2>2. UpkeepOpen' /\ ~CommitUpkeepProven' /\ upkeep'.rollback = v => Kept(v)
    <3>1. CASE UpkeepOpen
      BY <1>0, <1>2, <2>1, <3>1 DEF BeginDeletion, Kept, CommitUpkeepProven, Registered
    <3>2. CASE ~UpkeepOpen
      BY <1>2, <3>2 DEF BeginDeletion, Kept
    <3> QED BY <3>1, <3>2
  <2> QED BY <1>1, <2>1, <2>2, KeptStays DEF Kept
<1>3. ASSUME NEW l \in Layout, BeginLayout(t, l) PROVE ObjectOf[v] \in objects'
  <2>0. ~UpkeepOpen
    BY <1>3 DEF BeginLayout, NoStoreFaults
  <2>1. /\ UNCHANGED duckManifest /\ catalogue' = [catalogue EXCEPT ![t] = @ \union {l}]
        /\ objects' = objects \union {ObjectOf[l]} /\ upkeep'.rollback = duckManifest[t]
    BY <1>3, <2>0 DEF BeginLayout
  <2>2. CASE v = l
    BY <2>1, <2>2
  <2>3. CASE v # l
    <3>1. \A u \in Table : v \in catalogue'[u] => v \in catalogue[u]
      BY <2>1, <2>3
    <3> QED BY <1>1, <2>1, <3>1, KeptStays DEF Kept
  <2> QED BY <2>2, <2>3
<1> QED BY <1>2, <1>3

\* Reconciliation puts back what its journal kept, and collects only when it has
\* nothing to put back.
LEMMA KeptReconciled ==
  ASSUME ManagedInv, FilesInv, UpkeepOpen, ReconcileStores, UNCHANGED <<activeVersion, catalogue>>,
         upkeep' = upkeep \/ Enter("finalized"),
         \A j \in Job : ~Unfinished(j)', NEW v \in Worker \union Layout, Kept(v)'
  PROVE  ObjectOf[v] \in objects'
<1> USE DEF ManagedInv, MTyped, MTypeOK, JournalTypes
<1> DEFINE t == upkeep.table
<1>0. /\ upkeep'.kind = upkeep.kind /\ upkeep'.table = t /\ upkeep'.target = upkeep.target
      /\ upkeep'.rollback = upkeep.rollback
  BY EnterRow DEF Phases
<1>1. /\ t \in Table /\ duckManifest' = activeVersion
      /\ CommitUpkeepProven <=> activeVersion[t] = upkeep.target
      /\ \A u \in Table \ {t} : duckManifest[u] = activeVersion[u]
      /\ CommitUpkeepProven => duckManifest[t] = activeVersion[t]
      /\ ~CommitUpkeepProven => upkeep.rollback = activeVersion[t]
  BY UpkeepFacts, ReconciledAgrees
<1>2. CASE CommitUpkeepProven
  <2>1. duckManifest' = duckManifest /\ objects' = Collected
    BY <1>1, <1>2 DEF ReconcileStores
  <2>2. UpkeepOpen' => CommitUpkeepProven'
    BY <1>0, <1>2, <2>1 DEF CommitUpkeepProven, Registered
  <2>3. (\E u \in Table : duckManifest[u] = v) \/ \E u \in Table : v \in catalogue[u]
    BY <2>1, <2>2 DEF Kept
  <2> QED BY <2>1, <2>3, CollectedKeeps
<1>3. CASE ~CommitUpkeepProven
  <2>1. objects' = objects
    BY <1>3 DEF ReconcileStores
  <2>2. \A u \in Table : duckManifest'[u] = v => Kept(v)
    BY <1>1, <1>3 DEF Kept
  <2>3. upkeep'.rollback = v => Kept(v)
    BY <1>0, <1>3 DEF Kept
  <2> QED BY <2>1, <2>2, <2>3, KeptStays DEF Kept
<1> QED BY <1>2, <1>3

LEMMA KeptCommand ==
  ASSUME ManagedInv, NoStoreFaults, FilesInv, ManagerStep \/ ManagerDies,
         NEW v \in Worker \union Layout, Kept(v)'
  PROVE  ObjectOf[v] \in objects'
<1> USE DEF ManagedInv, MTyped, MTypeOK, JournalTypes
<1> DEFINE t == upkeep.table
<1>0. UNCHANGED journalVars /\ mpc # "idle"
  BY DEF ManagerStep, StartUpkeep, PublishUpkeep, RecordUpkeep, SwitchDeletion, SwitchLayout,
         CollectObjects, FinishUpkeep, UpkeepFails, UndoDeletion, UndoLayout, EndUndo, ManagerDies,
         importVars
<1>1. /\ UpkeepOpen /\ CommandStores /\ \A j \in Job : ~Unfinished(j)
      /\ t \in Table /\ upkeep.kind \in {"delete", "layout"}
      /\ upkeep.kind = "delete" => upkeep.target = None
      /\ upkeep.kind = "layout" => upkeep.target \in catalogue[t]
      /\ CommitUpkeepProven <=> activeVersion[t] = upkeep.target
  BY <1>0, UpkeepFacts DEF BoundaryInv, ManagerHoldsBoundary, OneJournal, StoresInv
<1>2. \A j \in Job : ~Unfinished(j)'
  BY <1>0, <1>1 DEF Unfinished, journalVars
<1>3. v # None
  BY NoneAssumption, Versions
<1>4. ASSUME NEW p \in Phases \union {"replica_published"}, Enter(p)
      PROVE  /\ upkeep'.kind = upkeep.kind /\ upkeep'.table = t /\ upkeep'.target = upkeep.target
             /\ upkeep'.rollback = upkeep.rollback
             /\ UpkeepOpen' <=> p \notin {"none", "finalized"}
  BY <1>4, EnterRow DEF UpkeepOpen
<1>5. CASE StartUpkeep \/ RecordUpkeep
  <2>1. /\ UNCHANGED <<activeVersion, duckManifest, catalogue, objects>>
        /\ upkeep'.kind = upkeep.kind /\ upkeep'.table = t /\ upkeep'.target = upkeep.target
        /\ upkeep'.rollback = upkeep.rollback
    BY <1>4, <1>5 DEF StartUpkeep, RecordUpkeep, sqliteData, Phases
  <2>2. CommitUpkeepProven' <=> CommitUpkeepProven
    BY <2>1 DEF CommitUpkeepProven, Registered
  <2> QED BY <1>1, <1>2, <2>1, <2>2, KeptStays DEF Kept
<1>6. CASE PublishUpkeep
  <2>1. /\ UNCHANGED <<catalogue, objects, upkeep>> /\ mpc = "publish"
        /\ duckManifest' = [duckManifest EXCEPT ![t] = upkeep.target]
    BY <1>6 DEF PublishUpkeep
  <2>2. ~CommitUpkeepProven
    BY <1>1, <2>1 DEF CommandStores
  <2>3. \A u \in Table : duckManifest'[u] = v => Kept(v)
    BY <1>1, <1>3, <2>1 DEF Kept
  <2> QED BY <1>1, <1>2, <2>1, <2>2, <2>3, KeptStays DEF Kept
<1>7. CASE SwitchDeletion \/ SwitchLayout
  <2>1. /\ UNCHANGED <<duckManifest, objects>> /\ mpc = "switch"
        /\ upkeep'.rollback = upkeep.rollback
        /\ \A u \in Table : catalogue'[u] \subseteq catalogue[u]
    BY <1>4, <1>7 DEF SwitchDeletion, SwitchLayout, Phases
  <2>2. ~CommitUpkeepProven
    BY <1>1, <2>1 DEF CommandStores
  <2> QED BY <1>1, <1>2, <2>1, <2>2, KeptStays DEF Kept
<1>8. CASE CollectObjects
  <2>1. /\ UNCHANGED <<activeVersion, duckManifest, catalogue, upkeep>> /\ mpc = "collect"
        /\ objects' = Collected
    BY <1>8 DEF CollectObjects, sqliteData
  <2>2. CommitUpkeepProven'
    BY <1>1, <2>1 DEF CommandStores, CommitUpkeepProven, Registered
  <2>3. (\E u \in Table : duckManifest[u] = v) \/ \E u \in Table : v \in catalogue[u]
    BY <1>2, <2>1, <2>2 DEF Kept
  <2> QED BY <2>1, <2>3, CollectedKeeps
<1>9. CASE FinishUpkeep \/ EndUndo
  <2>1. UNCHANGED <<duckManifest, catalogue, objects>> /\ Enter("finalized")
    BY <1>9 DEF FinishUpkeep, EndUndo
  <2>2. ~UpkeepOpen'
    BY <1>4, <2>1 DEF Phases
  <2> QED BY <1>2, <2>1, <2>2, KeptStays DEF Kept
<1>10. CASE UpkeepFails \/ ManagerDies
  <2>1. UNCHANGED <<activeVersion, duckManifest, catalogue, objects, upkeep>>
    BY <1>10 DEF UpkeepFails, ManagerDies, sqliteData
  <2>2. CommitUpkeepProven' <=> CommitUpkeepProven
    BY <2>1 DEF CommitUpkeepProven, Registered
  <2> QED BY <1>1, <1>2, <2>1, <2>2, KeptStays DEF Kept
<1>11. CASE UndoDeletion
  BY <1>1, <1>2, <1>11, KeptReconciled DEF UndoDeletion, sqliteData
<1>12. CASE UndoLayout
  <2>1. /\ UNCHANGED <<catalogue, objects, upkeep>> /\ mpc = "undo" /\ upkeep.kind = "layout"
        /\ duckManifest' = [duckManifest EXCEPT ![t] = upkeep.rollback]
    BY <1>12 DEF UndoLayout
  <2>2. ~CommitUpkeepProven
    BY <1>1, <2>1 DEF CommandStores
  <2>3. \A u \in Table : duckManifest'[u] = v => Kept(v)
    BY <1>1, <2>1, <2>2 DEF Kept
  <2> QED BY <1>1, <1>2, <2>1, <2>2, <2>3, KeptStays DEF Kept
<1> QED BY <1>5, <1>6, <1>7, <1>8, <1>9, <1>10, <1>11, <1>12 DEF ManagerStep

LEMMA KeptRecovers ==
  ASSUME ManagedInv, FilesInv, RecoverUpkeep \/ RecoverUpkeepCrash,
         NEW v \in Worker \union Layout, Kept(v)'
  PROVE  ObjectOf[v] \in objects'
<1>1. /\ UpkeepOpen /\ UNCHANGED <<journalVars, activeVersion, catalogue>>
  BY DEF RecoverUpkeep, RecoverUpkeepCrash, sqliteData, importVars
<1>2. \A j \in Job : ~Unfinished(j)'
  BY <1>1 DEF ManagedInv, BoundaryInv, OneJournal, Unfinished, journalVars
<1>3. ReconcileStores /\ (upkeep' = upkeep \/ Enter("finalized"))
  BY <1>1, UpkeepFacts DEF ManagedInv, RecoverUpkeep, RecoverUpkeepCrash
<1> QED BY <1>1, <1>2, <1>3, KeptReconciled

\* No object of a worker that activates is collected: only who holds the boundary
\* collects, and the worker holds it.
LEMMA StagedIsStoredNext ==
  ASSUME ManagedInv, FilesInv, [MNext]_managedVars
  PROVE  StagedIsStored'
<1> SUFFICES ASSUME NEW w \in Worker, pc'[w] \in Activating PROVE ObjectOf[w] \in objects'
  BY DEF StagedIsStored
<1> USE DEF Activating, ManagedInv
<1>0. pc[w] \in Activating => ObjectOf[w] \in objects /\ fileLock = w
  BY DEF FilesInv, StagedIsStored, BoundaryInv, WorkersHoldBoundary, Journaling
<1>1. CASE ImportStep
  BY <1>1 DEF ImportStep, Recorded, Staged, ObjectsOf
<1>2. CASE UNCHANGED managedVars
  BY <1>0, <1>2 DEF managedVars, managerVars, vars, workerVars
<1>3. ASSUME NEW v \in Worker, PrepareRefused(v) PROVE ObjectOf[w] \in objects'
  BY <1>0, <1>3 DEF PrepareRefused, Goto, managerVars, MTyped, MTypeOK, ProcessTypes
<1>4. ASSUME NEW t \in Table, BeginDeletion(t) \/ \E v \in Layout : BeginLayout(t, v)
      PROVE  ObjectOf[w] \in objects'
  BY <1>0, <1>4 DEF BeginDeletion, BeginLayout, importVars, workerVars
<1>5. CASE ManagerStep \/ ManagerDies \/ RecoverUpkeep \/ RecoverUpkeepCrash
  <2>1. pc' = pc /\ (fileLock = None \/ mpc # "idle")
    BY <1>5 DEF ManagerStep, StartUpkeep, PublishUpkeep, RecordUpkeep, SwitchDeletion, SwitchLayout,
         CollectObjects, FinishUpkeep, UpkeepFails, UndoDeletion, UndoLayout, EndUndo, ManagerDies,
         RecoverUpkeep, RecoverUpkeepCrash, BoundaryFree, importVars, workerVars
  <2> QED BY <1>0, <2>1, NoneAssumption, Versions DEF BoundaryInv, ManagerHoldsBoundary
<1> QED BY <1>1, <1>2, <1>3, <1>4, <1>5 DEF MNext

LEMMA FilesInvNext ==
  NoStoreFaults /\ ManagedInv /\ FilesInv /\ [MNext]_managedVars => FilesInv'
<1> SUFFICES ASSUME NoStoreFaults, ManagedInv, FilesInv, [MNext]_managedVars PROVE FilesInv'
  OBVIOUS
<1>1. ASSUME NEW v \in Worker \union Layout, Kept(v)' PROVE ObjectOf[v] \in objects'
  <2>1. ASSUME UNCHANGED <<journalVars, upkeep, sqliteData, duckManifest, catalogue, objects>>
        PROVE  ObjectOf[v] \in objects'
    <3>1. Kept(v)
      BY <1>1, <2>1 DEF Kept, Unfinished, UpkeepOpen, CommitUpkeepProven, Registered, journalVars,
         sqliteData
    <3> QED BY <2>1, <3>1 DEF FilesInv, Stored
  <2>2. CASE UNCHANGED managedVars
    BY <2>1, <2>2 DEF managedVars, managerVars, vars
  <2>3. ASSUME NEW w \in Worker, PrepareRefused(w) PROVE ObjectOf[v] \in objects'
    BY <2>1, <2>3 DEF PrepareRefused, managerVars
  <2> QED BY <1>1, <2>2, <2>3, KeptImport, KeptBegin, KeptCommand, KeptRecovers DEF MNext
<1>2. Stored'
  BY <1>1 DEF Stored
<1> QED BY <1>2, StagedIsStoredNext DEF FilesInv

\* Under the same condition nothing that is still read loses its file: the
\* collection of a deletion spares the objects of every served view, of every
\* version in the catalogue and of the rollback material of an open journal.
THEOREM RetainedObjectsStay == NoStoreFaults => (MSpec => []RetainedObjectsExist)
<1> SUFFICES ASSUME NoStoreFaults PROVE MSpec => []RetainedObjectsExist
  OBVIOUS
<1>1. MInit => ManagedInv /\ FilesInv
  BY ManagedInvInit, FilesInvInit
<1>2. ManagedInv /\ FilesInv /\ [MNext]_managedVars => (ManagedInv /\ FilesInv)'
  BY ManagedInvNext, FilesInvNext
<1>3. ManagedInv /\ FilesInv => RetainedObjectsExist
  BY StoredIsRetained DEF ManagedInv, FilesInv
<1> QED BY <1>1, <1>2, <1>3, PTL DEF MSpec
=============================================================================
