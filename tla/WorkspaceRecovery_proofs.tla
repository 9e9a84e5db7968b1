----------------------- MODULE WorkspaceRecovery_proofs ---------------------
(* WorkspaceRecovery for any requests and any number of changes, crashes    *)
(* and failures: IInv is inductive, and with it a torn workspace is fenced, *)
(* nothing that is named loses its objects, a restore ends with what it     *)
(* promised, and recovery leaves the stores to an import that owns them.    *)
(*                                                                          *)
(* A step is one action of one command, so the lemmas go through the        *)
(* actions: StepKeepsX says that each of them keeps the part X of IInv and  *)
(* names the parts it needs for that.                                       *)
EXTENDS WorkspaceRecovery, TLAPS

\* Every step keeps the types; the steps of a command use where the command is.
LEMMA StepKeepsTypeOK ==
  ASSUME TypeOK, RestoreStands, RollbackStands, OthersStand, PointsStand, PlansStand,
         [Next]_vars
  PROVE  TypeOK'
<1> USE DEF stores, points_, records, limits, Open, Closed, Ops, Places, TypeOK
<1>1. CASE Change
  BY <1>1, RecoveryAssumption DEF Version, command, Fenced, Idle, Change
<1>2. CASE ImportClaims
  BY <1>2, RecoveryAssumption DEF command, Fenced, Idle, ImportClaims
<1>3. CASE ImportEnds
  BY <1>3, RecoveryAssumption DEF command, ImportEnds
<1>4. ASSUME NEW q \in Request, NEW p \in points \union {None}, Preview(q, p)
      PROVE  TypeOK'
  BY <1>4, RecoveryAssumption DEF Content, Previewed, command, Duckdb, State, Fenced,
      Idle, Loads, Preview
<1>5. ASSUME NEW c \in Create, CreateConfirmed(c)
      PROVE  TypeOK'
  BY <1>5, RecoveryAssumption DEF Request, Point, Previewed, State, Fenced, Idle,
      PlanIsCurrent, CreateConfirmed
<1>6. CASE Publish
  BY <1>6, RecoveryAssumption DEF Content, Point, State, Fenced, Target, Safety, GoTo,
      Publish, Confirmed, RestoreStands, OthersStand
<1>7. CASE CreateReceipt
  BY <1>7, RecoveryAssumption DEF Content, Point, State, Fenced, Target, Safety, End,
      GoTo, CreateReceipt, Confirmed, RestoreStands, OthersStand
<1>8. ASSUME NEW r \in Restore, RestoreConfirmed(r)
      PROVE  TypeOK'
  BY <1>8, RecoveryAssumption DEF Request, Point, Previewed, Duckdb, State, Fenced,
      Idle, Target, Safety, Loads, PlanIsCurrent, RestoreConfirmed
<1>9. CASE RestorePrepared
  BY <1>9, RecoveryAssumption DEF GoTo, WriteJournal, RestorePrepared
<1>10. CASE RestoreApplying
  BY <1>10, RecoveryAssumption DEF Target, Safety, WriteJournal, RestoreApplying,
      PointsStand
<1>11. CASE ApplyDuckdb
  BY <1>11, RecoveryAssumption DEF Content, Point, Duckdb, Target, Safety, GoTo,
      ApplyDuckdb, PointsStand
<1>12. CASE ApplySqlite
  BY <1>12, RecoveryAssumption DEF Content, Point, Sqlite, Target, Safety, GoTo,
      ApplySqlite, PointsStand
<1>13. CASE Applied
  BY <1>13, RecoveryAssumption DEF State, GoTo, WriteJournal, Applied
<1>14. CASE RestoreReceipt
  BY <1>14, RecoveryAssumption DEF State, Fenced, Target, Safety, GoTo, RestoreReceipt,
      Confirmed, RestoreStands
<1>15. CASE RestoreCompleted
  BY <1>15, RecoveryAssumption DEF End, WriteJournal, RestoreCompleted
<1>16. CASE RolledBack
  BY <1>16, RecoveryAssumption DEF State, Safety, End, GoTo, Leave, WriteJournal,
      RolledBack, Confirmed, RollbackStands
<1>17. CASE ApplyFails
  BY <1>17, RecoveryAssumption DEF Target, Safety, End, GoTo, Leave, WriteJournal,
      ApplyFails, PointsStand
<1>18. ASSUME NEW d \in Delete, DeleteConfirmed(d)
       PROVE  TypeOK'
  BY <1>18, RecoveryAssumption DEF Request, Duckdb, State, Fenced, Idle, Target, Loads,
      PlanIsCurrent, DeleteConfirmed
<1>19. ASSUME NEW d \in Delete, DeleteReplayed(d)
       PROVE  TypeOK'
  BY <1>19, RecoveryAssumption DEF Request, Fenced, Idle, Target, DeleteReplayed,
      Confirmed, PlansStand
<1>20. CASE DeleteRenames
  BY <1>20, RecoveryAssumption DEF State, Fenced, GoTo, DeleteRenames, OthersStand
<1>21. CASE DeleteAmbiguous
  BY <1>21, RecoveryAssumption DEF End, GoTo, Leave, DeleteAmbiguous
<1>22. CASE DeleteRemoves
  BY <1>22, RecoveryAssumption DEF GoTo, DeleteRemoves
<1>23. CASE DeleteCollects
  BY <1>23, RecoveryAssumption DEF Duckdb, GoTo, Referenced, DeleteCollects
<1>24. CASE DeleteCompleted
  BY <1>24, RecoveryAssumption DEF End, GoTo, Leave, DeleteCompleted
<1>25. CASE ReconcileStarts
  BY <1>25, RecoveryAssumption DEF Idle, ReconcileStarts
<1>26. ASSUME NEW r \in Restore, RepairReceipt(r)
       PROVE  TypeOK'
  BY <1>26, RecoveryAssumption DEF State, Target, AtNext, Proven, RepairReceipt
<1>27. ASSUME NEW r \in Restore, SkipRolledBack(r)
       PROVE  TypeOK'
  BY <1>27, RecoveryAssumption DEF AtNext, SkipRolledBack
<1>28. ASSUME NEW r \in Restore, BeginRollback(r)
       PROVE  TypeOK'
  BY <1>28, RecoveryAssumption DEF Request, Duckdb, State, Target, Safety, Loads,
      AtNext, Proven, BeginRollback
<1>29. ASSUME NEW d \in Delete, FinishDelete(d)
       PROVE  TypeOK'
  BY <1>29, RecoveryAssumption DEF Request, Target, AtNext, FinishDelete, Confirmed,
      PlansStand
<1>30. CASE ReconcileEnds
  BY <1>30, RecoveryAssumption DEF End, AtNext, ReconcileEnds
<1>31. CASE Crash
  BY <1>31, RecoveryAssumption DEF Idle, End, Crash
<1>32. CASE UNCHANGED vars
  BY <1>32 DEF Request, Version, Content, Point, Previewed, Open, Closed, Ops, Places,
      TypeOK, vars, stores, points_, records, command, limits
<1> QED
  BY <1>1, <1>2, <1>3, <1>4, <1>5, <1>6, <1>7, <1>8, <1>9, <1>10, <1>11, <1>12, <1>13,
      <1>14, <1>15, <1>16, <1>17, <1>18, <1>19, <1>20, <1>21, <1>22, <1>23, <1>24,
      <1>25, <1>26, <1>27, <1>28, <1>29, <1>30, <1>31, <1>32 DEF Next, Step

\* Every step leads a command from one of its places to the next, with its
\* journal and the stores as that place says.
LEMMA StepKeepsCommandsStand ==
  ASSUME TypeOK, RestoreStands, RollbackStands, OthersStand, ApplyStands, PlansStand,
         [Next]_vars
  PROVE  /\ RestoreStands'
         /\ RollbackStands'
         /\ OthersStand'
         /\ ApplyStands'
<1> DEFINE Goal ==
      /\ RestoreStands'
      /\ RollbackStands'
      /\ OthersStand'
      /\ ApplyStands'
<1> SUFFICES Goal
  OBVIOUS
<1> USE DEF points_, records, limits, Duckdb, State, Open, Fenced, Target, Safety,
        Confirmed, RestoreStands, RollbackStands, OthersStand, ApplyStands
<1>1. CASE Change
  BY <1>1, RecoveryAssumption DEF command, Idle, Change
<1>2. CASE ImportClaims
  BY <1>2, RecoveryAssumption DEF command, Idle, ImportClaims
<1>3. CASE ImportEnds
  BY <1>3, RecoveryAssumption DEF stores, command, ImportEnds
<1>4. ASSUME NEW q \in Request, NEW p \in points \union {None}, Preview(q, p)
      PROVE  Goal
  BY <1>4, RecoveryAssumption DEF command, Idle, Loads, Preview
<1>5. ASSUME NEW c \in Create, CreateConfirmed(c)
      PROVE  Goal
  BY <1>5, RecoveryAssumption DEF Content, Point, stores, Closed, Ops, Places, TypeOK,
      Idle, PlanIsCurrent, CreateConfirmed
<1>6. CASE Publish
  BY <1>6, RecoveryAssumption DEF stores, GoTo, Publish
<1>7. CASE CreateReceipt
  BY <1>7, RecoveryAssumption DEF stores, End, GoTo, CreateReceipt
<1>8. ASSUME NEW r \in Restore, RestoreConfirmed(r)
      PROVE  Goal
  BY <1>8, RecoveryAssumption DEF Request, stores, Idle, Loads, PlanIsCurrent,
      RestoreConfirmed, PlansStand
<1>9. CASE RestorePrepared
  BY <1>9, RecoveryAssumption DEF Closed, Ops, Places, TypeOK, GoTo, WriteJournal,
      RestorePrepared
<1>10. CASE RestoreApplying
  BY <1>10, RecoveryAssumption DEF Closed, Ops, Places, TypeOK, WriteJournal,
      RestoreApplying
<1>11. CASE ApplyDuckdb
  BY <1>11, RecoveryAssumption DEF GoTo, ApplyDuckdb
<1>12. CASE ApplySqlite
  BY <1>12, RecoveryAssumption DEF Request, Content, Point, Previewed, Sqlite, Closed,
      Ops, Places, TypeOK, GoTo, ApplySqlite
<1>13. CASE Applied
  BY <1>13, RecoveryAssumption DEF stores, Closed, Ops, Places, TypeOK, GoTo,
      WriteJournal, Applied
<1>14. CASE RestoreReceipt
  BY <1>14, RecoveryAssumption DEF stores, GoTo, RestoreReceipt
<1>15. CASE RestoreCompleted
  BY <1>15, RecoveryAssumption DEF End, WriteJournal, RestoreCompleted
<1>16. CASE RolledBack
  BY <1>16, RecoveryAssumption DEF End, GoTo, Leave, WriteJournal, RolledBack
<1>17. CASE ApplyFails
  BY <1>17, RecoveryAssumption DEF End, GoTo, Leave, WriteJournal, ApplyFails
<1>18. ASSUME NEW d \in Delete, DeleteConfirmed(d)
       PROVE  Goal
  BY <1>18, RecoveryAssumption DEF Closed, Ops, Places, TypeOK, Idle, Loads,
      PlanIsCurrent, DeleteConfirmed
<1>19. ASSUME NEW d \in Delete, DeleteReplayed(d)
       PROVE  Goal
  BY <1>19, RecoveryAssumption DEF Request, Idle, DeleteReplayed, PlansStand
<1>20. CASE DeleteRenames
  BY <1>20, RecoveryAssumption DEF GoTo, DeleteRenames
<1>21. CASE DeleteAmbiguous
  BY <1>21, RecoveryAssumption DEF End, GoTo, Leave, DeleteAmbiguous
<1>22. CASE DeleteRemoves
  BY <1>22, RecoveryAssumption DEF GoTo, DeleteRemoves
<1>23. CASE DeleteCollects
  BY <1>23, RecoveryAssumption DEF GoTo, Referenced, DeleteCollects
<1>24. CASE DeleteCompleted
  BY <1>24, RecoveryAssumption DEF End, GoTo, Leave, DeleteCompleted
<1>25. CASE ReconcileStarts
  BY <1>25, RecoveryAssumption DEF Idle, ReconcileStarts
<1>26. ASSUME NEW r \in Restore, RepairReceipt(r)
       PROVE  Goal
  BY <1>26, RecoveryAssumption DEF AtNext, Proven, RepairReceipt
<1>27. ASSUME NEW r \in Restore, SkipRolledBack(r)
       PROVE  Goal
  BY <1>27, RecoveryAssumption DEF AtNext, SkipRolledBack
<1>28. ASSUME NEW r \in Restore, BeginRollback(r)
       PROVE  Goal
  BY <1>28, RecoveryAssumption DEF Closed, Ops, Places, TypeOK, Loads, AtNext, Proven,
      BeginRollback, PlansStand
<1>29. ASSUME NEW d \in Delete, FinishDelete(d)
       PROVE  Goal
  BY <1>29, RecoveryAssumption DEF Request, AtNext, FinishDelete, PlansStand
<1>30. CASE ReconcileEnds
  BY <1>30, RecoveryAssumption DEF End, AtNext, ReconcileEnds
<1>31. CASE Crash
  BY <1>31, RecoveryAssumption DEF Idle, End, Crash
<1>32. CASE UNCHANGED vars
  BY <1>32 DEF Version, Content, Point, Duckdb, State, Open, Fenced, Target, Safety,
      Confirmed, RestoreStands, RollbackStands, OthersStand, ApplyStands, vars, stores,
      points_, records, command, limits
<1> QED
  BY <1>1, <1>2, <1>3, <1>4, <1>5, <1>6, <1>7, <1>8, <1>9, <1>10, <1>11, <1>12, <1>13,
      <1>14, <1>15, <1>16, <1>17, <1>18, <1>19, <1>20, <1>21, <1>22, <1>23, <1>24,
      <1>25, <1>26, <1>27, <1>28, <1>29, <1>30, <1>31, <1>32 DEF Next, Step

\* The points, previews and claims a command relies on are not taken from it:
\* the others are refused while it holds the lock, a delete by its own target.
LEMMA StepKeepsRecordsStand ==
  ASSUME TypeOK, RestoreStands, RollbackStands, OthersStand, PointsStand, PlansStand,
         ImportStands, [Next]_vars
  PROVE  /\ PointsStand'
         /\ PlansStand'
         /\ ImportStands'
<1> DEFINE Goal ==
      /\ PointsStand'
      /\ PlansStand'
      /\ ImportStands'
<1> SUFFICES Goal
  OBVIOUS
<1> USE DEF points_, records, limits, Open, Target, Safety, Confirmed, PlansStand,
        ImportStands, PointsStand
<1>1. CASE Change
  BY <1>1, RecoveryAssumption DEF command, Fenced, Idle, Change
<1>2. CASE ImportClaims
  BY <1>2, RecoveryAssumption DEF command, Fenced, Idle, ImportClaims
<1>3. CASE ImportEnds
  BY <1>3, RecoveryAssumption DEF command, ImportEnds
<1>4. ASSUME NEW q \in Request, NEW p \in points \union {None}, Preview(q, p)
      PROVE  Goal
  BY <1>4, RecoveryAssumption DEF Content, Previewed, command, Duckdb, State, Closed,
      Ops, Places, TypeOK, Fenced, Idle, Loads, Preview
<1>5. ASSUME NEW c \in Create, CreateConfirmed(c)
      PROVE  Goal
  BY <1>5, RecoveryAssumption DEF State, Fenced, Idle, PlanIsCurrent, CreateConfirmed
<1>6. CASE Publish
  BY <1>6, RecoveryAssumption DEF State, Fenced, GoTo, Publish, RestoreStands
<1>7. CASE CreateReceipt
  BY <1>7, RecoveryAssumption DEF End, GoTo, CreateReceipt
<1>8. ASSUME NEW r \in Restore, RestoreConfirmed(r)
      PROVE  Goal
  BY <1>8, RecoveryAssumption DEF Duckdb, State, Fenced, Idle, Loads, PlanIsCurrent,
      RestoreConfirmed
<1>9. CASE RestorePrepared
  BY <1>9, RecoveryAssumption DEF State, Fenced, GoTo, WriteJournal, RestorePrepared,
      RestoreStands
<1>10. CASE RestoreApplying
  BY <1>10, RecoveryAssumption DEF State, Fenced, WriteJournal, RestoreApplying,
      RestoreStands
<1>11. CASE ApplyDuckdb
  BY <1>11, RecoveryAssumption DEF Duckdb, GoTo, ApplyDuckdb
<1>12. CASE ApplySqlite
  BY <1>12, RecoveryAssumption DEF Sqlite, GoTo, ApplySqlite
<1>13. CASE Applied
  BY <1>13, RecoveryAssumption DEF State, Fenced, GoTo, WriteJournal, Applied,
      RestoreStands
<1>14. CASE RestoreReceipt
  BY <1>14, RecoveryAssumption DEF GoTo, RestoreReceipt
<1>15. CASE RestoreCompleted
  BY <1>15, RecoveryAssumption DEF State, Fenced, End, WriteJournal, RestoreCompleted,
      RestoreStands
<1>16. CASE RolledBack
  BY <1>16, RecoveryAssumption DEF State, End, GoTo, Leave, WriteJournal, RolledBack,
      RollbackStands
<1>17. CASE ApplyFails
  BY <1>17, RecoveryAssumption DEF State, Closed, Ops, Places, TypeOK, Fenced, End,
      GoTo, Leave, WriteJournal, ApplyFails, RollbackStands, OthersStand
<1>18. ASSUME NEW d \in Delete, DeleteConfirmed(d)
       PROVE  Goal
  BY <1>18, RecoveryAssumption DEF Duckdb, State, Fenced, Idle, Loads, PlanIsCurrent,
      DeleteConfirmed
<1>19. ASSUME NEW d \in Delete, DeleteReplayed(d)
       PROVE  Goal
  BY <1>19, RecoveryAssumption DEF Fenced, Idle, DeleteReplayed
<1>20. CASE DeleteRenames
  BY <1>20, RecoveryAssumption DEF Point, State, Fenced, GoTo, DeleteRenames,
      OthersStand
<1>21. CASE DeleteAmbiguous
  BY <1>21, RecoveryAssumption DEF End, GoTo, Leave, DeleteAmbiguous
<1>22. CASE DeleteRemoves
  BY <1>22, RecoveryAssumption DEF GoTo, DeleteRemoves
<1>23. CASE DeleteCollects
  BY <1>23, RecoveryAssumption DEF Duckdb, GoTo, Referenced, DeleteCollects
<1>24. CASE DeleteCompleted
  BY <1>24, RecoveryAssumption DEF State, Fenced, End, GoTo, Leave, DeleteCompleted,
      OthersStand
<1>25. CASE ReconcileStarts
  BY <1>25, RecoveryAssumption DEF Idle, ReconcileStarts
<1>26. ASSUME NEW r \in Restore, RepairReceipt(r)
       PROVE  Goal
  BY <1>26, RecoveryAssumption DEF State, AtNext, Proven, RepairReceipt
<1>27. ASSUME NEW r \in Restore, SkipRolledBack(r)
       PROVE  Goal
  BY <1>27, RecoveryAssumption DEF AtNext, SkipRolledBack
<1>28. ASSUME NEW r \in Restore, BeginRollback(r)
       PROVE  Goal
  BY <1>28, RecoveryAssumption DEF Duckdb, State, Closed, Ops, Places, TypeOK, Loads,
      AtNext, Proven, BeginRollback
<1>29. ASSUME NEW d \in Delete, FinishDelete(d)
       PROVE  Goal
  BY <1>29, RecoveryAssumption DEF AtNext, FinishDelete
<1>30. CASE ReconcileEnds
  BY <1>30, RecoveryAssumption DEF End, AtNext, ReconcileEnds
<1>31. CASE Crash
  BY <1>31, RecoveryAssumption DEF Idle, End, Crash
<1>32. CASE UNCHANGED vars
  BY <1>32 DEF Request, Version, Content, Point, Open, Target, Safety, Confirmed,
      PlansStand, ImportStands, PointsStand, vars, stores, points_, records, command,
      limits
<1> QED
  BY <1>1, <1>2, <1>3, <1>4, <1>5, <1>6, <1>7, <1>8, <1>9, <1>10, <1>11, <1>12, <1>13,
      <1>14, <1>15, <1>16, <1>17, <1>18, <1>19, <1>20, <1>21, <1>22, <1>23, <1>24,
      <1>25, <1>26, <1>27, <1>28, <1>29, <1>30, <1>31, <1>32 DEF Next, Step

\* A step that leaves the stores apart has an open journal, or is undoing a
\* completed restore; points and previews are taken of whole workspaces.
LEMMA StepKeepsWholeUnlessOpen ==
  ASSUME TypeOK, RestoreStands, RollbackStands, OthersStand, ApplyStands, PointsStand,
         PlansStand, WholeUnlessOpen, [Next]_vars
  PROVE  WholeUnlessOpen'
<1> USE DEF stores, points_, records, limits, Open, Fenced, Whole, Confirmed,
        WholeUnlessOpen
<1>1. CASE Change
  BY <1>1, RecoveryAssumption DEF command, Idle, Change
<1>2. CASE ImportClaims
  BY <1>2, RecoveryAssumption DEF command, Idle, ImportClaims
<1>3. CASE ImportEnds
  BY <1>3, RecoveryAssumption DEF command, ImportEnds
<1>4. ASSUME NEW q \in Request, NEW p \in points \union {None}, Preview(q, p)
      PROVE  WholeUnlessOpen'
  BY <1>4, RecoveryAssumption DEF command, Duckdb, State, Idle, Loads, Preview
<1>5. ASSUME NEW c \in Create, CreateConfirmed(c)
      PROVE  WholeUnlessOpen'
  BY <1>5, RecoveryAssumption DEF State, Idle, PlanIsCurrent, CreateConfirmed
<1>6. CASE Publish
  BY <1>6, RecoveryAssumption DEF State, Target, Safety, GoTo, Publish, RestoreStands,
      OthersStand
<1>7. CASE CreateReceipt
  BY <1>7, RecoveryAssumption DEF End, GoTo, CreateReceipt
<1>8. ASSUME NEW r \in Restore, RestoreConfirmed(r)
      PROVE  WholeUnlessOpen'
  BY <1>8, RecoveryAssumption DEF Duckdb, State, Idle, Target, Safety, Loads,
      PlanIsCurrent, RestoreConfirmed
<1>9. CASE RestorePrepared
  BY <1>9, RecoveryAssumption DEF GoTo, WriteJournal, RestorePrepared
<1>10. CASE RestoreApplying
  BY <1>10, RecoveryAssumption DEF Target, WriteJournal, RestoreApplying
<1>11. CASE ApplyDuckdb
  BY <1>11, RecoveryAssumption DEF Duckdb, State, Closed, Ops, Places, TypeOK, Target,
      Safety, GoTo, ApplyDuckdb, RestoreStands, RollbackStands, OthersStand
<1>12. CASE ApplySqlite
  BY <1>12, RecoveryAssumption DEF Sqlite, Duckdb, State, Target, Safety, GoTo,
      ApplySqlite, ApplyStands, PointsStand
<1>13. CASE Applied
  BY <1>13, RecoveryAssumption DEF State, GoTo, WriteJournal, Applied
<1>14. CASE RestoreReceipt
  BY <1>14, RecoveryAssumption DEF GoTo, RestoreReceipt
<1>15. CASE RestoreCompleted
  BY <1>15, RecoveryAssumption DEF Request, State, Target, Safety, End, WriteJournal,
      RestoreCompleted, RestoreStands
<1>16. CASE RolledBack
  BY <1>16, RecoveryAssumption DEF Request, State, Safety, End, GoTo, Leave,
      WriteJournal, RolledBack, RollbackStands
<1>17. CASE ApplyFails
  BY <1>17, RecoveryAssumption DEF Closed, Ops, Places, TypeOK, Safety, End, GoTo,
      Leave, WriteJournal, ApplyFails
<1>18. ASSUME NEW d \in Delete, DeleteConfirmed(d)
       PROVE  WholeUnlessOpen'
  BY <1>18, RecoveryAssumption DEF Duckdb, State, Idle, Target, Loads, PlanIsCurrent,
      DeleteConfirmed
<1>19. ASSUME NEW d \in Delete, DeleteReplayed(d)
       PROVE  WholeUnlessOpen'
  BY <1>19, RecoveryAssumption DEF Idle, Target, DeleteReplayed
<1>20. CASE DeleteRenames
  BY <1>20, RecoveryAssumption DEF GoTo, DeleteRenames
<1>21. CASE DeleteAmbiguous
  BY <1>21, RecoveryAssumption DEF End, GoTo, Leave, DeleteAmbiguous
<1>22. CASE DeleteRemoves
  BY <1>22, RecoveryAssumption DEF GoTo, DeleteRemoves
<1>23. CASE DeleteCollects
  BY <1>23, RecoveryAssumption DEF Duckdb, GoTo, Referenced, DeleteCollects
<1>24. CASE DeleteCompleted
  BY <1>24, RecoveryAssumption DEF End, GoTo, Leave, DeleteCompleted
<1>25. CASE ReconcileStarts
  BY <1>25, RecoveryAssumption DEF Idle, ReconcileStarts
<1>26. ASSUME NEW r \in Restore, RepairReceipt(r)
       PROVE  WholeUnlessOpen'
  BY <1>26, RecoveryAssumption DEF Request, State, Target, AtNext, Proven,
      RepairReceipt, PlansStand
<1>27. ASSUME NEW r \in Restore, SkipRolledBack(r)
       PROVE  WholeUnlessOpen'
  BY <1>27, RecoveryAssumption DEF AtNext, SkipRolledBack
<1>28. ASSUME NEW r \in Restore, BeginRollback(r)
       PROVE  WholeUnlessOpen'
  BY <1>28, RecoveryAssumption DEF Duckdb, State, Closed, Ops, Places, TypeOK, Target,
      Safety, Loads, AtNext, Proven, BeginRollback
<1>29. ASSUME NEW d \in Delete, FinishDelete(d)
       PROVE  WholeUnlessOpen'
  BY <1>29, RecoveryAssumption DEF Target, AtNext, FinishDelete
<1>30. CASE ReconcileEnds
  BY <1>30, RecoveryAssumption DEF End, AtNext, ReconcileEnds
<1>31. CASE Crash
  BY <1>31, RecoveryAssumption DEF Idle, End, Crash
<1>32. CASE UNCHANGED vars
  BY <1>32 DEF Request, Open, Fenced, Whole, Confirmed, WholeUnlessOpen, vars, stores,
      points_, records, command, limits
<1> QED
  BY <1>1, <1>2, <1>3, <1>4, <1>5, <1>6, <1>7, <1>8, <1>9, <1>10, <1>11, <1>12, <1>13,
      <1>14, <1>15, <1>16, <1>17, <1>18, <1>19, <1>20, <1>21, <1>22, <1>23, <1>24,
      <1>25, <1>26, <1>27, <1>28, <1>29, <1>30, <1>31, <1>32 DEF Next, Step

\* No step names an object that is gone or removes one that is named.
LEMMA StepKeepsReferenced ==
  ASSUME RestoreStands, OthersStand, PointsStand, WholeUnlessOpen,
         ReferencedObjectsExist, [Next]_vars
  PROVE  ReferencedObjectsExist'
<1> USE DEF stores, points_, records, limits, Duckdb, Referenced, ReferencedObjectsExist
<1>1. CASE Change
  BY <1>1, RecoveryAssumption DEF command, Open, Fenced, Idle, Change
<1>2. CASE ImportClaims
  BY <1>2, RecoveryAssumption DEF command, Open, Fenced, Idle, ImportClaims
<1>3. CASE ImportEnds
  BY <1>3, RecoveryAssumption DEF command, ImportEnds
<1>4. ASSUME NEW q \in Request, NEW p \in points \union {None}, Preview(q, p)
      PROVE  ReferencedObjectsExist'
  BY <1>4, RecoveryAssumption DEF command, State, Open, Fenced, Idle, Loads, Preview
<1>5. ASSUME NEW c \in Create, CreateConfirmed(c)
      PROVE  ReferencedObjectsExist'
  BY <1>5, RecoveryAssumption DEF State, Open, Fenced, Idle, PlanIsCurrent,
      CreateConfirmed
<1>6. CASE Publish
  BY <1>6, RecoveryAssumption DEF State, Open, Fenced, Target, Safety, GoTo, Publish,
      Confirmed, RestoreStands, OthersStand
<1>7. CASE CreateReceipt
  BY <1>7, RecoveryAssumption DEF End, GoTo, CreateReceipt
<1>8. ASSUME NEW r \in Restore, RestoreConfirmed(r)
      PROVE  ReferencedObjectsExist'
  BY <1>8, RecoveryAssumption DEF State, Open, Fenced, Idle, Target, Safety, Loads,
      PlanIsCurrent, RestoreConfirmed
<1>9. CASE RestorePrepared
  BY <1>9, RecoveryAssumption DEF GoTo, WriteJournal, RestorePrepared
<1>10. CASE RestoreApplying
  BY <1>10, RecoveryAssumption DEF Target, WriteJournal, RestoreApplying
<1>11. CASE ApplyDuckdb
  BY <1>11, RecoveryAssumption DEF Target, Safety, GoTo, ApplyDuckdb, PointsStand
<1>12. CASE ApplySqlite
  BY <1>12, RecoveryAssumption DEF Sqlite, Open, Fenced, Target, Safety, GoTo,
      ApplySqlite, Whole, Confirmed, WholeUnlessOpen, PointsStand
<1>13. CASE Applied
  BY <1>13, RecoveryAssumption DEF State, GoTo, WriteJournal, Applied
<1>14. CASE RestoreReceipt
  BY <1>14, RecoveryAssumption DEF GoTo, RestoreReceipt
<1>15. CASE RestoreCompleted
  BY <1>15, RecoveryAssumption DEF End, WriteJournal, RestoreCompleted
<1>16. CASE RolledBack
  BY <1>16, RecoveryAssumption DEF State, End, GoTo, Leave, WriteJournal, RolledBack
<1>17. CASE ApplyFails
  BY <1>17, RecoveryAssumption DEF Safety, End, GoTo, Leave, WriteJournal, ApplyFails
<1>18. ASSUME NEW d \in Delete, DeleteConfirmed(d)
       PROVE  ReferencedObjectsExist'
  BY <1>18, RecoveryAssumption DEF State, Open, Fenced, Idle, Target, Loads,
      PlanIsCurrent, DeleteConfirmed
<1>19. ASSUME NEW d \in Delete, DeleteReplayed(d)
       PROVE  ReferencedObjectsExist'
  BY <1>19, RecoveryAssumption DEF Open, Fenced, Idle, Target, DeleteReplayed
<1>20. CASE DeleteRenames
  BY <1>20, RecoveryAssumption DEF GoTo, DeleteRenames
<1>21. CASE DeleteAmbiguous
  BY <1>21, RecoveryAssumption DEF End, GoTo, Leave, DeleteAmbiguous
<1>22. CASE DeleteRemoves
  BY <1>22, RecoveryAssumption DEF GoTo, DeleteRemoves
<1>23. CASE DeleteCollects
  BY <1>23, RecoveryAssumption DEF GoTo, DeleteCollects
<1>24. CASE DeleteCompleted
  BY <1>24, RecoveryAssumption DEF End, GoTo, Leave, DeleteCompleted
<1>25. CASE ReconcileStarts
  BY <1>25, RecoveryAssumption DEF Idle, ReconcileStarts
<1>26. ASSUME NEW r \in Restore, RepairReceipt(r)
       PROVE  ReferencedObjectsExist'
  BY <1>26, RecoveryAssumption DEF State, Target, AtNext, Proven, RepairReceipt
<1>27. ASSUME NEW r \in Restore, SkipRolledBack(r)
       PROVE  ReferencedObjectsExist'
  BY <1>27, RecoveryAssumption DEF AtNext, SkipRolledBack
<1>28. ASSUME NEW r \in Restore, BeginRollback(r)
       PROVE  ReferencedObjectsExist'
  BY <1>28, RecoveryAssumption DEF State, Target, Safety, Loads, AtNext, Proven,
      BeginRollback
<1>29. ASSUME NEW d \in Delete, FinishDelete(d)
       PROVE  ReferencedObjectsExist'
  BY <1>29, RecoveryAssumption DEF Target, AtNext, FinishDelete
<1>30. CASE ReconcileEnds
  BY <1>30, RecoveryAssumption DEF End, AtNext, ReconcileEnds
<1>31. CASE Crash
  BY <1>31, RecoveryAssumption DEF Idle, End, Crash
<1>32. CASE UNCHANGED vars
  BY <1>32 DEF Duckdb, Referenced, ReferencedObjectsExist, vars, stores, points_,
      records, command, limits
<1> QED
  BY <1>1, <1>2, <1>3, <1>4, <1>5, <1>6, <1>7, <1>8, <1>9, <1>10, <1>11, <1>12, <1>13,
      <1>14, <1>15, <1>16, <1>17, <1>18, <1>19, <1>20, <1>21, <1>22, <1>23, <1>24,
      <1>25, <1>26, <1>27, <1>28, <1>29, <1>30, <1>31, <1>32 DEF Next, Step
LEMMA InitHolds == Init => IInv
<1> SUFFICES ASSUME Init PROVE IInv
  OBVIOUS
<1> USE RecoveryAssumption DEF Init
<1>1. TypeOK
  <2>1. importing \in BOOLEAN
    BY Zenon
  <2> QED
    BY <2>1 DEF TypeOK, Version, Open, Closed, Ops, Places
<1>2. RestoreStands /\ RollbackStands /\ OthersStand /\ ApplyStands
  BY DEF RestoreStands, RollbackStands, OthersStand, ApplyStands
<1>3. PointsStand /\ PlansStand /\ ImportStands
  BY DEF PointsStand, PlansStand, ImportStands, Confirmed
<1>4. WholeUnlessOpen /\ ReferencedObjectsExist
  BY DEF WholeUnlessOpen, Confirmed, ReferencedObjectsExist, Referenced
<1> QED
  BY <1>1, <1>2, <1>3, <1>4 DEF IInv

LEMMA StepKeepsInvariant == IInv /\ [Next]_vars => IInv'
  BY StepKeepsTypeOK, StepKeepsCommandsStand, StepKeepsRecordsStand,
     StepKeepsWholeUnlessOpen, StepKeepsReferenced DEF IInv

\* The invariant: where each command can be, and what the stores, journals, points
\* and previews are then.
THEOREM RecoveryInvariant == Spec => []IInv
<1> QED
  BY InitHolds, StepKeepsInvariant, PTL DEF Spec

\* A workspace whose stores disagree is fenced while no command runs, unless a
\* reconciliation undid a completed restore (dispatch fence, restore journal).
THEOREM RecoveryFencesTorn == Spec => []TornIsFenced
<1>1. IInv => TornIsFenced
  BY DEF IInv, WholeUnlessOpen, TornIsFenced
<1> QED
  BY RecoveryInvariant, <1>1, PTL

\* The stores and the recovery points keep the objects they name through every
\* delete (garbage collection after a delete).
THEOREM RecoveryKeepsObjects == Spec => []ReferencedObjectsExist
<1>1. IInv => ReferencedObjectsExist
  BY DEF IInv
<1> QED
  BY RecoveryInvariant, <1>1, PTL

\* A restore is acknowledged over the content of its point, at once or by a
\* reconciliation, and a journal ends rolled back over that of its safety point.
THEOREM RecoveryEndsWhole == Spec => RestoreEndsWhole
<1> DEFINE EndsWhole ==
      \A r \in Restore :
        /\ r \in restored' \ restored => State' = Target(r)[2]
        /\ journal'[r] = "rolled_back" /\ journal[r] # "rolled_back" => State' = plan[r].state
<1>1. ASSUME IInv, [Next]_vars PROVE EndsWhole
  <2> SUFFICES ASSUME restored' # restored \/ \E r \in Restore : journal'[r] = "rolled_back"
                                                      /\ journal[r] # "rolled_back"
               PROVE  EndsWhole
    OBVIOUS
  <2>1. CASE RestoreReceipt
    BY <1>1, <2>1 DEF IInv, RestoreStands, RestoreReceipt, State, stores
  <2>2. CASE RolledBack
    BY <1>1, <2>2 DEF IInv, TypeOK, RollbackStands, RolledBack, WriteJournal, State,
       stores, Safety
  <2>3. ASSUME NEW r \in Restore, RepairReceipt(r) PROVE EndsWhole
    BY <1>1, <2>3 DEF IInv, TypeOK, RepairReceipt, Proven, State, stores
  <2>4. CASE UNCHANGED vars
    BY <2>4 DEF vars, records
  <2> QED
    BY <1>1, <2>1, <2>2, <2>3, <2>4 DEF IInv, TypeOK, Next, Step, records, WriteJournal,
       Change, ImportClaims, ImportEnds, Preview, CreateConfirmed, Publish,
       CreateReceipt, RestoreConfirmed, RestorePrepared, RestoreApplying,
       ApplyDuckdb, ApplySqlite, Applied, RestoreCompleted, ApplyFails,
       DeleteConfirmed, DeleteReplayed, DeleteRenames, DeleteAmbiguous,
       DeleteRemoves, DeleteCollects, DeleteCompleted, ReconcileStarts,
       SkipRolledBack, BeginRollback, FinishDelete, ReconcileEnds, Crash
<1> QED
  BY RecoveryInvariant, <1>1, PTL DEF RestoreEndsWhole, Spec

\* Only the two writes of _apply_point change a store under a command, and they run
\* for a journal that was open when the import claimed the workspace, or for a
\* completed one: no import claims a fenced workspace.
THEOREM RecoveryLeavesImports == Spec => ImportsOwnTheStores
<1> DEFINE Leaves == importing /\ ~Idle => UNCHANGED <<sqlite, duckdb>> \/ req \in undone
<1>1. ASSUME IInv, [Next]_vars PROVE Leaves
  <2>1. CASE ApplyDuckdb
    BY <1>1, <2>1 DEF IInv, TypeOK, RestoreStands, RollbackStands, OthersStand, ImportStands,
       ApplyDuckdb, Idle, Ops
  <2>2. CASE ApplySqlite
    BY <1>1, <2>2 DEF IInv, TypeOK, RestoreStands, RollbackStands, OthersStand, ImportStands,
       ApplySqlite, Idle, Ops
  <2>3. CASE Change
    BY <2>3 DEF Change
  <2>4. CASE UNCHANGED vars
    BY <2>4 DEF vars, stores
  <2> QED
    BY <1>1, <2>1, <2>2, <2>3, <2>4 DEF Next, Step, stores,
       ImportClaims, ImportEnds, Preview, CreateConfirmed, Publish,
       CreateReceipt, RestoreConfirmed, RestorePrepared, RestoreApplying,
       Applied, RestoreReceipt, RestoreCompleted, RolledBack, ApplyFails,
       DeleteConfirmed, DeleteReplayed, DeleteRenames, DeleteAmbiguous,
       DeleteRemoves, DeleteCollects, DeleteCompleted, ReconcileStarts,
       RepairReceipt, SkipRolledBack, BeginRollback, FinishDelete,
       ReconcileEnds, Crash
<1> QED
  BY RecoveryInvariant, <1>1, PTL DEF ImportsOwnTheStores, Spec
=============================================================================
