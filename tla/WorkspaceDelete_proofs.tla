------------------------ MODULE WorkspaceDelete_proofs ----------------------
(* WorkspaceDelete for any number of changes, crashes and faults: IInv is   *)
(* inductive, and with it nothing is removed before the audit's point holds *)
(* it, a torn deletion stays fenced and recovery points keep their objects. *)
EXTENDS WorkspaceDelete, TLAPS

LEMMA InitHolds == Init => IInv
<1> SUFFICES ASSUME Init PROVE IInv
  OBVIOUS
<1> USE DeleteAssumption DEF Init
<1>1. TypeOK
  <2>1. tombstoned \in BOOLEAN /\ active \in BOOLEAN /\ importing \in BOOLEAN
    BY Zenon
  <2> QED
    BY <2>1 DEF TypeOK, Version, Unfinished
<1>2. StageStands
  BY DEF StageStands, Resumed
<1>3. CommandStands /\ PointsStand
  BY DEF CommandStands, PointsStand, Resumed, Exists, Version
<1> QED
  BY <1>1, <1>2, <1>3 DEF IInv

\* The point that is published is the last state of the workspace, tombstoned.
LEMMA PublishesFull ==
  ASSUME IInv, at \in {"publish", "receipt"}, Readable
  PROVE  State = Full /\ State \in Point
<1> USE DEF IInv
<1>1. stage # "completed" /\ tombstoned = TRUE /\ Resumed = "prepared"
  BY DEF TypeOK, CommandStands, Resumed
<1>2. sqlite = fresh /\ duckdb = fresh
  BY <1>1 DEF StageStands, Readable
<1> QED
  BY <1>1, <1>2 DEF TypeOK, State, Full, Point

\* Each action keeps the invariant.
LEMMA StepKeepsInvariant == IInv /\ [Next]_vars => IInv'
<1> SUFFICES ASSUME IInv, [Next]_vars PROVE IInv'
  OBVIOUS
<1> USE DeleteAssumption DEF IInv, TypeOK, StageStands, CommandStands, PointsStand
<1>1. CASE Select
  BY <1>1 DEF Version, stores, receipt, limits, State, Point, Unfinished, Fenced,
      Exists, Free, Resumed, Reconcilable, Full, Select
<1>2. CASE Edit
  <2>1. Free /\ Change
    BY <1>2 DEF Edit
  <2>2. TypeOK'
    BY <2>1 DEF Change, Version, Point, receipt, limits
  <2>3. StageStands'
    BY <2>1 DEF Free, Fenced, Exists, Change, receipt, Resumed, Unfinished
  <2>4. CommandStands' /\ PointsStand'
    BY <2>1 DEF Version, receipt, limits, Point, Unfinished, Fenced, Exists, Free,
        Change, Resumed, Reconcilable
  <2> QED
    BY <2>2, <2>3, <2>4
<1>3. CASE ImportClaims
  BY <1>3 DEF Version, stores, receipt, limits, State, Point, Unfinished, Fenced,
      Exists, Free, Resumed, Reconcilable, Full, ImportClaims
<1>4. CASE ImportCommits
  <2>1. Free /\ Change
    BY <1>4 DEF ImportCommits
  <2>2. TypeOK'
    BY <2>1 DEF Change, Version, Point, receipt, limits
  <2>3. StageStands'
    BY <2>1 DEF Free, Fenced, Exists, Change, receipt, Resumed, Unfinished
  <2>4. CommandStands' /\ PointsStand'
    BY <2>1 DEF Version, receipt, limits, Point, Unfinished, Fenced, Exists, Free,
        Change, Resumed, Reconcilable
  <2> QED
    BY <2>2, <2>3, <2>4
<1>5. CASE ImportEnds
  <2>1. TypeOK' /\ StageStands'
    BY <1>5 DEF Version, stores, receipt, limits, State, Point, Unfinished, Exists,
        Resumed, Reconcilable, Full, ImportEnds
  <2>2. CommandStands' /\ PointsStand'
    BY <1>5 DEF Version, stores, receipt, limits, State, Point, Unfinished, Exists,
        Resumed, Reconcilable, Full, ImportEnds
  <2> QED
    BY <2>1, <2>2
<1>6. CASE CreatePoint
  BY <1>6 DEF Version, receipt, others, limits, State, Point, Unfinished, Fenced,
      Exists, Free, Resumed, Reconcilable, Full, CreatePoint
<1>7. CASE Preview
  BY <1>7 DEF Version, stores, receipt, limits, State, Point, Unfinished, Fenced,
      Exists, Free, Resumed, Reconcilable, Full, Preview
<1>8. CASE DeleteConfirmed
  BY <1>8 DEF Version, stores, receipt, others, limits, State, Point, Unfinished,
      Fenced, Exists, Free, Resumed, Reconcilable, Full, DeleteConfirmed
<1>9. CASE Tombstone
  BY <1>9 DEF Version, receipt, others, limits, State, Point, Unfinished, Exists, GoTo,
      Resumed, Reconcilable, Full, Tombstone
<1>10. CASE Publish
  <2>1. State = Full /\ State \in Point
    BY <1>10, PublishesFull DEF Publish, Refused
  <2>2. TypeOK'
    BY <1>10, <2>1 DEF Publish, GoTo, receipt, others, limits
  <2>3. StageStands'
    BY <1>10 DEF Version, receipt, others, limits, State, Point, Unfinished, Exists,
        GoTo, Readable, Refused, Resumed, Reconcilable, Full, Publish
  <2>4. CommandStands'
    BY <1>10 DEF Version, receipt, others, limits, State, Point, Unfinished, Exists,
        GoTo, Readable, Refused, Resumed, Reconcilable, Full, Publish
  <2>5. PointsStand'
    BY <1>10, <2>1 DEF Publish, Refused, Readable, GoTo, receipt, others, Full
  <2> QED
    BY <2>2, <2>3, <2>4, <2>5
<1>11. CASE PublishRefused
  BY <1>11 DEF Version, receipt, others, limits, State, Point, Unfinished, Exists, End,
      Readable, Refused, Raise, Resumed, Reconcilable, Full, PublishRefused
<1>12. CASE CreateReceipt
  <2>1. State = Full /\ State \in Point
    BY <1>12, PublishesFull DEF CreateReceipt, Readable
  <2>2. TypeOK' /\ StageStands'
    BY <1>12 DEF Version, stores, receipt, others, limits, State, Point, Unfinished,
        Exists, GoTo, Resumed, Reconcilable, Full, CreateReceipt
  <2>3. CommandStands'
    BY <1>12, <2>1 DEF Version, stores, receipt, others, limits, Unfinished, Exists,
        GoTo, Resumed, Reconcilable, CreateReceipt
  <2>4. PointsStand'
    BY <1>12 DEF Version, stores, receipt, others, limits, State, Point, Unfinished,
        Exists, GoTo, Resumed, Reconcilable, Full, CreateReceipt
  <2> QED
    BY <2>2, <2>3, <2>4
<1>13. CASE NameAudit
  BY <1>13 DEF Version, stores, receipt, others, limits, State, Point, Unfinished,
      Exists, GoTo, Whole, Resumed, Reconcilable, Full, NameAudit
<1>14. CASE Drop
  BY <1>14 DEF Version, receipt, others, limits, State, Point, Unfinished, Exists, GoTo,
      Whole, Resumed, Reconcilable, Full, Drop
<1>15. CASE DuckdbDeleted
  BY <1>15 DEF Version, stores, receipt, others, limits, State, Point, Unfinished,
      Exists, GoTo, Resumed, Reconcilable, Full, DuckdbDeleted
<1>16. CASE DeleteRows
  BY <1>16 DEF Version, receipt, others, limits, State, Point, Unfinished, Exists, GoTo,
      Resumed, Reconcilable, Full, DeleteRows
<1>17. CASE SqliteDeleted
  BY <1>17 DEF Version, stores, receipt, others, limits, State, Point, Unfinished,
      Exists, GoTo, Resumed, Reconcilable, Full, SqliteDeleted
<1>18. CASE Collect
  BY <1>18 DEF Version, receipt, others, limits, State, Point, Unfinished, Exists, GoTo,
      Unreferenced, Resumed, Reconcilable, Full, Collect
<1>19. CASE Completed
  BY <1>19 DEF Version, stores, receipt, others, limits, State, Point, Unfinished,
      Exists, End, Resumed, Reconcilable, Full, Completed
<1>20. CASE Fault
  <2>1. objects' \subseteq objects /\ objects \ Unreferenced \subseteq objects'
    BY <1>20 DEF Fault
  <2>2. TypeOK'
    BY <1>20, <2>1 DEF Fault, Raise, End, Unfinished, Reconcilable, others
  <2>3. StageStands'
    BY <1>20 DEF Fault, Raise, End, Resumed, Reconcilable, Unfinished, Exists, others
  <2>4. CommandStands'
    BY <1>20 DEF Fault, Raise, End, Resumed
  <2>5. PointsStand'
    BY <1>20, <2>1 DEF Version, receipt, others, State, Point, Unfinished, Exists, End,
        Unreferenced, Raise, Resumed, Reconcilable, Full, Fault
  <2> QED
    BY <2>2, <2>3, <2>4, <2>5
<1>21. CASE Crash
  BY <1>21 DEF Version, stores, receipt, others, State, Point, Unfinished, Exists, End,
      Resumed, Reconcilable, Full, Crash
<1>22. CASE ReconcileStarts
  BY <1>22 DEF Version, stores, receipt, others, limits, State, Point, Unfinished,
      Exists, Resumed, Reconcilable, Full, ReconcileStarts
<1>23. CASE UNCHANGED vars
  BY <1>23 DEF vars, stores, receipt, others, limits, State, Full, Resumed,
      Reconcilable, Unfinished, Exists
<1> QED
  BY <1>1, <1>2, <1>3, <1>4, <1>5, <1>6, <1>7, <1>8, <1>9, <1>10, <1>11, <1>12, <1>13,
      <1>14, <1>15, <1>16, <1>17, <1>18, <1>19, <1>20, <1>21, <1>22, <1>23 DEF Next, Step

\* The invariant: the stage of the receipt, the place of the command, the stores and
\* the recovery points agree, whatever crashed or failed on the way.
THEOREM DeleteInvariant == Spec => []IInv
<1> QED
  BY InitHolds, StepKeepsInvariant, PTL DEF Spec

\* Nothing is removed from either store before a verified recovery point of all of
\* the workspace is named in the receipt, and that point stays whole.
THEOREM DeleteAuditsFirst == Spec => []AuditBeforeRemoval
<1>1. IInv => AuditBeforeRemoval
  <2> SUFFICES ASSUME IInv, duckdb = None \/ sqlite = None
               PROVE  audit = Full /\ Whole(audit)
    BY DEF AuditBeforeRemoval, Exists
  <2>1. duckdb = None
    BY DeleteAssumption DEF IInv, TypeOK, StageStands, Resumed, State, Full, Unfinished, Exists
  <2> QED
    BY <2>1, DeleteAssumption DEF IInv, PointsStand, Whole
<1> QED
  BY DeleteInvariant, <1>1, PTL

\* Between commands, a deletion that has begun is fenced until both stores have lost
\* the workspace, and it is not the active one.
THEOREM DeleteStaysFenced == Spec => []TornDeletionIsFenced
<1>1. IInv => TornDeletionIsFenced
  BY DeleteAssumption DEF IInv, TypeOK, StageStands, CommandStands, PointsStand, Resumed,
     State, Full, Unfinished, Exists, Fenced, TornDeletionIsFenced
<1> QED
  BY DeleteInvariant, <1>1, PTL

\* The collection leaves every recovery point its objects, and a completed deletion
\* leaves no others.
THEOREM DeleteKeepsPoints == Spec => []PointsKeepTheirObjects
<1>1. IInv => PointsKeepTheirObjects
  BY DEF IInv, PointsStand, PointsKeepTheirObjects
<1> QED
  BY DeleteInvariant, <1>1, PTL
=============================================================================
