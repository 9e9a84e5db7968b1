------------------------- MODULE LocalRestore_proofs --------------------------
(* LocalRestore for any number of restores, writes, crashes and faults: IInv *)
(* is inductive, so live data that are torn can be recovered, and a restore  *)
(* ends as its journal and its report say.                                   *)
EXTENDS LocalRestore, TLAPS

LEMMA Orders ==
  /\ Len(InstallOrder) = 3
  /\ \A i \in 1 .. 3 : InstallOrder[i] \in Component /\ CopyOrder[i] \in Component
  /\ \A c \in Component : \E i \in 1 .. 3 : InstallOrder[i] = c
  /\ \A c \in Component : \E i \in 1 .. 3 : CopyOrder[i] = c
  /\ \A i, k \in 1 .. 3 : InstallOrder[i] = InstallOrder[k] \/ CopyOrder[i] = CopyOrder[k] => i = k
<1>1. /\ InstallOrder[1] = "dataset-objects" /\ InstallOrder[2] = "duckdb" /\ InstallOrder[3] = "sqlite"
      /\ CopyOrder[1] = "dataset-objects" /\ CopyOrder[2] = "sqlite" /\ CopyOrder[3] = "duckdb"
      /\ Len(InstallOrder) = 3
  BY DEF InstallOrder, CopyOrder
<1>2. \A i \in 1 .. 3 : i = 1 \/ i = 2 \/ i = 3
  OBVIOUS
<1> QED
  BY <1>1, <1>2 DEF Component

\* The content of a component is never None, nor are data.
LEMMA NotNone ==
  /\ None \notin Restore /\ None \notin Content /\ None \notin Data
  /\ Partial \notin Content /\ Partial # None
BY LocalRestoreAssumption

\* The table of control, one row at a time.
LEMMA SitesOf ==
  /\ Sites("idle") = {"none"} /\ Sites("scan") = {"none"} /\ Sites("ready") = {"none"}
  /\ \A p \in {"open", "desired", "safety", "prepare"} : Sites(p) = {"create"}
  /\ Sites("undo") = UndoSites
  /\ \A p \in {"clear", "copy", "stage"} : Sites(p) = UndoSites \union {"create"}
  /\ \A p \in InstallPcs : Sites(p) = InstallSites
  /\ Sites("warn") = {"retry"} /\ Sites("abandon") = {"abandon"}
  /\ \A p \in {"clean", "discard"} : Sites(p) = InstallSites \union {"warned", "abandon", "tidy"}
BY DEF Sites, InstallPcs

\* What a command remembers is ended, or it turns to the next attempt.
LEMMA RaiseCases ==
  ASSUME NEW j, Raise(j)
  PROVE  /\ at' = 1
         /\ \/ /\ site = "commit" /\ j.phase \notin Terminal /\ Keep(j)
               /\ site' = "retry" /\ pc' = "begin" /\ UNCHANGED <<caller, own, entry, outcome>>
            \/ /\ site = "commit" /\ j.phase \in Terminal /\ Keep(j)
               /\ site' = "none" /\ pc' = "scan" /\ caller' = "commit" /\ UNCHANGED <<own, entry, outcome>>
            \/ /\ site = "retry" \/ (site \notin {"create", "commit", "retry", "undo", "reinstall"}
                                     /\ caller = "commit")
               /\ Keep(j) /\ site' = "undo" /\ pc' = "undo" /\ caller' = "none"
               /\ UNCHANGED <<own, entry, outcome>>
            \/ /\ site = "reinstall" /\ Keep(j)
               /\ site' = "recoverUndo" /\ pc' = "undo" /\ UNCHANGED <<caller, own, entry, outcome>>
            \/ /\ site \in {"create", "undo"} /\ mem' = NoJournal /\ UNCHANGED rec
               /\ site' = "none" /\ pc' = "scan" /\ caller' = "catch" /\ UNCHANGED <<own, entry, outcome>>
            \/ /\ site \notin {"create", "commit", "retry", "undo", "reinstall"} /\ caller # "commit"
               /\ EndCommand /\ Report("failed")
<1> USE DEF Raise, Turn, Scan, Goto
<1>1. CASE site = "commit"
  BY <1>1
<1>2. CASE site = "retry"
  BY <1>2
<1>3. CASE site = "reinstall"
  BY <1>3
<1>4. CASE site \in {"create", "undo"}
  BY <1>4
<1>5. CASE site \notin {"create", "commit", "retry", "undo", "reinstall"}
  BY <1>5 DEF EndCommand
<1> QED
  BY <1>1, <1>2, <1>3, <1>4, <1>5

\* Three frames: what a step leaves when it leaves the copies, the journals or
\* the live data alone.
LEMMA ReadyFrame ==
  ASSUME NEW x, UNCHANGED <<safety, source>>
  PROVE  \A j : Ready(x, j)' <=> Ready(x, j)
BY DEF Ready, Meant

LEMMA CopiesFrame ==
  ASSUME CopiesAreWhole, UNCHANGED <<safety, source, desired>>, whole \subseteq whole'
  PROVE  CopiesAreWhole'
BY DEF CopiesAreWhole

\* An error leaves nothing that the next attempt could not work with.
LEMMA RaiseKeeps ==
  ASSUME IInv, NEW j \in AnyJournal, Raise(j),
         UNCHANGED <<desired, safety, scene, writes, crashes>>,
         target' \in [Component -> Stuff],
         candidate' \in [Restore -> [Component -> Stuff]],
         rollback' \in [Restore -> [Component -> Stuff]],
         disk' \in [Restore -> AnyJournal], faults' \in 0 .. MaxFaults,
         JournalsStand', TornIsRecoverable',
         own # None => \A x \in Restore \ {own} : disk'[x].phase \in {"none"} \union Terminal,
         site = "commit" /\ j.phase \notin Terminal => Ready(own, j) /\ j.mode = "forward",
         site = "commit" /\ j.phase \in Terminal =>
           /\ faults' >= 1 /\ j.phase = "complete"
           /\ Live' = source[own] /\ target' = j.expected
           /\ disk'[own].phase \in {"installing", "installed", "complete"}
           /\ disk'[own].mode = "forward" /\ disk'[own].expected = j.expected,
         caller = "commit" => faults' >= 2 /\ disk'[own].phase \notin {"none", "directory"}
  PROVE  IInv'
<1> DEFINE Rest ==
      /\ at' = 1 /\ own' \in Restore \union {None} /\ entry' \in Restore \union {None}
      /\ mem' \in AnyJournal /\ rec' \in AnyJournal
      /\ caller' \in {"none", "start", "commit", "catch"}
      /\ outcome' \in [Restore -> {"none", "ok", "failed"}]
<1>1. NoJournal \in AnyJournal /\ mem \in AnyJournal /\ rec \in AnyJournal
  BY DEF IInv, TypeOK, NoJournal, Journal, AnyJournal, Phase, Terminal
<1>2. /\ own \in Restore \union {None} /\ entry \in Restore \union {None}
      /\ caller \in {"none", "start", "commit", "catch"}
      /\ outcome \in [Restore -> {"none", "ok", "failed"}] /\ Control
  BY DEF IInv, TypeOK
<1>3. ASSUME Rest PROVE TypeOK' /\ CopiesAreWhole'
  BY <1>3, CopiesFrame DEF IInv, TypeOK, scene
<1>4. own # None => source'[own] # None /\ \A x \in Restore \ {own} : ~IsOpen(x)'
  BY <1>2 DEF Control, scene, IsOpen
<1>5. CASE /\ site = "commit" /\ j.phase \notin Terminal /\ Keep(j)
           /\ site' = "retry" /\ pc' = "begin" /\ at' = 1 /\ UNCHANGED <<caller, own, entry, outcome>>
  <2>1. Rest /\ mem' = j
    BY <1>1, <1>2, <1>5 DEF Keep, Committing
  <2>2. Control'
    BY <1>2, <1>4, <1>5 DEF Control, Sites, Committing, InstallPcs, InstallSites, RecoverySites
  <2>3. InstallStands'
    <3>1. Ready(own, j)'
      BY <1>5, ReadyFrame DEF scene
    <3> QED
      BY <1>5, <2>1, <3>1 DEF InstallStands, InstallPcs, Committing, Current, Working
  <2>4. StagingStands' /\ SuccessStands' /\ CommitStands'
    BY <1>2, <1>5 DEF StagingStands, SuccessStands, CommitStands, Control, Committing
  <2> QED
    BY <1>3, <2>1, <2>2, <2>3, <2>4 DEF IInv
<1>6. CASE /\ site = "commit" /\ j.phase \in Terminal /\ Keep(j)
           /\ site' = "none" /\ pc' = "scan" /\ caller' = "commit" /\ at' = 1
           /\ UNCHANGED <<own, entry, outcome>>
  <2>1. Rest /\ mem' = j
    BY <1>1, <1>2, <1>6 DEF Keep, Committing
  <2>2. Control'
    BY <1>2, <1>4, <1>6 DEF Control, Sites, Committing, InstallPcs, InstallSites, RecoverySites
  <2>3. CommitStands'
    BY <1>6, <2>1 DEF CommitStands, Rewritten, scene
  <2>4. StagingStands' /\ InstallStands' /\ SuccessStands'
    BY <1>6 DEF StagingStands, InstallStands, SuccessStands, InstallPcs
  <2> QED
    BY <1>3, <2>1, <2>2, <2>3, <2>4 DEF IInv
<1>7. CASE /\ site = "retry" \/ (site \notin {"create", "commit", "retry", "undo", "reinstall"}
                                 /\ caller = "commit")
           /\ Keep(j) /\ site' = "undo" /\ pc' = "undo" /\ caller' = "none" /\ at' = 1
           /\ UNCHANGED <<own, entry, outcome>>
  <2>1. Rest
    BY <1>1, <1>2, <1>7 DEF Keep
  <2>2. Control'
    BY <1>2, <1>4, <1>7 DEF Control, Sites, Committing, InstallPcs, InstallSites, RecoverySites, UndoSites
  <2>3. StagingStands' /\ InstallStands' /\ SuccessStands' /\ CommitStands'
    BY <1>7 DEF StagingStands, InstallStands, SuccessStands, CommitStands, InstallPcs
  <2> QED
    BY <1>3, <2>1, <2>2, <2>3 DEF IInv
<1>8. CASE /\ site = "reinstall" /\ Keep(j) /\ at' = 1
           /\ site' = "recoverUndo" /\ pc' = "undo" /\ UNCHANGED <<caller, own, entry, outcome>>
  <2>1. Rest /\ mem' = mem
    BY <1>1, <1>2, <1>8 DEF Keep, Committing
  <2>2. Control'
    BY <1>2, <1>4, <1>8 DEF Control, Sites, Committing, InstallPcs, InstallSites, RecoverySites, UndoSites
  <2>3. CommitStands'
    <3> SUFFICES ASSUME caller = "commit"
                 PROVE  /\ faults' >= 1 /\ mem.phase = "complete"
                        /\ disk'[own].phase \notin {"none", "directory"} /\ ~(faults' < 2)
      BY <1>8, <2>1 DEF CommitStands
    <3> QED
      BY DEF IInv, CommitStands
  <2>4. StagingStands' /\ InstallStands' /\ SuccessStands'
    BY <1>8 DEF StagingStands, InstallStands, SuccessStands, InstallPcs
  <2> QED
    BY <1>3, <2>1, <2>2, <2>3, <2>4 DEF IInv
<1>9. CASE /\ site \in {"create", "undo"} /\ mem' = NoJournal /\ UNCHANGED rec /\ at' = 1
           /\ site' = "none" /\ pc' = "scan" /\ caller' = "catch" /\ UNCHANGED <<own, entry, outcome>>
  <2>1. Rest
    BY <1>1, <1>2, <1>9
  <2>2. Control'
    BY <1>2, <1>4, <1>9 DEF Control, Sites, Committing, InstallPcs, InstallSites, RecoverySites
  <2>3. StagingStands' /\ InstallStands' /\ SuccessStands' /\ CommitStands'
    BY <1>9 DEF StagingStands, InstallStands, SuccessStands, CommitStands, InstallPcs
  <2> QED
    BY <1>3, <2>1, <2>2, <2>3 DEF IInv
<1>10. CASE /\ site \notin {"create", "commit", "retry", "undo", "reinstall"} /\ caller # "commit"
            /\ EndCommand /\ Report("failed")
  <2>1. Rest
    BY <1>1, <1>2, <1>10 DEF EndCommand, Report
  <2>2. Control'
    BY <1>2, <1>10 DEF Control, Sites, Committing, InstallPcs, InstallSites, RecoverySites, EndCommand
  <2>3. StagingStands' /\ InstallStands' /\ SuccessStands' /\ CommitStands'
    BY <1>10 DEF EndCommand, StagingStands, InstallStands, SuccessStands, CommitStands, InstallPcs
  <2> QED
    BY <1>3, <2>1, <2>2, <2>3 DEF IInv
<1> QED
  BY RaiseCases, <1>5, <1>6, <1>7, <1>8, <1>9, <1>10

\* A journal that says what is to be done with live data that are moved.
Halfway(j) ==
  \/ j.phase \in {"installing", "installed"}
  \/ j.phase = "live-staged" /\ j.mode = "rollback"

LEMMA TornMeansHalfway ==
  ASSUME IInv, ~Validates
  PROVE  \E x \in Restore : Halfway(disk[x]) /\ safety[x] \in whole
BY DEF IInv, TornIsRecoverable, Halfway

LEMMA HalfwayIsSafe ==
  ASSUME IInv, NEW x \in Restore, Ready(x, disk[x]) \/ Halfway(disk[x])
  PROVE  safety[x] \in whole
BY DEF IInv, JournalsStand, CopiesAreWhole, Ready, Halfway

\* The live data stay, and the journal of x becomes j.
LEMMA TornFrame ==
  ASSUME IInv, UNCHANGED <<target, safety, whole>>, NEW x \in Restore, NEW j \in AnyJournal,
         disk' = [disk EXCEPT ![x] = j], Halfway(j) => Ready(x, j),
         Validates \/ Halfway(j) \/ ~Halfway(disk[x])
  PROVE  TornIsRecoverable'
<1> SUFFICES ASSUME ~Validates
             PROVE  \E y \in Restore : Halfway(disk'[y]) /\ safety[y] \in whole
  BY DEF TornIsRecoverable, Halfway, Validates, Live
<1>1. \A y \in Restore : disk'[y] = IF y = x THEN j ELSE disk[y]
  BY DEF IInv, TypeOK
<1>2. CASE Halfway(j)
  <2>1. safety[x] \in whole
    BY <1>2 DEF Ready, IInv, CopiesAreWhole
  <2> QED
    BY <1>1, <1>2, <2>1
<1>3. CASE ~Halfway(disk[x])
  <2>1. PICK y \in Restore : Halfway(disk[y]) /\ safety[y] \in whole
    BY TornMeansHalfway
  <2> QED
    BY <1>1, <1>3, <2>1
<1> QED
  BY <1>2, <1>3

LEMMA JournalsFrame ==
  ASSUME IInv, UNCHANGED <<safety, source>>, NEW x \in Restore, NEW j \in AnyJournal,
         disk' = [disk EXCEPT ![x] = j],
         j.phase \in {"live-staged", "installing", "installed"} => Ready(x, j)
  PROVE  JournalsStand' /\ disk' \in [Restore -> AnyJournal]
<1>1. \A y \in Restore : disk'[y] = IF y = x THEN j ELSE disk[y]
  BY DEF IInv, TypeOK
<1>2. disk' \in [Restore -> AnyJournal]
  BY DEF IInv, TypeOK
<1>3. ASSUME NEW y \in Restore, disk'[y].phase \in {"live-staged", "installing", "installed"}
      PROVE  Ready(y, disk'[y])
  BY <1>1, <1>3 DEF IInv, JournalsStand
<1>4. \A y \in Restore : Ready(y, disk[y])' <=> Ready(y, disk'[y])
  BY DEF Ready, Meant
<1> QED
  BY <1>2, <1>3, <1>4 DEF JournalsStand

\* The journal that is worked on cannot be written, or is before the error.
LEMMA WriteFailsKeeps ==
  ASSUME IInv, NEW j \in AnyJournal, WriteFails(j), j.phase \notin {"none", "directory"},
         UNCHANGED <<target, desired, safety, scene, writes, crashes>>,
         candidate' \in [Restore -> [Component -> Stuff]],
         rollback' \in [Restore -> [Component -> Stuff]],
         Current # None, own # None => Current = own,
         j.phase \in {"live-staged", "installing", "installed"} => Ready(Current, j),
         Validates \/ Halfway(j) \/ ~Halfway(disk[Current]),
         site = "commit" => /\ Ready(own, j) /\ j.mode = "forward"
                            /\ j.phase \in Terminal =>
                                 /\ j.phase = "complete" /\ Live = source[own] /\ target = j.expected
                                 /\ disk[own].phase = "installed" /\ disk[own].mode = "forward"
                                 /\ disk[own].expected = j.expected
  PROVE  IInv'
<1> DEFINE x == Current
<1>1. /\ x \in Restore /\ TypeOK /\ Control /\ CommitStands /\ faults' = faults + 1
      /\ faults \in Nat /\ faults' \in 0 .. MaxFaults /\ Raise(j)
  <2>1. faults < MaxFaults /\ faults' = faults + 1 /\ Raise(j)
    BY DEF WriteFails
  <2>2. faults \in 0 .. MaxFaults /\ MaxFaults \in Nat /\ Current \in Restore
    BY LocalRestoreAssumption DEF IInv, TypeOK, Current
  <2> QED
    BY <2>1, <2>2 DEF IInv
<1> HIDE DEF x
<1>2. disk' = disk \/ disk' = [disk EXCEPT ![x] = j]
  BY DEF WriteFails, x
<1>3. disk \in [Restore -> AnyJournal]
  BY <1>1 DEF TypeOK
<1>4. JournalsStand' /\ disk' \in [Restore -> AnyJournal] /\ TornIsRecoverable'
  <2>1. CASE disk' = disk
    <3>1. JournalsStand'
      BY <2>1 DEF IInv, JournalsStand, Ready, Meant, scene
    <3>2. TornIsRecoverable'
      BY <2>1 DEF IInv, TornIsRecoverable, Validates, Live, scene
    <3> QED
      BY <1>3, <2>1, <3>1, <3>2
  <2>2. CASE disk' = [disk EXCEPT ![x] = j]
    <3>1. UNCHANGED <<target, safety, whole, source>>
      BY DEF scene
    <3>2. Halfway(j) => Ready(x, j)
      BY DEF Halfway, x
    <3> QED
      BY <1>1, <2>2, <3>1, <3>2, JournalsFrame, TornFrame DEF x
  <2> QED
    BY <1>2, <2>1, <2>2
<1>5. \A y \in Restore : disk'[y] = disk[y] \/ (y = x /\ disk'[y] = j)
  BY <1>2, <1>3
<1>6. own # None => \A y \in Restore \ {own} : disk'[y].phase \in {"none"} \union Terminal
  BY <1>1, <1>5 DEF Control, IsOpen, x
<1>7. site = "commit" => own \in Restore /\ own = x
  BY <1>1 DEF Control, Committing, x, TypeOK
<1>8. site = "commit" /\ j.phase \in Terminal =>
           /\ faults' >= 1 /\ j.phase = "complete"
           /\ Live' = source[own] /\ target' = j.expected
           /\ disk'[own].phase \in {"installing", "installed", "complete"}
           /\ disk'[own].mode = "forward" /\ disk'[own].expected = j.expected
  BY <1>1, <1>5, <1>7 DEF Live
<1>9. caller = "commit" => faults' >= 2 /\ disk'[own].phase \notin {"none", "directory"}
  <2>1. caller = "commit" => /\ faults >= 1 /\ disk[own].phase \notin {"none", "directory"}
                            /\ own \in Restore
    BY <1>1 DEF CommitStands, Control, TypeOK
  <2>2. faults \in Nat /\ faults' = faults + 1
    BY <1>1
  <2>3. faults >= 1 => faults' >= 2
    BY <2>2
  <2> QED
    BY <1>5, <2>1, <2>3
<1> QED
  BY <1>1, <1>4, <1>6, <1>8, <1>9, RaiseKeeps DEF TypeOK

\* A step of the same command for the same restore.
LEMMA ControlFrame ==
  ASSUME Control, UNCHANGED <<own, entry, site, caller, source>>, site \in Sites(pc'),
         pc # "idle", pc' \notin {"idle", "ready"}, own # None => \A x \in Restore \ {own} : ~IsOpen(x)'
  PROVE  Control'
<1>1. Sites(pc)' = Sites(pc')
  BY DEF Sites, UndoSites, InstallPcs, InstallSites
<1> QED
  BY <1>1 DEF Control, Committing, RecoverySites

LEMMA CommitFrame ==
  ASSUME CommitStands, UNCHANGED <<own, entry, site, caller, source, mem, rec, faults, target>>,
         caller = "commit" => pc' # "moveIn" /\ disk'[own] = disk[own]
  PROVE  CommitStands'
BY DEF CommitStands, Rewritten, Live

-----------------------------------------------------------------------------
(* The application, and commands that begin and end                         *)

\* What is idle has nothing under way.
LEMMA IdleStands ==
  ASSUME EndCommand
  PROVE  /\ Control' /\ StagingStands' /\ InstallStands' /\ SuccessStands' /\ CommitStands'
         /\ mem' \in AnyJournal /\ rec' \in AnyJournal /\ at' \in 1 .. 3 /\ own' = None /\ entry' = None
         /\ caller' = "none"
<1>1. NoJournal \in AnyJournal
  BY DEF NoJournal, Journal, AnyJournal, Phase, Terminal
<1>2. Control'
  BY DEF EndCommand, Control, Sites, Committing, InstallPcs, InstallSites, RecoverySites
<1>3. StagingStands' /\ InstallStands' /\ SuccessStands' /\ CommitStands'
  BY DEF EndCommand, StagingStands, InstallStands, SuccessStands, CommitStands, InstallPcs
<1> QED
  BY <1>1, <1>2, <1>3 DEF EndCommand

\* Nothing live, no copy and no journal changes.
LEMMA FilesFrame ==
  ASSUME IInv, UNCHANGED <<target, safety, source, desired, disk, whole>>
  PROVE  CopiesAreWhole' /\ JournalsStand' /\ TornIsRecoverable'
BY DEF IInv, CopiesAreWhole, JournalsStand, TornIsRecoverable, Ready, Meant, Validates, Live

LEMMA AppWriteKeeps ==
  ASSUME IInv, AppWrite
  PROVE  IInv'
<1>1. PICK touched \in {{"sqlite"}, Component} :
        target' = [c \in Component |-> IF c \in touched \/ target[c] \notin Content
                                       THEN <<writes + 1, "a">> ELSE target[c]]
  BY DEF AppWrite
<1>2. /\ pc = "idle" /\ writes < MaxWrites /\ writes' = writes + 1
      /\ UNCHANGED <<candidate, rollback, desired, safety, source, backups, disk, crashes, faults,
                     outcome>>
      /\ UNCHANGED <<mem, rec, own, entry, pc, site, caller, at>>
      /\ whole' = IF Validates
                  THEN whole \union {[c \in Component |-> target'[c][1]]} ELSE whole
  BY DEF AppWrite, command
<1>3. writes' \in 0 .. MaxWrites /\ <<writes + 1, "a">> \in Content
  BY <1>2, LocalRestoreAssumption DEF IInv, TypeOK, Content, Generation
<1>4. target' \in [Component -> Content]
  BY <1>1, <1>3
<1>5. [c \in Component |-> target'[c][1]] \in Data /\ Live' = [c \in Component |-> target'[c][1]]
  BY <1>4 DEF Content, Generation, Data, Live
<1>6. whole \subseteq whole' /\ whole' \subseteq Data
  BY <1>2, <1>5 DEF IInv, TypeOK
<1>7. TypeOK'
  BY <1>2, <1>3, <1>4, <1>6 DEF IInv, TypeOK, Stuff
<1>8. CopiesAreWhole' /\ JournalsStand'
  BY <1>2, <1>6 DEF IInv, CopiesAreWhole, JournalsStand, Ready, Meant
<1>9. TornIsRecoverable'
  <2>1. CASE Validates
    BY <1>2, <1>5, <2>1 DEF TornIsRecoverable, Validates
  <2>2. CASE ~Validates
    <3>1. PICK x \in Restore : Halfway(disk[x]) /\ safety[x] \in whole
      BY <2>2, TornMeansHalfway
    <3> QED
      BY <1>2, <1>6, <3>1 DEF TornIsRecoverable, Halfway
  <2> QED
    BY <2>1, <2>2
<1>10. Control'
  BY <1>2 DEF IInv, Control, Sites, Committing, IsOpen, RecoverySites, InstallPcs, InstallSites, UndoSites
<1>11. own = None /\ caller = "none" /\ site = "none"
  BY <1>2, SitesOf DEF IInv, Control
<1>12. StagingStands' /\ InstallStands' /\ SuccessStands' /\ CommitStands'
  BY <1>2, <1>11 DEF StagingStands, InstallStands, SuccessStands, CommitStands, InstallPcs
<1> QED
  BY <1>7, <1>8, <1>9, <1>10, <1>12 DEF IInv

LEMMA StartCommandKeeps ==
  ASSUME IInv, StartCommand
  PROVE  IInv'
<1>1. /\ pc = "idle" /\ site' = "none" /\ pc' = "scan" /\ at' = 1 /\ caller' = "start"
      /\ UNCHANGED <<own, entry, outcome, files, scene, disk, limits, mem, rec>>
  BY DEF StartCommand, Scan, Goto
<1>2. TypeOK'
  BY <1>1 DEF IInv, TypeOK, files, scene, limits
<1>3. CopiesAreWhole' /\ JournalsStand' /\ TornIsRecoverable'
  BY <1>1, FilesFrame DEF files, scene
<1>4. Control'
  <2>1. own = None
    BY <1>1 DEF IInv, Control
  <2> QED
    BY <1>1, <2>1, SitesOf DEF Control, Committing, RecoverySites
<1>5. StagingStands' /\ InstallStands' /\ SuccessStands' /\ CommitStands'
  BY <1>1 DEF StagingStands, InstallStands, SuccessStands, CommitStands, InstallPcs
<1> QED
  BY <1>2, <1>3, <1>4, <1>5 DEF IInv

LEMMA EndPreviewKeeps ==
  ASSUME IInv, EndPreview
  PROVE  IInv'
<1>1. EndCommand /\ UNCHANGED <<files, scene, disk, limits, outcome>>
  BY DEF EndPreview
<1>2. TypeOK'
  BY <1>1, IdleStands DEF IInv, TypeOK, files, scene, limits
<1>3. CopiesAreWhole' /\ JournalsStand' /\ TornIsRecoverable'
  BY <1>1, FilesFrame DEF files, scene
<1> QED
  BY <1>1, <1>2, <1>3, IdleStands DEF IInv

LEMMA TakeBackupKeeps ==
  ASSUME IInv, TakeBackup
  PROVE  IInv'
<1>1. /\ EndCommand /\ Validates /\ backups' = backups \union {Live}
      /\ UNCHANGED <<files, source, whole, disk, limits, outcome>>
  BY DEF TakeBackup
<1>2. TypeOK'
  BY <1>1, IdleStands DEF IInv, TypeOK, files, limits, Validates
<1>3. CopiesAreWhole' /\ JournalsStand' /\ TornIsRecoverable'
  BY <1>1, FilesFrame DEF files
<1> QED
  BY <1>1, <1>2, <1>3, IdleStands DEF IInv

LEMMA OpenDirectoryKeeps ==
  ASSUME IInv, NEW x \in Restore, NEW b \in backups, OpenDirectory(x, b)
  PROVE  IInv'
<1> DEFINE j == Journal("directory", "forward", None)
<1>1. /\ pc = "ready" /\ source[x] = None /\ source' = [source EXCEPT ![x] = b]
      /\ disk' = [disk EXCEPT ![x] = j] /\ own' = x
      /\ site' = "create" /\ pc' = "open" /\ at' = 1 /\ caller' = "none"
      /\ UNCHANGED <<files, backups, whole, limits, mem, rec, entry, outcome>>
  BY DEF OpenDirectory, Goto
<1>2. j \in AnyJournal /\ j.phase = "directory" /\ b \in whole /\ b \in Data /\ b # None
  BY NotNone DEF IInv, TypeOK, Journal, AnyJournal, Phase
<1>3. /\ disk \in [Restore -> AnyJournal] /\ source \in [Restore -> Data \union {None}]
      /\ \A y \in Restore : ~IsOpen(y)
  BY <1>1 DEF IInv, TypeOK, Control
<1> HIDE DEF j
<1>4. TypeOK'
  BY <1>1, <1>2 DEF IInv, TypeOK, files, limits
<1>5. \A y \in Restore : /\ source'[y] = IF y = x THEN b ELSE source[y]
                        /\ disk'[y] = IF y = x THEN j ELSE disk[y]
  BY <1>1, <1>3
<1>6. CopiesAreWhole'
  <2>1. \A y \in Restore : desired[y] # None => desired[y] = source'[y]
    BY <1>1, <1>5 DEF IInv, CopiesAreWhole
  <2> QED
    BY <1>1, <1>2, <1>5, <2>1 DEF IInv, CopiesAreWhole, files
<1>7. \A y \in Restore : disk'[y].phase \in {"none", "directory"} \union Terminal
  BY <1>2, <1>3, <1>5 DEF IsOpen
<1>8. JournalsStand'
  BY <1>7 DEF JournalsStand, Terminal
<1>9. TornIsRecoverable'
  <2>1. Validates
    <3> SUFFICES ASSUME ~Validates PROVE FALSE
      OBVIOUS
    <3>1. PICK y \in Restore : Halfway(disk[y])
      BY TornMeansHalfway
    <3> QED
      BY <1>3, <3>1 DEF IsOpen, Halfway, Terminal
  <2> QED
    BY <1>1, <2>1 DEF TornIsRecoverable, Validates, Live, files
<1>10. Control'
  <2>1. \A y \in Restore \ {x} : ~IsOpen(y)'
    BY <1>3, <1>5 DEF IsOpen
  <2>2. x # None /\ source'[x] # None
    BY <1>2, <1>5, NotNone
  <2> QED
    BY <1>1, <2>1, <2>2, SitesOf DEF Control, Committing, RecoverySites
<1>11. StagingStands' /\ InstallStands' /\ SuccessStands' /\ CommitStands'
  <2>1. disk'[own'].phase = "directory"
    BY <1>1, <1>2, <1>5
  <2> QED
    BY <1>1, <2>1 DEF StagingStands, InstallStands, SuccessStands, CommitStands, InstallPcs
<1> QED
  BY <1>4, <1>6, <1>8, <1>9, <1>10, <1>11 DEF IInv

-----------------------------------------------------------------------------
(* The journal and the copies it is made from                               *)

\* The journal that is worked on is written.
LEMMA WriteStands ==
  ASSUME IInv, NEW j \in AnyJournal, Write(j), Current # None, own # None => Current = own,
         UNCHANGED <<target, safety, source, desired, whole>>,
         j.phase \in {"live-staged", "installing", "installed"} => Ready(Current, j),
         Validates \/ Halfway(j) \/ ~Halfway(disk[Current])
  PROVE  /\ CopiesAreWhole' /\ JournalsStand' /\ TornIsRecoverable'
         /\ disk' \in [Restore -> AnyJournal] /\ mem' \in AnyJournal /\ rec' \in AnyJournal
         /\ faults' = faults /\ Current \in Restore /\ disk'[Current] = j
         /\ \A y \in Restore \ {Current} : disk'[y] = disk[y]
         /\ own # None => \A y \in Restore \ {own} : ~IsOpen(y)'
         /\ mem' = IF Committing THEN j ELSE mem
         /\ rec' = IF Committing THEN rec ELSE j
<1>1. Current \in Restore /\ mem \in AnyJournal /\ rec \in AnyJournal /\ disk \in [Restore -> AnyJournal]
  BY DEF IInv, TypeOK, Current
<1>2. disk' = [disk EXCEPT ![Current] = j] /\ faults' = faults /\ Keep(j)
  BY DEF Write
<1>3. JournalsStand' /\ TornIsRecoverable' /\ disk' \in [Restore -> AnyJournal]
  <2>1. Halfway(j) => Ready(Current, j)
    BY DEF Halfway
  <2> QED
    BY <1>1, <1>2, <2>1, JournalsFrame, TornFrame
<1>4. CopiesAreWhole'
  BY CopiesFrame DEF IInv
<1>5. disk'[Current] = j /\ \A y \in Restore \ {Current} : disk'[y] = disk[y]
  BY <1>1, <1>2
<1>6. own # None => \A y \in Restore \ {own} : ~IsOpen(y)'
  BY <1>5 DEF IInv, Control, IsOpen
<1>7. /\ mem' = IF Committing THEN j ELSE mem
      /\ rec' = IF Committing THEN rec ELSE j
  BY <1>2 DEF Keep
<1> QED
  BY <1>1, <1>2, <1>3, <1>4, <1>5, <1>6, <1>7

LEMMA AJournal ==
  ASSUME NEW p \in Phase, NEW m \in {"forward", "rollback"},
         NEW e \in [Component -> Stuff] \union {None}
  PROVE  LET j == Journal(p, m, e) IN
         j \in AnyJournal /\ j.phase = p /\ j.mode = m /\ j.expected = e
BY DEF Journal, AnyJournal

LEMMA NextPhase ==
  ASSUME NEW j \in AnyJournal, NEW p \in Phase
  PROVE  LET k == [j EXCEPT !.phase = p] IN
         k \in AnyJournal /\ k.phase = p /\ k.mode = j.mode /\ k.expected = j.expected
BY DEF AnyJournal

LEMMA SameReady ==
  ASSUME NEW x, NEW j, NEW k, k.mode = j.mode, k.expected = j.expected, Ready(x, j)
  PROVE  Ready(x, k)
BY DEF Ready, Meant

LEMMA OpenJournalKeeps ==
  ASSUME IInv, OpenJournal
  PROVE  IInv'
<1>1. /\ pc = "open" /\ UNCHANGED <<files, scene, writes, crashes>>
      /\ \/ Write(Preparing) /\ pc' = "desired" /\ UNCHANGED <<own, entry, site, caller, at, outcome>>
         \/ WriteFails(Preparing)
  BY DEF OpenJournal
<1>2. site = "create" /\ own # None /\ caller = "none" /\ Committing /\ Current = own
  BY <1>1, SitesOf DEF IInv, Control, Committing, Current
<1>3. Preparing \in AnyJournal /\ Preparing.phase = "preparing"
  <2>1. "preparing" \in Phase
    BY DEF Phase
  <2> QED
    BY <2>1, AJournal DEF Preparing
<1>4. ~Halfway(disk[own])
  BY <1>2 DEF IInv, StagingStands, Halfway
<1>5. CASE WriteFails(Preparing)
  BY <1>1, <1>2, <1>3, <1>4, <1>5, WriteFailsKeeps DEF IInv, TypeOK, files
<1>6. CASE Write(Preparing) /\ pc' = "desired" /\ UNCHANGED <<own, entry, site, caller, at, outcome>>
  <2>1. /\ CopiesAreWhole' /\ JournalsStand' /\ TornIsRecoverable'
        /\ disk' \in [Restore -> AnyJournal] /\ mem' \in AnyJournal /\ rec' \in AnyJournal
        /\ faults' = faults /\ disk'[own] = Preparing
        /\ \A y \in Restore \ {own} : ~IsOpen(y)'
    <3>1. UNCHANGED <<target, safety, source, desired, whole>>
      BY <1>1 DEF files, scene
    <3> QED
      BY <1>2, <1>3, <1>4, <1>6, <3>1, WriteStands
  <2>2. TypeOK'
    BY <1>1, <1>6, <2>1 DEF IInv, TypeOK, files, scene
  <2>3. Control'
    BY <1>1, <1>2, <1>6, <2>1, SitesOf, ControlFrame DEF IInv, scene
  <2>4. StagingStands' /\ InstallStands' /\ SuccessStands' /\ CommitStands'
    BY <1>2, <1>3, <1>6, <2>1
       DEF StagingStands, InstallStands, SuccessStands, CommitStands, InstallPcs
  <2> QED
    BY <2>1, <2>2, <2>3, <2>4 DEF IInv
<1> QED
  BY <1>1, <1>5, <1>6

LEMMA CopyDesiredKeeps ==
  ASSUME IInv, CopyDesired
  PROVE  IInv'
<1>1. /\ pc = "desired" /\ desired' = [desired EXCEPT ![own] = source[own]] /\ pc' = "safety"
      /\ UNCHANGED <<target, candidate, rollback, safety, scene, disk, limits,
                     mem, rec, own, entry, site, caller, at, outcome>>
  BY DEF CopyDesired
<1>2. site = "create" /\ own # None /\ own \in Restore /\ caller = "none" /\ source[own] # None
  BY <1>1, SitesOf DEF IInv, Control, Committing, TypeOK
<1>3. TypeOK'
  BY <1>1, <1>2 DEF IInv, TypeOK, scene, limits
<1>4. \A x \in Restore : desired'[x] = IF x = own THEN source[own] ELSE desired[x]
  BY <1>1, <1>2 DEF IInv, TypeOK
<1>5. CopiesAreWhole' /\ JournalsStand' /\ TornIsRecoverable'
  BY <1>1, <1>4 DEF IInv, CopiesAreWhole, JournalsStand, TornIsRecoverable, Ready, Meant,
                    Validates, Live, scene
<1>6. Control'
  BY <1>1, <1>2, SitesOf, ControlFrame DEF IInv, Control, IsOpen, scene
<1>7. StagingStands' /\ InstallStands' /\ SuccessStands' /\ CommitStands'
  BY <1>1, <1>2, <1>4
     DEF IInv, StagingStands, InstallStands, SuccessStands, CommitStands, InstallPcs
<1> QED
  BY <1>3, <1>5, <1>6, <1>7 DEF IInv

LEMMA CopySafetyKeeps ==
  ASSUME IInv, CopySafety
  PROVE  IInv'
<1>1. /\ pc = "safety" /\ Validates /\ safety' = [safety EXCEPT ![own] = Live] /\ pc' = "prepare"
      /\ UNCHANGED <<target, candidate, rollback, desired, scene, disk, limits,
                     mem, rec, own, entry, site, caller, at, outcome>>
  BY DEF CopySafety
<1>2. /\ site = "create" /\ own # None /\ own \in Restore /\ caller = "none"
      /\ disk[own].phase \in {"directory", "preparing", "prepared"} /\ desired[own] # None
  BY <1>1, SitesOf DEF IInv, Control, Committing, TypeOK, StagingStands
<1>3. Live \in whole /\ Live \in Data /\ Live # None
  BY <1>1, NotNone DEF Validates, IInv, TypeOK
<1>4. TypeOK'
  BY <1>1, <1>2, <1>3 DEF IInv, TypeOK, scene, limits
<1>5. \A x \in Restore : safety'[x] = IF x = own THEN Live ELSE safety[x]
  BY <1>1, <1>2 DEF IInv, TypeOK
<1>6. CopiesAreWhole'
  BY <1>1, <1>3, <1>5 DEF IInv, CopiesAreWhole, scene
<1>7. JournalsStand'
  BY <1>1, <1>2, <1>5 DEF IInv, JournalsStand, Ready, Meant, scene
<1>8. TornIsRecoverable'
  BY <1>1 DEF TornIsRecoverable, Validates, Live, scene
<1>9. Control'
  BY <1>1, <1>2, SitesOf, ControlFrame DEF IInv, Control, IsOpen, scene
<1>10. StagingStands' /\ InstallStands' /\ SuccessStands' /\ CommitStands'
  BY <1>1, <1>2, <1>3, <1>5
     DEF StagingStands, InstallStands, SuccessStands, CommitStands, InstallPcs, Current, Committing
<1> QED
  BY <1>4, <1>6, <1>7, <1>8, <1>9, <1>10 DEF IInv

LEMMA PrepareKeeps ==
  ASSUME IInv, Prepare
  PROVE  IInv'
<1> DEFINE j == [mem EXCEPT !.phase = "prepared"]
<1>1. /\ pc = "prepare" /\ UNCHANGED <<files, scene, writes, crashes>>
      /\ \/ /\ Write(j) /\ site' = "create" /\ pc' = "clear" /\ at' = 1
            /\ UNCHANGED <<own, entry, caller, outcome>>
         \/ WriteFails(j)
  BY DEF Prepare, Goto
<1>2. site = "create" /\ own # None /\ caller = "none" /\ Committing /\ Current = own
  BY <1>1, SitesOf DEF IInv, Control, Committing, Current
<1>3. j \in AnyJournal /\ j.phase = "prepared"
  <2>1. "prepared" \in Phase /\ mem \in AnyJournal
    BY DEF IInv, TypeOK, Phase
  <2> QED
    BY <2>1, NextPhase
<1>4. ~Halfway(disk[own]) /\ desired[own] # None /\ safety[own] # None
  BY <1>1, <1>2 DEF IInv, StagingStands, Halfway
<1> HIDE DEF j
<1>5. CASE WriteFails(j)
  BY <1>1, <1>2, <1>3, <1>4, <1>5, WriteFailsKeeps DEF IInv, TypeOK, files, Terminal
<1>6. CASE /\ Write(j) /\ site' = "create" /\ pc' = "clear" /\ at' = 1
           /\ UNCHANGED <<own, entry, caller, outcome>>
  <2>1. /\ CopiesAreWhole' /\ JournalsStand' /\ TornIsRecoverable'
        /\ disk' \in [Restore -> AnyJournal] /\ mem' \in AnyJournal /\ rec' \in AnyJournal
        /\ faults' = faults /\ disk'[own] = j
        /\ \A y \in Restore \ {own} : ~IsOpen(y)'
    <3>1. UNCHANGED <<target, safety, source, desired, whole>>
      BY <1>1 DEF files, scene
    <3> QED
      BY <1>2, <1>3, <1>4, <1>6, <3>1, WriteStands
  <2>2. TypeOK'
    BY <1>1, <1>6, <2>1 DEF IInv, TypeOK, files, scene
  <2>3. Control'
    BY <1>1, <1>2, <1>6, <2>1, SitesOf, ControlFrame DEF IInv, scene
  <2>4. desired' = desired /\ safety' = safety
    BY <1>1 DEF files
  <2>5. StagingStands' /\ InstallStands' /\ SuccessStands' /\ CommitStands'
    BY <1>2, <1>3, <1>4, <1>6, <2>1, <2>4
       DEF StagingStands, InstallStands, SuccessStands, CommitStands, InstallPcs, Current, Committing
  <2> QED
    BY <2>1, <2>2, <2>3, <2>5 DEF IInv
<1> QED
  BY <1>1, <1>5, <1>6

\* Where the command is, some restore is being worked on, and no other is open.
LEMMA CurrentIs ==
  ASSUME IInv, pc \notin {"idle", "scan", "ready"}
  PROVE  /\ Current \in Restore /\ Working \in AnyJournal
         /\ site # "tidy" /\ own # None => Current = own
         /\ Committing => own \in Restore /\ Current = own /\ caller = "none"
         /\ ~Committing => entry \in Restore /\ Current = entry
<1>1. site \in Sites(pc) /\ site # "none" => Committing \/ site \in RecoverySites
  BY DEF Sites, Committing, RecoverySites, InstallPcs, InstallSites, UndoSites
<1>2. site # "none" => /\ Current \in Restore /\ Working \in AnyJournal
                       /\ site # "tidy" /\ own # None => Current = own
                       /\ Committing => own \in Restore /\ Current = own /\ caller = "none"
                       /\ ~Committing => entry \in Restore /\ Current = entry
  BY <1>1 DEF IInv, TypeOK, Control, Current, Working, RecoverySites, Committing
<1>3. site # "none"
  <2>1. site \in Sites(pc)
    BY DEF IInv, Control
  <2>2. "none" \notin Sites(pc)
    BY DEF Sites, InstallPcs, InstallSites, UndoSites
  <2> QED
    BY <2>1, <2>2
<1> QED
  BY <1>2, <1>3

\* An error while the journal on disk stays as it is.
LEMMA RaiseWorking ==
  ASSUME IInv, Raise(Working), pc # "idle", UNCHANGED <<desired, safety, scene, disk, writes, crashes>>,
         target' \in [Component -> Stuff],
         candidate' \in [Restore -> [Component -> Stuff]],
         rollback' \in [Restore -> [Component -> Stuff]],
         faults' \in 0 .. MaxFaults, TornIsRecoverable',
         caller = "commit" => faults' >= 2,
         site = "commit" => pc \in InstallPcs \ {"begin"}
  PROVE  IInv'
<1>1. Working \in AnyJournal /\ disk \in [Restore -> AnyJournal] /\ Control /\ CommitStands /\ InstallStands
  BY DEF IInv, TypeOK, Working
<1>2. JournalsStand'
  BY DEF IInv, JournalsStand, Ready, Meant, scene
<1>3. own # None => \A x \in Restore \ {own} : disk'[x].phase \in {"none"} \union Terminal
  BY <1>1 DEF Control, IsOpen
<1>4. site = "commit" => Ready(own, Working) /\ Working.mode = "forward" /\ Working.phase \notin Terminal
  BY <1>1 DEF InstallStands, Current, Committing, Terminal
<1>5. caller = "commit" => faults' >= 2 /\ disk'[own].phase \notin {"none", "directory"}
  BY <1>1 DEF CommitStands
<1> QED
  BY <1>1, <1>2, <1>3, <1>4, <1>5, RaiseKeeps

LEMMA VerifySafetyKeeps ==
  ASSUME IInv, VerifySafety
  PROVE  IInv'
<1>1. pc = "undo" /\ UNCHANGED <<files, scene, disk, limits>>
  BY DEF VerifySafety
<1>2. site \in UndoSites /\ Current \in Restore
  BY <1>1, SitesOf, CurrentIs DEF IInv, Control
<1>3. CopiesAreWhole' /\ JournalsStand' /\ TornIsRecoverable'
  BY <1>1, FilesFrame DEF files, scene
<1>4. caller = "commit" => faults >= 2
  BY <1>2, LocalRestoreAssumption DEF IInv, CommitStands, UndoSites, TypeOK
<1>5. CASE Raise(Working)
  <2>1. faults' \in 0 .. MaxFaults
    BY <1>1 DEF IInv, TypeOK, limits
  <2> QED
    BY <1>1, <1>2, <1>3, <1>4, <1>5, <2>1, RaiseWorking DEF files, limits, IInv, TypeOK, UndoSites
<1>6. CASE /\ safety[Current] # None
           /\ pc' = "clear" /\ at' = 1 /\ UNCHANGED <<mem, rec, own, entry, site, caller, outcome>>
  <2>1. TypeOK'
    BY <1>1, <1>6 DEF IInv, TypeOK, files, scene, limits
  <2>2. Control'
    BY <1>1, <1>2, <1>6, SitesOf, ControlFrame DEF IInv, Control, IsOpen, scene
  <2>3. CommitStands'
    BY <1>1, <1>6, CommitFrame DEF IInv, files, scene, limits
  <2>4. StagingStands' /\ InstallStands' /\ SuccessStands'
    BY <1>1, <1>2, <1>6 DEF files, StagingStands, InstallStands, SuccessStands, InstallPcs, UndoSites,
                           Current, Committing
  <2> QED
    BY <1>3, <2>1, <2>2, <2>3, <2>4 DEF IInv
<1> QED
  BY <1>5, <1>6 DEF VerifySafety

\* While candidates are staged, only they and what was moved aside change.
LEMMA StagingFrame ==
  ASSUME IInv, pc \in {"clear", "copy"}, pc' \in {"clear", "copy", "stage"}, at' \in 1 .. 3,
         UNCHANGED <<target, desired, safety, scene, disk, limits,
                     mem, rec, own, entry, site, caller, outcome>>,
         candidate' \in [Restore -> [Component -> Stuff]],
         rollback' \in [Restore -> [Component -> Stuff]],
         pc' = "copy" => \A i \in 1 .. at' - 1 :
                           candidate'[Current][CopyOrder[i]] \in Forms(CopyOrder[i], StageSource[CopyOrder[i]]),
         pc' = "stage" => \A c \in Component : candidate'[Current][c] \in Forms(c, StageSource[c])
  PROVE  IInv'
<1>1. site \in UndoSites \union {"create"} /\ Control /\ StagingStands /\ safety[Current] # None
  BY SitesOf DEF IInv, Control, StagingStands
<1>2. CopiesAreWhole' /\ JournalsStand' /\ TornIsRecoverable'
  BY FilesFrame DEF scene
<1>3. TypeOK'
  BY DEF IInv, TypeOK, scene, limits
<1>4. Control'
  BY <1>1, SitesOf, ControlFrame DEF Control, IsOpen, scene
<1>5. CommitStands'
  BY CommitFrame DEF IInv, scene, limits
<1>6. StageSource' = StageSource /\ Current' = Current
  BY DEF StageSource, Current, Committing
<1>7. StagingStands'
  BY <1>1, <1>6 DEF StagingStands, Copied
<1>8. InstallStands' /\ SuccessStands'
  BY DEF InstallStands, SuccessStands, InstallPcs
<1> QED
  BY <1>2, <1>3, <1>4, <1>5, <1>7, <1>8 DEF IInv

LEMMA ClearStageKeeps ==
  ASSUME IInv, ClearStage
  PROVE  IInv'
<1>1. /\ pc = "clear"
      /\ candidate' = [candidate EXCEPT ![Current][InstallOrder[at]] = None]
      /\ rollback' = [rollback EXCEPT ![Current][InstallOrder[at]] = None]
      /\ IF at < 3 THEN at' = at + 1 /\ pc' = "clear" ELSE at' = 1 /\ pc' = "copy"
      /\ UNCHANGED <<target, desired, safety, scene, disk, limits,
                     mem, rec, own, entry, site, caller, outcome>>
  BY Orders DEF ClearStage, Advance
<1>2. at \in 1 .. 3 /\ None \in Stuff
  BY DEF IInv, TypeOK, Stuff
<1>3. candidate' \in [Restore -> [Component -> Stuff]] /\ rollback' \in [Restore -> [Component -> Stuff]]
  BY <1>1, <1>2 DEF IInv, TypeOK
<1>4. pc' \in {"clear", "copy"} /\ at' \in 1 .. 3 /\ (pc' = "copy" => 1 .. at' - 1 = {})
  BY <1>1, <1>2
<1> QED
  BY <1>1, <1>3, <1>4, StagingFrame

\* The copy that is staged is data.
LEMMA SourceIsData ==
  ASSUME IInv, pc \in {"clear", "copy", "stage"}
  PROVE  /\ StageSource \in Data
         /\ StageSource = IF StageMode = "rollback" THEN safety[Current] ELSE source[Current]
         /\ safety[Current] # None /\ Current \in Restore
         /\ site = "create" => StageMode = "forward"
         /\ site \in UndoSites => StageMode = "rollback"
<1>1. /\ site \in UndoSites \union {"create"} /\ safety[Current] # None /\ Current \in Restore
      /\ site = "create" => desired[own] # None /\ Current = own
  BY SitesOf, CurrentIs DEF IInv, Control, StagingStands, Committing
<1>2. CASE site = "create"
  BY <1>1, <1>2 DEF IInv, TypeOK, CopiesAreWhole, StageSource, StageMode, UndoSites
<1>3. CASE site \in UndoSites
  BY <1>1, <1>3 DEF IInv, TypeOK, StageSource, StageMode, UndoSites
<1> QED
  BY <1>1, <1>2, <1>3

LEMMA FormsAreContent ==
  ASSUME NEW g \in Generation, NEW c, NEW b \in Forms(c, g)
  PROVE  b \in Content /\ b[1] = g
BY DEF Forms, Content

LEMMA CopyCandidateKeeps ==
  ASSUME IInv, CopyCandidate
  PROVE  IInv'
<1> DEFINE c == CopyOrder[at]
<1>1. PICK b \in Forms(c, StageSource[c]) :
        /\ pc = "copy" /\ candidate' = [candidate EXCEPT ![Current][c] = b]
        /\ IF at < 3 THEN at' = at + 1 /\ pc' = "copy" ELSE at' = 1 /\ pc' = "stage"
        /\ UNCHANGED <<target, rollback, desired, safety, scene, disk, limits,
                       mem, rec, own, entry, site, caller, outcome>>
  BY Orders DEF CopyCandidate, Advance
<1>2. at \in 1 .. 3 /\ c \in Component
  BY Orders DEF IInv, TypeOK
<1>3. StageSource \in Data /\ Current \in Restore
  BY <1>1, SourceIsData
<1>4. b \in Stuff
  BY <1>2, <1>3, FormsAreContent DEF Data, Stuff
<1>5. candidate \in [Restore -> [Component -> Stuff]]
  BY DEF IInv, TypeOK
<1>6. /\ candidate' \in [Restore -> [Component -> Stuff]]
      /\ candidate'[Current][c] = b
      /\ \A d \in Component \ {c} : candidate'[Current][d] = candidate[Current][d]
  BY <1>1, <1>2, <1>3, <1>4, <1>5
<1>7. \A i \in 1 .. at : candidate'[Current][CopyOrder[i]] \in Forms(CopyOrder[i], StageSource[CopyOrder[i]])
  <2> SUFFICES ASSUME NEW i \in 1 .. at
               PROVE  candidate'[Current][CopyOrder[i]] \in Forms(CopyOrder[i], StageSource[CopyOrder[i]])
    OBVIOUS
  <2>1. CASE i = at
    BY <1>6, <2>1
  <2>2. CASE i # at
    <3>1. i \in 1 .. 3 /\ i \in 1 .. at - 1
      BY <1>2, <2>2
    <3>2. CopyOrder[i] \in Component \ {c}
      BY <1>2, <2>2, <3>1, Orders
    <3>3. candidate[Current][CopyOrder[i]] \in Forms(CopyOrder[i], StageSource[CopyOrder[i]])
      BY <1>1, <3>1 DEF IInv, StagingStands, Copied
    <3> QED
      BY <1>6, <3>2, <3>3
  <2> QED
    BY <2>1, <2>2
<1> HIDE DEF c
<1>8. at' \in 1 .. 3 /\ pc' \in {"copy", "stage"} /\ (pc' = "copy" => at' - 1 = at)
  BY <1>1, <1>2
<1>9. pc' = "stage" => \A d \in Component : candidate'[Current][d] \in Forms(d, StageSource[d])
  <2> SUFFICES ASSUME pc' = "stage", NEW d \in Component
               PROVE  candidate'[Current][d] \in Forms(d, StageSource[d])
    OBVIOUS
  <2>1. at = 3
    BY <1>1, <1>2
  <2>2. PICK i \in 1 .. 3 : CopyOrder[i] = d
    BY Orders
  <2> QED
    BY <1>7, <2>1, <2>2
<1>10. rollback' \in [Restore -> [Component -> Stuff]]
  BY <1>1 DEF IInv, TypeOK
<1> QED
  BY <1>1, <1>6, <1>7, <1>8, <1>9, <1>10, StagingFrame

LEMMA StageKeeps ==
  ASSUME IInv, Stage
  PROVE  IInv'
<1> DEFINE e == candidate[Current]
           j == Journal("live-staged", StageMode, e)
<1>1. /\ pc = "stage" /\ UNCHANGED <<files, scene, writes, crashes>>
      /\ \/ /\ Write(j) /\ site' = (IF site = "create" THEN "commit" ELSE site) /\ pc' = "begin" /\ at' = 1
            /\ UNCHANGED <<own, entry, caller, outcome>>
         \/ WriteFails(j)
  BY DEF Stage, Goto
<1>2. /\ site \in UndoSites \union {"create"} /\ Current \in Restore /\ Current # None
      /\ own # None => Current = own
      /\ site = "create" => Committing /\ own # None /\ caller = "none" /\ Current = own
      /\ site \notin {"commit", "tidy"}
  <2>1. site \in UndoSites \union {"create"}
    BY <1>1, SitesOf DEF IInv, Control
  <2>2. site \notin {"commit", "tidy"}
    BY <2>1 DEF UndoSites
  <2> QED
    BY <1>1, <2>1, <2>2, CurrentIs, NotNone DEF Committing
<1>3. /\ StageSource \in Data /\ safety[Current] # None
      /\ StageSource = IF StageMode = "rollback" THEN safety[Current] ELSE source[Current]
      /\ site \in UndoSites => StageMode = "rollback"
      /\ site = "create" => StageMode = "forward"
  BY <1>1, SourceIsData
<1>4. \A c \in Component : e[c] \in Content /\ e[c][1] = StageSource[c]
  <2> SUFFICES ASSUME NEW c \in Component
               PROVE  e[c] \in Content /\ e[c][1] = StageSource[c]
    OBVIOUS
  <2>1. e[c] \in Forms(c, StageSource[c])
    BY <1>1 DEF IInv, StagingStands, Copied
  <2>2. StageSource[c] \in Generation
    BY <1>3 DEF Data
  <2> QED
    BY <2>1, <2>2, FormsAreContent
<1>5. e \in [Component -> Stuff]
  BY <1>2 DEF IInv, TypeOK
<1>6. j \in AnyJournal /\ j.phase = "live-staged" /\ j.mode = StageMode /\ j.expected = e
  <2>1. "live-staged" \in Phase /\ StageMode \in {"forward", "rollback"}
    BY DEF Phase, StageMode
  <2> QED
    BY <1>5, <2>1, AJournal
<1>7. e \in [Component -> Content] /\ StageSource = [c \in Component |-> e[c][1]]
  BY <1>3, <1>4, <1>5 DEF Data
<1> HIDE DEF j, e
<1>8. Ready(Current, j)
  BY <1>3, <1>6, <1>7 DEF Ready, Meant
<1>9. Halfway(j) \/ ~Halfway(disk[Current])
  <2>1. CASE site = "create"
    BY <1>2, <2>1 DEF IInv, StagingStands, Halfway
  <2>2. CASE site \in UndoSites
    BY <1>3, <1>6, <2>2 DEF Halfway
  <2> QED
    BY <1>2, <2>1, <2>2
<1>10. CASE WriteFails(j)
  BY <1>1, <1>2, <1>6, <1>8, <1>9, <1>10, WriteFailsKeeps DEF IInv, TypeOK, files
<1>11. CASE /\ Write(j) /\ site' = (IF site = "create" THEN "commit" ELSE site) /\ pc' = "begin" /\ at' = 1
            /\ UNCHANGED <<own, entry, caller, outcome>>
  <2>1. /\ CopiesAreWhole' /\ JournalsStand' /\ TornIsRecoverable'
        /\ disk' \in [Restore -> AnyJournal] /\ mem' \in AnyJournal /\ rec' \in AnyJournal
        /\ faults' = faults /\ disk'[Current] = j
        /\ \A y \in Restore \ {Current} : disk'[y] = disk[y]
        /\ own # None => \A y \in Restore \ {own} : ~IsOpen(y)'
        /\ mem' = IF Committing THEN j ELSE mem
        /\ rec' = IF Committing THEN rec ELSE j
    <3>1. UNCHANGED <<target, safety, source, desired, whole>>
      BY <1>1 DEF files, scene
    <3> QED
      BY <1>2, <1>6, <1>8, <1>9, <1>11, <3>1, WriteStands
  <2>2. TypeOK'
    BY <1>1, <1>11, <2>1 DEF IInv, TypeOK, files, scene
  <2>3. Committing' = Committing /\ Current' = Current /\ Working' = j
    BY <1>2, <1>11, <2>1 DEF Committing, Current, Working
  <2>4. Control'
    <3>1. CASE site = "create"
      BY <1>1, <1>2, <1>11, <2>1, <3>1, SitesOf
         DEF IInv, Control, Committing, InstallPcs, InstallSites, RecoverySites, scene
    <3>2. CASE site \in UndoSites
      <4>1. UNCHANGED <<own, entry, site, caller, source>>
        BY <1>1, <1>11, <3>2 DEF UndoSites, scene
      <4>2. site \in Sites("begin")
        BY <3>2, SitesOf DEF UndoSites, InstallSites, InstallPcs
      <4> QED
        BY <1>1, <1>11, <2>1, <4>1, <4>2, ControlFrame DEF IInv
    <3> QED
      BY <1>2, <3>1, <3>2
  <2>5. InstallStands'
    <3>1. UNCHANGED <<safety, source>>
      BY <1>1 DEF files, scene
    <3>2. Ready(Current, Working)'
      BY <1>8, <2>3, <3>1 DEF Ready, Meant
    <3>3. site' \in {"commit", "retry"} => j.mode = "forward"
      BY <1>2, <1>3, <1>6, <1>11 DEF UndoSites
    <3> QED
      BY <1>11, <2>3, <3>2, <3>3 DEF InstallStands, InstallPcs
  <2>6. CommitStands'
    <3> SUFFICES ASSUME caller' = "commit"
                 PROVE  /\ faults' >= 1 /\ mem'.phase = "complete"
                        /\ disk'[own'].phase \notin {"none", "directory"} /\ ~(faults' < 2)
      BY DEF CommitStands
    <3>1. caller = "commit" /\ ~Committing /\ site \in UndoSites /\ own \in Restore
      BY <1>1, <1>2, <1>11, CurrentIs DEF IInv, Control, TypeOK
    <3>2. faults >= 1 /\ mem.phase = "complete" /\ ~(faults < 2)
      BY <3>1 DEF IInv, CommitStands, UndoSites
    <3> QED
      BY <1>2, <1>6, <1>11, <2>1, <3>1, <3>2, NotNone
  <2>7. StagingStands' /\ SuccessStands'
    BY <1>2, <1>11 DEF StagingStands, SuccessStands
  <2> QED
    BY <2>1, <2>2, <2>4, <2>5, <2>6, <2>7 DEF IInv
<1> QED
  BY <1>1, <1>10, <1>11


-----------------------------------------------------------------------------
(* The install                                                              *)

\* Once every component is what the journal says, the data are what it means.
LEMMA InstalledIsWhole ==
  ASSUME IInv, pc \in {"finish", "drop", "settle"}
  PROVE  target = Working.expected /\ Live = Meant(Current, Working) /\ Validates
<1>1. /\ Ready(Current, Working) /\ Current \in Restore /\ target \in [Component -> Stuff]
      /\ \A c \in Component : target[c] = Working.expected[c]
  BY CurrentIs DEF IInv, InstallStands, InstallPcs, Installed, TypeOK
<1>2. target = Working.expected
  BY <1>1 DEF Ready
<1>3. Live = Meant(Current, Working)
  BY <1>1, <1>2 DEF Ready, Live
<1>4. Meant(Current, Working) \in whole
  <2>1. Meant(Current, Working) # None
    <3>1. Meant(Current, Working) = [c \in Component |-> Working.expected[c][1]]
      BY <1>1 DEF Ready
    <3>2. [c \in Component |-> Working.expected[c][1]] \in Data
      BY <1>1 DEF Ready, Content, Data, Generation
    <3> QED
      BY <3>1, <3>2, NotNone
  <2> QED
    BY <1>1, <2>1 DEF Meant, IInv, CopiesAreWhole
<1> QED
  BY <1>2, <1>3, <1>4 DEF Validates

\* Under a journal that says files may have moved, they may.
LEMMA InstallIsSafe ==
  ASSUME IInv, pc \in InstallPcs \ {"begin"}, UNCHANGED <<disk, safety, whole>>
  PROVE  TornIsRecoverable'
<1>1. /\ Current \in Restore /\ disk[Current] = Working /\ Halfway(disk[Current])
      /\ Ready(Current, disk[Current])
  BY CurrentIs DEF IInv, InstallStands, InstallPcs, Halfway
<1>2. safety[Current] \in whole
  BY <1>1, HalfwayIsSafe
<1> QED
  BY <1>1, <1>2 DEF TornIsRecoverable, Halfway

\* The recovery that takes the place of a commit finds nothing to move.
LEMMA NothingToMove ==
  ASSUME IInv, pc \in InstallPcs, caller = "commit", faults < 2
  PROVE  /\ \A c \in Component : Installed(c)
         /\ pc # "moveIn" /\ site = "reinstall" /\ entry = own /\ Working = rec
         /\ Live = source[own] /\ Working.mode = "forward"
<1>1. ~Committing /\ own # None /\ site \in InstallSites
  BY SitesOf DEF IInv, Control
<1>2. site = "reinstall"
  BY <1>1 DEF IInv, CommitStands, InstallSites
<1>3. entry = own
  BY <1>1, <1>2 DEF IInv, Control, RecoverySites
<1>4. target = mem.expected /\ Rewritten(rec) /\ Live = source[own] /\ pc # "moveIn"
  BY <1>2, <1>3 DEF IInv, CommitStands
<1> QED
  BY <1>1, <1>2, <1>3, <1>4 DEF Installed, Working, Rewritten

\* The journal reaches its next phase while nothing moves.
LEMMA InstallJournals ==
  ASSUME IInv, pc \in InstallPcs,
         NEW p \in {"installing", "installed", SettledPhase(Working)}, NEW q \in {"install", "drop", "clean"},
         NEW j, j = [Working EXCEPT !.phase = p],
         UNCHANGED <<files, scene, writes, crashes>>,
         q = "install" => p = "installing",
         q = "drop" => p = "installed" /\ pc = "finish",
         q = "clean" => p = SettledPhase(Working) /\ pc = "settle",
         p \in {"complete", "rolled-back"} => q = "clean",
         \/ Write(j) /\ pc' = q /\ at' = 1 /\ UNCHANGED <<own, entry, site, caller, outcome>>
         \/ WriteFails(j)
  PROVE  IInv'
<1>1. /\ Current \in Restore /\ Current # None /\ Working \in AnyJournal /\ site \in InstallSites
      /\ own # None => Current = own
      /\ Committing => Current = own /\ caller = "none"
  <2>1. site \in InstallSites /\ pc \notin {"idle", "scan", "ready"}
    BY SitesOf DEF IInv, Control, InstallPcs
  <2>2. site # "tidy"
    BY <2>1 DEF InstallSites
  <2> QED
    BY <2>1, <2>2, CurrentIs, NotNone
<1>2. SettledPhase(Working) \in Terminal /\ p \in Phase
  BY DEF SettledPhase, Terminal, Phase
<1>3. j \in AnyJournal /\ j.phase = p /\ j.mode = Working.mode /\ j.expected = Working.expected
  BY <1>1, <1>2, NextPhase
<1>4. Ready(Current, Working) /\ (site \in {"commit", "retry"} => Working.mode = "forward")
  BY DEF IInv, InstallStands
<1>5. Ready(Current, j)
  BY <1>3, <1>4, SameReady
<1>6. p \in Terminal => /\ target = Working.expected /\ Live = Meant(Current, Working) /\ Validates
                        /\ q = "clean" /\ pc = "settle"
  BY InstalledIsWhole DEF Terminal
<1>7. Validates \/ Halfway(j)
  BY <1>2, <1>3, <1>6 DEF Halfway
<1>8. CASE WriteFails(j)
  <2>1. site = "commit" => /\ Ready(own, j) /\ j.mode = "forward"
                           /\ j.phase \in Terminal =>
                                /\ j.phase = "complete" /\ Live = source[own] /\ target = j.expected
                                /\ disk[own].phase = "installed" /\ disk[own].mode = "forward"
                                /\ disk[own].expected = j.expected
    <3> SUFFICES ASSUME site = "commit"
                 PROVE  /\ Ready(own, j) /\ j.mode = "forward"
                        /\ j.phase \in Terminal =>
                             /\ j.phase = "complete" /\ Live = source[own] /\ target = j.expected
                             /\ disk[own].phase = "installed" /\ disk[own].mode = "forward"
                             /\ disk[own].expected = j.expected
      OBVIOUS
    <3>1. Current = own /\ Working.mode = "forward" /\ Ready(own, j)
      BY <1>1, <1>4, <1>5 DEF Committing
    <3> QED
      BY <1>3, <1>6, <3>1 DEF SettledPhase, Meant, IInv, InstallStands, InstallPcs
  <2>2. /\ candidate' \in [Restore -> [Component -> Stuff]]
        /\ rollback' \in [Restore -> [Component -> Stuff]]
        /\ UNCHANGED <<target, desired, safety, scene, writes, crashes>>
    BY DEF IInv, TypeOK, files
  <2>3. j.phase \notin {"none", "directory"}
    BY <1>2, <1>3 DEF Terminal
  <2> QED
    BY <1>1, <1>3, <1>5, <1>7, <1>8, <2>1, <2>2, <2>3, WriteFailsKeeps
<1>9. CASE Write(j) /\ pc' = q /\ at' = 1 /\ UNCHANGED <<own, entry, site, caller, outcome>>
  <2>1. /\ CopiesAreWhole' /\ JournalsStand' /\ TornIsRecoverable'
        /\ disk' \in [Restore -> AnyJournal] /\ mem' \in AnyJournal /\ rec' \in AnyJournal
        /\ faults' = faults /\ disk'[Current] = j
        /\ \A y \in Restore \ {Current} : disk'[y] = disk[y]
        /\ own # None => \A y \in Restore \ {own} : ~IsOpen(y)'
        /\ mem' = IF Committing THEN j ELSE mem
        /\ rec' = IF Committing THEN rec ELSE j
    <3>1. UNCHANGED <<target, safety, source, desired, whole>>
      BY DEF files, scene
    <3> QED
      BY <1>1, <1>3, <1>5, <1>7, <1>9, <3>1, WriteStands
  <2>2. TypeOK'
    BY <1>9, <2>1 DEF IInv, TypeOK, files, scene
  <2>3. Committing' = Committing /\ Current' = Current /\ Working' = j
    BY <1>9, <2>1 DEF Committing, Current, Working
  <2>4. Control'
    <3>1. site \in Sites(q)
      BY <1>1, SitesOf DEF InstallPcs
    <3>2. pc # "idle"
      BY DEF InstallPcs
    <3> QED
      BY <1>9, <2>1, <3>1, <3>2, ControlFrame DEF IInv, scene
  <2>5. UNCHANGED <<target, source, safety>>
    BY DEF files, scene
  <2>6. InstallStands'
    <3>1. Ready(Current, Working)'
      BY <1>5, <2>3, <2>5 DEF Ready, Meant
    <3>2. q = "drop" => \A c \in Component : target'[c] = j.expected[c]
      BY <1>3, <2>5, InstalledIsWhole
    <3>3. /\ q = "clean" => j.phase \in Terminal
          /\ q # "clean" => j.phase = IF q \in {"drop", "settle"} THEN "installed" ELSE "installing"
      BY <1>2, <1>3
    <3>4. 1 .. at' - 1 = {} /\ disk'[Current'] = Working'
      BY <1>9, <2>1, <2>3
    <3> QED
      BY <1>3, <1>4, <1>9, <2>1, <2>3, <3>1, <3>2, <3>3, <3>4 DEF InstallStands, InstallPcs, Installed
  <2>7. SuccessStands'
    <3>1. site \in {"commit", "retry"} /\ q = "clean" => Live = source[own]
      BY <1>1, <1>2, <1>4, <1>6 DEF Meant, Committing
    <3>2. site # "warned"
      BY <1>1 DEF InstallSites
    <3> QED
      BY <1>9, <2>5, <3>1, <3>2 DEF SuccessStands, Live
  <2>8. CommitStands'
    <3> SUFFICES ASSUME caller = "commit" PROVE CommitStands'
      BY <1>9 DEF CommitStands
    <3>1. ~Committing /\ own # None /\ mem' = mem /\ rec' = j /\ disk'[own] = j
      BY <1>1, <2>1 DEF IInv, Control
    <3>2. faults < 2 => /\ j.phase \in {"installing", "installed", "complete"}
                        /\ j.mode = "forward" /\ j.expected = mem.expected
                        /\ Live = source[own] /\ target = mem.expected /\ site = "reinstall"
      <4> SUFFICES ASSUME faults < 2
                   PROVE  /\ j.phase \in {"installing", "installed", "complete"}
                          /\ j.mode = "forward" /\ j.expected = mem.expected
                          /\ Live = source[own] /\ target = mem.expected /\ site = "reinstall"
        OBVIOUS
      <4>1. Working.mode = "forward" /\ entry = own /\ site = "reinstall" /\ Working = rec
        BY NothingToMove
      <4>2. Rewritten(rec) /\ Live = source[own] /\ target = mem.expected
        BY <4>1 DEF IInv, CommitStands
      <4> QED
        BY <1>3, <4>1, <4>2 DEF SettledPhase, Rewritten
    <3>3. j.phase \notin {"none", "directory"}
      BY <1>2, <1>3 DEF Terminal
    <3>4. faults >= 1 /\ mem.phase = "complete"
      BY DEF IInv, CommitStands
    <3>5. Live' = Live /\ pc' # "moveIn"
      BY <1>9, <2>5 DEF Live
    <3>6. /\ j.phase \in {"installing", "installed", "complete"} /\ j.mode = "forward"
            /\ j.expected = mem.expected
            => Rewritten(disk[own])' /\ Rewritten(rec)'
      BY <1>9, <3>1 DEF Rewritten
    <3> QED
      BY <1>9, <2>1, <2>5, <3>1, <3>2, <3>3, <3>4, <3>5, <3>6 DEF CommitStands
  <2>9. StagingStands'
    BY <1>1, <1>9 DEF StagingStands, InstallSites
  <2> QED
    BY <2>1, <2>2, <2>4, <2>6, <2>7, <2>8, <2>9 DEF IInv
<1> QED
  BY <1>8, <1>9


LEMMA BeginInstallKeeps ==
  ASSUME IInv, BeginInstall
  PROVE  IInv'
<1> DEFINE j == [Working EXCEPT !.phase = "installing"]
<1>1. /\ pc \in InstallPcs /\ UNCHANGED <<files, scene, writes, crashes>>
      /\ \/ Write(j) /\ pc' = "install" /\ at' = 1 /\ UNCHANGED <<own, entry, site, caller, outcome>>
         \/ WriteFails(j)
  BY DEF BeginInstall, InstallPcs
<1> HIDE DEF j
<1>2. j = [Working EXCEPT !.phase = "installing"]
  BY DEF j
<1> QED
  BY <1>1, <1>2, InstallJournals

LEMMA FinishInstallKeeps ==
  ASSUME IInv, FinishInstall
  PROVE  IInv'
<1> DEFINE j == [Working EXCEPT !.phase = "installed"]
<1>1. /\ pc = "finish" /\ pc \in InstallPcs /\ UNCHANGED <<files, scene, writes, crashes>>
      /\ \/ Write(j) /\ pc' = "drop" /\ at' = 1 /\ UNCHANGED <<own, entry, site, caller, outcome>>
         \/ WriteFails(j)
  BY DEF FinishInstall, InstallPcs
<1> HIDE DEF j
<1>2. j = [Working EXCEPT !.phase = "installed"]
  BY DEF j
<1> QED
  BY <1>1, <1>2, InstallJournals

LEMMA SettleKeeps ==
  ASSUME IInv, Settle
  PROVE  IInv'
<1> DEFINE j == [Working EXCEPT !.phase = SettledPhase(Working)]
<1>1. /\ pc = "settle" /\ pc \in InstallPcs /\ UNCHANGED <<files, scene, writes, crashes>>
      /\ \/ Write(j) /\ pc' = "clean" /\ at' = 1 /\ UNCHANGED <<own, entry, site, caller, outcome>>
         \/ WriteFails(j)
  BY DEF Settle, InstallPcs
<1> HIDE DEF j
<1>2. j = [Working EXCEPT !.phase = SettledPhase(Working)]
  BY DEF j
<1> QED
  BY <1>1, <1>2, InstallJournals

\* A step of the install that leaves the journal as it is.
LEMMA InstallFrame ==
  ASSUME IInv, pc \in InstallPcs \ {"begin"}, pc' \in InstallPcs \ {"begin"}, at' \in 1 .. 3,
         pc' \in {"drop", "settle"} <=> pc \in {"drop", "settle"},
         UNCHANGED <<desired, safety, scene, disk, limits,
                     mem, rec, own, entry, site, caller, outcome>>,
         target' \in [Component -> Stuff],
         candidate' \in [Restore -> [Component -> Stuff]],
         rollback' \in [Restore -> [Component -> Stuff]],
         pc' \in {"install", "moveIn"} =>
           \A i \in 1 .. at' - 1 : target'[InstallOrder[i]] = Working.expected[InstallOrder[i]],
         pc' \in {"finish", "drop", "settle"} =>
           \A c \in Component : target'[c] = Working.expected[c],
         caller = "commit" /\ faults < 2 => target' = target /\ pc' # "moveIn"
  PROVE  IInv'
<1>1. CopiesAreWhole' /\ JournalsStand'
  BY DEF IInv, CopiesAreWhole, JournalsStand, Ready, Meant, scene
<1>2. TornIsRecoverable'
  BY InstallIsSafe DEF scene
<1>3. TypeOK'
  BY <1>1 DEF IInv, TypeOK, scene, limits
<1>4. site \in InstallSites /\ site \in Sites(pc')
  BY SitesOf DEF IInv, Control
<1>5. Control'
  <2>1. own # None => \A x \in Restore \ {own} : ~IsOpen(x)'
    BY DEF IInv, Control, IsOpen
  <2>2. pc # "idle" /\ pc' \notin {"idle", "ready"}
    BY DEF InstallPcs
  <2> QED
    BY <1>4, <2>1, <2>2, ControlFrame DEF IInv, scene
<1>6. Working' = Working /\ Current' = Current /\ disk' = disk
  BY DEF Working, Current, Committing
<1>7. InstallStands'
  <2>1. Ready(Current, Working)'
    BY <1>6 DEF IInv, InstallStands, Ready, Meant, scene
  <2>2. site \in {"commit", "retry"} => Working.mode = "forward"
    BY DEF IInv, InstallStands
  <2>3. /\ disk[Current] = Working
        /\ Working.phase = IF pc \in {"drop", "settle"} THEN "installed" ELSE "installing"
    BY DEF IInv, InstallStands
  <2>4. pc' \notin {"clean", "discard", "warn"}
    BY DEF InstallPcs
  <2> QED
    BY <1>6, <2>1, <2>2, <2>3, <2>4 DEF InstallStands, Installed
<1>8. CommitStands'
  BY <1>6 DEF IInv, CommitStands, Rewritten, Live, scene, limits
<1>9. StagingStands' /\ SuccessStands'
  BY <1>4 DEF StagingStands, SuccessStands, InstallPcs, InstallSites
<1> QED
  BY <1>1, <1>2, <1>3, <1>5, <1>7, <1>8, <1>9 DEF IInv

\* What the loop of the install has reached when it goes on after component at.
LEMMA InstalledSoFar ==
  ASSUME IInv, pc \in {"install", "moveIn"}, target' \in [Component -> Stuff],
         target'[InstallOrder[at]] = Working.expected[InstallOrder[at]],
         \A c \in Component \ {InstallOrder[at]} : target'[c] = target[c],
         Advance("install", "finish")
  PROVE  /\ at' \in 1 .. 3 /\ pc' \in {"install", "finish"}
         /\ pc' = "install" => \A i \in 1 .. at' - 1 : target'[InstallOrder[i]] = Working.expected[InstallOrder[i]]
         /\ pc' = "finish" => \A c \in Component : target'[c] = Working.expected[c]
<1>1. at \in 1 .. 3
  BY DEF IInv, TypeOK
<1>2. \/ at < 3 /\ at' = at + 1 /\ pc' = "install"
      \/ at = 3 /\ at' = 1 /\ pc' = "finish"
  BY <1>1, Orders DEF Advance
<1>3. \A i \in 1 .. at : target'[InstallOrder[i]] = Working.expected[InstallOrder[i]]
  <2> SUFFICES ASSUME NEW i \in 1 .. at
               PROVE  target'[InstallOrder[i]] = Working.expected[InstallOrder[i]]
    OBVIOUS
  <2>1. CASE i = at
    BY <2>1
  <2>2. CASE i # at
    <3>1. i \in 1 .. 3 /\ i \in 1 .. at - 1
      BY <1>1, <2>2
    <3>2. InstallOrder[i] \in Component \ {InstallOrder[at]}
      BY <1>1, <2>2, <3>1, Orders
    <3>3. target[InstallOrder[i]] = Working.expected[InstallOrder[i]]
      BY <3>1 DEF IInv, InstallStands, Installed
    <3> QED
      BY <3>2, <3>3
  <2> QED
    BY <2>1, <2>2
<1>4. at = 3 => \A c \in Component : target'[c] = Working.expected[c]
  BY <1>3, Orders
<1>5. pc' = "install" => at' - 1 = at
  BY <1>1, <1>2
<1> QED
  BY <1>1, <1>2, <1>3, <1>4, <1>5

LEMMA KeepComponentKeeps ==
  ASSUME IInv, KeepComponent
  PROVE  IInv'
<1> DEFINE c == InstallOrder[at]
<1>1. /\ pc = "install" /\ target[c] = Working.expected[c]
      /\ candidate' = [candidate EXCEPT ![Current][c] = None]
      /\ Advance("install", "finish")
      /\ UNCHANGED <<target, rollback, desired, safety, scene, disk, limits,
                     mem, rec, own, entry, site, caller, outcome>>
  BY DEF KeepComponent, Installed
<1>2. None \in Stuff
  BY DEF Stuff
<1>3. /\ candidate' \in [Restore -> [Component -> Stuff]] /\ target' \in [Component -> Stuff]
      /\ rollback' \in [Restore -> [Component -> Stuff]]
  BY <1>1, <1>2 DEF IInv, TypeOK
<1> HIDE DEF c
<1>4. target'[InstallOrder[at]] = Working.expected[InstallOrder[at]]
  BY <1>1 DEF c
<1>5. /\ at' \in 1 .. 3 /\ pc' \in {"install", "finish"}
      /\ pc' = "install" => \A i \in 1 .. at' - 1 : target'[InstallOrder[i]] = Working.expected[InstallOrder[i]]
      /\ pc' = "finish" => \A d \in Component : target'[d] = Working.expected[d]
  BY <1>1, <1>3, <1>4, InstalledSoFar
<1> QED
  BY <1>1, <1>3, <1>5, InstallFrame DEF InstallPcs

LEMMA CandidateMissingKeeps ==
  ASSUME IInv, CandidateMissing
  PROVE  IInv'
<1>1. /\ pc = "install" /\ ~Installed(InstallOrder[at]) /\ Raise(Working)
      /\ UNCHANGED <<files, scene, disk, limits>>
  BY DEF CandidateMissing
<1>2. at \in 1 .. 3 /\ InstallOrder[at] \in Component /\ faults \in Nat /\ faults \in 0 .. MaxFaults
  BY Orders, LocalRestoreAssumption DEF IInv, TypeOK
<1>3. caller = "commit" => faults >= 2
  BY <1>1, <1>2, NothingToMove DEF InstallPcs
<1>4. TornIsRecoverable'
  BY <1>1, FilesFrame DEF files, scene
<1> QED
  BY <1>1, <1>2, <1>3, <1>4, RaiseWorking DEF files, limits, IInv, TypeOK, InstallPcs

LEMMA MoveAsideKeeps ==
  ASSUME IInv, MoveAside
  PROVE  IInv'
<1> DEFINE c == InstallOrder[at]
<1>1. /\ pc = "install" /\ ~Installed(c)
      /\ target' = [target EXCEPT ![c] = None]
      /\ rollback' = IF rollback[Current][c] = None
                     THEN [rollback EXCEPT ![Current][c] = target[c]] ELSE rollback
      /\ pc' = "moveIn"
      /\ UNCHANGED <<candidate, desired, safety, scene, disk, limits,
                     mem, rec, own, entry, site, caller, at, outcome>>
  BY DEF MoveAside
<1>2. at \in 1 .. 3 /\ c \in Component /\ faults \in Nat
  BY Orders, LocalRestoreAssumption DEF IInv, TypeOK
<1>3. None \in Stuff
  BY DEF Stuff
<1>4. target' \in [Component -> Stuff] /\ candidate' \in [Restore -> [Component -> Stuff]]
  BY <1>1, <1>3 DEF IInv, TypeOK
<1>5. rollback' \in [Restore -> [Component -> Stuff]]
  <2>1. target[c] \in Stuff /\ rollback \in [Restore -> [Component -> Stuff]]
    BY <1>2 DEF IInv, TypeOK
  <2> QED
    BY <1>1, <2>1
<1>6. caller = "commit" => ~(faults < 2)
  BY <1>1, <1>2, NothingToMove DEF InstallPcs
<1>7. \A i \in 1 .. at' - 1 : target'[InstallOrder[i]] = Working.expected[InstallOrder[i]]
  <2> SUFFICES ASSUME NEW i \in 1 .. at - 1
               PROVE  target'[InstallOrder[i]] = Working.expected[InstallOrder[i]]
    BY <1>1
  <2>1. i \in 1 .. 3 /\ i # at
    BY <1>2
  <2>2. InstallOrder[i] \in Component /\ InstallOrder[i] # c
    BY <1>2, <2>1, Orders
  <2>3. target[InstallOrder[i]] = Working.expected[InstallOrder[i]]
    BY <1>1 DEF IInv, InstallStands, Installed
  <2> QED
    BY <1>1, <2>2, <2>3 DEF IInv, TypeOK
<1> HIDE DEF c
<1> QED
  BY <1>1, <1>2, <1>4, <1>5, <1>6, <1>7, InstallFrame DEF InstallPcs

LEMMA MoveInKeeps ==
  ASSUME IInv, MoveIn
  PROVE  IInv'
<1> DEFINE c == InstallOrder[at]
<1>1. /\ pc = "moveIn" /\ target' = [target EXCEPT ![c] = candidate[Current][c]]
      /\ candidate' = [candidate EXCEPT ![Current][c] = None]
      /\ \/ /\ candidate[Current][c] = Working.expected[c] /\ Advance("install", "finish")
            /\ UNCHANGED <<mem, rec, own, entry, site, caller, outcome>>
         \/ Raise(Working)
      /\ UNCHANGED <<rollback, desired, safety, scene, disk, limits>>
  BY DEF MoveIn
<1>2. /\ at \in 1 .. 3 /\ c \in Component /\ faults \in Nat /\ faults \in 0 .. MaxFaults
      /\ Current \in Restore
  BY <1>1, CurrentIs, Orders, LocalRestoreAssumption DEF IInv, TypeOK
<1>3. None \in Stuff /\ candidate[Current][c] \in Stuff
  BY <1>2 DEF Stuff, IInv, TypeOK
<1>4. /\ target' \in [Component -> Stuff] /\ candidate' \in [Restore -> [Component -> Stuff]]
      /\ rollback' \in [Restore -> [Component -> Stuff]]
      /\ target'[c] = candidate[Current][c]
      /\ \A d \in Component \ {c} : target'[d] = target[d]
  BY <1>1, <1>2, <1>3 DEF IInv, TypeOK
<1>5. caller = "commit" => ~(faults < 2)
  BY <1>1, NothingToMove DEF InstallPcs
<1> HIDE DEF c
<1>6. CASE Raise(Working)
  <2>1. TornIsRecoverable'
    BY <1>1, InstallIsSafe DEF InstallPcs, scene
  <2>2. faults' = faults /\ UNCHANGED <<writes, crashes>>
    BY <1>1 DEF limits
  <2> QED
    BY <1>1, <1>2, <1>4, <1>5, <1>6, <2>1, <2>2, RaiseWorking DEF InstallPcs
<1>7. CASE /\ candidate[Current][c] = Working.expected[c] /\ Advance("install", "finish")
           /\ UNCHANGED <<mem, rec, own, entry, site, caller, outcome>>
  <2>1. /\ at' \in 1 .. 3 /\ pc' \in {"install", "finish"}
        /\ pc' = "install" => \A i \in 1 .. at' - 1 : target'[InstallOrder[i]] = Working.expected[InstallOrder[i]]
        /\ pc' = "finish" => \A d \in Component : target'[d] = Working.expected[d]
    BY <1>1, <1>4, <1>7, InstalledSoFar DEF c
  <2> QED
    BY <1>1, <1>4, <1>5, <1>7, <2>1, InstallFrame DEF InstallPcs
<1> QED
  BY <1>1, <1>6, <1>7

LEMMA DropRollbackKeeps ==
  ASSUME IInv, DropRollback
  PROVE  IInv'
<1>1. /\ pc = "drop" /\ rollback' = [rollback EXCEPT ![Current][InstallOrder[at]] = None]
      /\ IF at < 3 THEN at' = at + 1 /\ pc' = "drop" ELSE at' = 1 /\ pc' = "settle"
      /\ UNCHANGED <<target, candidate, desired, safety, scene, disk, limits,
                     mem, rec, own, entry, site, caller, outcome>>
  BY Orders DEF DropRollback, Advance
<1>2. at \in 1 .. 3 /\ None \in Stuff
  BY DEF IInv, TypeOK, Stuff
<1>3. /\ rollback' \in [Restore -> [Component -> Stuff]]
      /\ candidate' \in [Restore -> [Component -> Stuff]] /\ target' \in [Component -> Stuff]
  BY <1>1, <1>2 DEF IInv, TypeOK
<1>4. at' \in 1 .. 3 /\ pc' \in {"drop", "settle"}
  BY <1>1, <1>2
<1>5. \A c \in Component : target'[c] = Working.expected[c]
  BY <1>1, InstalledIsWhole
<1> QED
  BY <1>1, <1>3, <1>4, <1>5, InstallFrame DEF InstallPcs


-----------------------------------------------------------------------------
(* What is left behind                                                      *)

\* The command goes on, or ends, after an install.
LEMMA ReturnKeeps ==
  ASSUME IInv, pc \in {"clean", "discard"}, Return,
         UNCHANGED <<target, scene, writes, crashes>>,
         candidate' \in [Restore -> [Component -> Stuff]],
         rollback' \in [Restore -> [Component -> Stuff]],
         desired' \in [Restore -> Data \union {None}], safety' \in [Restore -> Data \union {None}],
         disk' \in [Restore -> AnyJournal], faults' \in 0 .. MaxFaults, faults' >= faults,
         CopiesAreWhole', JournalsStand', TornIsRecoverable',
         disk'[Current] \in {disk[Current], Working},
         \A y \in Restore \ {Current} : disk'[y] = disk[y]
  PROVE  IInv'
<1> DEFINE Rest ==
      /\ at' \in 1 .. 3 /\ own' \in Restore \union {None} /\ entry' \in Restore \union {None}
      /\ mem' \in AnyJournal /\ rec' \in AnyJournal
      /\ caller' \in {"none", "start", "commit", "catch"}
      /\ outcome' \in [Restore -> {"none", "ok", "failed"}]
<1>1. NoJournal \in AnyJournal /\ mem \in AnyJournal /\ rec \in AnyJournal
  BY DEF IInv, TypeOK, NoJournal, Journal, AnyJournal, Phase, Terminal
<1>2. /\ own \in Restore \union {None} /\ entry \in Restore \union {None}
      /\ caller \in {"none", "start", "commit", "catch"} /\ at \in 1 .. 3
      /\ outcome \in [Restore -> {"none", "ok", "failed"}] /\ Control
      /\ faults \in Nat /\ faults' \in Nat
  BY LocalRestoreAssumption DEF IInv, TypeOK
<1>3. ASSUME Rest PROVE TypeOK'
  BY <1>3 DEF IInv, TypeOK, scene
<1>4. /\ Current \in Restore /\ site \in InstallSites \union {"warned", "abandon", "tidy"}
      /\ site # "tidy" /\ own # None => Current = own
      /\ Committing => own \in Restore /\ Current = own /\ caller = "none"
      /\ ~Committing => entry \in Restore /\ Current = entry
  BY <1>2, CurrentIs, SitesOf DEF Control
<1>5. Working.phase \in Terminal /\ disk'[Current].phase \in Terminal
  BY DEF IInv, InstallStands
<1>6. own # None => \A x \in Restore \ {own} : ~IsOpen(x)'
  BY <1>2, <1>4, <1>5 DEF Control, IsOpen
<1>7. own # None => source'[own] # None
  BY <1>2 DEF Control, scene
<1>8. Live' = Live /\ (faults' < 2 => faults < 2)
  BY <1>2 DEF Live
<1>9. CASE EndCommand /\ Report("ok")
  <2>1. Rest
    BY <1>2, <1>9, IdleStands DEF Report
  <2> QED
    BY <1>3, <1>9, <2>1, IdleStands DEF IInv
<1>10. CASE site = "retry" /\ pc' = "warn" /\ at' = 1 /\ UNCHANGED <<mem, rec, own, entry, site, caller, outcome>>
  <2>1. Rest
    BY <1>1, <1>2, <1>10
  <2>2. Committing /\ Current = own /\ own \in Restore /\ caller = "none" /\ Working = mem
    BY <1>4, <1>10 DEF Committing, Working
  <2>3. Control'
    BY <1>2, <1>6, <1>10, SitesOf, ControlFrame DEF scene
  <2>4. InstallStands'
    BY <1>5, <1>10, <2>2 DEF InstallStands, InstallPcs
  <2>5. SuccessStands'
    <3>1. faults < 2 => Live = source[own]
      BY <1>10 DEF IInv, SuccessStands
    <3> QED
      BY <1>8, <1>10, <3>1 DEF SuccessStands, scene
  <2>6. StagingStands' /\ CommitStands'
    BY <1>10, <2>2 DEF StagingStands, CommitStands
  <2> QED
    BY <1>3, <2>1, <2>3, <2>4, <2>5, <2>6 DEF IInv
<1>11. CASE /\ site = "undo" /\ mem' = NoJournal /\ UNCHANGED rec /\ site' = "none" /\ pc' = "scan"
            /\ at' = 1 /\ caller' = "catch" /\ UNCHANGED <<own, entry, outcome>>
  <2>1. Rest
    BY <1>1, <1>2, <1>11
  <2>2. Control'
    BY <1>2, <1>6, <1>7, <1>11, SitesOf DEF Control, Committing, RecoverySites
  <2>3. StagingStands' /\ InstallStands' /\ SuccessStands' /\ CommitStands'
    BY <1>11 DEF StagingStands, InstallStands, SuccessStands, CommitStands, InstallPcs
  <2> QED
    BY <1>3, <2>1, <2>2, <2>3 DEF IInv
<1>12. CASE /\ site \notin {"commit", "warned", "retry", "undo"}
            /\ site' = "none" /\ pc' = "scan" /\ at' = 1 /\ rec' = NoJournal /\ entry' = None
            /\ UNCHANGED <<mem, own, caller, outcome>>
  <2>1. Rest
    BY <1>1, <1>2, <1>12
  <2>2. ~Committing
    BY <1>4, <1>12 DEF Committing, InstallSites
  <2>3. Control'
    <3>1. caller # "none"
      BY <1>2, <2>2 DEF Control
    <3> QED
      BY <1>2, <1>6, <1>7, <1>12, <3>1, SitesOf DEF Control, Committing, RecoverySites
  <2>4. CommitStands'
    <3> SUFFICES ASSUME caller = "commit" PROVE CommitStands'
      BY <1>12 DEF CommitStands
    <3>1. own \in Restore /\ source' = source /\ entry' = None /\ site' = "none"
      BY <1>2, <1>12 DEF Control, scene
    <3>2. disk'[own] = disk[own] \/ (Current = own /\ entry = own /\ disk'[own] = rec)
      BY <1>4, <2>2, <3>1 DEF Working
    <3>3. /\ faults >= 1 /\ mem.phase = "complete" /\ disk[own].phase \notin {"none", "directory"}
          /\ faults < 2 => /\ Live = source[own] /\ target = mem.expected
                           /\ Rewritten(disk[own]) /\ (entry = own => Rewritten(rec))
      <4>1. site # "none"
        BY <1>4 DEF InstallSites
      <4> QED
        BY <4>1 DEF IInv, CommitStands
    <3>4. disk'[own].phase \notin {"none", "directory"}
      BY <1>5, <3>2, <3>3 DEF Terminal
    <3>5. faults' < 2 => Rewritten(disk[own])'
      BY <1>8, <1>12, <3>2, <3>3 DEF Rewritten
    <3>6. faults' >= 1
      BY <1>2, <3>3
    <3> QED
      BY <1>8, <1>12, <3>1, <3>3, <3>4, <3>5, <3>6 DEF CommitStands
  <2>5. StagingStands' /\ InstallStands' /\ SuccessStands'
    BY <1>12 DEF StagingStands, InstallStands, SuccessStands, InstallPcs
  <2> QED
    BY <1>3, <2>1, <2>3, <2>4, <2>5 DEF IInv
<1> QED
  <2>1. CASE site \in {"commit", "warned"}
    BY <1>9, <2>1 DEF Return
  <2>2. CASE site = "retry"
    BY <1>10, <2>2 DEF Return
  <2>3. CASE site = "undo"
    BY <1>11, <2>3 DEF Return, Scan, Goto
  <2>4. CASE site \notin {"commit", "warned", "retry", "undo"}
    BY <1>12, <2>4 DEF Return, Goto
  <2> QED
    BY <2>1, <2>2, <2>3, <2>4

LEMMA EmptyIsStuff == Empty \in [Component -> Stuff]
BY DEF Empty, Stuff

LEMMA CleanArtifactsKeeps ==
  ASSUME IInv, CleanArtifacts
  PROVE  IInv'
<1>1. /\ pc = "clean" /\ pc' = "discard"
      /\ candidate' = WithoutArtifacts(candidate) /\ rollback' = WithoutArtifacts(rollback)
      /\ UNCHANGED <<target, desired, safety, scene, disk, limits,
                     mem, rec, own, entry, site, caller, at, outcome>>
  BY DEF CleanArtifacts
<1>2. /\ candidate' \in [Restore -> [Component -> Stuff]]
      /\ rollback' \in [Restore -> [Component -> Stuff]]
  BY <1>1, EmptyIsStuff DEF IInv, TypeOK, WithoutArtifacts
<1>3. CopiesAreWhole' /\ JournalsStand' /\ TornIsRecoverable'
  BY <1>1, FilesFrame DEF scene
<1>4. TypeOK'
  BY <1>1, <1>2 DEF IInv, TypeOK, scene, limits
<1>5. site \in Sites("discard") /\ site \in InstallSites \union {"warned", "abandon", "tidy"}
  BY <1>1, SitesOf DEF IInv, Control
<1>6. Control'
  <2>1. own # None => \A x \in Restore \ {own} : ~IsOpen(x)'
    BY <1>1 DEF IInv, Control, IsOpen
  <2> QED
    BY <1>1, <1>5, <2>1, ControlFrame DEF IInv, scene
<1>7. CommitStands'
  BY <1>1, CommitFrame DEF IInv, scene, limits
<1>8. Working' = Working /\ Current' = Current /\ Live' = Live
  BY <1>1 DEF Working, Current, Committing, Live
<1>9. InstallStands' /\ SuccessStands'
  BY <1>1, <1>8 DEF IInv, InstallStands, SuccessStands, InstallPcs, scene, limits
<1>10. StagingStands'
  BY <1>1, <1>5 DEF StagingStands, InstallSites
<1> QED
  BY <1>3, <1>4, <1>6, <1>7, <1>9, <1>10 DEF IInv

LEMMA DiscardCopiesKeeps ==
  ASSUME IInv, DiscardCopies
  PROVE  IInv'
<1>1. /\ pc = "discard" /\ Return
      /\ desired' = [desired EXCEPT ![Current] = None] /\ safety' = [safety EXCEPT ![Current] = None]
      /\ disk' = [disk EXCEPT ![Current] = Working]
      /\ UNCHANGED <<target, candidate, rollback, scene, limits>>
  BY DEF DiscardCopies
<1>2. /\ Current \in Restore /\ Working \in AnyJournal /\ faults \in 0 .. MaxFaults /\ faults \in Nat
      /\ desired \in [Restore -> Data \union {None}] /\ safety \in [Restore -> Data \union {None}]
      /\ disk \in [Restore -> AnyJournal]
      /\ candidate \in [Restore -> [Component -> Stuff]] /\ rollback \in [Restore -> [Component -> Stuff]]
  BY <1>1, CurrentIs, LocalRestoreAssumption DEF IInv, TypeOK
<1>3. Working.phase \in Terminal /\ disk[Current].phase \in Terminal
  BY <1>1 DEF IInv, InstallStands
<1>4. /\ desired' \in [Restore -> Data \union {None}] /\ safety' \in [Restore -> Data \union {None}]
      /\ disk' \in [Restore -> AnyJournal]
  BY <1>1, <1>2
<1>5. /\ disk'[Current] = Working /\ desired'[Current] = None /\ safety'[Current] = None
      /\ \A y \in Restore \ {Current} : disk'[y] = disk[y] /\ desired'[y] = desired[y] /\ safety'[y] = safety[y]
  BY <1>1, <1>2
<1>6. CopiesAreWhole'
  BY <1>1, <1>5 DEF IInv, CopiesAreWhole, scene
<1>7. JournalsStand'
  BY <1>1, <1>3, <1>5 DEF IInv, JournalsStand, Ready, Meant, scene, Terminal
<1>8. TornIsRecoverable'
  <2> SUFFICES ASSUME ~Validates
               PROVE  \E y \in Restore : Halfway(disk'[y]) /\ safety'[y] \in whole'
    BY <1>1 DEF TornIsRecoverable, Halfway, Validates, Live, scene
  <2>1. PICK y \in Restore : Halfway(disk[y]) /\ safety[y] \in whole
    BY TornMeansHalfway
  <2>2. y # Current
    BY <1>3, <2>1 DEF Halfway, Terminal
  <2> QED
    BY <1>1, <1>5, <2>1, <2>2 DEF scene
<1>9. faults' = faults /\ UNCHANGED <<target, scene, writes, crashes>>
  BY <1>1 DEF limits
<1> QED
  BY <1>1, <1>2, <1>4, <1>5, <1>6, <1>7, <1>8, <1>9, ReturnKeeps

LEMMA CleanFailsKeeps ==
  ASSUME IInv, CleanFails
  PROVE  IInv'
<1>1. /\ pc \in {"clean", "discard"} /\ Return /\ faults < MaxFaults /\ faults' = faults + 1
      /\ disk' \in {disk, [disk EXCEPT ![Current] = Working]}
      /\ UNCHANGED <<files, scene, writes, crashes>>
  BY DEF CleanFails
<1>2. /\ Current \in Restore /\ Working \in AnyJournal /\ faults \in 0 .. MaxFaults /\ faults \in Nat
      /\ MaxFaults \in Nat /\ disk \in [Restore -> AnyJournal]
      /\ desired \in [Restore -> Data \union {None}] /\ safety \in [Restore -> Data \union {None}]
      /\ candidate \in [Restore -> [Component -> Stuff]] /\ rollback \in [Restore -> [Component -> Stuff]]
  BY <1>1, CurrentIs, LocalRestoreAssumption DEF IInv, TypeOK
<1>3. Working.phase \in Terminal /\ disk[Current].phase \in Terminal
  BY <1>1 DEF IInv, InstallStands
<1>4. UNCHANGED <<target, candidate, rollback, desired, safety, source, whole>>
  BY <1>1 DEF files, scene
<1>5. disk' \in [Restore -> AnyJournal] /\ JournalsStand' /\ TornIsRecoverable'
  <2>1. CASE disk' = disk
    BY <1>2, <1>4, <2>1, FilesFrame
  <2>2. CASE disk' = [disk EXCEPT ![Current] = Working]
    BY <1>2, <1>3, <1>4, <2>2, JournalsFrame, TornFrame DEF Halfway, Terminal
  <2> QED
    BY <1>1, <2>1, <2>2
<1>6. /\ disk'[Current] \in {disk[Current], Working}
      /\ \A y \in Restore \ {Current} : disk'[y] = disk[y]
  BY <1>1, <1>2
<1>7. CopiesAreWhole'
  BY <1>4, CopiesFrame DEF IInv
<1>8. faults' \in 0 .. MaxFaults /\ faults' >= faults
  BY <1>1, <1>2
<1> QED
  BY <1>1, <1>2, <1>4, <1>5, <1>6, <1>7, <1>8, ReturnKeeps

LEMMA WarnKeeps ==
  ASSUME IInv, Warn
  PROVE  IInv'
<1>1. /\ pc = "warn" /\ site' = "warned" /\ pc' = "clean" /\ at' = 1
      /\ \/ disk' = [disk EXCEPT ![own] = mem] /\ UNCHANGED faults
         \/ faults < MaxFaults /\ faults' = faults + 1 /\ UNCHANGED disk
      /\ UNCHANGED <<files, scene, writes, crashes, mem, rec, own, entry, caller, outcome>>
  BY DEF Warn, Goto
<1>2. /\ site = "retry" /\ own \in Restore /\ own # None /\ caller = "none" /\ Control
      /\ mem \in AnyJournal /\ disk \in [Restore -> AnyJournal]
  BY <1>1, SitesOf DEF IInv, Control, Committing, TypeOK
<1>3. faults \in Nat /\ faults' \in 0 .. MaxFaults /\ faults' \in Nat /\ faults' >= faults
  <2>1. faults \in 0 .. MaxFaults /\ MaxFaults \in Nat
    BY LocalRestoreAssumption DEF IInv, TypeOK
  <2> QED
    BY <1>1, <2>1
<1>4. mem.phase \in Terminal /\ disk[own].phase \in Terminal
  BY <1>1 DEF IInv, InstallStands
<1>5. UNCHANGED <<target, candidate, rollback, desired, safety, source, whole>>
  BY <1>1 DEF files, scene
<1>6. disk' \in [Restore -> AnyJournal] /\ JournalsStand' /\ TornIsRecoverable'
  <2>1. CASE disk' = disk
    BY <1>2, <1>5, <2>1, FilesFrame
  <2>2. CASE disk' = [disk EXCEPT ![own] = mem]
    BY <1>2, <1>4, <1>5, <2>2, JournalsFrame, TornFrame DEF Halfway, Terminal
  <2> QED
    BY <1>1, <2>1, <2>2
<1>7. disk'[own].phase \in Terminal /\ \A y \in Restore \ {own} : disk'[y] = disk[y]
  BY <1>1, <1>2, <1>4
<1>8. TypeOK'
  BY <1>1, <1>3, <1>6 DEF IInv, TypeOK, files, scene
<1>9. CopiesAreWhole'
  BY <1>5, CopiesFrame DEF IInv
<1>10. Control'
  BY <1>1, <1>2, <1>5, <1>7, SitesOf DEF Control, Committing, RecoverySites, IsOpen
<1>11. InstallStands'
  BY <1>1, <1>4, <1>7 DEF InstallStands, InstallPcs, Working, Current, Committing
<1>12. SuccessStands'
  <2>1. faults' < 2 => Live = source[own]
    BY <1>1, <1>3 DEF IInv, SuccessStands
  <2> QED
    BY <1>1, <1>5, <2>1 DEF SuccessStands, Live
<1>13. StagingStands' /\ CommitStands'
  BY <1>1, <1>2 DEF StagingStands, CommitStands
<1> QED
  BY <1>6, <1>8, <1>9, <1>10, <1>11, <1>12, <1>13 DEF IInv


-----------------------------------------------------------------------------
(* Recovery                                                                 *)

LEMMA ForgetDirectoryKeeps ==
  ASSUME IInv, NEW x \in Restore, ForgetDirectory(x)
  PROVE  IInv'
<1>1. /\ pc = "scan" /\ disk[x].phase = "directory" /\ disk' = [disk EXCEPT ![x] = NoJournal]
      /\ UNCHANGED <<files, scene, limits, command, outcome>>
  BY DEF ForgetDirectory
<1>2. disk \in [Restore -> AnyJournal] /\ Control /\ site = "none" /\ own \in Restore \union {None}
  BY <1>1, SitesOf DEF IInv, TypeOK, Control
<1>3. NoJournal \in AnyJournal /\ NoJournal.phase = "none"
  BY DEF NoJournal, Journal, AnyJournal, Phase
<1>4. UNCHANGED <<target, candidate, rollback, desired, safety, source, backups, whole, writes, crashes, faults>>
      /\ UNCHANGED <<mem, rec, own, entry, pc, site, caller, at, outcome>>
  BY <1>1 DEF files, scene, limits, command
<1>5. JournalsStand' /\ TornIsRecoverable' /\ disk' \in [Restore -> AnyJournal]
  BY <1>1, <1>3, <1>4, JournalsFrame, TornFrame DEF Halfway
<1>6. CopiesAreWhole'
  BY <1>4, CopiesFrame DEF IInv
<1>7. TypeOK'
  BY <1>4, <1>5 DEF IInv, TypeOK
<1>8. disk'[x].phase = "none" /\ \A y \in Restore \ {x} : disk'[y] = disk[y]
  BY <1>1, <1>2, <1>3
<1>9. Control'
  <2>1. own # None => \A y \in Restore \ {own} : ~IsOpen(y)'
    BY <1>2, <1>8 DEF Control, IsOpen
  <2> QED
    BY <1>1, <1>2, <1>4, <2>1, SitesOf DEF Control, Committing, RecoverySites
<1>10. CommitStands'
  <2> SUFFICES ASSUME caller = "commit" PROVE CommitStands'
    BY <1>4 DEF CommitStands
  <2>1. own \in Restore /\ own # x
    BY <1>1, <1>2 DEF IInv, Control, CommitStands
  <2> QED
    BY <1>4, <1>8, <2>1 DEF IInv, CommitStands, Rewritten, Live
<1>11. StagingStands' /\ InstallStands' /\ SuccessStands'
  BY <1>1, <1>2, <1>4 DEF StagingStands, InstallStands, SuccessStands, InstallPcs
<1> QED
  BY <1>5, <1>6, <1>7, <1>9, <1>10, <1>11 DEF IInv

LEMMA ReadJournalKeeps ==
  ASSUME IInv, NEW x \in Restore, ReadJournal(x)
  PROVE  IInv'
<1> DEFINE j == disk[x]
<1>1. /\ pc = "scan" /\ rec' = j /\ entry' = x /\ at' = 1
      /\ \/ Leftovers(x) /\ site' = "tidy" /\ pc' = "clean"
         \/ j.phase = "live-staged" /\ j.mode = "rollback" /\ site' = "resume" /\ pc' = "begin"
         \/ /\ j.phase \in {"preparing", "prepared", "live-staged"} /\ j.mode = "forward"
            /\ site' = "abandon" /\ pc' = "abandon"
         \/ j.phase \in {"installing", "installed"} /\ site' = "reinstall" /\ pc' = "begin"
      /\ UNCHANGED <<files, scene, disk, limits, mem, own, caller, outcome>>
  BY DEF ReadJournal, Goto
<1>2. disk \in [Restore -> AnyJournal] /\ Control /\ site = "none" /\ x # None
      /\ own \in Restore \union {None}
  BY <1>1, SitesOf, NotNone DEF IInv, TypeOK, Control
<1>3. CopiesAreWhole' /\ JournalsStand' /\ TornIsRecoverable'
  BY <1>1, FilesFrame DEF files, scene
<1>4. TypeOK'
  BY <1>1, <1>2 DEF IInv, TypeOK, files, scene, limits
<1>5. caller # "none"
  BY <1>1, <1>2 DEF Control, Committing
<1>6. own # None /\ site' # "tidy" => x = own
  BY <1>1, <1>2 DEF Control, IsOpen, Terminal
<1>7. site' \in {"tidy", "resume", "abandon", "reinstall"} /\ site' \in Sites(pc')
      /\ pc' \in {"clean", "begin", "abandon"}
  BY <1>1, SitesOf DEF InstallPcs, InstallSites
<1>8. Sites(pc)' = Sites(pc') /\ ~Committing' /\ Current' = x /\ Working' = j /\ disk' = disk
      /\ source' = source /\ safety' = safety
  BY <1>1, <1>7 DEF Sites, UndoSites, InstallPcs, InstallSites, Committing, Current, Working, files, scene
<1>9. Control'
  BY <1>1, <1>2, <1>5, <1>6, <1>7, <1>8 DEF Control, RecoverySites, IsOpen
<1>10. InstallStands'
  <2>1. pc' = "begin" => Ready(x, j)
    BY <1>1 DEF IInv, JournalsStand
  <2>2. pc' = "begin" => Ready(Current, Working)'
    BY <1>8, <2>1 DEF Ready, Meant
  <2>3. pc' = "clean" => j.phase \in Terminal
    BY <1>1 DEF Leftovers
  <2> QED
    BY <1>7, <1>8, <2>2, <2>3 DEF InstallStands, InstallPcs
<1>11. StagingStands'
  BY <1>1, <1>7, <1>8 DEF StagingStands
<1>12. CommitStands'
  <2> SUFFICES ASSUME caller = "commit" PROVE CommitStands'
    BY <1>1 DEF CommitStands
  <2>1. /\ faults >= 1 /\ mem.phase = "complete" /\ disk[own].phase \notin {"none", "directory"}
        /\ own # None
        /\ faults < 2 => /\ Live = source[own] /\ target = mem.expected /\ Rewritten(disk[own])
    BY <1>2 DEF IInv, CommitStands, Control
  <2>2. faults < 2 => site' \in {"tidy", "reinstall"}
    BY <1>1, <1>6, <1>7, <2>1 DEF Rewritten
  <2>3. x = own => (Rewritten(disk[own]) => Rewritten(rec)')
    BY <1>1 DEF Rewritten
  <2>4. (Rewritten(disk[own]))' <=> Rewritten(disk[own])
    BY <1>1 DEF Rewritten
  <2>5. Live' = Live /\ UNCHANGED <<target, source, faults, disk, mem, own>> /\ pc' # "moveIn"
    BY <1>1, <1>7 DEF Live, files, scene, limits
  <2> QED
    BY <1>1, <2>1, <2>2, <2>3, <2>4, <2>5 DEF CommitStands
<1>13. SuccessStands'
  BY <1>7 DEF SuccessStands
<1> QED
  BY <1>3, <1>4, <1>9, <1>10, <1>11, <1>12, <1>13 DEF IInv

LEMMA AbandonKeeps ==
  ASSUME IInv, Abandon
  PROVE  IInv'
<1> DEFINE j == [rec EXCEPT !.phase = "rolled-back"]
<1>1. /\ pc = "abandon"
      /\ candidate' = WithoutArtifacts(candidate) /\ rollback' = WithoutArtifacts(rollback)
      /\ \/ Write(j) /\ pc' = "clean" /\ UNCHANGED <<own, entry, site, caller, at, outcome>>
         \/ WriteFails(j)
      /\ UNCHANGED <<target, desired, safety, scene, writes, crashes>>
  BY DEF Abandon
<1>2. /\ site = "abandon" /\ ~Committing /\ Current = entry /\ entry \in Restore /\ entry # None
      /\ own # None => Current = own
      /\ rec \in AnyJournal
  <2>1. site = "abandon"
    BY <1>1, SitesOf DEF IInv, Control
  <2> QED
    BY <1>1, <2>1, CurrentIs, NotNone DEF Committing, IInv, TypeOK
<1>3. j \in AnyJournal /\ j.phase = "rolled-back"
  <2>1. "rolled-back" \in Phase
    BY DEF Phase, Terminal
  <2> QED
    BY <1>2, <2>1, NextPhase
<1>4. disk[entry] = rec /\ ~Halfway(disk[entry]) /\ rec.phase \in {"preparing", "prepared", "live-staged"}
  BY <1>1 DEF IInv, StagingStands, Halfway
<1>5. /\ candidate' \in [Restore -> [Component -> Stuff]]
      /\ rollback' \in [Restore -> [Component -> Stuff]]
  BY <1>1, EmptyIsStuff DEF IInv, TypeOK, WithoutArtifacts
<1> HIDE DEF j
<1>6. CASE WriteFails(j)
  BY <1>1, <1>2, <1>3, <1>4, <1>5, <1>6, WriteFailsKeeps
<1>7. CASE Write(j) /\ pc' = "clean" /\ UNCHANGED <<own, entry, site, caller, at, outcome>>
  <2>1. /\ CopiesAreWhole' /\ JournalsStand' /\ TornIsRecoverable'
        /\ disk' \in [Restore -> AnyJournal] /\ mem' \in AnyJournal /\ rec' \in AnyJournal
        /\ faults' = faults /\ disk'[Current] = j
        /\ \A y \in Restore \ {Current} : disk'[y] = disk[y]
        /\ own # None => \A y \in Restore \ {own} : ~IsOpen(y)'
        /\ mem' = IF Committing THEN j ELSE mem
        /\ rec' = IF Committing THEN rec ELSE j
    <3>1. UNCHANGED <<target, safety, source, desired, whole>>
      BY <1>1 DEF scene
    <3> QED
      BY <1>2, <1>3, <1>4, <1>7, <3>1, WriteStands
  <2>2. TypeOK'
    BY <1>1, <1>5, <1>7, <2>1 DEF IInv, TypeOK, scene
  <2>3. Control'
    BY <1>1, <1>2, <1>7, <2>1, SitesOf, ControlFrame DEF IInv, scene
  <2>4. Working' = j /\ Current' = Current
    BY <1>2, <1>7, <2>1 DEF Working, Current, Committing
  <2>5. InstallStands'
    BY <1>3, <1>7, <2>1, <2>4 DEF InstallStands, InstallPcs, Terminal
  <2>6. CommitStands'
    <3> SUFFICES ASSUME caller = "commit"
                 PROVE  /\ faults' >= 1 /\ mem'.phase = "complete"
                        /\ disk'[own].phase \notin {"none", "directory"} /\ ~(faults' < 2)
      BY <1>7 DEF CommitStands
    <3>1. faults >= 1 /\ mem.phase = "complete" /\ ~(faults < 2) /\ own # None
      BY <1>2 DEF IInv, CommitStands, Control
    <3> QED
      BY <1>2, <1>3, <2>1, <3>1
  <2>7. StagingStands' /\ SuccessStands'
    BY <1>2, <1>7 DEF StagingStands, SuccessStands
  <2> QED
    BY <2>1, <2>2, <2>3, <2>5, <2>6, <2>7 DEF IInv
<1> QED
  BY <1>1, <1>6, <1>7

LEMMA ScanEndsKeeps ==
  ASSUME IInv, ScanEnds
  PROVE  IInv'
<1>1. /\ pc = "scan" /\ \A x \in Restore : ~IsOpen(x)
      /\ UNCHANGED <<files, scene, disk, limits>>
  BY DEF ScanEnds
<1>2. /\ Control /\ site = "none" /\ caller \in {"start", "commit", "catch"} /\ TypeOK
      /\ own \in Restore \union {None}
  BY <1>1, SitesOf DEF IInv, TypeOK, Control, Committing
<1>3. CopiesAreWhole' /\ JournalsStand' /\ TornIsRecoverable'
  BY <1>1, FilesFrame DEF files, scene
<1>4. \A x \in Restore : ~IsOpen(x)'
  BY <1>1 DEF IsOpen
<1>5. UNCHANGED <<target, source, disk, faults>> /\ Live' = Live
  BY <1>1 DEF files, scene, limits, Live
<1>6. CASE /\ caller = "start" /\ pc' = "ready"
           /\ UNCHANGED <<mem, rec, own, entry, site, caller, at, outcome>>
  <2>1. TypeOK'
    BY <1>1, <1>6 DEF IInv, TypeOK, files, scene, limits
  <2>2. Control'
    BY <1>2, <1>4, <1>5, <1>6, SitesOf DEF Control, Committing, RecoverySites
  <2>3. StagingStands' /\ InstallStands' /\ SuccessStands' /\ CommitStands'
    BY <1>2, <1>6 DEF StagingStands, InstallStands, SuccessStands, CommitStands, InstallPcs
  <2> QED
    BY <1>3, <2>1, <2>2, <2>3 DEF IInv
<1>7. CASE /\ caller = "commit" /\ site' = "retry" /\ pc' = "warn" /\ at' = 1 /\ caller' = "none"
           /\ UNCHANGED <<mem, rec, own, entry, outcome>>
  <2>1. TypeOK'
    BY <1>1, <1>7 DEF IInv, TypeOK, files, scene, limits
  <2>2. own \in Restore /\ own # None /\ source[own] # None
    BY <1>2, <1>7 DEF Control
  <2>3. Control'
    BY <1>4, <1>5, <1>7, <2>2, SitesOf DEF Control, Committing, RecoverySites
  <2>4. InstallStands'
    <3>1. mem.phase \in Terminal
      BY <1>7 DEF IInv, CommitStands, Terminal
    <3>2. disk[own].phase \in Terminal
      BY <1>1, <1>7, <2>2 DEF IInv, CommitStands, IsOpen
    <3> QED
      BY <1>5, <1>7, <3>1, <3>2 DEF InstallStands, InstallPcs
  <2>5. SuccessStands'
    BY <1>5, <1>7 DEF IInv, CommitStands, SuccessStands
  <2>6. StagingStands' /\ CommitStands'
    BY <1>7 DEF StagingStands, CommitStands
  <2> QED
    BY <1>3, <2>1, <2>3, <2>4, <2>5, <2>6 DEF IInv
<1>8. CASE EndCommand /\ Report("failed")
  <2>1. TypeOK'
    BY <1>1, <1>2, <1>8, IdleStands DEF TypeOK, files, scene, limits, Report
  <2> QED
    BY <1>3, <1>8, <2>1, IdleStands DEF IInv
<1> QED
  <2>1. CASE caller = "start"
    BY <1>6, <2>1 DEF ScanEnds
  <2>2. CASE caller = "commit"
    BY <1>7, <2>2 DEF ScanEnds, Goto
  <2>3. CASE caller = "catch"
    BY <1>8, <2>3 DEF ScanEnds
  <2> QED
    BY <1>2, <2>1, <2>2, <2>3

-----------------------------------------------------------------------------
(* Failures                                                                 *)

LEMMA PartsAreStuff ==
  ASSUME IInv, NEW components, MayLeavePart(components)
  PROVE  candidate' \in [Restore -> [Component -> Stuff]]
<1>1. candidate \in [Restore -> [Component -> Stuff]] /\ Partial \in Stuff
  BY DEF IInv, TypeOK, Stuff
<1>2. \/ UNCHANGED candidate
      \/ candidate' = [candidate EXCEPT ![Current][CopyOrder[at]] = Partial]
  BY DEF MayLeavePart
<1> QED
  BY <1>1, <1>2

LEMMA IOFailsKeeps ==
  ASSUME IInv, IOFails
  PROVE  IInv'
<1>1. /\ pc \in {"scan", "desired", "safety", "undo", "clear", "copy", "stage", "install", "moveIn",
                 "drop", "abandon"}
      /\ faults < MaxFaults /\ faults' = faults + 1
      /\ MayLeavePart({"dataset-objects"}) /\ Raise(Working)
      /\ UNCHANGED <<target, rollback, desired, safety, scene, disk, writes, crashes>>
  BY DEF IOFails
<1>2. faults \in Nat /\ faults' \in 0 .. MaxFaults
  <2>1. faults \in 0 .. MaxFaults /\ MaxFaults \in Nat
    BY LocalRestoreAssumption DEF IInv, TypeOK
  <2> QED
    BY <1>1, <2>1
<1>3. caller = "commit" => faults' >= 2
  <2>1. caller = "commit" => faults >= 1
    BY DEF IInv, CommitStands
  <2> QED
    BY <1>1, <1>2, <2>1
<1>4. site = "commit" => pc \in InstallPcs \ {"begin"}
  <2>1. site \in Sites(pc)
    BY DEF IInv, Control
  <2>2. \A p \in {"scan", "desired", "safety", "undo", "clear", "copy", "stage", "abandon"} :
          "commit" \notin Sites(p)
    BY SitesOf DEF UndoSites
  <2>3. \A p \in {"install", "moveIn", "drop"} : p \in InstallPcs \ {"begin"}
    BY DEF InstallPcs
  <2> QED
    BY <1>1, <2>1, <2>2, <2>3
<1>5. TornIsRecoverable'
  BY <1>1, FilesFrame DEF scene
<1>6. /\ candidate' \in [Restore -> [Component -> Stuff]] /\ target' \in [Component -> Stuff]
      /\ rollback' \in [Restore -> [Component -> Stuff]]
  BY <1>1, PartsAreStuff DEF IInv, TypeOK
<1> QED
  BY <1>1, <1>2, <1>3, <1>4, <1>5, <1>6, RaiseWorking

LEMMA CrashKeeps ==
  ASSUME IInv, Crash
  PROVE  IInv'
<1>1. /\ crashes < MaxCrashes /\ crashes' = crashes + 1 /\ MayLeavePart(Component) /\ EndCommand
      /\ UNCHANGED <<target, rollback, desired, safety, scene, disk, writes, faults, outcome>>
  BY DEF Crash
<1>2. crashes' \in 0 .. MaxCrashes
  <2>1. crashes \in 0 .. MaxCrashes /\ MaxCrashes \in Nat
    BY LocalRestoreAssumption DEF IInv, TypeOK
  <2> QED
    BY <1>1, <2>1
<1>3. candidate' \in [Restore -> [Component -> Stuff]]
  BY <1>1, PartsAreStuff
<1>4. TypeOK'
  BY <1>1, <1>2, <1>3, IdleStands DEF IInv, TypeOK, scene
<1>5. CopiesAreWhole' /\ JournalsStand' /\ TornIsRecoverable'
  BY <1>1, FilesFrame DEF scene
<1> QED
  BY <1>1, <1>4, <1>5, IdleStands DEF IInv


-----------------------------------------------------------------------------
(* The invariant                                                            *)

LEMMA InitEstablishes == Init => IInv
<1> DEFINE first == [c \in Component |-> 0]
<1> SUFFICES ASSUME Init PROVE IInv
  OBVIOUS
<1>1. /\ first \in Data /\ 0 \in 0 .. MaxWrites /\ 0 \in 0 .. MaxCrashes /\ 0 \in 0 .. MaxFaults
      /\ <<0, "a">> \in Content
  BY LocalRestoreAssumption DEF Data, Generation, Content
<1>2. Live = first
  BY <1>1 DEF Init, Live
<1>3. NoJournal \in AnyJournal /\ NoJournal.phase = "none"
  BY DEF NoJournal, Journal, AnyJournal, Phase
<1>4. TypeOK
  <2>1. Empty \in [Component -> Stuff]
    BY EmptyIsStuff
  <2>2. target \in [Component -> Stuff]
    BY <1>1 DEF Init, Stuff
  <2> QED
    BY <1>1, <1>3, <2>1, <2>2 DEF Init, TypeOK
<1>5. Control
  BY <1>3, SitesOf DEF Init, Control, Committing, RecoverySites
<1>6. CopiesAreWhole /\ JournalsStand
  BY <1>3 DEF Init, CopiesAreWhole, JournalsStand
<1>7. TornIsRecoverable
  BY <1>2 DEF Init, TornIsRecoverable, Validates
<1>8. StagingStands /\ InstallStands /\ SuccessStands /\ CommitStands
  BY DEF Init, StagingStands, InstallStands, SuccessStands, CommitStands, InstallPcs
<1> QED
  BY <1>4, <1>5, <1>6, <1>7, <1>8 DEF IInv

LEMMA StepKeeps == IInv /\ [Next]_vars => IInv'
<1> SUFFICES ASSUME IInv, [Next]_vars PROVE IInv'
  OBVIOUS
<1>1. CASE AppWrite
  BY <1>1, AppWriteKeeps
<1>2. CASE StartCommand
  BY <1>2, StartCommandKeeps
<1>3. CASE Command
  <2>1. ASSUME NEW x \in Restore, NEW b \in backups, OpenDirectory(x, b) PROVE IInv'
    BY <2>1, OpenDirectoryKeeps
  <2>2. ASSUME NEW x \in Restore, ForgetDirectory(x) \/ ReadJournal(x) PROVE IInv'
    BY <2>2, ForgetDirectoryKeeps, ReadJournalKeeps
  <2> QED
    BY <1>3, <2>1, <2>2, EndPreviewKeeps, TakeBackupKeeps, OpenJournalKeeps, CopyDesiredKeeps,
       CopySafetyKeeps, PrepareKeeps, VerifySafetyKeeps, ClearStageKeeps, CopyCandidateKeeps,
       StageKeeps, BeginInstallKeeps, KeepComponentKeeps, CandidateMissingKeeps, MoveAsideKeeps,
       MoveInKeeps, FinishInstallKeeps, DropRollbackKeeps, SettleKeeps, CleanArtifactsKeeps,
       DiscardCopiesKeeps, CleanFailsKeeps, WarnKeeps, AbandonKeeps, ScanEndsKeeps
       DEF Command
<1>4. CASE IOFails
  BY <1>4, IOFailsKeeps
<1>5. CASE Crash
  BY <1>5, CrashKeeps
<1>6. CASE UNCHANGED vars
  <2>1. /\ UNCHANGED <<target, candidate, rollback, desired, safety, source, backups, whole, disk>>
        /\ UNCHANGED <<writes, crashes, faults, mem, rec, own, entry, pc, site, caller, at, outcome>>
    BY <1>6 DEF vars, files, scene, limits, command
  <2>2. TypeOK' /\ CopiesAreWhole' /\ JournalsStand' /\ TornIsRecoverable'
    BY <2>1, FilesFrame DEF IInv, TypeOK
  <2>3. Control'
    BY <2>1 DEF IInv, Control, Sites, UndoSites, InstallPcs, InstallSites, RecoverySites, Committing, IsOpen
  <2>4. /\ Committing' = Committing /\ Current' = Current /\ Working' = Working /\ Live' = Live
        /\ StageSource' = StageSource
    BY <2>1 DEF Committing, Current, Working, Live, StageSource, UndoSites
  <2>5. StagingStands'
    BY <2>1, <2>4 DEF IInv, StagingStands, Copied
  <2>6. InstallStands'
    BY <2>1, <2>4 DEF IInv, InstallStands, Installed, Ready, Meant
  <2>7. SuccessStands' /\ CommitStands'
    BY <2>1, <2>4 DEF IInv, SuccessStands, CommitStands, Rewritten
  <2> QED
    BY <2>2, <2>3, <2>5, <2>6, <2>7 DEF IInv
<1> QED
  BY <1>1, <1>2, <1>3, <1>4, <1>5, <1>6 DEF Next

\* The whole of the invariant holds in every state of every run, in which a command
\* may fail, crash and be repeated at any step.
THEOREM RestoreInvariant == Spec => []IInv
<1>1. Init => IInv
  BY InitEstablishes
<1>2. IInv /\ [Next]_vars => IInv'
  BY StepKeeps
<1> QED
  BY <1>1, <1>2, PTL DEF Spec

\* Live data that are not some the application has committed have a journal on disk
\* that makes the next command finish or undo what is halfway, and the safety copy
\* it would undo it from is whole.
THEOREM TornCanBeRecovered == Spec => []TornIsRecoverable
<1>1. IInv => TornIsRecoverable
  BY DEF IInv
<1> QED
  BY <1>1, RestoreInvariant, PTL

-----------------------------------------------------------------------------
(* What journals and reports say                                            *)

\* What one step may say of restore x.
EndsAsReported(x) ==
  /\ IsOpen(x) /\ disk'[x].phase = "complete" => Live = source[x]
  /\ IsOpen(x) /\ disk'[x].phase = "rolled-back" /\ disk[x].mode = "rollback" => Live = safety[x]
  /\ outcome'[x] = "ok" /\ outcome[x] # "ok" /\ faults < 2 => Live = source[x]

\* A command that fails reports no success.
LEMMA RaiseReports ==
  ASSUME IInv, NEW j, Raise(j), NEW x \in Restore, outcome'[x] = "ok"
  PROVE  outcome[x] = "ok"
BY RaiseCases DEF Report, IInv, TypeOK

\* A step that leaves the journals on disk as they are, or only writes some that end
\* nothing, and reports no success.
LEMMA SaysNothing ==
  ASSUME NEW x \in Restore, IsOpen(x) /\ disk'[x] # disk[x] => disk'[x].phase \notin Terminal,
         outcome'[x] = "ok" => outcome[x] = "ok"
  PROVE  EndsAsReported(x)
BY DEF EndsAsReported, IsOpen, Terminal

\* The journal that is worked on becomes j, or cannot be written.
LEMMA WriteSays ==
  ASSUME IInv, NEW j, (Write(j) /\ UNCHANGED outcome) \/ WriteFails(j), NEW x \in Restore
  PROVE  /\ disk'[x] # disk[x] => x = Current /\ disk'[x] = j
         /\ outcome'[x] = "ok" => outcome[x] = "ok"
<1>1. disk \in [Restore -> AnyJournal]
  BY DEF IInv, TypeOK
<1>2. disk' \in {disk, [disk EXCEPT ![Current] = j]}
  BY DEF Write, WriteFails
<1>3. \A y \in Restore : disk'[y] # disk[y] => y = Current /\ disk'[y] = j
  BY <1>1, <1>2
<1>4. WriteFails(j) /\ outcome'[x] = "ok" => outcome[x] = "ok"
  BY RaiseReports DEF WriteFails
<1> QED
  BY <1>3, <1>4

\* Where a command reports success the backup is installed.
LEMMA ReturnSays ==
  ASSUME IInv, pc \in {"clean", "discard"}, Return, NEW x \in Restore,
         disk' \in {disk, [disk EXCEPT ![Current] = Working]}
  PROVE  EndsAsReported(x)
<1>1. disk[Current].phase \in Terminal /\ disk \in [Restore -> AnyJournal]
  BY DEF IInv, InstallStands, TypeOK
<1>2. IsOpen(x) => disk'[x] = disk[x]
  BY <1>1 DEF IsOpen
<1>3. CASE site \in {"commit", "warned"} /\ Report("ok")
  <2>1. own \in Restore /\ own # None
    BY <1>3 DEF IInv, Control, Committing, TypeOK
  <2>2. faults < 2 => Live = source[own]
    BY <1>3 DEF IInv, SuccessStands
  <2>3. outcome' = [outcome EXCEPT ![own] = "ok"] /\ outcome \in [Restore -> {"none", "ok", "failed"}]
    BY <1>3, <2>1 DEF Report, IInv, TypeOK
  <2>4. outcome'[x] = "ok" /\ outcome[x] # "ok" => x = own
    BY <2>1, <2>3
  <2> QED
    BY <1>2, <2>2, <2>4 DEF EndsAsReported, IsOpen, Terminal
<1>4. CASE UNCHANGED outcome
  BY <1>2, <1>4, SaysNothing
<1> QED
  <2>1. CASE site \in {"commit", "warned"}
    BY <1>3, <2>1 DEF Return
  <2>2. CASE site = "retry"
    BY <1>4, <2>2 DEF Return
  <2>3. CASE site = "undo"
    BY <1>4, <2>3 DEF Return, Scan
  <2>4. CASE site \notin {"commit", "warned", "retry", "undo"}
    BY <1>4, <2>4 DEF Return
  <2> QED
    BY <2>1, <2>2, <2>3, <2>4

\* Only the end of an install ends an open journal that has begun to install.
LEMMA SettleSays ==
  ASSUME IInv, Settle, NEW x \in Restore
  PROVE  EndsAsReported(x)
<1> DEFINE j == [Working EXCEPT !.phase = SettledPhase(Working)]
<1>1. /\ pc = "settle"
      /\ (Write(j) /\ UNCHANGED outcome) \/ WriteFails(j)
  BY DEF Settle
<1>2. pc = "settle"
  BY DEF Settle
<1>3. Live = Meant(Current, Working) /\ disk[Current] = Working /\ Working \in AnyJournal
  BY <1>2, InstalledIsWhole, CurrentIs DEF IInv, InstallStands, InstallPcs
<1>4. j.phase = SettledPhase(Working)
  <2>1. SettledPhase(Working) \in Phase
    BY DEF SettledPhase, Phase, Terminal
  <2> QED
    BY <1>3, <2>1, NextPhase
<1> HIDE DEF j
<1>5. /\ disk'[x] # disk[x] => x = Current /\ disk'[x] = j
      /\ outcome'[x] = "ok" => outcome[x] = "ok"
  BY <1>1, WriteSays
<1>6. CASE disk'[x] = disk[x]
  BY <1>5, <1>6, SaysNothing
<1>7. CASE x = Current /\ disk'[x] = j
  BY <1>3, <1>4, <1>5, <1>7 DEF EndsAsReported, SettledPhase, Meant
<1> QED
  BY <1>5, <1>6, <1>7

LEMMA AbandonSays ==
  ASSUME IInv, Abandon, NEW x \in Restore
  PROVE  EndsAsReported(x)
<1> DEFINE j == [rec EXCEPT !.phase = "rolled-back"]
<1>1. pc = "abandon" /\ ((Write(j) /\ UNCHANGED outcome) \/ WriteFails(j))
  BY DEF Abandon
<1>2. /\ site = "abandon" /\ Current = entry /\ disk[entry] = rec /\ rec.mode = "forward"
      /\ rec \in AnyJournal
  BY <1>1, SitesOf DEF IInv, Control, StagingStands, Current, Committing, TypeOK
<1>3. j.phase = "rolled-back"
  <2>1. "rolled-back" \in Phase
    BY DEF Phase, Terminal
  <2> QED
    BY <1>2, <2>1, NextPhase
<1> HIDE DEF j
<1>4. /\ disk'[x] # disk[x] => x = Current /\ disk'[x] = j
      /\ outcome'[x] = "ok" => outcome[x] = "ok"
  BY <1>1, WriteSays
<1>5. CASE disk'[x] = disk[x]
  BY <1>4, <1>5, SaysNothing
<1>6. CASE x = Current /\ disk'[x] = j
  BY <1>2, <1>3, <1>4, <1>6 DEF EndsAsReported
<1> QED
  BY <1>4, <1>5, <1>6

\* Any other write of a journal ends nothing.
LEMMA PhasesGoOn ==
  ASSUME IInv, NEW x \in Restore,
         OpenJournal \/ Prepare \/ Stage \/ BeginInstall \/ FinishInstall
  PROVE  EndsAsReported(x)
<1>1. ASSUME NEW j, j.phase \notin Terminal, (Write(j) /\ UNCHANGED outcome) \/ WriteFails(j)
      PROVE  EndsAsReported(x)
  BY <1>1, WriteSays, SaysNothing
<1>2. mem \in AnyJournal /\ rec \in AnyJournal /\ Working \in AnyJournal
  BY DEF IInv, TypeOK, Working
<1>3. ASSUME NEW j \in AnyJournal, NEW p \in Phase \ Terminal
      PROVE  [j EXCEPT !.phase = p].phase \notin Terminal
  BY <1>3 DEF AnyJournal
<1>4. {"prepared", "installing", "installed"} \subseteq Phase \ Terminal
  BY DEF Phase, Terminal
<1>5. CASE OpenJournal
  <2>1. Preparing.phase \notin Terminal
    BY DEF Preparing, Journal, Terminal
  <2> QED
    BY <1>1, <1>5, <2>1 DEF OpenJournal
<1>6. CASE Prepare
  BY <1>1, <1>2, <1>3, <1>4, <1>6 DEF Prepare
<1>7. CASE Stage
  <2>1. Journal("live-staged", StageMode, candidate[Current]).phase \notin Terminal
    BY DEF Journal, Terminal
  <2> QED
    BY <1>1, <1>7, <2>1 DEF Stage
<1>8. CASE BeginInstall
  BY <1>1, <1>2, <1>3, <1>4, <1>8 DEF BeginInstall
<1>9. CASE FinishInstall
  BY <1>1, <1>2, <1>3, <1>4, <1>9 DEF FinishInstall
<1> QED
  BY <1>5, <1>6, <1>7, <1>8, <1>9

LEMMA StepSays ==
  ASSUME IInv, [Next]_vars, NEW x \in Restore
  PROVE  EndsAsReported(x)
<1>1. disk \in [Restore -> AnyJournal] /\ outcome \in [Restore -> {"none", "ok", "failed"}]
  BY DEF IInv, TypeOK
<1>2. ASSUME UNCHANGED <<disk, outcome>> PROVE EndsAsReported(x)
  BY <1>2, SaysNothing
<1>3. ASSUME UNCHANGED disk, NEW j, Raise(j) PROVE EndsAsReported(x)
  BY <1>3, RaiseReports, SaysNothing
<1>4. CASE \/ AppWrite \/ StartCommand \/ EndPreview \/ TakeBackup \/ CopyDesired \/ CopySafety
           \/ ClearStage \/ CopyCandidate \/ KeepComponent \/ MoveAside \/ DropRollback
           \/ CleanArtifacts \/ (\E y \in Restore : ReadJournal(y)) \/ Crash \/ UNCHANGED vars
  BY <1>2, <1>4
     DEF AppWrite, StartCommand, Scan, EndPreview, TakeBackup, CopyDesired, CopySafety, ClearStage,
         CopyCandidate, KeepComponent, MoveAside, DropRollback, CleanArtifacts, ReadJournal, Crash, vars
<1>5. CASE VerifySafety \/ CandidateMissing \/ MoveIn \/ IOFails
  BY <1>2, <1>3, <1>5 DEF VerifySafety, CandidateMissing, MoveIn, IOFails
<1>6. CASE OpenJournal \/ Prepare \/ Stage \/ BeginInstall \/ FinishInstall
  BY <1>6, PhasesGoOn
<1>7. CASE Settle \/ Abandon
  BY <1>7, SettleSays, AbandonSays
<1>8. CASE DiscardCopies \/ CleanFails
  BY <1>8, ReturnSays DEF DiscardCopies, CleanFails
<1>9. CASE Warn
  <2>1. disk[own].phase \in Terminal
    BY <1>9 DEF Warn, IInv, InstallStands
  <2>2. UNCHANGED outcome /\ disk' \in {disk, [disk EXCEPT ![own] = mem]}
    BY <1>9 DEF Warn
  <2>3. IsOpen(x) => disk'[x] = disk[x]
    BY <1>1, <2>1, <2>2 DEF IsOpen
  <2> QED
    BY <2>2, <2>3, SaysNothing
<1>10. CASE \E y \in Restore : ForgetDirectory(y)
  <2>1. PICK y \in Restore : ForgetDirectory(y)
    BY <1>10
  <2>2. UNCHANGED outcome /\ disk' = [disk EXCEPT ![y] = NoJournal]
    BY <2>1 DEF ForgetDirectory
  <2>3. NoJournal.phase \notin Terminal
    BY DEF NoJournal, Journal, Terminal
  <2>4. disk'[x] # disk[x] => disk'[x] = NoJournal
    BY <1>1, <2>2
  <2> QED
    BY <2>2, <2>3, <2>4, SaysNothing
<1>11. CASE \E y \in Restore, b \in backups : OpenDirectory(y, b)
  <2>1. PICK y \in Restore, b \in backups : OpenDirectory(y, b)
    BY <1>11
  <2>2. UNCHANGED outcome /\ disk' = [disk EXCEPT ![y] = Journal("directory", "forward", None)]
    BY <2>1 DEF OpenDirectory
  <2>3. Journal("directory", "forward", None).phase \notin Terminal
    BY DEF Journal, Terminal
  <2>4. disk'[x] # disk[x] => disk'[x] = Journal("directory", "forward", None)
    BY <1>1, <2>2
  <2> QED
    BY <2>2, <2>3, <2>4, SaysNothing
<1>12. CASE ScanEnds
  <2>1. UNCHANGED disk /\ (UNCHANGED outcome \/ Report("failed"))
    <3>1. caller \in {"start", "commit", "catch"}
      BY <1>12, SitesOf DEF ScanEnds, IInv, Control, TypeOK, Committing
    <3>2. CASE caller = "start"
      BY <1>12, <3>2 DEF ScanEnds
    <3>3. CASE caller = "commit"
      BY <1>12, <3>3 DEF ScanEnds
    <3>4. CASE caller = "catch"
      BY <1>12, <3>4 DEF ScanEnds
    <3> QED
      BY <1>12, <3>1, <3>2, <3>3, <3>4 DEF ScanEnds
  <2>2. outcome'[x] = "ok" => outcome[x] = "ok"
    BY <1>1, <2>1 DEF Report
  <2> QED
    BY <2>1, <2>2, SaysNothing
<1> QED
  BY <1>4, <1>5, <1>6, <1>7, <1>8, <1>9, <1>10, <1>11, <1>12 DEF Next, Command

\* A journal becomes terminal when the live data are what it says, and a restore that
\* reports success has installed the backup unless more than one operation has failed.
THEOREM RestoresEndAsReported == Spec => RestoreEndsAsReported
<1>1. IInv /\ [Next]_vars =>
        [\A x \in Restore :
           /\ IsOpen(x) /\ disk'[x].phase = "complete" => Live = source[x]
           /\ IsOpen(x) /\ disk'[x].phase = "rolled-back" /\ disk[x].mode = "rollback"
              => Live = safety[x]
           /\ outcome'[x] = "ok" /\ outcome[x] # "ok" /\ faults < 2 => Live = source[x]]_vars
  BY StepSays DEF EndsAsReported
<1> QED
  BY <1>1, RestoreInvariant, PTL DEF Spec, RestoreEndsAsReported
=============================================================================
