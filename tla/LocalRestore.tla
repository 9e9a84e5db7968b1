---------------------------- MODULE LocalRestore ----------------------------
(***************************************************************************)
(* The offline backup and restore commands, scripts/backup-local-data,     *)
(* restore-local-data and local-data-restore-transaction.                  *)
(*                                                                         *)
(* The local data are three files or directories, replaced one at a time   *)
(* under a journal on disk.  A command holds the cross-engine lock from    *)
(* start to end, and begins by recovering the transactions that earlier    *)
(* commands left open.  The application never looks at those journals.     *)
(*                                                                         *)
(* The content of a component is the generation of the data it belongs to  *)
(* and its form: two copies of a generation may or may not be the same     *)
(* bytes, which is what the journal's hashes compare.  Dataset objects are *)
(* named by their content and have one form.                               *)
(***************************************************************************)
EXTENDS Naturals, Sequences

CONSTANTS
  Restore,                           \* the transactions of confirmed restores
  MaxWrites, MaxCrashes, MaxFaults,  \* bounds
  None, Partial                      \* no content; an interrupted copy

Component == {"dataset-objects", "duckdb", "sqlite"}
InstallOrder == <<"dataset-objects", "duckdb", "sqlite">>
CopyOrder == <<"dataset-objects", "sqlite", "duckdb">>

Generation == 0 .. MaxWrites
Data == [Component -> Generation]

\* The bytes a copy of generation g of component c may have.
Forms(c, g) == {g} \X (IF c = "dataset-objects" THEN {"a"} ELSE {"a", "b"})
Content == Generation \X {"a", "b"}

Terminal == {"complete", "rolled-back"}
Phase == {"none", "directory", "preparing", "prepared", "live-staged", "installing",
          "installed"} \union Terminal

\* restore-journal.json: the phase, the direction and the bytes to install, once
\* candidates are staged.
Journal(p, m, e) == [phase |-> p, mode |-> m, expected |-> e]
NoJournal == Journal("none", "forward", None)

ASSUME LocalRestoreAssumption ==
  /\ None \notin Restore \union Content \union Data \union [Component -> Content]
  /\ Partial \notin Content \union {None}
  /\ MaxWrites \in Nat /\ MaxCrashes \in Nat /\ MaxFaults \in Nat

VARIABLES
  target,              \* the live components
  candidate, rollback, \* of each restore: what it will move in, what it moved out
  desired, safety,     \* of each restore: its copies of the backup and of the live data
  source,              \* of each restore: the backup it is of
  disk,                \* the journal of each restore on disk
  backups,             \* the data that were backed up
  whole,               \* the data the application has committed (history)
  writes, crashes, faults,
  mem, rec,            \* journals read by the restore and by the recovery in this command
  own, entry,          \* the restore and the recovered restore they are of
  pc, site, caller, at, \* where the command is, and on whose behalf
  outcome              \* what each restore command told its user

files == <<target, candidate, rollback, desired, safety>>
scene == <<source, backups, whole>>
limits == <<writes, crashes, faults>>
command == <<mem, rec, own, entry, pc, site, caller, at>>
vars == <<files, scene, disk, limits, command, outcome>>

Empty == [c \in Component |-> None]

Init ==
  LET first == [c \in Component |-> 0] IN
  /\ target = [c \in Component |-> <<0, "a">>]
  /\ candidate = [x \in Restore |-> Empty] /\ rollback = [x \in Restore |-> Empty]
  /\ desired = [x \in Restore |-> None] /\ safety = [x \in Restore |-> None]
  /\ source = [x \in Restore |-> None]
  /\ disk = [x \in Restore |-> NoJournal]
  /\ backups = {first} /\ whole = {first}
  /\ writes = 0 /\ crashes = 0 /\ faults = 0
  /\ mem = NoJournal /\ rec = NoJournal /\ own = None /\ entry = None
  /\ pc = "idle" /\ site = "none" /\ caller = "none" /\ at = 1
  /\ outcome = [x \in Restore |-> "none"]

\* The generations of the live components.
Live == [c \in Component |-> IF target[c] \in Content THEN target[c][1] ELSE None]

\* validate_snapshot, of the live components: they were committed together.
Validates == Live \in whole

IsOpen(x) == disk[x].phase \notin {"none"} \union Terminal

-----------------------------------------------------------------------------
(* The application, which writes while no command holds the lock            *)

\* A write commits to the control database alone or to all three; a store that
\* is missing is created anew.
AppWrite ==
  /\ pc = "idle" /\ writes < MaxWrites
  /\ writes' = writes + 1
  /\ \E touched \in {{"sqlite"}, Component} :
       target' = [c \in Component |->
                    IF c \in touched \/ target[c] \notin Content
                    THEN <<writes + 1, "a">> ELSE target[c]]
  /\ whole' = IF Validates
              THEN whole \union {[c \in Component |-> target'[c][1]]} ELSE whole
  /\ UNCHANGED <<candidate, rollback, desired, safety, source, backups, disk, crashes, faults,
                 command, outcome>>

-----------------------------------------------------------------------------
(* Which journal is being worked on, and where errors go                    *)

\* createRestoreTransaction and commitRestoreTransaction work on the journal the
\* command made, recoverRestoreTransactions on one it has read.
Committing == site \in {"create", "commit", "retry", "undo", "warned"}
Current == IF Committing THEN own ELSE entry
Working == IF Committing THEN mem ELSE rec
Keep(j) == IF Committing THEN mem' = j /\ UNCHANGED rec ELSE rec' = j /\ UNCHANGED mem

UndoSites == {"undo", "recoverUndo"}
StageMode == IF site \in UndoSites THEN "rollback" ELSE "forward"
StageSource == IF site \in UndoSites THEN safety[Current] ELSE desired[Current]

Goto(s, p) == site' = s /\ pc' = p /\ at' = 1

\* The lock is released and the process ends.
EndCommand ==
  /\ pc' = "idle" /\ site' = "none" /\ caller' = "none" /\ at' = 1
  /\ mem' = NoJournal /\ rec' = NoJournal /\ own' = None /\ entry' = None

Report(result) ==
  outcome' = IF own = None THEN outcome ELSE [outcome EXCEPT ![own] = result]

\* The command's own recoverRestoreTransactions, at its start, in the place of a
\* commit that failed, or in the handler of its last error.
Scan(who) == Goto("none", "scan") /\ caller' = who /\ UNCHANGED <<own, entry, outcome>>

Turn(s, p) ==
  /\ Goto(s, p)
  /\ caller' = IF s = "undo" THEN "none" ELSE caller
  /\ UNCHANGED <<own, entry, outcome>>

\* An error, with journal j in memory: the install is tried again, then undone
\* from the safety copy; a recovery undoes an install it cannot finish; what
\* fails at last is left for the recovery of the command's end or of the next.
Raise(j) ==
  CASE site = "commit" /\ j.phase \notin Terminal -> Keep(j) /\ Turn("retry", "begin")
    [] site = "commit" /\ j.phase \in Terminal -> Keep(j) /\ Scan("commit")
    [] site = "retry" -> Keep(j) /\ Turn("undo", "undo")
    [] site = "reinstall" -> Keep(j) /\ Turn("recoverUndo", "undo")
    [] site \in {"create", "undo"} -> mem' = NoJournal /\ UNCHANGED rec /\ Scan("catch")
    [] site \notin {"create", "commit", "retry", "undo", "reinstall"} ->
         IF caller = "commit" THEN Keep(j) /\ Turn("undo", "undo")
         ELSE EndCommand /\ Report("failed")

\* writeJournal, which replaces the file and may still fail before or after.
Write(j) == Keep(j) /\ disk' = [disk EXCEPT ![Current] = j] /\ UNCHANGED faults

WriteFails(j) ==
  /\ faults < MaxFaults /\ faults' = faults + 1
  /\ disk' \in {disk, [disk EXCEPT ![Current] = j]}
  /\ Raise(j)

\* The next component of a loop, or what comes after the loop.
Advance(loop, after) ==
  IF at < Len(InstallOrder) THEN at' = at + 1 /\ pc' = loop ELSE at' = 1 /\ pc' = after

-----------------------------------------------------------------------------
(* createRestoreTransaction                                                 *)

\* backup:local, restore:local and restore:local --confirm.
StartCommand ==
  /\ pc = "idle"
  /\ Scan("start")
  /\ UNCHANGED <<files, scene, disk, limits, mem, rec>>

\* A preview ends here; a backup of data that do not validate is refused.
EndPreview ==
  /\ pc = "ready"
  /\ EndCommand
  /\ UNCHANGED <<files, scene, disk, limits, outcome>>

TakeBackup ==
  /\ pc = "ready"
  /\ Validates
  /\ backups' = backups \union {Live}
  /\ EndCommand
  /\ UNCHANGED <<files, source, whole, disk, limits, outcome>>

OpenDirectory(x, b) ==
  /\ pc = "ready"
  /\ source[x] = None /\ source' = [source EXCEPT ![x] = b]
  /\ disk' = [disk EXCEPT ![x] = Journal("directory", "forward", None)]
  /\ own' = x /\ Goto("create", "open") /\ caller' = "none"
  /\ UNCHANGED <<files, backups, whole, limits, mem, rec, entry, outcome>>

Preparing == Journal("preparing", "forward", None)

OpenJournal ==
  /\ pc = "open"
  /\ \/ Write(Preparing) /\ pc' = "desired" /\ UNCHANGED <<own, entry, site, caller, at, outcome>>
     \/ WriteFails(Preparing)
  /\ UNCHANGED <<files, scene, writes, crashes>>

CopyDesired ==
  /\ pc = "desired"
  /\ desired' = [desired EXCEPT ![own] = source[own]]
  /\ pc' = "safety"
  /\ UNCHANGED <<target, candidate, rollback, safety, scene, disk, limits,
                 mem, rec, own, entry, site, caller, at, outcome>>

\* createSafetySnapshot, which refuses data that do not validate.
CopySafety ==
  /\ pc = "safety"
  /\ Validates
  /\ safety' = [safety EXCEPT ![own] = Live]
  /\ pc' = "prepare"
  /\ UNCHANGED <<target, candidate, rollback, desired, scene, disk, limits,
                 mem, rec, own, entry, site, caller, at, outcome>>

Prepare ==
  /\ pc = "prepare"
  /\ LET j == [mem EXCEPT !.phase = "prepared"] IN
       \/ Write(j) /\ Goto("create", "clear") /\ UNCHANGED <<own, entry, caller, outcome>>
       \/ WriteFails(j)
  /\ UNCHANGED <<files, scene, writes, crashes>>

-----------------------------------------------------------------------------
(* rollbackFromSafety and stageCandidates                                   *)

VerifySafety ==
  /\ pc = "undo"
  /\ IF safety[Current] # None
     THEN pc' = "clear" /\ at' = 1 /\ UNCHANGED <<mem, rec, own, entry, site, caller, outcome>>
     ELSE Raise(Working)
  /\ UNCHANGED <<files, scene, disk, limits>>

ClearStage ==
  /\ pc = "clear"
  /\ candidate' = [candidate EXCEPT ![Current][InstallOrder[at]] = None]
  /\ rollback' = [rollback EXCEPT ![Current][InstallOrder[at]] = None]
  /\ Advance("clear", "copy")
  /\ UNCHANGED <<target, desired, safety, scene, disk, limits,
                 mem, rec, own, entry, site, caller, outcome>>

CopyCandidate ==
  LET c == CopyOrder[at] IN
  /\ pc = "copy"
  /\ \E b \in Forms(c, StageSource[c]) : candidate' = [candidate EXCEPT ![Current][c] = b]
  /\ Advance("copy", "stage")
  /\ UNCHANGED <<target, rollback, desired, safety, scene, disk, limits,
                 mem, rec, own, entry, site, caller, outcome>>

Stage ==
  /\ pc = "stage"
  /\ LET j == Journal("live-staged", StageMode, candidate[Current]) IN
       \/ /\ Write(j) /\ Goto(IF site = "create" THEN "commit" ELSE site, "begin")
          /\ UNCHANGED <<own, entry, caller, outcome>>
       \/ WriteFails(j)
  /\ UNCHANGED <<files, scene, writes, crashes>>

-----------------------------------------------------------------------------
(* installComponents                                                        *)

\* Faulty variant of BeginInstall: the phase is not written before files move.
BeginInstallUnlogged ==
  /\ pc = "begin"
  /\ Keep([Working EXCEPT !.phase = "installing"])
  /\ pc' = "install" /\ at' = 1
  /\ UNCHANGED <<files, scene, disk, limits, own, entry, site, caller, outcome>>

BeginInstall ==
  /\ pc = "begin"
  /\ LET j == [Working EXCEPT !.phase = "installing"] IN
       \/ Write(j) /\ pc' = "install" /\ at' = 1 /\ UNCHANGED <<own, entry, site, caller, outcome>>
       \/ WriteFails(j)
  /\ UNCHANGED <<files, scene, writes, crashes>>

Installed(c) == target[c] = Working.expected[c]

\* The component is what it should be: its candidate is superfluous.
KeepComponent ==
  LET c == InstallOrder[at] IN
  /\ pc = "install" /\ Installed(c)
  /\ candidate' = [candidate EXCEPT ![Current][c] = None]
  /\ Advance("install", "finish")
  /\ UNCHANGED <<target, rollback, desired, safety, scene, disk, limits,
                 mem, rec, own, entry, site, caller, outcome>>

CandidateMissing ==
  LET c == InstallOrder[at] IN
  /\ pc = "install" /\ ~Installed(c) /\ candidate[Current][c] = None
  /\ Raise(Working)
  /\ UNCHANGED <<files, scene, disk, limits>>

\* The live component is moved aside, unless one was already: then it is removed.
MoveAside ==
  LET c == InstallOrder[at] IN
  /\ pc = "install" /\ ~Installed(c) /\ candidate[Current][c] # None
  /\ target' = [target EXCEPT ![c] = None]
  /\ rollback' = IF rollback[Current][c] = None
                 THEN [rollback EXCEPT ![Current][c] = target[c]] ELSE rollback
  /\ pc' = "moveIn"
  /\ UNCHANGED <<candidate, desired, safety, scene, disk, limits,
                 mem, rec, own, entry, site, caller, at, outcome>>

MoveIn ==
  LET c == InstallOrder[at] IN
  /\ pc = "moveIn"
  /\ target' = [target EXCEPT ![c] = candidate[Current][c]]
  /\ candidate' = [candidate EXCEPT ![Current][c] = None]
  /\ IF candidate[Current][c] = Working.expected[c]
     THEN Advance("install", "finish")
          /\ UNCHANGED <<mem, rec, own, entry, site, caller, outcome>>
     ELSE Raise(Working)
  /\ UNCHANGED <<rollback, desired, safety, scene, disk, limits>>

\* Faulty variant of FinishInstall: the safety copy goes before the end is on disk.
FinishInstallDiscards ==
  /\ pc = "finish"
  /\ safety' = [safety EXCEPT ![Current] = None]
  /\ LET j == [Working EXCEPT !.phase = "installed"] IN
       \/ Write(j) /\ pc' = "drop" /\ at' = 1 /\ UNCHANGED <<own, entry, site, caller, outcome>>
       \/ WriteFails(j)
  /\ UNCHANGED <<target, candidate, rollback, desired, scene, writes, crashes>>

FinishInstall ==
  /\ pc = "finish"
  /\ LET j == [Working EXCEPT !.phase = "installed"] IN
       \/ Write(j) /\ pc' = "drop" /\ at' = 1 /\ UNCHANGED <<own, entry, site, caller, outcome>>
       \/ WriteFails(j)
  /\ UNCHANGED <<files, scene, writes, crashes>>

\* With the live data validated, what was moved aside is removed.
DropRollback ==
  /\ pc = "drop"
  /\ rollback' = [rollback EXCEPT ![Current][InstallOrder[at]] = None]
  /\ Advance("drop", "settle")
  /\ UNCHANGED <<target, candidate, desired, safety, scene, disk, limits,
                 mem, rec, own, entry, site, caller, outcome>>

\* Faulty variant of SettledPhase: the direction is forgotten.
SettledAlwaysComplete(j) == "complete"

SettledPhase(j) == IF j.mode = "rollback" THEN "rolled-back" ELSE "complete"

Settle ==
  /\ pc = "settle"
  /\ LET j == [Working EXCEPT !.phase = SettledPhase(Working)] IN
       \/ Write(j) /\ pc' = "clean" /\ at' = 1 /\ UNCHANGED <<own, entry, site, caller, outcome>>
       \/ WriteFails(j)
  /\ UNCHANGED <<files, scene, writes, crashes>>

-----------------------------------------------------------------------------
(* cleanupTerminalArtifacts, whose failures are swallowed                   *)

\* What follows an install and its cleanup.
Return ==
  CASE site \in {"commit", "warned"} -> EndCommand /\ Report("ok")
    [] site = "retry" -> pc' = "warn" /\ at' = 1
                         /\ UNCHANGED <<mem, rec, own, entry, site, caller, outcome>>
    [] site = "undo" -> mem' = NoJournal /\ UNCHANGED rec /\ Scan("catch")
    [] site \notin {"commit", "warned", "retry", "undo"} ->
         /\ Goto("none", "scan") /\ rec' = NoJournal /\ entry' = None
         /\ UNCHANGED <<mem, own, caller, outcome>>

\* Only the artifacts the journal names: none before candidates were staged.
WithoutArtifacts(files_) ==
  IF Working.expected = None THEN files_ ELSE [files_ EXCEPT ![Current] = Empty]

CleanArtifacts ==
  /\ pc = "clean"
  /\ candidate' = WithoutArtifacts(candidate) /\ rollback' = WithoutArtifacts(rollback)
  /\ pc' = "discard"
  /\ UNCHANGED <<target, desired, safety, scene, disk, limits,
                 mem, rec, own, entry, site, caller, at, outcome>>

DiscardCopies ==
  /\ pc = "discard"
  /\ desired' = [desired EXCEPT ![Current] = None]
  /\ safety' = [safety EXCEPT ![Current] = None]
  /\ disk' = [disk EXCEPT ![Current] = Working]
  /\ Return
  /\ UNCHANGED <<target, candidate, rollback, scene, limits>>

CleanFails ==
  /\ pc \in {"clean", "discard"} /\ faults < MaxFaults
  /\ faults' = faults + 1
  /\ disk' \in {disk, [disk EXCEPT ![Current] = Working]}
  /\ Return
  /\ UNCHANGED <<files, scene, writes, crashes>>

\* The restore was completed by its retry, or by the recovery in its place: the
\* journal in memory, which is complete, is written with a warning.
Warn ==
  /\ pc = "warn"
  /\ \/ disk' = [disk EXCEPT ![own] = mem] /\ UNCHANGED faults
     \/ faults < MaxFaults /\ faults' = faults + 1 /\ UNCHANGED disk
  /\ Goto("warned", "clean")
  /\ UNCHANGED <<files, scene, writes, crashes, mem, rec, own, entry, caller, outcome>>

-----------------------------------------------------------------------------
(* recoverRestoreTransactions                                               *)

\* A crash before the first journal left only a directory.
ForgetDirectory(x) ==
  /\ pc = "scan" /\ disk[x].phase = "directory"
  /\ disk' = [disk EXCEPT ![x] = NoJournal]
  /\ UNCHANGED <<files, scene, limits, command, outcome>>

Leftovers(x) ==
  /\ disk[x].phase \in Terminal
  /\ \/ desired[x] # None \/ safety[x] # None
     \/ disk[x].expected # None /\ (candidate[x] # Empty \/ rollback[x] # Empty)

ReadJournal(x) ==
  LET j == disk[x] IN
  /\ pc = "scan"
  /\ rec' = j /\ entry' = x
  /\ \/ Leftovers(x) /\ Goto("tidy", "clean")
     \/ j.phase = "live-staged" /\ j.mode = "rollback" /\ Goto("resume", "begin")
     \/ /\ j.phase \in {"preparing", "prepared", "live-staged"} /\ j.mode = "forward"
        /\ Goto("abandon", "abandon")
     \/ j.phase \in {"installing", "installed"} /\ Goto("reinstall", "begin")
  /\ UNCHANGED <<files, scene, disk, limits, mem, own, caller, outcome>>

\* Nothing live was touched yet.
Abandon ==
  /\ pc = "abandon"
  /\ candidate' = WithoutArtifacts(candidate) /\ rollback' = WithoutArtifacts(rollback)
  /\ LET j == [rec EXCEPT !.phase = "rolled-back"] IN
       \/ Write(j) /\ pc' = "clean" /\ UNCHANGED <<own, entry, site, caller, at, outcome>>
       \/ WriteFails(j)
  /\ UNCHANGED <<target, desired, safety, scene, writes, crashes>>

ScanEnds ==
  /\ pc = "scan"
  /\ \A x \in Restore : ~IsOpen(x) /\ ~Leftovers(x)
  /\ CASE caller = "start" -> pc' = "ready" /\ UNCHANGED <<mem, rec, own, entry, site, caller, at, outcome>>
       [] caller = "commit" -> /\ Goto("retry", "warn") /\ caller' = "none"
                               /\ UNCHANGED <<mem, rec, own, entry, outcome>>
       [] caller = "catch" -> EndCommand /\ Report("failed")
  /\ UNCHANGED <<files, scene, disk, limits>>

-----------------------------------------------------------------------------
(* Failures                                                                 *)

\* A copy that is interrupted may leave a part of its target; when it fails it
\* removes the file, but not the objects it has copied.
MayLeavePart(components) ==
  \/ UNCHANGED candidate
  \/ /\ pc = "copy" /\ CopyOrder[at] \in components
     /\ candidate' = [candidate EXCEPT ![Current][CopyOrder[at]] = Partial]

IOFails ==
  /\ pc \in {"scan", "desired", "safety", "undo", "clear", "copy", "stage", "install", "moveIn",
             "drop", "abandon"}
  /\ faults < MaxFaults /\ faults' = faults + 1
  /\ MayLeavePart({"dataset-objects"})
  /\ Raise(Working)
  /\ UNCHANGED <<target, rollback, desired, safety, scene, disk, writes, crashes>>

\* The lock goes with the process.
Crash ==
  /\ pc # "idle"
  /\ crashes < MaxCrashes /\ crashes' = crashes + 1
  /\ MayLeavePart(Component)
  /\ EndCommand
  /\ UNCHANGED <<target, rollback, desired, safety, scene, disk, writes, faults, outcome>>

-----------------------------------------------------------------------------

Command ==
  \/ EndPreview \/ TakeBackup \/ \E x \in Restore, b \in backups : OpenDirectory(x, b)
  \/ OpenJournal \/ CopyDesired \/ CopySafety \/ Prepare
  \/ VerifySafety \/ ClearStage \/ CopyCandidate \/ Stage
  \/ BeginInstall \/ KeepComponent \/ CandidateMissing \/ MoveAside \/ MoveIn
  \/ FinishInstall \/ DropRollback \/ Settle
  \/ CleanArtifacts \/ DiscardCopies \/ CleanFails \/ Warn
  \/ \E x \in Restore : ForgetDirectory(x) \/ ReadJournal(x)
  \/ Abandon \/ ScanEnds

Next == AppWrite \/ StartCommand \/ Command \/ IOFails \/ Crash

Spec == Init /\ [][Next]_vars

\* Somebody runs a backup or a restore again, and a command that runs goes on.
FairSpec == Spec /\ WF_vars(StartCommand) /\ WF_vars(Command)

-----------------------------------------------------------------------------
(* Properties                                                               *)

\* The live data are some the application has committed, or else a journal on
\* disk makes the next command finish or undo the restore that is halfway, and
\* the copy it would undo it from is such data.
TornIsRecoverable ==
  ~Validates =>
    \E x \in Restore :
      /\ \/ disk[x].phase \in {"installing", "installed"}
         \/ disk[x].phase = "live-staged" /\ disk[x].mode = "rollback"
      /\ safety[x] \in whole

\* A journal becomes terminal when the live data are what it says: the backup
\* when complete, what they were before when put back from the safety copy.  And
\* a restore that reports success has installed the backup, unless more than one
\* operation has failed.
RestoreEndsAsReported ==
  [][\A x \in Restore :
       /\ IsOpen(x) /\ disk'[x].phase = "complete" => Live = source[x]
       /\ IsOpen(x) /\ disk'[x].phase = "rolled-back" /\ disk[x].mode = "rollback"
          => Live = safety[x]
       /\ outcome'[x] = "ok" /\ outcome[x] # "ok" /\ faults < 2 => Live = source[x]]_vars

\* No restore stays halfway once commands are run again.
RestoresSettle == \A x \in Restore : IsOpen(x) ~> ~IsOpen(x)

-----------------------------------------------------------------------------
(* The invariant TornIsRecoverable and RestoreEndsAsReported rest on        *)

Stuff == Content \union {None, Partial}
AnyJournal == [phase : Phase, mode : {"forward", "rollback"},
               expected : [Component -> Stuff] \union {None}]

TypeOK ==
  /\ target \in [Component -> Stuff]
  /\ candidate \in [Restore -> [Component -> Stuff]]
  /\ rollback \in [Restore -> [Component -> Stuff]]
  /\ desired \in [Restore -> Data \union {None}] /\ safety \in [Restore -> Data \union {None}]
  /\ source \in [Restore -> Data \union {None}]
  /\ disk \in [Restore -> AnyJournal] /\ mem \in AnyJournal /\ rec \in AnyJournal
  /\ backups \subseteq whole /\ whole \subseteq Data
  /\ writes \in 0 .. MaxWrites /\ crashes \in 0 .. MaxCrashes /\ faults \in 0 .. MaxFaults
  /\ own \in Restore \union {None} /\ entry \in Restore \union {None}
  /\ caller \in {"none", "start", "commit", "catch"} /\ at \in 1 .. 3
  /\ outcome \in [Restore -> {"none", "ok", "failed"}]

InstallPcs == {"begin", "install", "moveIn", "finish", "drop", "settle"}
InstallSites == {"commit", "retry", "undo", "reinstall", "recoverUndo", "resume"}
RecoverySites == {"tidy", "resume", "abandon", "reinstall", "recoverUndo"}

\* On whose behalf the command may be where it is.
Sites(p) ==
  CASE p \in {"idle", "scan", "ready"} -> {"none"}
    [] p \in {"open", "desired", "safety", "prepare"} -> {"create"}
    [] p = "undo" -> UndoSites
    [] p \in {"clear", "copy", "stage"} -> UndoSites \union {"create"}
    [] p \in InstallPcs -> InstallSites
    [] p = "warn" -> {"retry"}
    [] p = "abandon" -> {"abandon"}
    [] p \in {"clean", "discard"} -> InstallSites \union {"warned", "abandon", "tidy"}
    [] OTHER -> {}

\* The restore a command makes is the only one that is open, and it is made when
\* none is.
Control ==
  /\ site \in Sites(pc)
  /\ Committing => own # None /\ caller = "none"
  /\ site \in RecoverySites => entry # None
  /\ caller = "commit" => own # None
  /\ caller = "start" => own = None
  /\ pc = "idle" => caller = "none" /\ own = None
  /\ pc # "idle" /\ ~Committing => caller # "none"
  /\ pc = "ready" => caller = "start" /\ \A x \in Restore : ~IsOpen(x)
  /\ own # None => /\ source[own] # None
                   /\ \A x \in Restore \ {own} : ~IsOpen(x)
                   /\ site \in RecoverySites \ {"tidy"} => entry = own

\* Every copy that is kept is of data the application committed.
CopiesAreWhole ==
  \A x \in Restore : /\ source[x] # None => source[x] \in whole
                     /\ safety[x] # None => safety[x] \in whole
                     /\ desired[x] # None => desired[x] = source[x]

\* What journal j of x installs is what it says, and can be undone.
Meant(x, j) == IF j.mode = "rollback" THEN safety[x] ELSE source[x]

Ready(x, j) ==
  /\ safety[x] # None
  /\ j.expected \in [Component -> Content]
  /\ Meant(x, j) = [c \in Component |-> j.expected[c][1]]

JournalsStand ==
  \A x \in Restore : disk[x].phase \in {"live-staged", "installing", "installed"}
                       => Ready(x, disk[x])

Copied(c) == candidate[Current][c] \in Forms(c, StageSource[c])

\* Before the journal is staged: the copies are there, and nothing live moved.
StagingStands ==
  /\ site = "create" => disk[own].phase \in {"directory", "preparing", "prepared"}
  /\ pc \in {"safety", "prepare"} \/ (site = "create" /\ pc \in {"clear", "copy", "stage"})
       => desired[own] # None
  /\ pc \in {"prepare", "clear", "copy", "stage"} => safety[Current] # None
  /\ pc = "copy" => \A i \in 1 .. at - 1 : Copied(CopyOrder[i])
  /\ pc = "stage" => \A c \in Component : Copied(c)
  /\ pc = "abandon" => /\ disk[entry] = rec /\ rec.mode = "forward"
                       /\ rec.phase \in {"preparing", "prepared", "live-staged"}

\* While it is installed: files move only under a journal that says so.
InstallStands ==
  /\ pc \in InstallPcs => Ready(Current, Working)
  /\ pc \in InstallPcs /\ site \in {"commit", "retry"} => Working.mode = "forward"
  /\ pc \in InstallPcs \ {"begin"} =>
       /\ disk[Current] = Working
       /\ Working.phase = IF pc \in {"drop", "settle"} THEN "installed" ELSE "installing"
  /\ pc \in {"install", "moveIn"} => \A i \in 1 .. at - 1 : Installed(InstallOrder[i])
  /\ pc \in {"finish", "drop", "settle"} => \A c \in Component : Installed(c)
  /\ pc \in {"clean", "discard"} => Working.phase \in Terminal /\ disk[Current].phase \in Terminal
  /\ pc = "warn" => mem.phase \in Terminal /\ disk[own].phase \in Terminal

\* Where success is about to be reported, the backup is installed.
SuccessStands ==
  /\ site = "commit" /\ pc \in {"clean", "discard"} => Live = source[own]
  /\ (pc = "warn" \/ (site \in {"retry", "warned"} /\ pc \in {"clean", "discard"})) /\ faults < 2
       => Live = source[own]

\* A commit that could not write its end has the recovery write it.
Rewritten(j) ==
  /\ j.phase \in {"installing", "installed", "complete"}
  /\ j.mode = "forward" /\ j.expected = mem.expected

CommitStands ==
  caller = "commit" =>
    /\ faults >= 1 /\ mem.phase = "complete" /\ disk[own].phase \notin {"none", "directory"}
    /\ faults < 2 => /\ Live = source[own] /\ target = mem.expected
                     /\ site \in {"none", "tidy", "reinstall"} /\ pc # "moveIn"
                     /\ Rewritten(disk[own])
                     /\ site # "none" /\ entry = own => Rewritten(rec)

IInv ==
  /\ TypeOK /\ Control /\ CopiesAreWhole /\ JournalsStand /\ StagingStands /\ InstallStands
  /\ SuccessStands /\ CommitStands /\ TornIsRecoverable
=============================================================================
