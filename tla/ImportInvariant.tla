--------------------------- MODULE ImportInvariant ----------------------------
(***************************************************************************)
(* The inductive invariant behind the safety of ImportActivation.          *)
(*                                                                         *)
(* It holds when no second worker is started for a job that still has one  *)
(* and the DuckDB rollback of a failed worker does not raise; the first    *)
(* part, Ownership, holds whatever the faults.                             *)
(***************************************************************************)
EXTENDS ImportActivation

NoDuplicateNorRestoreError == Faults \cap {"duplicateLaunch", "restoreError"} = {}

Running(j) == jobStatus[j] \in {"running", "cancel_requested"}

\* The journal of a job whose switch has not been committed.
Open(j) == journalPhase[j] \in {"prepared", "commit_started"}
Committed(j) == journalPhase[j] = "source_selection_committed"

Live(w) == pc[w] \notin Ended

Unclaimed == {"idle", "launched", "claim"}
Activating == {"publish", "switch"}

-----------------------------------------------------------------------------
(* Whatever the faults                                                      *)

\* The activation transaction belongs to the worker that publishes or switches.
DbLockIsActivation == \A w \in Worker : dbLock = w <=> pc[w] \in Activating

\* What the activation checked when it began still holds: no other transaction
\* can write meanwhile.
ActivationKeepsClaim ==
  \A w \in Worker : pc[w] \in Activating => Leased(w) /\ jobStatus[wjob[w]] = "running"

IsVersion(w) == currentSourceRun = w \/ \E t \in Table : activeVersion[t] = w

\* A version was staged by a process that was started, for a job that succeeded.
VersionsSucceeded ==
  \A w \in Worker : IsVersion(w) => pc[w] # "idle" /\ jobStatus[wjob[w]] = "succeeded"

Ownership == DbLockIsActivation /\ ActivationKeepsClaim /\ VersionsSucceeded

-----------------------------------------------------------------------------
(* The lease and the job                                                    *)

OneWorkerPerJob ==
  \A v, w \in Worker : Live(v) /\ Live(w) /\ wjob[v] = wjob[w] => v = w

\* Who holds the lease has claimed, and knows its epoch while it lives.
HolderClaimed ==
  \A w \in Worker : leaseHolder = w =>
    /\ pc[w] \notin Unclaimed
    /\ leaseActive /\ Live(w) => wepoch[w] = leaseEpoch

ActiveEpoch == leaseActive => leaseEpoch > 0 /\ leaseHolder \in Worker

\* A job that runs has the lease, and a live worker of it holds it.
RunningHasLease ==
  \A j \in Job : Running(j) => leaseActive /\ leaseHolder \in Worker /\ wjob[leaseHolder] = j

LiveRunningLeased == \A w \in Worker : Live(w) /\ Running(wjob[w]) => Leased(w)

\* A live worker's job succeeds by that worker's own switch.
SucceededHere ==
  \A w \in Worker :
    /\ Live(w) /\ jobStatus[wjob[w]] = "succeeded" => pc[w] \in {"finalize", "release"}
    /\ pc[w] = "finalize" => jobStatus[wjob[w]] = "succeeded"

\* What a worker that still holds the lease may rely on at each point.
LeasedRuns ==
  \A w \in Worker : Leased(w) =>
    LET j == wjob[w] IN
    /\ pc[w] \in {"rebuild", "prepare", "start", "begin", "failed", "rollback"} => Running(j)
    /\ pc[w] \in {"rebuild", "prepare"} => ~Unfinished(j)
    /\ pc[w] = "start" => Open(j) /\ duckManifest = activeVersion
    /\ pc[w] \in {"begin"} \union Activating => journalPhase[j] = "commit_started"
    /\ pc[w] \in {"prepare", "start", "begin"} \union Activating => currentSourceRun = jobParent[j]
    /\ pc[w] = "rollback" => /\ seen[w] \notin TerminalStatuses
                             /\ seen[w] = "cancel_requested" => jobStatus[j] = "cancel_requested"

\* A worker that is done leaves no running job behind, and one that has no lease
\* has nothing to undo.
UnfencedIsHarmless ==
  \A w \in Worker :
    /\ pc[w] = "release" => ~Running(wjob[w])
    /\ pc[w] \in {"inspect", "settle"} => wepoch[w] = 0
    /\ pc[w] \notin {"undo", "undone", "unknown"}
    /\ pc[w] = "finalize" /\ Committed(wjob[w]) => Leased(w)

-----------------------------------------------------------------------------
(* The journal and the two stores                                           *)

OneUnfinished == \A i, j \in Job : Unfinished(i) /\ Unfinished(j) => i = j

OpenRuns == \A j \in Job : Open(j) => Running(j)

OpenCanRollBack ==
  \A j \in Job : Open(j) =>
    /\ journalTarget[j] = None /\ currentSourceRun = jobParent[j]
    /\ \A t \in TablesOf[j] : rollbackManifest[j][t] = activeVersion[t]
    /\ \A t \in Table :
         \/ duckManifest[t] = activeVersion[t]
         \/ t \in TablesOf[j] /\ duckManifest[t] \in Worker /\ wjob[duckManifest[t]] = j

CommittedIsServed ==
  \A j \in Job : Committed(j) =>
    /\ journalTarget[j] # None /\ currentSourceRun = journalTarget[j]
    /\ duckManifest = activeVersion
    /\ \A t \in TablesOf[j] : duckManifest[t] = journalTarget[j]

\* The replica of the worker about to switch is complete.
SwitchIsComplete ==
  \A w \in Worker : pc[w] = "switch" => \A t \in TablesOf[wjob[w]] : duckManifest[t] = w

StagedByStarted == \A t \in Table, w \in Worker : duckManifest[t] = w => pc[w] # "idle"

LeaseInv ==
  /\ OneWorkerPerJob /\ HolderClaimed /\ ActiveEpoch /\ RunningHasLease /\ LiveRunningLeased
  /\ SucceededHere /\ LeasedRuns /\ UnfencedIsHarmless

StoreInv ==
  /\ OneUnfinished /\ OpenRuns /\ OpenCanRollBack /\ CommittedIsServed
  /\ SwitchIsComplete /\ StagedByStarted
  /\ CatalogAgreesWhenSettled /\ SuccessIsActivation

\* The invariant the proofs carry from step to step.
IInv == Ownership /\ LeaseInv /\ StoreInv
=============================================================================
