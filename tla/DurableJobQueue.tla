--------------------------- MODULE DurableJobQueue --------------------------
(***************************************************************************)
(* The import queue of the HTTP gateway, server/durableJobRuntime.ts.  The *)
(* gateway is one thread: a step below is what it runs between two awaits. *)
(* Whatever it awaits -- a command it sent to the Runtime Host, a backoff  *)
(* timer -- is an element of the bag "calls".  A command takes effect in   *)
(* one step and answers in a later one; the job may move in between.       *)
(*                                                                         *)
(* Jobs and leases are the durable state the commands and the workers      *)
(* share.  What an import does to the data is left to ImportActivation;    *)
(* here it only ends its job.  A worker stands for a process and for the   *)
(* lease token it was started with; one whose exit has been reconciled is  *)
(* used again as a fresh one.  Retry counters only scale delays and are    *)
(* left out, as are source intelligence jobs, which never queue.           *)
(***************************************************************************)
EXTENDS Integers, Bags, SequencesExt

CONSTANTS
  Job,          \* import jobs
  Workspace,    \* an import lease excludes others in its own workspace only
  WorkspaceOf,  \* the workspace of each job
  Worker,       \* worker processes, at most this many at a time
  None,
  MaxRequests,  \* bound on owner requests being answered at a time
  Faults        \* which of QueueFaults happen

\* A command the queue sends fails or its answer is lost (the owner repeats a
\* request of his own that got no answer); the Runtime Host restarts its writer
\* and recovers the jobs; the owner selects another workspace; the owner's
\* requests about one job overlap, or reach the queue while it awaits a command
\* about that job.
QueueFaults == {"callError", "hostRestart", "workspaceSwitch", "ownerRacesQueue"}

ASSUME QueueAssumption ==
  /\ WorkspaceOf \in [Job -> Workspace]
  /\ None \notin Job \union Worker
  /\ MaxRequests \in Nat
  /\ Faults \subseteq QueueFaults

VARIABLES
  jobStatus,       \* analysis_jobs.status
  leaseHolder,     \* per workspace, the token in the import lease's row
  leaseActive,     \* its "active" column
  phase,           \* what the process does
  wjob,            \* its --job argument
  activeImport,
  pendingImports,
  activeWorkspace, \* what the commands without --workspace work on
  calls,           \* bag of what the gateway awaits
  shuttingDown

durableVars == <<jobStatus, leaseHolder, leaseActive>>
workerVars == <<phase, wjob>>
queueVars == <<activeImport, pendingImports>>
gatewayVars == <<durableVars, workerVars, queueVars, activeWorkspace, calls, shuttingDown>>

JobTable == INSTANCE JobRuntime WITH jobProgress <- [j \in Job |-> 0]

Running == {"running", "cancel_requested"}

Alive(w) == phase[w] \in {"started", "claimed", "done"}

\* The key of this.workers: a process the gateway has not seen close.
HasWorker(j) == \E w \in Worker : wjob[w] = j /\ Alive(w)

Pending(j) == \E i \in DOMAIN pendingImports : pendingImports[i] = j

-----------------------------------------------------------------------------
(* What the gateway awaits                                                  *)

Continuation(op, j, info) == [op |-> op, job |-> j, info |-> info]

Awaited == BagToSet(calls)

Requests == {"created", "resumed", "canceled"}

Timers == {"retryLaunch", "retrySettle"}

\* The queue itself awaits a command, or a timer, for the job.
QueueAwaits(j) == \E c \in Awaited : c.job = j /\ c.op \notin Requests \union Timers

TimerRuns(j) == \E c \in Awaited : c.job = j /\ c.op \in Timers

Accepting ==
  /\ ~shuttingDown
  /\ BagCardinality([c \in {d \in Awaited : d.op \in Requests} |-> calls[c]]) < MaxRequests

Await(c) == calls' = calls (+) SetToBag({c})
Answered(c) == calls' = calls (-) SetToBag({c})
Replace(c, d) == calls' = (calls (-) SetToBag({c})) (+) SetToBag({d})

-----------------------------------------------------------------------------
(* The synchronous parts of the queue                                       *)

\* launch: a process is spawned for the job.
Launch(j) ==
  \E w \in Worker :
    /\ phase[w] = "free"
    /\ phase' = [phase EXCEPT ![w] = "started"]
    /\ wjob' = [wjob EXCEPT ![w] = j]

LaunchImport(j) ==
  IF shuttingDown THEN UNCHANGED <<activeImport, workerVars>>
  ELSE activeImport' = j /\ Launch(j)

\* Faulty variant of EnqueueImport: only a process of the job itself counts.
EnqueueImportUnreserved(j, held) == LaunchImport(j) /\ UNCHANGED pendingImports

\* The queue's reservation is dropped or kept by the caller: "held" is the
\* active import it leaves behind.
EnqueueImport(j, held) ==
  \/ /\ shuttingDown
     /\ activeImport' = held
     /\ UNCHANGED <<pendingImports, workerVars>>
  \/ /\ ~shuttingDown /\ held = None
     /\ LaunchImport(j)
     /\ UNCHANGED pendingImports
  \/ /\ ~shuttingDown /\ held # None
     /\ activeImport' = held
     /\ pendingImports' = IF held = j \/ Pending(j) THEN pendingImports
                          ELSE Append(pendingImports, j)
     /\ UNCHANGED workerVars

\* Faulty variant of ShiftNext: the head is not reserved before its lookup.
ShiftNextUnreserved(c, held, pending) ==
  /\ UNCHANGED workerVars
  /\ activeImport' = held
  /\ IF shuttingDown \/ pending = <<>>
     THEN pendingImports' = pending /\ Answered(c)
     ELSE /\ pendingImports' = Tail(pending)
          /\ Replace(c, Continuation("claim", Head(pending), "sent"))

\* One turn of the loop of launchNextImport, up to its status lookup; the call
\* c that led to it has been answered.
ShiftNext(c, held, pending) ==
  /\ UNCHANGED workerVars
  /\ IF shuttingDown \/ pending = <<>>
     THEN /\ activeImport' = held
          /\ pendingImports' = pending
          /\ Answered(c)
     ELSE /\ activeImport' = Head(pending)
          /\ pendingImports' = Tail(pending)
          /\ Replace(c, Continuation("claim", Head(pending), "sent"))

\* Faulty variant of LaunchNextImport: nobody takes the head off the queue.
LaunchNextImportNever(c, held, pending) ==
  activeImport' = held /\ pendingImports' = pending /\ Answered(c) /\ UNCHANGED workerVars

\* launchNextImport checks the reservation only when it is entered.
LaunchNextImport(c, held, pending) ==
  IF held = None THEN ShiftNext(c, held, pending)
  ELSE /\ activeImport' = held
       /\ pendingImports' = pending
       /\ Answered(c)
       /\ UNCHANGED workerVars

Released(j) == IF activeImport = j THEN None ELSE activeImport

\* retryReservedImport, up to its timer.
RetryReserved(c, task) ==
  /\ activeImport' = c.job
  /\ Replace(c, Continuation(task, c.job, "sent"))
  /\ UNCHANGED <<pendingImports, workerVars>>

-----------------------------------------------------------------------------
(* Owner requests: the command runs, the gateway continues with its answer. *)
(* Resuming and canceling routes name no workspace and mean the active one. *)

\* import-job-create, or sqlserver-adapter-activate, whose route may name a
\* workspace that is not active.  A repeated request is answered with the job
\* as it is.
Create(j) ==
  /\ Accepting
  /\ \/ jobStatus[j] = "absent" /\ jobStatus' = [jobStatus EXCEPT ![j] = "queued"]
     \/ jobStatus[j] = "queued" /\ UNCHANGED jobStatus
  /\ Await(Continuation("created", j, "sent"))
  /\ UNCHANGED <<leaseHolder, leaseActive, workerVars, queueVars, activeWorkspace, shuttingDown>>

\* import-job-resume of a job whose inputs are still current.
Resume(j) ==
  /\ Accepting
  /\ jobStatus[j] = "needs_attention" /\ WorkspaceOf[j] = activeWorkspace
  /\ jobStatus' = [jobStatus EXCEPT ![j] = "queued"]
  /\ Await(Continuation("resumed", j, "sent"))
  /\ UNCHANGED <<leaseHolder, leaseActive, workerVars, queueVars, activeWorkspace, shuttingDown>>

\* job-cancel; the route reaches the queue when the job ends up canceled, or
\* asked to cancel.
Cancel(j) ==
  /\ Accepting
  /\ jobStatus[j] \in JobTable!LiveStatuses \union {"canceled"} /\ WorkspaceOf[j] = activeWorkspace
  /\ jobStatus' = [jobStatus EXCEPT ![j] = IF @ \in Running THEN "cancel_requested" ELSE "canceled"]
  /\ Await(Continuation("canceled", j, "sent"))
  /\ UNCHANGED <<leaseHolder, leaseActive, workerVars, queueVars, activeWorkspace, shuttingDown>>

\* The rest of startImport and of startSqlServerActivation.
Created(c) ==
  /\ c.op = "created"
  /\ Answered(c)
  /\ IF HasWorker(c.job) THEN UNCHANGED <<queueVars, workerVars>>
     ELSE EnqueueImport(c.job, activeImport)
  /\ UNCHANGED <<durableVars, activeWorkspace, shuttingDown>>

\* The rest of resumeImport.
Resumed(c) ==
  /\ c.op = "resumed"
  /\ Answered(c)
  /\ IF HasWorker(c.job) THEN UNCHANGED <<queueVars, workerVars>>
     ELSE EnqueueImport(c.job, Released(c.job))
  /\ UNCHANGED <<durableVars, activeWorkspace, shuttingDown>>

\* DurableJobRuntime.cancel.  A signal to the process only makes it end, which
\* it may at any time.
CancelProcess(c) ==
  /\ c.op = "canceled"
  /\ IF HasWorker(c.job)
     THEN Answered(c) /\ UNCHANGED <<queueVars, workerVars>>
     ELSE LET others == RemoveFirst(pendingImports, c.job) IN
          IF activeImport = c.job THEN LaunchNextImport(c, None, others)
          ELSE /\ pendingImports' = others
               /\ Answered(c)
               /\ UNCHANGED <<activeImport, workerVars>>
  /\ UNCHANGED <<durableVars, activeWorkspace, shuttingDown>>

-----------------------------------------------------------------------------
(* Worker processes and the commands' effects on jobs                       *)

Leased(w) == \E ws \in Workspace : leaseActive[ws] /\ leaseHolder[ws] = w

\* The claim of import-job-run; with the lease taken or the job moved on, the
\* process ends without it.
Claim(w) ==
  /\ phase[w] = "started" /\ jobStatus[wjob[w]] = "queued"
  /\ LET ws == WorkspaceOf[wjob[w]] IN
     /\ ~leaseActive[ws]
     /\ leaseHolder' = [leaseHolder EXCEPT ![ws] = w]
     /\ leaseActive' = [leaseActive EXCEPT ![ws] = TRUE]
  /\ jobStatus' = [jobStatus EXCEPT ![wjob[w]] = "running"]
  /\ phase' = [phase EXCEPT ![w] = "claimed"]
  /\ UNCHANGED <<wjob, queueVars, calls, activeWorkspace, shuttingDown>>

EndsJob(w, outcomes) ==
  /\ \E s \in outcomes \union {"failed", "needs_attention"} :
       /\ s \in JobTable!AllowedTransitions[jobStatus[wjob[w]]]
       /\ jobStatus' = [jobStatus EXCEPT ![wjob[w]] = s]
  /\ phase' = [phase EXCEPT ![w] = "done"]
  /\ UNCHANGED <<leaseHolder, leaseActive, wjob, queueVars, calls, activeWorkspace, shuttingDown>>

\* The claim is refused: the handler settles the job without a lease.
FailUnclaimed(w) == phase[w] = "started" /\ EndsJob(w, {})

\* The import ends; the handler is fenced, so a worker without its lease leaves
\* the job alone.
Finish(w) ==
  /\ phase[w] = "claimed" /\ Leased(w)
  /\ EndsJob(w, {"succeeded"} \union
                IF jobStatus[wjob[w]] = "cancel_requested" THEN {"canceled"} ELSE {})

ReleaseLease(w) ==
  /\ phase[w] = "done" /\ Leased(w)
  /\ leaseActive' = [leaseActive EXCEPT ![WorkspaceOf[wjob[w]]] = FALSE]
  /\ UNCHANGED <<jobStatus, leaseHolder, workerVars, queueVars, calls, activeWorkspace, shuttingDown>>

\* The process ends, of itself, killed or crashed; the close event takes it off
\* the map and sends import-job-process-exit.
WorkerCloses(w) ==
  /\ Alive(w)
  /\ phase' = [phase EXCEPT ![w] = "closed"]
  /\ Await(Continuation("exit", wjob[w], w))
  /\ UNCHANGED <<durableVars, wjob, queueVars, activeWorkspace, shuttingDown>>

\* recover_import_jobs.  An import that committed has succeeded already, so a
\* live job's import did not.
Recovered(s) ==
  CASE s = "cancel_requested" -> "canceled"
    [] s \in {"queued", "running", "needs_attention"} -> "needs_attention"
    [] OTHER -> s

\* The processes in W, and their tokens, are of no further use.
Reaped(W) ==
  /\ phase' = [w \in Worker |-> IF w \in W THEN "free" ELSE phase[w]]
  /\ wjob' = [w \in Worker |-> IF w \in W THEN None ELSE wjob[w]]

\* The lease's row of a job's workspace still bears the token of worker w.
Bears(j, w) == leaseHolder[WorkspaceOf[j]] = w

\* import-job-process-exit.  Only the worker whose token the lease's row still
\* bears is reconciled; a token nobody can ask for again is forgotten.  A lost
\* answer is handled like one that blocks the queue.
ReconcileExit(c) ==
  LET owner == Bears(c.job, c.info)
      ws == WorkspaceOf[c.job]
      status == IF owner THEN Recovered(jobStatus[c.job]) ELSE jobStatus[c.job] IN
  /\ c.op = "exit"
  /\ Reaped({c.info})
  /\ jobStatus' = [jobStatus EXCEPT ![c.job] = status]
  /\ leaseActive' = [leaseActive EXCEPT ![ws] = ~owner /\ @]
  /\ leaseHolder' = [leaseHolder EXCEPT ![ws] = IF owner THEN None ELSE @]
  /\ \E answer \in {IF owner /\ status \in JobTable!TerminalStatuses THEN "drain" ELSE "blocked"}
                  \union (IF "callError" \in Faults THEN {"blocked"} ELSE {}) :
       Replace(c, Continuation("settled", c.job, answer))
  /\ UNCHANGED <<queueVars, activeWorkspace, shuttingDown>>

\* The command does not reach the Runtime Host.
ReconcileExitFails(c) ==
  /\ "callError" \in Faults
  /\ c.op = "exit"
  /\ Replace(c, Continuation("settled", c.job, "blocked"))
  /\ IF Bears(c.job, c.info)
     THEN phase' = [phase EXCEPT ![c.info] = "lost"] /\ UNCHANGED wjob
     ELSE Reaped({c.info})
  /\ UNCHANGED <<durableVars, queueVars, activeWorkspace, shuttingDown>>

\* The Runtime Host restarts its writer: import-job-recover --all.
HostRestart ==
  LET forgotten == {w \in Worker : phase[w] = "lost"} IN
  /\ "hostRestart" \in Faults
  /\ leaseActive' = [ws \in Workspace |-> FALSE]
  /\ jobStatus' = [j \in Job |-> Recovered(jobStatus[j])]
  /\ <<jobStatus, leaseActive>>' # <<jobStatus, leaseActive>>
  /\ leaseHolder' = [ws \in Workspace |-> IF leaseHolder[ws] \in forgotten THEN None
                                          ELSE leaseHolder[ws]]
  /\ Reaped(forgotten)
  /\ UNCHANGED <<queueVars, activeWorkspace, calls, shuttingDown>>

\* workspace-select.
SelectWorkspace ==
  /\ "workspaceSwitch" \in Faults
  /\ activeWorkspace' \in Workspace \ {activeWorkspace}
  /\ UNCHANGED <<durableVars, workerVars, queueVars, calls, shuttingDown>>

-----------------------------------------------------------------------------
(* The queue's own continuations                                            *)

\* onSettled, and the first await of afterImportSettled.
AfterImportSettled(c) ==
  /\ c.op = "settled"
  /\ IF shuttingDown THEN Answered(c)
     ELSE LET command == IF c.info = "drain" THEN "finalize" ELSE "inspect"
          IN  Replace(c, Continuation(command, c.job, "sent"))
  /\ UNCHANGED <<durableVars, workerVars, queueVars, activeWorkspace, shuttingDown>>

\* finalizeSqlServerActivation has answered, well or badly.
Finalized(c) ==
  /\ c.op = "finalize"
  /\ LaunchNextImport(c, Released(c.job), pendingImports)
  /\ UNCHANGED <<durableVars, activeWorkspace, shuttingDown>>

\* The command "jobs --job" of either lookup reads the status of a job of the
\* active workspace.
ReadStatus(c) ==
  /\ c.op \in {"claim", "inspect"}
  /\ \E read \in {IF WorkspaceOf[c.job] = activeWorkspace THEN jobStatus[c.job] ELSE "missing"}
                 \union (IF "callError" \in Faults THEN {"error"} ELSE {}) :
       Replace(c, Continuation(IF c.op = "claim" THEN "claimed" ELSE "inspected", c.job, read))
  /\ UNCHANGED <<durableVars, workerVars, queueVars, activeWorkspace, shuttingDown>>

\* Faulty variant of Inspected: every job but a queued one lets the queue go on.
InspectedDrains(c) ==
  /\ c.op = "inspected"
  /\ \/ c.info = "queued" /\ RetryReserved(c, "retryLaunch")
     \/ c.info # "queued" /\ LaunchNextImport(c, Released(c.job), pendingImports)
  /\ UNCHANGED <<durableVars, activeWorkspace, shuttingDown>>

\* Faulty variant of Inspected: a job that is still queued is not tried again.
InspectedNoRetry(c) ==
  /\ c.op = "inspected"
  /\ IF c.info \in JobTable!TerminalStatuses
     THEN LaunchNextImport(c, Released(c.job), pendingImports)
     ELSE Answered(c) /\ UNCHANGED <<queueVars, workerVars>>
  /\ UNCHANGED <<durableVars, activeWorkspace, shuttingDown>>

\* The rest of afterImportSettled for an exit that was not reconciled.  A job
\* that runs elsewhere, needs attention or is not found keeps the reservation.
Inspected(c) ==
  /\ c.op = "inspected"
  /\ \/ /\ c.info = "succeeded"
        /\ Replace(c, Continuation("finalize", c.job, "sent"))
        /\ UNCHANGED <<queueVars, workerVars>>
     \/ /\ c.info \in {"failed", "canceled"}
        /\ LaunchNextImport(c, Released(c.job), pendingImports)
     \/ c.info = "queued" /\ RetryReserved(c, "retryLaunch")
     \/ c.info = "error" /\ RetryReserved(c, "retrySettle")
     \/ /\ c.info \in {"running", "cancel_requested", "needs_attention", "missing"}
        /\ Answered(c)
        /\ UNCHANGED <<queueVars, workerVars>>
  /\ UNCHANGED <<durableVars, activeWorkspace, shuttingDown>>

\* The backoff timer of retryReservedImport fires.
RetryTimer(c) ==
  /\ c.op \in Timers
  /\ UNCHANGED pendingImports
  /\ IF shuttingDown \/ activeImport # c.job \/ HasWorker(c.job)
     THEN Answered(c) /\ UNCHANGED <<activeImport, workerVars>>
     ELSE \/ c.op = "retryLaunch" /\ LaunchImport(c.job) /\ Answered(c)
          \/ /\ c.op = "retrySettle"
             /\ Replace(c, Continuation("inspect", c.job, "sent"))
             /\ UNCHANGED <<activeImport, workerVars>>
  /\ UNCHANGED <<durableVars, activeWorkspace, shuttingDown>>

\* The rest of a turn of launchNextImport.  A launch that throws, because the
\* job has a process, is treated like a lookup that failed; a job that is not
\* queued any more, or that lost its reservation, is passed over.
Claimed(c) ==
  /\ c.op = "claimed"
  /\ LET mine == activeImport = c.job /\ c.info = "queued" IN
     \/ /\ mine /\ (shuttingDown \/ ~HasWorker(c.job))
        /\ LaunchImport(c.job)
        /\ Answered(c)
        /\ UNCHANGED pendingImports
     \/ /\ c.info = "error" \/ (mine /\ ~shuttingDown /\ HasWorker(c.job))
        /\ RetryReserved(c, "retrySettle")
     \/ ~mine /\ c.info # "error" /\ ShiftNext(c, Released(c.job), pendingImports)
  /\ UNCHANGED <<durableVars, activeWorkspace, shuttingDown>>

\* shutdown: the queue is dropped and the processes are signalled.
ShutdownQueue ==
  /\ ~shuttingDown
  /\ shuttingDown' = TRUE
  /\ pendingImports' = <<>>
  /\ UNCHANGED <<durableVars, workerVars, activeImport, activeWorkspace, calls>>

-----------------------------------------------------------------------------

QueueInit ==
  /\ jobStatus = [j \in Job |-> "absent"]
  /\ leaseHolder = [ws \in Workspace |-> None]
  /\ leaseActive = [ws \in Workspace |-> FALSE]
  /\ phase = [w \in Worker |-> "free"]
  /\ wjob = [w \in Worker |-> None]
  /\ activeImport = None
  /\ pendingImports = <<>>
  /\ activeWorkspace \in Workspace
  /\ calls = EmptyBag
  /\ shuttingDown = FALSE

\* What the code does not enforce and the properties below rest on, unless the
\* faults drop it: an owner has one request about a job at a time, and its answer
\* reaches the queue while the queue awaits nothing about that job (a resume's, no
\* timer either).
OwnerInTurn(j) ==
  "ownerRacesQueue" \in Faults \/ \A c \in Awaited : c.job = j => c.op \notin Requests

AnswerInTurn(c) ==
  "ownerRacesQueue" \in Faults \/
    /\ c.op \in {"resumed", "canceled"} => ~QueueAwaits(c.job)
    /\ c.op = "resumed" => ~TimerRuns(c.job)

Owner == \E j \in Job : OwnerInTurn(j) /\ (Create(j) \/ Resume(j) \/ Cancel(j))

WorkerStep(w) == FailUnclaimed(w) \/ Finish(w) \/ ReleaseLease(w) \/ WorkerCloses(w)

\* What the gateway awaits happens.
Answer(c) ==
  \/ AnswerInTurn(c) /\ (Created(c) \/ Resumed(c) \/ CancelProcess(c))
  \/ ReconcileExit(c) \/ ReconcileExitFails(c)
  \/ AfterImportSettled(c) \/ Finalized(c)
  \/ ReadStatus(c) \/ Inspected(c) \/ Claimed(c)
  \/ RetryTimer(c)

QueueNext ==
  \/ Owner
  \/ \E w \in Worker : Claim(w) \/ WorkerStep(w)
  \/ \E c \in Awaited : Answer(c)
  \/ HostRestart
  \/ SelectWorkspace
  \/ ShutdownQueue

QueueSpec == QueueInit /\ [][QueueNext]_gatewayVars

-----------------------------------------------------------------------------
(* Properties                                                               *)

Ops == Requests \union {"exit", "settled", "finalize", "claim", "claimed", "inspect",
                        "inspected", "retryLaunch", "retrySettle"}

QueueTypeOK ==
  /\ jobStatus \in [Job -> JobTable!AllStatuses]
  /\ leaseHolder \in [Workspace -> Worker \union {None}]
  /\ leaseActive \in [Workspace -> BOOLEAN]
  /\ phase \in [Worker -> {"free", "started", "claimed", "done", "closed", "lost"}]
  /\ wjob \in [Worker -> Job \union {None}]
  /\ \A w \in Worker : wjob[w] = None <=> phase[w] = "free"
  /\ activeImport \in Job \union {None}
  /\ pendingImports \in Seq(Job)
  /\ activeWorkspace \in Workspace
  /\ IsABag(calls)
  /\ \A c \in Awaited : c.op \in Ops /\ c.job \in Job
  /\ shuttingDown \in BOOLEAN

Unsettled(j) == jobStatus[j] \in JobTable!LiveStatuses

Importing(w) == phase[w] \in {"started", "claimed"} /\ Unsettled(wjob[w])

\* The reservation is there so that no second child is launched: at most one
\* process of the gateway imports, or is about to.
OneImportRuns == \A v, w \in Worker : Importing(v) /\ Importing(w) => v = w

\* The job is active, pending, owned by a process, on its way into the queue, or
\* the subject of an answer the queue awaits.
Held(j) ==
  \/ activeImport = j \/ Pending(j) \/ HasWorker(j) \/ QueueAwaits(j)
  \/ \E c \in Awaited : c.op \in {"created", "resumed"} /\ c.job = j

\* Nothing loses a queued job between two awaits, until the gateway shuts down,
\* but a lookup of its status answered by the workspace that is active by then.
QueuedJobsAreHeld ==
  [][\A j \in Job : jobStatus'[j] = "queued" /\ ~Held(j)' /\ ~shuttingDown' =>
       \/ jobStatus[j] = "queued" /\ ~Held(j)
       \/ \E c \in Awaited : c.job = j /\ c.info = "missing"]_gatewayVars

\* No job waits behind an empty reservation, where nothing would ever start it,
\* and none waits twice.
PendingBehindActive ==
  /\ activeImport = None => pendingImports = <<>>
  /\ IsInjective(pendingImports)

\* The queue never moves on past a job that is running, whatever an exit, a
\* stale answer or a restarted Runtime Host says.
RunningJobsKeepTheQueue ==
  [][\A j \in Job : activeImport = j /\ activeImport' # j /\ ~shuttingDown
                    => jobStatus[j] # "running"]_gatewayVars

-----------------------------------------------------------------------------
(* The inductive invariant behind the four, for owners that do not race.    *)

NoOwnerRace == "ownerRacesQueue" \notin Faults

\* What the queue awaits, or is about to do, for the import that holds it.
Engaged(c) == c.op \notin Requests /\ c.job = activeImport

\* The queue follows one thread: a process of the active import, or one awaited
\* answer or timer about it, or neither.
OneThread ==
  /\ \A c \in Awaited : c.op \notin Requests \union Timers => c.job = activeImport
  /\ \A c, d \in Awaited : Engaged(c) /\ Engaged(d) => c = d
  /\ \A c \in Awaited : Engaged(c) => calls[c] = 1 /\ \A w \in Worker : ~Alive(w)
  /\ \A v, w \in Worker : Alive(v) /\ Alive(w) => v = w
  /\ \A w \in Worker : Alive(w) => wjob[w] = activeImport

\* The active import does not wait as well, and after a shutdown nothing does.
QueueInOrder ==
  /\ PendingBehindActive
  /\ activeImport # None => ~Pending(activeImport)
  /\ shuttingDown => pendingImports = <<>>

\* A timer that outlives the reservation of its job, which a cancel released,
\* never meets it again: the job comes back through a resume, which waits.
StaleTimersPass ==
  \A c \in Awaited : c.op \in Timers /\ c.job # activeImport =>
    /\ ~Pending(c.job)
    /\ \A d \in Awaited : d.op = "created" => d.job # c.job
    /\ \/ jobStatus[c.job] \notin {"absent", "queued"}
       \/ \E d \in Awaited : d.op = "resumed" /\ d.job = c.job

\* An owner has one request about a job, and one to cancel was heeded.
RequestsStand ==
  /\ \A c, d \in Awaited : c.op \in Requests /\ d.op \in Requests /\ c.job = d.job => c = d
  /\ \A c \in Awaited : c.op = "canceled" => jobStatus[c.job] \notin {"absent", "queued", "running"}

\* What an answer that is awaited still says of its job when it is handled.
AnswerHolds(c) ==
  /\ \/ c.op = "finalize"
     \/ c.op = "settled" /\ c.info = "drain"
     \/ c.op \in {"claimed", "inspected"} /\ c.info \in JobTable!TerminalStatuses
     => jobStatus[c.job] \in JobTable!TerminalStatuses
  /\ /\ c.op = "claimed" /\ c.info \notin {"queued", "error", "missing"}
     /\ jobStatus[c.job] = "queued"
     => \E d \in Awaited : d.op = "resumed" /\ d.job = c.job
  /\ c.op = "exit" => c.info \in Worker /\ phase[c.info] = "closed" /\ wjob[c.info] = c.job
  /\ jobStatus[c.job] # "absent"

AnswersStand ==
  /\ \A c \in Awaited : AnswerHolds(c)
  /\ \A j \in Job : activeImport = j \/ Pending(j) => jobStatus[j] # "absent"

\* A job that runs is the active import, and is past its claim.
RunningIsActive ==
  ~shuttingDown =>
    \A j \in Job : jobStatus[j] = "running" =>
      /\ activeImport = j
      /\ \A c \in Awaited : c.op \notin {"claim", "claimed"}

QueueInv ==
  /\ QueueTypeOK
  /\ OneThread
  /\ QueueInOrder
  /\ StaleTimersPass
  /\ RequestsStand
  /\ AnswersStand
  /\ RunningIsActive

-----------------------------------------------------------------------------
(* Fairness: the Runtime Host answers, timers fire, every process ends, and *)
(* a process does not for ever die before it claims a lease that is free.   *)

FairQueueSpec ==
  /\ QueueSpec
  /\ \A j \in Job, op \in Ops :
       WF_gatewayVars(\E c \in Awaited : c.job = j /\ c.op = op /\ Answer(c))
  /\ \A w \in Worker : WF_gatewayVars(WorkerCloses(w))
  /\ \A j \in Job : SF_gatewayVars(\E w \in Worker : wjob[w] = j /\ Claim(w))

NeedsOwner == activeImport # None /\ jobStatus[activeImport] = "needs_attention"

\* Every queued job gets its turn, unless the gateway shuts down or the job that
\* holds the queue waits for its owner.
QueuedJobsGetTheirTurn ==
  \A j \in Job : jobStatus[j] = "queued" ~>
                   jobStatus[j] # "queued" \/ NeedsOwner \/ shuttingDown
=============================================================================
