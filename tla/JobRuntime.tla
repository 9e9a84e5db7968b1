----------------------------- MODULE JobRuntime -----------------------------
(***************************************************************************)
(* The durable job table of tools/job_runtime_service.py: the status of    *)
(* every job, its progress, and the two statements that write them,        *)
(* transition_job and update_job_progress.  A row that is not there yet    *)
(* has the status "absent".  Event rows, labels, results and errors are    *)
(* left out.                                                               *)
(***************************************************************************)
EXTENDS Integers

CONSTANT Job

VARIABLES
  jobStatus,    \* analysis_jobs.status of every job
  jobProgress   \* analysis_jobs.progress, 0..100

jobVars == <<jobStatus, jobProgress>>

TerminalStatuses == {"succeeded", "failed", "canceled"}

LiveStatuses == {"queued", "running", "cancel_requested", "needs_attention"}

AllStatuses == {"absent"} \union LiveStatuses \union TerminalStatuses

\* The status "created" is missing: an import job is created and queued by one
\* commit, so no other process ever reads it.
AllowedTransitions ==
  [s \in AllStatuses |->
     CASE s = "queued" -> {"running", "canceled", "failed", "needs_attention"}
       [] s = "running" -> {"cancel_requested", "succeeded", "failed", "needs_attention"}
       [] s = "cancel_requested" -> {"canceled", "succeeded", "failed", "needs_attention"}
       [] s = "needs_attention" -> {"queued", "canceled", "succeeded", "failed"}
       [] OTHER -> {}]

Terminal(j) == jobStatus[j] \in TerminalStatuses

\* transition_job raises unless this holds; a transition to the status the job
\* already has is a no-op, and one that would lower the progress is refused.
MayTransition(j, status, progress) ==
  \/ status = jobStatus[j]
  \/ /\ status \in AllowedTransitions[jobStatus[j]]
     /\ progress >= jobProgress[j]

TransitionJob(j, status, progress) ==
  /\ MayTransition(j, status, progress)
  /\ jobStatus' = [jobStatus EXCEPT ![j] = status]
  /\ jobProgress' = [jobProgress EXCEPT ![j] =
                       IF status = jobStatus[j] THEN @
                       ELSE IF status = "succeeded" THEN 100
                       ELSE IF progress < 100 THEN progress ELSE 99]

\* update_job_progress raises unless this holds.
MayReport(j, progress) == jobStatus[j] = "running" /\ progress >= jobProgress[j]

\* create_job and the queueing transition, committed together.
CreateJobRow(j) ==
  /\ jobStatus[j] = "absent"
  /\ jobStatus' = [jobStatus EXCEPT ![j] = "queued"]
  /\ jobProgress' = [jobProgress EXCEPT ![j] = 0]

\* request_job_cancel: a running job is only asked to stop, one that has no
\* worker is canceled at once, and a repeated request changes nothing.
RequestJobCancel(j) ==
  /\ jobStatus[j] \in LiveStatuses \ {"cancel_requested"}
  /\ TransitionJob(j, IF jobStatus[j] = "running" THEN "cancel_requested" ELSE "canceled",
                   jobProgress[j])

JobTypeOK ==
  /\ jobStatus \in [Job -> AllStatuses]
  /\ jobProgress \in [Job -> 0..100]
=============================================================================
