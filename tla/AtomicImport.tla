---------------------------- MODULE AtomicImport ----------------------------
(***************************************************************************)
(* What an owner may rely on: a confirmed import either happens at once -  *)
(* the job succeeds, the workspace has a new current source run and every  *)
(* table of the plan reads the new version - or it ends failed or canceled *)
(* and nothing has changed.                                                *)
(***************************************************************************)
CONSTANTS Job, Run, Table, TablesOf, None

VARIABLES
  outcome,   \* "absent", "open", "succeeded", "failed" or "canceled"
  current,   \* the workspace's current source run
  version    \* the version every table reads

vars == <<outcome, current, version>>

Init ==
  /\ outcome = [j \in Job |-> "absent"]
  /\ current = None
  /\ version = [t \in Table |-> None]

Submit(j) ==
  /\ outcome[j] = "absent"
  /\ outcome' = [outcome EXCEPT ![j] = "open"]
  /\ UNCHANGED <<current, version>>

Activate(j, r) ==
  /\ outcome[j] = "open"
  /\ r \notin {None, current} \union {version[t] : t \in Table}
  /\ outcome' = [outcome EXCEPT ![j] = "succeeded"]
  /\ current' = r
  /\ version' = [t \in Table |-> IF t \in TablesOf[j] THEN r ELSE version[t]]

Abandon(j) ==
  /\ outcome[j] = "open"
  /\ \E end \in {"failed", "canceled"} : outcome' = [outcome EXCEPT ![j] = end]
  /\ UNCHANGED <<current, version>>

\* Recovery ends all canceled jobs of a workspace at once.
AbandonAll(jobs) ==
  /\ \A j \in jobs : outcome[j] = "open"
  /\ outcome' = [j \in Job |-> IF j \in jobs THEN "canceled" ELSE outcome[j]]
  /\ UNCHANGED <<current, version>>

Next ==
  \/ \E j \in Job : Submit(j) \/ Abandon(j) \/ \E r \in Run : Activate(j, r)
  \/ \E jobs \in SUBSET Job : AbandonAll(jobs)

Spec == Init /\ [][Next]_vars
=============================================================================
