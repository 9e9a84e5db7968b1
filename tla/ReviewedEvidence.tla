-------------------------- MODULE ReviewedEvidence --------------------------
(***************************************************************************)
(* From an executed question to a reviewed publication: the Query Receipt  *)
(* an ask freezes, the Analysis Unit stored for it, the Confirmed Query    *)
(* and Confirmed Plan Memory a user makes of it, and the publication with  *)
(* its evidence ledger.  Nothing here is ever rewritten when the data      *)
(* change: each reader compares what was frozen with what is current.      *)
(*                                                                         *)
(* A receipt stands for its ask and for the chart draft the ask makes: a   *)
(* query is keyed by both, a unit by the receipt, a publication by the     *)
(* memory and the unit.  Titles, contents and Skills are the same for all. *)
(* A publication's contract follows from its key, so a confirmation that   *)
(* names the fingerprint of a preview confirms that key.  Fingerprints are *)
(* what they cover.  A blocked answer leaves a receipt nothing else reads. *)
(*                                                                         *)
(* Ask, confirm-action, an import, the unit builder, publishing and the    *)
(* deletion hold the exclusive boundary.  confirm-query, confirmed-queries *)
(* and domain-pack-set share it, and attach_analysis_unit has none.        *)
(***************************************************************************)
EXTENDS Naturals, Sequences

CONSTANTS
  Receipt,      \* the questions asked, each answered by one receipt
  Table, Question, Pack,
  QuestionOf,   \* the question each of them puts, to any table
  MaxRuns,      \* bound: source runs after the first
  None

ASSUME EvidenceAssumption ==
  /\ QuestionOf \in [Receipt -> Question]
  /\ MaxRuns \in Nat

VARIABLES
  run, covered,   \* the workspace's current source run and the tables it has
  pack,           \* the enabled Domain Packs, and all else a receipt binds
  receipt,        \* query_plan_receipts: table and binding frozen, or None
  attach,         \* asks that still owe their unit, outside the boundary
  unit,           \* analysis_units
  query,          \* confirmed_queries
  memory,         \* confirmed_plan_memories
  listing,        \* rows a confirmed-queries command has found drifted
  publication,    \* reviewed_publications
  ledger,         \* evidence_ledger_entries
  stage           \* "live", "deleting" (fenced) or "deleted"

binding == <<run, covered, pack>>
confirmed == <<query, memory>>
audit == <<publication, ledger>>
vars == <<binding, receipt, attach, unit, confirmed, listing, audit, stage>>

Publication == Receipt \X Receipt       \* a memory and a unit
Kind == {"publication_created", "publication_deprecated", "publication_tombstoned"}
Genesis == <<>>

Entry == [kind : Kind, previous : Seq(Kind), hash : Seq(Kind)]
QueryStatus == {"none", "candidate", "confirmed", "deprecated", "stale"}

TypeOK ==
  /\ run \in 0..MaxRuns /\ covered \subseteq Table /\ pack \in Pack
  /\ receipt \in [Receipt -> [table : Table, run : 0..MaxRuns, pack : Pack] \union {None}]
  /\ attach \in [Receipt -> {"none", "owed", "checked"}]
  /\ unit \subseteq Receipt
  /\ query \in [Receipt -> [status : QueryStatus, receipt : Receipt]]
  /\ memory \in [Receipt -> [status : QueryStatus \ {"candidate"}, receipt : Receipt]]
  /\ listing \subseteq Receipt
  /\ publication \in [Publication -> [status : {"none", "current", "deprecated"},
                                      head : Seq(Kind), tombstoned : BOOLEAN]]
  /\ ledger \in [Publication -> Seq(Entry)]
  /\ stage \in {"live", "deleting", "deleted"}

Absent == [k \in Receipt |-> [status |-> "none", receipt |-> k]]

Init ==
  /\ run = 0 /\ covered \in SUBSET Table \ {{}} /\ pack \in Pack
  /\ receipt = [r \in Receipt |-> None]
  /\ attach = [r \in Receipt |-> "none"]
  /\ unit = {}
  /\ query = Absent /\ memory = Absent
  /\ listing = {}
  /\ publication = [p \in Publication |->
                     [status |-> "none", head |-> Genesis, tombstoned |-> FALSE]]
  /\ ledger = [p \in Publication |-> <<>>]
  /\ stage = "live"

-----------------------------------------------------------------------------
(* What is current, and who may run *)

\* A receipt is evidence while its run, its tables and its packs are current.
Matches(r) ==
  /\ receipt[r] # None
  /\ receipt[r].run = run /\ receipt[r].pack = pack
  /\ receipt[r].table \in covered

SameAnswer(k, l) ==
  receipt[k].table = receipt[l].table /\ QuestionOf[k] = QuestionOf[l]

\* A query or a memory in another status.
As(row, status) == [status |-> status, receipt |-> row.receipt]

\* A recovery fence lets no command in while a deletion is unfinished.
Shared == stage = "live"
Exclusive == stage = "live" /\ listing = {}

-----------------------------------------------------------------------------
(* The workspace changes *)

\* An import's activation commits: its tables are the current run's.
Activate(tables) ==
  /\ Exclusive
  /\ run < MaxRuns /\ tables # {}
  /\ run' = run + 1 /\ covered' = tables
  /\ UNCHANGED <<pack, receipt, attach, unit, confirmed, listing, audit, stage>>

\* domain-pack-set; edits of fields, terms and relationships drift alike.
SetPack(p) ==
  /\ Shared
  /\ p # pack
  /\ pack' = p
  /\ UNCHANGED <<run, covered, receipt, attach, unit, confirmed, listing, audit, stage>>

-----------------------------------------------------------------------------
(* Confirmed queries whose evidence has drifted *)

Drifted == {q \in Receipt : query[q].status = "confirmed" /\ ~Matches(query[q].receipt)}

\* Mutant of MarkStale: a drifted query leaves its memory as it is.
MarkQueriesStale(drifted) ==
  /\ query' = [q \in Receipt |->
       IF q \in drifted THEN As(query[q], "stale") ELSE query[q]]
  /\ memory' = memory

\* refresh_stale_confirmed_queries writes what it decided before: the query
\* whatever has become of it, the memory only if it is still confirmed.
MarkStale(drifted) ==
  /\ query' = [q \in Receipt |->
       IF q \in drifted THEN As(query[q], "stale") ELSE query[q]]
  /\ memory' = [q \in Receipt |->
       IF q \in drifted /\ memory[q].status = "confirmed"
       THEN As(memory[q], "stale") ELSE memory[q]]

\* confirmed-queries, a command that shares the boundary: it reads...
ListReads ==
  /\ Shared
  /\ listing = {} /\ Drifted # {}
  /\ listing' = Drifted
  /\ UNCHANGED <<binding, receipt, attach, unit, confirmed, audit, stage>>

\* ... and its first write opens the transaction.
ListWrites ==
  /\ Shared
  /\ listing # {}
  /\ MarkStale(listing)
  /\ listing' = {}
  /\ UNCHANGED <<binding, receipt, attach, unit, audit, stage>>

-----------------------------------------------------------------------------
(* Asks and their units *)

\* ask: recall refreshes what has drifted, and the answer's receipt is saved
\* with its draft after the source binding is checked once more.
Ask(r, t) ==
  /\ Exclusive
  /\ receipt[r] = None /\ t \in covered
  /\ MarkStale(Drifted)
  /\ receipt' = [receipt EXCEPT ![r] = [table |-> t, run |-> run, pack |-> pack]]
  /\ attach' = [attach EXCEPT ![r] = "owed"]
  /\ UNCHANGED <<binding, unit, listing, audit, stage>>

\* attach_analysis_unit runs when the boundary is released and checks the
\* receipt outside any transaction; a drifted one fails the ask.
AttachChecks(r) ==
  /\ attach[r] = "owed"
  /\ attach' = [attach EXCEPT ![r] = IF Matches(r) THEN "checked" ELSE "none"]
  /\ UNCHANGED <<binding, receipt, unit, confirmed, listing, audit, stage>>

\* The unit is stored, with whatever was committed since the check.
AttachStores(r) ==
  /\ attach[r] = "checked"
  /\ unit' = unit \union {r}
  /\ attach' = [attach EXCEPT ![r] = "none"]
  /\ UNCHANGED <<binding, receipt, confirmed, listing, audit, stage>>

\* The process dies before it has stored the unit.
AttachDies(r) ==
  /\ attach[r] # "none"
  /\ attach' = [attach EXCEPT ![r] = "none"]
  /\ UNCHANGED <<binding, receipt, unit, confirmed, listing, audit, stage>>

\* analysis-unit-build: the check and the unit are one transaction.
BuildUnit(r) ==
  /\ Exclusive
  /\ Matches(r)
  /\ unit' = unit \union {r}
  /\ UNCHANGED <<binding, receipt, attach, confirmed, listing, audit, stage>>

-----------------------------------------------------------------------------
(* Confirmation *)

Alive(q, r) == query[q].status \in {"candidate", "confirmed"} /\ SameAnswer(q, r)

HasConfirmed(r) == \E q \in Receipt : Alive(q, r) /\ query[q].status = "confirmed"

\* A confirmed answer with the same binding is returned as it is.
AlreadyConfirmed(r) ==
  \E q \in Receipt : /\ Alive(q, r) /\ query[q].status = "confirmed"
                     /\ receipt[query[q].receipt] = receipt[r]

\* create_confirmed_query_candidate: an unconfirmed candidate of the same
\* question (the one updated last) takes the new receipt.
RenewCandidate(q, r) ==
  /\ ~HasConfirmed(r) /\ Alive(q, r)
  /\ query' = [query EXCEPT ![q] = [status |-> "candidate", receipt |-> r]]

\* A question without one, or whose confirmed answer has another binding, gets
\* its own candidate, once.
NewCandidate(r) ==
  /\ \/ \A q \in Receipt : ~Alive(q, r)
     \/ HasConfirmed(r) /\ ~AlreadyConfirmed(r)
  /\ query[r].status = "none"
  /\ query' = [query EXCEPT ![r] = [status |-> "candidate", receipt |-> r]]

\* confirm-action on the draft of a chart, as often as the user likes.
ConfirmAction(r) ==
  /\ Exclusive
  /\ Matches(r)
  /\ NewCandidate(r) \/ \E q \in Receipt : RenewCandidate(q, r)
  /\ UNCHANGED <<binding, receipt, attach, unit, memory, listing, audit, stage>>

\* confirm-query --status confirmed, one transaction: the query whatever its
\* status, its memory, and what the new answer supersedes.  Memories of the
\* question are superseded in every table, queries in this one only.
ConfirmQuery(q) ==
  /\ Shared
  /\ query[q].status # "none"
  /\ Matches(query[q].receipt)
  /\ query' = [k \in Receipt |->
       IF k = q THEN As(query[q], "confirmed")
       ELSE IF Alive(k, q) THEN As(query[k], "deprecated")
       ELSE query[k]]
  /\ memory' = [k \in Receipt |->
       IF k = q THEN As(query[q], "confirmed")
       ELSE IF memory[k].status = "confirmed" /\ QuestionOf[k] = QuestionOf[q]
       THEN As(memory[k], "deprecated")
       ELSE memory[k]]
  /\ UNCHANGED <<binding, receipt, attach, unit, listing, audit, stage>>

\* confirm-query --status deprecated.
DeprecateQuery(q) ==
  /\ Shared
  /\ query[q].status # "none"
  /\ query' = [query EXCEPT ![q] = As(query[q], "deprecated")]
  /\ memory' = IF memory[q].status = "none" THEN memory
               ELSE [memory EXCEPT ![q] = As(memory[q], "deprecated")]
  /\ UNCHANGED <<binding, receipt, attach, unit, listing, audit, stage>>

-----------------------------------------------------------------------------
(* Reviewed publications and their ledger *)

\* _validated_inputs: what publishing demands of a memory and a unit.
Validated(q, r) ==
  /\ memory[q] = [status |-> "confirmed", receipt |-> r]
  /\ Matches(r)
  /\ r \in unit

LedgerHead(p) == IF ledger[p] = <<>> THEN Genesis ELSE ledger[p][Len(ledger[p])].hash

\* _append_ledger_entry: a hash covers the entry and all before it.
Appended(p, kind) ==
  Append(ledger[p], [kind |-> kind, previous |-> LedgerHead(p),
                     hash |-> Append(LedgerHead(p), kind)])

\* verify_evidence_ledger, and the head the publication keeps.
LedgerVerifies(p) ==
  /\ ledger[p] # <<>>
  /\ ledger[p][1].kind = "publication_created"
  /\ \A i \in 1..Len(ledger[p]) :
       /\ ledger[p][i].previous = IF i = 1 THEN Genesis ELSE ledger[p][i - 1].hash
       /\ ledger[p][i].hash = Append(ledger[p][i].previous, ledger[p][i].kind)
  /\ publication[p].head = LedgerHead(p)

Published(p) == publication[p].status # "none"

\* reviewed-publication-publish of a preview, revalidated in the transaction.
Publish(q, r) ==
  LET p == <<q, r>> IN
  /\ Exclusive
  /\ Validated(q, r)
  /\ ~Published(p) /\ LedgerHead(p) = Genesis
  /\ ledger' = [ledger EXCEPT ![p] = Appended(p, "publication_created")]
  /\ publication' = [publication EXCEPT ![p] =
       [status |-> "current", head |-> Append(Genesis, "publication_created"),
        tombstoned |-> FALSE]]
  /\ UNCHANGED <<binding, receipt, attach, unit, confirmed, listing, stage>>

\* Mutant of DeprecatePublication: the publication keeps its head.
DeprecateStatusOnly(p) ==
  /\ Exclusive
  /\ publication[p].status = "current" /\ LedgerVerifies(p)
  /\ ledger' = [ledger EXCEPT ![p] = Appended(p, "publication_deprecated")]
  /\ publication' = [publication EXCEPT ![p].status = "deprecated"]
  /\ UNCHANGED <<binding, receipt, attach, unit, confirmed, listing, stage>>

\* reviewed-publication-deprecate.
DeprecatePublication(p) ==
  /\ Exclusive
  /\ publication[p].status = "current" /\ LedgerVerifies(p)
  /\ ledger' = [ledger EXCEPT ![p] = Appended(p, "publication_deprecated")]
  /\ publication' = [publication EXCEPT ![p].status = "deprecated",
       ![p].head = Append(LedgerHead(p), "publication_deprecated")]
  /\ UNCHANGED <<binding, receipt, attach, unit, confirmed, listing, stage>>

\* Mutant of Undrifted: the memory's own status is not looked at.
UndriftedWhateverTheMemory(p) ==
  /\ SameAnswer(memory[p[1]].receipt, p[2])
  /\ Matches(p[2])
  /\ p[2] \in unit

\* _drift_reason_details finds nothing.  It compares the memory's plan, not
\* its receipt: one question of one table has one plan.
Undrifted(p) ==
  /\ memory[p[1]].status = "confirmed" /\ SameAnswer(memory[p[1]].receipt, p[2])
  /\ Matches(p[2])
  /\ p[2] \in unit

\* evaluate_reviewed_publication: what every reader is told.
EffectiveStatus(p) ==
  IF ~LedgerVerifies(p) THEN "integrity_failed"
  ELSE IF publication[p].status = "deprecated" THEN "deprecated"
  ELSE IF Undrifted(p) THEN "current" ELSE "stale"

-----------------------------------------------------------------------------
(* The workspace is deleted *)

ToTombstone == {p \in Publication : Published(p) /\ ~publication[p].tombstoned}

\* _tombstone_workspace_publications: every ledger, also a deprecated one's.
\* From here the fence is up, whatever dies.
Tombstone ==
  /\ Exclusive
  /\ \A p \in Publication : Published(p) => LedgerVerifies(p)
  /\ ledger' = [p \in Publication |->
       IF p \in ToTombstone THEN Appended(p, "publication_tombstoned") ELSE ledger[p]]
  /\ publication' = [p \in Publication |->
       IF p \in ToTombstone
       THEN [status |-> "deprecated", tombstoned |-> TRUE,
             head |-> Append(LedgerHead(p), "publication_tombstoned")]
       ELSE publication[p]]
  /\ stage' = "deleting"
  /\ UNCHANGED <<binding, receipt, attach, unit, confirmed, listing>>

\* _delete_workspace_sqlite: every row of the workspace, but not its audit.
DeleteRows ==
  /\ stage = "deleting"
  /\ stage' = "deleted"
  /\ receipt' = [r \in Receipt |-> None]
  /\ unit' = {} /\ covered' = {}
  /\ query' = Absent /\ memory' = Absent
  /\ UNCHANGED <<run, pack, attach, listing, audit>>

-----------------------------------------------------------------------------
Next ==
  \/ \E tables \in SUBSET Table : Activate(tables)
  \/ \E p \in Pack : SetPack(p)
  \/ \E r \in Receipt :
       \/ \E t \in Table : Ask(r, t)
       \/ AttachChecks(r) \/ AttachStores(r) \/ AttachDies(r) \/ BuildUnit(r)
       \/ ConfirmAction(r) \/ ConfirmQuery(r) \/ DeprecateQuery(r)
  \/ ListReads \/ ListWrites
  \/ \E q, r \in Receipt : Publish(q, r)
  \/ \E p \in Publication : DeprecatePublication(p)
  \/ Tombstone \/ DeleteRows

Spec == Init /\ [][Next]_vars

-----------------------------------------------------------------------------
(* Properties *)

\* However confirmations, refreshes and replaced candidates interleave, a
\* question has one confirmed answer in a table and one memory, and a memory
\* that may be recalled is of a query confirmed with the very same receipt.
ConfirmedAnswersAgree ==
  \A k, l \in Receipt :
    /\ query[k].status = "confirmed" /\ query[l].status = "confirmed" /\ SameAnswer(k, l)
       => k = l
    /\ memory[k].status = "confirmed" /\ memory[l].status = "confirmed"
       /\ QuestionOf[k] = QuestionOf[l] => k = l
    /\ memory[k].status = "confirmed" => query[k] = memory[k]

\* Rows outlive what they were made of: a query its receipt, a memory the
\* confirmation of its query, which keeps the receipt it was confirmed with, and
\* a current publication a memory of the receipt it froze.
EvidenceKept ==
  /\ \A q \in listing : stage = "live" /\ query[q].status # "none"
  /\ \A q \in Receipt :
       /\ query[q].status # "none" => receipt[q] # None
       /\ memory[q].status # "none" =>
            /\ query[q].status \in {"confirmed", "deprecated", "stale"}
            /\ query[q].receipt = memory[q].receipt
  /\ \A q, r \in Receipt : publication[<<q, r>>].status = "current" =>
       stage = "live" /\ memory[q].status # "none" /\ memory[q].receipt = r

\* A publication has a ledger that verifies, nothing else has one, and a
\* tombstone deprecates.
AuditStands ==
  \A p \in Publication :
    /\ IF Published(p) THEN LedgerVerifies(p) ELSE ledger[p] = <<>>
    /\ publication[p].tombstoned => publication[p].status = "deprecated"

IInv == TypeOK /\ ConfirmedAnswersAgree /\ EvidenceKept /\ AuditStands

\* A publication that may support a current decision could be published again
\* as it is: the query behind it is still confirmed with the receipt that was
\* published, though the evaluation compares plans and never reads the query.
CurrentIsReviewed ==
  \A q, r \in Receipt : EffectiveStatus(<<q, r>>) = "current" =>
    Validated(q, r) /\ query[q] = [status |-> "confirmed", receipt |-> r]

\* The audit outlives everything, the workspace included: entries are only
\* appended, every publication's chain verifies after every step, and what
\* was deprecated is never current again.
AuditedForGood ==
  [][\A p \in Publication :
       /\ Len(ledger[p]) <= Len(ledger'[p])
       /\ SubSeq(ledger'[p], 1, Len(ledger[p])) = ledger[p]
       /\ Published(p) => LedgerVerifies(p)'
       /\ publication[p].status = "deprecated" => EffectiveStatus(p)' = "deprecated"]_vars
=============================================================================
