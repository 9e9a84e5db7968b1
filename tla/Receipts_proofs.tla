--------------------------- MODULE Receipts_proofs ---------------------------
(* What the workspace signs for, in ReviewedEvidence and SqlServerActivation.  *)
(* ReviewedEvidence, for any receipts, tables and questions: IInv is           *)
(* inductive, and with it a question has one confirmed answer, what is called  *)
(* current has been reviewed as it stands, and ledgers only grow.              *)
(* SqlServerActivation, for any plans, activations and other imports and any   *)
(* number of reads and events: SqlInv is inductive, and with it a receipt      *)
(* names an import of the very content the owner confirmed, nothing that is    *)
(* confirmed is replaced, and a gateway that starts owes no receipt.           *)
EXTENDS ReviewedEvidence, SqlServerActivation, TLAPS

-----------------------------------------------------------------------------
(* ReviewedEvidence *)

LEMMA InitHolds == Init => IInv
<1> SUFFICES ASSUME Init PROVE IInv
  OBVIOUS
<1> USE EvidenceAssumption DEF Init, Absent
<1>1. TypeOK
  <2>1. /\ query \in [Receipt -> [status : QueryStatus, receipt : Receipt]]
        /\ memory \in [Receipt -> [status : QueryStatus \ {"candidate"}, receipt : Receipt]]
    BY DEF QueryStatus
  <2> QED
    BY <2>1 DEF TypeOK, Publication, Genesis
<1>2. ConfirmedAnswersAgree /\ EvidenceKept
  BY DEF ConfirmedAnswersAgree, EvidenceKept, Publication
<1>3. AuditStands
  BY DEF AuditStands, Published
<1> QED
  BY <1>1, <1>2, <1>3 DEF IInv

-----------------------------------------------------------------------------
(* Ledgers *)

\* An append to a ledger that verifies, or to none, keeps what is there and makes
\* the new entry's hash the head.
LEMMA AppendVerifies ==
  ASSUME TypeOK, AuditStands, NEW p \in Publication, NEW kind \in Kind,
         kind = "publication_created" <=> ~Published(p)
  PROVE  LET new == Appended(p, kind) IN
         /\ new \in Seq(Entry) /\ Len(new) = Len(ledger[p]) + 1
         /\ SubSeq(new, 1, Len(ledger[p])) = ledger[p]
         /\ LedgerHead(p) \in Seq(Kind)
         /\ (~Published(p) => LedgerHead(p) = Genesis)
         /\ new[Len(new)].hash = Append(LedgerHead(p), kind)
         /\ new[1].kind = "publication_created"
         /\ \A i \in 1..Len(new) :
              /\ new[i].previous = IF i = 1 THEN Genesis ELSE new[i - 1].hash
              /\ new[i].hash = Append(new[i].previous, new[i].kind)
<1> DEFINE old == ledger[p]
           new == Appended(p, kind)
           last == [kind |-> kind, previous |-> LedgerHead(p), hash |-> Append(LedgerHead(p), kind)]
<1>1. old \in Seq(Entry) /\ Len(old) \in Nat
  BY DEF TypeOK
<1>2. old = <<>> <=> ~Published(p)
  BY DEF AuditStands, LedgerVerifies
<1>3. old # <<>> => Len(old) \in 1..Len(old) /\ old[Len(old)] \in Entry
  BY <1>1
<1>4. LedgerHead(p) \in Seq(Kind) /\ (~Published(p) => LedgerHead(p) = Genesis)
  BY <1>2, <1>3 DEF LedgerHead, Genesis, Entry
<1>5. last \in Entry
  BY <1>4 DEF Entry
<1>6. new = Append(old, last)
  BY DEF Appended
<1>7. /\ new \in Seq(Entry) /\ Len(new) = Len(old) + 1
      /\ new[Len(new)] = last
      /\ \A i \in 1..Len(old) : new[i] = old[i]
      /\ SubSeq(new, 1, Len(old)) = old
  <2> HIDE DEF last, old, new
  <2> QED
    BY <1>1, <1>5, <1>6
<1>8. new[1].kind = "publication_created"
  <2>1. CASE Published(p)
    BY <2>1, <1>1, <1>2, <1>7 DEF AuditStands, LedgerVerifies
  <2>2. CASE ~Published(p)
    <3>1. Len(new) = 1 /\ kind = "publication_created"
      BY <2>2, <1>2, <1>7
    <3> QED
      BY <3>1, <1>7
  <2> QED
    BY <2>1, <2>2
<1>9. ASSUME NEW i \in 1..Len(new)
      PROVE  /\ new[i].previous = IF i = 1 THEN Genesis ELSE new[i - 1].hash
             /\ new[i].hash = Append(new[i].previous, new[i].kind)
  <2>1. CASE i = Len(new)
    <3>1. new[i] = last
      BY <2>1, <1>7
    <3>2. last.previous = IF i = 1 THEN Genesis ELSE new[i - 1].hash
      <4>1. CASE i = 1
        BY <4>1, <2>1, <1>1, <1>2, <1>4, <1>7
      <4>2. CASE i # 1
        <5>1. i - 1 = Len(old) /\ old # <<>> /\ i - 1 \in 1..Len(old)
          BY <4>2, <2>1, <1>1, <1>7
        <5> QED
          BY <5>1, <4>2, <1>7 DEF LedgerHead
      <4> QED
        BY <4>1, <4>2
    <3> QED
      BY <3>1, <3>2
  <2>2. CASE i # Len(new)
    <3>1. i \in 1..Len(old) /\ (i # 1 => i - 1 \in 1..Len(old))
      BY <2>2, <1>1, <1>7
    <3>2. Published(p)
      BY <3>1, <1>2
    <3>3. /\ old[i].previous = IF i = 1 THEN Genesis ELSE old[i - 1].hash
          /\ old[i].hash = Append(old[i].previous, old[i].kind)
      BY <3>1, <3>2 DEF AuditStands, LedgerVerifies
    <3> QED
      BY <3>1, <3>3, <1>7
  <2> QED
    BY <2>1, <2>2
<1> QED
  BY <1>4, <1>7, <1>8, <1>9

-----------------------------------------------------------------------------
(* One lemma for each part of the invariant                                 *)

LEMMA StepKeepsTypes ==
  ASSUME IInv, [Next]_vars
  PROVE  TypeOK'
<1> USE EvidenceAssumption DEF IInv, TypeOK
<1>0. Absent \in [Receipt -> [status : QueryStatus, receipt : Receipt]]
      /\ Absent \in [Receipt -> [status : QueryStatus \ {"candidate"}, receipt : Receipt]]
  BY DEF Absent, QueryStatus
<1>1. CASE \E tables \in SUBSET Table : Activate(tables)
  BY <1>1 DEF Activate, confirmed, audit
<1>2. CASE \E p \in Pack : SetPack(p)
  BY <1>2 DEF SetPack, confirmed, audit
<1>3. ASSUME NEW drifted \in SUBSET Receipt, MarkStale(drifted)
      PROVE  /\ query' \in [Receipt -> [status : QueryStatus, receipt : Receipt]]
             /\ memory' \in [Receipt -> [status : QueryStatus \ {"candidate"}, receipt : Receipt]]
  BY <1>3 DEF MarkStale, As, QueryStatus
<1>4. CASE \E r \in Receipt, t \in Table : Ask(r, t)
  <2>1. Drifted \in SUBSET Receipt
    BY DEF Drifted
  <2> QED
    BY <1>3, <1>4, <2>1 DEF Ask, binding, audit
<1>5. CASE \E r \in Receipt : AttachChecks(r) \/ AttachStores(r) \/ AttachDies(r) \/ BuildUnit(r)
  <2> PICK r \in Receipt : AttachChecks(r) \/ AttachStores(r) \/ AttachDies(r) \/ BuildUnit(r)
    BY <1>5
  <2>1. CASE AttachChecks(r)
    BY <2>1 DEF AttachChecks, binding, confirmed, audit
  <2>2. CASE AttachStores(r)
    BY <2>2 DEF AttachStores, binding, confirmed, audit
  <2>3. CASE AttachDies(r)
    BY <2>3 DEF AttachDies, binding, confirmed, audit
  <2>4. CASE BuildUnit(r)
    BY <2>4 DEF BuildUnit, binding, confirmed, audit
  <2> QED
    BY <2>1, <2>2, <2>3, <2>4
<1>6. CASE \E r \in Receipt : ConfirmAction(r)
  <2> PICK r \in Receipt : ConfirmAction(r)
    BY <1>6
  <2>1. \E q \in Receipt : query' = [query EXCEPT ![q] = [status |-> "candidate", receipt |-> r]]
    BY DEF ConfirmAction, NewCandidate, RenewCandidate
  <2>2. [status |-> "candidate", receipt |-> r] \in [status : QueryStatus, receipt : Receipt]
    BY DEF QueryStatus
  <2>3. query' \in [Receipt -> [status : QueryStatus, receipt : Receipt]]
    BY <2>1, <2>2
  <2> QED
    BY <2>3 DEF ConfirmAction, binding, audit
<1>7. CASE \E q \in Receipt : ConfirmQuery(q)
  <2> PICK q \in Receipt : ConfirmQuery(q)
    BY <1>7
  <2>1. \A k \in Receipt, st \in QueryStatus \ {"candidate"} :
          /\ As(query[k], st) \in [status : QueryStatus, receipt : Receipt]
          /\ As(query[k], st) \in [status : QueryStatus \ {"candidate"}, receipt : Receipt]
          /\ As(memory[k], st) \in [status : QueryStatus \ {"candidate"}, receipt : Receipt]
    BY DEF As
  <2>2. {"confirmed", "deprecated"} \subseteq QueryStatus \ {"candidate"}
    BY DEF QueryStatus
  <2>3. query' \in [Receipt -> [status : QueryStatus, receipt : Receipt]]
    BY <2>1, <2>2 DEF ConfirmQuery
  <2>4. memory' \in [Receipt -> [status : QueryStatus \ {"candidate"}, receipt : Receipt]]
    BY <2>1, <2>2 DEF ConfirmQuery
  <2> QED
    BY <2>3, <2>4 DEF ConfirmQuery, binding, audit
<1>8. CASE \E q \in Receipt : DeprecateQuery(q)
  BY <1>8 DEF DeprecateQuery, As, binding, audit, QueryStatus
<1>9. CASE ListReads
  BY <1>9 DEF ListReads, Drifted, binding, confirmed, audit
<1>10. CASE ListWrites
  BY <1>3, <1>10 DEF ListWrites, binding, audit
<1>11. CASE \E q, r \in Receipt : Publish(q, r)
  <2> PICK q \in Receipt, r \in Receipt : Publish(q, r)
    BY <1>11
  <2>1. <<q, r>> \in Publication /\ ~Published(<<q, r>>)
    BY DEF Publish, Publication
  <2>2. Appended(<<q, r>>, "publication_created") \in Seq(Entry)
    BY <2>1, AppendVerifies DEF Kind
  <2>3. Append(Genesis, "publication_created") \in Seq(Kind)
    BY DEF Genesis, Kind
  <2> QED
    BY <2>1, <2>2, <2>3 DEF Publish, binding, confirmed
<1>12. CASE \E p \in Publication : DeprecatePublication(p)
  <2> PICK p \in Publication : DeprecatePublication(p)
    BY <1>12
  <2>1. Published(p)
    BY DEF DeprecatePublication, Published
  <2>2. Appended(p, "publication_deprecated") \in Seq(Entry) /\ LedgerHead(p) \in Seq(Kind)
    BY <2>1, AppendVerifies DEF Kind
  <2>3. Append(LedgerHead(p), "publication_deprecated") \in Seq(Kind)
    BY <2>2 DEF Kind
  <2> QED
    BY <2>2, <2>3 DEF DeprecatePublication, binding, confirmed
<1>13. CASE Tombstone
  <2>1. ASSUME NEW p \in ToTombstone
        PROVE  /\ Appended(p, "publication_tombstoned") \in Seq(Entry)
               /\ Append(LedgerHead(p), "publication_tombstoned") \in Seq(Kind)
    <3>1. p \in Publication /\ Published(p)
      BY DEF ToTombstone
    <3>2. Appended(p, "publication_tombstoned") \in Seq(Entry) /\ LedgerHead(p) \in Seq(Kind)
      BY <3>1, AppendVerifies DEF Kind
    <3> QED
      BY <3>2 DEF Kind
  <2> QED
    BY <1>13, <2>1 DEF Tombstone, binding, confirmed
<1>14. CASE DeleteRows
  BY <1>0, <1>14 DEF DeleteRows, audit
<1>15. CASE UNCHANGED vars
  BY <1>15 DEF vars, binding, confirmed, audit
<1> QED
  BY <1>1, <1>2, <1>4, <1>5, <1>6, <1>7, <1>8, <1>9, <1>10, <1>11, <1>12, <1>13, <1>14, <1>15
  DEF Next

\* A step that leaves receipts, queries and memories alone.
LEMMA AnswersUntouched ==
  ASSUME ConfirmedAnswersAgree, UNCHANGED <<receipt, query, memory>>
  PROVE  ConfirmedAnswersAgree'
BY DEF ConfirmedAnswersAgree, SameAnswer

\* Marking rows stale confirms nothing.
LEMMA MarkStaleAgrees ==
  ASSUME IInv, NEW drifted \in SUBSET Receipt, MarkStale(drifted),
         \A q \in Receipt : receipt[q] # None => receipt'[q] = receipt[q]
  PROVE  ConfirmedAnswersAgree'
<1>1. ASSUME NEW k \in Receipt
      PROVE  /\ query'[k].status = "confirmed" =>
                  query[k].status = "confirmed" /\ receipt'[k] = receipt[k]
             /\ memory'[k].status = "confirmed" =>
                  memory[k].status = "confirmed" /\ query'[k] = query[k] /\ memory'[k] = memory[k]
  BY DEF IInv, TypeOK, MarkStale, As, EvidenceKept, QueryStatus
<1> QED
  BY <1>1 DEF IInv, ConfirmedAnswersAgree, SameAnswer

LEMMA StepKeepsAnswers ==
  ASSUME IInv, [Next]_vars
  PROVE  ConfirmedAnswersAgree'
<1> USE DEF IInv
<1>1. CASE \/ \E tables \in SUBSET Table : Activate(tables)
           \/ \E p \in Pack : SetPack(p)
           \/ \E r \in Receipt : AttachChecks(r) \/ AttachStores(r) \/ AttachDies(r) \/ BuildUnit(r)
           \/ ListReads \/ Tombstone
           \/ \E q, r \in Receipt : Publish(q, r)
           \/ \E p \in Publication : DeprecatePublication(p)
           \/ UNCHANGED vars
  BY <1>1, AnswersUntouched
     DEF Activate, SetPack, AttachChecks, AttachStores, AttachDies, BuildUnit, ListReads,
         Publish, DeprecatePublication, Tombstone, binding, confirmed, vars
<1>2. CASE \E r \in Receipt, t \in Table : Ask(r, t)
  <2> PICK r \in Receipt, t \in Table : Ask(r, t)
    BY <1>2
  <2>1. Drifted \in SUBSET Receipt /\ MarkStale(Drifted)
    BY DEF Ask, Drifted
  <2>2. \A q \in Receipt : receipt[q] # None => receipt'[q] = receipt[q]
    BY DEF Ask, TypeOK
  <2> QED
    BY <2>1, <2>2, MarkStaleAgrees
<1>3. CASE ListWrites
  BY <1>3, MarkStaleAgrees DEF ListWrites, TypeOK
<1>4. CASE \E r \in Receipt : ConfirmAction(r)
  <2> PICK r \in Receipt : ConfirmAction(r)
    BY <1>4
  <2>1. receipt' = receipt /\ memory' = memory
    BY DEF ConfirmAction
  <2>2. ASSUME NEW k \in Receipt
        PROVE  /\ query'[k].status = "confirmed" => query[k].status = "confirmed"
               /\ memory[k].status = "confirmed" => query'[k] = query[k]
    <3>1. CASE NewCandidate(r)
      <4>1. memory[r].status # "confirmed"
        BY <3>1 DEF NewCandidate, EvidenceKept
      <4> QED
        BY <3>1, <4>1 DEF NewCandidate, TypeOK
    <3>2. CASE \E q \in Receipt : RenewCandidate(q, r)
      <4> PICK q \in Receipt : RenewCandidate(q, r)
        BY <3>2
      <4>1. query[q].status = "candidate"
        BY DEF RenewCandidate, Alive, HasConfirmed
      <4>2. memory[q].status # "confirmed"
        BY <4>1 DEF EvidenceKept
      <4> QED
        BY <4>1, <4>2 DEF RenewCandidate, TypeOK
    <3> QED
      BY <3>1, <3>2 DEF ConfirmAction
  <2> QED
    BY <2>1, <2>2 DEF ConfirmedAnswersAgree, SameAnswer
<1>5. CASE \E q \in Receipt : ConfirmQuery(q)
  <2> PICK q \in Receipt : ConfirmQuery(q)
    BY <1>5
  <2>1. receipt' = receipt
    BY DEF ConfirmQuery
  <2>2. query'[q] = [status |-> "confirmed", receipt |-> query[q].receipt]
        /\ memory'[q] = query'[q]
    BY DEF ConfirmQuery, As, TypeOK
  <2>3. ASSUME NEW k \in Receipt, k # q
        PROVE  /\ query'[k].status = "confirmed" =>
                    query[k].status = "confirmed" /\ ~SameAnswer(k, q) /\ query'[k] = query[k]
               /\ memory'[k].status = "confirmed" =>
                    memory[k].status = "confirmed" /\ memory'[k] = memory[k]
                    /\ QuestionOf[k] # QuestionOf[q] /\ query'[k] = query[k]
    <3>1. /\ query'[k] = IF Alive(k, q) THEN As(query[k], "deprecated") ELSE query[k]
          /\ memory'[k] = IF memory[k].status = "confirmed" /\ QuestionOf[k] = QuestionOf[q]
                          THEN As(memory[k], "deprecated") ELSE memory[k]
      BY <2>3 DEF ConfirmQuery
    <3>2. query[k].status \in QueryStatus /\ memory[k].status \in QueryStatus
      BY DEF TypeOK
    <3>3. query'[k].status = "confirmed" => ~Alive(k, q) /\ query'[k] = query[k]
      BY <3>1, <3>2 DEF As, TypeOK
    <3>4. memory'[k].status = "confirmed" =>
            memory[k].status = "confirmed" /\ QuestionOf[k] # QuestionOf[q] /\ memory'[k] = memory[k]
      BY <3>1, <3>2 DEF As, TypeOK
    <3>5. QuestionOf[k] # QuestionOf[q] => query'[k] = query[k]
      BY <3>1 DEF Alive, SameAnswer
    <3> QED
      BY <3>3, <3>4, <3>5 DEF Alive
  <2>4. SameAnswer(q, q) /\ \A k \in Receipt : SameAnswer(q, k) <=> SameAnswer(k, q)
    BY DEF SameAnswer
  <2>5. \A k, l \in Receipt : SameAnswer(k, l)' = SameAnswer(k, l)
    BY <2>1 DEF SameAnswer
  <2> QED
    BY <2>2, <2>3, <2>4, <2>5 DEF ConfirmedAnswersAgree
<1>6. CASE \E q \in Receipt : DeprecateQuery(q)
  <2> PICK q \in Receipt : DeprecateQuery(q)
    BY <1>6
  <2>1. ASSUME NEW k \in Receipt
        PROVE  /\ query'[k].status = "confirmed" => query[k].status = "confirmed"
               /\ memory'[k].status = "confirmed" =>
                    memory[k].status = "confirmed" /\ memory'[k] = memory[k] /\ query'[k] = query[k]
    BY DEF DeprecateQuery, As, TypeOK
  <2>2. receipt' = receipt
    BY DEF DeprecateQuery
  <2> QED
    BY <2>1, <2>2 DEF ConfirmedAnswersAgree, SameAnswer
<1>7. CASE DeleteRows
  BY <1>7 DEF DeleteRows, Absent, ConfirmedAnswersAgree
<1> QED
  BY <1>1, <1>2, <1>3, <1>4, <1>5, <1>6, <1>7 DEF Next

\* A step that moves a query or its memory leaves them in step.
RowKept(q) ==
  /\ query'[q].status # "none" => receipt'[q] # None
  /\ \/ query'[q] = query[q] /\ memory'[q] = memory[q]
     \/ memory[q].status = "none" /\ memory'[q].status = "none"
     \/ /\ query'[q].status \in {"confirmed", "deprecated", "stale"}
        /\ memory'[q].status # "none" => query'[q].receipt = memory'[q].receipt
        /\ memory[q].status # "none" =>
             memory'[q].status # "none" /\ memory'[q].receipt = memory[q].receipt

LEMMA RowsKept ==
  ASSUME IInv, publication' = publication, stage' = stage,
         \A q \in Receipt : RowKept(q),
         \A q \in listing' : stage = "live" /\ query'[q].status # "none"
  PROVE  EvidenceKept'
<1> USE DEF IInv, EvidenceKept
<1>1. ASSUME NEW q \in Receipt, NEW r \in Receipt, publication'[<<q, r>>].status = "current"
      PROVE  stage' = "live" /\ memory'[q].status # "none" /\ memory'[q].receipt = r
  <2>1. stage = "live" /\ memory[q].status # "none" /\ memory[q].receipt = r
    BY <1>1
  <2> QED
    BY <2>1 DEF RowKept
<1>2. ASSUME NEW q \in Receipt
      PROVE  /\ query'[q].status # "none" => receipt'[q] # None
             /\ memory'[q].status # "none" =>
                  /\ query'[q].status \in {"confirmed", "deprecated", "stale"}
                  /\ query'[q].receipt = memory'[q].receipt
  BY DEF RowKept
<1> QED
  BY <1>1, <1>2

LEMMA MarkStaleKeeps ==
  ASSUME IInv, NEW drifted \in SUBSET Receipt, MarkStale(drifted), NEW q \in Receipt,
         q \in drifted => query[q].status # "none",
         receipt[q] # None => receipt'[q] # None
  PROVE  RowKept(q) /\ (query[q].status # "none" => query'[q].status # "none")
<1>1. query'[q] = IF q \in drifted THEN As(query[q], "stale") ELSE query[q]
  BY DEF MarkStale
<1>2. memory'[q] = IF q \in drifted /\ memory[q].status = "confirmed"
                   THEN As(memory[q], "stale") ELSE memory[q]
  BY DEF MarkStale
<1>3. memory[q].status # "none" => query[q].receipt = memory[q].receipt
  BY DEF IInv, EvidenceKept
<1>4. query[q].status # "none" => receipt[q] # None
  BY DEF IInv, EvidenceKept
<1>5. CASE q \in drifted
  <2>1. query'[q].status = "stale" /\ query'[q].receipt = query[q].receipt
    BY <1>1, <1>5 DEF As
  <2>2. memory'[q].receipt = memory[q].receipt /\ (memory'[q].status = "none" <=> memory[q].status = "none")
    BY <1>2 DEF As
  <2> QED
    BY <2>1, <2>2, <1>3, <1>4, <1>5 DEF RowKept
<1>6. CASE q \notin drifted
  BY <1>1, <1>2, <1>4, <1>6 DEF RowKept
<1> QED
  BY <1>5, <1>6

LEMMA StepKeepsEvidence ==
  ASSUME IInv, [Next]_vars, TypeOK'
  PROVE  EvidenceKept'
<1> USE DEF IInv
<1>1. ASSUME UNCHANGED <<query, memory, publication, stage>>,
             \A q \in Receipt : receipt[q] # None => receipt'[q] # None,
             listing' \subseteq listing \union Drifted, listing' = {} \/ stage = "live"
      PROVE  EvidenceKept'
  <2>1. \A q \in Receipt : RowKept(q)
    BY <1>1 DEF RowKept, EvidenceKept
  <2>2. \A q \in listing' : stage = "live" /\ query'[q].status # "none"
    BY <1>1 DEF Drifted, EvidenceKept
  <2> QED
    BY <1>1, <2>1, <2>2, RowsKept
<1>2. CASE \/ \E tables \in SUBSET Table : Activate(tables)
           \/ \E p \in Pack : SetPack(p)
           \/ \E r \in Receipt : AttachChecks(r) \/ AttachStores(r) \/ AttachDies(r) \/ BuildUnit(r)
           \/ ListReads \/ UNCHANGED vars
  <2>1. listing = {} \/ stage = "live"
    BY DEF EvidenceKept
  <2> QED
    BY <1>1, <1>2, <2>1
       DEF Activate, SetPack, AttachChecks, AttachStores, AttachDies, BuildUnit, ListReads,
           Shared, confirmed, audit, vars
<1>3. CASE \E r \in Receipt, t \in Table : Ask(r, t)
  <2> PICK r \in Receipt, t \in Table : Ask(r, t)
    BY <1>3
  <2>1. receipt' = [receipt EXCEPT ![r] = [table |-> t, run |-> run, pack |-> pack]]
        /\ receipt[r] = None /\ MarkStale(Drifted) /\ listing' = {}
        /\ publication' = publication /\ stage' = stage
    BY DEF Ask, Exclusive, audit
  <2>2. ASSUME NEW q \in Receipt
        PROVE  RowKept(q)
    <3>1. q # r => receipt'[q] = receipt[q]
      BY <2>1 DEF TypeOK
    <3>2. receipt[q] # None => receipt'[q] # None
      BY <2>1, <3>1
    <3>3. Drifted \in SUBSET Receipt /\ (q \in Drifted => query[q].status # "none")
      BY DEF Drifted
    <3> QED
      BY <2>1, <3>2, <3>3, MarkStaleKeeps
  <2> QED
    BY <2>1, <2>2, RowsKept
<1>4. CASE ListWrites
  <2>1. MarkStale(listing) /\ listing' = {} /\ receipt' = receipt
        /\ publication' = publication /\ stage' = stage
    BY <1>4 DEF ListWrites, audit
  <2>2. \A q \in Receipt : RowKept(q)
    BY <2>1, MarkStaleKeeps DEF EvidenceKept, TypeOK
  <2> QED
    BY <2>1, <2>2, RowsKept
<1>5. CASE \E r \in Receipt : ConfirmAction(r)
  <2> PICK r \in Receipt : ConfirmAction(r)
    BY <1>5
  <2>1. receipt[r] # None /\ UNCHANGED <<receipt, memory, publication, stage>> /\ listing' = {}
    BY DEF ConfirmAction, Matches, Exclusive, audit
  <2>2. PICK q \in Receipt : /\ query[q].status \in {"none", "candidate"} /\ receipt[q] # None
                             /\ query' = [query EXCEPT ![q] = [status |-> "candidate", receipt |-> r]]
    <3>1. CASE NewCandidate(r)
      BY <3>1, <2>1 DEF NewCandidate
    <3>2. CASE \E q \in Receipt : RenewCandidate(q, r)
      BY <3>2 DEF RenewCandidate, Alive, HasConfirmed, EvidenceKept
    <3> QED
      BY <3>1, <3>2 DEF ConfirmAction
  <2>3. memory[q].status = "none"
    BY <2>2 DEF EvidenceKept
  <2>4. \A k \in Receipt : RowKept(k)
    BY <2>1, <2>2, <2>3 DEF RowKept, EvidenceKept, TypeOK
  <2> QED
    BY <2>1, <2>4, RowsKept
<1>6. CASE \E q \in Receipt : ConfirmQuery(q)
  <2> PICK q \in Receipt : ConfirmQuery(q)
    BY <1>6
  <2>1. UNCHANGED <<receipt, listing, publication, stage>> /\ stage = "live" /\ query[q].status # "none"
    BY DEF ConfirmQuery, Shared, audit
  <2>2. ASSUME NEW k \in Receipt
        PROVE  RowKept(k) /\ (query[k].status # "none" => query'[k].status # "none")
    <3>1. query'[k] = IF k = q THEN As(query[q], "confirmed")
                      ELSE IF Alive(k, q) THEN As(query[k], "deprecated") ELSE query[k]
      BY DEF ConfirmQuery
    <3>2. memory'[k] = IF k = q THEN As(query[q], "confirmed")
                       ELSE IF memory[k].status = "confirmed" /\ QuestionOf[k] = QuestionOf[q]
                       THEN As(memory[k], "deprecated") ELSE memory[k]
      BY DEF ConfirmQuery
    <3>3. /\ query[k].status # "none" => receipt[k] # None
          /\ memory[k].status # "none" =>
               query[k].status \in {"confirmed", "deprecated", "stale"} /\ query[k].receipt = memory[k].receipt
      BY DEF EvidenceKept
    <3>4. CASE k = q
      BY <2>1, <3>1, <3>2, <3>3, <3>4 DEF RowKept, As
    <3>5. CASE k # q
      <4>1. \/ query'[k] = query[k]
            \/ query'[k] = As(query[k], "deprecated") /\ query[k].status # "none"
        BY <3>1, <3>5 DEF Alive
      <4>2. memory'[k].receipt = memory[k].receipt
            /\ (memory'[k].status = "none" <=> memory[k].status = "none")
        BY <3>2, <3>5 DEF As
      <4> QED
        BY <2>1, <3>3, <4>1, <4>2 DEF RowKept, As
    <3> QED
      BY <3>4, <3>5
  <2>3. \A k \in listing' : stage = "live" /\ query'[k].status # "none"
    BY <2>1, <2>2 DEF EvidenceKept, TypeOK
  <2> QED
    BY <2>1, <2>2, <2>3, RowsKept
<1>7. CASE \E q \in Receipt : DeprecateQuery(q)
  <2> PICK q \in Receipt : DeprecateQuery(q)
    BY <1>7
  <2>1. UNCHANGED <<receipt, listing, publication, stage>> /\ stage = "live" /\ query[q].status # "none"
    BY DEF DeprecateQuery, Shared, audit
  <2>2. ASSUME NEW k \in Receipt
        PROVE  RowKept(k) /\ (query[k].status # "none" => query'[k].status # "none")
    <3>1. query'[k] = IF k = q THEN As(query[q], "deprecated") ELSE query[k]
      BY DEF DeprecateQuery, TypeOK
    <3>2. memory'[k] = IF k = q /\ memory[q].status # "none" THEN As(memory[q], "deprecated")
                       ELSE memory[k]
      BY DEF DeprecateQuery, TypeOK
    <3>3. /\ query[k].status # "none" => receipt[k] # None
          /\ memory[k].status # "none" => query[k].receipt = memory[k].receipt
      BY DEF EvidenceKept
    <3> QED
      BY <2>1, <3>1, <3>2, <3>3 DEF RowKept, As
  <2>3. \A k \in listing' : stage = "live" /\ query'[k].status # "none"
    BY <2>1, <2>2 DEF EvidenceKept, TypeOK
  <2> QED
    BY <2>1, <2>2, <2>3, RowsKept
<1>8. CASE \E q, r \in Receipt : Publish(q, r)
  <2> PICK q \in Receipt, r \in Receipt : Publish(q, r)
    BY <1>8
  <2>1. UNCHANGED <<receipt, query, memory, listing, stage>> /\ stage = "live" /\ Validated(q, r)
    BY DEF Publish, Exclusive, confirmed
  <2>2. \A k, l \in Receipt : publication'[<<k, l>>].status = "current" =>
          (k = q /\ l = r) \/ publication[<<k, l>>].status = "current"
    BY DEF Publish, TypeOK, Publication
  <2> QED
    BY <2>1, <2>2 DEF EvidenceKept, Validated
<1>9. CASE \E p \in Publication : DeprecatePublication(p)
  <2> PICK p \in Publication : DeprecatePublication(p)
    BY <1>9
  <2>1. \A k, l \in Receipt : publication'[<<k, l>>].status = "current" =>
          publication[<<k, l>>].status = "current"
    BY DEF DeprecatePublication, TypeOK, Publication
  <2> QED
    BY <2>1 DEF EvidenceKept, DeprecatePublication, confirmed
<1>10. CASE Tombstone
  <2>1. \A k, l \in Receipt : publication'[<<k, l>>].status # "current"
    <3> SUFFICES ASSUME NEW p \in Publication PROVE publication'[p].status # "current"
      BY DEF Publication
    <3>1. CASE p \in ToTombstone
      BY <3>1, <1>10 DEF Tombstone
    <3>2. CASE p \notin ToTombstone
      BY <3>2, <1>10 DEF Tombstone, ToTombstone, Published, AuditStands, TypeOK
    <3> QED
      BY <3>1, <3>2
  <2> QED
    BY <1>10, <2>1 DEF Tombstone, Exclusive, EvidenceKept, confirmed
<1>11. CASE DeleteRows
  BY <1>11 DEF DeleteRows, Absent, EvidenceKept, audit
<1> QED
  BY <1>2, <1>3, <1>4, <1>5, <1>6, <1>7, <1>8, <1>9, <1>10, <1>11 DEF Next

LEMMA StepKeepsAudit ==
  ASSUME IInv, [Next]_vars, TypeOK'
  PROVE  /\ AuditStands'
         /\ \A p \in Publication :
              /\ Len(ledger[p]) <= Len(ledger'[p])
              /\ SubSeq(ledger'[p], 1, Len(ledger[p])) = ledger[p]
              /\ Published(p) => Published(p)'
              /\ publication[p].status = "deprecated" => publication'[p].status = "deprecated"
<1> USE DEF IInv
<1> DEFINE Grows(p) ==
      /\ Len(ledger[p]) <= Len(ledger'[p])
      /\ SubSeq(ledger'[p], 1, Len(ledger[p])) = ledger[p]
<1>1. ASSUME NEW p \in Publication, ledger'[p] = ledger[p], publication'[p] = publication[p]
      PROVE  /\ Grows(p) /\ (Published(p) <=> Published(p)')
             /\ IF Published(p)' THEN LedgerVerifies(p)' ELSE ledger'[p] = <<>>
             /\ publication'[p].tombstoned => publication'[p].status = "deprecated"
  <2>1. ledger[p] \in Seq(Entry)
    BY DEF TypeOK
  <2>2. Grows(p)
    BY <1>1, <2>1
  <2>3. Published(p) <=> Published(p)'
    BY <1>1 DEF Published
  <2>4. LedgerVerifies(p) <=> LedgerVerifies(p)'
    BY <1>1 DEF LedgerVerifies, LedgerHead
  <2> QED
    BY <1>1, <2>2, <2>3, <2>4 DEF AuditStands
<1>2. ASSUME NEW p \in Publication, NEW kind \in Kind,
             kind = "publication_created" <=> ~Published(p),
             ledger'[p] = Appended(p, kind),
             publication'[p].head = Append(LedgerHead(p), kind),
             publication'[p].status # "none",
             publication'[p].tombstoned => publication'[p].status = "deprecated"
      PROVE  /\ Grows(p) /\ Published(p)'
             /\ LedgerVerifies(p)'
             /\ publication'[p].tombstoned => publication'[p].status = "deprecated"
  <2> DEFINE new == Appended(p, kind)
  <2>0. Len(ledger[p]) \in Nat
    BY DEF TypeOK
  <2>1. /\ new \in Seq(Entry) /\ Len(new) = Len(ledger[p]) + 1
        /\ SubSeq(new, 1, Len(ledger[p])) = ledger[p]
        /\ new[Len(new)].hash = Append(LedgerHead(p), kind)
        /\ new[1].kind = "publication_created"
        /\ \A i \in 1..Len(new) :
             /\ new[i].previous = IF i = 1 THEN Genesis ELSE new[i - 1].hash
             /\ new[i].hash = Append(new[i].previous, new[i].kind)
    BY <1>2, AppendVerifies
  <2> HIDE DEF new
  <2>2. ledger'[p] = new
    BY <1>2 DEF new
  <2>3. new # <<>>
    BY <2>0, <2>1
  <2>4. LedgerHead(p)' = Append(LedgerHead(p), kind)
    BY <2>1, <2>2, <2>3 DEF LedgerHead
  <2>5. LedgerVerifies(p)'
    BY <1>2, <2>1, <2>2, <2>3, <2>4 DEF LedgerVerifies
  <2>6. Grows(p)
    BY <2>0, <2>1, <2>2
  <2> QED
    BY <1>2, <2>5, <2>6 DEF Published
<1>3. CASE UNCHANGED <<ledger, publication>>
  BY <1>1, <1>3 DEF AuditStands
<1>4. CASE \E q, r \in Receipt : Publish(q, r)
  <2> PICK q \in Receipt, r \in Receipt : Publish(q, r)
    BY <1>4
  <2> DEFINE p == <<q, r>>
  <2>1. /\ p \in Publication /\ ~Published(p) /\ LedgerHead(p) = Genesis
        /\ ledger'[p] = Appended(p, "publication_created")
        /\ publication'[p] = [status |-> "current", head |-> Append(Genesis, "publication_created"),
                              tombstoned |-> FALSE]
    BY DEF Publish, TypeOK, Publication
  <2>2. \A o \in Publication \ {p} : ledger'[o] = ledger[o] /\ publication'[o] = publication[o]
    BY DEF Publish, TypeOK
  <2>3. Grows(p) /\ Published(p)' /\ LedgerVerifies(p)' /\ ~publication'[p].tombstoned
    BY <1>2, <2>1 DEF Kind
  <2> HIDE DEF p, Grows
  <2>4. publication[p].status # "deprecated"
    BY <2>1 DEF Published
  <2> QED
    BY <1>1, <2>1, <2>2, <2>3, <2>4 DEF AuditStands, Grows
<1>5. CASE \E p \in Publication : DeprecatePublication(p)
  <2> PICK p \in Publication : DeprecatePublication(p)
    BY <1>5
  <2>1. /\ Published(p) /\ ledger'[p] = Appended(p, "publication_deprecated")
        /\ publication'[p].status = "deprecated"
        /\ publication'[p].head = Append(LedgerHead(p), "publication_deprecated")
    BY DEF DeprecatePublication, TypeOK, Published
  <2>2. \A o \in Publication \ {p} : ledger'[o] = ledger[o] /\ publication'[o] = publication[o]
    BY DEF DeprecatePublication, TypeOK
  <2>3. Grows(p) /\ Published(p)' /\ LedgerVerifies(p)'
    BY <1>2, <2>1 DEF Kind
  <2> HIDE DEF Grows
  <2> QED
    BY <1>1, <2>1, <2>2, <2>3 DEF AuditStands, Grows
<1>6. CASE Tombstone
  <2>1. ASSUME NEW p \in ToTombstone
        PROVE  /\ p \in Publication /\ Published(p)
               /\ ledger'[p] = Appended(p, "publication_tombstoned")
               /\ publication'[p].status = "deprecated" /\ publication'[p].tombstoned
               /\ publication'[p].head = Append(LedgerHead(p), "publication_tombstoned")
    BY <1>6 DEF Tombstone, ToTombstone
  <2>2. \A p \in ToTombstone : Grows(p) /\ Published(p)' /\ LedgerVerifies(p)'
    BY <1>2, <2>1 DEF Kind
  <2>3. \A o \in Publication \ ToTombstone : ledger'[o] = ledger[o] /\ publication'[o] = publication[o]
    BY <1>6 DEF Tombstone
  <2> HIDE DEF Grows
  <2> QED
    BY <1>1, <2>1, <2>2, <2>3 DEF AuditStands, Grows
<1>7. UNCHANGED <<ledger, publication>> \/ (\E q, r \in Receipt : Publish(q, r))
      \/ (\E p \in Publication : DeprecatePublication(p)) \/ Tombstone
  BY DEF Next, vars, audit, Activate, SetPack, Ask, AttachChecks, AttachStores, AttachDies,
         BuildUnit, ConfirmAction, ConfirmQuery, DeprecateQuery, ListReads, ListWrites, DeleteRows
<1> QED
  BY <1>3, <1>4, <1>5, <1>6, <1>7

-----------------------------------------------------------------------------
(* The theorems                                                             *)

\* The invariant: queries, memories and publications keep to the receipts they were
\* made of, and each publication has its ledger.
THEOREM EvidenceInvariant == Spec => []IInv
<1>1. IInv /\ [Next]_vars => IInv'
  BY StepKeepsTypes, StepKeepsAnswers, StepKeepsEvidence, StepKeepsAudit DEF IInv
<1> QED
  BY InitHolds, <1>1, PTL DEF Spec

\* confirm-query, confirm-action and the refreshes leave a question one confirmed
\* answer per table and one memory, of a query confirmed with the same receipt.
THEOREM AnswersAgree == Spec => []ConfirmedAnswersAgree
<1>1. IInv => ConfirmedAnswersAgree
  BY DEF IInv
<1> QED
  BY EvidenceInvariant, <1>1, PTL

\* What evaluate_reviewed_publication calls current has been reviewed as it stands.
THEOREM CurrentReviewed == Spec => []CurrentIsReviewed
<1>1. IInv => CurrentIsReviewed
  <2> SUFFICES ASSUME IInv, NEW q \in Receipt, NEW r \in Receipt,
                      EffectiveStatus(<<q, r>>) = "current"
               PROVE  Validated(q, r) /\ query[q] = [status |-> "confirmed", receipt |-> r]
    BY DEF CurrentIsReviewed
  <2> DEFINE p == <<q, r>>
  <2>1. LedgerVerifies(p) /\ publication[p].status # "deprecated" /\ Undrifted(p)
    BY DEF EffectiveStatus
  <2>2. p \in Publication /\ Published(p)
    BY <2>1 DEF IInv, AuditStands, LedgerVerifies, Publication
  <2>3. publication[p].status = "current"
    BY <2>1, <2>2 DEF IInv, TypeOK, Published
  <2>4. memory[q].status = "confirmed" /\ memory[q].receipt = r
    BY <2>1, <2>3 DEF IInv, EvidenceKept, Undrifted
  <2>5. memory[q] = [status |-> "confirmed", receipt |-> r]
    BY <2>4 DEF IInv, TypeOK
  <2>6. query[q] = memory[q]
    BY <2>4 DEF IInv, ConfirmedAnswersAgree
  <2> QED
    BY <2>1, <2>5, <2>6 DEF Undrifted, Validated
<1> QED
  BY EvidenceInvariant, <1>1, PTL

\* Publishing, deprecation and deletion only ever append to a ledger that verifies.
THEOREM AuditLasts == Spec => AuditedForGood
<1> DEFINE Grows ==
      \A p \in Publication :
        /\ Len(ledger[p]) <= Len(ledger'[p])
        /\ SubSeq(ledger'[p], 1, Len(ledger[p])) = ledger[p]
        /\ Published(p) => LedgerVerifies(p)'
        /\ publication[p].status = "deprecated" => EffectiveStatus(p)' = "deprecated"
<1>1. IInv /\ [Next]_vars /\ TypeOK' => Grows
  <2> SUFFICES ASSUME IInv, [Next]_vars, TypeOK', NEW p \in Publication
               PROVE  /\ Len(ledger[p]) <= Len(ledger'[p])
                      /\ SubSeq(ledger'[p], 1, Len(ledger[p])) = ledger[p]
                      /\ Published(p) => LedgerVerifies(p)'
                      /\ publication[p].status = "deprecated" => EffectiveStatus(p)' = "deprecated"
    OBVIOUS
  <2>1. /\ Len(ledger[p]) <= Len(ledger'[p])
        /\ SubSeq(ledger'[p], 1, Len(ledger[p])) = ledger[p]
        /\ Published(p) => Published(p)'
        /\ publication[p].status = "deprecated" => publication'[p].status = "deprecated"
    BY StepKeepsAudit
  <2>2. Published(p)' => LedgerVerifies(p)'
    BY StepKeepsAudit DEF AuditStands
  <2>3. publication[p].status = "deprecated" => Published(p)
    BY DEF Published
  <2> QED
    BY <2>1, <2>2, <2>3 DEF EffectiveStatus
<1>2. IInv /\ IInv' /\ [Next]_vars => [Grows]_vars
  BY <1>1 DEF IInv
<1> QED
  BY EvidenceInvariant, <1>2, PTL DEF Spec, AuditedForGood

-----------------------------------------------------------------------------
(* SqlServerActivation *)

\* What is finalized is the current source run, so at most one job is: the plan of
\* that job gets its receipt, the other plans keep theirs.
LEMMA FinalizesCurrent ==
  ASSUME NEW ks \in SUBSET Activation, \A k \in ks : Finalizable(k), Finalize(ks)
  PROVE  /\ \A p \in Plan :
               \/ /\ current \in ks /\ PlanOf(current) = p
                  /\ activated'[p] = current /\ status'[p] = "activated"
               \/ activated'[p] = activated[p] /\ status'[p] = status[p]
         /\ \A k \in ks : PlanOf(k) \in Plan => activated'[PlanOf(k)] = k
<1>1. \A k \in ks : k = current
  BY DEF Finalizable
<1>2. CASE ks = {}
  BY <1>2 DEF Finalize
<1>3. CASE ks # {}
  <2>1. ks = {current}
    BY <1>1, <1>3
  <2>2. ASSUME NEW p \in Plan, PlanOf(current) = p
        PROVE  activated'[p] = current /\ status'[p] = "activated"
    BY <2>1, <2>2 DEF Finalize
  <2>3. ASSUME NEW p \in Plan, PlanOf(current) # p
        PROVE  activated'[p] = activated[p] /\ status'[p] = status[p]
    BY <2>1, <2>3 DEF Finalize
  <2>4. \A k \in ks : PlanOf(k) \in Plan => activated'[PlanOf(k)] = k
    BY <1>1, <2>2
  <2>5. current \in ks
    BY <2>1
  <2> QED
    BY <2>2, <2>3, <2>4, <2>5
<1> QED
  BY <1>2, <1>3

LEMMA SqlInitHolds == SqlInit => SqlInv
<1> SUFFICES ASSUME SqlInit PROVE SqlInv
  OBVIOUS
<1> USE SqlServerAssumption DEF SqlInit, Imports!Init
<1>1. SqlTypeOK
  <2>1. up \in BOOLEAN
    BY Zenon
  <2> QED
    BY <2>1 DEF SqlTypeOK, Job
<1>2. SnapshotStands /\ SealsStand /\ JobsStand /\ ActivationIsProven
  BY DEF SnapshotStands, SealsStand, JobsStand, ActivationIsProven, Job
<1> QED
  BY <1>1, <1>2 DEF SqlInv

\* Finalize(ks) for jobs that are Finalizable keeps the invariant, at the call of a
\* gateway and at its start.
LEMMA FinalizeKeepsInvariant ==
  ASSUME SqlInv, NEW ks \in SUBSET Activation, \A k \in ks : Finalizable(k), Finalize(ks),
         UNCHANGED <<source, catalogs, plan, snapshot, sealed, command, missed, events>>,
         UNCHANGED <<bound, before, outcome, current, imported>>,
         live' \subseteq Activation, due' \subseteq Activation, up' \in BOOLEAN
  PROVE  SqlInv'
<1> USE SqlServerAssumption DEF SqlInv, source, command
<1>1. current \in ks => \E p \in Plan : PlanOf(current) = p /\ sealed[p] = snapshot[p]
                                     /\ sealed[p] # Null /\ snapshot[p] = bound[current][2]
                                     /\ imported[current] = snapshot[p]
                                     /\ outcome[current] = "succeeded"
  BY DEF SqlTypeOK, JobsStand, Finalizable, Verified, PlanOf, Input
<1>2. SqlTypeOK'
  BY FinalizesCurrent DEF SqlTypeOK, Finalize
<1>3. SnapshotStands'
  BY DEF SnapshotStands
<1>4. SealsStand'
  BY <1>1, FinalizesCurrent DEF SealsStand
<1>5. JobsStand'
  BY DEF JobsStand, PlanOf
<1>6. ActivationIsProven'
  BY <1>1, FinalizesCurrent DEF ActivationIsProven, SealsStand, PlanOf, SqlTypeOK
<1> QED
  BY <1>2, <1>3, <1>4, <1>5, <1>6

\* Each action keeps the invariant.
LEMMA SqlStepKeeps == SqlInv /\ [SqlNext]_sqlVars => SqlInv'
<1> SUFFICES ASSUME SqlInv, [SqlNext]_sqlVars PROVE SqlInv'
  OBVIOUS
<1> USE SqlServerAssumption DEF SqlInv, SqlTypeOK, SnapshotStands, SealsStand, JobsStand,
        ActivationIsProven, PlanOf
<1>1. CASE Reconfigure
  BY <1>1 DEF plans, jobs, command, Happens, Reconfigure
<1>2. CASE RemoteChanges
  BY <1>2 DEF plans, jobs, command, Happens, RemoteChanges
<1>3. CASE Discover
  BY <1>3 DEF Catalog, source, jobs, command, gateway, Discover
<1>4. ASSUME NEW p \in Plan, NEW c \in catalogs, DrawPlan(p, c)
      PROVE  SqlInv'
  BY <1>4 DEF Input, source, jobs, command, gateway, DrawPlan
<1>5. ASSUME NEW p \in Plan, ExecuteConfirmed(p)
      PROVE  SqlInv'
  BY <1>5 DEF source, plans, jobs, gateway, ExecuteConfirmed
<1>6. CASE ReadRemote
  BY <1>6 DEF Content, source, plans, jobs, gateway, ReadRemote
<1>7. CASE ReadFails
  BY <1>7 DEF source, plans, jobs, gateway, End, ReadFails
<1>8. CASE Seal
  BY <1>8 DEF source, plans, jobs, gateway, Idle, Seal
<1>9. CASE PersistSnapshot
  BY <1>9 DEF Input, source, jobs, gateway, Idle, End, PersistSnapshot
<1>10. CASE SnapshotDies
  BY <1>10 DEF source, plans, jobs, Happens, End, SnapshotDies
<1>11. ASSUME NEW k \in Activation, NEW p \in Plan, ActivatePlan(k, p)
       PROVE  SqlInv'
  BY <1>11 DEF Job, Input, source, plans, command, Existing, Imports!Submit, ActivatePlan
<1>12. ASSUME NEW k \in Activation, ActivationCommits(k)
       PROVE  SqlInv'
  BY <1>12 DEF Job, Input, source, plans, command, gateway, Imports!Activate,
      ActivationCommits
<1>13. ASSUME NEW k \in Activation, ActivationEnds(k)
       PROVE  SqlInv'
  BY <1>13 DEF Job, source, plans, command, gateway, Imports!Abandon, ActivationEnds
<1>14. ASSUME NEW k \in Activation, Resume(k)
       PROVE  SqlInv'
  BY <1>14 DEF source, plans, command, Resume
<1>15. ASSUME NEW i \in Import, OtherSubmits(i)
       PROVE  SqlInv'
  BY <1>15 DEF Job, source, plans, command, gateway, Imports!Submit, OtherSubmits
<1>16. ASSUME NEW i \in Import, OtherCommits(i)
       PROVE  SqlInv'
  BY <1>16 DEF Job, source, plans, command, gateway, Imports!Activate, OtherCommits
<1>17. ASSUME NEW k \in Activation, FinalizeJob(k)
       PROVE  SqlInv'
  <2>1. Finalize({j \in {k} : Finalizable(j)})
    BY <1>17 DEF FinalizeJob
  <2> QED
    BY <1>17, <2>1, FinalizeKeepsInvariant DEF FinalizeJob, source, jobs, command
<1>18. ASSUME NEW k \in Activation, FinalizeJobFails(k)
       PROVE  SqlInv'
  BY <1>18 DEF source, plans, jobs, command, Happens, FinalizeJobFails
<1>19. CASE GatewayDies
  <2>1. up' \in BOOLEAN
    BY <1>19, Zenon DEF GatewayDies
  <2> QED
    BY <1>19, <2>1 DEF source, plans, jobs, command, Happens, GatewayDies
<1>20. CASE WriterDies
  <2>1. up' \in BOOLEAN
    BY <1>20, Zenon DEF WriterDies
  <2> QED
    BY <1>20, <2>1 DEF source, plans, jobs, command, Happens, WriterDies
<1>21. CASE Starts
  <2>1. Finalize({k \in Existing : Finalizable(k)})
    BY <1>21 DEF Starts
  <2> QED
    BY <1>21, <2>1, FinalizeKeepsInvariant DEF Starts, Existing, RevokeLeases
<1>22. CASE StartRefused
  BY <1>22 DEF source, plans, command, gateway, RevokeLeases, StartRefused
<1>23. CASE UNCHANGED sqlVars
  BY <1>23 DEF sqlVars, source, plans, jobs, command, gateway
<1> QED
  BY <1>1, <1>2, <1>3, <1>4, <1>5, <1>6, <1>7, <1>8, <1>9, <1>10, <1>11, <1>12, <1>13,
      <1>14, <1>15, <1>16, <1>17, <1>18, <1>19, <1>20, <1>21, <1>22, <1>23 DEF SqlNext, Step

\* The invariant: what a running snapshot has in hand, and what artifacts, receipts
\* and jobs are bound to.
THEOREM SqlServerInvariant == SqlSpec => []SqlInv
<1> QED
  BY SqlInitHolds, SqlStepKeeps, PTL DEF SqlSpec

\* A plan's activation receipt names a job that imported the content of the plan's
\* snapshot receipt, read while the tables were as planned.
THEOREM SqlServerIsProven == SqlSpec => []ActivationIsProven
<1>1. SqlInv => ActivationIsProven
  BY DEF SqlInv
<1> QED
  BY SqlServerInvariant, <1>1, PTL

\* An artifact and the receipts, once there, are never replaced: a snapshot is read
\* for a plan without one only, and only a plan without a receipt is finalized.
THEOREM SqlServerSealsStay == SqlSpec => SealedStays
<1> DEFINE Stays ==
      \A p \in Plan : /\ sealed[p] # Null => sealed'[p] = sealed[p]
                      /\ snapshot[p] # Null => snapshot'[p] = snapshot[p]
                      /\ activated[p] # Null => activated'[p] = activated[p]
<1>1. ASSUME SqlInv, [SqlNext]_sqlVars PROVE Stays
  <2>1. CASE Seal
    BY <1>1, <2>1 DEF SqlInv, SqlTypeOK, SnapshotStands, Seal, Idle, plans
  <2>2. CASE PersistSnapshot
    BY <1>1, <2>2 DEF SqlInv, SqlTypeOK, PersistSnapshot, Idle
  <2>3. ASSUME NEW k \in Activation, FinalizeJob(k) PROVE Stays
    <3>1. Finalize({j \in {k} : Finalizable(j)})
      BY <2>3 DEF FinalizeJob
    <3> QED
      BY <2>3, <3>1, FinalizesCurrent DEF FinalizeJob, Finalizable
  <2>4. CASE Starts
    <3>1. Finalize({k \in Existing : Finalizable(k)})
      BY <2>4 DEF Starts
    <3> QED
      BY <2>4, <3>1, FinalizesCurrent DEF Starts, Finalizable, Existing
  <2>5. CASE UNCHANGED sqlVars
    BY <2>5 DEF sqlVars, plans
  <2> QED
    BY <1>1, <2>1, <2>2, <2>3, <2>4, <2>5 DEF SqlNext, Step, plans,
       Reconfigure, RemoteChanges, Discover, DrawPlan, ExecuteConfirmed,
       ReadRemote, ReadFails, SnapshotDies, ActivatePlan, ActivationCommits,
       ActivationEnds, Resume, OtherSubmits, OtherCommits, FinalizeJobFails,
       GatewayDies, WriterDies, StartRefused
<1> QED
  BY SqlServerInvariant, <1>1, PTL DEF SealedStays, SqlSpec

\* Starting replays, finalizes or skips every activation, so afterwards each that
\* has succeeded has the receipt of its plan.
THEOREM SqlServerStartsWhole == SqlSpec => StartupFinalizesAll
<1> DEFINE Whole == ~up /\ up' => \A k \in Activation :
                      outcome[k] = "succeeded" => activated'[PlanOf(k)] = k
<1>1. ASSUME SqlInv, [SqlNext]_sqlVars PROVE Whole
  <2>1. CASE Starts
    <3>1. Finalize({k \in Existing : Finalizable(k)})
      BY <2>1 DEF Starts
    <3>2. ASSUME NEW k \in Activation, outcome[k] = "succeeded"
          PROVE  activated'[PlanOf(k)] = k
      <4>1. PlanOf(k) \in Plan
        BY <1>1, <3>2 DEF SqlInv, SqlTypeOK, JobsStand, PlanOf, Input
      <4>2. CASE Finalizable(k)
        BY <3>1, <3>2, <4>1, <4>2, FinalizesCurrent DEF Existing
      <4>3. CASE Replays(k) /\ ~Finalizable(k)
        <5>1. ~\E j \in Existing : Finalizable(j) /\ PlanOf(j) = PlanOf(k)
          BY <3>2, <4>3, SqlServerAssumption DEF Replays, Finalizable, Job
        <5> QED
          BY <3>1, <4>1, <4>3, <5>1, FinalizesCurrent DEF Existing, Replays
      <4> QED
        BY <2>1, <3>2, <4>2, <4>3 DEF Starts, AllFinalize, Existing, Skips
    <3> QED
      BY <3>2
  <2>2. CASE UNCHANGED sqlVars
    BY <2>2 DEF sqlVars, gateway
  <2> QED
    BY <1>1, <2>1, <2>2 DEF SqlNext, Step, gateway,
       Reconfigure, RemoteChanges, Discover, DrawPlan, ExecuteConfirmed,
       ReadRemote, ReadFails, Seal, PersistSnapshot, SnapshotDies, ActivatePlan,
       ActivationCommits, ActivationEnds, Resume, OtherSubmits, OtherCommits,
       FinalizeJob, FinalizeJobFails, GatewayDies, WriterDies, StartRefused
<1> QED
  BY SqlServerInvariant, <1>1, PTL DEF StartupFinalizesAll, SqlSpec
=============================================================================
