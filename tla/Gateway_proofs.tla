--------------------------- MODULE Gateway_proofs ---------------------------
(***************************************************************************)
(* The two parts of the HTTP gateway, for any requests, jobs, workspaces   *)
(* and processes.                                                          *)
(*                                                                         *)
(* RuntimeHostPool: IInv is inductive, and what it says of readers and     *)
(* writer, of reconciliation and of the order of reads follows.  A step is *)
(* one of five as far as the chains are concerned -- a request settles,    *)
(* moves, joins the writer chain, joins a reader chain, or is refused --   *)
(* and one lemma stands for each.                                          *)
(*                                                                         *)
(* DurableJobQueue: QueueInv is inductive where owners do not race the     *)
(* queue.  A step leaves the queue's one thread alone, passes it on, ends  *)
(* it, starts the process of its job or shifts it to the next job; one     *)
(* lemma stands for each (ThreadStays to ThreadStarts, and on top of them  *)
(* PassKeeps, RestKeeps, LaunchKeeps, ShiftKeeps and EnqueueKeeps).        *)
(***************************************************************************)
EXTENDS RuntimeHostPool, DurableJobQueue, SequenceTheorems, TLAPS

-----------------------------------------------------------------------------
(* RuntimeHostPool                                                          *)

ChainInv ==
  /\ WaitsAreChained
  /\ WriterChainOrdered
  /\ BarrierIsLast
  /\ ReadsAndWritersOrdered

\* Requests that wait for nothing leave their chains together.
LEMMA SettleKeepsChains ==
  ASSUME TypeOK, ChainInv, NEW S \in SUBSET Request, NEW outcome \in Settled,
         \A t \in S : t \in Chained /\ awaits[t] = {},
         Settle(S, outcome), lostBarrier' = lostBarrier
  PROVE  /\ ChainInv'
         /\ Chained' = Chained \ S
<1>1. /\ state' \in [Request -> States]
      /\ \A t \in S : state'[t] = outcome
      /\ \A t \in Request \ S : \/ state'[t] = state[t]
                                \/ state[t] = "waiting" /\ state'[t] \in {"cleared", "failed"}
  BY DEF TypeOK, Settle, States, Settled, InFlight, Journal
<1>2. Chained' = Chained \ S
  <2>1. \A t \in S : state'[t] \notin {"queued"} \union InFlight
    BY <1>1 DEF Settled, InFlight, Journal
  <2>2. \A t \in Request \ S :
          state'[t] \in {"queued"} \union InFlight <=> state[t] \in {"queued"} \union InFlight
    <3> TAKE t \in Request \ S
    <3>1. CASE state'[t] = state[t]
      BY <3>1
    <3>2. CASE state[t] = "waiting" /\ state'[t] \in {"cleared", "failed"}
      BY <3>2 DEF InFlight, Journal
    <3> QED
      BY <1>1, <3>1, <3>2
  <2> QED
    BY <2>1, <2>2 DEF Chained
<1>3. \A t \in Request : awaits'[t] = awaits[t] \ S
  BY DEF Settle, TypeOK
<1>4. readerBarrier' = IF readerBarrier \in S THEN Nobody ELSE readerBarrier
  BY DEF Settle
<1>5. WaitsAreChained'
  <2>1. \A t \in Request : awaits'[t] \subseteq Chained'
    BY <1>2, <1>3 DEF ChainInv, WaitsAreChained
  <2>2. ASSUME NEW t \in Request, state'[t] \in InFlight
        PROVE  state'[t] = state[t]
    <3>1. CASE t \in S
      BY <1>1, <2>2, <3>1 DEF Settled, InFlight, Journal
    <3>2. CASE t \notin S /\ state[t] = "waiting" /\ state'[t] \in {"cleared", "failed"}
      BY <2>2, <3>2 DEF InFlight, Journal
    <3> QED
      BY <1>1, <3>1, <3>2
  <2>3. \A t \in Request : state'[t] \in InFlight => awaits'[t] = {}
    BY <1>3, <2>2 DEF ChainInv, WaitsAreChained
  <2>4. \A r \in Read : state'[r] \notin Journal
    BY <2>2 DEF ChainInv, WaitsAreChained, InFlight, Request
  <2> QED
    BY <2>1, <2>3, <2>4 DEF WaitsAreChained
<1>6. WriterChain' = WriterChain \ S /\ WriterChain \subseteq Request
  BY <1>2 DEF WriterChain, Chained
<1>7. WriterChainOrdered'
  BY <1>3, <1>6 DEF ChainInv, WriterChainOrdered
<1>8. BarrierIsLast'
  <2>1. CASE readerBarrier \in S
    <3>1. readerBarrier # Nobody
      BY <2>1, PoolAssumption
    <3>2. WriterChain \subseteq {readerBarrier}
      BY <2>1, <3>1 DEF ChainInv, BarrierIsLast
    <3> QED
      BY <2>1, <3>2, <1>4, <1>6 DEF BarrierIsLast
  <2>2. CASE readerBarrier \notin S
    BY <2>2, <1>3, <1>4, <1>6 DEF ChainInv, BarrierIsLast
  <2> QED
    BY <2>1, <2>2
<1>9. ReadsAndWritersOrdered'
  <2> SUFFICES ASSUME ~lostBarrier, NEW r \in Read, r \in Chained, r \notin S,
                      NEW x \in WriterChain, x \notin S
               PROVE  \/ r \in awaits'[x]
                      \/ x \in awaits'[r]
                      \/ \E b \in awaits'[r] \intersect Exclusive : x \in awaits'[b]
    BY <1>2, <1>6 DEF ReadsAndWritersOrdered
  <2>1. r \in Request /\ x \in Request /\ Exclusive \subseteq Request
    BY <1>6 DEF Request
  <2>2. CASE r \in awaits[x] \/ x \in awaits[r]
    BY <1>3, <2>1, <2>2
  <2>3. CASE \E b \in awaits[r] \intersect Exclusive : x \in awaits[b]
    <3>1. PICK b \in awaits[r] \intersect Exclusive : x \in awaits[b]
      BY <2>3
    <3>2. b \notin S
      BY <3>1
    <3> QED
      BY <1>3, <2>1, <3>1, <3>2
  <2> QED
    BY <2>2, <2>3 DEF ChainInv, ReadsAndWritersOrdered
<1> QED
  BY <1>2, <1>5, <1>7, <1>8, <1>9 DEF ChainInv

\* One request changes its state without entering or leaving a chain.
LEMMA MoveKeepsChains ==
  ASSUME TypeOK, ChainInv, NEW t \in Request, NEW s \in States,
         state' = [state EXCEPT ![t] = s],
         (s \in {"queued"} \union InFlight) <=> (t \in Chained),
         s \in InFlight => awaits[t] = {},
         t \in Read => s \notin Journal,
         UNCHANGED <<awaits, readerBarrier, lostBarrier>>
  PROVE  ChainInv' /\ Chained' = Chained
<1>1. Chained' = Chained
  BY DEF Chained, TypeOK
<1>2. WaitsAreChained'
  BY <1>1 DEF ChainInv, WaitsAreChained, TypeOK
<1>3. WriterChainOrdered' /\ BarrierIsLast' /\ ReadsAndWritersOrdered'
  BY <1>1 DEF ChainInv, WriterChainOrdered, BarrierIsLast, ReadsAndWritersOrdered, WriterChain
<1> QED
  BY <1>1, <1>2, <1>3 DEF ChainInv

\* An exclusive request joins the writer chain.  Others may have started to wait
\* for the recovery.
LEMMA JoinKeepsChains ==
  ASSUME TypeOK, ChainInv, NEW t \in Exclusive, t \notin Chained,
         state'[t] = "queued", state' \in [Request -> States],
         \A u \in Request \ {t} : \/ state'[u] = state[u]
                                  \/ u \notin Chained /\ state'[u] = "waiting",
         ChainExclusive(t), lostBarrier' = lostBarrier
  PROVE  ChainInv' /\ Chained' = Chained \union {t}
<1> Exclusive \subseteq Request
  BY DEF Request
<1>1. Chained' = Chained \union {t}
  BY DEF Chained, InFlight, Journal
<1>2. /\ awaits'[t] = Chained
      /\ \A u \in Request \ {t} : awaits'[u] = awaits[u]
  BY DEF ChainExclusive, TypeOK
<1>3. readerBarrier' = t /\ t # Nobody
  BY PoolAssumption DEF ChainExclusive
<1>4. WriterChain' = WriterChain \union {t} /\ WriterChain \subseteq Chained
  BY <1>1 DEF WriterChain
<1>5. WaitsAreChained'
  <2>1. \A u \in Request : awaits'[u] \subseteq Chained'
    BY <1>1, <1>2 DEF ChainInv, WaitsAreChained
  <2>2. \A u \in Request : state'[u] \in InFlight => awaits'[u] = {}
    BY <1>2 DEF ChainInv, WaitsAreChained, InFlight, Journal
  <2>3. \A r \in Read : state'[r] \notin Journal
    BY DEF ChainInv, WaitsAreChained, Journal, Request
  <2> QED
    BY <2>1, <2>2, <2>3 DEF WaitsAreChained
<1>6. WriterChainOrdered'
  BY <1>2, <1>4 DEF ChainInv, WriterChainOrdered, WriterChain
<1>7. BarrierIsLast'
  BY <1>2, <1>3, <1>4 DEF BarrierIsLast
<1>8. ReadsAndWritersOrdered'
  <2> SUFFICES ASSUME ~lostBarrier, NEW r \in Read, r \in Chained', NEW x \in WriterChain'
               PROVE  \/ r \in awaits'[x]
                      \/ x \in awaits'[r]
                      \/ \E b \in awaits'[r] \intersect Exclusive : x \in awaits'[b]
    BY DEF ReadsAndWritersOrdered
  <2>1. r \in Chained /\ r # t
    BY <1>1, PoolAssumption DEF Exclusive
  <2>2. CASE x = t
    BY <1>2, <2>1, <2>2
  <2>3. CASE x \in WriterChain /\ x # t
    BY <1>2, <2>1, <2>3 DEF ChainInv, ReadsAndWritersOrdered, WaitsAreChained, WriterChain, Request
  <2> QED
    BY <1>4, <2>2, <2>3
<1> QED
  BY <1>1, <1>5, <1>6, <1>7, <1>8 DEF ChainInv

\* An exclusive request is refused: the chains stay, the barrier does not.
LEMMA RefusalKeepsChains ==
  ASSUME TypeOK, ChainInv, NEW t \in Request, t \notin Chained,
         state' = [state EXCEPT ![t] = "failed"], awaits' = awaits, RefuseExclusive
  PROVE  ChainInv' /\ Chained' = Chained
<1>1. Chained' = Chained
  BY DEF Chained, TypeOK, InFlight, Journal
<1>2. WaitsAreChained'
  BY <1>1 DEF ChainInv, WaitsAreChained, TypeOK, InFlight, Journal
<1>3. WriterChainOrdered' /\ BarrierIsLast' /\ ReadsAndWritersOrdered'
  BY <1>1 DEF ChainInv, WriterChainOrdered, BarrierIsLast, ReadsAndWritersOrdered, WriterChain,
              RefuseExclusive, TypeOK
<1> QED
  BY <1>1, <1>2, <1>3 DEF ChainInv

\* A read joins the chain of a reader process.
LEMMA ReadKeepsChains ==
  ASSUME TypeOK, ChainInv, NEW r \in Read, r \notin Chained,
         state' = [state EXCEPT ![r] = "queued"], ChainRead(r),
         UNCHANGED <<readerBarrier, lostBarrier>>
  PROVE  ChainInv' /\ Chained' = Chained \union {r}
<1> Read \subseteq Request
  BY DEF Request
<1>1. Chained' = Chained \union {r}
  BY DEF Chained, TypeOK, InFlight, Journal
<1>2. /\ awaits'[r] \subseteq Chained
      /\ readerBarrier # Nobody => readerBarrier \in awaits'[r]
      /\ \A u \in Request \ {r} : awaits'[u] = awaits[u]
  BY DEF ChainRead, TypeOK, ChainInv, BarrierIsLast, WriterChain
<1>3. WriterChain' = WriterChain /\ r \notin Exclusive
  BY <1>1, PoolAssumption DEF WriterChain, Exclusive
<1>4. WaitsAreChained'
  BY <1>1, <1>2 DEF ChainInv, WaitsAreChained, InFlight, Journal, TypeOK
<1>5. WriterChainOrdered' /\ BarrierIsLast'
  BY <1>2, <1>3 DEF ChainInv, WriterChainOrdered, BarrierIsLast, WriterChain, Chained
<1>6. ReadsAndWritersOrdered'
  <2> SUFFICES ASSUME ~lostBarrier, NEW q \in Read, q \in Chained', NEW x \in WriterChain
               PROVE  \/ q \in awaits'[x]
                      \/ x \in awaits'[q]
                      \/ \E b \in awaits'[q] \intersect Exclusive : x \in awaits'[b]
    BY <1>3 DEF ReadsAndWritersOrdered
  <2>1. CASE q = r
    <3>1. readerBarrier # Nobody /\ readerBarrier \in Exclusive
      BY DEF ChainInv, BarrierIsLast, WriterChain
    <3>2. x = readerBarrier \/ x \in awaits[readerBarrier]
      BY <3>1 DEF ChainInv, BarrierIsLast
    <3>3. readerBarrier \in Request /\ readerBarrier # r
      BY <3>1, <1>3 DEF Request
    <3> QED
      BY <1>2, <2>1, <3>1, <3>2, <3>3
  <2>2. CASE q # r /\ q \in Chained
    BY <1>2, <1>3, <2>2 DEF ChainInv, ReadsAndWritersOrdered, WriterChain, Chained, Request
  <2> QED
    BY <1>1, <2>1, <2>2
<1> QED
  BY <1>1, <1>4, <1>5, <1>6 DEF ChainInv

-----------------------------------------------------------------------------
(* Types.                                                                   *)

LEMMA SettleTypes ==
  ASSUME TypeOK, NEW S \in SUBSET Request, NEW outcome \in Settled, Settle(S, outcome)
  PROVE  /\ state' \in [Request -> States]
         /\ awaits' \in [Request -> SUBSET Request]
         /\ lane' \in [Read -> 0 .. Lanes - 1]
         /\ readerBarrier' \in Request \union {Nobody}
         /\ readerCursor' \in 0 .. Lanes - 1
         /\ recoveryPromise' \in Recovery \union {Nobody}
BY DEF TypeOK, Settle, States, Settled, InFlight, Journal

\* Both what joins the writer chain and what is refused keep the types.
LEMMA ExclusiveTypes ==
  ASSUME TypeOK, NEW t \in Exclusive, ChainExclusive(t)
  PROVE  /\ awaits' \in [Request -> SUBSET Request]
         /\ readerBarrier' \in Request \union {Nobody}
BY DEF TypeOK, ChainExclusive, Chained, Request

LEMMA RefusalTypes ==
  ASSUME TypeOK, RefuseExclusive
  PROVE  readerBarrier' \in Request \union {Nobody} /\ lostBarrier' \in BOOLEAN
BY DEF TypeOK, RefuseExclusive

LEMMA ReadTypes ==
  ASSUME TypeOK, BarrierIsLast, NEW r \in Read, ChainRead(r)
  PROVE  /\ awaits' \in [Request -> SUBSET Request]
         /\ lane' \in [Read -> 0 .. Lanes - 1]
         /\ readerCursor' \in 0 .. Lanes - 1
         /\ behind' \in [Read -> SUBSET Write]
BY PoolAssumption DEF TypeOK, ChainRead, Request, Chained

LEMMA TypeInductive ==
  ASSUME TypeOK, ChainInv, [Next]_vars
  PROVE  TypeOK'
<1> USE DEF chainVars, writerVars, journalVars, storeVars, historyVars
<1> Exclusive \subseteq Request /\ Read \subseteq Request /\ Write \subseteq Request
    /\ Recovery \subseteq Request /\ Reconcile \subseteq Request
  BY DEF Request, Exclusive
<1>1. CASE \E t \in Request : Call(t)
  <2>1. PICK t \in Request : Call(t)
    BY <1>1
  <2>2. CASE CallReady(t) \/ CallJoins(t)
    BY <2>2 DEF CallReady, CallJoins, TypeOK, States
  <2>3. ASSUME NEW v \in Recovery, CallRecovers(t, v)
        PROVE  TypeOK'
    <3>1. CASE HasRoom
      BY <2>3, <3>1, ExclusiveTypes DEF CallRecovers, TypeOK, States, Exclusive
    <3>2. CASE ~HasRoom
      BY <2>3, <3>2, RefusalTypes DEF CallRecovers, TypeOK, States, Settled
    <3> QED
      BY <3>1, <3>2
  <2> QED
    BY <2>1, <2>2, <2>3 DEF Call
<1>2. ASSUME NEW t \in Request, EnqueueExclusive(t)
      PROVE  TypeOK'
  <2>1. t \in Exclusive
    BY <1>2 DEF EnqueueExclusive, Exclusive
  <2>2. CASE ~closed /\ HasRoom
    BY <1>2, <2>1, <2>2, ExclusiveTypes DEF EnqueueExclusive, TypeOK, States
  <2>3. CASE ~(~closed /\ HasRoom)
    BY <1>2, <2>3, RefusalTypes DEF EnqueueExclusive, TypeOK, States, Settled
  <2> QED
    BY <2>2, <2>3
<1>3. ASSUME NEW r \in Read, EnqueueRead(r)
      PROVE  TypeOK'
  <2>1. CASE closed \/ ~HasRoom
    BY <1>3, <2>1, PoolAssumption DEF EnqueueRead, TypeOK, States, Settled
  <2>2. CASE ~(closed \/ ~HasRoom)
    BY <1>3, <2>2, ReadTypes DEF EnqueueRead, TypeOK, States, ChainInv
  <2> QED
    BY <2>1, <2>2
<1>4. ASSUME NEW t \in Request, Advance(t)
      PROVE  TypeOK'
  <2>1. CASE Begin(t)
    <3>1. journals' \subseteq Kinds /\ inherited' \subseteq Kinds
      BY <2>1 DEF Begin, SendToWriter, TypeOK
    <3> QED
      BY <2>1, <3>1 DEF Begin, SendToWriter, TypeOK, States, InFlight, Journal
  <2>2. CASE InvalidationFails(t) \/ ReadRefused(t) \/ ReaderDies(t) \/ WriteAnswered(t)
    BY <2>2, SettleTypes DEF InvalidationFails, ReadRefused, ReaderDies, WriteAnswered, TypeOK, Settled
  <2>3. CASE ReconcileStepOk(t)
    <3>0. journals' \subseteq Kinds /\ inherited' \subseteq Kinds
      BY <2>3 DEF ReconcileStepOk, CloseJournals, TypeOK
    <3>1. CASE state[t] # "sqlserver"
      <4>1. NextCommand[state[t]] \in States
        BY <2>3, <3>1 DEF ReconcileStepOk, NextCommand, Journal, States, InFlight
      <4> QED
        BY <2>3, <3>0, <3>1, <4>1 DEF ReconcileStepOk, TypeOK
    <3>2. CASE state[t] = "sqlserver" /\ t \in Write
      BY <2>3, <3>0, <3>2 DEF ReconcileStepOk, TypeOK, States, InFlight
    <3>3. CASE state[t] = "sqlserver" /\ t \notin Write
      BY <2>3, <3>0, <3>3, SettleTypes DEF ReconcileStepOk, TypeOK, Settled
    <3> QED
      BY <3>1, <3>2, <3>3
  <2>4. CASE ReconcileStepRefused(t)
    BY <2>4, SettleTypes DEF ReconcileStepRefused, TypeOK, Settled
  <2>5. CASE ExplicitAnswered(t)
    <3>1. journals' \subseteq Kinds /\ inherited' \subseteq Kinds
      BY <2>5 DEF ExplicitAnswered, CloseJournals, TypeOK
    <3> QED
      BY <2>5, <3>1 DEF ExplicitAnswered, TypeOK, States, InFlight, Journal
  <2>6. CASE WriterDies(t)
    <3>1. recoveryError' \in BOOLEAN
      BY <2>6 DEF WriterDies, TypeOK
    <3> QED
      BY <2>6, <3>1, SettleTypes DEF WriterDies, TypeOK, Settled
  <2>7. CASE BeginRead(t)
    BY <2>7 DEF BeginRead, TypeOK, States, InFlight
  <2>8. CASE ReadAnswered(t)
    BY <2>8, SettleTypes DEF ReadAnswered, TypeOK, Settled
  <2> QED
    BY <1>4, <2>1, <2>2, <2>3, <2>4, <2>5, <2>6, <2>7, <2>8 DEF Advance
<1>5. ASSUME NEW w \in Write, Apply(w)
      PROVE  TypeOK'
  BY <1>5 DEF Apply, TypeOK
<1>6. CASE WriterDiesIdle
  BY <1>6 DEF WriterDiesIdle, TypeOK
<1>7. CASE Shutdown
  <2>1. applied' \subseteq Write
    BY <1>7 DEF Shutdown, TypeOK
  <2> QED
    BY <1>7, <2>1, SettleTypes DEF Shutdown, TypeOK, Settled
<1>8. CASE UNCHANGED vars
  BY <1>8 DEF vars, TypeOK
<1>9. CASE JournalOpens \/ JournalCloses
  <2>1. journals' \subseteq Kinds /\ inherited' \subseteq Kinds
    BY <1>9 DEF JournalOpens, JournalCloses, CloseJournals, TypeOK
  <2> QED
    BY <1>9, <2>1 DEF JournalOpens, JournalCloses, TypeOK
<1> QED
  BY <1>1, <1>2, <1>3, <1>4, <1>5, <1>6, <1>7, <1>8, <1>9 DEF Next, Enqueue

-----------------------------------------------------------------------------
(* The chains.                                                              *)

LEMMA ChainsInductive ==
  ASSUME TypeOK, ChainInv, [Next]_vars
  PROVE  ChainInv'
<1> USE DEF chainVars, writerVars, journalVars, storeVars, historyVars
<1> Exclusive \subseteq Request /\ Read \subseteq Request /\ Write \subseteq Exclusive
    /\ Recovery \subseteq Exclusive /\ Reconcile \subseteq Exclusive /\ Write \subseteq Request
  BY DEF Request, Exclusive
<1> Read \intersect Exclusive = {}
  BY PoolAssumption DEF Exclusive
<1>0. TypeOK'
  BY TypeInductive
<1>1. CASE \E t \in Request : Call(t)
  <2>1. PICK t \in Request : Call(t)
    BY <1>1
  <2>2. CASE CallReady(t)
    <3>1. t \notin Chained
      BY <2>2 DEF CallReady, Chained, InFlight, Journal
    <3> QED
      BY <2>2, <3>1, MoveKeepsChains DEF CallReady, States, InFlight, Journal
  <2>3. CASE CallJoins(t)
    <3>1. t \notin Chained
      BY <2>3 DEF CallJoins, Chained, InFlight, Journal
    <3> QED
      BY <2>3, <3>1, MoveKeepsChains DEF CallJoins, States, InFlight, Journal
  <2>4. ASSUME NEW v \in Recovery, CallRecovers(t, v)
        PROVE  ChainInv'
    <3>1. v \notin Chained /\ t \notin Chained /\ v # t
      BY <2>4, PoolAssumption DEF CallRecovers, Chained, InFlight, Journal
    <3>2. CASE HasRoom
      BY <2>4, <3>1, <3>2, <1>0, JoinKeepsChains DEF CallRecovers, TypeOK
    <3>3. CASE ~HasRoom
      BY <2>4, <3>1, <3>3, RefusalKeepsChains DEF CallRecovers
    <3> QED
      BY <3>2, <3>3
  <2> QED
    BY <2>1, <2>2, <2>3, <2>4 DEF Call
<1>2. ASSUME NEW t \in Request, EnqueueExclusive(t)
      PROVE  ChainInv'
  <2>1. t \in Exclusive /\ t \notin Chained
    BY <1>2 DEF EnqueueExclusive, Chained, InFlight, Journal
  <2>2. CASE ~closed /\ HasRoom
    BY <1>2, <2>1, <2>2, <1>0, JoinKeepsChains DEF EnqueueExclusive, TypeOK
  <2>3. CASE ~(~closed /\ HasRoom)
    BY <1>2, <2>1, <2>3, RefusalKeepsChains DEF EnqueueExclusive
  <2> QED
    BY <2>2, <2>3
<1>3. ASSUME NEW r \in Read, EnqueueRead(r)
      PROVE  ChainInv'
  <2>1. r \notin Chained
    BY <1>3 DEF EnqueueRead, Chained, InFlight, Journal
  <2>2. CASE closed \/ ~HasRoom
    BY <1>3, <2>1, <2>2, MoveKeepsChains DEF EnqueueRead, States, Settled, InFlight, Journal
  <2>3. CASE ~(closed \/ ~HasRoom)
    BY <1>3, <2>1, <2>3, ReadKeepsChains DEF EnqueueRead
  <2> QED
    BY <2>2, <2>3
<1>4. ASSUME NEW t \in Request, Advance(t)
      PROVE  ChainInv'
  <2>0. state[t] \in {"queued"} \union InFlight => t \in Chained
    BY DEF Chained
  <2>1. CASE Begin(t)
    BY <2>1, <2>0, MoveKeepsChains DEF Begin, AtTurn, States, InFlight, Journal
  <2>2. CASE InvalidationFails(t) \/ ReadRefused(t)
    BY <2>2, <2>0, SettleKeepsChains DEF InvalidationFails, ReadRefused, AtTurn, Settled
  <2>3. ASSUME state[t] \in InFlight, NEW o \in Settled, Settle({t}, o), lostBarrier' = lostBarrier
        PROVE  ChainInv'
    BY <2>0, <2>3, SettleKeepsChains DEF ChainInv, WaitsAreChained
  <2>4. CASE ReaderDies(t) \/ WriteAnswered(t) \/ ReconcileStepRefused(t) \/ WriterDies(t)
             \/ ReadAnswered(t)
    BY <2>3, <2>4 DEF ReaderDies, WriteAnswered, ReconcileStepRefused, WriterDies, ReadAnswered,
                      Settled, InFlight
  <2>5. ASSUME state[t] \in InFlight, NEW s \in InFlight, t \notin Read,
               state' = [state EXCEPT ![t] = s], UNCHANGED <<awaits, readerBarrier, lostBarrier>>
        PROVE  ChainInv'
    <3>1. s \in States
      BY DEF States
    <3>2. awaits[t] = {}
      BY <2>5 DEF ChainInv, WaitsAreChained
    <3> QED
      BY <2>0, <2>5, <3>1, <3>2, MoveKeepsChains
  <2>6. CASE ReconcileStepOk(t)
    <3>1. t \notin Read
      BY <2>6 DEF ReconcileStepOk, ChainInv, WaitsAreChained
    <3>2. CASE state[t] # "sqlserver"
      <4>1. NextCommand[state[t]] \in InFlight
        BY <2>6, <3>2 DEF ReconcileStepOk, NextCommand, Journal, InFlight
      <4> QED
        BY <2>5, <2>6, <3>1, <3>2, <4>1 DEF ReconcileStepOk, InFlight
    <3>3. CASE state[t] = "sqlserver" /\ t \in Write
      BY <2>5, <2>6, <3>1, <3>3 DEF ReconcileStepOk, InFlight, Journal
    <3>4. CASE state[t] = "sqlserver" /\ t \notin Write
      BY <2>3, <2>6, <3>4 DEF ReconcileStepOk, InFlight, Settled
    <3> QED
      BY <3>2, <3>3, <3>4
  <2>7. CASE ExplicitAnswered(t)
    BY <2>5, <2>7 DEF ExplicitAnswered, InFlight, Journal
  <2>8. CASE BeginRead(t)
    BY <2>8, <2>0, MoveKeepsChains DEF BeginRead, AtTurn, States, InFlight, Journal
  <2> QED
    BY <1>4, <2>1, <2>2, <2>4, <2>6, <2>7, <2>8 DEF Advance
<1>5. CASE Shutdown
  <2> DEFINE S == {t \in Request : state[t] \in InFlight}
  <2>1. \A t \in S : t \in Chained /\ awaits[t] = {}
    BY DEF ChainInv, WaitsAreChained, Chained
  <2>2. Settle(S, "failed") /\ lostBarrier' = lostBarrier
    BY <1>5 DEF Shutdown
  <2> QED
    BY <2>1, <2>2, SettleKeepsChains DEF Settled
<1>6. CASE \/ WriterDiesIdle \/ JournalOpens \/ JournalCloses
          \/ UNCHANGED vars \/ \E w \in Write : Apply(w)
  <2>1. UNCHANGED <<state, awaits, readerBarrier, lostBarrier>>
    BY <1>6 DEF WriterDiesIdle, JournalOpens, JournalCloses, vars, Apply
  <2> QED
    BY <2>1 DEF ChainInv, WaitsAreChained, WriterChainOrdered, BarrierIsLast,
                ReadsAndWritersOrdered, WriterChain, Chained
<1> QED
  BY <1>1, <1>2, <1>3, <1>4, <1>5, <1>6 DEF Next, Enqueue

-----------------------------------------------------------------------------
(* What the chains give.                                                    *)

LEMMA ChainsExclude ==
  ASSUME TypeOK, ChainInv
  PROVE  OneWriterCommand /\ ReadersExcludeWriter
<1> Exclusive \subseteq Request /\ Read \subseteq Request
  BY DEF Request
<1>1. OneWriterCommand
  BY DEF ChainInv, WaitsAreChained, WriterChainOrdered, OneWriterCommand, WriterChain, Chained
<1>2. ReadersExcludeWriter
  <2> SUFFICES ASSUME ~lostBarrier, NEW x \in Exclusive, NEW r \in Read,
                      state[x] \in InFlight, state[r] = "running"
               PROVE  FALSE
    BY DEF ReadersExcludeWriter, WriterExcludesReaders
  <2>1. r \in Chained /\ x \in WriterChain /\ awaits[x] = {} /\ awaits[r] = {}
    BY DEF ChainInv, WaitsAreChained, Chained, WriterChain, InFlight
  <2> QED
    BY <2>1 DEF ChainInv, ReadsAndWritersOrdered
<1> QED
  BY <1>1, <1>2

-----------------------------------------------------------------------------
(* Reconciliation.                                                          *)

ReconcileInv == StagesClose /\ ReadyMeansReconciled

\* A step that begins no command and trusts the store no more than before; the
\* inheritance may shrink.
LEMMA ReconcileKept ==
  ASSUME ReconcileInv,
         \A x \in Exclusive : state'[x] \in InFlight => state'[x] = state[x] /\ writerUp',
         UNCHANGED <<starts, reconciledWriterGeneration>>,
         inherited' \subseteq inherited,
         StoreTrusted' => StoreTrusted
  PROVE  ReconcileInv'
<1>1. StagesClose'
  BY DEF ReconcileInv, StagesClose, InFlight, Journal
<1>2. ReadyMeansReconciled'
  BY DEF ReconcileInv, ReadyMeansReconciled
<1> QED
  BY <1>1, <1>2 DEF ReconcileInv

\* What does not touch a command in flight or the writer process.
LEMMA ReconcileUntouched ==
  ASSUME ReconcileInv,
         \A x \in Request : state'[x] \in InFlight => state'[x] = state[x],
         UNCHANGED writerVars, inherited' \subseteq inherited, lostBarrier => lostBarrier'
  PROVE  ReconcileInv'
<1>0. Exclusive \subseteq Request /\ Read \subseteq Request /\ Write \subseteq Request
  BY DEF Request, Exclusive
<1>1. \A x \in Exclusive : state'[x] \in InFlight => state'[x] = state[x] /\ writerUp'
  BY <1>0 DEF ReconcileInv, StagesClose, writerVars
<1>2. \A x \in Request : state'[x] = "running" => state[x] = "running"
  BY DEF InFlight
<1>3. StoreTrusted' => StoreTrusted
  BY <1>0, <1>2 DEF StoreTrusted, RecoveryReady, writerVars
<1> QED
  BY <1>1, <1>3, ReconcileKept DEF writerVars

\* The same for a step in which a command in flight ends and nothing begins.
LEMMA SettleEndsCommands ==
  ASSUME TypeOK, NEW S \in SUBSET Request, NEW outcome \in Settled, Settle(S, outcome)
  PROVE  /\ \A x \in Request : state'[x] \in InFlight => state'[x] = state[x] /\ x \notin S
         /\ \A x \in Request : state[x] \in InFlight /\ x \notin S => state'[x] = state[x]
<1>1. ASSUME NEW x \in Request, x \in S
      PROVE  state'[x] \notin InFlight
  BY <1>1 DEF Settle, Settled, InFlight, Journal
<1>2. ASSUME NEW x \in Request, x \notin S
      PROVE  \/ state'[x] = state[x]
             \/ state[x] = "waiting" /\ state'[x] \in {"cleared", "failed"}
  BY <1>2 DEF Settle
<1>3. \A s \in {"waiting", "cleared", "failed"} : s \notin InFlight
  BY DEF InFlight, Journal
<1> QED
  BY <1>1, <1>2, <1>3

LEMMA ReconcileInductive ==
  ASSUME TypeOK, ChainInv, ReconcileInv, [Next]_vars
  PROVE  ReconcileInv'
<1> USE DEF chainVars, journalVars, storeVars, historyVars
<1> Exclusive \subseteq Request /\ Read \subseteq Request /\ Write \subseteq Exclusive
    /\ Recovery \subseteq Exclusive /\ Reconcile \subseteq Exclusive
  BY DEF Request, Exclusive
<1> Read \intersect Exclusive = {} /\ Write \intersect Reconcile = {} /\ Recovery \intersect Write = {}
  BY PoolAssumption DEF Exclusive
<1>a. \A t, u \in Exclusive : state[t] \in InFlight /\ state[u] \in InFlight => t = u
  BY ChainsExclude DEF OneWriterCommand
<1>b. \A t \in Request : state[t] \in Journal => t \in Exclusive
  BY DEF ChainInv, WaitsAreChained, Request, Exclusive
<1>c. state \in [Request -> States] /\ starts \in Nat /\ reconciledWriterGeneration \in Nat
      /\ inherited \subseteq Kinds /\ lostBarrier \in BOOLEAN
  BY DEF TypeOK
<1>1. ASSUME NEW t \in Request, Call(t)
      PROVE  ReconcileInv'
  <2>1. UNCHANGED <<writerVars, inherited>> /\ (lostBarrier => lostBarrier')
    BY <1>1 DEF Call, CallReady, CallJoins, CallRecovers, RefuseExclusive
  <2>2. \A x \in Request : state'[x] \in InFlight => state'[x] = state[x]
    BY <1>1, <1>c DEF Call, CallReady, CallJoins, CallRecovers, InFlight, Journal
  <2> QED
    BY <2>1, <2>2, ReconcileUntouched
<1>2. ASSUME NEW t \in Request, Enqueue(t)
      PROVE  ReconcileInv'
  <2>1. UNCHANGED <<writerVars, inherited>> /\ (lostBarrier => lostBarrier')
    BY <1>2 DEF Enqueue, EnqueueRead, EnqueueExclusive, RefuseExclusive
  <2>2. \A x \in Request : state'[x] \in InFlight => state'[x] = state[x]
    BY <1>2, <1>c DEF Enqueue, EnqueueRead, EnqueueExclusive, InFlight, Journal
  <2> QED
    BY <2>1, <2>2, ReconcileUntouched
<1>3. ASSUME NEW t \in Request, NEW o \in Settled, Settle({t}, o),
             UNCHANGED <<writerVars, inherited, lostBarrier>>
      PROVE  ReconcileInv'
  BY <1>3, SettleEndsCommands, ReconcileUntouched
<1>4. ASSUME NEW t \in Request, Begin(t)
      PROVE  ReconcileInv'
  <2>0. t \in Exclusive /\ state[t] = "queued" /\ awaits[t] = {}
    BY <1>4 DEF Begin, AtTurn
  <2>1. \A x \in Request \ {t} : state'[x] = state[x]
    BY <1>4, <1>c DEF Begin
  <2>2. state'[t] = IF t \in Recovery \/ (t \in Write /\ ~RecoveryReady) THEN "workspace" ELSE "running"
    BY <1>4, <1>c DEF Begin
  <2>3. writerUp' = TRUE /\ starts' = (IF writerUp THEN starts ELSE starts + 1)
        /\ inherited' = (IF writerUp THEN inherited ELSE inherited \union journals)
        /\ recoveryError' = recoveryError /\ lostBarrier' = lostBarrier
        /\ reconciledWriterGeneration' = reconciledWriterGeneration
    BY <1>4 DEF Begin, SendToWriter
  <2>4. reconciledWriterGeneration' <= starts'
    BY <2>3, <1>c DEF ReconcileInv, StagesClose
  <2>5. CASE writerUp
    <3>1. StagesClose'
      BY <2>0, <2>1, <2>2, <2>3, <2>4, <2>5, <1>c DEF ReconcileInv, StagesClose, InFlight, Journal
    <3>2. \A w \in Write : state'[w] = "running" => state[w] = "running" \/ RecoveryReady
      BY <2>1, <2>2, <2>0
    <3>3. StoreTrusted' => StoreTrusted
      BY <2>0, <2>1, <2>3, <2>5, <3>2 DEF StoreTrusted, RecoveryReady
    <3> QED
      BY <2>3, <2>5, <3>1, <3>3 DEF ReconcileInv, ReadyMeansReconciled
  <2>6. CASE ~writerUp
    <3>1. \A x \in Exclusive : state[x] \notin InFlight
      BY <2>6 DEF ReconcileInv, StagesClose
    <3>2. StagesClose'
      BY <2>0, <2>1, <2>2, <2>3, <2>4, <3>1 DEF StagesClose, InFlight, Journal
    <3>3. ~RecoveryReady' /\ ~RecoveryReady
      BY <2>3, <2>6, <1>c DEF RecoveryReady, ReconcileInv, StagesClose
    <3>4. \A w \in Write : state'[w] # "running"
      BY <2>1, <2>2, <3>1, <3>3 DEF InFlight
    <3>5. ~lostBarrier => \A r \in Read : state'[r] # "running"
      <4> SUFFICES ASSUME ~lostBarrier, NEW r \in Read, state'[r] = "running"
                   PROVE  FALSE
        OBVIOUS
      <4>1. state[r] = "running"
        BY <2>0, <2>1
      <4>2. r \in Chained /\ t \in WriterChain /\ awaits[r] = {}
        BY <2>0, <4>1 DEF ChainInv, WaitsAreChained, Chained, WriterChain, InFlight
      <4> QED
        BY <2>0, <4>2 DEF ChainInv, ReadsAndWritersOrdered
    <3>6. ~StoreTrusted'
      BY <2>3, <3>3, <3>4, <3>5 DEF StoreTrusted
    <3> QED
      BY <3>2, <3>6 DEF ReconcileInv, ReadyMeansReconciled
  <2> QED
    BY <2>5, <2>6
<1>5. ASSUME NEW t \in Request, ReconcileStepOk(t)
      PROVE  ReconcileInv'
  <2>0. t \in Exclusive /\ state[t] \in InFlight /\ writerUp
    BY <1>5, <1>b DEF ReconcileStepOk, ReconcileInv, StagesClose, InFlight
  <2>1. /\ inherited' = inherited \ {state[t]} /\ writerUp' /\ starts' = starts
        /\ lostBarrier' = lostBarrier
    BY <1>5, <2>0 DEF ReconcileStepOk, CloseJournals
  <2>2. CASE state[t] # "sqlserver"
    <3>1. state' = [state EXCEPT ![t] = NextCommand[state[t]]]
          /\ UNCHANGED <<reconciledWriterGeneration, recoveryError>>
      BY <1>5, <2>2 DEF ReconcileStepOk
    <3>2. \/ state[t] = "workspace" /\ state'[t] = "import"
          \/ state[t] = "import" /\ state'[t] = "sqlserver"
      BY <1>5, <2>2, <3>1, <1>c DEF ReconcileStepOk, NextCommand, Journal
    <3>3. \A x \in Exclusive \ {t} : state'[x] = state[x] /\ state[x] \notin InFlight
      BY <3>1, <2>0, <1>a, <1>c
    <3>4. StagesClose'
      BY <3>1, <3>2, <3>3, <2>0, <2>1 DEF ReconcileInv, StagesClose, InFlight, Journal
    <3>5. \A x \in Request : state'[x] = "running" => state[x] = "running"
      BY <3>1, <3>2, <1>c
    <3>6. ReadyMeansReconciled'
      BY <3>1, <3>5, <2>1, <2>0 DEF ReconcileInv, ReadyMeansReconciled, StoreTrusted, RecoveryReady
    <3> QED
      BY <3>4, <3>6 DEF ReconcileInv
  <2>3. CASE state[t] = "sqlserver"
    <3>1. inherited' \subseteq {"diverged"}
      BY <2>0, <2>1, <2>3, <1>c DEF ReconcileInv, StagesClose, Journal, Kinds
    <3>2. reconciledWriterGeneration' = starts
      BY <1>5, <2>3 DEF ReconcileStepOk
    <3>3. StagesClose'
      BY <3>1, <3>2, <2>1, <1>c DEF StagesClose
    <3> QED
      BY <3>1, <3>3 DEF ReconcileInv, ReadyMeansReconciled
  <2> QED
    BY <2>2, <2>3
<1>6. ASSUME NEW t \in Request, ExplicitAnswered(t)
      PROVE  ReconcileInv'
  <2>0. t \in Exclusive /\ state[t] \in InFlight /\ t \notin Write
    BY <1>6 DEF ExplicitAnswered, InFlight
  <2>1. \A x \in Exclusive \ {t} : state'[x] = state[x] /\ state[x] \notin InFlight
    BY <1>6, <2>0, <1>a, <1>c DEF ExplicitAnswered
  <2>2. \/ state'[t] = "workspace" /\ inherited' = inherited
        \/ state'[t] = "import" /\ inherited' = inherited \ {"workspace"}
    BY <1>6, <1>c DEF ExplicitAnswered, CloseJournals
  <2>3. UNCHANGED <<writerUp, starts, reconciledWriterGeneration, recoveryError, lostBarrier>>
    BY <1>6 DEF ExplicitAnswered, writerVars
  <2>4. StagesClose'
    BY <2>0, <2>1, <2>2, <2>3 DEF ReconcileInv, StagesClose, InFlight, Journal
  <2>5. \A r \in Read : state'[r] = state[r]
    BY <1>6, <2>0, <1>c DEF ExplicitAnswered
  <2>6. \A w \in Write : state'[w] # "running"
    BY <2>0, <2>1 DEF InFlight
  <2>7. ReadyMeansReconciled'
    BY <2>2, <2>3, <2>5, <2>6 DEF ReconcileInv, ReadyMeansReconciled, StoreTrusted, RecoveryReady
  <2> QED
    BY <2>4, <2>7 DEF ReconcileInv
<1>7. ASSUME NEW t \in Request, ReconcileStepRefused(t)
      PROVE  ReconcileInv'
  <2>1. recoveryError' = TRUE
        /\ UNCHANGED <<writerUp, starts, reconciledWriterGeneration, inherited, lostBarrier>>
    BY <1>7 DEF ReconcileStepRefused
  <2>2. \A x \in Request : state'[x] \in InFlight => state'[x] = state[x]
    BY <1>7, SettleEndsCommands DEF ReconcileStepRefused, Settled
  <2>3. \A x \in Exclusive : state'[x] \in InFlight => state'[x] = state[x] /\ writerUp'
    BY <2>1, <2>2 DEF ReconcileInv, StagesClose
  <2>4. StoreTrusted' => StoreTrusted
    BY <2>1, <2>2 DEF StoreTrusted, RecoveryReady, InFlight
  <2> QED
    BY <2>1, <2>3, <2>4, ReconcileKept
<1>8. ASSUME NEW S \in SUBSET Request, Settle(S, "failed"), ~writerUp',
             \A x \in Exclusive : state[x] \in InFlight => x \in S,
             UNCHANGED <<starts, reconciledWriterGeneration, inherited, lostBarrier>>
      PROVE  ReconcileInv'
  <2>0. \A x \in Request : state'[x] \in InFlight => state'[x] = state[x] /\ x \notin S
    BY <1>8, SettleEndsCommands DEF Settled
  <2>1. \A x \in Exclusive : state'[x] \notin InFlight
    BY <1>8, <2>0
  <2>2. StoreTrusted' => StoreTrusted
    BY <1>8, <2>0, <2>1 DEF StoreTrusted, RecoveryReady, InFlight
  <2> QED
    BY <1>8, <2>1, <2>2, ReconcileKept
<1>9. ASSUME NEW t \in Request, WriterDies(t)
      PROVE  ReconcileInv'
  BY <1>8, <1>9, <1>a DEF WriterDies
<1>10. CASE Shutdown
  <2> DEFINE S == {t \in Request : state[t] \in InFlight}
  <2>1. Settle(S, "failed") /\ writerUp' = FALSE
        /\ UNCHANGED <<starts, reconciledWriterGeneration, inherited, lostBarrier>>
    BY <1>10 DEF Shutdown
  <2> QED
    BY <2>1, <1>8
<1>11. CASE WriterDiesIdle
  <2>1. \A x \in Exclusive : state'[x] \notin InFlight
    BY <1>11 DEF WriterDiesIdle
  <2>2. StoreTrusted' => StoreTrusted
    BY <1>11 DEF WriterDiesIdle, StoreTrusted, RecoveryReady
  <2> QED
    BY <1>11, <2>1, <2>2, ReconcileKept DEF WriterDiesIdle
<1>12. ASSUME NEW t \in Request, BeginRead(t)
       PROVE  ReconcileInv'
  <2>1. \A x \in Exclusive : state'[x] = state[x]
    BY <1>12, <1>c DEF BeginRead
  <2>2. StoreTrusted /\ UNCHANGED <<writerVars, inherited>>
    BY <1>12 DEF BeginRead, StoreTrusted
  <2>3. \A x \in Exclusive : state'[x] \in InFlight => state'[x] = state[x] /\ writerUp'
    BY <2>1, <2>2 DEF ReconcileInv, StagesClose, writerVars
  <2> QED
    BY <2>2, <2>3, ReconcileKept DEF writerVars
<1>13. ASSUME NEW t \in Request,
              InvalidationFails(t) \/ WriteAnswered(t) \/ ReadRefused(t) \/ ReadAnswered(t) \/ ReaderDies(t)
       PROVE  ReconcileInv'
  BY <1>3, <1>13 DEF InvalidationFails, WriteAnswered, ReadRefused, ReadAnswered, ReaderDies, Settled
<1>14. CASE UNCHANGED vars \/ (\E w \in Write : Apply(w)) \/ JournalOpens \/ JournalCloses
  <2>1. UNCHANGED <<state, writerVars, lostBarrier>> /\ inherited' \subseteq inherited
    BY <1>14 DEF vars, Apply, JournalOpens, JournalCloses, CloseJournals
  <2> QED
    BY <2>1, ReconcileUntouched
<1>15. ASSUME NEW t \in Request, Advance(t)
       PROVE  ReconcileInv'
  BY <1>15, <1>4, <1>5, <1>6, <1>7, <1>9, <1>12, <1>13 DEF Advance
<1> QED
  BY <1>1, <1>2, <1>15, <1>10, <1>11, <1>14 DEF Next

-----------------------------------------------------------------------------
(* The order of reads and writes.                                           *)

OrderInv == BehindIsBefore /\ AnsweredAfterBehind /\ ReadsKeepTheOrder

\* A step in which no request joins a chain: those in S settle, writes in more
\* take effect, and the rest stays where it is or moves on.
LEMMA OrderKept ==
  ASSUME TypeOK, ChainInv, OrderInv,
         NEW S \in SUBSET Request, NEW more \in SUBSET Write,
         \A t \in S : t \in Chained /\ awaits[t] = {} /\ state'[t] \in Settled,
         \A t \in Request \ S :
           \/ state'[t] = state[t]
           \/ state[t] \in {"new", "waiting", "cleared"} /\ state'[t] \in {"waiting", "cleared", "failed"}
           \/ t \in Chained /\ awaits[t] = {} /\ state'[t] \in InFlight,
         \A t \in Request : awaits'[t] = awaits[t] \ S,
         \A w \in more : state[w] = "running",
         applied' = applied \union more,
         behind' = behind,
         \A r \in Read : \/ seen'[r] = seen[r] /\ (r \in S => state'[r] # "done")
                         \/ r \in S /\ seen'[r] = applied /\ more = {},
         lostBarrier => lostBarrier'
  PROVE  OrderInv'
<1> Exclusive \subseteq Request /\ Read \subseteq Request /\ Write \subseteq Exclusive
    /\ Write \subseteq Request
  BY DEF Request, Exclusive
<1>a. \A w \in more : w \in Chained /\ awaits[w] = {}
  BY DEF Chained, InFlight, ChainInv, WaitsAreChained
<1>b. \A t \in Request : t \in Chained <=> state[t] \in {"queued"} \union InFlight
  BY DEF Chained
<1>c. \A t \in Request : t \in Chained' <=> state'[t] \in {"queued"} \union InFlight
  BY DEF Chained
<1>d. \A t \in Chained : state[t] \notin {"new", "waiting", "cleared", "failed", "done"}
  BY DEF Chained, InFlight, Journal
<1>e. \A t \in Chained' : t \in Chained /\ t \notin S
  <2> SUFFICES ASSUME NEW t \in Request, state'[t] \in {"queued"} \union InFlight
               PROVE  t \in Chained /\ t \notin S
    BY <1>c DEF Chained
  <2>1. state'[t] \notin {"waiting", "cleared", "failed", "done"}
    BY DEF InFlight, Journal
  <2>2. t \notin S
    BY <2>1 DEF Settled
  <2> QED
    BY <2>1, <2>2, <1>b
<1>1. BehindIsBefore'
  <2> SUFFICES ASSUME NEW r \in Read, NEW w \in Write
               PROVE  /\ w \in behind[r] =>
                           /\ state'[w] \in {"queued"} \union InFlight \union Settled
                           /\ r \notin awaits'[w]
                      /\ r \in Chained' /\ w \notin behind[r] =>
                           /\ w \notin applied'
                           /\ \/ state'[w] \in {"new", "waiting", "cleared", "failed"}
                              \/ r \in awaits'[w]
                      /\ w \in applied' => state'[w] \in InFlight \union Settled
    BY DEF BehindIsBefore
  <2>0. \/ state'[w] = state[w]
        \/ w \in S /\ state'[w] \in Settled
        \/ state[w] \in {"new", "waiting", "cleared"} /\ state'[w] \in {"waiting", "cleared", "failed"}
        \/ w \in Chained /\ awaits[w] = {} /\ state'[w] \in InFlight
    OBVIOUS
  <2>1. ASSUME w \in behind[r]
        PROVE  state'[w] \in {"queued"} \union InFlight \union Settled /\ r \notin awaits'[w]
    <3>1. state[w] \in {"queued"} \union InFlight \union Settled /\ r \notin awaits[w]
      BY <2>1 DEF OrderInv, BehindIsBefore
    <3>2. state[w] \notin {"new", "waiting", "cleared"}
      BY <3>1 DEF InFlight, Settled, Journal
    <3> QED
      BY <2>0, <3>1, <3>2
  <2>2. ASSUME r \in Chained', w \notin behind[r]
        PROVE  /\ w \notin applied'
               /\ state'[w] \in {"new", "waiting", "cleared", "failed"} \/ r \in awaits'[w]
    <3>1. /\ w \notin applied
          /\ state[w] \in {"new", "waiting", "cleared", "failed"} \/ r \in awaits[w]
      BY <1>e, <2>2 DEF OrderInv, BehindIsBefore
    <3>2. w \in Chained /\ awaits[w] = {} => FALSE
      BY <3>1, <1>d
    <3>3. w \notin more /\ w \notin S
      BY <3>2, <1>a
    <3>4. r \in awaits[w] => r \in awaits'[w]
      BY <1>e, <2>2
    <3> QED
      BY <2>0, <3>1, <3>2, <3>3, <3>4
  <2>3. ASSUME w \in applied'
        PROVE  state'[w] \in InFlight \union Settled
    <3>1. state[w] \in InFlight \union Settled
      BY <2>3 DEF OrderInv, BehindIsBefore, InFlight
    <3>2. state[w] \notin {"new", "waiting", "cleared"}
      BY <3>1 DEF InFlight, Settled, Journal
    <3> QED
      BY <2>0, <3>1, <3>2
  <2> QED
    BY <2>1, <2>2, <2>3
<1>2. ASSUME ~lostBarrier', NEW r \in Read, NEW w \in Write, state'[r] = "done", w \in behind[r]
      PROVE  state[w] \in Settled /\ state'[w] \in Settled /\ w \notin more
  <2>1. state[w] \in Settled
    <3>1. CASE state[r] = "done"
      BY <1>2, <3>1 DEF OrderInv, AnsweredAfterBehind
    <3>2. CASE r \in S
      <4>1. r \in Chained /\ awaits[r] = {}
        BY <3>2
      <4>2. w \notin Chained
        <5>1. SUFFICES ASSUME w \in Chained
                       PROVE  FALSE
          OBVIOUS
        <5>2. r \notin awaits[w] /\ w \in WriterChain
          BY <1>2, <5>1 DEF OrderInv, BehindIsBefore, WriterChain
        <5> QED
          BY <1>2, <4>1, <5>2 DEF ChainInv, ReadsAndWritersOrdered
      <4> QED
        BY <1>2, <1>b, <4>2 DEF OrderInv, BehindIsBefore
    <3>3. "done" \notin {"waiting", "cleared", "failed"} /\ "done" \notin InFlight
      BY DEF InFlight, Journal
    <3> QED
      BY <1>2, <3>1, <3>2, <3>3
  <2>2. w \notin Chained /\ state[w] \notin {"new", "waiting", "cleared"}
    BY <2>1, <1>d DEF Settled
  <2>3. w \notin more /\ w \notin S
    BY <2>2, <1>a
  <2>4. state'[w] = state[w]
    BY <2>2, <2>3
  <2> QED
    BY <2>1, <2>3, <2>4
<1>3. AnsweredAfterBehind'
  BY <1>2 DEF AnsweredAfterBehind
<1>4. ReadsKeepTheOrder'
  <2> SUFFICES ASSUME ~lostBarrier', NEW r \in Read, state'[r] = "done"
               PROVE  seen'[r] = applied' \intersect behind[r]
    BY DEF ReadsKeepTheOrder
  <2>1. CASE r \in S
    <3>1. seen'[r] = applied /\ applied' = applied
      BY <2>1
    <3>2. r \in Chained
      BY <2>1
    <3>3. applied \subseteq behind[r]
      BY <3>2 DEF OrderInv, BehindIsBefore, TypeOK
    <3> QED
      BY <3>1, <3>3
  <2>2. CASE r \notin S
    <3>1. "done" \notin {"waiting", "cleared", "failed"} /\ "done" \notin InFlight
      BY DEF InFlight, Journal
    <3>2. state[r] = "done" /\ seen'[r] = seen[r]
      BY <2>2, <3>1
    <3>3. \A w \in more : w \notin behind[r]
      BY <1>2
    <3> QED
      BY <3>2, <3>3 DEF OrderInv, ReadsKeepTheOrder
  <2> QED
    BY <2>1, <2>2
<1> QED
  BY <1>1, <1>3, <1>4 DEF OrderInv

\* A write or a recovery joins the writer chain.
LEMMA OrderKeptByJoin ==
  ASSUME TypeOK, ChainInv, OrderInv, NEW t \in Exclusive,
         state[t] \in {"new", "cleared"}, state'[t] = "queued",
         \A u \in Request \ {t} : \/ state'[u] = state[u]
                                  \/ state[u] = "new" /\ state'[u] = "waiting",
         ChainExclusive(t), UNCHANGED <<applied, historyVars>>
  PROVE  OrderInv'
<1> USE DEF historyVars
<1> Exclusive \subseteq Request /\ Read \subseteq Request /\ Write \subseteq Request
  BY DEF Request, Exclusive
<1> t \notin Read
  BY PoolAssumption DEF Exclusive
<1>1. /\ awaits'[t] = Chained
      /\ \A u \in Request \ {t} : awaits'[u] = awaits[u]
  BY DEF ChainExclusive, TypeOK
<1>2. \A r \in Read : r \in Chained' => r \in Chained
  BY DEF Chained, InFlight, Journal
<1>3. BehindIsBefore'
  <2> SUFFICES ASSUME NEW r \in Read, NEW w \in Write
               PROVE  /\ w \in behind[r] =>
                           /\ state'[w] \in {"queued"} \union InFlight \union Settled
                           /\ r \notin awaits'[w]
                      /\ r \in Chained' /\ w \notin behind[r] =>
                           /\ w \notin applied
                           /\ \/ state'[w] \in {"new", "waiting", "cleared", "failed"}
                              \/ r \in awaits'[w]
                      /\ w \in applied => state'[w] \in InFlight \union Settled
    BY DEF BehindIsBefore
  <2>1. CASE w = t
    BY <2>1, <1>1, <1>2 DEF OrderInv, BehindIsBefore, InFlight, Journal, Settled
  <2>2. CASE w # t
    BY <2>2, <1>1, <1>2 DEF OrderInv, BehindIsBefore, InFlight, Journal, Settled
  <2> QED
    BY <2>1, <2>2
<1>4. \A u \in Request : /\ state'[u] = "done" => state[u] = "done"
                         /\ state[u] \in Settled => state'[u] \in Settled
  BY DEF Settled
<1>5. AnsweredAfterBehind' /\ ReadsKeepTheOrder'
  BY <1>4 DEF OrderInv, AnsweredAfterBehind, ReadsKeepTheOrder
<1> QED
  BY <1>3, <1>5 DEF OrderInv

\* A read joins the chain of a reader process.
LEMMA OrderKeptByRead ==
  ASSUME TypeOK, ChainInv, OrderInv, NEW q \in Read, state[q] = "cleared",
         state' = [state EXCEPT ![q] = "queued"], ChainRead(q),
         UNCHANGED <<applied, seen, lostBarrier>>
  PROVE  OrderInv'
<1> Exclusive \subseteq Request /\ Read \subseteq Request /\ Write \subseteq Request
  BY DEF Request, Exclusive
<1> q \notin Write
  BY PoolAssumption
<1>1. /\ \A u \in Request \ {q} : awaits'[u] = awaits[u] /\ state'[u] = state[u]
      /\ state'[q] = "queued"
      /\ behind'[q] = {w \in Write : state[w] \in {"queued"} \union InFlight \union Settled}
      /\ \A r \in Read \ {q} : behind'[r] = behind[r]
  BY DEF ChainRead, TypeOK
<1>2. \A u \in Request \ {q} : u \in Chained' => u \in Chained
  BY <1>1 DEF Chained
<1>3. q \notin Chained
  BY DEF Chained, InFlight, Journal
<1>4. BehindIsBefore'
  <2> SUFFICES ASSUME NEW r \in Read, NEW w \in Write
               PROVE  /\ w \in behind'[r] =>
                           /\ state'[w] \in {"queued"} \union InFlight \union Settled
                           /\ r \notin awaits'[w]
                      /\ r \in Chained' /\ w \notin behind'[r] =>
                           /\ w \notin applied
                           /\ \/ state'[w] \in {"new", "waiting", "cleared", "failed"}
                              \/ r \in awaits'[w]
                      /\ w \in applied => state'[w] \in InFlight \union Settled
    BY DEF BehindIsBefore
  <2>1. CASE r = q
    <3>1. r \notin awaits'[w]
      BY <1>1, <1>3, <2>1 DEF ChainInv, WaitsAreChained
    <3>2. state[w] \notin {"queued"} \union InFlight \union Settled =>
            w \notin applied /\ state[w] \in {"new", "waiting", "cleared"}
      BY DEF OrderInv, BehindIsBefore, TypeOK, States
    <3> QED
      BY <1>1, <2>1, <3>1, <3>2 DEF OrderInv, BehindIsBefore
  <2>2. CASE r # q
    BY <1>1, <1>2, <2>2 DEF OrderInv, BehindIsBefore
  <2> QED
    BY <2>1, <2>2
<1>5. AnsweredAfterBehind' /\ ReadsKeepTheOrder'
  BY <1>1 DEF OrderInv, AnsweredAfterBehind, ReadsKeepTheOrder
<1> QED
  BY <1>4, <1>5 DEF OrderInv

\* A request that waits for nothing settles.
LEMMA OrderKeptBySettling ==
  ASSUME TypeOK, ChainInv, OrderInv, NEW t \in Chained, awaits[t] = {},
         NEW o \in Settled, Settle({t}, o), UNCHANGED <<applied, behind, lostBarrier>>,
         \/ seen' = seen /\ (t \in Read => o = "failed")
         \/ t \in Read /\ seen' = [seen EXCEPT ![t] = applied]
  PROVE  OrderInv'
<1> DEFINE none == {w \in Write : FALSE}
<1> t \in Request
  BY DEF Chained
<1>1. /\ state'[t] = o
      /\ \A u \in Request \ {t} :
           \/ state'[u] = state[u]
           \/ state[u] = "waiting" /\ state'[u] \in {"cleared", "failed"}
      /\ \A u \in Request : awaits'[u] = awaits[u] \ {t}
  BY DEF Settle
<1>2. \A r \in Read : \/ seen'[r] = seen[r] /\ (r \in {t} => state'[r] # "done")
                      \/ r \in {t} /\ seen'[r] = applied /\ none = {}
  BY <1>1 DEF TypeOK
<1>3. {t} \in SUBSET Request /\ none \in SUBSET Write /\ applied' = applied \union none
  OBVIOUS
<1> HIDE DEF none
<1> QED
  BY <1>1, <1>2, <1>3, OrderKept

LEMMA OrderInductive ==
  ASSUME TypeOK, ChainInv, OrderInv, [Next]_vars
  PROVE  OrderInv'
<1> USE DEF chainVars, journalVars, storeVars, historyVars
<1> Exclusive \subseteq Request /\ Read \subseteq Request /\ Write \subseteq Exclusive
    /\ Recovery \subseteq Exclusive /\ Reconcile \subseteq Exclusive /\ Write \subseteq Request
  BY DEF Request, Exclusive
<1> Read \intersect Exclusive = {} /\ Write \intersect Recovery = {} /\ {} \in SUBSET Request
    /\ {} \in SUBSET Write
  BY PoolAssumption DEF Exclusive
<1>c. state \in [Request -> States] /\ awaits \in [Request -> SUBSET Request]
  BY DEF TypeOK
\* A step that chains nothing and settles nothing.
<1>1. ASSUME NEW t \in Request, NEW more \in SUBSET Write,
             \A u \in Request \ {t} : state'[u] = state[u],
             \/ state'[t] = state[t]
             \/ state[t] \in {"new", "waiting", "cleared"} /\ state'[t] \in {"waiting", "cleared", "failed"}
             \/ t \in Chained /\ awaits[t] = {} /\ state'[t] \in InFlight,
             \A w \in more : state[w] = "running",
             awaits' = awaits, applied' = applied \union more, UNCHANGED <<behind, seen>>,
             lostBarrier => lostBarrier'
      PROVE  OrderInv'
  <2> DEFINE S == {u \in Request : FALSE}
  <2>1. \A u \in Request : awaits'[u] = awaits[u] \ S
    BY <1>1
  <2>2. \A u \in Request : u \notin S
    OBVIOUS
  <2>3. \A u \in Request \ S :
           \/ state'[u] = state[u]
           \/ state[u] \in {"new", "waiting", "cleared"} /\ state'[u] \in {"waiting", "cleared", "failed"}
           \/ u \in Chained /\ awaits[u] = {} /\ state'[u] \in InFlight
    BY <1>1
  <2>4. \A r \in Read : seen'[r] = seen[r] /\ (r \in S => state'[r] # "done")
    BY <1>1, <2>2
  <2>5. S \in SUBSET Request
    OBVIOUS
  <2>6. \A u \in S : u \in Chained /\ awaits[u] = {} /\ state'[u] \in Settled
    OBVIOUS
  <2> HIDE DEF S
  <2> QED
    BY <1>1, <2>1, <2>3, <2>4, <2>5, <2>6, OrderKept
\* The same without a write that takes effect.
<1>1a. ASSUME NEW t \in Request,
              \A u \in Request \ {t} : state'[u] = state[u],
              \/ state'[t] = state[t]
              \/ state[t] \in {"new", "waiting", "cleared"} /\ state'[t] \in {"waiting", "cleared", "failed"}
              \/ t \in Chained /\ awaits[t] = {} /\ state'[t] \in InFlight,
              awaits' = awaits, applied' = applied, UNCHANGED <<behind, seen>>,
              lostBarrier => lostBarrier'
       PROVE  OrderInv'
  <2> DEFINE none == {w \in Write : FALSE}
  <2>1. none \in SUBSET Write /\ applied' = applied \union none /\ \A w \in none : state[w] = "running"
    BY <1>1a
  <2> HIDE DEF none
  <2> QED
    BY <1>1, <1>1a, <2>1
<1>2. ASSUME NEW t \in Request, Call(t)
      PROVE  OrderInv'
  <2>1. CASE CallReady(t) \/ CallJoins(t)
    <3>1. state[t] = "new" /\ state'[t] \in {"waiting", "cleared"}
          /\ \A u \in Request \ {t} : state'[u] = state[u]
      BY <2>1, <1>c DEF CallReady, CallJoins
    <3>2. awaits' = awaits /\ applied' = applied /\ UNCHANGED <<behind, seen, lostBarrier>>
      BY <2>1 DEF CallReady, CallJoins
    <3> QED
      BY <3>1, <3>2, <1>1a
  <2>2. ASSUME NEW v \in Recovery, CallRecovers(t, v)
        PROVE  OrderInv'
    <3>0. v # t /\ v \in Exclusive /\ v \in Request
      BY <2>2, PoolAssumption DEF CallRecovers
    <3>1. CASE HasRoom
      <4>1. /\ state[v] = "new" /\ state'[v] = "queued"
            /\ \A u \in Request \ {v} : \/ state'[u] = state[u]
                                        \/ state[u] = "new" /\ state'[u] = "waiting"
        BY <2>2, <3>0, <3>1, <1>c DEF CallRecovers
      <4>2. ChainExclusive(v) /\ UNCHANGED <<applied, historyVars>>
        BY <2>2, <3>1 DEF CallRecovers
      <4> QED
        BY <3>0, <4>1, <4>2, OrderKeptByJoin
    <3>2. CASE ~HasRoom
      <4>1. /\ state[t] = "new" /\ state'[t] = "failed"
            /\ \A u \in Request \ {t} : state'[u] = state[u]
        BY <2>2, <3>2, <1>c DEF CallRecovers
      <4>2. awaits' = awaits /\ applied' = applied /\ UNCHANGED <<behind, seen>>
        BY <2>2, <3>2 DEF CallRecovers
      <4>3. lostBarrier => lostBarrier'
        BY <2>2, <3>2 DEF CallRecovers, RefuseExclusive
      <4> QED
        BY <4>1, <4>2, <4>3, <1>1a
    <3> QED
      BY <3>1, <3>2
  <2> QED
    BY <1>2, <2>1, <2>2 DEF Call
<1>3. ASSUME NEW t \in Request, Enqueue(t)
      PROVE  OrderInv'
  <2>1. CASE t \in Read /\ EnqueueRead(t)
    <3>1. CASE closed \/ ~HasRoom
      <4>1. /\ state[t] = "cleared" /\ state'[t] = "failed"
            /\ \A u \in Request \ {t} : state'[u] = state[u]
            /\ UNCHANGED <<awaits, applied, behind, seen, lostBarrier>>
        BY <2>1, <3>1, <1>c DEF EnqueueRead
      <4> QED
        BY <4>1, <1>1a
    <3>2. CASE ~(closed \/ ~HasRoom)
      BY <2>1, <3>2, OrderKeptByRead DEF EnqueueRead
    <3> QED
      BY <3>1, <3>2
  <2>2. CASE EnqueueExclusive(t)
    <3>1. CASE ~closed /\ HasRoom
      <4>1. /\ t \in Exclusive /\ state[t] \in {"new", "cleared"} /\ state'[t] = "queued"
            /\ \A u \in Request \ {t} : state'[u] = state[u]
            /\ ChainExclusive(t) /\ UNCHANGED <<applied, historyVars>>
        BY <2>2, <3>1, <1>c DEF EnqueueExclusive
      <4> QED
        BY <4>1, OrderKeptByJoin
    <3>2. CASE ~(~closed /\ HasRoom)
      <4>1. /\ state[t] \in {"new", "cleared"} /\ state'[t] = "failed"
            /\ \A u \in Request \ {t} : state'[u] = state[u]
            /\ UNCHANGED <<awaits, applied, behind, seen>>
            /\ lostBarrier => lostBarrier'
        BY <2>2, <3>2, <1>c DEF EnqueueExclusive, RefuseExclusive
      <4> QED
        BY <4>1, <1>1a
    <3> QED
      BY <3>1, <3>2
  <2> QED
    BY <1>3, <2>1, <2>2 DEF Enqueue
<1>4. ASSUME NEW t \in Request, Advance(t)
      PROVE  OrderInv'
  <2>0. /\ state[t] \in {"queued"} \union InFlight => t \in Chained
        /\ state[t] \in InFlight => awaits[t] = {}
        /\ state[t] \in Journal => t \notin Read
    BY DEF Chained, ChainInv, WaitsAreChained
  \* It moves on.
  <2>1. ASSUME t \in Chained, awaits[t] = {}, NEW s \in InFlight, state' = [state EXCEPT ![t] = s],
               UNCHANGED <<awaits, applied, behind, seen, lostBarrier>>
        PROVE  OrderInv'
    <3>1. state'[t] \in InFlight /\ \A u \in Request \ {t} : state'[u] = state[u]
      BY <2>1, <1>c
    <3> QED
      BY <2>1, <3>1, <1>1a
  <2>2. CASE Begin(t) \/ BeginRead(t)
    BY <2>0, <2>1, <2>2 DEF Begin, BeginRead, AtTurn, InFlight, Journal
  <2>3. CASE ExplicitAnswered(t)
    BY <2>0, <2>1, <2>3 DEF ExplicitAnswered, InFlight, Journal
  <2>4. CASE ReconcileStepOk(t)
    <3>0. t \in Chained /\ awaits[t] = {} /\ t \notin Read
      BY <2>0, <2>4 DEF ReconcileStepOk, InFlight
    <3>1. CASE state[t] # "sqlserver"
      <4>1. NextCommand[state[t]] \in InFlight
        BY <2>4, <3>1 DEF ReconcileStepOk, NextCommand, Journal, InFlight
      <4> QED
        BY <2>1, <2>4, <3>0, <3>1, <4>1 DEF ReconcileStepOk
    <3>2. CASE state[t] = "sqlserver" /\ t \in Write
      BY <2>1, <2>4, <3>0, <3>2 DEF ReconcileStepOk, InFlight
    <3>3. CASE state[t] = "sqlserver" /\ t \notin Write
      <4>1. Settle({t}, "done") /\ UNCHANGED <<applied, behind, seen, lostBarrier>>
        BY <2>4, <3>3 DEF ReconcileStepOk
      <4> QED
        BY <3>0, <4>1, OrderKeptBySettling DEF Settled
    <3> QED
      BY <3>1, <3>2, <3>3
  <2>5. CASE InvalidationFails(t) \/ ReadRefused(t) \/ ReaderDies(t)
    <3>1. t \in Chained /\ awaits[t] = {}
      BY <2>0, <2>5 DEF InvalidationFails, ReadRefused, ReaderDies, AtTurn, InFlight
    <3>2. Settle({t}, "failed") /\ UNCHANGED <<applied, behind, seen, lostBarrier>>
      BY <2>5 DEF InvalidationFails, ReadRefused, ReaderDies
    <3> QED
      BY <3>1, <3>2, OrderKeptBySettling DEF Settled
  <2>6. CASE ReconcileStepRefused(t) \/ WriterDies(t) \/ WriteAnswered(t)
    <3>1. t \in Chained /\ awaits[t] = {} /\ t \notin Read
      BY <2>0, <2>6 DEF ReconcileStepRefused, WriterDies, WriteAnswered, InFlight
    <3>2. \E o \in Settled : Settle({t}, o)
      BY <2>6 DEF ReconcileStepRefused, WriterDies, WriteAnswered, Settled
    <3>3. UNCHANGED <<applied, behind, seen, lostBarrier>>
      BY <2>6 DEF ReconcileStepRefused, WriterDies, WriteAnswered
    <3> QED
      BY <3>1, <3>2, <3>3, OrderKeptBySettling
  <2>7. CASE ReadAnswered(t)
    <3>1. t \in Chained /\ awaits[t] = {}
      BY <2>0, <2>7 DEF ReadAnswered, InFlight
    <3>2. t \in Read /\ Settle({t}, "done") /\ seen' = [seen EXCEPT ![t] = applied]
          /\ UNCHANGED <<applied, behind, lostBarrier>>
      BY <2>7 DEF ReadAnswered
    <3> QED
      BY <3>1, <3>2, OrderKeptBySettling DEF Settled
  <2> QED
    BY <1>4, <2>2, <2>3, <2>4, <2>5, <2>6, <2>7 DEF Advance
<1>5. ASSUME NEW w \in Write, Apply(w)
      PROVE  OrderInv'
  <2>1. /\ UNCHANGED <<state, awaits, behind, seen, lostBarrier>>
        /\ {w} \in SUBSET Write /\ applied' = applied \union {w}
        /\ \A x \in {w} : state[x] = "running"
    BY <1>5 DEF Apply
  <2> QED
    BY <2>1, <1>1
<1>6. CASE Shutdown
  <2> DEFINE S == {t \in Request : state[t] \in InFlight}
  <2>1. PICK more \in SUBSET {w \in Write : state[w] = "running"} : applied' = applied \union more
    BY <1>6 DEF Shutdown
  <2>2. Settle(S, "failed") /\ UNCHANGED <<behind, seen, lostBarrier>>
    BY <1>6 DEF Shutdown
  <2>3. \A t \in S : t \in Chained /\ awaits[t] = {} /\ state'[t] = "failed"
    BY <2>2 DEF ChainInv, WaitsAreChained, Chained, Settle
  <2>4. /\ \A t \in Request \ S :
             \/ state'[t] = state[t]
             \/ state[t] = "waiting" /\ state'[t] \in {"cleared", "failed"}
        /\ \A t \in Request : awaits'[t] = awaits[t] \ S
    BY <2>2 DEF Settle
  <2>5. S \in SUBSET Request /\ more \in SUBSET Write /\ \A w \in more : state[w] = "running"
    OBVIOUS
  <2>6. \A t \in S : t \in Chained /\ awaits[t] = {} /\ state'[t] \in Settled /\ state'[t] # "done"
    BY <2>3 DEF Settled
  <2>7. \A t \in Request \ S :
           \/ state'[t] = state[t]
           \/ state[t] \in {"new", "waiting", "cleared"} /\ state'[t] \in {"waiting", "cleared", "failed"}
           \/ t \in Chained /\ awaits[t] = {} /\ state'[t] \in InFlight
    BY <2>4
  <2>8. \A r \in Read : seen'[r] = seen[r] /\ (r \in S => state'[r] # "done")
    BY <2>2, <2>6
  <2> HIDE DEF S
  <2> QED
    BY <2>1, <2>2, <2>4, <2>5, <2>6, <2>7, <2>8, OrderKept
<1>7. CASE WriterDiesIdle \/ JournalOpens \/ JournalCloses \/ UNCHANGED vars
  <2>1. UNCHANGED <<state, awaits, applied, behind, seen, lostBarrier>>
    BY <1>7 DEF WriterDiesIdle, JournalOpens, JournalCloses, vars
  <2> QED
    BY <2>1 DEF OrderInv, BehindIsBefore, AnsweredAfterBehind, ReadsKeepTheOrder, Chained
<1> QED
  BY <1>2, <1>3, <1>4, <1>5, <1>6, <1>7 DEF Next

-----------------------------------------------------------------------------
(* The theorems.                                                            *)

LEMMA InitIInv == Init => IInv
<1> SUFFICES ASSUME Init
             PROVE  IInv
  OBVIOUS
<1>1. TypeOK
  <2>1. 0 \in 0 .. Lanes - 1
    BY PoolAssumption
  <2>2. /\ state \in [Request -> States]
        /\ awaits \in [Request -> SUBSET Request]
        /\ lane \in [Read -> 0 .. Lanes - 1]
        /\ behind \in [Read -> SUBSET Write]
        /\ seen \in [Read -> SUBSET Write]
    BY <2>1 DEF Init, States
  <2>3. /\ readerBarrier \in Request \union {Nobody}
        /\ recoveryPromise \in Recovery \union {Nobody}
        /\ starts \in Nat /\ reconciledWriterGeneration \in Nat
        /\ writerUp \in BOOLEAN /\ recoveryError \in BOOLEAN /\ closed \in BOOLEAN
        /\ lostBarrier \in BOOLEAN
        /\ readerCursor \in 0 .. Lanes - 1
        /\ journals \subseteq Kinds /\ inherited \subseteq Kinds
        /\ applied \subseteq Write
    BY <2>1 DEF Init
  <2> QED
    BY <2>2, <2>3 DEF TypeOK
<1>2. Chained = {} /\ WriterChain = {}
  BY DEF Init, Chained, WriterChain, InFlight, Journal
<1>3. ChainInv
  BY <1>2 DEF Init, ChainInv, WaitsAreChained, WriterChainOrdered, BarrierIsLast,
              ReadsAndWritersOrdered, Request, Journal
<1>4. ReconcileInv
  BY DEF Init, ReconcileInv, StagesClose, ReadyMeansReconciled, StoreTrusted, RecoveryReady, Exclusive, Request, InFlight, Journal
<1>5. OrderInv
  BY <1>2 DEF Init, OrderInv, BehindIsBefore, AnsweredAfterBehind, ReadsKeepTheOrder, Request, Exclusive
<1> QED
  BY <1>1, <1>3, <1>4, <1>5 DEF IInv, ChainInv, ReconcileInv, OrderInv

\* Whatever requests arrive, whatever dies and however full the queue is, IInv holds.
THEOREM PoolInvariant == Spec => []IInv
<1>1. IInv /\ [Next]_vars => IInv'
  BY TypeInductive, ChainsInductive, ReconcileInductive, OrderInductive
  DEF IInv, ChainInv, ReconcileInv, OrderInv
<1> QED
  BY InitIInv, <1>1, PTL DEF Spec

\* Readers and writer exclude one another until a refusal replaces a barrier, and
\* the writer is sent one command at a time even then: enqueueWriterExclusive.
THEOREM PoolExcludes == Spec => [](OneWriterCommand /\ ReadersExcludeWriter)
<1>1. IInv => OneWriterCommand /\ ReadersExcludeWriter
  BY ChainsExclude DEF IInv, ChainInv
<1> QED
  BY PoolInvariant, <1>1, PTL

\* Wherever isRecoveryReady is true, and wherever a write or a properly barred
\* read runs, what the writer process found open when it was started has been
\* reconciled, whatever is opened and left open since.
THEOREM PoolReconciles == Spec => []ReadyMeansReconciled
<1>1. IInv => ReadyMeansReconciled
  BY DEF IInv
<1> QED
  BY PoolInvariant, <1>1, PTL

\* A read shows the writes chained before it and no other.
THEOREM PoolKeepsTheOrder == Spec => []ReadsKeepTheOrder
<1>1. IInv => ReadsKeepTheOrder
  BY DEF IInv
<1> QED
  BY PoolInvariant, <1>1, PTL

-----------------------------------------------------------------------------
(* DurableJobQueue                                                          *)

\* What a command or timer that is begun, answered or followed by another does
\* to the bag.
LEMMA AwaitAdds ==
  ASSUME IsABag(calls), NEW c, Await(c)
  PROVE  /\ IsABag(calls')
         /\ Awaited' = Awaited \union {c}
         /\ \A d \in Awaited : d # c => calls'[d] = calls[d]
         /\ c \notin Awaited => calls'[c] = 1
<1>1. calls' = [e \in DOMAIN calls \union {c} |->
                  (IF e \in DOMAIN calls THEN calls[e] ELSE 0) + (IF e \in {c} THEN 1 ELSE 0)]
  BY DEF Await, SetToBag, (+)
<1>2. \A e \in DOMAIN calls : calls[e] \in Nat /\ calls[e] > 0
  BY DEF IsABag
<1>3. \A e \in DOMAIN calls' : calls'[e] \in Nat /\ calls'[e] > 0
  BY <1>1, <1>2
<1> QED
  BY <1>1, <1>2, <1>3 DEF Awaited, BagToSet, IsABag

LEMMA AnsweredTakes ==
  ASSUME IsABag(calls), NEW c \in Awaited, Answered(c)
  PROVE  /\ IsABag(calls')
         /\ Awaited' \subseteq Awaited
         /\ Awaited \ {c} \subseteq Awaited'
         /\ \A d \in Awaited \ {c} : calls'[d] = calls[d]
         /\ calls[c] = 1 => Awaited' = Awaited \ {c}
<1> DEFINE left == [e \in DOMAIN calls |-> IF e \in {c} THEN calls[e] - 1 ELSE calls[e]]
<1>1. calls' = [e \in {d \in DOMAIN left : left[d] > 0} |-> left[e]]
  <2>1. \A e : e \in DOMAIN SetToBag({c}) <=> e \in {c}
    BY DEF SetToBag
  <2>2. \A e \in {c} : SetToBag({c})[e] = 1
    BY DEF SetToBag
  <2>3. left = [e \in DOMAIN calls |-> IF e \in DOMAIN SetToBag({c})
                                       THEN calls[e] - SetToBag({c})[e] ELSE calls[e]]
    BY <2>1, <2>2
  <2> QED
    BY <2>3 DEF Answered, (-)
<1>2. \A e \in DOMAIN calls : calls[e] \in Nat /\ calls[e] > 0
  BY DEF IsABag
<1>3. DOMAIN calls' = {d \in DOMAIN calls : left[d] > 0} /\ \A e \in DOMAIN calls' : calls'[e] = left[e]
  BY <1>1
<1>4. \A e \in DOMAIN calls' : calls'[e] \in Nat /\ calls'[e] > 0
  BY <1>2, <1>3
<1>5. calls' \in [DOMAIN calls' -> {n \in Nat : n > 0}]
  BY <1>1, <1>4
<1>6. \A e \in DOMAIN calls \ {c} : left[e] = calls[e]
  OBVIOUS
<1>7. c \in DOMAIN calls
  BY DEF Awaited, BagToSet
<1>8. calls[c] = 1 => left[c] = 0
  BY <1>7
<1> HIDE DEF left
<1> QED
  BY <1>2, <1>3, <1>5, <1>6, <1>7, <1>8 DEF Awaited, BagToSet, IsABag

LEMMA ReplaceMoves ==
  ASSUME IsABag(calls), NEW c \in Awaited, NEW d, d # c, Replace(c, d)
  PROVE  /\ IsABag(calls')
         /\ Awaited' \subseteq Awaited \union {d}
         /\ (Awaited \ {c}) \union {d} \subseteq Awaited'
         /\ \A e \in Awaited \ {c, d} : calls'[e] = calls[e]
         /\ d \notin Awaited => calls'[d] = 1
         /\ calls[c] = 1 => Awaited' = (Awaited \ {c}) \union {d}
<1> DEFINE less == calls (-) SetToBag({c})
           left == [e \in DOMAIN calls |-> IF e \in {c} THEN calls[e] - 1 ELSE calls[e]]
<1>1. less = [e \in {x \in DOMAIN left : left[x] > 0} |-> left[e]]
  <2>1. \A e : e \in DOMAIN SetToBag({c}) <=> e \in {c}
    BY DEF SetToBag
  <2>2. \A e \in {c} : SetToBag({c})[e] = 1
    BY DEF SetToBag
  <2>3. left = [e \in DOMAIN calls |-> IF e \in DOMAIN SetToBag({c})
                                       THEN calls[e] - SetToBag({c})[e] ELSE calls[e]]
    BY <2>1, <2>2
  <2> QED
    BY <2>3 DEF (-)
<1>2. \A e \in DOMAIN calls : calls[e] \in Nat /\ calls[e] > 0
  BY DEF IsABag
<1>3. DOMAIN less = {x \in DOMAIN calls : left[x] > 0} /\ \A e \in DOMAIN less : less[e] = left[e]
  BY <1>1
<1>4. calls' = [e \in DOMAIN less \union {d} |->
                  (IF e \in DOMAIN less THEN less[e] ELSE 0) + (IF e \in {d} THEN 1 ELSE 0)]
  BY DEF Replace, SetToBag, (+)
<1>5. \A e \in DOMAIN calls \ {c} : left[e] = calls[e]
  OBVIOUS
<1>6. c \in DOMAIN calls /\ (calls[c] = 1 => left[c] = 0)
  BY DEF Awaited, BagToSet
<1>15. \A e \in DOMAIN calls : left[e] \in Int
  BY <1>2
<1> HIDE DEF less, left
<1>7. \A e \in DOMAIN less : less[e] \in Nat /\ less[e] > 0
  BY <1>3, <1>15
<1>8. \A e \in DOMAIN calls' : calls'[e] \in Nat /\ calls'[e] > 0
  BY <1>4, <1>7
<1>9. calls' \in [DOMAIN calls' -> {n \in Nat : n > 0}]
  BY <1>4, <1>8
<1>10. DOMAIN calls' = DOMAIN less \union {d}
  BY <1>4
<1>11. DOMAIN less \subseteq DOMAIN calls /\ DOMAIN calls \ {c} \subseteq DOMAIN less
  BY <1>2, <1>3, <1>5
<1>12. \A e \in DOMAIN calls \ {c, d} : calls'[e] = calls[e]
  BY <1>2, <1>3, <1>4, <1>5, <1>11
<1>13. d \notin DOMAIN calls => calls'[d] = 1
  BY <1>4, <1>11
<1>14. calls[c] = 1 => c \notin DOMAIN less
  BY <1>3, <1>6
<1> QED
  BY <1>9, <1>10, <1>11, <1>12, <1>13, <1>14 DEF Awaited, BagToSet, IsABag

\* Where each job waits once at most, cancel takes its job out and no other.
LEMMA RemoveFirstDrops ==
  ASSUME NEW S, NEW s \in Seq(S), IsInjective(s), NEW j
  PROVE  /\ RemoveFirst(s, j) \in Seq(S) /\ IsInjective(RemoveFirst(s, j))
         /\ \A i \in DOMAIN RemoveFirst(s, j) :
              /\ RemoveFirst(s, j)[i] # j
              /\ \E k \in DOMAIN s : RemoveFirst(s, j)[i] = s[k]
         /\ \A k \in DOMAIN s : s[k] # j => \E i \in DOMAIN RemoveFirst(s, j) : RemoveFirst(s, j)[i] = s[k]
         /\ s = <<>> => RemoveFirst(s, j) = <<>>
<1>1. CASE ~\E i \in 1 .. Len(s) : s[i] = j
  <2>1. RemoveFirst(s, j) = s
    BY <1>1 DEF RemoveFirst
  <2> QED
    BY <1>1, <2>1
<1>2. CASE \E i \in 1 .. Len(s) : s[i] = j
  <2>1. PICK at \in 1 .. Len(s) : s[at] = j
    BY <1>2
  <2>2. {i \in 1 .. Len(s) : s[i] = j} = {at}
    BY <2>1 DEF IsInjective
  <2>3. SelectInSeq(s, LAMBDA v : v = j) = at
    <3>1. SelectInSeq(s, LAMBDA v : v = j) = Min({at})
      BY <2>2 DEF SelectInSeq
    <3>2. at \in Int
      OBVIOUS
    <3> QED
      BY <3>1, <3>2 DEF Min
  <2>4. RemoveFirst(s, j) = SubSeq(s, 1, at - 1) \o SubSeq(s, at + 1, Len(s))
    BY <1>2, <2>3 DEF RemoveFirst, RemoveAt
  <2> DEFINE t == RemoveFirst(s, j)
             n == Len(s)
  <2>5. n \in Nat /\ at \in 1 .. n /\ DOMAIN s = 1 .. n /\ \A k \in 1 .. n : s[k] \in S
    OBVIOUS
  <2>6. /\ t \in Seq(S) /\ Len(t) = n - 1
        /\ \A i \in 1 .. n - 1 : t[i] = IF i < at THEN s[i] ELSE s[i + 1]
    <3> DEFINE front == SubSeq(s, 1, at - 1)
               rest == SubSeq(s, at + 1, n)
    <3>1. /\ front \in Seq(S) /\ Len(front) = at - 1
          /\ \A i \in 1 .. at - 1 : front[i] = s[i]
      BY <2>5
    <3>2. /\ rest \in Seq(S) /\ Len(rest) = n - at
          /\ \A i \in 1 .. n - at : rest[i] = s[at + i]
      <4>1. \A i \in at + 1 .. n : s[i] \in S
        BY <2>5
      <4>2. /\ rest \in Seq(S) /\ Len(rest) = IF at + 1 <= n THEN n - (at + 1) + 1 ELSE 0
            /\ \A i \in 1 .. n - (at + 1) + 1 : rest[i] = s[(at + 1) + i - 1]
        <5>1. at + 1 \in Int /\ n \in Int
          BY <2>5
        <5> HIDE DEF n
        <5> QED
          BY <4>1, <5>1, SubSeqProperties
      <4> HIDE DEF n, rest
      <4> QED
        BY <2>5, <4>2
    <3>3. t = front \o rest
      BY <2>4
    <3> HIDE DEF t, front, rest, n
    <3>4. t \in Seq(S) /\ Len(t) = n - 1
      BY <2>5, <3>1, <3>2, <3>3
    <3>5. ASSUME NEW i \in 1 .. n - 1
          PROVE  t[i] = IF i < at THEN s[i] ELSE s[i + 1]
      <4>1. t[i] = IF i <= Len(front) THEN front[i] ELSE rest[i - Len(front)]
        <5>1. i \in 1 .. Len(front) + Len(rest)
          BY <2>5, <3>1, <3>2
        <5> QED
          BY <3>1, <3>2, <3>3, <5>1
      <4>2. CASE i < at
        BY <2>5, <3>1, <4>1, <4>2
      <4>3. CASE ~(i < at)
        <5>1. i - (at - 1) \in 1 .. n - at /\ at + (i - (at - 1)) = i + 1 /\ ~(i <= at - 1)
          BY <2>5, <4>3
        <5> QED
          BY <3>1, <3>2, <4>1, <4>3, <5>1
      <4> QED
        BY <4>2, <4>3
    <3> QED
      BY <3>4, <3>5
  <2>7. DOMAIN t = 1 .. n - 1
    BY <2>5, <2>6
  <2> HIDE DEF t, n
  <2>8. \A i \in 1 .. n - 1 : \E k \in 1 .. n : k # at /\ t[i] = s[k]
    BY <2>5, <2>6
  <2>9. \A i \in 1 .. n - 1 : t[i] # j
    BY <2>1, <2>5, <2>8 DEF IsInjective
  <2>10. ASSUME NEW k \in 1 .. n, s[k] # j
         PROVE  \E i \in 1 .. n - 1 : t[i] = s[k]
    <3>1. CASE k < at
      BY <2>5, <2>6, <3>1
    <3>2. CASE at < k
      <4>1. k - 1 \in 1 .. n - 1 /\ ~(k - 1 < at) /\ (k - 1) + 1 = k
        BY <2>5, <3>2
      <4> QED
        BY <2>6, <4>1
    <3> QED
      BY <2>1, <2>5, <2>10, <3>1, <3>2
  <2>11. ASSUME NEW a \in 1 .. n - 1, NEW b \in 1 .. n - 1, t[a] = t[b]
         PROVE  a = b
    <3>1. /\ a \in Int /\ b \in Int /\ at \in Int
          /\ a \in 1 .. n /\ a + 1 \in 1 .. n /\ b \in 1 .. n /\ b + 1 \in 1 .. n
      BY <2>5
    <3>2. (IF a < at THEN a ELSE a + 1) = IF b < at THEN b ELSE b + 1
      BY <2>5, <2>6, <2>11, <3>1 DEF IsInjective
    <3> QED
      BY <3>1, <3>2
  <2>12. s # <<>>
    BY <2>5 DEF n
  <2> QED
    BY <2>5, <2>6, <2>7, <2>8, <2>9, <2>10, <2>11, <2>12 DEF t, IsInjective
<1> QED
  BY <1>1, <1>2

LEMMA OthersStay ==
  ASSUME NEW S, NEW s \in Seq(S), IsInjective(s), NEW j
  PROVE  \A k \in DOMAIN s : s[k] # j => \E i \in DOMAIN RemoveFirst(s, j) : RemoveFirst(s, j)[i] = s[k]
BY RemoveFirstDrops

Statuses == /\ JobTable!AllStatuses = {"absent", "queued", "running", "cancel_requested",
                                       "needs_attention", "succeeded", "failed", "canceled"}
            /\ JobTable!TerminalStatuses = {"succeeded", "failed", "canceled"}
            /\ JobTable!LiveStatuses = {"queued", "running", "cancel_requested", "needs_attention"}

LEMMA StatusesAre == Statuses
BY DEF Statuses, JobTable!AllStatuses, JobTable!TerminalStatuses, JobTable!LiveStatuses

\* What every step but a creation, a resume and a claim does to the job table.
Calm ==
  \A j \in Job : /\ jobStatus'[j] \in {"absent", "queued", "running"} => jobStatus'[j] = jobStatus[j]
                 /\ jobStatus[j] \in JobTable!TerminalStatuses =>
                      jobStatus'[j] \in JobTable!TerminalStatuses

LEMMA StillIsCalm ==
  ASSUME UNCHANGED jobStatus
  PROVE  Calm
BY DEF Calm

LEMMA CallsAre ==
  ASSUME QueueTypeOK
  PROVE  /\ IsABag(calls)
         /\ \A c \in Awaited : c.op \in Ops /\ c.job \in Job /\ c.job # None
         /\ None \notin Job /\ None \notin Worker
BY QueueAssumption DEF QueueTypeOK

-----------------------------------------------------------------------------
(* The parts of the invariant over steps that only take from what they name *)

\* The call the queue is engaged with is alone.
LEMMA EngagedIs ==
  ASSUME OneThread, NEW c \in Awaited, c.op \notin Requests, c.op \notin Timers \/ c.job = activeImport
  PROVE  /\ c.job = activeImport /\ calls[c] = 1
         /\ \A w \in Worker : ~Alive(w)
         /\ \A e \in Awaited \ {c} : e.op \notin Requests => e.op \in Timers /\ e.job # activeImport
BY DEF OneThread, Engaged

\* Nothing happens to the thread but that it may end.
LEMMA ThreadStays ==
  ASSUME OneThread, activeImport' = activeImport,
         \A w \in Worker : Alive(w)' => Alive(w) /\ wjob'[w] = wjob[w],
         \A e \in Awaited' : e.op \notin Requests =>
           e \in Awaited /\ (e.job = activeImport => calls'[e] = calls[e])
  PROVE  OneThread'
BY DEF OneThread, Engaged

\* The thread is the call d from now on.
LEMMA ThreadMoves ==
  ASSUME \A w \in Worker : ~Alive(w)',
         NEW d, d \in Awaited' => calls'[d] = 1 /\ d.job = activeImport',
         \A e \in Awaited' : e # d /\ e.op \notin Requests => e.op \in Timers /\ e.job # activeImport'
  PROVE  OneThread'
BY DEF OneThread, Engaged

\* The thread is a process from now on.
LEMMA ThreadStarts ==
  ASSUME QueueTypeOK, NEW j \in Job, Launch(j), activeImport' = j,
         \A w \in Worker : ~Alive(w),
         \A e \in Awaited' : e.op \notin Requests => e.op \in Timers /\ e.job # j
  PROVE  OneThread'
<1>1. PICK w \in Worker : /\ phase' = [phase EXCEPT ![w] = "started"]
                          /\ wjob' = [wjob EXCEPT ![w] = j]
  BY DEF Launch
<1>2. wjob'[w] = j /\ \A v \in Worker \ {w} : ~Alive(v)'
  BY <1>1 DEF QueueTypeOK, Alive
<1> QED
  BY <1>2 DEF OneThread, Engaged

LEMMA RequestsKeep ==
  ASSUME QueueTypeOK, RequestsStand, Calm,
         \A e \in Awaited' : e.op \in Requests => e \in Awaited
  PROVE  RequestsStand'
BY DEF QueueTypeOK, RequestsStand, Calm, Requests

LEMMA TimersKeep ==
  ASSUME QueueTypeOK, StaleTimersPass, Calm,
         \A e \in Awaited' : e.op \in Timers /\ e.job # activeImport' =>
           /\ e \in Awaited /\ e.job # activeImport
           /\ Pending(e.job)' => Pending(e.job)
           /\ \A d \in Awaited : d.op = "resumed" /\ d.job = e.job => d \in Awaited',
         \A e \in Awaited' : e.op = "created" => e \in Awaited
  PROVE  StaleTimersPass'
BY DEF QueueTypeOK, StaleTimersPass, Calm

LEMMA AnswersKeep ==
  ASSUME QueueTypeOK, AnswersStand, Calm,
         \A e \in Awaited' :
           \/ /\ e \in Awaited
              /\ e.op = "exit" => phase'[e.info] = phase[e.info] /\ wjob'[e.info] = wjob[e.info]
              /\ e.op = "claimed" =>
                   \A d \in Awaited : d.op = "resumed" /\ d.job = e.job => d \in Awaited'
           \/ AnswerHolds(e)',
         \A j \in Job : activeImport' = j \/ Pending(j)' =>
           activeImport = j \/ Pending(j) \/ jobStatus'[j] # "absent"
  PROVE  AnswersStand'
<1>1. ASSUME NEW e \in Awaited', e \in Awaited,
             e.op = "exit" => phase'[e.info] = phase[e.info] /\ wjob'[e.info] = wjob[e.info],
             e.op = "claimed" =>
               \A d \in Awaited : d.op = "resumed" /\ d.job = e.job => d \in Awaited'
      PROVE  AnswerHolds(e)'
  <2>1. AnswerHolds(e) /\ e.job \in Job
    BY <1>1 DEF AnswersStand, QueueTypeOK
  <2> QED
    BY <1>1, <2>1 DEF AnswerHolds, Calm
<1>2. \A e \in Awaited' : AnswerHolds(e)'
  BY <1>1
<1>3. \A j \in Job : activeImport' = j \/ Pending(j)' => jobStatus'[j] # "absent"
  BY DEF AnswersStand, Calm
<1> QED
  BY <1>2, <1>3 DEF AnswersStand

LEMMA RunningKeeps ==
  ASSUME RunningIsActive, Calm, shuttingDown => shuttingDown',
         \A j \in Job : activeImport = j /\ jobStatus'[j] = "running" /\ ~shuttingDown' => activeImport' = j,
         \A e \in Awaited' : e.op \in {"claim", "claimed"} => \E d \in Awaited : d.op \in {"claim", "claimed"}
  PROVE  RunningIsActive'
BY DEF RunningIsActive, Calm

-----------------------------------------------------------------------------
(* Owner requests                                                           *)

LEMMA CreateKeeps ==
  ASSUME QueueInv, NoOwnerRace, NEW j \in Job, OwnerInTurn(j), Create(j)
  PROVE  QueueInv'
<1> DEFINE d == Continuation("created", j, "sent")
<1>1. /\ d.op = "created" /\ d.job = j /\ d.op \in Requests /\ d.op \notin Timers
      /\ \A e \in Awaited : e.job = j => e.op \notin Requests
  BY DEF Continuation, Create, OwnerInTurn, NoOwnerRace, Requests, Timers
<1>2. IsABag(calls) /\ Await(d)
  BY DEF Create, QueueInv, QueueTypeOK
<1> HIDE DEF d
<1>3. /\ IsABag(calls') /\ Awaited' = Awaited \union {d} /\ d \notin Awaited
      /\ \A e \in Awaited : calls'[e] = calls[e]
  BY <1>1, <1>2, AwaitAdds
<1>4. /\ jobStatus \in [Job -> JobTable!AllStatuses]
      /\ jobStatus[j] \in {"absent", "queued"}
      /\ \A i \in Job : jobStatus'[i] = IF i = j THEN "queued" ELSE jobStatus[i]
      /\ jobStatus' \in [Job -> JobTable!AllStatuses]
  BY StatusesAre DEF Create, QueueInv, QueueTypeOK, Statuses
<1>5. UNCHANGED <<leaseHolder, leaseActive, workerVars, queueVars, activeWorkspace, shuttingDown>>
  BY DEF Create
<1>6. QueueTypeOK'
  BY <1>1, <1>3, <1>4, <1>5
     DEF QueueInv, QueueTypeOK, workerVars, queueVars, Ops
<1>7. OneThread'
  BY <1>1, <1>3, <1>5, ThreadStays DEF QueueInv, workerVars, queueVars, Alive
<1>8. QueueInOrder'
  BY <1>5 DEF QueueInv, QueueInOrder, PendingBehindActive, Pending, queueVars, IsInjective
<1>9. \A e \in Awaited : e.op \in Timers /\ e.job # activeImport => e.job # j
  BY <1>1, <1>4 DEF QueueInv, StaleTimersPass, Requests
<1>10. StaleTimersPass'
  BY <1>1, <1>3, <1>4, <1>5, <1>9 DEF QueueInv, StaleTimersPass, Pending, queueVars, QueueTypeOK
<1>11. RequestsStand'
  BY <1>1, <1>3, <1>4 DEF QueueInv, RequestsStand, QueueTypeOK
<1>12. AnswersStand'
  <2>1. ASSUME NEW e \in Awaited
        PROVE  AnswerHolds(e)'
    <3>1. AnswerHolds(e) /\ e.job \in Job
      BY DEF QueueInv, AnswersStand, QueueTypeOK
    <3>2. jobStatus'[e.job] = jobStatus[e.job]
      BY <1>4, <3>1 DEF AnswerHolds
    <3> QED
      BY <1>3, <1>5, <3>1, <3>2 DEF AnswerHolds, workerVars
  <2>2. AnswerHolds(d)'
    BY <1>1, <1>4 DEF AnswerHolds
  <2> QED
    BY <1>3, <1>4, <1>5, <2>1, <2>2 DEF QueueInv, AnswersStand, queueVars, Pending
<1>13. RunningIsActive'
  BY <1>1, <1>3, <1>4, <1>5 DEF QueueInv, RunningIsActive, queueVars
<1> QED
  BY <1>6, <1>7, <1>8, <1>10, <1>11, <1>12, <1>13 DEF QueueInv

LEMMA ResumeKeeps ==
  ASSUME QueueInv, NoOwnerRace, NEW j \in Job, OwnerInTurn(j), Resume(j)
  PROVE  QueueInv'
<1> DEFINE d == Continuation("resumed", j, "sent")
<1>1. /\ d.op = "resumed" /\ d.job = j /\ d.op \in Requests /\ d.op \notin Timers
      /\ \A e \in Awaited : e.job = j => e.op \notin Requests
  BY DEF Continuation, Resume, OwnerInTurn, NoOwnerRace, Requests, Timers
<1>2. IsABag(calls) /\ Await(d)
  BY DEF Resume, QueueInv, QueueTypeOK
<1> HIDE DEF d
<1>3. /\ IsABag(calls') /\ Awaited' = Awaited \union {d} /\ d \notin Awaited
      /\ \A e \in Awaited : calls'[e] = calls[e]
  BY <1>1, <1>2, AwaitAdds
<1>4. /\ jobStatus \in [Job -> JobTable!AllStatuses]
      /\ jobStatus[j] = "needs_attention"
      /\ \A i \in Job : jobStatus'[i] = IF i = j THEN "queued" ELSE jobStatus[i]
      /\ jobStatus' \in [Job -> JobTable!AllStatuses]
  BY StatusesAre DEF Resume, QueueInv, QueueTypeOK, Statuses
<1>5. UNCHANGED <<leaseHolder, leaseActive, workerVars, queueVars, activeWorkspace, shuttingDown>>
  BY DEF Resume
<1>6. QueueTypeOK'
  BY <1>1, <1>3, <1>4, <1>5
     DEF QueueInv, QueueTypeOK, workerVars, queueVars, Ops
<1>7. OneThread'
  BY <1>1, <1>3, <1>5, ThreadStays DEF QueueInv, workerVars, queueVars, Alive
<1>8. QueueInOrder'
  BY <1>5 DEF QueueInv, QueueInOrder, PendingBehindActive, Pending, queueVars, IsInjective
<1>10. StaleTimersPass'
  BY <1>1, <1>3, <1>4, <1>5 DEF QueueInv, StaleTimersPass, Pending, queueVars, QueueTypeOK
<1>11. RequestsStand'
  BY <1>1, <1>3, <1>4 DEF QueueInv, RequestsStand, QueueTypeOK, Requests
<1>12. AnswersStand'
  <2>1. ASSUME NEW e \in Awaited
        PROVE  AnswerHolds(e)'
    <3>1. AnswerHolds(e) /\ e.job \in Job
      BY DEF QueueInv, AnswersStand, QueueTypeOK
    <3>2. CASE e.job # j
      <4>1. jobStatus'[e.job] = jobStatus[e.job]
        BY <1>4, <3>1, <3>2
      <4> QED
        BY <1>3, <1>5, <3>1, <4>1 DEF AnswerHolds, workerVars
    <3>3. CASE e.job = j
      <4>1. jobStatus[e.job] \notin JobTable!TerminalStatuses /\ jobStatus'[e.job] = "queued"
        BY <1>4, <3>3, StatusesAre DEF Statuses
      <4> QED
        BY <1>1, <1>3, <1>5, <3>1, <3>3, <4>1 DEF AnswerHolds, workerVars
    <3> QED
      BY <3>2, <3>3
  <2>2. AnswerHolds(d)'
    BY <1>1, <1>4 DEF AnswerHolds
  <2> QED
    BY <1>3, <1>4, <1>5, <2>1, <2>2 DEF QueueInv, AnswersStand, queueVars, Pending
<1>13. RunningIsActive'
  BY <1>1, <1>3, <1>4, <1>5 DEF QueueInv, RunningIsActive, queueVars
<1> QED
  BY <1>6, <1>7, <1>8, <1>10, <1>11, <1>12, <1>13 DEF QueueInv

LEMMA CancelKeeps ==
  ASSUME QueueInv, NoOwnerRace, NEW j \in Job, OwnerInTurn(j), Cancel(j)
  PROVE  QueueInv'
<1> DEFINE d == Continuation("canceled", j, "sent")
<1>1. /\ d.op = "canceled" /\ d.job = j /\ d.op \in Requests /\ d.op \notin Timers
      /\ \A e \in Awaited : e.job = j => e.op \notin Requests
  BY DEF Continuation, Cancel, OwnerInTurn, NoOwnerRace, Requests, Timers
<1>2. IsABag(calls) /\ Await(d)
  BY DEF Cancel, QueueInv, QueueTypeOK
<1> HIDE DEF d
<1>3. /\ IsABag(calls') /\ Awaited' = Awaited \union {d} /\ d \notin Awaited
      /\ \A e \in Awaited : calls'[e] = calls[e]
  BY <1>1, <1>2, AwaitAdds
<1>4. /\ jobStatus \in [Job -> JobTable!AllStatuses]
      /\ jobStatus[j] \in JobTable!LiveStatuses \union {"canceled"}
      /\ jobStatus'[j] \in {"cancel_requested", "canceled"}
      /\ jobStatus[j] = "canceled" => jobStatus'[j] = "canceled"
      /\ \A i \in Job : i # j => jobStatus'[i] = jobStatus[i]
      /\ jobStatus' \in [Job -> JobTable!AllStatuses]
  BY StatusesAre DEF Cancel, QueueInv, QueueTypeOK, Statuses, Running
<1>5. UNCHANGED <<leaseHolder, leaseActive, workerVars, queueVars, activeWorkspace, shuttingDown>>
  BY DEF Cancel
<1>6. QueueTypeOK'
  BY <1>1, <1>3, <1>4, <1>5
     DEF QueueInv, QueueTypeOK, workerVars, queueVars, Ops
<1>7. OneThread'
  BY <1>1, <1>3, <1>5, ThreadStays DEF QueueInv, workerVars, queueVars, Alive
<1>8. QueueInOrder'
  BY <1>5 DEF QueueInv, QueueInOrder, PendingBehindActive, Pending, queueVars, IsInjective
<1>9. Calm
  BY <1>4, StatusesAre DEF Calm, Statuses
<1>10. StaleTimersPass'
  BY <1>1, <1>3, <1>5, <1>9, TimersKeep DEF QueueInv, Pending, queueVars
<1>11. RequestsStand'
  BY <1>1, <1>3, <1>4 DEF QueueInv, RequestsStand, QueueTypeOK, Requests
<1>12. AnswersStand'
  <2>1. AnswerHolds(d)'
    BY <1>1, <1>4 DEF AnswerHolds
  <2> QED
    BY <1>3, <1>5, <1>9, <2>1, AnswersKeep DEF QueueInv, queueVars, workerVars, Pending
<1>13. RunningIsActive'
  BY <1>1, <1>3, <1>5, <1>9, RunningKeeps DEF QueueInv, queueVars
<1> QED
  BY <1>6, <1>7, <1>8, <1>10, <1>11, <1>12, <1>13 DEF QueueInv

-----------------------------------------------------------------------------
(* Worker processes                                                         *)

LEMMA ClaimKeeps ==
  ASSUME QueueInv, NEW w \in Worker, Claim(w)
  PROVE  QueueInv'
<1> DEFINE j == wjob[w]
<1>1. /\ Alive(w) /\ j \in Job /\ j = activeImport
      /\ phase[w] = "started" /\ jobStatus[j] = "queued"
  BY CallsAre DEF Claim, QueueInv, QueueTypeOK, OneThread, Alive
<1>2. /\ jobStatus \in [Job -> JobTable!AllStatuses]
      /\ jobStatus' = [jobStatus EXCEPT ![j] = "running"]
  BY DEF Claim, QueueInv, QueueTypeOK
<1> HIDE DEF j
<1>3. /\ \A i \in Job : jobStatus'[i] = IF i = j THEN "running" ELSE jobStatus[i]
      /\ jobStatus' \in [Job -> JobTable!AllStatuses]
  BY <1>1, <1>2, StatusesAre DEF Statuses
<1>4. /\ phase' = [phase EXCEPT ![w] = "claimed"]
      /\ UNCHANGED <<wjob, queueVars, calls, activeWorkspace, shuttingDown>>
  BY DEF Claim
<1>5. Awaited' = Awaited /\ \A v \in Worker : Alive(v)' <=> Alive(v)
  BY <1>1, <1>4 DEF Awaited, Alive, QueueInv, QueueTypeOK
<1>6. QueueTypeOK'
  <2>1. leaseHolder' \in [Workspace -> Worker \union {None}] /\ leaseActive' \in [Workspace -> BOOLEAN]
    BY DEF Claim, QueueInv, QueueTypeOK
  <2>2. phase' \in [Worker -> {"free", "started", "claimed", "done", "closed", "lost"}]
    BY <1>4 DEF QueueInv, QueueTypeOK
  <2>3. \A v \in Worker : wjob'[v] = None <=> phase'[v] = "free"
    BY <1>1, <1>4 DEF QueueInv, QueueTypeOK
  <2> QED
    BY <1>3, <1>4, <1>5, <2>1, <2>2, <2>3 DEF QueueInv, QueueTypeOK, queueVars
<1>7. OneThread'
  BY <1>4, <1>5, ThreadStays DEF QueueInv, queueVars
<1>8. QueueInOrder'
  BY <1>4 DEF QueueInv, QueueInOrder, PendingBehindActive, Pending, queueVars, IsInjective
<1>9. StaleTimersPass'
  BY <1>3, <1>4, <1>5 DEF QueueInv, StaleTimersPass, QueueTypeOK, Pending, queueVars
<1>10. RequestsStand'
  BY <1>1, <1>3, <1>5 DEF QueueInv, RequestsStand, QueueTypeOK
<1>11. AnswersStand'
  <2>1. ASSUME NEW e \in Awaited
        PROVE  AnswerHolds(e)'
    <3>1. AnswerHolds(e) /\ e.job \in Job
      BY DEF QueueInv, AnswersStand, QueueTypeOK
    <3>2. e.op = "exit" => phase'[e.info] = phase[e.info]
      BY <1>1, <1>4, <3>1 DEF AnswerHolds, QueueInv, QueueTypeOK
    <3>3. jobStatus[j] \notin JobTable!TerminalStatuses
      BY <1>1, StatusesAre DEF Statuses
    <3> QED
      BY <1>3, <1>4, <1>5, <3>1, <3>2, <3>3 DEF AnswerHolds
  <2> QED
    BY <1>3, <1>4, <1>5, <2>1 DEF QueueInv, AnswersStand, queueVars, Pending
<1>12. RunningIsActive'
  BY <1>1, <1>3, <1>4, <1>5 DEF QueueInv, RunningIsActive, OneThread, Engaged, queueVars, Requests, Timers
<1> QED
  BY <1>6, <1>7, <1>8, <1>9, <1>10, <1>11, <1>12 DEF QueueInv

LEMMA EndsJobKeeps ==
  ASSUME QueueInv, NEW w \in Worker, phase[w] \in {"started", "claimed"},
         NEW outcomes \in SUBSET {"succeeded", "canceled"}, EndsJob(w, outcomes)
  PROVE  QueueInv' /\ Calm
<1>1. wjob[w] \in Job
  BY CallsAre DEF QueueInv, QueueTypeOK
<1>2. /\ phase' = [phase EXCEPT ![w] = "done"]
      /\ UNCHANGED <<leaseHolder, leaseActive, wjob, queueVars, calls, activeWorkspace, shuttingDown>>
  BY DEF EndsJob
<1>3. PICK s \in outcomes \union {"failed", "needs_attention"} :
        /\ s \in JobTable!AllowedTransitions[jobStatus[wjob[w]]]
        /\ jobStatus' = [jobStatus EXCEPT ![wjob[w]] = s]
  BY DEF EndsJob
<1>4. jobStatus \in [Job -> JobTable!AllStatuses] /\ s \in JobTable!AllStatuses
  BY StatusesAre DEF QueueInv, QueueTypeOK, Statuses
<1>5. jobStatus[wjob[w]] \notin JobTable!TerminalStatuses
  BY <1>1, <1>3, <1>4, StatusesAre DEF Statuses, JobTable!AllowedTransitions
<1>6. Calm /\ jobStatus' \in [Job -> JobTable!AllStatuses]
  BY <1>1, <1>3, <1>4, <1>5, StatusesAre DEF Calm, Statuses
<1>7. Awaited' = Awaited /\ \A v \in Worker : Alive(v)' <=> Alive(v)
  BY <1>2 DEF Awaited, Alive, QueueInv, QueueTypeOK
<1>8. QueueTypeOK'
  <2>1. phase' \in [Worker -> {"free", "started", "claimed", "done", "closed", "lost"}]
    BY <1>2 DEF QueueInv, QueueTypeOK
  <2>2. \A v \in Worker : wjob'[v] = None <=> phase'[v] = "free"
    BY <1>2 DEF QueueInv, QueueTypeOK
  <2> QED
    BY <1>2, <1>6, <1>7, <2>1, <2>2 DEF QueueInv, QueueTypeOK, queueVars
<1>9. OneThread'
  BY <1>2, <1>7, ThreadStays DEF QueueInv, queueVars
<1>10. QueueInOrder'
  BY <1>2 DEF QueueInv, QueueInOrder, PendingBehindActive, Pending, queueVars, IsInjective
<1>11. StaleTimersPass'
  BY <1>2, <1>6, <1>7, TimersKeep DEF QueueInv, Pending, queueVars
<1>12. RequestsStand'
  BY <1>6, <1>7, RequestsKeep DEF QueueInv
<1>13. AnswersStand'
  <2>1. ASSUME NEW e \in Awaited, e.op = "exit"
        PROVE  phase'[e.info] = phase[e.info] /\ wjob'[e.info] = wjob[e.info]
    <3>1. AnswerHolds(e)
      BY DEF QueueInv, AnswersStand
    <3> QED
      BY <1>2, <2>1, <3>1 DEF AnswerHolds, QueueInv, QueueTypeOK
  <2> QED
    BY <1>2, <1>6, <1>7, <2>1, AnswersKeep DEF QueueInv, queueVars, Pending
<1>14. RunningIsActive'
  BY <1>2, <1>6, <1>7, RunningKeeps DEF QueueInv, queueVars
<1> QED
  BY <1>6, <1>8, <1>9, <1>10, <1>11, <1>12, <1>13, <1>14 DEF QueueInv

LEMMA WorkerKeeps ==
  ASSUME QueueInv, NEW w \in Worker, FailUnclaimed(w) \/ Finish(w)
  PROVE  QueueInv' /\ Calm
BY EndsJobKeeps DEF FailUnclaimed, Finish

\* The close event of the one process there is, after which its exit is awaited.
LEMMA WorkerClosesKeeps ==
  ASSUME QueueInv, NEW w \in Worker, WorkerCloses(w)
  PROVE  QueueInv'
<1>0. PICK d : d = Continuation("exit", wjob[w], w)
  OBVIOUS
<1>1. /\ Alive(w) /\ wjob[w] \in Job /\ wjob[w] = activeImport
      /\ \A v \in Worker : Alive(v) => v = w
  BY CallsAre DEF WorkerCloses, QueueInv, QueueTypeOK, OneThread, Alive
<1>2. /\ d.op = "exit" /\ d.job = activeImport /\ d.info = w /\ Await(d)
      /\ d.op \notin Requests \union Timers
      /\ phase' = [phase EXCEPT ![w] = "closed"]
      /\ UNCHANGED <<durableVars, wjob, queueVars, activeWorkspace, shuttingDown>>
  BY <1>0, <1>1 DEF WorkerCloses, Continuation, Requests, Timers
<1>3. d \notin Awaited
  BY <1>1, <1>2 DEF QueueInv, OneThread, Engaged
<1>4. IsABag(calls') /\ Awaited' = Awaited \union {d} /\ calls'[d] = 1
  BY <1>2, <1>3, AwaitAdds, CallsAre DEF QueueInv
<1>5. Calm /\ jobStatus' = jobStatus
  BY <1>2, StillIsCalm DEF durableVars
<1>6. \A v \in Worker : ~Alive(v)'
  BY <1>1, <1>2 DEF Alive, QueueInv, QueueTypeOK
<1>7. \A e \in Awaited : e.op \notin Requests => e.op \in Timers /\ e.job # activeImport
  BY <1>1 DEF QueueInv, OneThread, Engaged
<1>8. QueueTypeOK'
  <2>1. phase' \in [Worker -> {"free", "started", "claimed", "done", "closed", "lost"}]
    BY <1>2 DEF QueueInv, QueueTypeOK
  <2>2. \A v \in Worker : wjob'[v] = None <=> phase'[v] = "free"
    BY <1>1, <1>2, CallsAre DEF QueueInv, QueueTypeOK
  <2> QED
    BY <1>1, <1>2, <1>4, <2>1, <2>2 DEF QueueInv, QueueTypeOK, queueVars, durableVars, Ops
<1>9. OneThread'
  BY <1>2, <1>4, <1>6, <1>7, ThreadMoves DEF queueVars
<1>10. QueueInOrder'
  BY <1>2 DEF QueueInv, QueueInOrder, PendingBehindActive, Pending, queueVars, IsInjective
<1>11. StaleTimersPass'
  BY <1>2, <1>4, <1>5, TimersKeep DEF QueueInv, Pending, queueVars
<1>12. RequestsStand'
  BY <1>2, <1>4, <1>5, RequestsKeep DEF QueueInv
<1>13. AnswersStand'
  <2>1. ASSUME NEW e \in Awaited, e.op = "exit"
        PROVE  FALSE
    <3>1. e.op \notin Requests /\ e.op \notin Timers
      BY <2>1 DEF Requests, Timers
    <3> QED
      BY <1>7, <3>1
  <2>2. AnswerHolds(d)'
    <3>1. phase'[w] = "closed" /\ wjob'[w] = d.job
      BY <1>1, <1>2 DEF QueueInv, QueueTypeOK
    <3>2. jobStatus'[d.job] # "absent"
      BY <1>1, <1>2, <1>5 DEF QueueInv, AnswersStand
    <3> QED
      BY <1>2, <3>1, <3>2 DEF AnswerHolds
  <2> QED
    BY <1>2, <1>4, <1>5, <2>1, <2>2, AnswersKeep DEF QueueInv, queueVars, Pending
<1>14. RunningIsActive'
  BY <1>2, <1>4, <1>5, RunningKeeps DEF QueueInv, queueVars
<1> QED
  BY <1>8, <1>9, <1>10, <1>11, <1>12, <1>13, <1>14 DEF QueueInv

\* Only a lease, or the active workspace, changes.
LEMMA AsideKeeps ==
  ASSUME QueueInv, UNCHANGED <<jobStatus, leaseHolder, workerVars, queueVars, calls, shuttingDown>>,
         leaseActive' \in [Workspace -> BOOLEAN], activeWorkspace' \in Workspace
  PROVE  QueueInv'
<1>1. Calm /\ Awaited' = Awaited /\ \A v \in Worker : Alive(v)' <=> Alive(v)
  BY StillIsCalm DEF Awaited, Alive, workerVars
<1>2. QueueTypeOK'
  BY <1>1 DEF QueueInv, QueueTypeOK, queueVars, workerVars
<1>3. OneThread'
  BY <1>1, ThreadStays DEF QueueInv, queueVars, workerVars
<1>4. QueueInOrder'
  BY DEF QueueInv, QueueInOrder, PendingBehindActive, Pending, queueVars, IsInjective
<1>5. StaleTimersPass'
  BY <1>1, TimersKeep DEF QueueInv, Pending, queueVars
<1>6. RequestsStand'
  BY <1>1, RequestsKeep DEF QueueInv
<1>7. AnswersStand'
  BY <1>1, AnswersKeep DEF QueueInv, queueVars, workerVars, Pending
<1>8. RunningIsActive'
  BY <1>1, RunningKeeps DEF QueueInv, queueVars
<1> QED
  BY <1>2, <1>3, <1>4, <1>5, <1>6, <1>7, <1>8 DEF QueueInv

-----------------------------------------------------------------------------
(* The queue's continuations, by what they do to the thread                 *)

\* The call c is answered, and the queue goes on with the call d about its job.
LEMMA PassKeeps ==
  ASSUME QueueInv, NEW c \in Awaited, c.op \notin Requests, c.op \notin Timers \/ c.job = activeImport,
         NEW d, Replace(c, d), d.job = c.job, d.op \in Ops \ Requests, d.op # "exit", d.op # c.op,
         d.op \in {"claim", "claimed"} => c.op \in {"claim", "claimed"},
         Calm, AnswerHolds(d)',
         UNCHANGED <<queueVars, activeWorkspace, shuttingDown>>,
         jobStatus' \in [Job -> JobTable!AllStatuses],
         leaseHolder' \in [Workspace -> Worker \union {None}],
         leaseActive' \in [Workspace -> BOOLEAN],
         phase' \in [Worker -> {"free", "started", "claimed", "done", "closed", "lost"}],
         wjob' \in [Worker -> Job \union {None}],
         \A w \in Worker : ~Alive(w)' /\ (wjob'[w] = None <=> phase'[w] = "free")
  PROVE  QueueInv'
<1>1. /\ c.job = activeImport /\ calls[c] = 1
      /\ \A e \in Awaited \ {c} : e.op \notin Requests => e.op \in Timers /\ e.job # activeImport
  BY EngagedIs DEF QueueInv
<1>2. d # c /\ d \notin Awaited /\ c.job \in Job
  BY <1>1 DEF QueueInv, QueueTypeOK
<1>3. IsABag(calls') /\ Awaited' = (Awaited \ {c}) \union {d} /\ calls'[d] = 1
  BY <1>1, <1>2, ReplaceMoves, CallsAre DEF QueueInv
<1>4. QueueTypeOK'
  BY <1>2, <1>3 DEF QueueInv, QueueTypeOK, queueVars
<1>5. OneThread'
  BY <1>1, <1>3, ThreadMoves DEF queueVars
<1>6. QueueInOrder'
  BY DEF QueueInv, QueueInOrder, PendingBehindActive, Pending, queueVars, IsInjective
<1>7. StaleTimersPass'
  BY <1>1, <1>3, TimersKeep DEF QueueInv, Pending, queueVars, Requests
<1>8. RequestsStand'
  BY <1>3, RequestsKeep DEF QueueInv
<1>9. AnswersStand'
  <2>1. \A e \in Awaited \ {c} : e.op # "exit" /\ e.op # "claimed"
    <3>1. "exit" \notin Requests \union Timers /\ "claimed" \notin Requests \union Timers
      BY DEF Requests, Timers
    <3> QED
      BY <1>1, <3>1
  <2> QED
    BY <1>3, <2>1, AnswersKeep DEF QueueInv, queueVars, Pending
<1>10. RunningIsActive'
  BY <1>3, RunningKeeps DEF QueueInv, queueVars
<1> QED
  BY <1>4, <1>5, <1>6, <1>7, <1>8, <1>9, <1>10 DEF QueueInv

\* The call c is answered and nothing follows.
LEMMA RestKeeps ==
  ASSUME QueueInv, NEW c \in Awaited, Answered(c),
         UNCHANGED <<durableVars, workerVars, queueVars, activeWorkspace, shuttingDown>>,
         c.op = "resumed" => \A e \in Awaited : e.job = c.job => e.op \in Requests
  PROVE  QueueInv'
<1>1. Calm /\ jobStatus' = jobStatus
  BY StillIsCalm DEF durableVars
<1>2. /\ IsABag(calls') /\ Awaited' \subseteq Awaited /\ Awaited \ {c} \subseteq Awaited'
      /\ \A d \in Awaited \ {c} : calls'[d] = calls[d]
      /\ calls[c] = 1 => c \notin Awaited'
  BY AnsweredTakes, CallsAre DEF QueueInv
<1>3. \A w \in Worker : Alive(w)' <=> Alive(w)
  BY DEF Alive, workerVars
<1>4. QueueTypeOK'
  BY <1>2 DEF QueueInv, QueueTypeOK, queueVars, workerVars, durableVars
<1>5. OneThread'
  <2>1. Engaged(c) => calls[c] = 1
    BY DEF QueueInv, OneThread
  <2> QED
    BY <1>2, <1>3, <2>1, ThreadStays DEF QueueInv, Engaged, queueVars, workerVars
<1>6. QueueInOrder'
  BY DEF QueueInv, QueueInOrder, PendingBehindActive, Pending, queueVars, IsInjective
<1>7. \A e \in Awaited : e.op \in Timers \union {"claimed"} => e.op \notin Requests
  BY DEF Requests, Timers
<1>8. StaleTimersPass'
  BY <1>1, <1>2, <1>7, TimersKeep DEF QueueInv, Pending, queueVars
<1>9. RequestsStand'
  BY <1>1, <1>2, RequestsKeep DEF QueueInv
<1>10. AnswersStand'
  <2>1. \A e \in Awaited, d \in Awaited : e.op = "claimed" /\ d.op = "resumed" /\ d.job = e.job => d \in Awaited'
    BY <1>2, <1>7
  <2> QED
    BY <1>1, <1>2, <2>1, AnswersKeep DEF QueueInv, queueVars, workerVars, Pending
<1>11. RunningIsActive'
  BY <1>1, <1>2, RunningKeeps DEF QueueInv, queueVars
<1> QED
  BY <1>4, <1>5, <1>6, <1>8, <1>9, <1>10, <1>11 DEF QueueInv

\* The process of the active import is started at the answer to c.
LEMMA LaunchKeeps ==
  ASSUME QueueInv, NEW c \in Awaited, c.op \notin Requests, c.job = activeImport,
         ~shuttingDown, LaunchImport(c.job), Answered(c),
         UNCHANGED <<durableVars, pendingImports, activeWorkspace, shuttingDown>>
  PROVE  QueueInv'
<1>1. /\ calls[c] = 1 /\ \A w \in Worker : ~Alive(w)
      /\ \A e \in Awaited \ {c} : e.op \notin Requests => e.op \in Timers /\ e.job # activeImport
  BY EngagedIs DEF QueueInv
<1>2. IsABag(calls') /\ Awaited' = Awaited \ {c}
  BY <1>1, AnsweredTakes, CallsAre DEF QueueInv
<1>3. Calm /\ jobStatus' = jobStatus /\ c.job \in Job
  BY StillIsCalm, CallsAre DEF durableVars, QueueInv
<1>4. activeImport' = activeImport /\ Launch(c.job)
  BY DEF LaunchImport
<1>5. PICK w \in Worker : /\ phase[w] = "free"
                          /\ phase' = [phase EXCEPT ![w] = "started"]
                          /\ wjob' = [wjob EXCEPT ![w] = c.job]
  BY <1>4 DEF Launch
<1>6. QueueTypeOK'
  <2>1. /\ phase' \in [Worker -> {"free", "started", "claimed", "done", "closed", "lost"}]
        /\ wjob' \in [Worker -> Job \union {None}]
    BY <1>3, <1>5 DEF QueueInv, QueueTypeOK
  <2>2. \A v \in Worker : wjob'[v] = None <=> phase'[v] = "free"
    BY <1>3, <1>5, CallsAre DEF QueueInv, QueueTypeOK
  <2> QED
    BY <1>2, <1>4, <2>1, <2>2 DEF QueueInv, QueueTypeOK, durableVars
<1>7. OneThread'
  BY <1>1, <1>2, <1>3, <1>4, ThreadStarts DEF QueueInv
<1>8. QueueInOrder'
  BY <1>4 DEF QueueInv, QueueInOrder, PendingBehindActive, Pending, IsInjective
<1>9. StaleTimersPass'
  BY <1>1, <1>2, <1>3, <1>4, TimersKeep DEF QueueInv, Pending, Requests
<1>10. RequestsStand'
  BY <1>2, <1>3, RequestsKeep DEF QueueInv
<1>11. AnswersStand'
  <2>1. \A e \in Awaited \ {c} : e.op # "exit" /\ e.op # "claimed"
    <3>1. "exit" \notin Requests \union Timers /\ "claimed" \notin Requests \union Timers
      BY DEF Requests, Timers
    <3> QED
      BY <1>1, <3>1
  <2> QED
    BY <1>2, <1>3, <1>4, <2>1, AnswersKeep DEF QueueInv, Pending
<1>12. RunningIsActive'
  BY <1>2, <1>3, <1>4, RunningKeeps DEF QueueInv
<1> QED
  BY <1>6, <1>7, <1>8, <1>9, <1>10, <1>11, <1>12 DEF QueueInv

\* The first job that waits, taken off a queue in which no job waits twice.
LEMMA HeadIsTaken ==
  ASSUME NEW S, NEW s \in Seq(S), s # <<>>, IsInjective(s)
  PROVE  /\ Head(s) \in S /\ Tail(s) \in Seq(S) /\ IsInjective(Tail(s))
         /\ \E i \in DOMAIN s : s[i] = Head(s)
         /\ \A i \in DOMAIN Tail(s) : Tail(s)[i] # Head(s) /\ \E k \in DOMAIN s : s[k] = Tail(s)[i]
         /\ \A k \in DOMAIN s : s[k] = Head(s) \/ \E i \in DOMAIN Tail(s) : Tail(s)[i] = s[k]
<1>1. /\ Len(s) \in Nat /\ Len(s) > 0 /\ DOMAIN s = 1 .. Len(s)
      /\ Tail(s) \in Seq(S) /\ Len(Tail(s)) = Len(s) - 1 /\ DOMAIN Tail(s) = 1 .. Len(s) - 1
      /\ \A i \in 1 .. Len(s) - 1 : Tail(s)[i] = s[i + 1]
      /\ Head(s) = s[1] /\ s[1] \in S
  OBVIOUS
<1> DEFINE t == Tail(s)
           n == Len(s)
<1> HIDE DEF t, n
<1>2. /\ n \in Nat /\ n > 0 /\ DOMAIN s = 1 .. n /\ DOMAIN t = 1 .. n - 1
      /\ \A i \in 1 .. n - 1 : t[i] = s[i + 1]
  BY <1>1 DEF t, n
<1>3. \A a, b \in 1 .. n : s[a] = s[b] => a = b
  BY <1>2 DEF IsInjective
<1>4. ASSUME NEW i \in 1 .. n - 1
      PROVE  /\ i + 1 \in 1 .. n /\ 1 \in 1 .. n /\ i + 1 # 1 /\ t[i] = s[i + 1]
  BY <1>2
<1>5. \A i \in 1 .. n - 1 : t[i] # s[1] /\ \E k \in 1 .. n : s[k] = t[i]
  BY <1>3, <1>4
<1>6. ASSUME NEW a \in 1 .. n - 1, NEW b \in 1 .. n - 1, t[a] = t[b]
      PROVE  a = b
  <2>1. a + 1 = b + 1
    BY <1>3, <1>4, <1>6
  <2> QED
    BY <1>2, <2>1
<1>7. ASSUME NEW k \in 1 .. n
      PROVE  k = 1 \/ \E i \in 1 .. n - 1 : t[i] = s[k]
  <2>1. CASE k # 1
    <3>1. k - 1 \in 1 .. n - 1 /\ (k - 1) + 1 = k
      BY <1>2, <2>1
    <3> QED
      BY <1>2, <3>1
  <2> QED
    BY <2>1
<1>8. 1 \in 1 .. n
  BY <1>2
<1> QED
  BY <1>1, <1>2, <1>5, <1>6, <1>7, <1>8 DEF t, IsInjective

\* The reservation of the job of c goes to the first in "pending", or to nobody.
LEMMA ShiftKeeps ==
  ASSUME QueueInv, NEW c \in Awaited, NEW pending \in Seq(Job), c.job = activeImport,
         c.op \notin {"created", "resumed"}, c.op \notin Timers, c.op \notin Requests => calls[c] = 1,
         ~shuttingDown => jobStatus[c.job] # "running", ShiftNext(c, None, pending),
         UNCHANGED <<durableVars, activeWorkspace, shuttingDown>>,
         \A w \in Worker : ~Alive(w),
         IsInjective(pending),
         \A i \in DOMAIN pending : pending[i] # c.job /\ Pending(pending[i]),
         shuttingDown => pending = <<>>,
         \A e \in Awaited \ {c} : e.op \notin Requests =>
           /\ e.op \in Timers
           /\ e.job = c.job => /\ jobStatus[c.job] \notin {"absent", "queued"}
                               /\ \A d \in Awaited : d.op = "created" => d.job # c.job
  PROVE  QueueInv'
<1>1. Calm /\ jobStatus' = jobStatus
  BY StillIsCalm DEF durableVars
<1>2. workerVars' = workerVars /\ \A w \in Worker : ~Alive(w)'
  BY DEF ShiftNext, Alive, workerVars
<1>3. \A e \in Awaited : e.op \in Timers /\ e.job # c.job => ~Pending(e.job)
  BY DEF QueueInv, StaleTimersPass
<1>4. c.job \in Job /\ None \notin Job
  BY CallsAre DEF QueueInv
<1>5. RequestsStand' /\ IsABag(calls') /\ (\A e \in Awaited \ {c} : e.op \in Requests => e \in Awaited')
      /\ (c.op \notin Requests => c \notin Awaited')
      /\ (\A j \in Job : activeImport' = j \/ Pending(j)' => Pending(j))
      /\ activeImport' \in Job \union {None} /\ pendingImports' \in Seq(Job)
      /\ QueueInOrder' /\ OneThread'
      /\ \A e \in Awaited' : \/ e \in Awaited
                             \/ e.op = "claim" /\ e.job \in Job /\ e.job = activeImport'
  <2>1. CASE shuttingDown \/ pending = <<>>
    <3>1. activeImport' = None /\ pendingImports' = <<>> /\ Answered(c)
      BY <2>1 DEF ShiftNext
    <3>2. /\ IsABag(calls') /\ Awaited' \subseteq Awaited /\ Awaited \ {c} \subseteq Awaited'
          /\ c.op \notin Requests => c \notin Awaited'
      BY <3>1, AnsweredTakes, CallsAre DEF QueueInv
    <3>3. \A e \in Awaited' : e.op \notin Requests => e.op \in Timers /\ e.job # activeImport'
      BY <1>4, <3>1, <3>2, CallsAre DEF QueueInv
    <3>4. OneThread'
      BY <1>2, <3>3 DEF OneThread, Engaged
    <3>5. QueueInOrder'
      BY <3>1 DEF QueueInOrder, PendingBehindActive, Pending, IsInjective
    <3>6. RequestsStand'
      BY <1>1, <3>2, RequestsKeep DEF QueueInv
    <3> QED
      BY <1>4, <3>1, <3>2, <3>4, <3>5, <3>6 DEF Pending
  <2>2. CASE ~shuttingDown /\ pending # <<>>
    <3>1. PICK d : d = Continuation("claim", Head(pending), "sent")
      OBVIOUS
    <3>2. /\ d.op = "claim" /\ d.op \notin Requests /\ d.op \notin Timers /\ d.job = Head(pending)
          /\ activeImport' = d.job /\ pendingImports' = Tail(pending) /\ Replace(c, d)
      BY <2>2, <3>1 DEF ShiftNext, Continuation, Requests, Timers
    <3>3. /\ d.job \in Job /\ d.job # c.job /\ Pending(d.job) /\ Tail(pending) \in Seq(Job)
          /\ IsInjective(Tail(pending))
          /\ \A i \in DOMAIN Tail(pending) : Tail(pending)[i] # d.job /\ Pending(Tail(pending)[i])
      BY <2>2, <3>2, HeadIsTaken
    <3>4. d # c /\ d \notin Awaited
      BY <3>2, <3>3
    <3>5. /\ IsABag(calls') /\ Awaited' \subseteq Awaited \union {d}
          /\ (Awaited \ {c}) \union {d} \subseteq Awaited' /\ calls'[d] = 1
          /\ c.op \notin Requests => c \notin Awaited'
      BY <3>2, <3>4, ReplaceMoves, CallsAre DEF QueueInv
    <3>6. \A e \in Awaited' : e # d /\ e.op \notin Requests => e.op \in Timers /\ e.job # activeImport'
      BY <1>3, <3>2, <3>3, <3>5
    <3>7. OneThread'
      BY <1>2, <3>2, <3>5, <3>6, ThreadMoves
    <3>8. QueueInOrder'
      BY <1>4, <2>2, <3>2, <3>3 DEF QueueInOrder, PendingBehindActive, Pending
    <3>9. RequestsStand'
      BY <1>1, <3>2, <3>5, RequestsKeep DEF QueueInv
    <3> QED
      BY <3>2, <3>3, <3>5, <3>7, <3>8, <3>9 DEF Pending
  <2> QED
    BY <2>1, <2>2
<1>6. QueueTypeOK'
  BY <1>1, <1>2, <1>5 DEF QueueInv, QueueTypeOK, durableVars, workerVars, Ops
<1>7. StaleTimersPass'
  <2>1. ASSUME NEW e \in Awaited', e.op \in Timers, e.job # activeImport'
        PROVE  /\ ~Pending(e.job)'
               /\ \A d \in Awaited' : d.op = "created" => d.job # e.job
               /\ \/ jobStatus'[e.job] \notin {"absent", "queued"}
                  \/ \E d \in Awaited' : d.op = "resumed" /\ d.job = e.job
    <3>1. e \in Awaited \ {c} /\ e.op \notin Requests /\ e.job \in Job
      BY <1>5, <2>1 DEF QueueInv, QueueTypeOK, Timers, Requests
    <3>2. \A d \in Awaited' : d.op = "created" => d \in Awaited
      BY <1>5
    <3>3. \A d \in Awaited : d.op = "resumed" => d \in Awaited'
      BY <1>5 DEF Requests
    <3>4. CASE e.job = c.job
      <4>1. c.job = activeImport /\ ~Pending(c.job)
        BY <1>4 DEF QueueInv, QueueInOrder
      <4> QED
        BY <1>1, <1>5, <3>1, <3>2, <3>4, <4>1
    <3>5. CASE e.job # c.job
      <4>1. /\ ~Pending(e.job)
            /\ \A d \in Awaited : d.op = "created" => d.job # e.job
            /\ \/ jobStatus[e.job] \notin {"absent", "queued"}
               \/ \E d \in Awaited : d.op = "resumed" /\ d.job = e.job
        BY <2>1, <3>1, <3>5 DEF QueueInv, StaleTimersPass
      <4> QED
        BY <1>1, <1>5, <3>1, <3>2, <3>3, <4>1
    <3> QED
      BY <3>4, <3>5
  <2> QED
    BY <2>1 DEF StaleTimersPass
<1>8. AnswersStand'
  <2>1. \A e \in Awaited \ {c} : e.op # "exit" /\ e.op # "claimed"
    <3>1. "exit" \notin Requests \union Timers /\ "claimed" \notin Requests \union Timers
      BY DEF Requests, Timers
    <3> QED
      BY <3>1
  <2>2. ASSUME NEW e \in Awaited', e \notin Awaited
        PROVE  AnswerHolds(e)'
    <3>1. e.op = "claim" /\ e.job \in Job /\ Pending(e.job)
      BY <1>5, <2>2
    <3>2. jobStatus'[e.job] # "absent"
      BY <1>1, <3>1 DEF QueueInv, AnswersStand
    <3> QED
      BY <3>1, <3>2 DEF AnswerHolds
  <2>3. \A e \in Awaited' : e.op = "exit" \/ e.op = "claimed" => e \notin Awaited
    BY <1>5, <2>1 DEF Requests
  <2> QED
    BY <1>1, <1>5, <2>2, <2>3, AnswersKeep DEF QueueInv
<1>9. RunningIsActive'
  BY <1>1, <1>4 DEF QueueInv, RunningIsActive
<1> QED
  BY <1>5, <1>6, <1>7, <1>8, <1>9 DEF QueueInv

\* The job of a request is started, or waits behind the import the queue holds.
LEMMA EnqueueKeeps ==
  ASSUME QueueInv, NEW c \in Awaited, c.op \in {"created", "resumed"}, ~HasWorker(c.job), Answered(c),
         NEW held, EnqueueImport(c.job, held),
         held = activeImport \/ (held = None /\ activeImport = c.job),
         UNCHANGED <<durableVars, activeWorkspace, shuttingDown>>,
         held # activeImport => ~QueueAwaits(c.job),
         \A e \in Awaited : e.op \in Timers /\ e.job = c.job => e.job = activeImport /\ held = activeImport,
         c.op = "resumed" => \A e \in Awaited : e.job = c.job => e.op \in Requests
  PROVE  QueueInv'
<1>1. Calm /\ jobStatus' = jobStatus
  BY StillIsCalm DEF durableVars
<1>2. /\ IsABag(calls') /\ Awaited' \subseteq Awaited /\ Awaited \ {c} \subseteq Awaited'
      /\ \A d \in Awaited \ {c} : calls'[d] = calls[d]
  BY AnsweredTakes, CallsAre DEF QueueInv
<1>3. c.job \in Job /\ c.job # None /\ jobStatus[c.job] # "absent" /\ c.op \in Requests
  BY CallsAre DEF QueueInv, AnswersStand, AnswerHolds, Requests
<1>4. \A e \in Awaited : e.op \in Timers \union {"claimed"} => e.op \notin Requests
  BY DEF Requests, Timers
<1>5. CASE activeImport' = activeImport /\ pendingImports' = pendingImports /\ workerVars' = workerVars
  BY <1>5, RestKeeps DEF queueVars
<1>6. CASE /\ ~shuttingDown /\ held # None /\ held = activeImport /\ activeImport' = activeImport
           /\ held # c.job /\ ~Pending(c.job)
           /\ pendingImports' = Append(pendingImports, c.job) /\ workerVars' = workerVars
  <2>1. pendingImports \in Seq(Job) /\ IsInjective(pendingImports)
    BY DEF QueueInv, QueueTypeOK, QueueInOrder, PendingBehindActive
  <2>2. /\ pendingImports' \in Seq(Job) /\ IsInjective(pendingImports')
        /\ \A j : Pending(j)' => Pending(j) \/ j = c.job
    <3> DEFINE p == pendingImports
               n == Len(pendingImports)
               q == Append(pendingImports, c.job)
    <3>1. /\ n \in Nat /\ DOMAIN p = 1 .. n /\ q \in Seq(Job) /\ DOMAIN q = 1 .. n + 1
          /\ \A i \in 1 .. n + 1 : q[i] = IF i = n + 1 THEN c.job ELSE p[i]
      BY <1>3, <2>1
    <3>2. \A i \in 1 .. n : p[i] # c.job
      BY <1>6, <3>1 DEF Pending
    <3> HIDE DEF p, n, q
    <3>3. \A i \in 1 .. n + 1 : i = n + 1 \/ i \in 1 .. n
      BY <3>1
    <3>4. \A a, b \in 1 .. n + 1 : q[a] = q[b] => a = b
      BY <2>1, <3>1, <3>2, <3>3 DEF IsInjective, p
    <3>5. \A i \in 1 .. n + 1 : q[i] = c.job \/ \E k \in 1 .. n : p[k] = q[i]
      BY <3>1, <3>3
    <3> QED
      BY <1>6, <3>1, <3>4, <3>5 DEF IsInjective, Pending, p, q
  <2>3. \A w \in Worker : Alive(w)' <=> Alive(w)
    BY <1>6 DEF Alive, workerVars
  <2>4. QueueTypeOK'
    BY <1>1, <1>2, <1>6, <2>2 DEF QueueInv, QueueTypeOK, workerVars, durableVars
  <2>5. OneThread'
    BY <1>2, <1>3, <1>6, <2>3, ThreadStays DEF QueueInv, workerVars
  <2>6. QueueInOrder'
    BY <1>6, <2>2 DEF QueueInv, QueueInOrder, PendingBehindActive
  <2>7. StaleTimersPass'
    BY <1>1, <1>2, <1>4, <1>6, <2>2, TimersKeep DEF QueueInv
  <2>8. RequestsStand'
    BY <1>1, <1>2, RequestsKeep DEF QueueInv
  <2>9. AnswersStand'
    <3>1. \A e \in Awaited, d \in Awaited : e.op = "claimed" /\ d.op = "resumed" /\ d.job = e.job => d \in Awaited'
      BY <1>2, <1>4
    <3> QED
      BY <1>1, <1>2, <1>3, <1>6, <2>2, <3>1, AnswersKeep DEF QueueInv, workerVars
  <2>10. RunningIsActive'
    BY <1>1, <1>2, <1>6, RunningKeeps DEF QueueInv
  <2> QED
    BY <2>4, <2>5, <2>6, <2>7, <2>8, <2>9, <2>10 DEF QueueInv
<1>7. CASE /\ ~shuttingDown /\ held = None
           /\ activeImport' = c.job /\ Launch(c.job) /\ pendingImports' = pendingImports
  <2>1. \A w \in Worker : ~Alive(w)
    <3>1. \A w \in Worker : Alive(w) => wjob[w] = activeImport /\ wjob[w] # None
      BY DEF QueueInv, OneThread, QueueTypeOK, Alive
    <3> QED
      BY <1>7, <3>1 DEF HasWorker
  <2>2. \A e \in Awaited : e.op \notin Requests => e.op \in Timers /\ e.job # c.job
    <3>1. \A e \in Awaited : e.op \notin Requests \union Timers => e.job = activeImport /\ e.job # None
      BY CallsAre DEF QueueInv, OneThread
    <3>2. \A e \in Awaited : e.op \notin Requests => e.op \in Timers
      BY <1>7, <3>1 DEF QueueAwaits
    <3> QED
      BY <1>3, <1>7, <3>2, CallsAre DEF QueueInv
  <2>3. ~Pending(c.job)
    BY <1>3, <1>7 DEF QueueInv, QueueInOrder, PendingBehindActive, Pending
  <2>4. PICK w \in Worker : /\ phase[w] = "free"
                            /\ phase' = [phase EXCEPT ![w] = "started"]
                            /\ wjob' = [wjob EXCEPT ![w] = c.job]
    BY <1>7 DEF Launch
  <2>5. QueueTypeOK'
    <3>1. /\ phase' \in [Worker -> {"free", "started", "claimed", "done", "closed", "lost"}]
          /\ wjob' \in [Worker -> Job \union {None}]
      BY <1>3, <2>4 DEF QueueInv, QueueTypeOK
    <3>2. \A v \in Worker : wjob'[v] = None <=> phase'[v] = "free"
      BY <1>3, <2>4 DEF QueueInv, QueueTypeOK
    <3> QED
      BY <1>1, <1>2, <1>3, <1>7, <3>1, <3>2 DEF QueueInv, QueueTypeOK, durableVars
  <2>6. OneThread'
    BY <1>2, <1>3, <1>7, <2>1, <2>2, ThreadStarts DEF QueueInv
  <2>7. QueueInOrder'
    BY <1>3, <1>7, <2>3 DEF QueueInv, QueueInOrder, PendingBehindActive, Pending
  <2>8. StaleTimersPass'
    <3>1. ASSUME NEW e \in Awaited', e.op \in Timers
          PROVE  /\ e \in Awaited /\ e.job # activeImport /\ (Pending(e.job)' => Pending(e.job))
                 /\ \A d \in Awaited : d.op = "resumed" /\ d.job = e.job => d \in Awaited'
      <4>1. e \in Awaited /\ e.op \notin Requests
        BY <1>2, <1>4, <3>1
      <4>2. e.job # c.job /\ e.job # activeImport
        BY <1>7, <2>2, <4>1, CallsAre DEF QueueInv
      <4> QED
        BY <1>2, <1>7, <4>1, <4>2 DEF Pending
    <3>2. \A e \in Awaited' : e.op = "created" => e \in Awaited
      BY <1>2
    <3> QED
      BY <1>1, <3>1, <3>2, TimersKeep DEF QueueInv
  <2>9. RequestsStand'
    BY <1>1, <1>2, RequestsKeep DEF QueueInv
  <2>10. AnswersStand'
    <3>1. \A e \in Awaited' : e \in Awaited /\ e.op # "exit" /\ e.op # "claimed"
      <4>1. {"exit", "claimed"} \intersect (Requests \union Timers) = {}
        BY DEF Requests, Timers
      <4> QED
        BY <1>2, <2>2, <4>1
    <3> QED
      BY <1>1, <1>3, <1>7, <3>1, AnswersKeep DEF QueueInv, Pending
  <2>11. RunningIsActive'
    BY <1>1, <1>2, <1>7, RunningKeeps, CallsAre DEF QueueInv
  <2> QED
    BY <2>5, <2>6, <2>7, <2>8, <2>9, <2>10, <2>11 DEF QueueInv
<1>8. CASE shuttingDown
  <2>1. activeImport' = held /\ UNCHANGED <<pendingImports, workerVars>>
    BY <1>8 DEF EnqueueImport
  <2>2. CASE held = activeImport
    BY <1>5, <2>1, <2>2
  <2>3. CASE held = None /\ activeImport = c.job /\ held # activeImport
    <3>1. \A w \in Worker : ~Alive(w) /\ ~Alive(w)'
      BY <2>1, <2>3 DEF HasWorker, QueueInv, OneThread, Alive, workerVars
    <3>2. \A e \in Awaited : e.op \notin Requests => e.op \in Timers /\ e.job # c.job
      <4>1. \A e \in Awaited : e.op \notin Requests \union Timers => e.job = activeImport
        BY DEF QueueInv, OneThread
      <4> QED
        BY <2>3, <4>1 DEF QueueAwaits
    <3>3. pendingImports = <<>>
      BY <1>8 DEF QueueInv, QueueInOrder
    <3>4. QueueTypeOK'
      BY <1>1, <1>2, <2>1, <2>3 DEF QueueInv, QueueTypeOK, durableVars, workerVars
    <3>5. OneThread'
      <4>1. \A e \in Awaited' : e.op \notin Requests => e.op \in Timers /\ e.job # activeImport'
        BY <1>2, <2>1, <2>3, <3>2, CallsAre DEF QueueInv
      <4> QED
        BY <3>1, <4>1 DEF OneThread, Engaged
    <3>6. QueueInOrder'
      BY <2>1, <2>3, <3>3 DEF QueueInOrder, PendingBehindActive, Pending, IsInjective
    <3>7. StaleTimersPass'
      <4>1. ASSUME NEW e \in Awaited', e.op \in Timers
            PROVE  /\ e \in Awaited /\ e.job # activeImport /\ (Pending(e.job)' => Pending(e.job))
                   /\ \A d \in Awaited : d.op = "resumed" /\ d.job = e.job => d \in Awaited'
        <5>1. e \in Awaited /\ e.op \notin Requests
          BY <1>2, <1>4, <4>1
        <5>2. e.job # c.job /\ e.job # activeImport
          BY <2>3, <3>2, <5>1
        <5> QED
          BY <1>2, <2>1, <5>1, <5>2 DEF Pending
      <4>2. \A e \in Awaited' : e.op = "created" => e \in Awaited
        BY <1>2
      <4> QED
        BY <1>1, <4>1, <4>2, TimersKeep DEF QueueInv
    <3>8. RequestsStand'
      BY <1>1, <1>2, RequestsKeep DEF QueueInv
    <3>9. AnswersStand'
      <4>1. \A e \in Awaited' : e \in Awaited /\ e.op # "exit" /\ e.op # "claimed"
        <5>1. {"exit", "claimed"} \intersect (Requests \union Timers) = {}
          BY DEF Requests, Timers
        <5> QED
          BY <1>2, <3>2, <5>1
      <4>2. \A j \in Job : ~(activeImport' = j \/ Pending(j)')
        BY <1>3, <2>1, <2>3, <3>3, CallsAre DEF Pending, QueueInv
      <4> QED
        BY <1>1, <4>1, <4>2, AnswersKeep DEF QueueInv
    <3>10. RunningIsActive'
      BY <1>8 DEF RunningIsActive
    <3> QED
      BY <3>4, <3>5, <3>6, <3>7, <3>8, <3>9, <3>10 DEF QueueInv
  <2> QED
    BY <2>2, <2>3
<1>9. CASE ~shuttingDown /\ held = None
  <2>1. activeImport' = c.job /\ Launch(c.job) /\ pendingImports' = pendingImports
    BY <1>9 DEF EnqueueImport, LaunchImport
  <2> QED
    BY <1>7, <1>9, <2>1
<1>10. CASE ~shuttingDown /\ held # None
  <2>1. /\ held = activeImport /\ activeImport' = held /\ UNCHANGED workerVars
        /\ pendingImports' = IF held = c.job \/ Pending(c.job) THEN pendingImports
                             ELSE Append(pendingImports, c.job)
    BY <1>10 DEF EnqueueImport
  <2> QED
    BY <1>5, <1>6, <1>10, <2>1
<1> QED
  BY <1>8, <1>9, <1>10

\* The job of a cancel waits no more.
LEMMA DequeueKeeps ==
  ASSUME QueueInv, NEW c \in Awaited, c.op = "canceled", Answered(c),
         pendingImports' = RemoveFirst(pendingImports, c.job),
         UNCHANGED <<durableVars, workerVars, activeImport, activeWorkspace, shuttingDown>>
  PROVE  QueueInv'
<1>1. Calm /\ jobStatus' = jobStatus
  BY StillIsCalm DEF durableVars
<1>2. /\ IsABag(calls') /\ Awaited' \subseteq Awaited /\ Awaited \ {c} \subseteq Awaited'
      /\ \A d \in Awaited \ {c} : calls'[d] = calls[d]
      /\ c.op \in Requests
  BY AnsweredTakes, CallsAre DEF QueueInv, Requests
<1>3. /\ pendingImports' \in Seq(Job) /\ IsInjective(pendingImports')
      /\ \A j : Pending(j)' => Pending(j)
      /\ pendingImports = <<>> => pendingImports' = <<>>
  <2>1. pendingImports \in Seq(Job) /\ IsInjective(pendingImports)
    BY DEF QueueInv, QueueTypeOK, QueueInOrder, PendingBehindActive
  <2> QED
    BY <2>1, RemoveFirstDrops DEF Pending
<1>4. QueueTypeOK'
  BY <1>2, <1>3 DEF QueueInv, QueueTypeOK, workerVars, durableVars
<1>5. OneThread'
  BY <1>2, ThreadStays DEF QueueInv, workerVars, Alive
<1>6. QueueInOrder'
  BY <1>3 DEF QueueInv, QueueInOrder, PendingBehindActive
<1>7. StaleTimersPass'
  BY <1>1, <1>2, <1>3, TimersKeep DEF QueueInv
<1>8. RequestsStand'
  BY <1>1, <1>2, RequestsKeep DEF QueueInv
<1>9. AnswersStand'
  BY <1>1, <1>2, <1>3, AnswersKeep DEF QueueInv, workerVars
<1>10. RunningIsActive'
  BY <1>1, <1>2, RunningKeeps DEF QueueInv
<1> QED
  BY <1>4, <1>5, <1>6, <1>7, <1>8, <1>9, <1>10 DEF QueueInv

-----------------------------------------------------------------------------
(* The answers                                                              *)

LEMMA CreatedKeeps ==
  ASSUME QueueInv, NEW c \in Awaited, Created(c)
  PROVE  QueueInv'
<1>1. c.op = "created" /\ Answered(c) /\ UNCHANGED <<durableVars, activeWorkspace, shuttingDown>>
  BY DEF Created
<1>2. CASE HasWorker(c.job)
  BY <1>1, <1>2, RestKeeps DEF Created
<1>3. CASE ~HasWorker(c.job)
  <2>1. EnqueueImport(c.job, activeImport)
    BY <1>3 DEF Created
  <2>2. \A e \in Awaited : e.op \in Timers /\ e.job = c.job => e.job = activeImport
    BY <1>1 DEF QueueInv, StaleTimersPass
  <2> QED
    BY <1>1, <1>3, <2>1, <2>2, EnqueueKeeps
<1> QED
  BY <1>2, <1>3

LEMMA ResumedKeeps ==
  ASSUME QueueInv, NoOwnerRace, NEW c \in Awaited, AnswerInTurn(c), Resumed(c)
  PROVE  QueueInv'
<1>1. /\ c.op = "resumed" /\ Answered(c) /\ UNCHANGED <<durableVars, activeWorkspace, shuttingDown>>
      /\ ~QueueAwaits(c.job) /\ ~TimerRuns(c.job)
  BY DEF Resumed, AnswerInTurn, NoOwnerRace
<1>2. \A e \in Awaited : e.job = c.job => e.op \in Requests /\ e.op \notin Timers
  BY <1>1 DEF QueueAwaits, TimerRuns
<1>3. CASE HasWorker(c.job)
  BY <1>1, <1>2, <1>3, RestKeeps DEF Resumed
<1>4. CASE ~HasWorker(c.job)
  <2>1. EnqueueImport(c.job, Released(c.job))
    BY <1>4 DEF Resumed
  <2>2. Released(c.job) = activeImport \/ (Released(c.job) = None /\ activeImport = c.job)
    BY DEF Released
  <2>3. \A e \in Awaited : e.op \in Timers /\ e.job = c.job =>
                             e.job = activeImport /\ Released(c.job) = activeImport
    BY <1>2
  <2> QED
    BY <1>1, <1>2, <1>4, <2>1, <2>2, <2>3, EnqueueKeeps
<1> QED
  BY <1>3, <1>4

LEMMA CancelProcessKeeps ==
  ASSUME QueueInv, NoOwnerRace, NEW c \in Awaited, AnswerInTurn(c), CancelProcess(c)
  PROVE  QueueInv'
<1>1. /\ c.op = "canceled" /\ UNCHANGED <<durableVars, activeWorkspace, shuttingDown>>
      /\ ~QueueAwaits(c.job)
      /\ c.op \in Requests /\ c.op \notin Timers
  BY DEF CancelProcess, AnswerInTurn, NoOwnerRace, Requests, Timers
<1>2. CASE HasWorker(c.job)
  BY <1>1, <1>2, RestKeeps DEF CancelProcess
<1>3. CASE ~HasWorker(c.job) /\ activeImport # c.job
  BY <1>1, <1>3, DequeueKeeps DEF CancelProcess
<1>4. CASE ~HasWorker(c.job) /\ activeImport = c.job
  <2> DEFINE others == RemoveFirst(pendingImports, c.job)
  <2>1. ShiftNext(c, None, others)
    BY <1>4 DEF CancelProcess, LaunchNextImport
  <2>2. /\ others \in Seq(Job) /\ IsInjective(others)
        /\ \A i \in DOMAIN others : others[i] # c.job /\ Pending(others[i])
        /\ shuttingDown => others = <<>>
    <3>1. /\ pendingImports \in Seq(Job) /\ IsInjective(pendingImports)
          /\ shuttingDown => pendingImports = <<>>
      BY DEF QueueInv, QueueTypeOK, QueueInOrder, PendingBehindActive
    <3> QED
      BY <3>1, RemoveFirstDrops DEF Pending
  <2>3. \A w \in Worker : ~Alive(w)
    BY <1>4 DEF HasWorker, QueueInv, OneThread
  <2>4. jobStatus[c.job] \notin {"absent", "queued", "running"}
    BY <1>1 DEF QueueInv, RequestsStand
  <2>5. \A e \in Awaited : e.op \notin Requests => e.op \in Timers
    BY <1>1, <1>4 DEF QueueAwaits, QueueInv, OneThread
  <2>6. \A d \in Awaited : d.op = "created" => d.job # c.job
    BY <1>1 DEF QueueInv, RequestsStand, Requests
  <2> HIDE DEF others
  <2> QED
    BY <1>1, <1>4, <2>1, <2>2, <2>3, <2>4, <2>5, <2>6, ShiftKeeps
<1> QED
  BY <1>2, <1>3, <1>4

\* A continuation of the queue that lets go of its job and looks for the next.
LEMMA NextKeeps ==
  ASSUME QueueInv, NEW c \in Awaited, c.op \notin Requests \union Timers,
         ~shuttingDown => jobStatus[c.job] # "running",
         \/ LaunchNextImport(c, Released(c.job), pendingImports)
         \/ ShiftNext(c, Released(c.job), pendingImports),
         UNCHANGED <<durableVars, activeWorkspace, shuttingDown>>
  PROVE  QueueInv'
<1>1. /\ c.job = activeImport /\ calls[c] = 1 /\ \A w \in Worker : ~Alive(w)
      /\ \A e \in Awaited \ {c} : e.op \notin Requests => e.op \in Timers /\ e.job # activeImport
  BY EngagedIs DEF QueueInv
<1>2. ShiftNext(c, None, pendingImports)
  BY <1>1 DEF LaunchNextImport, Released
<1>3. /\ pendingImports \in Seq(Job) /\ IsInjective(pendingImports)
      /\ \A i \in DOMAIN pendingImports : pendingImports[i] # c.job /\ Pending(pendingImports[i])
      /\ shuttingDown => pendingImports = <<>>
  BY <1>1, CallsAre DEF QueueInv, QueueTypeOK, QueueInOrder, PendingBehindActive, Pending
<1>4. c.op \notin {"created", "resumed"}
  BY DEF Requests
<1> QED
  BY <1>1, <1>2, <1>3, <1>4, ShiftKeeps

\* A continuation of the queue about the import it holds that touches neither
\* a job nor a process.
LEMMA GoOnKeeps ==
  ASSUME QueueInv, NEW c \in Awaited, c.op \notin Requests, c.op \notin Timers \/ c.job = activeImport,
         NEW d, Replace(c, d), d.job = c.job, d.op \in Ops \ Requests, d.op # "exit", d.op # c.op,
         d.op \in {"claim", "claimed"} => c.op \in {"claim", "claimed"},
         AnswerHolds(d)',
         UNCHANGED <<durableVars, workerVars, pendingImports, activeWorkspace, shuttingDown>>,
         activeImport' = activeImport \/ activeImport' = c.job
  PROVE  QueueInv'
<1>1. /\ c.job = activeImport /\ \A w \in Worker : ~Alive(w)
  BY EngagedIs DEF QueueInv
<1>2. Calm
  BY StillIsCalm DEF durableVars
<1>3. UNCHANGED queueVars /\ \A w \in Worker : ~Alive(w)'
  BY <1>1 DEF queueVars, Alive, workerVars
<1>4. /\ jobStatus' \in [Job -> JobTable!AllStatuses]
      /\ leaseHolder' \in [Workspace -> Worker \union {None}]
      /\ leaseActive' \in [Workspace -> BOOLEAN]
      /\ phase' \in [Worker -> {"free", "started", "claimed", "done", "closed", "lost"}]
      /\ wjob' \in [Worker -> Job \union {None}]
      /\ \A w \in Worker : wjob'[w] = None <=> phase'[w] = "free"
  BY DEF QueueInv, QueueTypeOK, durableVars, workerVars
<1> QED
  BY <1>2, <1>3, <1>4, PassKeeps

LEMMA ReconcileExitKeeps ==
  ASSUME QueueInv, NEW c \in Awaited, ReconcileExit(c)
  PROVE  QueueInv' /\ Calm
<1> DEFINE owner == Bears(c.job, c.info)
           ws == WorkspaceOf[c.job]
           status == IF owner THEN Recovered(jobStatus[c.job]) ELSE jobStatus[c.job]
<1>1. /\ c.op = "exit" /\ c.op \notin Requests /\ c.op \notin Timers /\ c.job \in Job
      /\ UNCHANGED <<queueVars, activeWorkspace, shuttingDown>>
  BY CallsAre DEF ReconcileExit, QueueInv, Requests, Timers
<1>2. /\ c.info \in Worker /\ jobStatus[c.job] # "absent" /\ jobStatus[c.job] \in JobTable!AllStatuses
      /\ jobStatus \in [Job -> JobTable!AllStatuses] /\ ws \in Workspace
  BY <1>1, QueueAssumption DEF QueueInv, AnswersStand, AnswerHolds, QueueTypeOK
<1>3. /\ status \in JobTable!AllStatuses \ {"absent"}
      /\ status \in {"queued", "running"} => status = jobStatus[c.job]
      /\ jobStatus[c.job] \in JobTable!TerminalStatuses => status = jobStatus[c.job]
  BY <1>2, StatusesAre DEF Recovered, Statuses
<1>4. jobStatus' = [jobStatus EXCEPT ![c.job] = status]
  BY DEF ReconcileExit
<1>5. PICK info : /\ info = "drain" => status \in JobTable!TerminalStatuses
                  /\ Replace(c, Continuation("settled", c.job, info))
  BY DEF ReconcileExit
<1> HIDE DEF status
<1>6. /\ jobStatus' \in [Job -> JobTable!AllStatuses] /\ jobStatus'[c.job] = status
      /\ \A j \in Job \ {c.job} : jobStatus'[j] = jobStatus[j]
  BY <1>1, <1>2, <1>3, <1>4
<1>7. Calm
  BY <1>1, <1>3, <1>6, StatusesAre DEF Calm, Statuses
<1>8. PICK d : d = Continuation("settled", c.job, info)
  OBVIOUS
<1>9. d.op = "settled" /\ d.job = c.job /\ d.info = info /\ Replace(c, d)
  BY <1>5, <1>8 DEF Continuation
<1>10. AnswerHolds(d)'
  BY <1>3, <1>5, <1>6, <1>9 DEF AnswerHolds
<1>11. /\ leaseHolder' \in [Workspace -> Worker \union {None}]
       /\ leaseActive' \in [Workspace -> BOOLEAN]
  BY <1>2 DEF ReconcileExit, QueueInv, QueueTypeOK
<1>12. \A w \in Worker : ~Alive(w)
  BY <1>1, EngagedIs DEF QueueInv
<1>13. /\ phase' \in [Worker -> {"free", "started", "claimed", "done", "closed", "lost"}]
       /\ wjob' \in [Worker -> Job \union {None}]
       /\ \A w \in Worker : ~Alive(w)' /\ (wjob'[w] = None <=> phase'[w] = "free")
  <2>1. Reaped({c.info})
    BY DEF ReconcileExit
  <2> QED
    BY <1>12, <2>1 DEF Reaped, Alive, QueueInv, QueueTypeOK
<1>14. d.op \in Ops \ Requests
  BY <1>9 DEF Ops, Requests
<1>15. QueueInv'
  BY <1>1, <1>6, <1>7, <1>9, <1>10, <1>11, <1>13, <1>14, PassKeeps
<1> QED
  BY <1>7, <1>15

LEMMA ReconcileExitFailsKeeps ==
  ASSUME QueueInv, NEW c \in Awaited, ReconcileExitFails(c)
  PROVE  QueueInv'
<1>1. /\ c.op = "exit" /\ c.op \notin Requests /\ c.op \notin Timers
      /\ UNCHANGED <<durableVars, queueVars, activeWorkspace, shuttingDown>>
  BY DEF ReconcileExitFails, Requests, Timers
<1>2. /\ c.info \in Worker /\ jobStatus[c.job] # "absent" /\ wjob[c.info] \in Job /\ None \notin Job
  BY <1>1, CallsAre DEF QueueInv, AnswersStand, AnswerHolds, QueueTypeOK
<1>3. PICK d : d = Continuation("settled", c.job, "blocked")
  OBVIOUS
<1>4. d.op = "settled" /\ d.job = c.job /\ d.info = "blocked" /\ Replace(c, d)
  BY <1>3 DEF Continuation, ReconcileExitFails
<1>5. AnswerHolds(d)'
  BY <1>1, <1>2, <1>4 DEF AnswerHolds, durableVars
<1>6. \A w \in Worker : ~Alive(w)
  BY <1>1, EngagedIs DEF QueueInv
<1>7. /\ phase' \in [Worker -> {"free", "started", "claimed", "done", "closed", "lost"}]
      /\ wjob' \in [Worker -> Job \union {None}]
      /\ \A w \in Worker : ~Alive(w)' /\ (wjob'[w] = None <=> phase'[w] = "free")
  <2>1. CASE Reaped({c.info})
    BY <1>6, <2>1 DEF Reaped, Alive, QueueInv, QueueTypeOK
  <2>2. CASE phase' = [phase EXCEPT ![c.info] = "lost"] /\ UNCHANGED wjob
    BY <1>2, <1>6, <2>2 DEF Alive, QueueInv, QueueTypeOK
  <2> QED
    BY <2>1, <2>2 DEF ReconcileExitFails
<1>8. /\ jobStatus' \in [Job -> JobTable!AllStatuses]
      /\ leaseHolder' \in [Workspace -> Worker \union {None}]
      /\ leaseActive' \in [Workspace -> BOOLEAN]
      /\ Calm
  BY <1>1, StillIsCalm DEF durableVars, QueueInv, QueueTypeOK
<1>9. d.op \in Ops \ Requests
  BY <1>4 DEF Ops, Requests
<1> QED
  BY <1>1, <1>4, <1>5, <1>7, <1>8, <1>9, PassKeeps

LEMMA RecoveredIsCalm ==
  ASSUME QueueTypeOK, jobStatus' = [j \in Job |-> Recovered(jobStatus[j])]
  PROVE  Calm /\ jobStatus' \in [Job -> JobTable!AllStatuses]
<1>1. \A j \in Job : jobStatus[j] \in JobTable!AllStatuses
  BY DEF QueueTypeOK
<1>2. \A s \in JobTable!AllStatuses : /\ Recovered(s) \in JobTable!AllStatuses \ {"queued", "running"}
                                      /\ s \in JobTable!TerminalStatuses => Recovered(s) = s
                                      /\ Recovered(s) = "absent" => s = "absent"
  BY StatusesAre DEF Statuses, Recovered
<1> QED
  BY <1>1, <1>2 DEF Calm

\* The processes of the queue do not notice the restart of the host's writer.
LEMMA HostRestartKeeps ==
  ASSUME QueueInv, HostRestart
  PROVE  QueueInv' /\ Calm
<1>1. /\ UNCHANGED <<queueVars, activeWorkspace, calls, shuttingDown>> /\ Awaited' = Awaited
      /\ Reaped({w \in Worker : phase[w] = "lost"})
  BY DEF HostRestart, Awaited
<1>2. Calm /\ jobStatus' \in [Job -> JobTable!AllStatuses]
  BY RecoveredIsCalm DEF HostRestart, QueueInv
<1>3. /\ \A w \in Worker : phase[w] # "lost" => phase'[w] = phase[w] /\ wjob'[w] = wjob[w]
      /\ \A w \in Worker : Alive(w)' => Alive(w) /\ phase[w] # "lost"
  BY <1>1 DEF Reaped, Alive
<1>4. QueueTypeOK'
  <2>1. /\ phase' \in [Worker -> {"free", "started", "claimed", "done", "closed", "lost"}]
        /\ wjob' \in [Worker -> Job \union {None}]
        /\ \A w \in Worker : wjob'[w] = None <=> phase'[w] = "free"
    BY <1>1 DEF Reaped, QueueInv, QueueTypeOK
  <2>2. /\ leaseHolder' \in [Workspace -> Worker \union {None}]
        /\ leaseActive' \in [Workspace -> BOOLEAN]
    BY DEF HostRestart, QueueInv, QueueTypeOK
  <2> QED
    BY <1>1, <1>2, <2>1, <2>2 DEF QueueInv, QueueTypeOK, queueVars
<1>5. OneThread'
  BY <1>1, <1>3, ThreadStays DEF QueueInv, queueVars
<1>6. QueueInOrder'
  BY <1>1 DEF QueueInv, QueueInOrder, PendingBehindActive, Pending, queueVars, IsInjective
<1>7. StaleTimersPass'
  BY <1>1, <1>2, TimersKeep DEF QueueInv, Pending, queueVars
<1>8. RequestsStand'
  BY <1>1, <1>2, RequestsKeep DEF QueueInv
<1>9. AnswersStand'
  <2>1. \A e \in Awaited : e.op = "exit" => e.info \in Worker /\ phase[e.info] # "lost"
    BY DEF QueueInv, AnswersStand, AnswerHolds
  <2> QED
    BY <1>1, <1>2, <1>3, <2>1, AnswersKeep DEF QueueInv, queueVars, Pending
<1>10. RunningIsActive'
  BY <1>1, <1>2, RunningKeeps DEF QueueInv, queueVars
<1> QED
  BY <1>2, <1>4, <1>5, <1>6, <1>7, <1>8, <1>9, <1>10 DEF QueueInv

LEMMA AfterImportSettledKeeps ==
  ASSUME QueueInv, NEW c \in Awaited, AfterImportSettled(c)
  PROVE  QueueInv'
<1>1. /\ c.op = "settled" /\ c.op \notin Requests /\ c.op \notin Timers
      /\ UNCHANGED <<durableVars, workerVars, queueVars, activeWorkspace, shuttingDown>>
  BY DEF AfterImportSettled, Requests, Timers
<1>2. CASE shuttingDown
  BY <1>1, <1>2, RestKeeps DEF AfterImportSettled
<1>3. CASE ~shuttingDown
  <2>1. PICK d : d = Continuation(IF c.info = "drain" THEN "finalize" ELSE "inspect", c.job, "sent")
    OBVIOUS
  <2>2. /\ d.op \in {"finalize", "inspect"} /\ d.job = c.job /\ Replace(c, d)
        /\ d.op = "finalize" => c.info = "drain"
    BY <1>3, <2>1 DEF AfterImportSettled, Continuation
  <2>3. AnswerHolds(c)
    BY DEF QueueInv, AnswersStand
  <2>4. AnswerHolds(d)'
    BY <1>1, <2>2, <2>3 DEF AnswerHolds, durableVars
  <2>5. d.op \in Ops \ Requests
    BY <2>2 DEF Ops, Requests
  <2> QED
    BY <1>1, <2>2, <2>4, <2>5, GoOnKeeps DEF queueVars
<1> QED
  BY <1>2, <1>3

LEMMA FinalizedKeeps ==
  ASSUME QueueInv, NEW c \in Awaited, Finalized(c)
  PROVE  QueueInv' /\ jobStatus[c.job] \in JobTable!TerminalStatuses
<1>1. c.op = "finalize" /\ c.op \notin Requests \union Timers
  BY DEF Finalized, Requests, Timers
<1>2. jobStatus[c.job] \in JobTable!TerminalStatuses
  BY <1>1 DEF QueueInv, AnswersStand, AnswerHolds
<1>3. jobStatus[c.job] # "running"
  BY <1>2, StatusesAre DEF Statuses
<1> QED
  BY <1>1, <1>2, <1>3, NextKeeps DEF Finalized

LEMMA ReadStatusKeeps ==
  ASSUME QueueInv, NEW c \in Awaited, ReadStatus(c)
  PROVE  QueueInv'
<1>1. /\ c.op \in {"claim", "inspect"} /\ c.op \notin Requests /\ c.op \notin Timers
      /\ UNCHANGED <<durableVars, workerVars, queueVars, activeWorkspace, shuttingDown>>
  BY DEF ReadStatus, Requests, Timers
<1>2. PICK read \in {jobStatus[c.job], "missing", "error"} :
        Replace(c, Continuation(IF c.op = "claim" THEN "claimed" ELSE "inspected", c.job, read))
  BY DEF ReadStatus
<1>3. PICK d : d = Continuation(IF c.op = "claim" THEN "claimed" ELSE "inspected", c.job, read)
  OBVIOUS
<1>4. /\ d.op = (IF c.op = "claim" THEN "claimed" ELSE "inspected")
      /\ d.job = c.job /\ d.info = read /\ Replace(c, d)
  BY <1>2, <1>3 DEF Continuation
<1>5. jobStatus[c.job] # "absent" /\ jobStatus'[c.job] = jobStatus[c.job]
  BY <1>1 DEF QueueInv, AnswersStand, AnswerHolds, durableVars
<1>6. AnswerHolds(d)'
  <2>1. "missing" \notin JobTable!TerminalStatuses /\ "error" \notin JobTable!TerminalStatuses
    BY StatusesAre DEF Statuses
  <2>2. (JobTable!TerminalStatuses)' = JobTable!TerminalStatuses
    BY DEF JobTable!TerminalStatuses
  <2> QED
    BY <1>1, <1>4, <1>5, <2>1, <2>2 DEF AnswerHolds
<1>7. d.op \in Ops \ Requests
  BY <1>4 DEF Ops, Requests
<1> QED
  BY <1>1, <1>4, <1>6, <1>7, GoOnKeeps DEF queueVars

\* What the queue learns of an import it could not reconcile, or of a timer
\* it starts.
LEMMA RetryReservedKeeps ==
  ASSUME QueueInv, NEW c \in Awaited, c.op \notin Requests \union Timers,
         NEW task \in Timers, RetryReserved(c, task),
         UNCHANGED <<durableVars, activeWorkspace, shuttingDown>>
  PROVE  QueueInv' /\ activeImport' = activeImport
<1>1. PICK d : d = Continuation(task, c.job, "sent")
  OBVIOUS
<1>2. /\ d.op \in Timers /\ d.job = c.job /\ Replace(c, d) /\ activeImport' = c.job
      /\ UNCHANGED <<pendingImports, workerVars>>
  BY <1>1 DEF RetryReserved, Continuation
<1>3. AnswerHolds(d)'
  BY <1>2 DEF AnswerHolds, Timers, QueueInv, AnswersStand, durableVars
<1>4. d.op \in Ops \ Requests /\ d.op \notin {"exit", "claim", "claimed"}
  BY <1>2 DEF Ops, Requests, Timers
<1>5. c.job = activeImport
  BY EngagedIs DEF QueueInv
<1> QED
  BY <1>2, <1>3, <1>4, <1>5, GoOnKeeps

LEMMA InspectedKeeps ==
  ASSUME QueueInv, NEW c \in Awaited, Inspected(c)
  PROVE  /\ QueueInv'
         /\ activeImport' = activeImport \/ jobStatus[c.job] \in JobTable!TerminalStatuses
<1>1. /\ c.op = "inspected" /\ c.op \notin Requests \union Timers
      /\ UNCHANGED <<durableVars, activeWorkspace, shuttingDown>>
  BY DEF Inspected, Requests, Timers
<1>2. AnswerHolds(c)
  BY DEF QueueInv, AnswersStand
<1>3. CASE /\ c.info = "succeeded" /\ Replace(c, Continuation("finalize", c.job, "sent"))
           /\ UNCHANGED <<queueVars, workerVars>>
  <2>1. PICK d : d = Continuation("finalize", c.job, "sent")
    OBVIOUS
  <2>2. d.op = "finalize" /\ d.job = c.job /\ Replace(c, d)
    BY <1>3, <2>1 DEF Continuation
  <2>3. jobStatus[c.job] \in JobTable!TerminalStatuses
    BY <1>1, <1>2, <1>3, StatusesAre DEF AnswerHolds, Statuses
  <2>4. AnswerHolds(d)'
    BY <1>1, <1>2, <2>2, <2>3 DEF AnswerHolds, durableVars
  <2>5. d.op \in Ops \ Requests
    BY <2>2 DEF Ops, Requests
  <2> QED
    BY <1>1, <1>3, <2>2, <2>4, <2>5, GoOnKeeps DEF queueVars
<1>4. CASE c.info \in {"failed", "canceled"} /\ LaunchNextImport(c, Released(c.job), pendingImports)
  <2>1. jobStatus[c.job] \in JobTable!TerminalStatuses
    BY <1>1, <1>2, <1>4, StatusesAre DEF AnswerHolds, Statuses
  <2>2. jobStatus[c.job] # "running"
    BY <2>1, StatusesAre DEF Statuses
  <2> QED
    BY <1>1, <1>4, <2>1, <2>2, NextKeeps
<1>5. CASE RetryReserved(c, "retryLaunch") \/ RetryReserved(c, "retrySettle")
  BY <1>1, <1>5, RetryReservedKeeps DEF Timers
<1>6. CASE Answered(c) /\ UNCHANGED <<queueVars, workerVars>>
  BY <1>1, <1>6, RestKeeps DEF queueVars
<1> QED
  BY <1>3, <1>4, <1>5, <1>6 DEF Inspected

\* The job a turn of launchNextImport looked up does not run, for all the queue
\* knows of it, or the gateway shuts down.
LEMMA ClaimedKeeps ==
  ASSUME QueueInv, NEW c \in Awaited, Claimed(c)
  PROVE  /\ QueueInv' /\ c.job = activeImport
         /\ ~shuttingDown => jobStatus[c.job] # "running"
         /\ \/ activeImport' = activeImport
            \/ c.info # "queued" /\ ShiftNext(c, None, pendingImports)
<1>1. /\ c.op = "claimed" /\ c.op \notin Requests \union Timers
      /\ UNCHANGED <<durableVars, activeWorkspace, shuttingDown>>
  BY DEF Claimed, Requests, Timers
<1>2. c.job = activeImport /\ c.job \in Job /\ \A w \in Worker : ~Alive(w)
  BY <1>1, EngagedIs, CallsAre DEF QueueInv
<1>3. ~shuttingDown => jobStatus[c.job] # "running"
  BY <1>1, <1>2 DEF QueueInv, RunningIsActive
<1>4. CASE LaunchImport(c.job) /\ Answered(c) /\ UNCHANGED pendingImports
  <2>1. CASE shuttingDown
    BY <1>1, <1>2, <1>3, <1>4, <2>1, RestKeeps DEF LaunchImport, queueVars
  <2>2. CASE ~shuttingDown
    <3>1. activeImport' = c.job
      BY <1>4, <2>2 DEF LaunchImport
    <3> QED
      BY <1>1, <1>2, <1>3, <1>4, <2>2, <3>1, LaunchKeeps
  <2> QED
    BY <2>1, <2>2
<1>5. CASE RetryReserved(c, "retrySettle")
  BY <1>1, <1>2, <1>3, <1>5, RetryReservedKeeps DEF Timers
<1>6. CASE c.info # "queued" /\ ShiftNext(c, Released(c.job), pendingImports)
  <2>1. Released(c.job) = None
    BY <1>2 DEF Released
  <2> QED
    BY <1>1, <1>2, <1>3, <1>6, <2>1, NextKeeps
<1> QED
  BY <1>2, <1>4, <1>5, <1>6 DEF Claimed

LEMMA RetryTimerKeeps ==
  ASSUME QueueInv, NEW c \in Awaited, RetryTimer(c)
  PROVE  QueueInv' /\ activeImport' = activeImport
<1>1. /\ c.op \in Timers /\ c.op \notin Requests /\ c.op # "resumed"
      /\ UNCHANGED <<durableVars, pendingImports, activeWorkspace, shuttingDown>>
  BY DEF RetryTimer, Timers, Requests
<1>2. CASE Answered(c) /\ UNCHANGED <<activeImport, workerVars>>
  BY <1>1, <1>2, RestKeeps DEF queueVars
<1>3. CASE /\ ~shuttingDown /\ activeImport = c.job
           /\ LaunchImport(c.job) /\ Answered(c)
  <2>1. activeImport' = activeImport
    BY <1>3 DEF LaunchImport
  <2> QED
    BY <1>1, <1>3, <2>1, LaunchKeeps
<1>4. CASE /\ activeImport = c.job
           /\ Replace(c, Continuation("inspect", c.job, "sent"))
           /\ UNCHANGED <<activeImport, workerVars>>
  <2>1. PICK d : d = Continuation("inspect", c.job, "sent")
    OBVIOUS
  <2>2. d.op = "inspect" /\ d.job = c.job /\ Replace(c, d)
    BY <1>4, <2>1 DEF Continuation
  <2>3. AnswerHolds(d)'
    BY <1>1, <2>2 DEF AnswerHolds, QueueInv, AnswersStand, durableVars
  <2>4. d.op \in Ops \ Requests /\ d.op # c.op
    BY <1>1, <2>2 DEF Ops, Requests, Timers
  <2> QED
    BY <1>1, <1>4, <2>2, <2>3, <2>4, GoOnKeeps
<1> QED
  BY <1>2, <1>3, <1>4 DEF RetryTimer

LEMMA ShutdownQueueKeeps ==
  ASSUME QueueInv, ShutdownQueue
  PROVE  QueueInv'
<1>1. /\ shuttingDown' /\ pendingImports' = <<>> /\ pendingImports' \in Seq(Job)
      /\ UNCHANGED <<durableVars, workerVars, activeImport, activeWorkspace, calls>>
      /\ shuttingDown' \in BOOLEAN
  BY DEF ShutdownQueue
<1>2. Calm /\ Awaited' = Awaited /\ \A w \in Worker : Alive(w)' <=> Alive(w)
  BY <1>1, StillIsCalm DEF durableVars, Awaited, Alive, workerVars
<1>3. \A j : ~Pending(j)'
  BY <1>1 DEF Pending
<1>4. QueueTypeOK'
  BY <1>1, <1>2 DEF QueueInv, QueueTypeOK, durableVars, workerVars
<1>5. OneThread'
  BY <1>1, <1>2, ThreadStays DEF QueueInv, workerVars
<1>6. QueueInOrder'
  BY <1>1, <1>3 DEF QueueInOrder, PendingBehindActive, IsInjective
<1>7. StaleTimersPass'
  BY <1>1, <1>2, <1>3, TimersKeep DEF QueueInv
<1>8. RequestsStand'
  BY <1>2, RequestsKeep DEF QueueInv
<1>9. AnswersStand'
  BY <1>1, <1>2, <1>3, AnswersKeep DEF QueueInv, workerVars
<1>10. RunningIsActive'
  BY <1>1 DEF RunningIsActive
<1> QED
  BY <1>4, <1>5, <1>6, <1>7, <1>8, <1>9, <1>10 DEF QueueInv

LEMMA StutterKeeps ==
  ASSUME QueueInv, UNCHANGED gatewayVars
  PROVE  QueueInv'
<1>1. leaseActive' \in [Workspace -> BOOLEAN] /\ activeWorkspace' \in Workspace
  BY DEF gatewayVars, durableVars, QueueInv, QueueTypeOK
<1> QED
  BY <1>1, AsideKeeps DEF gatewayVars, durableVars

LEMMA InitQueueInv ==
  ASSUME QueueInit
  PROVE  QueueInv
<1>1. Awaited = {} /\ IsABag(calls)
  BY DEF QueueInit, Awaited, BagToSet, EmptyBag, SetToBag, IsABag
<1>2. \A w \in Worker : phase[w] = "free" /\ wjob[w] = None /\ ~Alive(w)
  BY DEF QueueInit, Alive
<1>3. pendingImports = <<>> /\ pendingImports \in Seq(Job) /\ \A j : ~Pending(j)
  BY DEF QueueInit, Pending
<1>4. QueueTypeOK
  <2>1. jobStatus \in [Job -> JobTable!AllStatuses]
    BY StatusesAre DEF QueueInit, Statuses
  <2> QED
    BY <1>1, <1>2, <1>3, <2>1 DEF QueueInit, QueueTypeOK
<1>5. OneThread /\ StaleTimersPass /\ RequestsStand
  BY <1>1, <1>2 DEF OneThread, StaleTimersPass, RequestsStand
<1>6. QueueInOrder
  BY <1>3 DEF QueueInit, QueueInOrder, PendingBehindActive, IsInjective
<1>7. AnswersStand
  BY <1>1, <1>3, QueueAssumption DEF QueueInit, AnswersStand
<1>8. RunningIsActive
  BY DEF QueueInit, RunningIsActive
<1> QED
  BY <1>4, <1>5, <1>6, <1>7, <1>8 DEF QueueInv

-----------------------------------------------------------------------------
(* The theorems                                                             *)

\* The actions of the queue, one by one.
LEMMA QueueSteps ==
  ASSUME [QueueNext]_gatewayVars
  PROVE  \/ \E j \in Job : OwnerInTurn(j) /\ (Create(j) \/ Resume(j) \/ Cancel(j))
         \/ \E w \in Worker : Claim(w) \/ FailUnclaimed(w) \/ Finish(w) \/ ReleaseLease(w) \/ WorkerCloses(w)
         \/ \E c \in Awaited : AnswerInTurn(c) /\ (Created(c) \/ Resumed(c) \/ CancelProcess(c))
         \/ \E c \in Awaited : ReconcileExit(c) \/ ReconcileExitFails(c) \/ AfterImportSettled(c)
         \/ \E c \in Awaited : Finalized(c) \/ ReadStatus(c) \/ Inspected(c) \/ Claimed(c) \/ RetryTimer(c)
         \/ HostRestart \/ SelectWorkspace \/ ShutdownQueue \/ UNCHANGED gatewayVars
BY DEF QueueNext, Owner, WorkerStep, Answer

\* However the owner's requests, the ends of the processes, the answers of the
\* Runtime Host and its restarts interleave, the queue of
\* server/durableJobRuntime.ts follows one thread, where owners do not repeat a
\* request about a job the queue is at.
THEOREM QueueInvariant ==
  ASSUME NoOwnerRace
  PROVE  QueueSpec => []QueueInv
<1>1. QueueInit => QueueInv
  BY InitQueueInv
<1>2. QueueInv /\ [QueueNext]_gatewayVars => QueueInv'
  <2> SUFFICES ASSUME QueueInv, [QueueNext]_gatewayVars
               PROVE  QueueInv'
    OBVIOUS
  <2>1. ASSUME NEW j \in Job, OwnerInTurn(j), Create(j) \/ Resume(j) \/ Cancel(j)
        PROVE  QueueInv'
    BY <2>1, CreateKeeps, ResumeKeeps, CancelKeeps
  <2>2. ASSUME NEW w \in Worker, Claim(w) \/ FailUnclaimed(w) \/ Finish(w) \/ WorkerCloses(w)
        PROVE  QueueInv'
    BY <2>2, ClaimKeeps, WorkerKeeps, WorkerClosesKeeps
  <2>3. ASSUME NEW w \in Worker, ReleaseLease(w)
        PROVE  QueueInv'
    <3>1. /\ UNCHANGED <<jobStatus, leaseHolder, workerVars, queueVars, calls, activeWorkspace, shuttingDown>>
          /\ leaseActive' \in [Workspace -> BOOLEAN] /\ activeWorkspace' \in Workspace
      BY <2>3 DEF ReleaseLease, QueueInv, QueueTypeOK
    <3> QED
      BY <3>1, AsideKeeps
  <2>4. ASSUME SelectWorkspace
        PROVE  QueueInv'
    <3>1. /\ UNCHANGED <<jobStatus, leaseHolder, workerVars, queueVars, calls, shuttingDown>>
          /\ leaseActive' \in [Workspace -> BOOLEAN] /\ activeWorkspace' \in Workspace
      BY <2>4 DEF SelectWorkspace, durableVars, QueueInv, QueueTypeOK
    <3> QED
      BY <3>1, AsideKeeps
  <2>5. ASSUME NEW c \in Awaited, AnswerInTurn(c), Created(c) \/ Resumed(c) \/ CancelProcess(c)
        PROVE  QueueInv'
    BY <2>5, CreatedKeeps, ResumedKeeps, CancelProcessKeeps
  <2>6. ASSUME NEW c \in Awaited, ReconcileExit(c) \/ ReconcileExitFails(c) \/ AfterImportSettled(c)
        PROVE  QueueInv'
    BY <2>6, ReconcileExitKeeps, ReconcileExitFailsKeeps, AfterImportSettledKeeps
  <2>7. ASSUME NEW c \in Awaited,
               Finalized(c) \/ ReadStatus(c) \/ Inspected(c) \/ Claimed(c) \/ RetryTimer(c)
        PROVE  QueueInv'
    BY <2>7, FinalizedKeeps, ReadStatusKeeps, InspectedKeeps, ClaimedKeeps, RetryTimerKeeps
  <2>8. HostRestart \/ ShutdownQueue \/ UNCHANGED gatewayVars => QueueInv'
    BY HostRestartKeeps, ShutdownQueueKeeps, StutterKeeps
  <2> QED
    BY <2>1, <2>2, <2>3, <2>4, <2>5, <2>6, <2>7, <2>8, QueueSteps
<1> QED
  BY <1>1, <1>2, PTL DEF QueueSpec

\* At most one process of the gateway imports, so the reservation of
\* launchNextImport does what it is there for.
THEOREM OneImportIsKept ==
  ASSUME NoOwnerRace
  PROVE  QueueSpec => []OneImportRuns
<1>1. QueueInv => OneImportRuns
  BY DEF QueueInv, OneThread, OneImportRuns, Importing, Alive
<1> QED
  BY <1>1, QueueInvariant, PTL

\* No job of the gateway's pendingImports waits for a launch that nothing leads
\* to, and none waits twice.
THEOREM NoneWaitsBehindNothing ==
  ASSUME NoOwnerRace
  PROVE  QueueSpec => []PendingBehindActive
<1>1. QueueInv => PendingBehindActive
  BY DEF QueueInv, QueueInOrder
<1> QED
  BY <1>1, QueueInvariant, PTL

\* The gateway lets go of activeImport only where its job does not run: what an
\* exit, a lookup or a cancel said of it still holds when it is heeded.
THEOREM RunningKeepsQueue ==
  ASSUME NoOwnerRace
  PROVE  QueueSpec => RunningJobsKeepTheQueue
<1>1. ASSUME QueueInv, [QueueNext]_gatewayVars, NEW j \in Job,
             activeImport = j, activeImport' # j, ~shuttingDown
      PROVE  jobStatus[j] # "running"
  <2>1. j # None
    BY <1>1, CallsAre DEF QueueInv
  <2>2. ASSUME NEW c \in Awaited, Created(c)
        PROVE  FALSE
    BY <1>1, <2>1, <2>2 DEF Created, EnqueueImport, queueVars
  <2>3. ASSUME NEW c \in Awaited, Resumed(c)
        PROVE  FALSE
    BY <1>1, <2>1, <2>3 DEF Resumed, EnqueueImport, Released, LaunchImport, queueVars
  <2>4. ASSUME NEW c \in Awaited, CancelProcess(c)
        PROVE  jobStatus[j] # "running"
    <3>1. c.op = "canceled" /\ c.job = j
      BY <1>1, <2>4 DEF CancelProcess, queueVars
    <3> QED
      BY <1>1, <3>1 DEF QueueInv, RequestsStand
  <2>5. ASSUME NEW c \in Awaited, Finalized(c) \/ Inspected(c) \/ Claimed(c)
        PROVE  jobStatus[j] # "running"
    <3>1. c.op \notin Requests /\ c.op \notin Timers
      BY <2>5 DEF Finalized, Inspected, Claimed, Requests, Timers
    <3>2. c.job = j
      BY <1>1, <3>1, EngagedIs DEF QueueInv
    <3>3. jobStatus[c.job] \in JobTable!TerminalStatuses => jobStatus[j] # "running"
      BY <3>2, StatusesAre DEF Statuses
    <3> QED
      BY <1>1, <2>5, <3>2, <3>3, FinalizedKeeps, InspectedKeeps, ClaimedKeeps
  <2>6. ASSUME NEW c \in Awaited,
               \/ ReconcileExit(c) \/ ReconcileExitFails(c) \/ AfterImportSettled(c)
               \/ ReadStatus(c) \/ RetryTimer(c)
        PROVE  FALSE
    BY <1>1, <2>6, RetryTimerKeeps
       DEF ReconcileExit, ReconcileExitFails, AfterImportSettled, ReadStatus, queueVars
  <2>7. ASSUME NEW i \in Job, Create(i) \/ Resume(i) \/ Cancel(i)
        PROVE  FALSE
    BY <1>1, <2>7 DEF Create, Resume, Cancel, queueVars
  <2>8. ASSUME NEW w \in Worker,
               Claim(w) \/ FailUnclaimed(w) \/ Finish(w) \/ ReleaseLease(w) \/ WorkerCloses(w)
        PROVE  FALSE
    BY <1>1, <2>8 DEF Claim, FailUnclaimed, Finish, EndsJob, ReleaseLease, WorkerCloses, queueVars
  <2>9. HostRestart \/ SelectWorkspace \/ ShutdownQueue \/ UNCHANGED gatewayVars => FALSE
    BY <1>1 DEF HostRestart, SelectWorkspace, ShutdownQueue, gatewayVars, queueVars
  <2> QED
    BY <1>1, <2>2, <2>3, <2>4, <2>5, <2>6, <2>7, <2>8, <2>9, QueueSteps
<1>2. QueueInv /\ [QueueNext]_gatewayVars =>
        [\A j \in Job : activeImport = j /\ activeImport' # j /\ ~shuttingDown
                        => jobStatus[j] # "running"]_gatewayVars
  BY <1>1
<1> QED
  BY <1>2, QueueInvariant, PTL DEF QueueSpec, RunningJobsKeepTheQueue

-----------------------------------------------------------------------------
(* No step loses a queued job                                               *)

\* What holds a job goes on holding it, or hands it to the next holder.
LEMMA HeldMoves ==
  ASSUME NEW j \in Job, Held(j),
         activeImport = j => activeImport' = j,
         Pending(j) => Pending(j)' \/ activeImport' = j,
         HasWorker(j) => HasWorker(j)' \/ QueueAwaits(j)',
         \A e \in Awaited : e.job = j /\ e.op \notin Timers \union {"canceled"} => e \in Awaited'
  PROVE  Held(j)'
BY DEF Held, QueueAwaits, Requests, Timers

\* A process that is started takes the place of none.
LEMMA LaunchLeaves ==
  ASSUME NEW j, NEW i, Launch(i), QueueTypeOK, HasWorker(j)
  PROVE  HasWorker(j)'
<1>1. PICK w \in Worker : /\ phase[w] = "free"
                          /\ phase' = [phase EXCEPT ![w] = "started"]
                          /\ wjob' = [wjob EXCEPT ![w] = i]
  BY DEF Launch
<1>2. PICK v \in Worker : wjob[v] = j /\ Alive(v)
  BY DEF HasWorker
<1>3. v # w
  BY <1>1, <1>2 DEF Alive
<1>4. wjob'[v] = j /\ Alive(v)'
  BY <1>1, <1>2, <1>3 DEF QueueTypeOK, Alive
<1> QED
  BY <1>4 DEF HasWorker

LEMMA WorkersLeft ==
  ASSUME NEW j, UNCHANGED workerVars
  PROVE  HasWorker(j)' <=> HasWorker(j)
BY DEF HasWorker, Alive, workerVars

LEMMA AppendLeaves ==
  ASSUME NEW S, NEW s \in Seq(S), NEW x \in S
  PROVE  /\ \A i \in DOMAIN s : i \in DOMAIN Append(s, x) /\ Append(s, x)[i] = s[i]
         /\ \E i \in DOMAIN Append(s, x) : Append(s, x)[i] = x
<1>1. Len(s) + 1 \in DOMAIN Append(s, x) /\ Append(s, x)[Len(s) + 1] = x
  OBVIOUS
<1> QED
  BY <1>1

\* The job of the answered request is held, and so is every other one still.
LEMMA EnqueueHolds ==
  ASSUME QueueInv, NEW c \in Awaited, c.op \in {"created", "resumed"}, Answered(c), ~shuttingDown',
         UNCHANGED shuttingDown,
         NEW held, held = activeImport \/ (held = None /\ activeImport = c.job),
         \/ HasWorker(c.job) /\ UNCHANGED <<queueVars, workerVars>>
         \/ ~HasWorker(c.job) /\ EnqueueImport(c.job, held),
         NEW j \in Job, Held(j)
  PROVE  Held(j)'
<1>1. Awaited \ {c} \subseteq Awaited'
  BY AnsweredTakes, CallsAre DEF QueueInv
<1>2. pendingImports \in Seq(Job) /\ c.job \in Job /\ None \notin Job
  BY CallsAre DEF QueueInv, QueueTypeOK
<1>3. HasWorker(j) => HasWorker(j)'
  BY LaunchLeaves, WorkersLeft DEF EnqueueImport, LaunchImport, QueueInv
<1>4. Pending(j) => Pending(j)'
  BY <1>2, AppendLeaves DEF EnqueueImport, LaunchImport, Pending, queueVars
<1>5. j # c.job => (activeImport = j => activeImport' = j)
  BY <1>2 DEF EnqueueImport, LaunchImport, queueVars
<1>6. CASE j # c.job
  BY <1>1, <1>3, <1>4, <1>5, <1>6, HeldMoves
<1>7. CASE j = c.job /\ HasWorker(j)
  BY <1>3, <1>7 DEF Held
<1>8. CASE j = c.job /\ ~HasWorker(j)
  <2>1. EnqueueImport(j, held)
    BY <1>8
  <2>2. CASE held = None
    <3>1. activeImport' = j
      BY <2>1, <2>2 DEF EnqueueImport, LaunchImport
    <3> QED
      BY <3>1 DEF Held
  <2>3. CASE held # None
    <3>1. activeImport' = held /\ pendingImports' = IF held = j \/ Pending(j) THEN pendingImports
                                                    ELSE Append(pendingImports, j)
      BY <2>1, <2>3 DEF EnqueueImport
    <3> QED
      BY <1>2, <3>1, AppendLeaves DEF Held, Pending
  <2> QED
    BY <2>2, <2>3
<1> QED
  BY <1>6, <1>7, <1>8

\* Whoever waits is reserved or waits on, when the job of c lets go.
LEMMA ShiftHolds ==
  ASSUME QueueInv, NEW c \in Awaited, NEW pending \in Seq(Job), IsInjective(pending), c.job = activeImport,
         c.op # "claim", ~shuttingDown, ShiftNext(c, None, pending),
         NEW j \in Job, j # c.job, Held(j),
         Pending(j) => \E i \in DOMAIN pending : pending[i] = j
  PROVE  Held(j)'
<1>1. HasWorker(j) => HasWorker(j)'
  BY WorkersLeft DEF ShiftNext
<1>2. activeImport # j
  OBVIOUS
<1>3. Awaited \ {c} \subseteq Awaited' /\ (Pending(j) => Pending(j)' \/ activeImport' = j)
  <2>1. CASE pending = <<>>
    <3>1. Answered(c)
      BY <2>1 DEF ShiftNext
    <3>2. ~Pending(j)
      BY <2>1
    <3> QED
      BY <3>1, <3>2, AnsweredTakes, CallsAre DEF QueueInv
  <2>2. CASE pending # <<>>
    <3>1. PICK d : d = Continuation("claim", Head(pending), "sent")
      OBVIOUS
    <3>2. /\ d.job = Head(pending) /\ activeImport' = d.job /\ pendingImports' = Tail(pending)
          /\ Replace(c, d) /\ d # c
      BY <2>2, <3>1 DEF ShiftNext, Continuation
    <3>3. Awaited \ {c} \subseteq Awaited'
      BY <3>2, CallsAre, ReplaceMoves DEF QueueInv
    <3>4. Pending(j) => Pending(j)' \/ activeImport' = j
      BY <2>2, <3>2, HeadIsTaken DEF Pending
    <3> QED
      BY <3>3, <3>4
  <2> QED
    BY <2>1, <2>2
<1> QED
  BY <1>1, <1>2, <1>3, HeldMoves

\* The queue goes on with the job of c: that job is held, and so is every other
\* one still.
LEMMA GoOnHolds ==
  ASSUME QueueInv, NEW c \in Awaited, NEW d, d # c, Replace(c, d), d.job = c.job,
         \/ d.op \notin Requests \union Timers
         \/ activeImport = c.job,
         UNCHANGED queueVars,
         NEW j \in Job, Held(j),
         HasWorker(j) => HasWorker(j)'
  PROVE  Held(j)'
<1>1. (Awaited \ {c}) \union {d} \subseteq Awaited'
  BY CallsAre, ReplaceMoves DEF QueueInv
<1>2. Pending(j) => Pending(j)'
  BY DEF Pending, queueVars
<1>3. CASE j # c.job
  BY <1>1, <1>2, <1>3, HeldMoves DEF queueVars
<1>4. CASE j = c.job
  BY <1>1, <1>4 DEF Held, QueueAwaits, queueVars
<1> QED
  BY <1>3, <1>4

\* An answer that ends in nothing more leaves its job to the reservation.
LEMMA RestHolds ==
  ASSUME QueueInv, NEW c \in Awaited, Answered(c),
         c.op \in Timers \/ (c.op \notin Requests /\ activeImport = c.job),
         UNCHANGED <<activeImport, pendingImports>>,
         NEW j \in Job, Held(j),
         HasWorker(j) => HasWorker(j)'
  PROVE  Held(j)'
<1>1. Awaited \ {c} \subseteq Awaited'
  BY CallsAre, AnsweredTakes DEF QueueInv
<1>2. Pending(j) => Pending(j)'
  BY DEF Pending
<1>3. CASE c.op \in Timers \/ j # c.job
  BY <1>1, <1>2, <1>3, HeldMoves
<1>4. CASE activeImport = c.job /\ j = c.job
  BY <1>4 DEF Held
<1> QED
  BY <1>3, <1>4

\* Where commands only begin, nothing is let go of.
LEMMA BegunHolds ==
  ASSUME QueueInv, Awaited \subseteq Awaited', UNCHANGED queueVars,
         NEW j \in Job, Held(j),
         HasWorker(j) => HasWorker(j)' \/ QueueAwaits(j)'
  PROVE  Held(j)'
<1>1. Pending(j) => Pending(j)'
  BY DEF Pending, queueVars
<1> QED
  BY <1>1, HeldMoves DEF queueVars

LEMMA RetryReservedHolds ==
  ASSUME QueueInv, NEW c \in Awaited, c.op \notin Requests \union Timers,
         NEW task \in Timers, RetryReserved(c, task),
         NEW j \in Job, Held(j)
  PROVE  Held(j)'
<1>1. PICK d : d = Continuation(task, c.job, "sent")
  OBVIOUS
<1>2. /\ d.op \in Timers /\ d.job = c.job /\ Replace(c, d) /\ d # c /\ activeImport' = c.job
      /\ UNCHANGED <<pendingImports, workerVars>>
  BY <1>1 DEF RetryReserved, Continuation
<1>3. c.job = activeImport
  BY EngagedIs DEF QueueInv
<1> QED
  BY <1>2, <1>3, GoOnHolds, WorkersLeft DEF queueVars

\* The owner's requests.
LEMMA OwnerHolds ==
  ASSUME QueueInv, NEW j \in Job, jobStatus'[j] = "queued", jobStatus[j] = "queued" => Held(j),
         NEW i \in Job, Create(i) \/ Resume(i) \/ Cancel(i)
  PROVE  Held(j)'
<1>1. /\ UNCHANGED <<workerVars, queueVars>> /\ jobStatus \in [Job -> JobTable!AllStatuses]
      /\ j # i => jobStatus'[j] = jobStatus[j]
  BY DEF Create, Resume, Cancel, QueueInv, QueueTypeOK
<1>2. PICK op \in Requests : Await(Continuation(op, i, "sent")) /\ (Cancel(i) \/ op \in {"created", "resumed"})
  BY DEF Create, Resume, Cancel, Requests
<1>3. PICK d : d = Continuation(op, i, "sent")
  OBVIOUS
<1>4. d.op = op /\ d.job = i /\ Await(d)
  BY <1>2, <1>3 DEF Continuation
<1>5. Awaited' = Awaited \union {d}
  BY <1>4, AwaitAdds, CallsAre DEF QueueInv
<1>6. CASE j # i
  BY <1>1, <1>5, <1>6, BegunHolds, WorkersLeft
<1>7. CASE j = i /\ ~Cancel(i)
  BY <1>2, <1>4, <1>5, <1>7 DEF Held
<1>8. CASE j = i /\ Cancel(i)
  <2>1. jobStatus'[i] \in {"cancel_requested", "canceled"}
    BY <1>1, <1>8 DEF Cancel
  <2> QED
    BY <1>8, <2>1
<1> QED
  BY <1>6, <1>7, <1>8

\* The processes.
LEMMA WorkersHold ==
  ASSUME QueueInv, NEW j \in Job, jobStatus'[j] = "queued", jobStatus[j] = "queued" => Held(j),
         NEW w \in Worker,
         Claim(w) \/ FailUnclaimed(w) \/ Finish(w) \/ ReleaseLease(w) \/ WorkerCloses(w)
  PROVE  Held(j)'
<1>1. CASE WorkerCloses(w)
  <2>1. PICK d : d = Continuation("exit", wjob[w], w)
    OBVIOUS
  <2>2. /\ d.op = "exit" /\ d.job = wjob[w] /\ Await(d) /\ d.op \notin Requests \union Timers
        /\ phase' = [phase EXCEPT ![w] = "closed"]
        /\ UNCHANGED <<durableVars, wjob, queueVars>>
    BY <1>1, <2>1 DEF WorkerCloses, Continuation, Requests, Timers
  <2>3. Awaited' = Awaited \union {d}
    BY <2>2, AwaitAdds, CallsAre DEF QueueInv
  <2>4. Held(j)
    BY <2>2 DEF durableVars
  <2>5. HasWorker(j) => HasWorker(j)' \/ QueueAwaits(j)'
    BY <2>2, <2>3 DEF HasWorker, Alive, QueueAwaits
  <2> QED
    BY <2>2, <2>3, <2>4, <2>5, BegunHolds
<1>2. CASE Claim(w) \/ FailUnclaimed(w) \/ Finish(w) \/ ReleaseLease(w)
  <2>1. UNCHANGED <<wjob, queueVars, calls>> /\ Awaited' = Awaited
    BY <1>2 DEF Claim, FailUnclaimed, Finish, EndsJob, ReleaseLease, workerVars, Awaited
  <2>2. HasWorker(j) => HasWorker(j)'
    <3>1. phase' = phase \/ phase' = [phase EXCEPT ![w] = "claimed"] \/ phase' = [phase EXCEPT ![w] = "done"]
      BY <1>2 DEF Claim, FailUnclaimed, Finish, EndsJob, ReleaseLease, workerVars
    <3> QED
      BY <2>1, <3>1 DEF HasWorker, Alive, QueueInv, QueueTypeOK
  <2>3. jobStatus[j] = "queued"
    <3>1. CASE Claim(w)
      <4>1. jobStatus' = [jobStatus EXCEPT ![wjob[w]] = "running"]
        BY <3>1 DEF Claim
      <4> QED
        BY <4>1 DEF QueueInv, QueueTypeOK
    <3>2. CASE FailUnclaimed(w) \/ Finish(w)
      BY <3>2, WorkerKeeps DEF Calm
    <3>3. CASE ReleaseLease(w)
      BY <3>3 DEF ReleaseLease
    <3> QED
      BY <1>2, <3>1, <3>2, <3>3
  <2> QED
    BY <2>1, <2>2, <2>3, BegunHolds
<1> QED
  BY <1>1, <1>2

\* The answers to the owner's requests.
LEMMA RequestsHold ==
  ASSUME QueueInv, NEW j \in Job, jobStatus'[j] = "queued", jobStatus[j] = "queued" => Held(j),
         ~shuttingDown', NEW c \in Awaited, Created(c) \/ Resumed(c) \/ CancelProcess(c)
  PROVE  Held(j)'
<1>1. UNCHANGED <<durableVars, activeWorkspace, shuttingDown>> /\ Held(j)
  BY DEF Created, Resumed, CancelProcess, durableVars
<1>2. CASE Created(c)
  BY <1>1, <1>2, EnqueueHolds DEF Created
<1>3. CASE Resumed(c)
  <2>1. Released(c.job) = activeImport \/ (Released(c.job) = None /\ activeImport = c.job)
    BY DEF Released
  <2> QED
    BY <1>1, <1>3, <2>1, EnqueueHolds DEF Resumed
<1>4. CASE CancelProcess(c)
  <2>1. c.op = "canceled" /\ j # c.job
    BY <1>1, <1>4 DEF CancelProcess, QueueInv, RequestsStand, durableVars
  <2>2. pendingImports \in Seq(Job) /\ IsInjective(pendingImports)
    BY DEF QueueInv, QueueTypeOK, QueueInOrder, PendingBehindActive
  <2> DEFINE others == RemoveFirst(pendingImports, c.job)
  <2>3. /\ others \in Seq(Job) /\ IsInjective(others)
        /\ Pending(j) => \E i \in DOMAIN others : others[i] = j
    <3>1. others \in Seq(Job) /\ IsInjective(others)
      BY <2>2, RemoveFirstDrops
    <3>2. \A k \in DOMAIN pendingImports : pendingImports[k] # c.job =>
            \E i \in DOMAIN others : others[i] = pendingImports[k]
      BY <2>2, OthersStay
    <3>3. Pending(j) => \E k \in DOMAIN pendingImports : pendingImports[k] = j
      BY DEF Pending
    <3> HIDE DEF others
    <3>4. Pending(j) => \E i \in DOMAIN others : others[i] = j
      BY <2>1, <3>2, <3>3
    <3> QED
      BY <3>1, <3>4
  <2>4. \/ Answered(c) /\ UNCHANGED <<queueVars, workerVars>>
        \/ activeImport = c.job /\ ShiftNext(c, None, others)
        \/ Answered(c) /\ pendingImports' = others /\ UNCHANGED <<activeImport, workerVars>>
    BY <1>4 DEF CancelProcess, LaunchNextImport
  <2> HIDE DEF others
  <2>5. CASE activeImport = c.job /\ ShiftNext(c, None, others)
    BY <1>1, <2>1, <2>3, <2>5, ShiftHolds
  <2>6. CASE /\ Answered(c) /\ UNCHANGED <<activeImport, workerVars>>
             /\ pendingImports' = pendingImports \/ pendingImports' = others
    <3>1. Awaited \ {c} \subseteq Awaited'
      BY <2>6, CallsAre, AnsweredTakes DEF QueueInv
    <3>2. Pending(j) => Pending(j)'
      BY <2>3, <2>6 DEF Pending
    <3>3. HasWorker(j) => HasWorker(j)'
      BY <2>6, WorkersLeft
    <3> QED
      BY <1>1, <2>1, <2>6, <3>1, <3>2, <3>3, HeldMoves
  <2> QED
    BY <2>4, <2>5, <2>6 DEF queueVars
<1> QED
  BY <1>2, <1>3, <1>4

\* What follows the end of a process.
LEMMA ExitsHold ==
  ASSUME QueueInv, NEW j \in Job, jobStatus'[j] = "queued", jobStatus[j] = "queued" => Held(j),
         ~shuttingDown', NEW c \in Awaited,
         ReconcileExit(c) \/ ReconcileExitFails(c) \/ AfterImportSettled(c)
  PROVE  Held(j)'
<1>1. CASE ReconcileExit(c) \/ ReconcileExitFails(c)
  <2>1. c.op = "exit" /\ phase[c.info] = "closed" /\ c.info \in Worker /\ UNCHANGED queueVars
    BY <1>1 DEF ReconcileExit, ReconcileExitFails, QueueInv, AnswersStand, AnswerHolds
  <2>2. Held(j)
    BY <1>1, ReconcileExitKeeps DEF Calm, ReconcileExitFails, durableVars
  <2>3. PICK info : Replace(c, Continuation("settled", c.job, info))
    BY <1>1 DEF ReconcileExit, ReconcileExitFails
  <2>4. PICK d : d = Continuation("settled", c.job, info)
    OBVIOUS
  <2>5. d.op = "settled" /\ d.job = c.job /\ Replace(c, d) /\ d # c /\ d.op \notin Requests \union Timers
    BY <2>1, <2>3, <2>4 DEF Continuation, Requests, Timers
  <2>6. HasWorker(j) => HasWorker(j)'
    <3>1. Reaped({c.info}) \/ (phase' = [phase EXCEPT ![c.info] = "lost"] /\ UNCHANGED wjob)
      BY <1>1 DEF ReconcileExit, ReconcileExitFails
    <3>2. \A w \in Worker : Alive(w) => w # c.info
      BY <2>1 DEF Alive
    <3>3. \A w \in Worker \ {c.info} : phase'[w] = phase[w] /\ wjob'[w] = wjob[w]
      BY <3>1 DEF Reaped, QueueInv, QueueTypeOK
    <3> QED
      BY <3>2, <3>3 DEF HasWorker, Alive
  <2> QED
    BY <2>1, <2>2, <2>5, <2>6, GoOnHolds
<1>2. CASE AfterImportSettled(c)
  <2>1. /\ c.op = "settled" /\ ~shuttingDown /\ Held(j)
        /\ UNCHANGED <<durableVars, workerVars, queueVars, activeWorkspace, shuttingDown>>
    BY <1>2 DEF AfterImportSettled, durableVars
  <2>2. PICK d : d = Continuation(IF c.info = "drain" THEN "finalize" ELSE "inspect", c.job, "sent")
    OBVIOUS
  <2>3. d.op \in {"finalize", "inspect"} /\ d.job = c.job /\ Replace(c, d) /\ d # c
    BY <1>2, <2>1, <2>2 DEF AfterImportSettled, Continuation
  <2>4. d.op \notin Requests \union Timers
    BY <2>3 DEF Requests, Timers
  <2> QED
    BY <2>1, <2>3, <2>4, GoOnHolds, WorkersLeft
<1> QED
  BY <1>1, <1>2

\* The queue's own answers and timers.
LEMMA AnswersHold ==
  ASSUME QueueInv, NEW j \in Job, jobStatus'[j] = "queued", jobStatus[j] = "queued" => Held(j),
         ~shuttingDown', NEW c \in Awaited, c.job = j => c.info # "missing",
         Finalized(c) \/ ReadStatus(c) \/ Inspected(c) \/ Claimed(c) \/ RetryTimer(c)
  PROVE  Held(j)'
<1>1. UNCHANGED <<durableVars, activeWorkspace, shuttingDown>> /\ Held(j) /\ jobStatus[j] = "queued"
  BY DEF Finalized, ReadStatus, Inspected, Claimed, RetryTimer, durableVars
<1>2. jobStatus[j] \notin JobTable!TerminalStatuses
  BY <1>1, StatusesAre DEF Statuses
<1>3. pendingImports \in Seq(Job) /\ IsInjective(pendingImports)
  BY DEF QueueInv, QueueTypeOK, QueueInOrder, PendingBehindActive
<1>4. ASSUME c.op \notin Requests, c.op \notin Timers, c.op # "claim", j # c.job,
             \/ LaunchNextImport(c, Released(c.job), pendingImports)
             \/ ShiftNext(c, Released(c.job), pendingImports)
      PROVE  Held(j)'
  <2>1. c.job = activeImport
    BY <1>4, EngagedIs DEF QueueInv
  <2>2. ShiftNext(c, None, pendingImports)
    BY <1>4, <2>1 DEF LaunchNextImport, Released
  <2> QED
    BY <1>1, <1>3, <1>4, <2>1, <2>2, ShiftHolds DEF Pending
<1>5. CASE Finalized(c)
  <2>1. c.op = "finalize" /\ c.op \notin Requests /\ c.op \notin Timers
    BY <1>5 DEF Finalized, Requests, Timers
  <2>2. j # c.job
    BY <1>2, <1>5, FinalizedKeeps
  <2> QED
    BY <1>4, <1>5, <2>1, <2>2 DEF Finalized
<1>6. CASE ReadStatus(c)
  <2>1. PICK read : Replace(c, Continuation(IF c.op = "claim" THEN "claimed" ELSE "inspected", c.job, read))
    BY <1>6 DEF ReadStatus
  <2>2. PICK d : d = Continuation(IF c.op = "claim" THEN "claimed" ELSE "inspected", c.job, read)
    OBVIOUS
  <2>3. /\ d.op = (IF c.op = "claim" THEN "claimed" ELSE "inspected") /\ d.job = c.job /\ Replace(c, d)
        /\ d.op \notin Requests \union Timers
    BY <2>1, <2>2 DEF Continuation, Requests, Timers
  <2>4. d # c /\ UNCHANGED <<workerVars, queueVars>>
    BY <1>6, <2>3 DEF ReadStatus
  <2> QED
    BY <1>1, <2>3, <2>4, GoOnHolds, WorkersLeft
<1>7. CASE Inspected(c)
  <2>1. c.op = "inspected" /\ c.op \notin Requests /\ c.op \notin Timers /\ c.job = activeImport
    <3>1. c.op = "inspected" /\ c.op \notin Requests /\ c.op \notin Timers
      BY <1>7 DEF Inspected, Requests, Timers
    <3> QED
      BY <3>1, EngagedIs DEF QueueInv
  <2>2. CASE Replace(c, Continuation("finalize", c.job, "sent")) /\ UNCHANGED <<queueVars, workerVars>>
    <3>1. PICK d : d = Continuation("finalize", c.job, "sent")
      OBVIOUS
    <3>2. d.op = "finalize" /\ d.job = c.job /\ Replace(c, d) /\ d # c
      BY <2>1, <2>2, <3>1 DEF Continuation
    <3> QED
      BY <1>1, <2>1, <2>2, <3>2, GoOnHolds, WorkersLeft
  <2>3. CASE c.info \in {"failed", "canceled"} /\ LaunchNextImport(c, Released(c.job), pendingImports)
    <3>1. j # c.job
      BY <1>2, <2>1, <2>3, StatusesAre DEF QueueInv, AnswersStand, AnswerHolds, Statuses
    <3> QED
      BY <1>4, <2>1, <2>3, <3>1
  <2>4. CASE RetryReserved(c, "retryLaunch") \/ RetryReserved(c, "retrySettle")
    BY <1>1, <2>1, <2>4, RetryReservedHolds DEF Timers
  <2>5. CASE Answered(c) /\ UNCHANGED <<queueVars, workerVars>>
    BY <1>1, <2>1, <2>5, RestHolds, WorkersLeft DEF queueVars
  <2> QED
    BY <1>7, <2>2, <2>3, <2>4, <2>5 DEF Inspected
<1>8. CASE Claimed(c)
  <2>1. c.op = "claimed" /\ c.op \notin Requests /\ c.op \notin Timers /\ c.job = activeImport
    <3>1. c.op = "claimed" /\ c.op \notin Requests /\ c.op \notin Timers
      BY <1>8 DEF Claimed, Requests, Timers
    <3> QED
      BY <3>1, EngagedIs DEF QueueInv
  <2>2. CASE LaunchImport(c.job) /\ Answered(c) /\ UNCHANGED pendingImports
    <3>1. activeImport' = activeImport /\ Launch(c.job)
      BY <1>1, <2>1, <2>2 DEF LaunchImport
    <3>2. HasWorker(j) => HasWorker(j)'
      BY <3>1, LaunchLeaves DEF QueueInv
    <3> QED
      BY <1>1, <2>1, <2>2, <3>1, <3>2, RestHolds
  <2>3. CASE RetryReserved(c, "retrySettle")
    BY <1>1, <2>1, <2>3, RetryReservedHolds DEF Timers
  <2>4. CASE /\ ~(activeImport = c.job /\ c.info = "queued") /\ c.info # "error"
             /\ ShiftNext(c, Released(c.job), pendingImports)
    <3>1. CASE j # c.job
      BY <1>4, <2>1, <2>4, <3>1
    <3>2. CASE j = c.job
      <4>1. PICK d \in Awaited : d.op = "resumed" /\ d.job = j
        BY <1>1, <2>1, <2>4, <3>2 DEF QueueInv, AnswersStand, AnswerHolds
      <4>2. Answered(c) \/ \E h : Replace(c, Continuation("claim", h, "sent"))
        BY <2>4 DEF ShiftNext
      <4>3. Awaited \ {c} \subseteq Awaited'
        <5>1. CASE Answered(c)
          BY <5>1, CallsAre, AnsweredTakes DEF QueueInv
        <5>2. ASSUME NEW h, Replace(c, Continuation("claim", h, "sent"))
              PROVE  Awaited \ {c} \subseteq Awaited'
          <6>1. Continuation("claim", h, "sent") # c
            BY <2>1 DEF Continuation
          <6> QED
            BY <5>2, <6>1, CallsAre, ReplaceMoves DEF QueueInv
        <5> QED
          BY <4>2, <5>1, <5>2
      <4>4. d \in Awaited' /\ d.op \in {"created", "resumed"} /\ d.job = j
        BY <2>1, <4>1, <4>3
      <4> QED
        BY <4>4 DEF Held
    <3> QED
      BY <3>1, <3>2
  <2> QED
    BY <1>8, <2>2, <2>3, <2>4 DEF Claimed
<1>9. CASE RetryTimer(c)
  <2>1. c.op \in Timers /\ pendingImports' = pendingImports
    BY <1>9 DEF RetryTimer
  <2>2. CASE Answered(c) /\ UNCHANGED <<activeImport, workerVars>>
    BY <1>1, <2>1, <2>2, RestHolds, WorkersLeft
  <2>3. CASE activeImport = c.job /\ LaunchImport(c.job) /\ Answered(c)
    <3>1. activeImport' = activeImport /\ Launch(c.job)
      BY <1>1, <2>3 DEF LaunchImport
    <3>2. HasWorker(j) => HasWorker(j)'
      BY <3>1, LaunchLeaves DEF QueueInv
    <3> QED
      BY <1>1, <2>1, <2>3, <3>1, <3>2, RestHolds
  <2>4. CASE /\ activeImport = c.job /\ c.op = "retrySettle"
             /\ Replace(c, Continuation("inspect", c.job, "sent"))
             /\ UNCHANGED <<activeImport, workerVars>>
    <3>1. PICK d : d = Continuation("inspect", c.job, "sent")
      OBVIOUS
    <3>2. d.op = "inspect" /\ d.job = c.job /\ Replace(c, d) /\ d # c
      BY <2>4, <3>1 DEF Continuation
    <3> QED
      BY <1>1, <2>1, <2>4, <3>2, GoOnHolds, WorkersLeft DEF queueVars
  <2> QED
    BY <1>9, <2>1, <2>2, <2>3, <2>4 DEF RetryTimer
<1> QED
  BY <1>5, <1>6, <1>7, <1>8, <1>9

\* Between any two awaits of the gateway a queued job stays with a process, the
\* reservation, pendingImports or an answer that is on its way, but where a
\* lookup of its status was answered by another workspace.
THEOREM QueuedStayHeld ==
  ASSUME NoOwnerRace
  PROVE  QueueSpec => QueuedJobsAreHeld
<1>1. ASSUME QueueInv, [QueueNext]_gatewayVars, NEW j \in Job,
             jobStatus'[j] = "queued", ~Held(j)', ~shuttingDown',
             ~(jobStatus[j] = "queued" /\ ~Held(j)),
             ~\E c \in Awaited : c.job = j /\ c.info = "missing"
      PROVE  FALSE
  <2>1. jobStatus[j] = "queued" => Held(j)
    BY <1>1
  <2>2. ASSUME NEW c \in Awaited,
               Finalized(c) \/ ReadStatus(c) \/ Inspected(c) \/ Claimed(c) \/ RetryTimer(c)
        PROVE  FALSE
    BY <1>1, <2>1, <2>2, AnswersHold
  <2>3. ASSUME NEW c \in Awaited, Created(c) \/ Resumed(c) \/ CancelProcess(c)
        PROVE  FALSE
    BY <1>1, <2>1, <2>3, RequestsHold
  <2>4. ASSUME NEW c \in Awaited, ReconcileExit(c) \/ ReconcileExitFails(c) \/ AfterImportSettled(c)
        PROVE  FALSE
    BY <1>1, <2>1, <2>4, ExitsHold
  <2>5. ASSUME NEW i \in Job, Create(i) \/ Resume(i) \/ Cancel(i)
        PROVE  FALSE
    BY <1>1, <2>1, <2>5, OwnerHolds
  <2>6. ASSUME NEW w \in Worker,
               Claim(w) \/ FailUnclaimed(w) \/ Finish(w) \/ ReleaseLease(w) \/ WorkerCloses(w)
        PROVE  FALSE
    BY <1>1, <2>1, <2>6, WorkersHold
  <2>7. ASSUME HostRestart
        PROVE  FALSE
    <3>1. jobStatus[j] \in JobTable!AllStatuses /\ jobStatus'[j] = Recovered(jobStatus[j])
      BY <1>1, <2>7 DEF HostRestart, QueueInv, QueueTypeOK
    <3>2. Recovered(jobStatus[j]) # "queued"
      BY <3>1, StatusesAre DEF Recovered, Statuses
    <3> QED
      BY <1>1, <3>1, <3>2
  <2>8. ASSUME SelectWorkspace \/ UNCHANGED gatewayVars
        PROVE  FALSE
    <3>1. UNCHANGED <<jobStatus, workerVars, queueVars, calls>>
      BY <2>8 DEF SelectWorkspace, gatewayVars, durableVars
    <3>2. Awaited' = Awaited
      BY <3>1 DEF Awaited
    <3> QED
      BY <1>1, <2>1, <3>1, <3>2, BegunHolds, WorkersLeft
  <2>9. ~ShutdownQueue
    BY <1>1 DEF ShutdownQueue
  <2> QED
    BY <1>1, <2>2, <2>3, <2>4, <2>5, <2>6, <2>7, <2>8, <2>9, QueueSteps
<1>2. QueueInv /\ [QueueNext]_gatewayVars =>
        [\A j \in Job : jobStatus'[j] = "queued" /\ ~Held(j)' /\ ~shuttingDown' =>
           \/ jobStatus[j] = "queued" /\ ~Held(j)
           \/ \E c \in Awaited : c.job = j /\ c.info = "missing"]_gatewayVars
  BY <1>1
<1> QED
  BY <1>2, QueueInvariant, PTL DEF QueueSpec, QueuedJobsAreHeld
=============================================================================
