--------------------------- MODULE RuntimeHostPool --------------------------
(***************************************************************************)
(* The process pool of the HTTP gateway, server/runtimeHost.ts: one writer *)
(* process, several reader processes, and the promise chains that decide   *)
(* when a request may be sent to one of them.  The gateway is one thread:  *)
(* a step is what it runs when a promise settles.                          *)
(*                                                                         *)
(* A chained promise is modelled by what it still waits for: awaits[t] is  *)
(* the set of unsettled requests ahead of t on the tails it was chained to *)
(* (a tail settles only after everything chained before it), the reader    *)
(* barrier included.  A request is used once; the recoveries the pool      *)
(* starts of its own accord (ensureRecoveryReady) are requests too.        *)
(*                                                                         *)
(* The journals in the store are kept by kind, one kind for each command   *)
(* of a reconciliation.  They open and close beside the pool: under the    *)
(* write that runs, whose handler may raise and be answered with a journal *)
(* still open, and in import workers and command lines, which are other    *)
(* processes.  "inherited" are those that were open when the writer        *)
(* process of the moment was started.  What a command finds of the fence   *)
(* of an open journal, it finds behind the lock: another module's concern. *)
(***************************************************************************)
EXTENDS Integers, FiniteSets

CONSTANTS
  Write,         \* requests of commands that may write
  Read,          \* requests of commands with database: read-only
  Reconcile,     \* explicit workspace-recovery-reconcile requests
  Recovery,      \* recoveries the pool starts itself
  Lanes,         \* number of reader processes
  MaxQueueDepth,
  MaxStarts,     \* bound on the generations of the writer process
  MaxJournals,   \* bound on the kinds of journals open at a time
  Nobody

Exclusive == Write \union Reconcile \union Recovery
Request == Exclusive \union Read

ASSUME PoolAssumption ==
  /\ Write \intersect (Reconcile \union Recovery \union Read) = {}
  /\ Reconcile \intersect (Recovery \union Read) = {}
  /\ Recovery \intersect Read = {}
  /\ Nobody \notin Request
  /\ Lanes \in Nat \ {0}
  /\ MaxQueueDepth \in Nat \ {0}
  /\ MaxStarts \in Nat
  /\ MaxJournals \in Nat

VARIABLES
  state,            \* of each request
  awaits,           \* of each request
  lane,             \* the reader process of each read
  readerBarrier,    \* the unsettled request this.readerBarrier waits for
  readerCursor,
  recoveryPromise,  \* the recovery in progress
  writerUp,         \* the writer process is alive
  starts,           \* its generation
  reconciledWriterGeneration,
  recoveryError,
  closed,
  journals,         \* kinds of journals open since the writer's start
  inherited,        \* kinds of journals still open from before it
  applied,          \* writes whose effect is in the store
  behind,           \* of each read: the writes chained before it (history)
  seen,             \* of each read: the writes its answer shows (history)
  lostBarrier       \* a refused exclusive request replaced a barrier (history)

chainVars == <<awaits, lane, readerBarrier, readerCursor, recoveryPromise>>
writerVars == <<writerUp, starts, reconciledWriterGeneration, recoveryError>>
journalVars == <<journals, inherited>>
storeVars == <<journalVars, applied>>
historyVars == <<behind, seen, lostBarrier>>
vars == <<state, chainVars, writerVars, closed, storeVars, historyVars>>

\* The kinds of journals a reconciliation closes, each by a command of its own.
Journal == {"workspace", "import", "sqlserver"}

\* A journal of an import, a layout or a deletion whose stores no longer match it
\* can be decided neither way; a reconciliation may leave it and be answered ok.
Kinds == Journal \union {"diverged"}

NextCommand == [workspace |-> "import", import |-> "sqlserver"]

\* States of a request.  "waiting": on the recovery in progress; "cleared": past
\* it; "queued": chained; "running": its own command is in flight; a Journal:
\* that command of a reconciliation is in flight.
Settled == {"done", "failed"}
InFlight == Journal \union {"running"}
States == {"new", "waiting", "cleared", "queued"} \union InFlight \union Settled

Chained == {t \in Request : state[t] \in {"queued"} \union InFlight}

TypeOK ==
  /\ state \in [Request -> States]
  /\ awaits \in [Request -> SUBSET Request]
  /\ lane \in [Read -> 0 .. Lanes - 1]
  /\ readerBarrier \in Request \union {Nobody}
  /\ readerCursor \in 0 .. Lanes - 1
  /\ recoveryPromise \in Recovery \union {Nobody}
  /\ writerUp \in BOOLEAN
  /\ starts \in Nat /\ reconciledWriterGeneration \in Nat
  /\ recoveryError \in BOOLEAN /\ closed \in BOOLEAN
  /\ journals \subseteq Kinds /\ inherited \subseteq Kinds
  /\ applied \subseteq Write
  /\ behind \in [Read -> SUBSET Write]
  /\ seen \in [Read -> SUBSET Write]
  /\ lostBarrier \in BOOLEAN

\* The pool has been started; nothing is reconciled yet, and whatever ran before
\* may have left journals.
Init ==
  /\ state = [t \in Request |-> "new"]
  /\ awaits = [t \in Request |-> {}]
  /\ lane = [r \in Read |-> 0]
  /\ readerBarrier = Nobody
  /\ readerCursor = 0
  /\ recoveryPromise = Nobody
  /\ writerUp = TRUE /\ starts = 1
  /\ reconciledWriterGeneration = 0 /\ recoveryError = FALSE
  /\ closed = FALSE
  /\ journals = {}
  /\ inherited \in {kinds \in SUBSET Kinds : Cardinality(kinds) <= MaxJournals}
  /\ applied = {}
  /\ behind = [r \in Read |-> {}]
  /\ seen = [r \in Read |-> {}]
  /\ lostBarrier = FALSE

RecoveryReady ==
  /\ writerUp
  /\ reconciledWriterGeneration = starts
  /\ ~recoveryError

-----------------------------------------------------------------------------
(* Settling and chaining.                                                   *)

\* Faulty variant of Settle: the barrier of a writer that fails is not released.
SettleReleasesOnSuccess(S, outcome) ==
  /\ state' = [t \in Request |->
       CASE t \in S -> outcome
         [] t \notin S /\ state[t] = "waiting" /\ recoveryPromise \in S ->
              IF outcome = "done" THEN "cleared" ELSE "failed"
         [] OTHER -> state[t]]
  /\ awaits' = [t \in Request |->
       IF t \in Read /\ outcome = "failed" THEN awaits[t] \ (S \ {readerBarrier}) ELSE awaits[t] \ S]
  /\ readerBarrier' = IF readerBarrier \in S THEN Nobody ELSE readerBarrier
  /\ recoveryPromise' = IF recoveryPromise \in S THEN Nobody ELSE recoveryPromise
  /\ UNCHANGED <<lane, readerCursor>>

\* The promises of the requests in S settle with the outcome.  Everything that
\* waited for them stops waiting; if the recovery in progress is among them,
\* those that awaited it go on, or fail with it.
Settle(S, outcome) ==
  /\ state' = [t \in Request |->
       CASE t \in S -> outcome
         [] t \notin S /\ state[t] = "waiting" /\ recoveryPromise \in S ->
              IF outcome = "done" THEN "cleared" ELSE "failed"
         [] OTHER -> state[t]]
  /\ awaits' = [t \in Request |-> awaits[t] \ S]
  /\ readerBarrier' = IF readerBarrier \in S THEN Nobody ELSE readerBarrier
  /\ recoveryPromise' = IF recoveryPromise \in S THEN Nobody ELSE recoveryPromise
  /\ UNCHANGED <<lane, readerCursor>>

HasRoom == Cardinality(Chained) < MaxQueueDepth

\* Faulty variant of ChainExclusive: without the snapshot of the reader chains.
ChainExclusiveNoSnapshot(t) ==
  /\ awaits' = [awaits EXCEPT ![t] = Chained \ Read]
  /\ readerBarrier' = t

\* enqueueWriterExclusive: behind the writer chain and every reader chain, with
\* a new barrier for the reads to come.
ChainExclusive(t) ==
  /\ awaits' = [awaits EXCEPT ![t] = Chained]
  /\ readerBarrier' = t

\* The barrier is replaced before the capacity is checked.  The new one is
\* released at once; the writer behind the old one may still be waiting or running.
RefuseExclusive ==
  /\ lostBarrier' = (lostBarrier \/ readerBarrier # Nobody)
  /\ readerBarrier' = Nobody

\* Faulty variant of ChainRead: the barrier is not captured.
ChainReadNoBarrier(r) ==
  LET sameLane == {q \in Read \intersect Chained : lane[q] = readerCursor}
  IN  /\ lane' = [lane EXCEPT ![r] = readerCursor]
      /\ readerCursor' = (readerCursor + 1) % Lanes
      /\ awaits' = [awaits EXCEPT ![r] = sameLane]
      /\ behind' = [behind EXCEPT ![r] =
           {w \in Write : state[w] \in {"queued"} \union InFlight \union Settled}]

\* A read chains itself to one reader process, behind the barrier of the moment.
ChainRead(r) ==
  LET sameLane == {q \in Read \intersect Chained : lane[q] = readerCursor}
  IN  /\ lane' = [lane EXCEPT ![r] = readerCursor]
      /\ readerCursor' = (readerCursor + 1) % Lanes
      /\ awaits' = [awaits EXCEPT ![r] = sameLane \union ({readerBarrier} \ {Nobody})]
      /\ behind' = [behind EXCEPT ![r] =
           {w \in Write : state[w] \in {"queued"} \union InFlight \union Settled}]

-----------------------------------------------------------------------------
(* A request arrives: run().                                                *)

\* ensureRecoveryReady, and go on at once.
CallReady(t) ==
  /\ state[t] = "new" /\ t \in Write \union Read
  /\ ~closed /\ RecoveryReady
  /\ state' = [state EXCEPT ![t] = "cleared"]
  /\ UNCHANGED <<chainVars, writerVars, closed, storeVars, historyVars>>

\* ensureRecoveryReady finds a recovery in progress.
CallJoins(t) ==
  /\ state[t] = "new" /\ t \in Write \union Read
  /\ ~closed /\ ~RecoveryReady /\ recoveryPromise # Nobody
  /\ state' = [state EXCEPT ![t] = "waiting"]
  /\ UNCHANGED <<chainVars, writerVars, closed, storeVars, historyVars>>

\* ensureRecoveryReady starts one.
CallRecovers(t, v) ==
  /\ state[t] = "new" /\ t \in Write \union Read
  /\ state[v] = "new"
  /\ ~closed /\ ~RecoveryReady /\ recoveryPromise = Nobody
  /\ IF HasRoom
     THEN /\ state' = [state EXCEPT ![t] = "waiting", ![v] = "queued"]
          /\ ChainExclusive(v)
          /\ recoveryPromise' = v
          /\ UNCHANGED lostBarrier
     ELSE /\ state' = [state EXCEPT ![t] = "failed"]
          /\ RefuseExclusive
          /\ UNCHANGED <<awaits, recoveryPromise>>
  /\ UNCHANGED <<lane, readerCursor, writerVars, closed, storeVars, behind, seen>>

\* A write past the recovery, or an explicit reconciliation, which awaits none.
EnqueueExclusive(t) ==
  /\ \/ t \in Write /\ state[t] = "cleared"
     \/ t \in Reconcile /\ state[t] = "new" /\ ~closed
  /\ IF ~closed /\ HasRoom
     THEN /\ state' = [state EXCEPT ![t] = "queued"]
          /\ ChainExclusive(t)
          /\ UNCHANGED lostBarrier
     ELSE /\ state' = [state EXCEPT ![t] = "failed"]
          /\ RefuseExclusive
          /\ UNCHANGED awaits
  /\ UNCHANGED <<lane, readerCursor, recoveryPromise, writerVars, closed, storeVars, behind, seen>>

EnqueueRead(r) ==
  /\ state[r] = "cleared"
  /\ IF closed \/ ~HasRoom
     THEN /\ state' = [state EXCEPT ![r] = "failed"]
          /\ readerCursor' = (readerCursor + 1) % Lanes
          /\ UNCHANGED <<lane, awaits, behind>>
     ELSE /\ state' = [state EXCEPT ![r] = "queued"]
          /\ ChainRead(r)
  /\ UNCHANGED <<readerBarrier, recoveryPromise, writerVars, closed, storeVars, seen, lostBarrier>>

-----------------------------------------------------------------------------
(* A chained exclusive request at its turn.                                 *)

\* A command goes to the writer process, which is started if there is none.
SendToWriter ==
  /\ writerUp' = TRUE
  /\ starts' = IF writerUp THEN starts ELSE starts + 1
  /\ inherited' = IF writerUp THEN inherited ELSE inherited \union journals
  /\ journals' = IF writerUp THEN journals ELSE {}

AtTurn(t) == state[t] = "queued" /\ awaits[t] = {}

\* Faulty variant of Begin: a write trusts the check made when its request came.
BeginUnchecked(t) ==
  /\ t \in Exclusive /\ AtTurn(t) /\ ~closed
  /\ writerUp \/ starts < MaxStarts
  /\ state' = [state EXCEPT ![t] = IF t \in Recovery THEN "workspace" ELSE "running"]
  /\ SendToWriter
  /\ UNCHANGED <<chainVars, reconciledWriterGeneration, recoveryError, closed, applied, historyVars>>

\* The reader processes confirm invalidate-readers; the task itself starts.  A
\* write first reconciles a writer that is not: the check is made here, not
\* when the request came.
Begin(t) ==
  /\ t \in Exclusive /\ AtTurn(t) /\ ~closed
  /\ writerUp \/ starts < MaxStarts
  /\ state' = [state EXCEPT ![t] =
       IF t \in Recovery \/ (t \in Write /\ ~RecoveryReady) THEN "workspace" ELSE "running"]
  /\ SendToWriter
  /\ UNCHANGED <<chainVars, reconciledWriterGeneration, recoveryError, closed, applied, historyVars>>

\* A reader process does not confirm it (or the pool is closed and none will).
InvalidationFails(t) ==
  /\ t \in Exclusive /\ AtTurn(t)
  /\ Settle({t}, "failed")
  /\ UNCHANGED <<writerVars, closed, storeVars, historyVars>>

CloseJournals(kinds) ==
  /\ journals' = journals \ kinds
  /\ inherited' = inherited \ kinds

\* A reconciliation command is answered ok with nothing left to attend to: its
\* journals are closed, and the next command is sent or the generation recorded.
ReconcileStepOk(t) ==
  /\ state[t] \in Journal
  /\ CloseJournals({state[t]})
  /\ IF state[t] # "sqlserver"
     THEN /\ state' = [state EXCEPT ![t] = NextCommand[state[t]]]
          /\ UNCHANGED <<chainVars, reconciledWriterGeneration, recoveryError>>
     ELSE /\ reconciledWriterGeneration' = starts
          /\ recoveryError' = FALSE
          /\ IF t \in Write
             THEN /\ state' = [state EXCEPT ![t] = "running"]
                  /\ UNCHANGED chainVars
             ELSE Settle({t}, "done")
  /\ UNCHANGED <<writerUp, starts, closed, applied, historyVars>>

\* The explicit command itself is answered: for one workspace or, with --all, for
\* every one.  The first is followed by the --all form.
ExplicitAnswered(c) ==
  /\ c \in Reconcile /\ state[c] = "running"
  /\ \/ state' = [state EXCEPT ![c] = "workspace"] /\ UNCHANGED journalVars
     \/ state' = [state EXCEPT ![c] = "import"] /\ CloseJournals({"workspace"})
  /\ UNCHANGED <<chainVars, writerVars, closed, applied, historyVars>>

\* A reconciliation command is answered, not ok or with something to attend to.
ReconcileStepRefused(t) ==
  /\ state[t] \in Journal \/ (t \in Reconcile /\ state[t] = "running")
  /\ recoveryError' = TRUE
  /\ Settle({t}, "failed")
  /\ UNCHANGED <<writerUp, starts, reconciledWriterGeneration, closed, storeVars, historyVars>>

\* The effect of a write reaches the store; its answer comes later.
Apply(w) ==
  /\ w \in Write /\ state[w] = "running" /\ w \notin applied
  /\ applied' = applied \union {w}
  /\ UNCHANGED <<state, chainVars, writerVars, closed, journalVars, historyVars>>

\* A write is answered, whether or not it did anything: a handler that raised is
\* answered too, by a process that lives on, and leaves open what it had open.
WriteAnswered(w) ==
  /\ w \in Write /\ state[w] = "running"
  /\ Settle({w}, "done")
  /\ UNCHANGED <<writerVars, closed, storeVars, historyVars>>

\* The process dies under a command of t: it crashes, exceeds its deadline and is
\* killed, or breaks the protocol and is killed.  What it had open stays open.
WriterDies(t) ==
  /\ t \in Exclusive /\ state[t] \in InFlight
  /\ writerUp' = FALSE
  /\ recoveryError' = (recoveryError \/ state[t] \in Journal \/ t \in Reconcile)
  /\ Settle({t}, "failed")
  /\ UNCHANGED <<starts, reconciledWriterGeneration, closed, storeVars, historyVars>>

\* The process dies with nothing to do.
WriterDiesIdle ==
  /\ writerUp /\ ~closed
  /\ \A t \in Exclusive : state[t] \notin InFlight
  /\ writerUp' = FALSE
  /\ UNCHANGED <<state, chainVars, starts, reconciledWriterGeneration, recoveryError,
                 closed, storeVars, historyVars>>

-----------------------------------------------------------------------------
(* A chained read at its turn.                                              *)

BeginRead(r) ==
  /\ r \in Read /\ AtTurn(r) /\ RecoveryReady /\ ~closed
  /\ state' = [state EXCEPT ![r] = "running"]
  /\ UNCHANGED <<chainVars, writerVars, closed, storeVars, historyVars>>

\* The writer is not reconciled any more, or the pool is closed.
ReadRefused(r) ==
  /\ r \in Read /\ AtTurn(r) /\ (~RecoveryReady \/ closed)
  /\ Settle({r}, "failed")
  /\ UNCHANGED <<writerVars, closed, storeVars, historyVars>>

ReadAnswered(r) ==
  /\ r \in Read /\ state[r] = "running"
  /\ seen' = [seen EXCEPT ![r] = applied]
  /\ Settle({r}, "done")
  /\ UNCHANGED <<writerVars, closed, storeVars, behind, lostBarrier>>

\* The reader process dies under it or is killed at its deadline.
ReaderDies(r) ==
  /\ r \in Read /\ state[r] = "running"
  /\ Settle({r}, "failed")
  /\ UNCHANGED <<writerVars, closed, storeVars, historyVars>>

-----------------------------------------------------------------------------
\* shutdown(): every request in flight is rejected, the processes end, what is
\* still chained fails at its turn.
Shutdown ==
  /\ ~closed
  /\ closed' = TRUE
  /\ writerUp' = FALSE
  /\ recoveryError' = FALSE
  /\ \E more \in SUBSET {w \in Write : state[w] = "running"} : applied' = applied \union more
  /\ Settle({t \in Request : state[t] \in InFlight}, "failed")
  /\ UNCHANGED <<starts, reconciledWriterGeneration, journalVars, historyVars>>

-----------------------------------------------------------------------------
(* The store beside the pool.                                               *)

\* The write that runs, an import worker or a command line opens a journal.
JournalOpens ==
  /\ ~closed
  /\ Cardinality(journals \union inherited) < MaxJournals
  /\ \E kind \in Kinds \ journals : journals' = journals \union {kind}
  /\ UNCHANGED <<state, chainVars, writerVars, closed, inherited, applied, historyVars>>

\* Its owner finishes it, or a command line reconciles it.
JournalCloses ==
  /\ ~closed
  /\ \E kind \in journals \union inherited : CloseJournals({kind})
  /\ UNCHANGED <<state, chainVars, writerVars, closed, applied, historyVars>>

Call(t) == \/ CallReady(t) \/ CallJoins(t) \/ \E v \in Recovery : CallRecovers(t, v)

Enqueue(t) == (t \in Read /\ EnqueueRead(t)) \/ EnqueueExclusive(t)

\* The next thing that happens to a request the pool has accepted.
Advance(t) ==
  \/ Begin(t) \/ InvalidationFails(t)
  \/ ReconcileStepOk(t) \/ ReconcileStepRefused(t) \/ ExplicitAnswered(t)
  \/ WriteAnswered(t) \/ WriterDies(t)
  \/ BeginRead(t) \/ ReadRefused(t) \/ ReadAnswered(t) \/ ReaderDies(t)

Next ==
  \/ \E t \in Request : Call(t) \/ Enqueue(t) \/ Advance(t)
  \/ \E w \in Write : Apply(w)
  \/ WriterDiesIdle
  \/ JournalOpens \/ JournalCloses
  \/ Shutdown

\* Every command has a timer, so one way or another it ends; a settled promise
\* runs what was chained to it.  Nothing makes an owner call.
Spec == Init /\ [][Next]_vars
           /\ \A t \in Request : WF_vars(Advance(t)) /\ WF_vars(state[t] = "cleared" /\ Enqueue(t))

-----------------------------------------------------------------------------
\* While a command of the writer is in flight no reader process works on the
\* store, unless a refused request has replaced a barrier.
WriterExcludesReaders ==
  \A x \in Exclusive, r \in Read : state[x] \in InFlight => state[r] # "running"

ReadersExcludeWriter == ~lostBarrier => WriterExcludesReaders

\* One command at a time reaches the writer.
OneWriterCommand ==
  \A t, u \in Exclusive : state[t] \in InFlight /\ state[u] \in InFlight => t = u

\* Health reports a recovered pool, or a command works on the store as if it were
\* (a read only while no barrier is lost).
StoreTrusted ==
  \/ RecoveryReady
  \/ \E w \in Write : state[w] = "running"
  \/ ~lostBarrier /\ \E r \in Read : state[r] = "running"

\* A store that is trusted has nothing left open, but what no reconciliation can
\* decide, of all that was open when the writer process of the moment was started.
\* Of what is opened later, by the same process, a worker or a command line, the
\* pool knows nothing.
ReadyMeansReconciled == StoreTrusted => inherited \subseteq {"diverged"}

\* A read shows the writes chained before it that took effect, and none chained
\* after it, however requests, deaths and recoveries interleave.
ReadsKeepTheOrder ==
  ~lostBarrier => \A r \in Read : state[r] = "done" => seen[r] = applied \intersect behind[r]

\* A request the pool has taken is answered: barriers, chains and recoveries
\* never wait on one another in a circle, shutdown included.
EveryRequestEnds ==
  \A t \in Request : state[t] \in {"waiting", "cleared", "queued"} ~> state[t] \in Settled

-----------------------------------------------------------------------------
(* The inductive invariant behind the four.                                 *)

WriterChain == Exclusive \intersect Chained

\* Only chained requests are waited for, and a command in flight waits for none.
WaitsAreChained ==
  /\ \A t \in Request : awaits[t] \subseteq Chained
  /\ \A t \in Request : state[t] \in InFlight => awaits[t] = {}
  /\ \A r \in Read : state[r] \notin Journal

\* The writer chain is a chain: of two in it, one waits for the other.
WriterChainOrdered ==
  \A t, u \in WriterChain : t = u \/ t \in awaits[u] \/ u \in awaits[t]

\* The barrier belongs to the last request of the writer chain, and only a lost
\* barrier leaves the chain without one.
BarrierIsLast ==
  /\ readerBarrier # Nobody =>
       /\ readerBarrier \in WriterChain
       /\ \A u \in WriterChain : u = readerBarrier \/ u \in awaits[readerBarrier]
  /\ readerBarrier = Nobody /\ ~lostBarrier => WriterChain = {}

\* Of a read and a writer request in their chains one waits for the other,
\* directly or through the barrier of a later writer request.
ReadsAndWritersOrdered ==
  ~lostBarrier =>
    \A r \in Read \intersect Chained, x \in WriterChain :
      \/ r \in awaits[x]
      \/ x \in awaits[r]
      \/ \E b \in awaits[r] \intersect Exclusive : x \in awaits[b]

\* What a stage of a reconciliation has closed of the inheritance stays closed
\* while it goes on, and a command in flight has a process.
StagesClose ==
  /\ \A x \in Exclusive :
       /\ state[x] \in InFlight => writerUp
       /\ state[x] \in {"import", "sqlserver"} => "workspace" \notin inherited
       /\ state[x] = "sqlserver" => "import" \notin inherited
  /\ reconciledWriterGeneration <= starts

\* The writes behind which a read was chained have been chained before it; the
\* others wait for it while it is chained, and have had no effect.
BehindIsBefore ==
  \A r \in Read, w \in Write :
    /\ w \in behind[r] => /\ state[w] \in {"queued"} \union InFlight \union Settled
                          /\ r \notin awaits[w]
    /\ r \in Chained /\ w \notin behind[r] =>
         /\ w \notin applied
         /\ \/ state[w] \in {"new", "waiting", "cleared", "failed"}
            \/ r \in awaits[w]
    /\ w \in applied => state[w] \in InFlight \union Settled

\* An answered read has outlived every write it was chained behind.
AnsweredAfterBehind ==
  ~lostBarrier =>
    \A r \in Read, w \in Write :
      state[r] = "done" /\ w \in behind[r] => state[w] \in Settled

IInv ==
  /\ TypeOK
  /\ WaitsAreChained
  /\ WriterChainOrdered
  /\ BarrierIsLast
  /\ ReadsAndWritersOrdered
  /\ StagesClose
  /\ ReadyMeansReconciled
  /\ BehindIsBefore
  /\ AnsweredAfterBehind
  /\ ReadsKeepTheOrder
=============================================================================
