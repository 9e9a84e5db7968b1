--------------------------- MODULE TableQueryCache --------------------------
(***************************************************************************)
(* The widgets of a dashboard and the cache their queries go through       *)
(* (src/dashboardWidgetQueryRuntime), over the delivery of a POST.  The    *)
(* plans subscribed to in one tick travel in one batch, which reads one    *)
(* snapshot.  A change is confirmed in the same page; once its answer is   *)
(* there the cache is invalidated and the workbench fetched again.         *)
(*                                                                         *)
(* All plans query one table of one workspace, whose version stands for    *)
(* the result.  Whatever renders a card (a page, a filter, the workbench   *)
(* fetched anew) renders them all: only the last batch has subscribers.    *)
(* So what orders the results of several is left out (observedAt).  The    *)
(* generation in a cache key is the version the workbench shows: answers   *)
(* of the workbench are not ordered, so any version there has been.        *)
(***************************************************************************)
EXTENDS MutationDelivery, Functions

CONSTANTS Widget, Plan

Batch == (SUBSET Plan) \ {{}}

ASSUME CacheAssumption == Change \intersect Batch = {} /\ Body = Change \union Batch

VARIABLES
  generation,     \* of the workbench shown
  settled,        \* settledTableQueries
  widget,         \* what each widget shows
  owed,           \* versions of answered changes whose invalidation is outstanding
  acknowledged    \* version the cache was last invalidated for (history)

cacheVars == <<generation, settled, widget, owed, acknowledged>>
vars == <<deliveryVars, cacheVars>>

\* replayed: the answer is that of an earlier call (history).
Result == [version : Version, replayed : BOOLEAN]

\* call: the batch a loading widget waits for.  One whose query was aborted goes on
\* loading and waits for nothing.
\* floor: acknowledged when the widget subscribed (history).
Card ==
  [shows : {"hidden", "loading", "ready", "error"}, plan : Plan \union {None},
   call : Call \union {None}, result : Result \union {None}, floor : Version]
Hidden == [shows |-> "hidden", plan |-> None, call |-> None, result |-> None, floor |-> 0]

SettledQuery == [plan : Plan, generation : Version, result : Result]

TypeOK ==
  /\ DeliveryTypeOK
  /\ generation \in Version /\ acknowledged \in Version
  /\ settled \subseteq SettledQuery
  /\ widget \in [Widget -> Card]
  /\ owed \subseteq Version

Init ==
  /\ DeliveryInit
  /\ generation = 0 /\ acknowledged = 0
  /\ settled = {}
  /\ widget = [w \in Widget |-> Hidden]
  /\ owed = {}

-----------------------------------------------------------------------------
(* Widgets *)

Batches == {c \in Made : calls[c].body \in Batch}

\* The promises ws wait for are settled with an error.  They show it, unless it is
\* an AbortError.
Rejected(ws, shows) ==
  [w \in Widget |-> IF w \in ws THEN [widget[w] EXCEPT !.shows = shows, !.call = None]
                    ELSE widget[w]]

Subscribers(c) == {w \in Widget : widget[w].call = c}

\* Every widget is released, which aborts the batch, and those of plans subscribe:
\* to a cached result, or to a query in a new batch.  kept is what evictExpired and
\* the bound of 64 results leave.
Render(plans, g, kept) ==
  LET cached(p) == {s \in kept : s.plan = p /\ s.generation = g}
      new == {p \in Range(plans) : cached(p) = {}}
      Subscribed(p) ==
        [shows |-> IF p \in new THEN "loading" ELSE "ready", plan |-> p,
         call |-> IF p \in new THEN Len(calls) + 1 ELSE None,
         result |-> IF p \in new THEN None ELSE (CHOOSE s \in cached(p) : TRUE).result,
         floor |-> acknowledged]
  IN  /\ generation' = g
      /\ settled' = kept
      /\ widget' = [w \in Widget |-> IF w \in DOMAIN plans THEN Subscribed(plans[w]) ELSE Hidden]
      /\ IF new = {}
         THEN calls' = GivenUp(Batches) /\ UNCHANGED browserVars
         ELSE Started(GivenUp(Batches), new)
      /\ UNCHANGED <<gatewayVars, version, failures, owed, acknowledged>>

\* storeSettledResult for each plan of good: results of another version leave.
Stored(good, result) ==
  IF good = {} THEN settled
  ELSE {s \in settled : /\ s.result.version = result.version
                        /\ s.plan \notin good \/ s.generation # generation}
       \union {[plan |-> p, generation |-> generation, result |-> result] : p \in good}

\* A batch is answered, for the plans of good with a result.
BatchAnswered(c) ==
  LET answer == calls[c].answer
      result == [version |-> answer.version, replayed |-> answer.from # c]
  IN  /\ c \in Batches
      /\ answer \notin {None, Refused}
      /\ Parsed(c)
      /\ \E good \in SUBSET calls[c].body :
           /\ widget' = [w \in Widget |->
                IF w \in Subscribers(c) /\ widget[w].plan \in good
                THEN [widget[w] EXCEPT !.shows = "ready", !.call = None, !.result = result]
                ELSE Rejected(Subscribers(c), "error")[w]]
           /\ settled' = Stored(good, result)
      /\ UNCHANGED <<generation, owed, acknowledged>>

BatchFailed(c) ==
  /\ c \in Batches
  /\ calls[c].answer = Refused
  /\ Parsed(c)
  /\ widget' = Rejected(Subscribers(c), "error")
  /\ UNCHANGED <<generation, settled, owed, acknowledged>>

\* The network fails a call.
Lose(c) ==
  /\ Fails
  /\ calls[c].client = "open"
  /\ calls' = GivenUp({c})
  /\ widget' = Rejected(Subscribers(c), "error")
  /\ UNCHANGED <<browserVars, gatewayVars, version, generation, settled, owed, acknowledged>>

-----------------------------------------------------------------------------
(* Changes *)

ChangeAnswered(c) ==
  /\ calls[c].body \in Change
  /\ Parsed(c)
  /\ owed' = IF calls[c].answer = Refused THEN owed ELSE owed \union {calls[c].answer.version}
  /\ UNCHANGED <<generation, settled, widget, acknowledged>>

\* Faulty variant of Cleared: the batch is aborted, and the results stay.
ClearedBatch ==
  /\ UNCHANGED settled
  /\ calls' = GivenUp(Batches)
  /\ widget' = Rejected({w \in Widget : widget[w].call # None}, "loading")
  /\ UNCHANGED <<browserVars, gatewayVars, version, failures, generation>>

\* Every result is dropped and the batch aborted; the widgets that wait for it go
\* on loading.
Cleared ==
  /\ settled' = {}
  /\ calls' = GivenUp(Batches)
  /\ widget' = Rejected({w \in Widget : widget[w].call # None}, "loading")
  /\ UNCHANGED <<browserVars, gatewayVars, version, failures, generation>>

\* invalidateTableQueryCache of the table, once the change is known.
Invalidate(v) ==
  /\ v \in owed
  /\ Cleared
  /\ owed' = owed \ {v}
  /\ acknowledged' = IF v > acknowledged THEN v ELSE acknowledged

\* resetTableQueryRuntime, before another workspace is selected or made.
LeaveWorkspace ==
  /\ Cleared
  /\ UNCHANGED <<owed, acknowledged>>

\* The page is loaded anew; session storage survives.
Reload ==
  /\ Fails
  /\ calls' = GivenUp(Made)
  /\ token' = None
  /\ settled' = {} /\ owed' = {}
  /\ generation' = version
  /\ widget' = [w \in Widget |-> Hidden]
  /\ UNCHANGED <<gatewayVars, version, pending, acknowledged>>

BrowserStep ==
  \/ \E b \in Change : Confirm(b) /\ UNCHANGED cacheVars
  \/ \E mounted \in SUBSET Widget, g \in 0 .. version, kept \in SUBSET settled :
       \E plans \in [mounted -> Plan] : Render(plans, g, kept)
  \/ \E c \in Made : BatchAnswered(c) \/ BatchFailed(c) \/ ChangeAnswered(c) \/ Lose(c)
  \/ \E v \in owed : Invalidate(v)
  \/ LeaveWorkspace
  \/ Reload

Next == BrowserStep \/ (GatewayStep /\ UNCHANGED cacheVars)

Spec == Init /\ [][Next]_vars

-----------------------------------------------------------------------------

\* A widget shows data at least as new as the change the cache was invalidated
\* for before it subscribed, unless the gateway replayed the answer of a query
\* given up earlier: invalidateTableQueryCache.
ShownIsAcknowledged ==
  \A w \in Widget :
    widget[w].shows = "ready" /\ ~widget[w].result.replayed
      => widget[w].result.version >= widget[w].floor

-----------------------------------------------------------------------------
(* The invariant it rests on *)

CacheTyped ==
  /\ generation \in Nat /\ acknowledged \in Nat /\ owed \subseteq Nat
  /\ settled \subseteq [plan : Plan, generation : Nat, result : [version : Nat, replayed : BOOLEAN]]
  /\ widget \in [Widget ->
       [shows : {"hidden", "loading", "ready", "error"}, plan : Plan \union {None},
        call : Nat \union {None}, result : [version : Nat, replayed : BOOLEAN] \union {None},
        floor : Nat]]

\* Nobody has heard of a version there has not been.
KnownVersions ==
  /\ acknowledged <= version /\ \A v \in owed : v <= version
  /\ \A c \in Made : calls[c].answer \notin {None, Refused} => calls[c].answer.version <= version
  /\ \A e \in Elements(entries) :
       e.answer \notin {None, Refused} => e.answer.version <= version

\* An answer in the table is that of a call whose handler is over.
AnswersOfEnded ==
  \A e \in Elements(entries) : e.answer \notin {None, Refused} =>
    e.answer.from \in Made /\ calls[e.answer.from].server = "over"

\* A batch that is still awaited was begun after the last invalidation.
AwaitedIsAcknowledged ==
  \A c \in Batches :
    /\ calls[c].client = "open" /\ calls[c].answer \notin {None, Refused}
    /\ calls[c].answer.from = c
    => calls[c].answer.version >= acknowledged

SettledIsAcknowledged ==
  \A s \in settled : s.result.replayed \/ s.result.version >= acknowledged

\* A card that is ready has a result, and asked for one after some invalidation.
CardsStand ==
  \A w \in Widget :
    /\ widget[w].floor <= acknowledged
    /\ widget[w].shows = "ready" => widget[w].result \in [version : Nat, replayed : BOOLEAN]

IInv ==
  /\ DeliveryInv /\ CacheTyped /\ KnownVersions /\ AnswersOfEnded /\ AwaitedIsAcknowledged
  /\ SettledIsAcknowledged /\ CardsStand /\ ShownIsAcknowledged
=============================================================================
