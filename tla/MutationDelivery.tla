-------------------------- MODULE MutationDelivery --------------------------
(***************************************************************************)
(* One POST of the browser from fetchJsonStrict (src/apiClient) to the     *)
(* handler of the gateway (server/index.ts) and back.  The browser keeps   *)
(* an idempotency key per body in session storage until an answer is       *)
(* parsed, and the gateway an entry per key with the answer it gave.       *)
(* Queries are POSTs too, and take the same way.                           *)
(*                                                                         *)
(* A call is one fetch; a key is named by the call that drew it, the       *)
(* runtime token by the life of the gateway that issued it.  A body stands *)
(* for its fingerprint, so no key comes with two bodies.  A request the    *)
(* network loses is one that never arrives.  A user who repeats an action  *)
(* waits for the last call of it to end: the page shows it as busy.        *)
(***************************************************************************)
EXTENDS Naturals, Sequences, FiniteSets

CONSTANTS
  Body,
  Change,       \* bodies that change the data; the others read them
  MaxCalls,     \* bound on fetches
  MaxFailures,  \* bound on what fails: the network, handlers, gateways, pages
  MaxEntries,   \* IDEMPOTENCY_MAX_ENTRIES
  Refused,      \* an answer without a result
  None

ASSUME DeliveryAssumption ==
  /\ Change \subseteq Body
  /\ MaxCalls \in Nat /\ MaxFailures \in Nat /\ MaxEntries \in Nat \ {0}
  /\ {None, Refused} \intersect (0 .. MaxCalls) = {} /\ None # Refused

VARIABLES
  pending,    \* aibi.pendingMutations: the key of each body
  token,      \* runtimeTokenPromise of the page
  calls,
  life,       \* of the gateway
  entries,    \* idempotencyEntries, in order of insertion
  version,    \* of the data
  failures,
  forgotten   \* keys whose entry a gateway has dropped (history)

browserVars == <<pending, token>>
gatewayVars == <<life, entries, forgotten>>
deliveryVars == <<browserVars, calls, gatewayVars, version, failures>>

Call == 1 .. MaxCalls
Version == 0 .. MaxCalls
Answer == [version : Version, from : Call]

\* client: open until it is answered or given up, by the network or an abort.
\* server: where the request is.  answer: on its way to the browser.  effect: the
\* call changed the data (history).
CallRecord ==
  [body : Body, key : Call, token : 0 .. MaxFailures,
   client : {"open", "gone", "answered"},
   server : {"none", "running", "waiting", "over"},
   answer : Answer \union {None, Refused},
   effect : BOOLEAN]

Entry == [key : Call, answer : Answer \union {None, Refused}]

DeliveryTypeOK ==
  /\ pending \in [Body -> Call \union {None}]
  /\ token \in 0 .. MaxFailures \union {None}
  /\ calls \in Seq(CallRecord) /\ Len(calls) <= MaxCalls
  /\ life \in 0 .. MaxFailures
  /\ entries \in Seq(Entry) /\ Len(entries) <= MaxEntries
  /\ version \in Version /\ failures \in 0 .. MaxFailures
  /\ forgotten \subseteq Call

Made == DOMAIN calls
Of(b) == {c \in Made : calls[c].body = b}

DeliveryInit ==
  /\ pending = [b \in Body |-> None]
  /\ token = None
  /\ calls = <<>>
  /\ life = 0
  /\ entries = <<>>
  /\ version = 0 /\ failures = 0
  /\ forgotten = {}

Fails == failures < MaxFailures /\ failures' = failures + 1

-----------------------------------------------------------------------------
(* The browser *)

\* Faulty variant of Started: a new key for every fetch.
StartedAnew(before, b) ==
  LET c == Len(before) + 1
      held == IF token = None THEN life ELSE token
  IN  /\ c <= MaxCalls
      /\ pending' = [pending EXCEPT ![b] = c]
      /\ token' = held
      /\ calls' = Append(before, [body |-> b, key |-> c, token |-> held,
                                 client |-> "open", server |-> "none", effect |-> FALSE,
                                 answer |-> None])

\* idempotencyKey, runtimeToken and the fetch, after the calls before it.
Started(before, b) ==
  LET c == Len(before) + 1
      key == IF pending[b] = None THEN c ELSE pending[b]
      held == IF token = None THEN life ELSE token
  IN  /\ c <= MaxCalls
      /\ pending' = [pending EXCEPT ![b] = key]
      /\ token' = held
      /\ calls' = Append(before, [body |-> b, key |-> key, token |-> held,
                                 client |-> "open", server |-> "none", effect |-> FALSE,
                                 answer |-> None])

\* The user confirms a change, or repeats one whose answer got lost.
Confirm(b) ==
  /\ b \in Change
  /\ \A c \in Of(b) : calls[c].client # "open"
  /\ Started(calls, b)
  /\ UNCHANGED <<gatewayVars, version, failures>>

\* An answer is parsed: clearPendingMutation, whatever key is pending.
Parsed(c) ==
  /\ calls[c].client = "open"
  /\ calls[c].answer # None
  /\ calls' = [calls EXCEPT ![c].client = "answered", ![c].answer = None]
  /\ pending' = [pending EXCEPT ![calls[c].body] = None]
  /\ UNCHANGED <<token, gatewayVars, version, failures>>

\* The network fails, the answer is no JSON, or the signal aborts: the key stays.
GivenUp(C) == [c \in Made |-> IF c \in C /\ calls[c].client = "open"
                              THEN [calls[c] EXCEPT !.client = "gone", !.answer = None]
                              ELSE calls[c]]

-----------------------------------------------------------------------------
(* The gateway *)

Sent(c, answer) == IF calls[c].client = "open" THEN answer ELSE None

Elements(es) == {es[i] : i \in DOMAIN es}
Keys(es) == {e.key : e \in Elements(es)}

\* The entries of es that are in E, in their order.
Among(es, E) ==
  LET upTo[i \in 0 .. Len(es)] ==
        IF i = 0 THEN <<>>
        ELSE IF es[i] \in E THEN Append(upTo[i - 1], es[i]) ELSE upTo[i - 1]
  IN  upTo[Len(es)]

Keeping(es, keys) == Among(es, {e \in Elements(es) : e.key \in keys})
Completed(es) == Among(es, {e \in Elements(es) : e.answer # None})

\* expireIdempotencyEntries: completed entries go a quarter of an hour later,
\* looked at when a call arrives.
Expirations == SUBSET Keys(Completed(entries))

\* reclaimCompletedIdempotencyEntries: the oldest completed, until one fits.
Reclaimed(es) ==
  IF Len(es) >= MaxEntries /\ Completed(es) # <<>> THEN {Completed(es)[1].key} ELSE {}

\* apiBoundaryFailure and handleIdempotentMutation up to its task.
Arrive(c) ==
  LET key == calls[c].key
      At(stage, answer) ==
        calls' = [calls EXCEPT ![c].server = stage, ![c].answer = Sent(c, answer)]
      Kept(es) == entries' = es /\ forgotten' = forgotten \union (Keys(entries) \ Keys(es))
      Turned == calls[c].token # life /\ At("over", Refused) /\ Kept(entries)
      Joined(es) ==
        \E e \in Elements(es) :
          /\ e.key = key
          /\ IF e.answer = None THEN At("waiting", None) ELSE At("over", e.answer)
          /\ Kept(es)
      Begun(es) ==
        /\ key \notin Keys(es)
        /\ LET left == Keeping(es, Keys(es) \ Reclaimed(es))
           IN  IF Len(left) >= MaxEntries
               THEN At("over", Refused) /\ Kept(left)
               ELSE /\ At("running", None)
                    /\ entries' = Append(left, [key |-> key, answer |-> None])
                    /\ forgotten' = forgotten \union (Keys(entries) \ Keys(left))
  IN  /\ calls[c].server = "none"
      /\ \/ Turned
         \/ /\ calls[c].token = life
            /\ \E expired \in Expirations :
                 LET es == Keeping(entries, Keys(entries) \ expired)
                 IN  Joined(es) \/ Begun(es)
      /\ UNCHANGED <<browserVars, life, version, failures>>

Changes(C) == {c \in C : calls[c].body \in Change}

\* The commands of done take effect.  c and those that wait for its entry are
\* answered, if there is one to answer.
Ended(over, done, answer) ==
  /\ version' = version + Cardinality(Changes(done))
  /\ calls' = [d \in Made |->
                 [calls[d] EXCEPT
                    !.server = IF d \in over THEN "over" ELSE @,
                    !.answer = IF d \in over THEN Sent(d, answer) ELSE @,
                    !.effect = @ \/ d \in Changes(done)]]

With(c) == {c} \union {d \in Made : calls[d].server = "waiting" /\ calls[d].key = calls[c].key}

\* The command of the handler did what it was asked to, or refused; the response
\* is captured, for those that wait and those that will come.
Respond(c) ==
  \E done \in {{}, {c}} :
    LET answer == IF done = {} THEN Refused
                  ELSE [version |-> version + Cardinality(Changes({c})), from |-> c]
    IN  /\ calls[c].server = "running"
        /\ Ended(With(c), done, answer)
        /\ entries' = [i \in DOMAIN entries |->
                         IF entries[i].key = calls[c].key
                         THEN [entries[i] EXCEPT !.answer = answer] ELSE entries[i]]
        /\ UNCHANGED <<browserVars, life, forgotten, failures>>

\* The handler throws, after its command took effect or before: a deadline, a
\* writer that died.  The answer is sent outside the capture.
Throw(c) ==
  /\ Fails
  /\ calls[c].server = "running"
  /\ \E done \in {{}, {c}} : Ended(With(c), done, Refused)
  /\ entries' = Keeping(entries, Keys(entries) \ {calls[c].key})
  /\ forgotten' = forgotten \union {calls[c].key}
  /\ UNCHANGED <<browserVars, life>>

\* The gateway dies and starts again: its requests, its entries and its token
\* are gone.
Restart ==
  LET At(stages) == {c \in Made : calls[c].server \in stages}
  IN  /\ Fails
      /\ life' = life + 1
      /\ \E done \in SUBSET At({"running"}) : Ended(At({"running", "waiting"}), done, None)
      /\ entries' = <<>>
      /\ forgotten' = forgotten \union Keys(entries)
      /\ UNCHANGED browserVars

GatewayStep ==
  \/ \E c \in Made : Arrive(c) \/ Respond(c) \/ Throw(c)
  \/ Restart

-----------------------------------------------------------------------------

\* d repeats the action of c: no call in between was answered.
Repeats(d, c) ==
  /\ c < d
  /\ \A e \in Of(calls[d].body) : c <= e /\ e < d => calls[e].client = "gone"

\* Of the calls of one action of the user, repeated until one is answered, one
\* takes effect, unless a gateway forgot their key in between:
\* docs/PRD.md:109.
OncePerIntent ==
  \A c, d \in Made :
    calls[d].body = calls[c].body /\ Repeats(d, c) /\ calls[c].effect /\ calls[d].effect
      => calls[c].key \in forgotten

-----------------------------------------------------------------------------
(* The invariant OncePerIntent rests on *)

\* What is in the fields the properties look at: without the bounds.
DeliveryTyped ==
  /\ calls \in Seq([body : Body, key : Call, token : Nat,
                    client : {"open", "gone", "answered"},
                    server : {"none", "running", "waiting", "over"},
                    answer : [version : Nat, from : Nat] \union {None, Refused},
                    effect : BOOLEAN])
  /\ pending \in [Body -> Call \union {None}]
  /\ entries \in Seq([key : Call, answer : [version : Nat, from : Nat] \union {None, Refused}])
  /\ token \in Nat \union {None} /\ life \in Nat /\ version \in Nat

\* Only the last call of a body can be open.
LastIsOpen ==
  \A c \in Made : calls[c].client = "open" => \A d \in Of(calls[c].body) : d <= c

\* Until an answer is parsed the key stays pending, so every repetition has it.
KeyStays ==
  \A c \in Made :
    (\A e \in Of(calls[c].body) : c <= e => calls[e].client # "answered")
      => pending[calls[c].body] = calls[c].key

RepetitionsShareKeys ==
  \A c, d \in Made :
    calls[d].body = calls[c].body /\ Repeats(d, c) => calls[d].key = calls[c].key

\* The table has one entry per key, without an answer while its handler runs.
OneEntryPerKey ==
  \A e, f \in Elements(entries) : e.key = f.key => e = f

RunningHasEntry ==
  \A c \in Made : calls[c].server = "running" =>
    /\ [key |-> calls[c].key, answer |-> None] \in Elements(entries)
    /\ \A d \in Made : calls[d].server = "running" /\ calls[d].key = calls[c].key => d = c

\* What has taken effect is known by its key, or forgotten; and while it is
\* known, nobody else runs or has taken effect under that key.
EffectIsKnown ==
  \A c \in Made : calls[c].effect =>
    /\ calls[c].server \notin {"none", "running"}
    /\ calls[c].key \in Keys(entries) \union forgotten
    /\ \A d \in Made \ {c} :
         calls[d].key = calls[c].key /\ (calls[d].server = "running" \/ calls[d].effect)
           => calls[c].key \in forgotten

DeliveryInv ==
  /\ DeliveryTyped /\ LastIsOpen /\ KeyStays /\ RepetitionsShareKeys
  /\ OneEntryPerKey /\ RunningHasEntry /\ EffectIsKnown
=============================================================================
