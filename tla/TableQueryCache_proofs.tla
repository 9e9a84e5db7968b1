----------------------- MODULE TableQueryCache_proofs -----------------------
(* MutationDelivery and TableQueryCache for any number of calls, failures,  *)
(* widgets and plans: IInv is inductive, and with it a change repeated      *)
(* until it is answered takes effect once, and no widget shows data older   *)
(* than the change it was told of.                                          *)
EXTENDS TableQueryCache, FiniteSetTheorems, SequenceTheorems, WellFoundedInduction, TLAPS

-----------------------------------------------------------------------------
(* The table of answers: what is left of a sequence                         *)

\* Induction over the naturals, for a set of them.
LEMMA InductiveSet ==
  ASSUME NEW T, 0 \in T, \A n \in Nat : n \in T => n + 1 \in T
  PROVE  Nat \subseteq T
<1> DEFINE Out == Nat \ T
<1> SUFFICES ASSUME Out # {} PROVE FALSE
  OBVIOUS
<1>1. PICK n \in Out : \A m \in Out : <<m, n>> \notin OpToRel(<, Nat)
  BY NatLessThanWellFounded, WFMin
<1>2. n - 1 \in Out
  OBVIOUS
<1>3. <<n - 1, n>> \in Nat \X Nat /\ <<n - 1, n>>[1] < <<n - 1, n>>[2]
  BY <1>2
<1>4. <<n - 1, n>> \in OpToRel(<, Nat)
  BY <1>3, Zenon DEF OpToRel
<1> QED
  BY <1>1, <1>2, <1>4, Zenon

LEMMA AppendElements ==
  ASSUME NEW S, NEW s \in Seq(S), NEW x \in S
  PROVE  Append(s, x) \in Seq(S) /\ Elements(Append(s, x)) = Elements(s) \union {x}
<1>1. Append(s, x) \in Seq(S) /\ Len(Append(s, x)) = Len(s) + 1
  OBVIOUS
<1>2. \A i \in 1 .. Len(s) + 1 : Append(s, x)[i] = IF i = Len(s) + 1 THEN x ELSE s[i]
  OBVIOUS
<1>3. DOMAIN s = 1 .. Len(s) /\ DOMAIN Append(s, x) = 1 .. Len(s) + 1 /\ Len(s) \in Nat
  BY <1>1
<1>4. Len(s) + 1 \in DOMAIN Append(s, x)
  BY <1>3
<1>5. \A i \in DOMAIN s : i \in DOMAIN Append(s, x) /\ Append(s, x)[i] = s[i]
  BY <1>2, <1>3
<1>6. \A i \in DOMAIN Append(s, x) : i \in DOMAIN s \/ Append(s, x)[i] = x
  BY <1>2, <1>3
<1>7. Append(s, x)[Len(s) + 1] = x
  BY <1>2, <1>3
<1> HIDE DEF Elements
<1>8. Elements(Append(s, x)) = Elements(s) \union {x}
  BY <1>2, <1>4, <1>5, <1>6, <1>7 DEF Elements
<1> QED
  BY <1>1, <1>8

\* What Among keeps of a sequence is a sequence of its elements in E.
LEMMA AmongElements ==
  ASSUME NEW S, NEW es \in Seq(S), NEW E
  PROVE  Among(es, E) \in Seq(S) /\ Elements(Among(es, E)) = Elements(es) \intersect E
<1> DEFINE Step(f, i) == IF i = 0 THEN <<>>
                           ELSE IF es[i] \in E THEN Append(f[i - 1], es[i]) ELSE f[i - 1]
<1> DEFINE UpTo(n, f) == f = [i \in 0 .. n |-> Step(f, i)]
<1>0. ASSUME NEW f, NEW n \in Nat, UpTo(n, f)
      PROVE  /\ f[0] = <<>>
             /\ \A i \in 1 .. n : f[i] = IF es[i] \in E THEN Append(f[i - 1], es[i]) ELSE f[i - 1]
  <2>1. \A i \in 0 .. n : f[i] = Step(f, i)
    <3> HIDE DEF Step
    <3> QED
      BY <1>0
  <2> QED
    BY <2>1
<1>1. \E f : UpTo(Len(es), f)
  <2> DEFINE T == {n \in Nat : \E f : UpTo(n, f)}
  <2>1. 0 \in T
    <3>1. UpTo(0, [i \in 0 .. 0 |-> <<>>])
      OBVIOUS
    <3> HIDE DEF UpTo
    <3> QED
      BY <3>1
  <2>2. ASSUME NEW n \in Nat, n \in T PROVE n + 1 \in T
    <3>1. PICK f : UpTo(n, f)
      <4> HIDE DEF UpTo
      <4> QED
        BY <2>2
    <3> DEFINE g == [i \in 0 .. n + 1 |-> Step(f, i)]
    <3>2. \A i \in 0 .. n : g[i] = f[i]
      <4> HIDE DEF Step
      <4> QED
        BY <3>1
    <3>3. \A i \in 0 .. n + 1 : Step(g, i) = Step(f, i)
      <4> HIDE DEF g
      <4> QED
        BY <3>2
    <3>4. UpTo(n + 1, g)
      <4> HIDE DEF Step
      <4> QED
        BY <3>3
    <3> HIDE DEF UpTo, g
    <3> QED
      BY <3>4
  <2> HIDE DEF T
  <2>3. Len(es) \in T
    BY <2>1, <2>2, InductiveSet
  <2> QED
    BY <2>3 DEF T
<1>2. PICK up : UpTo(Len(es), up) /\ Among(es, E) = up[Len(es)]
  BY <1>1 DEF Among
<1> HIDE DEF UpTo
<1>3. Len(es) \in Nat /\ up[0] = <<>>
  BY <1>0, <1>2
<1> DEFINE First(n) == {es[i] : i \in 1 .. n}
<1> DEFINE T == {n \in Nat : n <= Len(es) =>
                   up[n] \in Seq(S) /\ Elements(up[n]) = First(n) \intersect E}
<1>4. 0 \in T
  <2>1. First(0) = {} /\ <<>> \in Seq(S) /\ Elements(<<>>) = {}
    BY DEF Elements
  <2> HIDE DEF First
  <2> QED
    BY <1>3, <2>1
<1>5. ASSUME NEW n \in Nat, n \in T PROVE n + 1 \in T
  <2> SUFFICES ASSUME n + 1 <= Len(es)
               PROVE  up[n + 1] \in Seq(S) /\ Elements(up[n + 1]) = First(n + 1) \intersect E
    OBVIOUS
  <2>1. up[n] \in Seq(S) /\ Elements(up[n]) = First(n) \intersect E
    BY <1>5
  <2>2. up[n + 1] = IF es[n + 1] \in E THEN Append(up[n], es[n + 1]) ELSE up[n]
    <3>1. n + 1 \in 1 .. Len(es) /\ (n + 1) - 1 = n
      OBVIOUS
    <3> QED
      BY <1>0, <1>2, <1>3, <3>1
  <2>3. First(n + 1) = First(n) \union {es[n + 1]} /\ es[n + 1] \in S
    OBVIOUS
  <2> HIDE DEF First, T
  <2> QED
    BY <2>1, <2>2, <2>3, AppendElements
<1> HIDE DEF T
<1>6. Len(es) \in T
  BY <1>3, <1>4, <1>5, InductiveSet
<1>7. Elements(es) = First(Len(es))
  BY DEF Elements
<1> HIDE DEF First
<1> QED
  BY <1>2, <1>6, <1>7 DEF T

-----------------------------------------------------------------------------
(* Delivery *)

Stage == {"none", "running", "waiting", "over"}
Answers == [version : Nat, from : Nat] \union {None, Refused}
AnyCall == [body : Body, key : Call, token : Nat, client : {"open", "gone", "answered"},
            server : Stage, answer : Answers, effect : BOOLEAN]
AnyEntry == [key : Call, answer : Answers]

\* The calls are a function on the numbers of those that were made.
LEMMA CallsTyped ==
  ASSUME DeliveryTyped
  PROVE  /\ Len(calls) \in Nat /\ Made = 1 .. Len(calls) /\ calls \in [Made -> AnyCall]
         /\ entries \in Seq(AnyEntry) /\ Elements(entries) \subseteq AnyEntry
<1>1. calls \in Seq(AnyCall) /\ entries \in Seq(AnyEntry)
  BY DEF DeliveryTyped, AnyCall, AnyEntry, Answers, Stage
<1> QED
  BY <1>1 DEF Made, Elements

\* A function on the same numbers is a sequence of calls again.
LEMMA CallsStayTyped ==
  ASSUME DeliveryTyped, NEW f \in [Made -> AnyCall]
  PROVE  f \in Seq(AnyCall) /\ DOMAIN f = Made
<1>1. f \in [1 .. Len(calls) -> AnyCall] /\ Len(calls) \in Nat
  BY CallsTyped
<1> QED
  BY <1>1, SeqDef

\* What a parse or a call given up leaves alone.
LEMMA ClientSide ==
  ASSUME DeliveryInv, UNCHANGED <<gatewayVars, version>>, token' \in Nat \union {None},
         calls' \in [Made -> AnyCall], pending' \in [Body -> Call \union {None}],
         \A c \in Made :
           /\ calls'[c].body = calls[c].body /\ calls'[c].key = calls[c].key
           /\ calls'[c].server = calls[c].server /\ calls'[c].effect = calls[c].effect
           /\ calls'[c].client # calls[c].client => calls[c].client = "open" /\ calls'[c].client # "open",
         \A b \in Body : pending'[b] # pending[b] =>
           \E c \in Of(b) : calls'[c].client = "answered" /\ \A d \in Of(b) : d <= c
  PROVE  DeliveryInv'
<1>1. Made' = Made /\ Made \subseteq Nat /\ calls \in [Made -> AnyCall]
  BY CallsTyped, CallsStayTyped DEF DeliveryInv, Made
<1>2. DeliveryTyped'
  <2>1. calls' \in Seq(AnyCall)
    BY CallsStayTyped DEF DeliveryInv
  <2> QED
    BY <2>1 DEF DeliveryInv, DeliveryTyped, AnyCall, Answers, Stage, gatewayVars
<1>3. \A c \in Made : calls[c].body \in Body /\ calls'[c].client \in {"open", "gone", "answered"}
  BY <1>1 DEF AnyCall
<1>4. LastIsOpen'
  <2> SUFFICES ASSUME NEW c \in Made, calls'[c].client = "open",
                      NEW d \in Made, calls'[d].body = calls'[c].body
               PROVE  d <= c
    BY <1>1, Zenon DEF LastIsOpen, Of
  <2> QED
    BY DEF DeliveryInv, LastIsOpen, Of
<1>5. KeyStays'
  <2> SUFFICES ASSUME NEW c \in Made,
                      \A e \in Made : calls'[e].body = calls'[c].body /\ c <= e
                                        => calls'[e].client # "answered"
               PROVE  pending'[calls'[c].body] = calls'[c].key
    BY <1>1 DEF KeyStays, Of
  <2>1. \A e \in Of(calls[c].body) : c <= e => calls[e].client # "answered"
    BY DEF Of
  <2>2. pending[calls[c].body] = calls[c].key
    BY <2>1 DEF DeliveryInv, KeyStays
  <2>3. pending'[calls[c].body] = pending[calls[c].body]
    BY <1>3 DEF Of
  <2> QED
    BY <2>2, <2>3
<1>6. RepetitionsShareKeys'
  <2> SUFFICES ASSUME NEW c \in Made, NEW d \in Made, calls'[d].body = calls'[c].body, c < d,
                      \A e \in Made : calls'[e].body = calls'[d].body /\ c <= e /\ e < d
                                        => calls'[e].client = "gone"
               PROVE  calls'[d].key = calls'[c].key
    BY <1>1 DEF RepetitionsShareKeys, Repeats, Of
  <2>1. \A e \in Of(calls[d].body) : c <= e /\ e < d => calls[e].client = "gone"
    <3> SUFFICES ASSUME NEW e \in Made, calls[e].body = calls[d].body, c <= e, e < d
                 PROVE calls[e].client = "gone"
      BY DEF Of
    <3>1. calls'[e].client = "gone"
      OBVIOUS
    <3>2. calls[e].client # "open"
      BY <1>1 DEF DeliveryInv, LastIsOpen, Of
    <3> QED
      BY <1>1, <3>1, <3>2
  <2> QED
    BY <2>1 DEF DeliveryInv, RepetitionsShareKeys, Repeats
<1>7. OneEntryPerKey' /\ RunningHasEntry' /\ EffectIsKnown'
  BY <1>1 DEF DeliveryInv, OneEntryPerKey, RunningHasEntry, EffectIsKnown, Elements, Keys, gatewayVars
<1> QED
  BY <1>2, <1>4, <1>5, <1>6, <1>7 DEF DeliveryInv

\* An answer is parsed.
LEMMA ParsedKeeps ==
  ASSUME DeliveryInv, NEW c \in Made, Parsed(c)
  PROVE  DeliveryInv'
<1>1. calls \in [Made -> AnyCall] /\ Made \subseteq Nat
  BY CallsTyped DEF DeliveryInv
<1>2. calls' \in [Made -> AnyCall]
  BY <1>1 DEF Parsed, AnyCall, Answers
<1>3. /\ pending' \in [Body -> Call \union {None}] /\ token' \in Nat \union {None}
      /\ UNCHANGED <<gatewayVars, version>>
  BY DEF DeliveryInv, DeliveryTyped, Parsed
<1>4. \A d \in Made :
        /\ calls'[d].body = calls[d].body /\ calls'[d].key = calls[d].key
        /\ calls'[d].server = calls[d].server /\ calls'[d].effect = calls[d].effect
        /\ calls'[d].client # calls[d].client => calls[d].client = "open" /\ calls'[d].client # "open"
  BY <1>1 DEF Parsed, AnyCall
<1>5. \A b \in Body : pending'[b] # pending[b] =>
        \E e \in Of(b) : calls'[e].client = "answered" /\ \A d \in Of(b) : d <= e
  <2> SUFFICES ASSUME NEW b \in Body, pending'[b] # pending[b]
               PROVE  c \in Of(b) /\ calls'[c].client = "answered" /\ \A d \in Of(b) : d <= c
    OBVIOUS
  <2>1. b = calls[c].body
    BY <1>1 DEF Parsed, AnyCall, DeliveryInv, DeliveryTyped
  <2> QED
    BY <1>1, <2>1 DEF Parsed, DeliveryInv, LastIsOpen, Of, AnyCall
<1> QED
  BY <1>2, <1>3, <1>4, <1>5, ClientSide

\* What GivenUp leaves of the calls.
LEMMA GivenUpCalls ==
  ASSUME DeliveryInv, NEW C
  PROVE  /\ GivenUp(C) \in [Made -> AnyCall]
         /\ \A c \in Made :
              /\ GivenUp(C)[c].body = calls[c].body /\ GivenUp(C)[c].key = calls[c].key
              /\ GivenUp(C)[c].server = calls[c].server /\ GivenUp(C)[c].effect = calls[c].effect
              /\ GivenUp(C)[c].answer \in {None, calls[c].answer}
              /\ GivenUp(C)[c].client = IF c \in C /\ calls[c].client = "open"
                                        THEN "gone" ELSE calls[c].client
<1>1. calls \in [Made -> AnyCall]
  BY CallsTyped DEF DeliveryInv
<1> QED
  BY <1>1 DEF GivenUp, AnyCall, Answers

\* Calls are given up, and their keys stay.
LEMMA GivenUpKeeps ==
  ASSUME DeliveryInv, NEW C, calls' = GivenUp(C), UNCHANGED <<pending, gatewayVars, version>>,
         token' \in Nat \union {None}
  PROVE  DeliveryInv'
<1>1. pending' \in [Body -> Call \union {None}]
  BY DEF DeliveryInv, DeliveryTyped
<1> QED
  BY <1>1, GivenUpCalls, ClientSide

\* A call is added, with the key that is pending or one of its own.
LEMMA StartedCalls ==
  ASSUME DeliveryInv, NEW C, NEW b \in Body, Started(GivenUp(C), b)
  PROVE  LET n == Len(calls) + 1 IN
         /\ n \in Call /\ calls' \in Seq(AnyCall) /\ Made' = Made \union {n}
         /\ \A c \in Made : calls'[c] = GivenUp(C)[c] /\ c < n /\ c \in Nat
         /\ \A c \in Made :
              /\ calls'[c].body = calls[c].body /\ calls'[c].key = calls[c].key
              /\ calls'[c].server = calls[c].server /\ calls'[c].effect = calls[c].effect
              /\ calls'[c].client = "open" => calls[c].client = "open"
              /\ calls'[c].client = "answered" <=> calls[c].client = "answered"
              /\ calls'[c].client \in {"open", "gone", "answered"}
              /\ calls'[c].answer \in {None, calls[c].answer}
         /\ calls'[n].body = b /\ calls'[n].client = "open" /\ calls'[n].server = "none"
         /\ calls'[n].effect = FALSE /\ calls'[n].answer = None
         /\ calls'[n].key = pending'[b] /\ (pending[b] # None => calls'[n].key = pending[b])
         /\ \A x \in Body \ {b} : pending'[x] = pending[x]
         /\ pending' \in [Body -> Call \union {None}] /\ token' \in Nat \union {None}
<1> DEFINE n == Len(calls) + 1
           old == GivenUp(C)
           new == calls'[n]
<1>1. /\ Len(calls) \in Nat /\ Made = 1 .. Len(calls) /\ calls \in [Made -> AnyCall]
      /\ Elements(entries) \subseteq AnyEntry /\ None \notin Call
  BY CallsTyped, DeliveryAssumption DEF DeliveryInv, Call
<1>2. old \in Seq(AnyCall) /\ Len(old) = Len(calls) /\ DOMAIN old = Made
  <2>1. old \in [Made -> AnyCall]
    BY GivenUpCalls
  <2> QED
    BY <1>1, <2>1, CallsStayTyped DEF DeliveryInv
<1>3. PICK r : r = [body |-> b, key |-> IF pending[b] = None THEN n ELSE pending[b],
                    token |-> IF token = None THEN life ELSE token,
                    client |-> "open", server |-> "none", effect |-> FALSE, answer |-> None]
  OBVIOUS
<1>4. /\ n \in Call /\ pending' = [pending EXCEPT ![b] = r.key] /\ token' = r.token
      /\ calls' = Append(old, r)
  BY <1>1, <1>2, <1>3 DEF Started, Call
<1>5. r \in AnyCall /\ pending[b] \in Call \union {None}
  BY <1>3, <1>4 DEF DeliveryInv, DeliveryTyped, AnyCall, Answers, Stage
<1>6. /\ calls' \in Seq(AnyCall) /\ Made' = Made \union {n} /\ new = r
      /\ \A c \in Made : calls'[c] = old[c] /\ c < n /\ c \in Nat
  BY <1>1, <1>2, <1>4, <1>5 DEF Made
<1>7. \A c \in Made :
        /\ calls'[c].body = calls[c].body /\ calls'[c].key = calls[c].key
        /\ calls'[c].server = calls[c].server /\ calls'[c].effect = calls[c].effect
        /\ calls'[c].client = "open" => calls[c].client = "open"
        /\ calls'[c].client = "answered" <=> calls[c].client = "answered"
        /\ calls'[c].client \in {"open", "gone", "answered"}
        /\ calls'[c].answer \in {None, calls[c].answer}
  <2> SUFFICES ASSUME NEW c \in Made
               PROVE  /\ old[c].body = calls[c].body /\ old[c].key = calls[c].key
                      /\ old[c].server = calls[c].server /\ old[c].effect = calls[c].effect
                      /\ old[c].client = "open" => calls[c].client = "open"
                      /\ old[c].client = "answered" <=> calls[c].client = "answered"
                      /\ old[c].client \in {"open", "gone", "answered"}
                      /\ old[c].answer \in {None, calls[c].answer}
    BY <1>6
  <2>1. calls[c].client \in {"open", "gone", "answered"}
    BY <1>1 DEF AnyCall
  <2> QED
    BY <2>1, GivenUpCalls
<1>8. /\ new.body = b /\ new.client = "open" /\ new.server = "none" /\ new.effect = FALSE
      /\ new.answer = None
      /\ new.key = pending'[b] /\ (pending[b] # None => new.key = pending[b])
      /\ \A x \in Body \ {b} : pending'[x] = pending[x]
  <2>1. pending' = [pending EXCEPT ![b] = r.key] /\ pending \in [Body -> Call \union {None}]
    BY <1>4 DEF DeliveryInv, DeliveryTyped
  <2>2. new = r
    BY <1>6
  <2> HIDE DEF new
  <2> QED
    BY <1>3, <2>1, <2>2
<1>9. token' \in Nat \union {None} /\ pending' \in [Body -> Call \union {None}]
  BY <1>4, <1>5, <1>3 DEF AnyCall, DeliveryInv, DeliveryTyped
<1> HIDE DEF old
<1> QED
  BY <1>4, <1>6, <1>7, <1>8, <1>9 DEF old

LEMMA StartedKeeps ==
  ASSUME DeliveryInv, NEW C, NEW b \in Body, Started(GivenUp(C), b),
         \A c \in Of(b) : GivenUp(C)[c].client # "open", UNCHANGED <<gatewayVars, version>>
  PROVE  DeliveryInv'
<1> DEFINE n == Len(calls) + 1
           new == calls'[n]
<1>1. /\ Len(calls) \in Nat /\ Made = 1 .. Len(calls) /\ calls \in [Made -> AnyCall]
      /\ Elements(entries) \subseteq AnyEntry /\ None \notin Call
  BY CallsTyped, DeliveryAssumption DEF DeliveryInv, Call
<1>6. /\ calls' \in Seq(AnyCall) /\ Made' = Made \union {n}
      /\ \A c \in Made : calls'[c] = GivenUp(C)[c] /\ c < n /\ c \in Nat
  BY StartedCalls
<1>7. \A c \in Made :
        /\ calls'[c].body = calls[c].body /\ calls'[c].key = calls[c].key
        /\ calls'[c].server = calls[c].server /\ calls'[c].effect = calls[c].effect
        /\ calls'[c].client = "open" => calls[c].client = "open"
        /\ calls'[c].client = "answered" <=> calls[c].client = "answered"
        /\ calls'[c].client \in {"open", "gone", "answered"}
  BY StartedCalls
<1>8. /\ new.body = b /\ new.client = "open" /\ new.server = "none" /\ new.effect = FALSE
      /\ new.key = pending'[b] /\ (pending[b] # None => new.key = pending[b])
      /\ \A x \in Body \ {b} : pending'[x] = pending[x]
  BY StartedCalls
<1>9. \A c \in Made : calls[c].body = b => calls'[c].client # "open"
  BY <1>6 DEF Of
<1> HIDE DEF n, new
<1>10. DeliveryTyped'
  <2>1. entries' = entries /\ life' = life /\ version' = version
    BY DEF gatewayVars
  <2>2. token' \in Nat \union {None} /\ pending' \in [Body -> Call \union {None}]
    BY StartedCalls
  <2> QED
    BY <1>6, <2>1, <2>2 DEF DeliveryInv, DeliveryTyped, AnyCall, Answers, Stage
<1>11. LastIsOpen'
  <2> SUFFICES ASSUME NEW c \in Made \union {n}, calls'[c].client = "open",
                      NEW d \in Made \union {n}, calls'[d].body = calls'[c].body
               PROVE  d <= c
    BY <1>6, Zenon DEF LastIsOpen, Of
  <2>1. CASE c = n
    BY <2>1, <1>1, <1>6 DEF n
  <2>2. CASE c \in Made /\ d = n
    BY <2>2, <1>7, <1>8, <1>9 DEF new
  <2>3. CASE c \in Made /\ d \in Made
    BY <2>3, <1>7 DEF DeliveryInv, LastIsOpen, Of
  <2> QED
    BY <2>1, <2>2, <2>3
<1>12. ASSUME NEW c \in Made, \A e \in Made : calls[e].body = calls[c].body /\ c <= e
                                            => calls'[e].client # "answered"
       PROVE  pending[calls[c].body] = calls[c].key /\ calls[c].key \in Call
  BY <1>1, <1>7, <1>12 DEF DeliveryInv, KeyStays, Of, AnyCall
<1>13. KeyStays'
  <2> SUFFICES ASSUME NEW c \in Made \union {n},
                      \A e \in Made \union {n} : calls'[e].body = calls'[c].body /\ c <= e
                                        => calls'[e].client # "answered"
               PROVE  pending'[calls'[c].body] = calls'[c].key
    BY <1>6 DEF KeyStays, Of
  <2>1. CASE c = n
    BY <2>1, <1>8 DEF new
  <2>2. CASE c \in Made
    <3>1. pending[calls[c].body] = calls[c].key /\ calls[c].key \in Call
      BY <2>2, <1>7, <1>12
    <3>2. calls[c].body \in Body
      BY <2>2, <1>1 DEF AnyCall
    <3> QED
      BY <2>2, <3>1, <3>2, <1>1, <1>7, <1>8
  <2> QED
    BY <2>1, <2>2
<1>14. RepetitionsShareKeys'
  <2> SUFFICES ASSUME NEW c \in Made \union {n}, NEW d \in Made \union {n},
                      calls'[d].body = calls'[c].body, c < d,
                      \A e \in Made \union {n} : calls'[e].body = calls'[d].body /\ c <= e /\ e < d
                                        => calls'[e].client = "gone"
               PROVE  calls'[d].key = calls'[c].key
    BY <1>6 DEF RepetitionsShareKeys, Repeats, Of
  <2>1. CASE c \in Made /\ d \in Made
    <3>1. \A e \in Of(calls[d].body) : c <= e /\ e < d => calls[e].client = "gone"
      <4> SUFFICES ASSUME NEW e \in Made, calls[e].body = calls[d].body, c <= e, e < d
                   PROVE  calls[e].client = "gone"
        BY DEF Of
      <4>1. calls'[e].client = "gone"
        BY <2>1, <1>7
      <4>2. calls[e].client # "open"
        BY <2>1, <1>1, <1>6 DEF DeliveryInv, LastIsOpen, Of
      <4> QED
        BY <4>1, <4>2, <1>1, <1>7 DEF AnyCall
    <3> QED
      BY <2>1, <3>1, <1>7 DEF DeliveryInv, RepetitionsShareKeys, Repeats
  <2>2. CASE c \in Made /\ d = n
    <3>1. calls[c].body = b
      BY <2>2, <1>7, <1>8 DEF new
    <3>2. \A e \in Made : calls[e].body = calls[c].body /\ c <= e => calls'[e].client # "answered"
      BY <2>2, <3>1, <1>6, <1>7, <1>8 DEF new
    <3>3. pending[b] = calls[c].key /\ calls[c].key \in Call
      BY <2>2, <3>1, <3>2, <1>12
    <3> QED
      BY <2>2, <3>3, <1>1, <1>7, <1>8 DEF new
  <2>3. c # n
    BY <1>1, <1>6 DEF n
  <2> QED
    BY <2>1, <2>2, <2>3
<1>15. OneEntryPerKey' /\ RunningHasEntry' /\ EffectIsKnown'
  <2>1. entries' = entries /\ forgotten' = forgotten
    BY DEF gatewayVars
  <2>2. \A c \in Made \union {n} :
          /\ calls'[c].effect => c \in Made /\ calls[c].effect
          /\ calls'[c].server = "running" => c \in Made /\ calls[c].server = "running"
          /\ c \in Made => calls'[c].key = calls[c].key /\ calls'[c].server = calls[c].server
    BY <1>7, <1>8 DEF new
  <2> QED
    BY <1>6, <2>1, <2>2 DEF DeliveryInv, OneEntryPerKey, RunningHasEntry, EffectIsKnown, Elements, Keys
<1> QED
  BY <1>10, <1>11, <1>13, <1>14, <1>15 DEF DeliveryInv

-----------------------------------------------------------------------------
(* The gateway *)

\* What the gateway does leaves the repetitions of an action as they are.
LEMMA GatewaySide ==
  ASSUME DeliveryInv, UNCHANGED browserVars, calls' \in [Made -> AnyCall],
         \A c \in Made : /\ calls'[c].body = calls[c].body /\ calls'[c].key = calls[c].key
                        /\ calls'[c].client = calls[c].client,
         life' \in Nat, version' \in Nat, entries' \in Seq(AnyEntry)
  PROVE  /\ DeliveryTyped' /\ LastIsOpen' /\ KeyStays' /\ RepetitionsShareKeys' /\ Made' = Made
<1>1. Made' = Made /\ calls' \in Seq(AnyCall)
  BY CallsStayTyped DEF DeliveryInv, Made
<1>2. DeliveryTyped'
  BY <1>1 DEF DeliveryInv, DeliveryTyped, AnyCall, AnyEntry, Answers, Stage, browserVars
<1>3. LastIsOpen'
  <2> SUFFICES ASSUME NEW c \in Made, calls'[c].client = "open",
                      NEW d \in Made, calls'[d].body = calls'[c].body
               PROVE  d <= c
    BY <1>1, Zenon DEF LastIsOpen, Of
  <2> QED
    BY DEF DeliveryInv, LastIsOpen, Of
<1>4. KeyStays'
  <2> SUFFICES ASSUME NEW c \in Made,
                      \A e \in Made : calls'[e].body = calls'[c].body /\ c <= e
                                        => calls'[e].client # "answered"
               PROVE  pending'[calls'[c].body] = calls'[c].key
    BY <1>1 DEF KeyStays, Of
  <2> QED
    BY DEF DeliveryInv, KeyStays, Of, browserVars
<1>5. RepetitionsShareKeys'
  <2> SUFFICES ASSUME NEW c \in Made, NEW d \in Made, calls'[d].body = calls'[c].body, c < d,
                      \A e \in Made : calls'[e].body = calls'[d].body /\ c <= e /\ e < d
                                        => calls'[e].client = "gone"
               PROVE  calls'[d].key = calls'[c].key
    BY <1>1 DEF RepetitionsShareKeys, Repeats, Of
  <2> QED
    BY DEF DeliveryInv, RepetitionsShareKeys, Repeats, Of
<1> QED
  BY <1>1, <1>2, <1>3, <1>4, <1>5

\* The entries that are left when some keys go.
LEMMA KeepingElements ==
  ASSUME NEW es \in Seq(AnyEntry), NEW K
  PROVE  /\ Keeping(es, K) \in Seq(AnyEntry)
         /\ Elements(Keeping(es, K)) = {e \in Elements(es) : e.key \in K}
<1> DEFINE E == {e \in Elements(es) : e.key \in K}
<1>1. Keeping(es, K) = Among(es, E)
  BY DEF Keeping
<1>2. Elements(es) \intersect E = E
  OBVIOUS
<1> HIDE DEF E
<1>3. Among(es, E) \in Seq(AnyEntry) /\ Elements(Among(es, E)) = Elements(es) \intersect E
  BY AmongElements
<1> QED
  BY <1>1, <1>2, <1>3 DEF E

LEMMA CompletedElements ==
  ASSUME NEW es \in Seq(AnyEntry)
  PROVE  /\ Completed(es) \in Seq(AnyEntry)
         /\ Elements(Completed(es)) = {e \in Elements(es) : e.answer # None}
<1> DEFINE E == {e \in Elements(es) : e.answer # None}
<1>1. Completed(es) = Among(es, E)
  BY DEF Completed
<1>2. Elements(es) \intersect E = E
  OBVIOUS
<1> HIDE DEF E
<1>3. Among(es, E) \in Seq(AnyEntry) /\ Elements(Among(es, E)) = Elements(es) \intersect E
  BY AmongElements
<1> QED
  BY <1>1, <1>2, <1>3 DEF E

\* A table that only completed entries have left.
Aged(es) ==
  /\ es \in Seq(AnyEntry) /\ Elements(es) \subseteq Elements(entries)
  /\ \A e \in Elements(entries) : e.answer = None => e \in Elements(es)

LEMMA WithoutCompleted ==
  ASSUME OneEntryPerKey, NEW es, Aged(es), NEW D, D \subseteq Keys(Completed(es))
  PROVE  Aged(Keeping(es, Keys(es) \ D))
<1>1. es \in Seq(AnyEntry)
  BY DEF Aged
<1> DEFINE left == Keeping(es, Keys(es) \ D)
<1>2. left \in Seq(AnyEntry) /\ Elements(left) = {e \in Elements(es) : e.key \in Keys(es) \ D}
  BY <1>1, KeepingElements
<1>3. ASSUME NEW e \in Elements(entries), e.answer = None PROVE e \in Elements(left)
  <2>1. e \in Elements(es) /\ e.key \in Keys(es)
    BY <1>3 DEF Aged, Keys
  <2>2. e.key \notin Keys(Completed(es))
    <3> SUFFICES ASSUME NEW f \in Elements(Completed(es)), f.key = e.key PROVE FALSE
      BY DEF Keys
    <3>1. f \in Elements(es) /\ f.answer # None
      BY <1>1, CompletedElements
    <3>2. f \in Elements(entries)
      BY <3>1 DEF Aged
    <3> QED
      BY <1>3, <3>1, <3>2 DEF OneEntryPerKey
  <2> QED
    BY <1>2, <2>1, <2>2
<1> HIDE DEF left
<1> QED
  BY <1>2, <1>3 DEF Aged, left

\* What expiry and reclaiming leave of the table.
LEMMA TableAges ==
  ASSUME DeliveryInv, NEW expired \in Expirations
  PROVE  /\ Aged(entries)
         /\ Aged(Keeping(entries, Keys(entries) \ expired))
         /\ \A es : Aged(es) => Aged(Keeping(es, Keys(es) \ Reclaimed(es)))
<1>1. Aged(entries) /\ OneEntryPerKey
  BY CallsTyped DEF DeliveryInv, Aged
<1>2. expired \subseteq Keys(Completed(entries))
  BY DEF Expirations
<1>3. ASSUME NEW es, Aged(es) PROVE Reclaimed(es) \subseteq Keys(Completed(es))
  <2>1. Completed(es) \in Seq(AnyEntry)
    BY <1>3, CompletedElements DEF Aged
  <2>2. Completed(es) # <<>> => Completed(es)[1] \in Elements(Completed(es))
    BY <2>1 DEF Elements
  <2> QED
    BY <2>2 DEF Reclaimed, Keys
<1> QED
  BY <1>1, <1>2, <1>3, WithoutCompleted

\* A call comes to stage s, with the answer a, and the table has aged to es.
ComesTo(c, s, a, es) ==
  /\ calls[c].server = "none"
  /\ calls' = [calls EXCEPT ![c].server = s, ![c].answer = a]
  /\ a \in Answers /\ Aged(es)
  /\ UNCHANGED <<browserVars, life, version>>

LEMMA ComesToCalls ==
  ASSUME DeliveryInv, NEW c \in Made, NEW s \in Stage, NEW a, NEW es, ComesTo(c, s, a, es)
  PROVE  /\ calls' \in [Made -> AnyCall] /\ Made' = Made
         /\ \A d \in Made :
              /\ calls'[d].body = calls[d].body /\ calls'[d].key = calls[d].key
              /\ calls'[d].client = calls[d].client /\ calls'[d].effect = calls[d].effect
              /\ calls'[d].server = IF d = c THEN s ELSE calls[d].server
              /\ calls'[d].answer = IF d = c THEN a ELSE calls[d].answer
<1>1. calls \in [Made -> AnyCall]
  BY CallsTyped DEF DeliveryInv
<1>2. /\ calls' = [calls EXCEPT ![c] = [[@ EXCEPT !.server = s] EXCEPT !.answer = a]]
      /\ a \in Answers
  BY DEF ComesTo
<1> QED
  BY <1>1, <1>2 DEF AnyCall, Made

\* It waits, or is answered at once.
LEMMA TurnedAwayKeeps ==
  ASSUME DeliveryInv, NEW c \in Made, NEW s \in {"waiting", "over"}, NEW a, NEW es,
         ComesTo(c, s, a, es),
         entries' = es, forgotten' = forgotten \union (Keys(entries) \ Keys(es))
  PROVE  DeliveryInv'
<1>1. /\ calls' \in [Made -> AnyCall] /\ Made' = Made
      /\ \A d \in Made :
              /\ calls'[d].body = calls[d].body /\ calls'[d].key = calls[d].key
              /\ calls'[d].client = calls[d].client /\ calls'[d].effect = calls[d].effect
              /\ calls'[d].server = IF d = c THEN s ELSE calls[d].server
  BY ComesToCalls DEF Stage
<1>2. DeliveryTyped' /\ LastIsOpen' /\ KeyStays' /\ RepetitionsShareKeys'
  <2>1. life' \in Nat /\ version' \in Nat /\ entries' \in Seq(AnyEntry) /\ UNCHANGED browserVars
    BY DEF DeliveryInv, DeliveryTyped, ComesTo, Aged
  <2> QED
    BY <1>1, <2>1, GatewaySide
<1>3. OneEntryPerKey'
  <2>1. Elements(entries)' = Elements(es)
    BY DEF Elements
  <2> QED
    BY <2>1 DEF ComesTo, Aged, DeliveryInv, OneEntryPerKey
<1>4. RunningHasEntry'
  <2> SUFFICES ASSUME NEW d \in Made, calls[d].server = "running"
               PROVE  /\ [key |-> calls[d].key, answer |-> None] \in Elements(entries)'
                      /\ \A e \in Made : calls[e].server = "running" /\ calls[e].key = calls[d].key
                                          => e = d
    BY <1>1 DEF RunningHasEntry
  <2>1. [key |-> calls[d].key, answer |-> None] \in Elements(es)
    BY DEF DeliveryInv, RunningHasEntry, ComesTo, Aged
  <2> QED
    BY <2>1 DEF DeliveryInv, RunningHasEntry, Elements
<1>5. EffectIsKnown'
  <2>1. Keys(entries)' = Keys(es)
    BY DEF Keys, Elements
  <2>2. Keys(entries) \union forgotten \subseteq Keys(entries)' \union forgotten'
    BY <2>1
  <2> QED
    BY <1>1, <2>2 DEF DeliveryInv, EffectIsKnown, ComesTo
<1> QED
  BY <1>2, <1>3, <1>4, <1>5 DEF DeliveryInv

\* Its handler begins: nobody else runs under its key, and what took effect under
\* it has been forgotten.
LEMMA BegunKeeps ==
  ASSUME DeliveryInv, NEW c \in Made, NEW es, ComesTo(c, "running", None, es),
         calls[c].key \notin Keys(es),
         entries' = Append(es, [key |-> calls[c].key, answer |-> None]),
         forgotten' = forgotten \union (Keys(entries) \ Keys(es))
  PROVE  DeliveryInv'
<1> DEFINE new == [key |-> calls[c].key, answer |-> None]
<1>1. /\ calls' \in [Made -> AnyCall] /\ Made' = Made
      /\ \A d \in Made :
              /\ calls'[d].body = calls[d].body /\ calls'[d].key = calls[d].key
              /\ calls'[d].client = calls[d].client /\ calls'[d].effect = calls[d].effect
              /\ calls'[d].server = IF d = c THEN "running" ELSE calls[d].server
  BY ComesToCalls DEF Stage
<1>2. new \in AnyEntry
  BY CallsTyped DEF DeliveryInv, AnyCall, AnyEntry, Answers
<1>3. entries' \in Seq(AnyEntry) /\ Elements(entries)' = Elements(es) \union {new}
  <2>1. es \in Seq(AnyEntry)
    BY DEF ComesTo, Aged
  <2>2. entries' \in Seq(AnyEntry) /\ Elements(entries') = Elements(es) \union {new}
    BY <1>2, <2>1, AppendElements
  <2> QED
    BY <2>2 DEF Elements
<1>4. DeliveryTyped' /\ LastIsOpen' /\ KeyStays' /\ RepetitionsShareKeys'
  <2>1. life' \in Nat /\ version' \in Nat /\ UNCHANGED browserVars
    BY DEF DeliveryInv, DeliveryTyped, ComesTo
  <2> QED
    BY <1>1, <1>3, <2>1, GatewaySide
<1>5. OneEntryPerKey'
  <2>1. \A e \in Elements(es) : e.key # calls[c].key /\ e \in Elements(entries)
    BY DEF Keys, ComesTo, Aged
  <2> QED
    BY <1>3, <2>1 DEF DeliveryInv, OneEntryPerKey
<1>6. RunningHasEntry'
  <2> SUFFICES ASSUME NEW d \in Made, calls'[d].server = "running"
               PROVE  /\ [key |-> calls[d].key, answer |-> None] \in Elements(entries)'
                      /\ \A e \in Made : calls'[e].server = "running" /\ calls[e].key = calls[d].key
                                          => e = d
    BY <1>1 DEF RunningHasEntry
  <2>1. ASSUME NEW e \in Made, e # c, calls'[e].server = "running"
        PROVE  [key |-> calls[e].key, answer |-> None] \in Elements(es) /\ calls[e].key # calls[c].key
    <3>1. [key |-> calls[e].key, answer |-> None] \in Elements(es)
      BY <1>1, <2>1 DEF DeliveryInv, RunningHasEntry, ComesTo, Aged
    <3> QED
      BY <3>1 DEF Keys
  <2>2. CASE d = c
    BY <1>3, <2>1, <2>2
  <2>3. CASE d # c
    BY <1>1, <1>3, <2>1, <2>3 DEF DeliveryInv, RunningHasEntry
  <2> QED
    BY <2>2, <2>3
<1>7. EffectIsKnown'
  <2>1. Keys(es) \subseteq Keys(entries)'
    BY <1>3 DEF Keys
  <2>2. Keys(entries) \union forgotten \subseteq Keys(entries)' \union forgotten'
    BY <2>1
  <2>3. ASSUME NEW d \in Made, calls[d].effect
        PROVE  d # c /\ (calls[d].key = calls[c].key => calls[d].key \in forgotten')
    BY <2>3 DEF DeliveryInv, EffectIsKnown, ComesTo
  <2> QED
    BY <1>1, <2>2, <2>3 DEF DeliveryInv, EffectIsKnown
<1> QED
  BY <1>4, <1>5, <1>6, <1>7 DEF DeliveryInv

\* It is turned away or answered from the table, or its handler begins.
Answered(c, s, a, es) ==
  /\ ComesTo(c, s, a, es)
  /\ s \in {"waiting", "over"}
  /\ a \in {None, Refused} \/ \E e \in Elements(entries) : a = e.answer
  /\ entries' = es /\ forgotten' = forgotten \union (Keys(entries) \ Keys(es))

Begins(c, es) ==
  /\ ComesTo(c, "running", None, es)
  /\ calls[c].key \notin Keys(es)
  /\ entries' = Append(es, [key |-> calls[c].key, answer |-> None])
  /\ forgotten' = forgotten \union (Keys(entries) \ Keys(es))

LEMMA ArriveCases ==
  ASSUME DeliveryInv, NEW c \in Made, Arrive(c)
  PROVE  \E es : Begins(c, es) \/ \E s, a : Answered(c, s, a, es)
<1>1. calls[c].server = "none" /\ UNCHANGED <<browserVars, life, version>>
  BY DEF Arrive
<1>2. None \in Answers /\ Refused \in Answers /\ {} \in Expirations
  BY DEF Answers, Expirations
<1>3. \A a : Sent(c, a) \in {None, a}
  BY DEF Sent
<1>4. CASE calls[c].token # life
  <2>1. Aged(entries) /\ Keys(entries) \ Keys(entries) = {}
    BY <1>2, TableAges
  <2>2. /\ calls' = [calls EXCEPT ![c].server = "over", ![c].answer = Sent(c, Refused)]
        /\ entries' = entries /\ forgotten' = forgotten \union (Keys(entries) \ Keys(entries))
    BY <1>4 DEF Arrive
  <2>3. ComesTo(c, "over", Sent(c, Refused), entries)
    BY <1>1, <1>2, <1>3, <2>1, <2>2 DEF ComesTo
  <2> QED
    BY <1>3, <2>2, <2>3 DEF Answered
<1>5. CASE calls[c].token = life
  <2>1. PICK expired \in Expirations :
          LET es == Keeping(entries, Keys(entries) \ expired)
              left == Keeping(es, Keys(es) \ Reclaimed(es))
          IN  \/ \E e \in Elements(es) :
                   /\ calls' = [calls EXCEPT ![c].server = IF e.answer = None THEN "waiting" ELSE "over",
                                             ![c].answer = Sent(c, e.answer)]
                   /\ entries' = es /\ forgotten' = forgotten \union (Keys(entries) \ Keys(es))
              \/ /\ calls[c].key \notin Keys(es)
                 /\ \/ /\ calls' = [calls EXCEPT ![c].server = "over", ![c].answer = Sent(c, Refused)]
                       /\ entries' = left /\ forgotten' = forgotten \union (Keys(entries) \ Keys(left))
                    \/ /\ calls' = [calls EXCEPT ![c].server = "running", ![c].answer = Sent(c, None)]
                       /\ entries' = Append(left, [key |-> calls[c].key, answer |-> None])
                       /\ forgotten' = forgotten \union (Keys(entries) \ Keys(left))
    BY <1>5 DEF Arrive
  <2> DEFINE es == Keeping(entries, Keys(entries) \ expired)
             left == Keeping(es, Keys(es) \ Reclaimed(es))
  <2>2. Aged(es) /\ Aged(left)
    BY TableAges
  <2>3. Keys(left) \subseteq Keys(es)
    <3>1. Elements(left) \subseteq Elements(es)
      BY <2>2, KeepingElements DEF Aged
    <3> HIDE DEF es, left
    <3> QED
      BY <3>1 DEF Keys
  <2>4. \A e \in Elements(es) : e.answer \in Answers
    BY <2>2, CallsTyped DEF DeliveryInv, Aged, AnyEntry
  <2> HIDE DEF es, left
  <2>5. CASE \E e \in Elements(es) :
                   /\ calls' = [calls EXCEPT ![c].server = IF e.answer = None THEN "waiting" ELSE "over",
                                             ![c].answer = Sent(c, e.answer)]
                   /\ entries' = es /\ forgotten' = forgotten \union (Keys(entries) \ Keys(es))
    <3>1. PICK e \in Elements(es) :
            /\ calls' = [calls EXCEPT ![c].server = IF e.answer = None THEN "waiting" ELSE "over",
                                      ![c].answer = Sent(c, e.answer)]
            /\ entries' = es /\ forgotten' = forgotten \union (Keys(entries) \ Keys(es))
      BY <2>5
    <3> DEFINE s == IF e.answer = None THEN "waiting" ELSE "over"
    <3>2. Sent(c, e.answer) \in Answers
      BY <1>2, <1>3, <2>4
    <3>3. s \in {"waiting", "over"} /\ ComesTo(c, s, Sent(c, e.answer), es)
      BY <1>1, <2>2, <3>1, <3>2 DEF ComesTo
    <3>4. Elements(es) \subseteq Elements(entries)
      BY <2>2 DEF Aged
    <3> HIDE DEF s
    <3>5. Answered(c, s, Sent(c, e.answer), es)
      BY <1>3, <3>1, <3>3, <3>4 DEF Answered, s
    <3> QED
      BY <3>5
  <2>6. CASE /\ calls' = [calls EXCEPT ![c].server = "over", ![c].answer = Sent(c, Refused)]
             /\ entries' = left /\ forgotten' = forgotten \union (Keys(entries) \ Keys(left))
    <3>1. ComesTo(c, "over", Sent(c, Refused), left)
      BY <1>1, <1>2, <1>3, <2>2, <2>6 DEF ComesTo
    <3> QED
      BY <1>3, <2>6, <3>1 DEF Answered
  <2>7. CASE /\ calls[c].key \notin Keys(es)
             /\ calls' = [calls EXCEPT ![c].server = "running", ![c].answer = Sent(c, None)]
             /\ entries' = Append(left, [key |-> calls[c].key, answer |-> None])
             /\ forgotten' = forgotten \union (Keys(entries) \ Keys(left))
    <3>1. Sent(c, None) = None
      BY DEF Sent
    <3>2. ComesTo(c, "running", None, left) /\ calls[c].key \notin Keys(left)
      BY <1>1, <1>2, <2>2, <2>3, <2>7, <3>1 DEF ComesTo
    <3> QED
      BY <2>7, <3>2 DEF Begins
  <2> QED
    BY <2>1, <2>5, <2>6, <2>7 DEF es, left
<1> QED
  BY <1>4, <1>5

LEMMA ArriveKeeps ==
  ASSUME DeliveryInv, NEW c \in Made, Arrive(c)
  PROVE  DeliveryInv'
<1>1. CASE \E es : Begins(c, es)
  BY <1>1, BegunKeeps DEF Begins
<1>2. CASE \E es, s, a : Answered(c, s, a, es)
  BY <1>2, TurnedAwayKeeps DEF Answered
<1> QED
  BY <1>1, <1>2, ArriveCases

\* What the end of the calls over leaves, with the commands of done.
LEMMA EndedCalls ==
  ASSUME DeliveryInv, NEW over \in SUBSET Made, NEW done \in SUBSET Made, NEW answer \in Answers,
         Ended(over, done, answer)
  PROVE  /\ calls' \in [Made -> AnyCall] /\ Made' = Made /\ version' \in Nat /\ version' >= version
         /\ \A d \in Made :
              /\ calls'[d].body = calls[d].body /\ calls'[d].key = calls[d].key
              /\ calls'[d].client = calls[d].client
              /\ calls'[d].server = IF d \in over THEN "over" ELSE calls[d].server
              /\ calls'[d].answer = IF d \in over THEN Sent(d, answer) ELSE calls[d].answer
              /\ calls'[d].effect = (calls[d].effect \/ d \in Changes(done))
<1>1. calls \in [Made -> AnyCall] /\ Made = 1 .. Len(calls) /\ Len(calls) \in Nat /\ version \in Nat
  BY CallsTyped DEF DeliveryInv, DeliveryTyped
<1>2. Cardinality(Changes(done)) \in Nat
  <2>1. Changes(done) \subseteq 1 .. Len(calls)
    BY <1>1 DEF Changes
  <2>2. IsFiniteSet(1 .. Len(calls))
    BY <1>1, FS_Interval
  <2> QED
    BY <2>1, <2>2, FS_Subset, FS_CardinalityType
<1>3. version' \in Nat /\ version' >= version
  <2>1. version' = version + Cardinality(Changes(done))
    BY Zenon DEF Ended
  <2> QED
    BY <1>1, <1>2, <2>1
<1>4. \A d \in Made : Sent(d, answer) \in Answers
  BY DEF Sent, Answers
<1>5. /\ calls' = [d \in Made |->
                    [calls[d] EXCEPT
                       !.server = IF d \in over THEN "over" ELSE @,
                       !.answer = IF d \in over THEN Sent(d, answer) ELSE @,
                       !.effect = @ \/ d \in Changes(done)]]
  BY DEF Ended
<1>6. \A d \in Made : calls[d].effect \in BOOLEAN /\ (d \in Changes(done)) \in BOOLEAN
  BY <1>1 DEF AnyCall
<1>7. Made' = Made
  BY <1>5, <1>1 DEF Made
<1>8. \A d \in Made :
        /\ calls'[d] \in AnyCall
        /\ calls'[d].body = calls[d].body /\ calls'[d].key = calls[d].key
        /\ calls'[d].client = calls[d].client
        /\ calls'[d].server = IF d \in over THEN "over" ELSE calls[d].server
        /\ calls'[d].answer = IF d \in over THEN Sent(d, answer) ELSE calls[d].answer
        /\ calls'[d].effect = (calls[d].effect \/ d \in Changes(done))
  <2> TAKE d \in Made
  <2>1. PICK s, a, x : /\ s = IF d \in over THEN "over" ELSE calls[d].server
                       /\ a = IF d \in over THEN Sent(d, answer) ELSE calls[d].answer
                       /\ x = (calls[d].effect \/ d \in Changes(done))
    BY Zenon
  <2>2. calls'[d] = [calls[d] EXCEPT !.server = s, !.answer = a, !.effect = x]
    BY <1>5, <2>1, Zenon
  <2>3. x \in BOOLEAN
    BY <2>1, <1>6, Zenon
  <2>4. calls[d] \in AnyCall /\ s \in Stage /\ a \in Answers
    BY <1>1, <1>4, <2>1 DEF AnyCall, Stage
  <2>5. /\ calls'[d] \in AnyCall
        /\ calls'[d].body = calls[d].body /\ calls'[d].key = calls[d].key
        /\ calls'[d].client = calls[d].client
        /\ calls'[d].server = s /\ calls'[d].answer = a /\ calls'[d].effect = x
    BY <2>2, <2>3, <2>4 DEF AnyCall
  <2> QED
    BY <2>1, <2>5, Zenon
<1> QED
  BY <1>3, <1>5, <1>7, <1>8

\* Handlers end: those of done have taken effect under keys that were theirs.
LEMMA EndedKeeps ==
  ASSUME DeliveryInv, NEW over \in SUBSET Made, NEW done \in SUBSET over, NEW answer \in Answers,
         Ended(over, done, answer), UNCHANGED browserVars, life' \in Nat,
         \A c \in over : calls[c].server \in {"running", "waiting"},
         \A c \in done : calls[c].server = "running",
         entries' \in Seq(AnyEntry), OneEntryPerKey',
         Keys(entries) \subseteq Keys(entries)' \union forgotten', forgotten \subseteq forgotten',
         \A c \in Made \ over : calls[c].server = "running"
                              => [key |-> calls[c].key, answer |-> None] \in Elements(entries)'
  PROVE  DeliveryInv'
<1>1. /\ calls' \in [Made -> AnyCall] /\ Made' = Made /\ version' \in Nat
      /\ \A d \in Made :
              /\ calls'[d].body = calls[d].body /\ calls'[d].key = calls[d].key
              /\ calls'[d].client = calls[d].client
              /\ calls'[d].server = IF d \in over THEN "over" ELSE calls[d].server
              /\ calls'[d].effect = (calls[d].effect \/ d \in Changes(done))
  BY EndedCalls
<1>2. DeliveryTyped' /\ LastIsOpen' /\ KeyStays' /\ RepetitionsShareKeys'
  BY <1>1, GatewaySide
<1>3. RunningHasEntry'
  <2> SUFFICES ASSUME NEW c \in Made, calls'[c].server = "running"
               PROVE  /\ [key |-> calls[c].key, answer |-> None] \in Elements(entries)'
                      /\ \A d \in Made : calls'[d].server = "running" /\ calls[d].key = calls[c].key
                                          => d = c
    BY <1>1 DEF RunningHasEntry
  <2> QED
    BY <1>1 DEF DeliveryInv, RunningHasEntry
<1>4. EffectIsKnown'
  <2> SUFFICES ASSUME NEW c \in Made, calls'[c].effect
               PROVE  /\ calls'[c].server \notin {"none", "running"}
                      /\ calls[c].key \in Keys(entries)' \union forgotten'
                      /\ \A d \in Made \ {c} :
                           calls[d].key = calls[c].key /\ (calls'[d].server = "running" \/ calls'[d].effect)
                             => calls[c].key \in forgotten'
    BY <1>1 DEF EffectIsKnown
  <2>1. \A d \in Made :
          /\ calls'[d].server = "running" => calls[d].server = "running"
          /\ calls'[d].effect => calls[d].effect \/ calls[d].server = "running"
    BY <1>1 DEF Changes
  <2>2. CASE calls[c].effect
    <3>1. \A d \in Made \ {c} : calls[d].key = calls[c].key /\ (calls[d].server = "running" \/ calls[d].effect)
                             => calls[c].key \in forgotten
      BY <2>2 DEF DeliveryInv, EffectIsKnown
    <3>2. calls[c].server \notin {"none", "running"} /\ calls[c].key \in Keys(entries) \union forgotten
      BY <2>2 DEF DeliveryInv, EffectIsKnown
    <3> QED
      BY <1>1, <2>1, <3>1, <3>2
  <2>3. CASE ~calls[c].effect
    <3>1. calls[c].server = "running" /\ c \in over
      BY <1>1, <2>3 DEF Changes
    <3>2. /\ [key |-> calls[c].key, answer |-> None] \in Elements(entries)
          /\ \A d \in Made : calls[d].server = "running" /\ calls[d].key = calls[c].key => d = c
      BY <3>1 DEF DeliveryInv, RunningHasEntry
    <3>3. calls[c].key \in Keys(entries)
      BY <3>2 DEF Keys
    <3>4. \A d \in Made \ {c} : calls[d].key = calls[c].key /\ calls[d].effect => calls[c].key \in forgotten
      BY <3>1 DEF DeliveryInv, EffectIsKnown
    <3> QED
      BY <1>1, <2>1, <3>1, <3>2, <3>3, <3>4
  <2> QED
    BY <2>2, <2>3
<1> QED
  BY <1>2, <1>3, <1>4 DEF DeliveryInv

LEMMA RespondKeeps ==
  ASSUME DeliveryInv, NEW c \in Made, Respond(c)
  PROVE  DeliveryInv'
<1> DEFINE AnswerOf(done) == IF done = {} THEN Refused
                   ELSE [version |-> version + Cardinality(Changes({c})), from |-> c]
<1>0. PICK done \in {{}, {c}} :
        /\ calls[c].server = "running"
        /\ Ended(With(c), done, AnswerOf(done))
        /\ entries' = [i \in DOMAIN entries |->
                         IF entries[i].key = calls[c].key
                         THEN [entries[i] EXCEPT !.answer = AnswerOf(done)] ELSE entries[i]]
        /\ UNCHANGED <<browserVars, life, forgotten, failures>>
  BY DEF Respond
<1> DEFINE answer == AnswerOf(done)
<1>1. /\ answer = IF done = {} THEN Refused
                    ELSE [version |-> version + Cardinality(Changes({c})), from |-> c]
      /\ calls[c].server = "running"
      /\ Ended(With(c), done, answer)
      /\ entries' = [i \in DOMAIN entries |->
                       IF entries[i].key = calls[c].key
                       THEN [entries[i] EXCEPT !.answer = answer] ELSE entries[i]]
      /\ UNCHANGED <<browserVars, life, forgotten, failures>>
  BY <1>0
<1> HIDE DEF answer
<1>2. /\ calls \in [Made -> AnyCall] /\ Made \subseteq Nat /\ entries \in Seq(AnyEntry)
      /\ Made = 1 .. Len(calls) /\ Len(calls) \in Nat /\ version \in Nat /\ life \in Nat
  BY CallsTyped DEF DeliveryInv, DeliveryTyped
<1>3. answer \in Answers
  <2>1. IsFiniteSet(Changes({c}))
    BY FS_Singleton, FS_Subset DEF Changes
  <2>2. Cardinality(Changes({c})) \in Nat
    BY <2>1, FS_CardinalityType
  <2> QED
    BY <1>1, <1>2, <2>2 DEF Answers
<1>4. /\ With(c) \subseteq Made /\ done \subseteq With(c)
      /\ \A d \in With(c) : calls[d].server \in {"running", "waiting"}
      /\ \A d \in done : calls[d].server = "running"
  BY <1>1 DEF With
<1> DEFINE After(e) == IF e.key = calls[c].key THEN [e EXCEPT !.answer = answer] ELSE e
<1>5. \A e \in AnyEntry : After(e) \in AnyEntry /\ After(e).key = e.key
  BY <1>3 DEF AnyEntry
<1>6. entries' = [i \in DOMAIN entries |-> After(entries[i])]
  BY <1>1
<1> HIDE DEF After
<1>7. entries' \in Seq(AnyEntry) /\ DOMAIN entries' = DOMAIN entries
  <2>1. DOMAIN entries = 1 .. Len(entries) /\ Len(entries) \in Nat
    BY <1>2
  <2>2. \A i \in DOMAIN entries : entries[i] \in AnyEntry
    BY <1>2
  <2>3. entries' \in [1 .. Len(entries) -> AnyEntry]
    BY <1>5, <1>6, <2>1, <2>2
  <2> QED
    BY <1>6, <2>1, <2>3, SeqDef
<1>8. Elements(entries)' = {After(e) : e \in Elements(entries)} /\ Elements(entries) \subseteq AnyEntry
  BY <1>2, <1>6, <1>7 DEF Elements
<1>9. OneEntryPerKey'
  BY <1>5, <1>8 DEF DeliveryInv, OneEntryPerKey
<1>10. Keys(entries) \subseteq Keys(entries)'
  <2> SUFFICES ASSUME NEW e \in Elements(entries) PROVE \E f \in Elements(entries)' : f.key = e.key
    BY DEF Keys
  <2> QED
    BY <1>5, <1>8
<1>11. \A d \in Made \ With(c) : calls[d].server = "running"
                              => [key |-> calls[d].key, answer |-> None] \in Elements(entries)'
  <2> SUFFICES ASSUME NEW d \in Made \ With(c), calls[d].server = "running"
               PROVE  [key |-> calls[d].key, answer |-> None] \in Elements(entries)'
    OBVIOUS
  <2> DEFINE e == [key |-> calls[d].key, answer |-> None]
  <2>1. d # c /\ e \in Elements(entries) /\ calls[d].key # calls[c].key
    BY <1>1 DEF With, DeliveryInv, RunningHasEntry
  <2>2. After(e) = e
    BY <2>1 DEF After
  <2> HIDE DEF e
  <2>3. e \in Elements(entries)'
    BY <1>8, <2>1, <2>2
  <2> QED
    BY <2>3 DEF e
<1> QED
  BY <1>1, <1>2, <1>3, <1>4, <1>7, <1>9, <1>10, <1>11, EndedKeeps

LEMMA ThrowKeeps ==
  ASSUME DeliveryInv, NEW c \in Made, Throw(c)
  PROVE  DeliveryInv'
<1>1. PICK done \in {{}, {c}} : Ended(With(c), done, Refused)
  BY DEF Throw
<1>2. /\ calls[c].server = "running" /\ UNCHANGED <<browserVars, life>>
      /\ entries' = Keeping(entries, Keys(entries) \ {calls[c].key})
      /\ forgotten' = forgotten \union {calls[c].key}
  BY DEF Throw
<1>3. entries \in Seq(AnyEntry) /\ Elements(entries) \subseteq AnyEntry /\ life' \in Nat /\ Refused \in Answers
  BY <1>2, CallsTyped DEF DeliveryInv, DeliveryTyped, Answers
<1>4. /\ With(c) \subseteq Made /\ done \subseteq With(c)
      /\ \A d \in With(c) : calls[d].server \in {"running", "waiting"}
      /\ \A d \in done : calls[d].server = "running"
  BY <1>1, <1>2 DEF With
<1>5. /\ entries' \in Seq(AnyEntry)
      /\ Elements(entries)' = {e \in Elements(entries) : e.key \in Keys(entries) \ {calls[c].key}}
  <2>1. Elements(entries') = {e \in Elements(entries) : e.key \in Keys(entries) \ {calls[c].key}}
    BY <1>2, <1>3, KeepingElements
  <2> QED
    BY <1>2, <1>3, <2>1, KeepingElements DEF Elements
<1>6. OneEntryPerKey' /\ Keys(entries) \subseteq Keys(entries)' \union forgotten'
  BY <1>2, <1>5 DEF DeliveryInv, OneEntryPerKey, Keys
<1>7. \A d \in Made \ With(c) : calls[d].server = "running"
                              => [key |-> calls[d].key, answer |-> None] \in Elements(entries)'
  <2> SUFFICES ASSUME NEW d \in Made \ With(c), calls[d].server = "running"
               PROVE  [key |-> calls[d].key, answer |-> None] \in Elements(entries)'
    OBVIOUS
  <2>1. /\ [key |-> calls[d].key, answer |-> None] \in Elements(entries)
        /\ calls[d].key # calls[c].key
    BY <1>2 DEF With, DeliveryInv, RunningHasEntry
  <2>2. calls[d].key \in Keys(entries)
    BY <2>1 DEF Keys
  <2> QED
    BY <1>5, <2>1, <2>2
<1> QED
  BY <1>1, <1>2, <1>3, <1>4, <1>5, <1>6, <1>7, EndedKeeps

LEMMA RestartKeeps ==
  ASSUME DeliveryInv, Restart
  PROVE  DeliveryInv'
<1> DEFINE At(stages) == {c \in Made : calls[c].server \in stages}
<1>1. PICK done \in SUBSET At({"running"}) : Ended(At({"running", "waiting"}), done, None)
  BY DEF Restart
<1>2. /\ life' = life + 1 /\ entries' = <<>> /\ forgotten' = forgotten \union Keys(entries)
      /\ UNCHANGED browserVars
  BY DEF Restart
<1>3. life' \in Nat /\ None \in Answers /\ entries' \in Seq(AnyEntry) /\ Elements(entries)' = {}
  BY <1>2 DEF DeliveryInv, DeliveryTyped, Answers, Elements
<1>4. OneEntryPerKey' /\ Keys(entries) \subseteq Keys(entries)' \union forgotten'
  BY <1>2, <1>3 DEF OneEntryPerKey
<1> QED
  BY <1>1, <1>2, <1>3, <1>4, EndedKeeps

LEMMA GatewayKeeps ==
  ASSUME DeliveryInv, GatewayStep
  PROVE  DeliveryInv'
BY ArriveKeeps, RespondKeeps, ThrowKeeps, RestartKeeps DEF GatewayStep

\* What the invariant is for.
LEMMA InvariantGivesOncePerIntent == DeliveryInv => OncePerIntent
<1> SUFFICES ASSUME DeliveryInv, NEW c \in Made, NEW d \in Made, calls[d].body = calls[c].body,
                    Repeats(d, c), calls[c].effect, calls[d].effect
             PROVE  calls[c].key \in forgotten
  BY DEF OncePerIntent
<1>1. c # d
  BY CallsTyped DEF Repeats, DeliveryInv
<1>2. calls[d].key = calls[c].key
  BY DEF DeliveryInv, RepetitionsShareKeys
<1> QED
  BY <1>1, <1>2 DEF DeliveryInv, EffectIsKnown

-----------------------------------------------------------------------------
(* The cache                                                                *)

CachedResult == [version : Nat, replayed : BOOLEAN]
AnyCard == [shows : {"hidden", "loading", "ready", "error"}, plan : Plan \union {None},
            call : Nat \union {None}, result : CachedResult \union {None}, floor : Nat]

\* A step of the gateway: what it answers is as new as what was acknowledged, or
\* the answer of a call that had ended.
LEMMA AnswersKeep ==
  ASSUME IInv, UNCHANGED <<acknowledged, owed>>, Made' = Made,
         version' \in Nat, version' >= version,
         \A d \in Made :
           /\ calls'[d].body = calls[d].body /\ calls'[d].client = calls[d].client
           /\ calls[d].server = "over" => calls'[d].server = "over"
           /\ \/ calls'[d].answer \in {None, Refused, calls[d].answer}
              \/ /\ calls'[d].answer.version <= version'
                 /\ calls'[d].answer.from = d => calls'[d].answer.version >= acknowledged,
         \A e \in Elements(entries)' :
           \/ e \in Elements(entries) \/ e.answer \in {None, Refused}
           \/ /\ e.answer.version <= version'
              /\ e.answer.from \in Made /\ calls'[e.answer.from].server = "over"
  PROVE  KnownVersions' /\ AnswersOfEnded' /\ AwaitedIsAcknowledged'
<1>1. /\ \A d \in Made : calls[d] \in AnyCall
      /\ version \in Nat /\ acknowledged \in Nat /\ owed \subseteq Nat
      /\ \A e \in Elements(entries) : e \in AnyEntry
  BY CallsTyped DEF IInv, DeliveryInv, DeliveryTyped, CacheTyped
<1>2. KnownVersions'
  <2>1. acknowledged' <= version' /\ \A v \in owed' : v <= version'
    BY <1>1 DEF IInv, KnownVersions
  <2>2. ASSUME NEW d \in Made, calls'[d].answer \notin {None, Refused}
        PROVE  calls'[d].answer.version <= version'
    BY <1>1, <2>2 DEF IInv, KnownVersions, AnyCall, Answers
  <2>3. ASSUME NEW e \in Elements(entries)', e.answer \notin {None, Refused}
        PROVE  e.answer.version <= version'
    BY <1>1, <2>3 DEF IInv, KnownVersions, AnyEntry, Answers
  <2> QED
    BY <2>1, <2>2, <2>3 DEF KnownVersions
<1>3. AnswersOfEnded'
  <2>1. ASSUME NEW e \in Elements(entries)', e.answer \notin {None, Refused}
        PROVE  e.answer.from \in Made /\ calls'[e.answer.from].server = "over"
    BY <2>1 DEF IInv, AnswersOfEnded
  <2> QED
    BY <2>1 DEF AnswersOfEnded
<1>4. AwaitedIsAcknowledged'
  <2>1. ASSUME NEW d \in Made, calls[d].body \in Batch, calls'[d].client = "open",
               calls'[d].answer \notin {None, Refused}, calls'[d].answer.from = d
        PROVE  calls'[d].answer.version >= acknowledged
    BY <2>1 DEF IInv, AwaitedIsAcknowledged, Batches
  <2> QED
    BY <2>1 DEF AwaitedIsAcknowledged, Batches
<1> QED
  BY <1>2, <1>3, <1>4

LEMMA ArriveAnswers ==
  ASSUME IInv, NEW c \in Made, Arrive(c), UNCHANGED cacheVars
  PROVE  KnownVersions' /\ AnswersOfEnded' /\ AwaitedIsAcknowledged'
<1>1. DeliveryInv /\ UNCHANGED <<acknowledged, owed>> /\ version \in Nat
  BY DEF IInv, DeliveryInv, DeliveryTyped, cacheVars
<1>2. /\ \A d \in Made : calls[d] \in AnyCall
      /\ \A e \in Elements(entries) : e \in AnyEntry
  BY <1>1, CallsTyped DEF DeliveryInv
<1>3. PICK es : Begins(c, es) \/ \E s, a : Answered(c, s, a, es)
  BY <1>1, ArriveCases
<1>4. CASE Begins(c, es)
  <2>1. ComesTo(c, "running", None, es) /\ version' = version
    BY <1>4 DEF Begins, ComesTo
  <2>2. /\ Made' = Made
        /\ \A d \in Made :
              /\ calls'[d].body = calls[d].body /\ calls'[d].client = calls[d].client
              /\ calls'[d].server = IF d = c THEN "running" ELSE calls[d].server
              /\ calls'[d].answer = IF d = c THEN None ELSE calls[d].answer
    BY <1>1, <2>1, ComesToCalls DEF Stage
  <2>3. calls[c].server = "none" /\ es \in Seq(AnyEntry) /\ Elements(es) \subseteq Elements(entries)
    BY <2>1 DEF ComesTo, Aged
  <2>4. \A e \in Elements(entries)' : e \in Elements(entries) \/ e.answer = None
    <3> DEFINE new == [key |-> calls[c].key, answer |-> None]
    <3>1. new \in AnyEntry
      BY <1>2 DEF AnyCall, AnyEntry, Answers
    <3>2. Elements(entries') = Elements(es) \union {new}
      BY <1>4, <2>3, <3>1, AppendElements DEF Begins
    <3>3. Elements(entries)' = Elements(entries')
      BY DEF Elements
    <3> QED
      BY <2>3, <3>2, <3>3
  <2> QED
    BY <1>1, <2>1, <2>2, <2>3, <2>4, AnswersKeep
<1>5. ASSUME NEW s, NEW a, Answered(c, s, a, es)
      PROVE  KnownVersions' /\ AnswersOfEnded' /\ AwaitedIsAcknowledged'
  <2>1. /\ ComesTo(c, s, a, es) /\ s \in Stage /\ version' = version /\ calls[c].server = "none"
        /\ a \in {None, Refused} \/ \E e \in Elements(entries) : a = e.answer
    BY <1>5 DEF Answered, ComesTo, Stage
  <2>2. /\ Made' = Made
        /\ \A d \in Made :
              /\ calls'[d].body = calls[d].body /\ calls'[d].client = calls[d].client
              /\ calls'[d].server = IF d = c THEN s ELSE calls[d].server
              /\ calls'[d].answer = IF d = c THEN a ELSE calls[d].answer
    BY <1>1, <2>1, ComesToCalls
  <2>3. Elements(entries)' \subseteq Elements(entries)
    BY <1>5 DEF Answered, ComesTo, Aged, Elements
  <2>4. \/ a \in {None, Refused}
        \/ a.version <= version' /\ a.from # c
    BY <2>1 DEF IInv, KnownVersions, AnswersOfEnded
  <2> QED
    BY <1>1, <2>1, <2>2, <2>3, <2>4, AnswersKeep
<1> QED
  BY <1>3, <1>4, <1>5

LEMMA EndedAnswers ==
  ASSUME IInv, NEW over \in SUBSET Made, NEW done \in SUBSET over, NEW answer \in Answers,
         Ended(over, done, answer), UNCHANGED cacheVars,
         \/ answer \in {None, Refused}
         \/ answer.version = version' /\ answer.from \in over,
         \A e \in Elements(entries)' :
           e \in Elements(entries) \/ e.answer \in {None, answer}
  PROVE  KnownVersions' /\ AnswersOfEnded' /\ AwaitedIsAcknowledged'
<1>1. /\ Made' = Made /\ version' \in Nat /\ version' >= version
      /\ \A d \in Made :
              /\ calls'[d].body = calls[d].body /\ calls'[d].client = calls[d].client
              /\ calls'[d].server = IF d \in over THEN "over" ELSE calls[d].server
              /\ calls'[d].answer = IF d \in over THEN Sent(d, answer) ELSE calls[d].answer
  BY EndedCalls DEF IInv
<1>2. \A d \in Made : Sent(d, answer) \in {None, answer}
  BY DEF Sent
<1>3. /\ UNCHANGED <<acknowledged, owed>> /\ acknowledged \in Nat /\ version \in Nat
      /\ acknowledged <= version
  BY DEF cacheVars, IInv, KnownVersions, CacheTyped, DeliveryInv, DeliveryTyped
<1>4. acknowledged <= version'
  BY <1>1, <1>3
<1>5. \A d \in Made : calls'[d].answer \in {None, calls[d].answer, answer}
  BY <1>1, <1>2
<1>6. answer \in {None, Refused} \/ (/\ answer.version = version' /\ answer.from \in Made
                                    /\ calls'[answer.from].server = "over")
  BY <1>1
<1>7. \A d \in Made :
           /\ calls'[d].body = calls[d].body /\ calls'[d].client = calls[d].client
           /\ calls[d].server = "over" => calls'[d].server = "over"
           /\ \/ calls'[d].answer \in {None, Refused, calls[d].answer}
              \/ /\ calls'[d].answer.version <= version'
                 /\ calls'[d].answer.from = d => calls'[d].answer.version >= acknowledged
  BY <1>1, <1>3, <1>4, <1>5, <1>6
<1>8. \A e \in Elements(entries)' :
           \/ e \in Elements(entries) \/ e.answer \in {None, Refused}
           \/ /\ e.answer.version <= version'
              /\ e.answer.from \in Made /\ calls'[e.answer.from].server = "over"
  BY <1>1, <1>6
<1> QED
  BY <1>1, <1>3, <1>7, <1>8, AnswersKeep

LEMMA GatewayAnswers ==
  ASSUME IInv, GatewayStep, UNCHANGED cacheVars
  PROVE  KnownVersions' /\ AnswersOfEnded' /\ AwaitedIsAcknowledged'
<1>1. DeliveryInv /\ version \in Nat /\ entries \in Seq(AnyEntry)
  BY CallsTyped DEF IInv, DeliveryInv, DeliveryTyped
<1>2. ASSUME NEW c \in Made, Respond(c)
      PROVE  KnownVersions' /\ AnswersOfEnded' /\ AwaitedIsAcknowledged'
  <2> DEFINE AnswerOf(done) == IF done = {} THEN Refused
                     ELSE [version |-> version + Cardinality(Changes({c})), from |-> c]
  <2>0. PICK done \in {{}, {c}} :
          /\ calls[c].server = "running"
          /\ Ended(With(c), done, AnswerOf(done))
          /\ entries' = [i \in DOMAIN entries |->
                           IF entries[i].key = calls[c].key
                           THEN [entries[i] EXCEPT !.answer = AnswerOf(done)] ELSE entries[i]]
          /\ UNCHANGED <<browserVars, life, forgotten, failures>>
    BY <1>2 DEF Respond
  <2> DEFINE answer == AnswerOf(done)
  <2>1. /\ answer = IF done = {} THEN Refused
                      ELSE [version |-> version + Cardinality(Changes({c})), from |-> c]
        /\ calls[c].server = "running"
        /\ Ended(With(c), done, answer)
        /\ entries' = [i \in DOMAIN entries |->
                         IF entries[i].key = calls[c].key
                         THEN [entries[i] EXCEPT !.answer = answer] ELSE entries[i]]
        /\ UNCHANGED <<browserVars, life, forgotten, failures>>
    BY <2>0
  <2> HIDE DEF answer
  <2>2. version' = version + Cardinality(Changes(done)) /\ Cardinality(Changes({c})) \in Nat
    <3>1. IsFiniteSet(Changes({c}))
      BY FS_Singleton, FS_Subset DEF Changes
    <3>2. Cardinality(Changes({c})) \in Nat
      BY <3>1, FS_CardinalityType
    <3> QED
      BY <2>1, <3>2 DEF Ended
  <2>3. /\ answer \in Answers
        /\ \/ answer \in {None, Refused}
           \/ answer.version = version' /\ answer.from \in With(c)
    <3>1. CASE done = {}
      BY <2>1, <3>1 DEF Answers
    <3>2. CASE done = {c}
      <4>1. answer = [version |-> version', from |-> c] /\ version' \in Nat
        <5>1. version' = version + Cardinality(Changes({c})) /\ done # {}
          BY <2>2, <3>2
        <5>2. answer = [version |-> version + Cardinality(Changes({c})), from |-> c]
          BY <2>1, <5>1
        <5> QED
          BY <1>1, <2>2, <5>1, <5>2
      <4>2. c \in Nat /\ c \in With(c)
        BY <1>1, CallsTyped DEF DeliveryInv, With
      <4> QED
        BY <4>1, <4>2 DEF Answers
    <3> QED
      BY <2>1, <3>1, <3>2
  <2>4. With(c) \subseteq Made /\ done \subseteq With(c)
    BY <2>1 DEF With
  <2>5. \A e \in Elements(entries)' : e \in Elements(entries) \/ e.answer \in {None, answer}
    <3>1. \A i \in DOMAIN entries : entries[i] \in AnyEntry
      BY <1>1
    <3>2. DOMAIN entries' = DOMAIN entries
      BY <2>1
    <3>3. \A i \in DOMAIN entries : entries'[i] = entries[i] \/ entries'[i].answer = answer
      BY <2>1, <3>1 DEF AnyEntry
    <3> QED
      BY <3>2, <3>3 DEF Elements
  <2> QED
    BY <2>1, <2>3, <2>4, <2>5, EndedAnswers
<1>3. ASSUME NEW c \in Made, Throw(c)
      PROVE  KnownVersions' /\ AnswersOfEnded' /\ AwaitedIsAcknowledged'
  <2>1. PICK done \in {{}, {c}} : Ended(With(c), done, Refused)
    BY <1>3 DEF Throw
  <2>2. With(c) \subseteq Made /\ done \subseteq With(c) /\ Refused \in Answers
    BY <2>1 DEF With, Answers
  <2>3. \A e \in Elements(entries)' : e \in Elements(entries)
    <3>1. entries' = Keeping(entries, Keys(entries) \ {calls[c].key})
      BY <1>3 DEF Throw
    <3>2. Elements(entries') \subseteq Elements(entries)
      BY <1>1, <3>1, KeepingElements
    <3> QED
      BY <3>2 DEF Elements
  <2> QED
    BY <2>1, <2>2, <2>3, EndedAnswers
<1>4. CASE Restart
  <2> DEFINE At(stages) == {c \in Made : calls[c].server \in stages}
  <2>1. PICK done \in SUBSET At({"running"}) : Ended(At({"running", "waiting"}), done, None)
    BY <1>4 DEF Restart
  <2>2. Elements(entries)' = {} /\ None \in Answers
    BY <1>4 DEF Restart, Elements, Answers
  <2>3. At({"running", "waiting"}) \subseteq Made /\ done \subseteq At({"running", "waiting"})
    BY <2>1
  <2> HIDE DEF At
  <2> QED
    BY <2>1, <2>2, <2>3, EndedAnswers
<1> QED
  BY <1>2, <1>3, <1>4, ArriveAnswers DEF GatewayStep

LEMMA GatewayKeepsAll ==
  ASSUME IInv, GatewayStep, UNCHANGED cacheVars
  PROVE  IInv'
<1>1. DeliveryInv' /\ KnownVersions' /\ AnswersOfEnded' /\ AwaitedIsAcknowledged'
  BY GatewayKeeps, GatewayAnswers DEF IInv
<1>2. CacheTyped' /\ SettledIsAcknowledged' /\ CardsStand' /\ ShownIsAcknowledged'
  BY DEF IInv, cacheVars, CacheTyped, SettledIsAcknowledged, CardsStand, ShownIsAcknowledged
<1> QED
  BY <1>1, <1>2 DEF IInv

\* A step of the browser: calls are begun, parsed or given up, and a batch that is
\* still awaited was before, with nothing invalidated in between.
LEMMA BrowserCalls ==
  ASSUME IInv, UNCHANGED <<version, entries>>,
         acknowledged' <= version, \A v \in owed' : v <= version,
         Made \subseteq Made', \A c \in Made' \ Made : calls'[c].answer = None,
         \A c \in Made :
           /\ calls'[c].body = calls[c].body /\ calls'[c].server = calls[c].server
           /\ calls'[c].answer \in {None, calls[c].answer}
           /\ c \in Batches /\ calls'[c].client = "open" /\ calls'[c].answer # None
                => calls[c].client = "open" /\ acknowledged' = acknowledged
  PROVE  KnownVersions' /\ AnswersOfEnded' /\ AwaitedIsAcknowledged'
<1>1. KnownVersions'
  <2>1. ASSUME NEW c \in Made', calls'[c].answer \notin {None, Refused}
        PROVE  calls'[c].answer.version <= version
    BY <2>1 DEF IInv, KnownVersions
  <2>2. \A e \in Elements(entries)' : e.answer \notin {None, Refused} => e.answer.version <= version
    BY DEF IInv, KnownVersions, Elements
  <2> QED
    BY <2>1, <2>2 DEF KnownVersions
<1>2. AnswersOfEnded'
  BY DEF IInv, AnswersOfEnded, Elements
<1>3. AwaitedIsAcknowledged'
  <2>1. ASSUME NEW c \in Made', calls'[c].body \in Batch, calls'[c].client = "open",
               calls'[c].answer \notin {None, Refused}, calls'[c].answer.from = c
        PROVE  calls'[c].answer.version >= acknowledged'
    BY <2>1 DEF IInv, AwaitedIsAcknowledged, Batches
  <2> QED
    BY <2>1 DEF AwaitedIsAcknowledged, Batches
<1> QED
  BY <1>1, <1>2, <1>3

\* What the results and the cards need of such a step, when no card becomes ready.
LEMMA CardsKeep ==
  ASSUME IInv, generation' \in Nat, acknowledged' \in Nat, owed' \subseteq Nat,
         acknowledged' >= acknowledged,
         settled' = {} \/ (settled' \subseteq settled /\ acknowledged' = acknowledged),
         widget' \in [Widget -> AnyCard],
         \A w \in Widget :
           widget'[w] = widget[w] \/ (widget'[w].shows # "ready" /\ widget'[w].floor <= acknowledged)
  PROVE  CacheTyped' /\ SettledIsAcknowledged' /\ CardsStand' /\ ShownIsAcknowledged'
<1>1. acknowledged \in Nat /\ widget \in [Widget -> AnyCard]
  BY DEF IInv, CacheTyped, AnyCard, CachedResult
<1>2. CacheTyped'
  BY DEF IInv, CacheTyped, AnyCard, CachedResult
<1>3. SettledIsAcknowledged'
  BY DEF IInv, SettledIsAcknowledged
<1>4. \A w \in Widget : widget'[w].floor \in Nat /\ widget[w].floor \in Nat
  BY <1>1 DEF AnyCard
<1>5. CardsStand'
  BY <1>1, <1>4 DEF IInv, CardsStand
<1>6. ShownIsAcknowledged'
  BY DEF IInv, ShownIsAcknowledged
<1> QED
  BY <1>2, <1>3, <1>5, <1>6

\* Cards whose promise is rejected.
LEMMA RejectedCards ==
  ASSUME IInv, NEW ws, NEW shows \in {"loading", "error"}, NEW after, after = Rejected(ws, shows)
  PROVE  /\ after \in [Widget -> AnyCard]
         /\ \A w \in Widget :
              after[w] = widget[w] \/ (after[w].shows # "ready" /\ after[w].floor <= acknowledged)
<1>1. widget \in [Widget -> AnyCard] /\ \A w \in Widget : widget[w].floor <= acknowledged
  BY DEF IInv, CacheTyped, AnyCard, CachedResult, CardsStand
<1> QED
  BY <1>1 DEF Rejected, AnyCard

\* A step of the browser leaves the table of answers to the gateway, and these are
\* the facts of it that every action uses.
LEMMA Typed ==
  ASSUME IInv
  PROVE  /\ DeliveryInv /\ version \in Nat /\ generation \in Nat /\ acknowledged \in Nat
         /\ owed \subseteq Nat /\ widget \in [Widget -> AnyCard]
         /\ calls \in [Made -> AnyCall]
         /\ token \in Nat \union {None} /\ acknowledged <= version /\ \A v \in owed : v <= version
         /\ settled \subseteq [plan : Plan, generation : Nat, result : CachedResult]
BY CallsTyped DEF IInv, DeliveryInv, DeliveryTyped, CacheTyped, KnownVersions, AnyCard, CachedResult

\* Calls are given up, and batches if anything was invalidated.
LEMMA GivenUpKeepsAll ==
  ASSUME IInv, NEW C, calls' = GivenUp(C), UNCHANGED <<pending, gatewayVars, version>>,
         token' \in Nat \union {None}, acknowledged' \in Nat, acknowledged' <= version,
         \A v \in owed' : v <= version, Batches \subseteq C \/ acknowledged' = acknowledged,
         CacheTyped', SettledIsAcknowledged', CardsStand', ShownIsAcknowledged'
  PROVE  IInv'
<1>1. DeliveryInv' /\ Made' = Made
  BY GivenUpKeeps, GivenUpCalls, CallsStayTyped DEF IInv, DeliveryInv, Made
<1>2. KnownVersions' /\ AnswersOfEnded' /\ AwaitedIsAcknowledged'
  <2>1. \A c \in Made :
          /\ calls'[c].body = calls[c].body /\ calls'[c].server = calls[c].server
          /\ calls'[c].answer \in {None, calls[c].answer}
          /\ c \in Batches /\ calls'[c].client = "open" /\ calls'[c].answer # None
               => calls[c].client = "open" /\ acknowledged' = acknowledged
    BY GivenUpCalls DEF IInv
  <2>2. UNCHANGED <<version, entries>>
    BY DEF gatewayVars
  <2> QED
    BY <1>1, <2>1, <2>2, BrowserCalls
<1> QED
  BY <1>1, <1>2 DEF IInv

LEMMA ConfirmKeeps ==
  ASSUME IInv, NEW b \in Change, Confirm(b), UNCHANGED cacheVars
  PROVE  IInv'
<1>1. b \in Body /\ DeliveryInv /\ \A c \in Made : calls[c] \in AnyCall
  BY DeliveryAssumption, Typed
<1>2. GivenUp({}) = calls
  BY <1>1, CallsTyped DEF GivenUp, DeliveryInv
<1>3. Started(GivenUp({}), b) /\ \A c \in Of(b) : GivenUp({})[c].client # "open"
  BY <1>2 DEF Confirm
<1>4. UNCHANGED <<gatewayVars, version>> /\ UNCHANGED <<version, entries>>
  BY DEF Confirm, gatewayVars
<1>5. DeliveryInv'
  BY <1>1, <1>3, <1>4, StartedKeeps
<1>6. KnownVersions' /\ AnswersOfEnded' /\ AwaitedIsAcknowledged'
  <2> DEFINE n == Len(calls) + 1
  <2>1. Made' = Made \union {n} /\ calls'[n].answer = None
    BY <1>1, <1>3, StartedCalls
  <2>2. \A c \in Made :
          /\ calls'[c].body = calls[c].body /\ calls'[c].server = calls[c].server
          /\ calls'[c].answer \in {None, calls[c].answer}
          /\ calls'[c].client = "open" => calls[c].client = "open"
    BY <1>1, <1>3, StartedCalls
  <2>3. UNCHANGED <<acknowledged, owed>> /\ acknowledged <= version /\ \A v \in owed : v <= version
    BY Typed DEF cacheVars
  <2> HIDE DEF n
  <2> QED
    BY <1>4, <2>1, <2>2, <2>3, BrowserCalls
<1>7. CacheTyped' /\ SettledIsAcknowledged' /\ CardsStand' /\ ShownIsAcknowledged'
  BY DEF IInv, cacheVars, CacheTyped, SettledIsAcknowledged, CardsStand, ShownIsAcknowledged
<1> QED
  BY <1>5, <1>6, <1>7 DEF IInv

LEMMA LoseKeeps ==
  ASSUME IInv, NEW c \in Made, Lose(c)
  PROVE  IInv'
<1>1. /\ UNCHANGED <<browserVars, gatewayVars, version, generation, settled, owed, acknowledged>>
      /\ calls' = GivenUp({c}) /\ widget' = Rejected(Subscribers(c), "error")
  BY DEF Lose
<1>2. CacheTyped' /\ SettledIsAcknowledged' /\ CardsStand' /\ ShownIsAcknowledged'
  <2>1. /\ widget' \in [Widget -> AnyCard]
        /\ \A w \in Widget :
             widget'[w] = widget[w] \/ (widget'[w].shows # "ready" /\ widget'[w].floor <= acknowledged)
    BY <1>1, RejectedCards
  <2> QED
    BY <1>1, <2>1, Typed, CardsKeep
<1> QED
  BY <1>1, <1>2, Typed, GivenUpKeepsAll DEF browserVars

\* Everything is dropped, and the batches with it.
LEMMA ClearedKeeps ==
  ASSUME IInv, Cleared, owed' \subseteq owed, acknowledged' \in Nat,
         acknowledged' >= acknowledged, acknowledged' <= version
  PROVE  IInv'
<1>1. /\ UNCHANGED <<browserVars, gatewayVars, version, generation>> /\ settled' = {}
      /\ calls' = GivenUp(Batches)
      /\ widget' = Rejected({w \in Widget : widget[w].call # None}, "loading")
  BY DEF Cleared
<1>2. CacheTyped' /\ SettledIsAcknowledged' /\ CardsStand' /\ ShownIsAcknowledged'
  <2>1. /\ widget' \in [Widget -> AnyCard]
        /\ \A w \in Widget :
             widget'[w] = widget[w] \/ (widget'[w].shows # "ready" /\ widget'[w].floor <= acknowledged)
    BY <1>1, RejectedCards
  <2>2. generation' \in Nat /\ owed' \subseteq Nat
    BY <1>1, Typed
  <2> QED
    BY <1>1, <2>1, <2>2, CardsKeep
<1>3. \A v \in owed' : v <= version
  BY Typed
<1> QED
  BY <1>1, <1>2, <1>3, Typed, GivenUpKeepsAll DEF browserVars

LEMMA InvalidateKeeps ==
  ASSUME IInv, NEW v \in owed, Invalidate(v)
  PROVE  IInv'
<1>1. Cleared /\ owed' \subseteq owed /\ acknowledged' = IF v > acknowledged THEN v ELSE acknowledged
  BY DEF Invalidate
<1>2. v \in Nat /\ v <= version /\ acknowledged \in Nat /\ acknowledged <= version
  BY Typed
<1> QED
  BY <1>1, <1>2, ClearedKeeps

LEMMA LeaveWorkspaceKeeps ==
  ASSUME IInv, LeaveWorkspace
  PROVE  IInv'
<1>1. Cleared /\ owed' = owed /\ acknowledged' = acknowledged
  BY DEF LeaveWorkspace
<1> QED
  BY <1>1, Typed, ClearedKeeps

LEMMA ReloadKeeps ==
  ASSUME IInv, Reload
  PROVE  IInv'
<1>1. /\ calls' = GivenUp(Made) /\ token' = None /\ settled' = {} /\ owed' = {}
      /\ generation' = version /\ widget' = [w \in Widget |-> Hidden]
      /\ UNCHANGED <<gatewayVars, version, pending, acknowledged>>
  BY DEF Reload
<1>2. CacheTyped' /\ SettledIsAcknowledged' /\ CardsStand' /\ ShownIsAcknowledged'
  <2>1. widget' \in [Widget -> AnyCard] /\ \A w \in Widget : widget'[w] = Hidden
    BY <1>1 DEF Hidden, AnyCard
  <2>2. \A w \in Widget : widget'[w].shows # "ready" /\ widget'[w].floor <= acknowledged
    BY <2>1, Typed DEF Hidden
  <2> QED
    BY <1>1, <2>1, <2>2, Typed, CardsKeep
<1> QED
  BY <1>1, <1>2, Typed, GivenUpKeepsAll

\* An answer is parsed.
LEMMA ParsedKeepsAll ==
  ASSUME IInv, NEW c \in Made, Parsed(c), UNCHANGED acknowledged, \A v \in owed' : v <= version,
         CacheTyped', SettledIsAcknowledged', CardsStand', ShownIsAcknowledged'
  PROVE  IInv'
<1>1. DeliveryInv' /\ UNCHANGED <<version, entries>>
  BY ParsedKeeps DEF IInv, Parsed, gatewayVars
<1>2. Made' = Made
  BY DEF Parsed, Made
<1>3. \A d \in Made :
          /\ calls'[d].body = calls[d].body /\ calls'[d].server = calls[d].server
          /\ calls'[d].answer \in {None, calls[d].answer}
          /\ calls'[d].client = "open" => calls[d].client = "open"
  BY Typed DEF Parsed, AnyCall
<1>4. KnownVersions' /\ AnswersOfEnded' /\ AwaitedIsAcknowledged'
  <2>1. acknowledged' <= version /\ acknowledged' = acknowledged
    BY Typed
  <2> QED
    BY <1>1, <1>2, <1>3, <2>1, BrowserCalls
<1> QED
  BY <1>1, <1>4 DEF IInv

LEMMA BatchFailedKeeps ==
  ASSUME IInv, NEW c \in Made, BatchFailed(c)
  PROVE  IInv'
<1>1. /\ Parsed(c) /\ widget' = Rejected(Subscribers(c), "error")
      /\ UNCHANGED <<generation, settled, owed, acknowledged>>
  BY DEF BatchFailed
<1>2. CacheTyped' /\ SettledIsAcknowledged' /\ CardsStand' /\ ShownIsAcknowledged'
  <2>1. /\ widget' \in [Widget -> AnyCard]
        /\ \A w \in Widget :
             widget'[w] = widget[w] \/ (widget'[w].shows # "ready" /\ widget'[w].floor <= acknowledged)
    BY <1>1, RejectedCards
  <2> QED
    BY <1>1, <2>1, Typed, CardsKeep
<1> QED
  BY <1>1, <1>2, Typed, ParsedKeepsAll

LEMMA ChangeAnsweredKeeps ==
  ASSUME IInv, NEW c \in Made, ChangeAnswered(c)
  PROVE  IInv'
<1>1. /\ Parsed(c) /\ UNCHANGED <<generation, settled, widget, acknowledged>>
      /\ owed' = IF calls[c].answer = Refused THEN owed ELSE owed \union {calls[c].answer.version}
  BY DEF ChangeAnswered
<1>2. calls[c].answer \notin {None, Refused} =>
        calls[c].answer.version \in Nat /\ calls[c].answer.version <= version
  BY Typed DEF IInv, KnownVersions, AnyCall, Answers
<1>3. owed' \subseteq Nat /\ \A v \in owed' : v <= version
  BY <1>1, <1>2, Typed DEF Parsed
<1>4. CacheTyped' /\ SettledIsAcknowledged' /\ CardsStand' /\ ShownIsAcknowledged'
  BY <1>1, <1>3, Typed, CardsKeep
<1> QED
  BY <1>1, <1>3, <1>4, ParsedKeepsAll

\* A batch is answered: its result is one of its own, as new as what was
\* acknowledged, or a replayed one.
LEMMA BatchAnsweredKeeps ==
  ASSUME IInv, NEW c \in Made, BatchAnswered(c)
  PROVE  IInv'
<1> DEFINE result == [version |-> calls[c].answer.version, replayed |-> calls[c].answer.from # c]
<1>1. /\ c \in Batches /\ calls[c].answer \notin {None, Refused} /\ Parsed(c)
      /\ UNCHANGED <<generation, owed, acknowledged>>
  BY DEF BatchAnswered
<1>2. PICK good \in SUBSET calls[c].body :
        /\ widget' = [w \in Widget |->
             IF w \in Subscribers(c) /\ widget[w].plan \in good
             THEN [widget[w] EXCEPT !.shows = "ready", !.call = None, !.result = result]
             ELSE Rejected(Subscribers(c), "error")[w]]
        /\ settled' = Stored(good, result)
  BY DEF BatchAnswered
<1>3. /\ result \in CachedResult
      /\ result.replayed \/ result.version >= acknowledged
  <2>1. calls[c].answer \in [version : Nat, from : Nat] /\ calls[c].client = "open"
    BY <1>1, Typed DEF AnyCall, Answers, Parsed
  <2>2. calls[c].answer.from = c => calls[c].answer.version >= acknowledged
    BY <1>1, <2>1 DEF IInv, AwaitedIsAcknowledged
  <2> QED
    BY <2>1, <2>2 DEF CachedResult
<1> HIDE DEF result
<1>4. good \subseteq Plan
  BY <1>1, <1>2 DEF Batches, Batch
<1>5. CacheTyped' /\ SettledIsAcknowledged' /\ CardsStand' /\ ShownIsAcknowledged'
  <2>1. /\ settled' \subseteq [plan : Plan, generation : Nat, result : CachedResult]
        /\ SettledIsAcknowledged'
    <3>1. \A s \in settled' :
            s \in settled \/ \E p \in good : s = [plan |-> p, generation |-> generation, result |-> result]
      BY <1>2 DEF Stored
    <3> QED
      BY <1>1, <1>3, <1>4, <3>1, Typed DEF IInv, SettledIsAcknowledged
  <2>2. /\ Rejected(Subscribers(c), "error") \in [Widget -> AnyCard]
        /\ \A w \in Widget : LET r == Rejected(Subscribers(c), "error")[w] IN
             r = widget[w] \/ (r.shows # "ready" /\ r.floor <= acknowledged)
    BY RejectedCards
  <2>3. \A w \in Widget :
          /\ widget'[w] \in AnyCard
          /\ \/ widget'[w] = widget[w]
             \/ widget'[w].shows # "ready" /\ widget'[w].floor <= acknowledged
             \/ widget'[w].result = result /\ widget'[w].floor = widget[w].floor
    <3> SUFFICES ASSUME NEW w \in Widget
                 PROVE  /\ widget'[w] \in AnyCard
                        /\ \/ widget'[w] = widget[w]
                           \/ widget'[w].shows # "ready" /\ widget'[w].floor <= acknowledged
                           \/ widget'[w].result = result /\ widget'[w].floor = widget[w].floor
      OBVIOUS
    <3>1. widget[w] \in AnyCard
      BY Typed
    <3>2. CASE w \in Subscribers(c) /\ widget[w].plan \in good
      <4>1. widget'[w] = [widget[w] EXCEPT !.shows = "ready", !.call = None, !.result = result]
        BY <1>2, <3>2
      <4> QED
        BY <1>3, <3>1, <4>1 DEF AnyCard
    <3>3. CASE ~(w \in Subscribers(c) /\ widget[w].plan \in good)
      <4>1. widget'[w] = Rejected(Subscribers(c), "error")[w]
        BY <1>2, <3>3
      <4> QED
        BY <2>2, <4>1
    <3> QED
      BY <3>2, <3>3
  <2>4. widget' \in [Widget -> AnyCard]
    BY <1>2, <2>3
  <2>5. CacheTyped'
    BY <1>1, <2>1, <2>4, Typed DEF CacheTyped, AnyCard, CachedResult
  <2>6. \A w \in Widget : widget[w].floor <= acknowledged /\ widget[w].floor \in Nat
    BY Typed DEF IInv, CardsStand, AnyCard
  <2>7. CardsStand'
    BY <1>1, <1>3, <2>3, <2>6 DEF IInv, CardsStand, CachedResult
  <2>8. ShownIsAcknowledged'
    <3> SUFFICES ASSUME NEW w \in Widget, widget'[w].shows = "ready", ~widget'[w].result.replayed
                 PROVE  widget'[w].result.version >= widget'[w].floor
      BY DEF ShownIsAcknowledged
    <3>1. CASE widget'[w] = widget[w]
      BY <3>1 DEF IInv, ShownIsAcknowledged
    <3>2. CASE widget'[w].result = result /\ widget'[w].floor = widget[w].floor
      BY <1>3, <2>6, <3>2, Typed DEF CachedResult
    <3> QED
      BY <2>3, <3>1, <3>2
  <2> QED
    BY <2>1, <2>5, <2>7, <2>8
<1> QED
  BY <1>1, <1>5, Typed, ParsedKeepsAll

\* The widgets subscribe anew: to a result of the cache, or to a batch that begins.
LEMMA RenderKeeps ==
  ASSUME IInv, NEW mounted \in SUBSET Widget, NEW plans \in [mounted -> Plan],
         NEW g \in 0 .. version, NEW kept \in SUBSET settled, Render(plans, g, kept)
  PROVE  IInv'
<1> DEFINE cached(p) == {s \in kept : s.plan = p /\ s.generation = g}
           new == {p \in Range(plans) : cached(p) = {}}
           Hit(p) == (CHOOSE s \in cached(p) : TRUE).result
           Subscribed(p) ==
             [shows |-> IF p \in new THEN "loading" ELSE "ready", plan |-> p,
              call |-> IF p \in new THEN Len(calls) + 1 ELSE None,
              result |-> IF p \in new THEN None ELSE Hit(p),
              floor |-> acknowledged]
<1>1. /\ generation' = g /\ settled' = kept
      /\ widget' = [w \in Widget |-> IF w \in mounted THEN Subscribed(plans[w]) ELSE Hidden]
      /\ IF new = {} THEN calls' = GivenUp(Batches) /\ UNCHANGED browserVars
         ELSE Started(GivenUp(Batches), new)
      /\ UNCHANGED <<gatewayVars, version, failures, owed, acknowledged>>
  BY DEF Render
<1>2. \A p \in Range(plans) : p \in Plan
  BY DEF Range
<1>3. \A w \in mounted : plans[w] \in Range(plans)
  BY DEF Range
<1>4. ASSUME NEW p \in Range(plans), p \notin new
      PROVE  Hit(p) \in CachedResult /\ (Hit(p).replayed \/ Hit(p).version >= acknowledged)
  <2>1. (CHOOSE s \in cached(p) : TRUE) \in cached(p)
    BY <1>4
  <2>2. (CHOOSE s \in cached(p) : TRUE) \in settled
    BY <2>1
  <2> QED
    BY <2>2, Typed DEF IInv, SettledIsAcknowledged
<1>5. new \subseteq Plan
  BY <1>2
<1> HIDE DEF cached, new, Hit
<1>6. ASSUME NEW w \in Widget
      PROVE  /\ widget'[w] \in AnyCard /\ widget'[w].floor <= acknowledged
             /\ widget'[w].shows = "ready" =>
                  /\ widget'[w].result \in CachedResult
                  /\ widget'[w].result.replayed \/ widget'[w].result.version >= acknowledged
             /\ widget'[w].floor \in {0, acknowledged}
  <2>1. CASE w \notin mounted
    BY <1>1, <2>1, Typed DEF Hidden, AnyCard
  <2>2. CASE w \in mounted /\ plans[w] \in new
    <3>1. widget'[w] = [shows |-> "loading", plan |-> plans[w], call |-> Len(calls) + 1,
                        result |-> None, floor |-> acknowledged]
      BY <1>1, <2>2
    <3>2. Len(calls) + 1 \in Nat /\ plans[w] \in Plan
      BY <2>2, Typed, CallsTyped DEF DeliveryInv
    <3> QED
      BY <3>1, <3>2, Typed DEF AnyCard
  <2>3. CASE w \in mounted /\ plans[w] \notin new
    <3>1. widget'[w] = [shows |-> "ready", plan |-> plans[w], call |-> None,
                        result |-> Hit(plans[w]), floor |-> acknowledged]
      BY <1>1, <2>3
    <3>2. /\ Hit(plans[w]) \in CachedResult /\ plans[w] \in Plan
          /\ Hit(plans[w]).replayed \/ Hit(plans[w]).version >= acknowledged
      BY <1>3, <1>4, <2>3
    <3> QED
      BY <3>1, <3>2, Typed DEF AnyCard
  <2> QED
    BY <2>1, <2>2, <2>3
<1>7. CacheTyped'
  <2>1. widget' \in [Widget -> AnyCard]
    BY <1>1, <1>6
  <2>2. generation' \in Nat
    BY <1>1, Typed
  <2> QED
    BY <1>1, <2>1, <2>2, Typed DEF CacheTyped, AnyCard, CachedResult
<1>8. SettledIsAcknowledged' /\ CardsStand' /\ ShownIsAcknowledged'
  <2>1. SettledIsAcknowledged'
    BY <1>1 DEF IInv, SettledIsAcknowledged
  <2>2. CardsStand'
    BY <1>1, <1>6 DEF CardsStand, CachedResult
  <2>3. ShownIsAcknowledged'
    <3> SUFFICES ASSUME NEW w \in Widget, widget'[w].shows = "ready", ~widget'[w].result.replayed
                 PROVE  widget'[w].result.version >= widget'[w].floor
      BY DEF ShownIsAcknowledged
    <3> QED
      BY <1>6, Typed DEF CachedResult
  <2> QED
    BY <2>1, <2>2, <2>3
<1>9. CASE new = {}
  <2>1. calls' = GivenUp(Batches) /\ UNCHANGED <<pending, gatewayVars, version, owed, acknowledged>>
    BY <1>1, <1>9 DEF browserVars
  <2>2. token' \in Nat \union {None}
    BY <1>1, <1>9, Typed DEF browserVars
  <2> QED
    BY <1>7, <1>8, <2>1, <2>2, Typed, GivenUpKeepsAll
<1>10. CASE new # {}
  <2>1. Started(GivenUp(Batches), new)
    BY <1>1, <1>10
  <2>2. new \in Batch /\ new \in Body
    BY <1>5, <1>10, CacheAssumption DEF Batch
  <2>3. \A c \in Of(new) : GivenUp(Batches)[c].client # "open"
    <3> SUFFICES ASSUME NEW c \in Made, calls[c].body = new
                 PROVE  GivenUp(Batches)[c].client # "open"
      BY DEF Of
    <3>1. c \in Batches
      BY <2>2 DEF Batches
    <3> QED
      BY <3>1, GivenUpCalls, Typed
  <2>4. DeliveryInv' /\ UNCHANGED <<version, entries, owed, acknowledged>>
    BY <1>1, <2>1, <2>2, <2>3, Typed, StartedKeeps DEF gatewayVars
  <2>5. KnownVersions' /\ AnswersOfEnded' /\ AwaitedIsAcknowledged'
    <3> DEFINE n == Len(calls) + 1
    <3>1. Made' = Made \union {n} /\ calls'[n].answer = None
      BY <2>1, <2>2, Typed, StartedCalls
    <3>2. \A c \in Made :
            /\ calls'[c].body = calls[c].body /\ calls'[c].server = calls[c].server
            /\ calls'[c].answer \in {None, calls[c].answer}
            /\ calls'[c].client = "open" => calls[c].client = "open"
      BY <2>1, <2>2, Typed, StartedCalls
    <3>3. acknowledged <= version /\ \A v \in owed : v <= version
      BY Typed
    <3> HIDE DEF n
    <3> QED
      BY <2>4, <3>1, <3>2, <3>3, BrowserCalls
  <2> QED
    BY <1>7, <1>8, <2>4, <2>5 DEF IInv
<1> QED
  BY <1>9, <1>10

-----------------------------------------------------------------------------
(* The theorems                                                             *)

LEMMA InitHolds == Init => IInv
<1> SUFFICES ASSUME Init PROVE IInv
  OBVIOUS
<1>1. /\ calls = <<>> /\ entries = <<>> /\ Made = {} /\ Elements(entries) = {} /\ version = 0
      /\ generation = 0 /\ acknowledged = 0 /\ settled = {} /\ owed = {}
      /\ widget = [w \in Widget |-> Hidden]
  BY DEF Init, DeliveryInit, Made, Elements
<1>2. DeliveryInv
  <2>1. DeliveryTyped
    BY <1>1 DEF Init, DeliveryInit, DeliveryTyped
  <2>2. LastIsOpen /\ KeyStays /\ RepetitionsShareKeys
    BY <1>1 DEF LastIsOpen, KeyStays, RepetitionsShareKeys
  <2>3. OneEntryPerKey /\ RunningHasEntry /\ EffectIsKnown
    BY <1>1 DEF OneEntryPerKey, RunningHasEntry, EffectIsKnown
  <2> QED
    BY <2>1, <2>2, <2>3 DEF DeliveryInv
<1>3. CacheTyped
  BY <1>1 DEF CacheTyped, Hidden
<1>4. KnownVersions /\ AnswersOfEnded /\ AwaitedIsAcknowledged /\ SettledIsAcknowledged
  BY <1>1 DEF KnownVersions, AnswersOfEnded, AwaitedIsAcknowledged, SettledIsAcknowledged, Batches
<1>5. CardsStand /\ ShownIsAcknowledged
  BY <1>1 DEF CardsStand, ShownIsAcknowledged, Hidden
<1> QED
  BY <1>2, <1>3, <1>4, <1>5 DEF IInv

LEMMA StepKeeps == IInv /\ [Next]_vars => IInv'
<1> SUFFICES ASSUME IInv, [Next]_vars PROVE IInv'
  OBVIOUS
<1>1. CASE UNCHANGED vars
  <2>1. UNCHANGED <<deliveryVars, cacheVars, browserVars, gatewayVars, calls, version>>
    BY <1>1 DEF vars, deliveryVars
  <2>2. UNCHANGED <<pending, token, calls, life, entries, forgotten, version>>
    BY <2>1 DEF browserVars, gatewayVars
  <2>3. Made' = Made /\ Elements(entries)' = Elements(entries) /\ Keys(entries)' = Keys(entries)
    BY <2>2 DEF Made, Elements, Keys
  <2>4. DeliveryTyped' /\ LastIsOpen' /\ KeyStays' /\ RepetitionsShareKeys'
    BY <2>2, <2>3 DEF IInv, DeliveryInv, DeliveryTyped, LastIsOpen, KeyStays,
                      RepetitionsShareKeys, Repeats, Of
  <2>5. OneEntryPerKey' /\ RunningHasEntry' /\ EffectIsKnown'
    BY <2>2, <2>3 DEF IInv, DeliveryInv, OneEntryPerKey, RunningHasEntry, EffectIsKnown
  <2>6. KnownVersions' /\ AnswersOfEnded' /\ AwaitedIsAcknowledged'
    BY <2>1, <2>2, <2>3 DEF IInv, KnownVersions, AnswersOfEnded, AwaitedIsAcknowledged,
                            Batches, cacheVars
  <2>7. CacheTyped' /\ SettledIsAcknowledged' /\ CardsStand' /\ ShownIsAcknowledged'
    BY <2>1 DEF IInv, cacheVars, CacheTyped, SettledIsAcknowledged, CardsStand, ShownIsAcknowledged
  <2> QED
    BY <2>4, <2>5, <2>6, <2>7 DEF IInv, DeliveryInv
<1>2. CASE \E b \in Change : Confirm(b) /\ UNCHANGED cacheVars
  BY <1>2, ConfirmKeeps
<1>3. CASE \E mounted \in SUBSET Widget, g \in 0 .. version, kept \in SUBSET settled :
             \E plans \in [mounted -> Plan] : Render(plans, g, kept)
  BY <1>3, RenderKeeps
<1>4. CASE \E c \in Made : BatchAnswered(c) \/ BatchFailed(c) \/ ChangeAnswered(c) \/ Lose(c)
  BY <1>4, BatchAnsweredKeeps, BatchFailedKeeps, ChangeAnsweredKeeps, LoseKeeps
<1>5. CASE \E v \in owed : Invalidate(v)
  BY <1>5, InvalidateKeeps
<1>6. CASE LeaveWorkspace \/ Reload
  BY <1>6, LeaveWorkspaceKeeps, ReloadKeeps
<1>7. CASE GatewayStep /\ UNCHANGED cacheVars
  BY <1>7, GatewayKeepsAll
<1> QED
  BY <1>1, <1>2, <1>3, <1>4, <1>5, <1>6, <1>7 DEF Next, BrowserStep

\* The browser, the table of answers and the cache agree as IInv says, whatever is
\* lost, restarted or reloaded.
THEOREM WebInvariant == Spec => []IInv
BY InitHolds, StepKeeps, PTL DEF Spec

\* However often a change is repeated until it is answered, it takes effect once,
\* unless a gateway forgot its key: idempotencyKey and handleIdempotentMutation.
THEOREM ActsOncePerIntent == Spec => []OncePerIntent
<1>1. IInv => OncePerIntent
  BY InvariantGivesOncePerIntent DEF IInv
<1> QED
  BY <1>1, WebInvariant, PTL

\* No widget shows a result of its own older than the change that the cache was
\* invalidated for before it subscribed: invalidateTableQueryCache.
THEOREM ShowsWhatWasAcknowledged == Spec => []ShownIsAcknowledged
<1>1. IInv => ShownIsAcknowledged
  BY DEF IInv
<1> QED
  BY <1>1, WebInvariant, PTL
=============================================================================
