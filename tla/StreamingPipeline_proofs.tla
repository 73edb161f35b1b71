----------------------- MODULE StreamingPipeline_proofs -----------------------
(***************************************************************************)
(* The pipeline keeps its items in order and loses none, for sources of    *)
(* every length and every configuration of queues and batches: it          *)
(* implements OrderedStream, and no more items are drawn ahead of the      *)
(* caller than both queues, one batch and a hand can hold.                 *)
(***************************************************************************)
EXTENDS StreamingPipeline, SequenceTheorems, WellFoundedInduction, TLAPS

\* Items a + 1 .. b, in their order.
Interval(a, b) == [j \in 1 .. b - a |-> a + j]
Batch == IF config.batch_size > 0 THEN config.batch_size ELSE 1

\* The pieces follow one another from item a + 1 to item b, none longer than a batch: m[i]
\* is the last item of the first i of them.
Chain(pieces, a, b) ==
  \E m \in [0 .. Len(pieces) -> Nat] :
    /\ m[0] = a /\ m[Len(pieces)] = b
    /\ \A i, j \in 0 .. Len(pieces) : i <= j => m[i] <= m[j] /\ m[j] <= m[i] + (j - i) * Batch
    /\ \A i \in 1 .. Len(pieces) : pieces[i] = Interval(m[i - 1], m[i])
Pieces(q) == [i \in 1 .. Len(q) |-> q[i].items]

ProducerInv ==
  /\ hand = IF producer = "putting" THEN <<drawn>> ELSE <<>>
  /\ producer = "putting" => drawn >= 1
  /\ producer \in {"drawing", "putting", "finished"} => ~broken
  /\ producer = "failed" => broken
  /\ (producer \in {"closing", "finished"} /\ ~broken) => drawn = N

ConsumerInv ==
  /\ consumer = "getting" => work = <<>> /\ Len(items) < Batch /\ ~ending /\ ~stepBroke
  /\ consumer = "applying" => work # <<>> /\ items = <<>> /\ ~stepBroke
  /\ consumer = "putting" =>
       /\ items = <<>> /\ (result.kind = "exception" <=> stepBroke)
       /\ result.kind # "payload" => work = <<>> /\ result.items = <<>>
       /\ result.kind = "sentinel" => ending
  /\ consumer = "finished" => work = <<>> /\ items = <<>> /\ (~stepBroke => ending)

InQueueInv ==
  /\ \A i \in 1 .. Len(in_q) : in_q[i] = _SENTINEL => i = Len(in_q) /\ producer \in TaskEnds
  /\ ending => in_q = <<>> /\ producer \in TaskEnds
  /\ config.queue_size > 0 => Len(in_q) <= config.queue_size
OutQueueInv ==
  /\ \A i \in 1 .. Len(out_q) : out_q[i].kind # "payload" =>
       /\ i = Len(out_q) /\ consumer = "finished" /\ out_q[i].items = <<>>
       /\ out_q[i].kind = "sentinel" => ~stepBroke
  /\ config.queue_size > 0 => Len(out_q) <= config.queue_size

\* Where the items are: up to e with the caller or on out_q, up to g with the consumer, and
\* the rest on in_q or in the producer's hand.
OutAt(e) == Chain(Pieces(out_q), Len(delivered), e)
HeldAt(e, g) ==
  /\ e <= g /\ g <= e + Batch
  /\ consumer = "getting" => items = Interval(e, g)
  /\ consumer = "applying" => Chain(work, e, g)
  /\ (consumer = "putting" /\ ~stepBroke) =>
       \E r \in e .. g : result.items = Interval(e, r) /\ Chain(work, r, g)
  /\ (consumer = "finished" /\ ~stepBroke) => e = g
Waiting == IF in_q # <<>> /\ in_q[Len(in_q)] = _SENTINEL THEN Len(in_q) - 1 ELSE Len(in_q)
InAt(g) == drawn = g + Waiting + Len(hand) /\ \A i \in 1 .. Waiting : in_q[i] = g + i
Positions(e, g) == OutAt(e) /\ HeldAt(e, g) /\ InAt(g)

Running ==
  /\ reader # "ended"
  /\ producer # "cancelled" /\ consumer \notin {"failed", "cancelled"}
  /\ ProducerInv /\ ConsumerInv /\ InQueueInv /\ OutQueueInv
  /\ delivered = Interval(0, Len(delivered))
  /\ \E e, g \in Nat : Positions(e, g)
Ended == reader = "ended" /\ producer \in TaskEnds /\ consumer \in TaskEnds
StreamInv == IF outcome = "running" THEN Running ELSE Ended

LEMMA BatchSize == ASSUME config \in Configs PROVE Batch \in Nat \ {0} /\ config.queue_size \in Nat
BY ConfigsAssumption DEF Batch

\* A sequence of frames, of a batch or of its single items.
LEMMA FramesTyped ==
  ASSUME NEW batch \in Seq(1 .. N), NEW frames \in Frames(batch), batch # <<>>
  PROVE  frames \in Seq(Seq(1 .. N)) /\ frames # <<>>
<1>1. CASE frames = <<batch>>
  BY <1>1
<1>2. CASE frames = [i \in 1 .. Len(batch) |-> <<batch[i]>>]
  <2>1. \A i \in 1 .. Len(batch) : <<batch[i]>> \in Seq(1 .. N)
    <3>1. \A i \in 1 .. Len(batch) : batch[i] \in 1 .. N
      BY ElementOfSeq
    <3>2. \A x \in 1 .. N : <<x>> \in Seq(1 .. N)
      OBVIOUS
    <3> QED
      BY <3>1, <3>2
  <2>2. Len(batch) \in Nat \ {0}
    OBVIOUS
  <2> QED
    BY <1>2, <2>1, <2>2
<1> QED
  BY <1>1, <1>2 DEF Frames

LEMMA AppendTyped ==
  ASSUME NEW S, NEW s \in Seq(S), NEW x \in S
  PROVE  /\ Append(s, x) \in Seq(S) /\ Append(s, x) # <<>> /\ Len(Append(s, x)) = Len(s) + 1
         /\ \A i \in 1 .. Len(s) : Append(s, x)[i] = s[i]
         /\ Append(s, x)[Len(s) + 1] = x
<1>1. /\ Append(s, x) \in Seq(S) /\ Len(Append(s, x)) = Len(s) + 1 /\ Len(s) \in Nat
      /\ \A i \in 1 .. Len(s) : Append(s, x)[i] = s[i]
      /\ Append(s, x)[Len(s) + 1] = x
  BY AppendProperties
<1>2. Len(<<>>) = 0
  OBVIOUS
<1> QED
  BY <1>1, <1>2

LEMMA TypeStep ==
  ASSUME TypeOK, consumer = "applying" => work # <<>>, [Next]_vars
  PROVE  TypeOK'
<1>0. N \in Nat
  BY NAssumption
<1>1. ASSUME NEW batch \in Seq(1 .. N), batch # <<>>, Flush(batch)
      PROVE  /\ work' \in Seq(Seq(1 .. N)) /\ items' \in Seq(1 .. N) /\ consumer' = "applying"
             /\ UNCHANGED <<config, drawn, broken, hand, producer, result, stepBroke, out_q, reader,
                            delivered, outcome>>
  <2>1. work' \in Frames(batch)
    BY <1>1 DEF Flush
  <2> QED
    BY <1>1, <2>1, FramesTyped DEF Flush, producerVars, readerVars
<1>2. CASE Draw
  BY <1>0, <1>2 DEF Draw, TypeOK, consumerVars, readerVars
<1>3. CASE PutItem
  BY <1>0, <1>3 DEF PutItem, TypeOK, consumerVars, readerVars, _SENTINEL
<1>4. CASE SourceEnds \/ SourceRaises
  BY <1>4 DEF SourceEnds, SourceRaises, TypeOK, consumerVars, readerVars
<1>5. CASE PutSentinel
  BY <1>0, <1>5 DEF PutSentinel, TypeOK, consumerVars, readerVars, _SENTINEL, TaskEnds
<1>6. CASE GetItem
  <2> DEFINE batch == Append(items, Head(in_q))
  <2>1. Head(in_q) \in 1 .. N /\ Tail(in_q) \in Seq(_SENTINEL .. N)
    BY <1>0, <1>6 DEF GetItem, TypeOK, _SENTINEL
  <2>2. batch \in Seq(1 .. N) /\ batch # <<>>
    <3>1. items \in Seq(1 .. N)
      BY DEF TypeOK
    <3> DEFINE S == 1 .. N
               x == Head(in_q)
    <3>2. items \in Seq(S) /\ x \in S
      BY <2>1, <3>1
    <3> HIDE DEF S, x
    <3>3. Append(items, x) \in Seq(S) /\ Append(items, x) # <<>>
      BY <3>2, AppendTyped
    <3> QED
      BY <3>3 DEF S, x
  <2> HIDE DEF batch
  <2>3. CASE Flush(batch)
    BY <1>1, <1>6, <2>1, <2>2, <2>3 DEF GetItem, TypeOK
  <2>4. CASE ~Flush(batch)
    BY <1>6, <2>1, <2>2, <2>4 DEF GetItem, TypeOK, batch, producerVars, readerVars
  <2> QED
    BY <2>3, <2>4
<1>7. CASE GetSentinel
  <2>1. Tail(in_q) \in Seq(_SENTINEL .. N)
    BY <1>0, <1>7 DEF GetSentinel, TypeOK, _SENTINEL
  <2>2. CASE items # <<>>
    <3>1. Flush(items) /\ items \in Seq(1 .. N)
      BY <1>7, <2>2 DEF GetSentinel, TypeOK
    <3> QED
      BY <1>1, <1>7, <2>1, <2>2, <3>1 DEF GetSentinel, TypeOK
  <2>3. CASE items = <<>>
    <3>1. Done \in Result
      BY DEF Done, Result
    <3> QED
      BY <1>7, <2>1, <2>3, <3>1 DEF GetSentinel, TypeOK, producerVars, readerVars
  <2> QED
    BY <2>2, <2>3
<1>8. CASE Timeout
  <2>1. Flush(items) /\ items \in Seq(1 .. N) /\ items # <<>>
    BY <1>8 DEF Timeout, TypeOK
  <2> QED
    BY <1>1, <1>8, <2>1 DEF Timeout, TypeOK
<1>9. CASE ApplySteps
  <2>1. Raised \in Result
    BY DEF Raised, Result
  <2>2. consumer = "applying" /\ work # <<>> /\ work \in Seq(Seq(1 .. N))
    BY <1>9 DEF ApplySteps, TypeOK
  <2>3. Payload(Head(work)) \in Result /\ Tail(work) \in Seq(Seq(1 .. N))
    <3>1. Head(work) \in Seq(1 .. N) /\ Tail(work) \in Seq(Seq(1 .. N))
      BY <2>2
    <3> QED
      BY <3>1 DEF Payload, Result
  <2>4. result' \in Result /\ work' \in Seq(Seq(1 .. N)) /\ stepBroke' \in BOOLEAN
    <3>1. CASE result' = Payload(Head(work)) /\ work' = Tail(work) /\ UNCHANGED stepBroke
      BY <2>3, <3>1 DEF TypeOK
    <3>2. CASE result' = Raised /\ work' = <<>> /\ stepBroke' = TRUE
      BY <2>1, <3>2
    <3> QED
      BY <1>9, <3>1, <3>2 DEF ApplySteps
  <2> QED
    BY <1>9, <2>4 DEF ApplySteps, TypeOK, producerVars, readerVars
<1>10. CASE PutResult
  <2>1. Done \in Result
    BY DEF Done, Result
  <2>2. out_q' \in Seq(Result)
    BY <1>10 DEF PutResult, TypeOK
  <2>3. result' \in Result /\ consumer' \in {"getting", "applying", "putting"} \cup TaskEnds
    BY <1>10, <2>1 DEF PutResult, TypeOK, TaskEnds
  <2> QED
    BY <1>10, <2>2, <2>3 DEF PutResult, TypeOK, producerVars, readerVars
<1>11. ASSUME NEW reason \in Outcomes, Finish(reason), out_q' \in Seq(Result) PROVE TypeOK'
  <2>1. /\ producer' \in {"drawing", "putting", "closing"} \cup TaskEnds
        /\ consumer' \in {"getting", "applying", "putting"} \cup TaskEnds
    BY <1>11 DEF Finish, CancelledProducer, CancelledConsumer, TypeOK, TaskEnds
  <2>2. outcome' \in Outcomes
    BY <1>11 DEF Finish, Overriding, Outcomes
  <2> QED
    BY <1>11, <2>1, <2>2 DEF Finish, TypeOK
<1>12. CASE Check
  BY <1>11, <1>12 DEF Check, TypeOK, producerVars, consumerVars, Outcomes
<1>13. CASE Yield
  <2>1. /\ Head(out_q) \in Result /\ Tail(out_q) \in Seq(Result)
    BY <1>13 DEF Yield, TypeOK
  <2>2. delivered \o Head(out_q).items \in Seq(1 .. N)
    BY <2>1 DEF TypeOK, Result
  <2> QED
    BY <1>13, <2>1, <2>2 DEF Yield, TypeOK, producerVars, consumerVars
<1>14. CASE Stop
  <2>1. out_q' \in Seq(Result)
    BY <1>14 DEF Stop, TypeOK
  <2> QED
    BY <1>11, <1>14, <2>1 DEF Stop, Outcomes
<1>15. CASE Resume
  BY <1>15 DEF Resume, TypeOK, producerVars, consumerVars
<1>16. CASE Close
  BY <1>11, <1>16 DEF Close, Outcomes, TypeOK
<1>17. CASE UNCHANGED vars
  BY <1>17 DEF vars, producerVars, consumerVars, readerVars, TypeOK
<1> QED
  BY <1>2, <1>3, <1>4, <1>5, <1>6, <1>7, <1>8, <1>9, <1>10, <1>12, <1>13, <1>14, <1>15, <1>16, <1>17
     DEF Next, Producer, Consumer, Reader

-----------------------------------------------------------------------------
\* Intervals of items, and chains of them.
LEMMA IntervalFacts ==
  ASSUME NEW a \in Nat, NEW b \in Nat, a <= b
  PROVE  /\ Interval(a, b) \in Seq(Nat) /\ Len(Interval(a, b)) = b - a
         /\ \A i \in 1 .. b - a : Interval(a, b)[i] = a + i
         /\ Append(Interval(a, b), b + 1) = Interval(a, b + 1)
<1>1. b - a \in Nat /\ (b + 1) - a = (b - a) + 1
  OBVIOUS
<1>2. /\ Interval(a, b) \in Seq(Nat) /\ Len(Interval(a, b)) = b - a
      /\ \A i \in 1 .. b - a : Interval(a, b)[i] = a + i
  BY <1>1 DEF Interval
<1>3. Append(Interval(a, b), b + 1) = Interval(a, b + 1)
  <2>1. Append(Interval(a, b), b + 1)
          = [i \in 1 .. Len(Interval(a, b)) + 1 |->
               IF i = Len(Interval(a, b)) + 1 THEN b + 1 ELSE Interval(a, b)[i]]
    BY <1>2, AppendProperties
  <2>2. Append(Interval(a, b), b + 1) = [i \in 1 .. (b - a) + 1 |-> a + i]
    BY <1>1, <1>2, <2>1
  <2> QED
    BY <1>1, <2>2 DEF Interval
<1> QED
  BY <1>2, <1>3

LEMMA EmptyInterval == ASSUME NEW a \in Nat PROVE Interval(a, a) = <<>>
BY DEF Interval

LEMMA ChainEmpty == ASSUME NEW a \in Nat, Batch \in Nat PROVE Chain(<<>>, a, a)
<1> DEFINE m == [i \in 0 .. 0 |-> a]
<1>1. /\ m \in [0 .. Len(<<>>) -> Nat] /\ m[0] = a /\ m[Len(<<>>)] = a
      /\ \A i, j \in 0 .. Len(<<>>) : i <= j => m[i] <= m[j] /\ m[j] <= m[i] + (j - i) * Batch
      /\ \A i \in 1 .. Len(<<>>) : <<>>[i] = Interval(m[i - 1], m[i])
  OBVIOUS
<1> QED
  BY <1>1 DEF Chain

LEMMA ChainBounds ==
  ASSUME NEW pieces, NEW a, NEW b, Len(pieces) \in Nat, Batch \in Nat, Chain(pieces, a, b)
  PROVE  a \in Nat /\ b \in Nat /\ a <= b /\ b <= a + Len(pieces) * Batch
<1>1. PICK m \in [0 .. Len(pieces) -> Nat] :
        /\ m[0] = a /\ m[Len(pieces)] = b
        /\ \A i, j \in 0 .. Len(pieces) : i <= j => m[i] <= m[j] /\ m[j] <= m[i] + (j - i) * Batch
  BY DEF Chain
<1>2. m[0] \in Nat /\ m[Len(pieces)] \in Nat /\ 0 \in 0 .. Len(pieces)
      /\ Len(pieces) \in 0 .. Len(pieces)
  BY <1>1
<1>3. m[0] <= m[Len(pieces)] /\ m[Len(pieces)] <= m[0] + (Len(pieces) - 0) * Batch
  BY <1>1, <1>2
<1> QED
  BY <1>1, <1>2, <1>3

LEMMA ChainWitness ==
  ASSUME NEW pieces, NEW n \in Nat, Len(pieces) = n, NEW a, NEW b, NEW m \in [0 .. n -> Nat],
         m[0] = a, m[n] = b,
         \A i, j \in 0 .. n : i <= j => m[i] <= m[j] /\ m[j] <= m[i] + (j - i) * Batch,
         \A i \in 1 .. n : pieces[i] = Interval(m[i - 1], m[i])
  PROVE  Chain(pieces, a, b)
BY DEF Chain

\* The first piece of a chain, and the rest.
LEMMA ChainFirst ==
  ASSUME NEW S, NEW pieces \in Seq(S), pieces # <<>>, NEW a, NEW b, Batch \in Nat,
         Chain(pieces, a, b)
  PROVE  \E c \in Nat : /\ a <= c /\ c <= b /\ c <= a + Batch
                        /\ pieces[1] = Interval(a, c) /\ Chain(Tail(pieces), c, b)
<1> DEFINE n == Len(pieces)
<1>1. n \in Nat \ {0} /\ Len(Tail(pieces)) = n - 1 /\ \A i \in 1 .. n - 1 : Tail(pieces)[i] = pieces[i + 1]
  OBVIOUS
<1>2. PICK m \in [0 .. n -> Nat] :
        /\ m[0] = a /\ m[n] = b
        /\ \A i, j \in 0 .. n : i <= j => m[i] <= m[j] /\ m[j] <= m[i] + (j - i) * Batch
        /\ \A i \in 1 .. n : pieces[i] = Interval(m[i - 1], m[i])
  BY DEF Chain
<1> HIDE DEF n
<1> DEFINE w == [i \in 0 .. n - 1 |-> m[i + 1]]
<1>3. w \in [0 .. n - 1 -> Nat] /\ w[0] = m[1] /\ w[n - 1] = b
  BY <1>1, <1>2
<1>4. ASSUME NEW i \in 0 .. n - 1, NEW j \in 0 .. n - 1, i <= j
      PROVE  w[i] <= w[j] /\ w[j] <= w[i] + (j - i) * Batch
  <2>1. i + 1 \in 0 .. n /\ j + 1 \in 0 .. n /\ i + 1 <= j + 1 /\ (j + 1) - (i + 1) = j - i
    BY <1>1, <1>4
  <2> QED
    BY <1>2, <1>4, <2>1
<1>5. \A i \in 1 .. n - 1 : Tail(pieces)[i] = Interval(w[i - 1], w[i])
  <2> SUFFICES ASSUME NEW i \in 1 .. n - 1 PROVE Tail(pieces)[i] = Interval(w[i - 1], w[i])
    OBVIOUS
  <2>1. i + 1 \in 1 .. n /\ (i + 1) - 1 = i /\ i - 1 \in 0 .. n - 1 /\ (i - 1) + 1 = i /\ i \in 0 .. n - 1
    BY <1>1
  <2>2. pieces[i + 1] = Interval(m[i], m[i + 1])
    BY <1>2, <2>1
  <2> QED
    BY <1>1, <2>1, <2>2
<1>6. Chain(Tail(pieces), m[1], b)
  <2>1. n - 1 \in Nat
    BY <1>1
  <2> HIDE DEF w
  <2> QED
    BY <1>1, <1>3, <1>4, <1>5, <2>1, ChainWitness
<1>7. /\ m[1] \in Nat /\ m[0] <= m[1] /\ m[1] <= m[n] /\ m[1] <= m[0] + (1 - 0) * Batch
      /\ pieces[1] = Interval(m[1 - 1], m[1])
  BY <1>1, <1>2
<1> QED
  BY <1>2, <1>6, <1>7

\* A chain goes on with the items that follow.
LEMMA ChainAdd ==
  ASSUME NEW S, NEW pieces \in Seq(S), NEW a, NEW b, NEW c \in Nat, Batch \in Nat,
         Chain(pieces, a, b), b <= c, c <= b + Batch
  PROVE  Chain(Append(pieces, Interval(b, c)), a, c)
<1> DEFINE n == Len(pieces)
           q == Append(pieces, Interval(b, c))
<1>1. /\ n \in Nat /\ Len(q) = n + 1 /\ q[n + 1] = Interval(b, c)
      /\ \A i \in 1 .. n : q[i] = pieces[i]
  <2>1. pieces \in Seq(S \cup {Interval(b, c)}) /\ Interval(b, c) \in S \cup {Interval(b, c)}
    OBVIOUS
  <2> QED
    BY <2>1, AppendTyped
<1>2. PICK m \in [0 .. n -> Nat] :
        /\ m[0] = a /\ m[n] = b
        /\ \A i, j \in 0 .. n : i <= j => m[i] <= m[j] /\ m[j] <= m[i] + (j - i) * Batch
        /\ \A i \in 1 .. n : pieces[i] = Interval(m[i - 1], m[i])
  BY DEF Chain
<1> HIDE DEF n, q
<1> DEFINE w == [i \in 0 .. n + 1 |-> IF i = n + 1 THEN c ELSE m[i]]
<1>3. /\ w \in [0 .. n + 1 -> Nat] /\ w[0] = a /\ w[n + 1] = c
      /\ \A i \in 0 .. n : w[i] = m[i]
  BY <1>1, <1>2
<1> HIDE DEF w
<1>4. ASSUME NEW i \in 0 .. n + 1, NEW j \in 0 .. n + 1, i <= j
      PROVE  w[i] <= w[j] /\ w[j] <= w[i] + (j - i) * Batch
  <2>1. CASE j \in 0 .. n
    <3>1. i \in 0 .. n
      BY <1>1, <1>4, <2>1
    <3> QED
      BY <1>2, <1>3, <1>4, <2>1, <3>1
  <2>2. CASE j = n + 1 /\ i = n + 1
    BY <1>1, <1>3, <2>2
  <2>3. CASE j = n + 1 /\ i \in 0 .. n
    <3>1. m[i] <= b /\ b <= m[i] + (n - i) * Batch /\ m[i] \in Nat /\ b \in Nat
      <4>1. n \in 0 .. n /\ i <= n
        BY <1>1, <2>3
      <4> QED
        BY <1>2, <2>3, <4>1
    <3>2. \A x, y, u \in Nat : u = x + 1 => u * y = x * y + y /\ x * y \in Nat
      OBVIOUS
    <3>3. n - i \in Nat /\ j - i \in Nat /\ j - i = (n - i) + 1
      BY <1>1, <2>3
    <3>6. (j - i) * Batch = (n - i) * Batch + Batch /\ (n - i) * Batch \in Nat
      BY <3>2, <3>3, Zenon
    <3>7. w[j] = c /\ w[i] = m[i]
      <4>1. w[j] = w[n + 1]
        BY <2>3, Zenon
      <4> QED
        BY <1>3, <2>3, <4>1
    <3> DEFINE x == (n - i) * Batch
               y == (j - i) * Batch
    <3>4. x \in Nat /\ y = x + Batch /\ m[i] <= b /\ b <= m[i] + x
      BY <3>1, <3>6
    <3> HIDE DEF x, y
    <3>5. m[i] <= c /\ c <= m[i] + y
      <4>1. \A p, d, e, z, f \in Nat : p <= d /\ d <= p + z /\ d <= e /\ e <= d + f
                                     => p <= e /\ e <= p + (z + f)
        OBVIOUS
      <4> QED
        BY <3>1, <3>4, <4>1
    <3> QED
      BY <3>5, <3>7 DEF y
  <2> QED
    BY <1>1, <2>1, <2>2, <2>3
<1>5. \A i \in 1 .. n + 1 : q[i] = Interval(w[i - 1], w[i])
  <2> SUFFICES ASSUME NEW i \in 1 .. n + 1 PROVE q[i] = Interval(w[i - 1], w[i])
    OBVIOUS
  <2>1. CASE i = n + 1
    <3>1. i - 1 = n /\ n \in 0 .. n
      BY <1>1, <2>1
    <3> QED
      BY <1>1, <1>2, <1>3, <2>1, <3>1
  <2>2. CASE i \in 1 .. n
    <3>1. i - 1 \in 0 .. n /\ i \in 0 .. n
      BY <1>1, <2>2
    <3> QED
      BY <1>1, <1>2, <1>3, <2>2, <3>1
  <2> QED
    BY <1>1, <2>1, <2>2
<1>6. Chain(q, a, c)
  <2>1. n + 1 \in Nat
    BY <1>1
  <2> QED
    BY <1>1, <1>3, <1>4, <1>5, <2>1, ChainWitness
<1> QED
  BY <1>6 DEF q

\* The frames of a batch of items in their order are a chain.
LEMMA FramesChain ==
  ASSUME NEW a \in Nat, NEW b \in Nat, a < b, Batch \in Nat \ {0}, b <= a + Batch,
         NEW frames \in Frames(Interval(a, b))
  PROVE  Chain(frames, a, b)
<1>1. Len(Interval(a, b)) = b - a /\ \A i \in 1 .. b - a : Interval(a, b)[i] = a + i
  <2>1. a <= b
    OBVIOUS
  <2> QED
    BY <2>1, IntervalFacts
<1>2. CASE frames = <<Interval(a, b)>>
  <2> DEFINE m == [i \in 0 .. 1 |-> IF i = 0 THEN a ELSE b]
  <2>1. /\ Len(frames) = 1 /\ m \in [0 .. 1 -> Nat] /\ m[0] = a /\ m[1] = b
        /\ frames[1] = Interval(a, b)
    BY <1>2
  <2> HIDE DEF m
  <2>2. ASSUME NEW i \in 0 .. 1, NEW j \in 0 .. 1, i <= j
        PROVE  m[i] <= m[j] /\ m[j] <= m[i] + (j - i) * Batch
    BY <2>1, <2>2
  <2>3. \A i \in 1 .. 1 : frames[i] = Interval(m[i - 1], m[i])
    BY <2>1
  <2> QED
    BY <2>1, <2>2, <2>3 DEF Chain
<1>3. CASE frames = [i \in 1 .. Len(Interval(a, b)) |-> <<Interval(a, b)[i]>>]
  <2> DEFINE k == b - a
             m == [i \in 0 .. k |-> a + i]
  <2>1. k \in Nat \ {0} /\ a + k = b
    OBVIOUS
  <2>2. frames = [i \in 1 .. k |-> <<a + i>>]
    BY <1>1, <1>3
  <2> HIDE DEF k
  <2>3. /\ Len(frames) = k /\ m \in [0 .. k -> Nat] /\ m[0] = a /\ m[k] = b
        /\ \A i \in 0 .. k : m[i] = a + i
    BY <2>1, <2>2
  <2> HIDE DEF m
  <2>4. ASSUME NEW i \in 0 .. k, NEW j \in 0 .. k, i <= j
        PROVE  m[i] <= m[j] /\ m[j] <= m[i] + (j - i) * Batch
    <3>1. j - i \in Nat /\ m[j] = m[i] + (j - i)
      BY <2>1, <2>3, <2>4
    <3>2. \A x \in Nat, y \in Nat \ {0} : x <= x * y
      OBVIOUS
    <3>3. j - i <= (j - i) * Batch /\ (j - i) * Batch \in Nat
      BY <3>1, <3>2
    <3>4. m[i] \in Nat
      BY <2>3
    <3> QED
      BY <3>1, <3>3, <3>4
  <2>5. \A i \in 1 .. k : frames[i] = Interval(m[i - 1], m[i])
    <3> SUFFICES ASSUME NEW i \in 1 .. k PROVE frames[i] = Interval(m[i - 1], m[i])
      OBVIOUS
    <3>1. m[i - 1] = a + (i - 1) /\ m[i] = a + i
      BY <2>1, <2>3
    <3>2. Interval(a + (i - 1), a + i) = <<a + i>>
      <4>1. (a + i) - (a + (i - 1)) = 1
        BY <2>1
      <4>2. Interval(a + (i - 1), a + i) = [j \in 1 .. 1 |-> a + (i - 1) + j]
        BY <4>1 DEF Interval
      <4> QED
        BY <4>2
    <3> QED
      BY <2>2, <3>1, <3>2
  <2> QED
    BY <2>3, <2>4, <2>5 DEF Chain
<1> QED
  BY <1>2, <1>3 DEF Frames

LEMMA PiecesTyped ==
  ASSUME NEW q \in Seq(Result)
  PROVE  /\ Pieces(q) \in Seq(Seq(1 .. N)) /\ Len(Pieces(q)) = Len(q)
         /\ \A i \in 1 .. Len(q) : Pieces(q)[i] = q[i].items
<1>1. \A i \in 1 .. Len(q) : q[i] \in Result
  BY ElementOfSeq
<1>2. \A i \in 1 .. Len(q) : q[i].items \in Seq(1 .. N)
  BY <1>1 DEF Result
<1> QED
  BY <1>2 DEF Pieces

LEMMA PiecesFacts ==
  ASSUME NEW q \in Seq(Result)
  PROVE  /\ \A r \in Result : Pieces(Append(q, r)) = Append(Pieces(q), r.items)
         /\ q # <<>> => /\ Pieces(q) # <<>> /\ Pieces(q)[1] = Head(q).items
                        /\ Pieces(Tail(q)) = Tail(Pieces(q))
<1>2. Pieces(q) \in Seq(Seq(1 .. N)) /\ Len(Pieces(q)) = Len(q)
  BY PiecesTyped
<1>3. ASSUME NEW r \in Result PROVE Pieces(Append(q, r)) = Append(Pieces(q), r.items)
  <2>1. r.items \in Seq(1 .. N)
    BY DEF Result
  <2>2. Append(Pieces(q), r.items)
          = [i \in 1 .. Len(q) + 1 |-> IF i = Len(q) + 1 THEN r.items ELSE Pieces(q)[i]]
    BY <1>2, <2>1, AppendProperties
  <2>3. /\ Len(Append(q, r)) = Len(q) + 1 /\ Append(q, r)[Len(q) + 1] = r /\ Len(q) \in Nat
        /\ \A i \in 1 .. Len(q) : Append(q, r)[i] = q[i]
    BY AppendTyped
  <2>4. \A i \in 1 .. Len(q) : Pieces(q)[i] = q[i].items
    BY DEF Pieces
  <2>5. Pieces(Append(q, r)) = [i \in 1 .. Len(q) + 1 |-> Append(q, r)[i].items]
    BY <2>3 DEF Pieces
  <2> QED
    BY <2>2, <2>3, <2>4, <2>5
<1>4. ASSUME q # <<>>
      PROVE  /\ Pieces(q) # <<>> /\ Pieces(q)[1] = Head(q).items
             /\ Pieces(Tail(q)) = Tail(Pieces(q))
  <2>1. Len(q) \in Nat \ {0} /\ Head(q) = q[1] /\ Len(Tail(q)) = Len(q) - 1
        /\ \A i \in 1 .. Len(q) - 1 : Tail(q)[i] = q[i + 1]
    BY <1>4
  <2>2. Pieces(q)[1] = Head(q).items
    BY <2>1 DEF Pieces
  <2>3. Pieces(q) # <<>>
    BY <1>2, <2>1
  <2>4. Pieces(Tail(q)) \in Seq(Seq(1 .. N)) /\ Len(Pieces(Tail(q))) = Len(q) - 1
        /\ \A i \in 1 .. Len(q) - 1 : Pieces(Tail(q))[i] = q[i + 1].items
    <3>1. Tail(q) \in Seq(Result)
      BY <1>4
    <3>2. /\ Pieces(Tail(q)) \in Seq(Seq(1 .. N)) /\ Len(Pieces(Tail(q))) = Len(Tail(q))
          /\ \A i \in 1 .. Len(Tail(q)) : Pieces(Tail(q))[i] = Tail(q)[i].items
      BY <3>1, PiecesTyped
    <3>3. ASSUME NEW i \in 1 .. Len(q) - 1 PROVE Pieces(Tail(q))[i] = q[i + 1].items
      <4>1. i \in 1 .. Len(Tail(q))
        BY <2>1, <3>3
      <4>2. Pieces(Tail(q))[i] = Tail(q)[i].items
        BY <3>2, <4>1
      <4>3. Tail(q)[i] = q[i + 1]
        BY <2>1, <3>3
      <4> QED
        BY <4>2, <4>3, Zenon
    <3>4. Len(Pieces(Tail(q))) = Len(q) - 1
      BY <2>1, <3>2, Zenon
    <3> QED
      BY <3>2, <3>3, <3>4, Zenon
  <2>5. Tail(Pieces(q)) \in Seq(Seq(1 .. N)) /\ Len(Tail(Pieces(q))) = Len(q) - 1
        /\ \A i \in 1 .. Len(q) - 1 : Tail(Pieces(q))[i] = q[i + 1].items
    <3>1. /\ Tail(Pieces(q)) \in Seq(Seq(1 .. N)) /\ Len(Tail(Pieces(q))) = Len(q) - 1
          /\ \A i \in 1 .. Len(q) - 1 : Tail(Pieces(q))[i] = Pieces(q)[i + 1]
      BY <1>2, <2>3, HeadTailProperties
    <3>2. \A i \in 1 .. Len(q) - 1 : Pieces(q)[i + 1] = q[i + 1].items
      BY <2>1 DEF Pieces
    <3> QED
      BY <3>1, <3>2
  <2>6. Pieces(Tail(q)) = Tail(Pieces(q))
    BY <2>4, <2>5, SeqEqual
  <2> QED
    BY <2>2, <2>3, <2>6
<1> QED
  BY <1>3, <1>4

LEMMA ChainNone == ASSUME NEW a, NEW b, Batch \in Nat, Chain(<<>>, a, b) PROVE a = b
<1>1. Len(<<>>) = 0
  OBVIOUS
<1>2. a \in Nat /\ b \in Nat /\ a <= b /\ b <= a + 0 * Batch
  BY <1>1, ChainBounds
<1> QED
  BY <1>2

-----------------------------------------------------------------------------
\* What a step leaves alone stays where it is.
LEMMA SameChain ==
  ASSUME UNCHANGED config, NEW pieces, NEW a, NEW b
  PROVE  Batch' = Batch /\ (Chain(pieces, a, b)' <=> Chain(pieces, a, b))
<1>1. Batch' = Batch
  BY DEF Batch
<1> QED
  BY <1>1 DEF Chain

LEMMA OutNext ==
  ASSUME UNCHANGED config, NEW e
  PROVE  OutAt(e)' <=> Chain(Pieces(out_q'), Len(delivered'), e)
<1>1. Batch' = Batch
  BY DEF Batch
<1> QED
  BY <1>1 DEF OutAt, Chain, Pieces

LEMMA OutStays ==
  ASSUME UNCHANGED <<config, out_q, delivered>>, NEW e, OutAt(e)
  PROVE  OutAt(e)'
<1>1. Chain(Pieces(out_q'), Len(delivered'), e)
  BY DEF OutAt
<1> QED
  BY <1>1, OutNext

LEMMA HeldStays ==
  ASSUME UNCHANGED <<config, items, work, result, consumer, stepBroke>>, NEW e, NEW g, HeldAt(e, g)
  PROVE  HeldAt(e, g)'
<1>1. Batch' = Batch
  BY DEF Batch
<1>2. \A a, b : Chain(work, a, b)' <=> Chain(work, a, b)
  BY <1>1 DEF Chain
<1> QED
  BY <1>1, <1>2 DEF HeldAt

LEMMA InStays ==
  ASSUME UNCHANGED <<in_q, drawn, hand>>, NEW g, InAt(g)
  PROVE  InAt(g)'
BY DEF InAt, Waiting

\* While the producer runs, no sentinel is on in_q.
LEMMA NoSentinel ==
  ASSUME TypeOK, InQueueInv, producer \notin TaskEnds
  PROVE  /\ Waiting = Len(in_q) /\ ~ending
         /\ \A i \in 1 .. Len(in_q) : in_q[i] # _SENTINEL
<1>1. \A i \in 1 .. Len(in_q) : in_q[i] # _SENTINEL
  BY DEF InQueueInv
<1>2. in_q # <<>> => Len(in_q) \in 1 .. Len(in_q)
  BY DEF TypeOK
<1> QED
  BY <1>1, <1>2 DEF InQueueInv, Waiting

LEMMA PutOnInQ ==
  ASSUME TypeOK, InQueueInv, producer \notin TaskEnds, ~Full(in_q), NEW x \in 0 .. N,
         in_q' = Append(in_q, x), UNCHANGED <<config, ending>>,
         x = _SENTINEL => producer' \in TaskEnds
  PROVE  /\ InQueueInv'
         /\ Waiting' = IF x = _SENTINEL THEN Waiting ELSE Waiting + 1
         /\ \A i \in 1 .. Len(in_q) : in_q'[i] = in_q[i]
         /\ in_q'[Len(in_q) + 1] = x
         /\ Waiting = Len(in_q) /\ Len(in_q) \in Nat
<1>1. in_q \in Seq(_SENTINEL .. N) /\ x \in _SENTINEL .. N /\ Len(in_q) \in Nat
  BY DEF TypeOK, _SENTINEL
<1>2. /\ in_q' \in Seq(_SENTINEL .. N) /\ in_q' # <<>> /\ Len(in_q') = Len(in_q) + 1
      /\ \A i \in 1 .. Len(in_q) : in_q'[i] = in_q[i]
      /\ in_q'[Len(in_q) + 1] = x
  <2> DEFINE S == _SENTINEL .. N
  <2>1. in_q \in Seq(S) /\ x \in S
    BY <1>1
  <2> HIDE DEF S
  <2>2. /\ in_q' \in Seq(S) /\ in_q' # <<>> /\ Len(in_q') = Len(in_q) + 1
        /\ \A i \in 1 .. Len(in_q) : in_q'[i] = in_q[i]
        /\ in_q'[Len(in_q) + 1] = x
    BY <2>1, AppendTyped
  <2> QED
    BY <2>2 DEF S
<1>3. /\ Waiting = Len(in_q) /\ ~ending
      /\ \A i \in 1 .. Len(in_q) : in_q[i] # _SENTINEL
  BY NoSentinel
<1>4. \A i \in 1 .. Len(in_q') : in_q'[i] = _SENTINEL => i = Len(in_q') /\ producer' \in TaskEnds
  BY <1>1, <1>2, <1>3
<1>5. config.queue_size > 0 => Len(in_q') <= config.queue_size
  <2>1. config.queue_size \in Nat
    BY BatchSize DEF TypeOK
  <2> QED
    BY <1>1, <1>2, <2>1 DEF Full
<1>6. InQueueInv'
  BY <1>3, <1>4, <1>5 DEF InQueueInv
<1>7. Waiting' = IF x = _SENTINEL THEN Waiting ELSE Waiting + 1
  BY <1>1, <1>2, <1>3 DEF Waiting
<1> QED
  BY <1>1, <1>2, <1>3, <1>6, <1>7

-----------------------------------------------------------------------------
\* The steps of the producer.
LEMMA ProducerKeeps ==
  ASSUME Running, UNCHANGED <<config, consumerVars, out_q, readerVars>>, producer' # "cancelled",
         ProducerInv', InQueueInv', \A g \in Nat : InAt(g) => InAt(g)'
  PROVE  Running'
<1>1. UNCHANGED <<items, work, ending, result, consumer, stepBroke, reader, delivered, outcome>>
  BY DEF consumerVars, readerVars
<1>2. ConsumerInv'
  <2>1. Batch' = Batch
    BY DEF Batch
  <2> QED
    BY <1>1, <2>1 DEF Running, ConsumerInv
<1>3. OutQueueInv'
  BY <1>1 DEF Running, OutQueueInv
<1>4. \E e, g \in Nat : Positions(e, g)'
  <2>1. PICK e \in Nat, g \in Nat : Positions(e, g)
    BY DEF Running
  <2>2. OutAt(e)'
    BY <1>1, <2>1, OutStays DEF Positions
  <2>3. HeldAt(e, g)'
    BY <1>1, <2>1, HeldStays DEF Positions
  <2>4. InAt(g)'
    BY <2>1 DEF Positions
  <2> QED
    BY <2>2, <2>3, <2>4 DEF Positions
<1> QED
  BY <1>1, <1>2, <1>3, <1>4 DEF Running

LEMMA DrawKeeps == ASSUME TypeOK, Running, Draw PROVE Running'
<1>1. drawn \in Nat /\ producer \notin TaskEnds /\ hand = <<>>
  BY DEF TypeOK, Running, ProducerInv, Draw, TaskEnds
<1>2. ~ending /\ \A i \in 1 .. Len(in_q) : in_q[i] # _SENTINEL
  BY <1>1, NoSentinel DEF Running
<1>3. InQueueInv'
  BY <1>2 DEF Running, InQueueInv, Draw, consumerVars
<1>4. ProducerInv'
  BY <1>1 DEF Running, ProducerInv, Draw
<1>5. ASSUME NEW g \in Nat, InAt(g) PROVE InAt(g)'
  <2>1. Waiting' = Waiting /\ in_q' = in_q
    BY DEF Waiting, Draw
  <2>2. Len(hand) = 0 /\ Len(hand') = 1 /\ drawn' = drawn + 1
    BY <1>1 DEF Draw
  <2>3. Waiting \in Int
    BY DEF Waiting, TypeOK
  <2> QED
    BY <1>5, <2>1, <2>2, <2>3 DEF InAt
<1> QED
  BY <1>3, <1>4, <1>5, ProducerKeeps DEF Draw

LEMMA PutItemKeeps == ASSUME TypeOK, Running, PutItem PROVE Running'
<1>1. /\ drawn \in 1 .. N /\ producer \notin TaskEnds /\ hand = <<drawn>>
      /\ producer' = "drawing" /\ hand' = <<>> /\ drawn' = drawn
  BY NAssumption DEF TypeOK, Running, ProducerInv, PutItem, TaskEnds
<1>2. in_q' = Append(in_q, drawn)
  BY <1>1 DEF PutItem, TypeOK
<1>3. /\ InQueueInv' /\ Waiting' = Waiting + 1 /\ Waiting = Len(in_q) /\ Len(in_q) \in Nat
      /\ \A i \in 1 .. Len(in_q) : in_q'[i] = in_q[i]
      /\ in_q'[Len(in_q) + 1] = drawn
  <2>1. drawn # _SENTINEL /\ drawn \in 0 .. N /\ ~Full(in_q) /\ UNCHANGED <<config, ending>>
    BY <1>1 DEF _SENTINEL, PutItem, consumerVars
  <2> QED
    BY <1>1, <1>2, <2>1, PutOnInQ DEF Running
<1>4. ProducerInv'
  BY <1>1 DEF Running, ProducerInv, PutItem
<1>5. ASSUME NEW g \in Nat, InAt(g) PROVE InAt(g)'
  <2>1. drawn = g + Waiting + 1 /\ \A i \in 1 .. Waiting : in_q[i] = g + i
    BY <1>1, <1>5 DEF InAt
  <2>2. drawn' = g + Waiting' + Len(hand')
    BY <1>1, <1>3, <2>1
  <2>3. \A i \in 1 .. Waiting' : in_q'[i] = g + i
    BY <1>3, <2>1
  <2> QED
    BY <2>2, <2>3 DEF InAt
<1> QED
  BY <1>1, <1>3, <1>4, <1>5, ProducerKeeps DEF PutItem

LEMMA SourceStopsKeeps == ASSUME TypeOK, Running, SourceEnds \/ SourceRaises PROVE Running'
<1>1. producer = "drawing" /\ producer' = "closing" /\ UNCHANGED <<config, drawn, hand, in_q, ending>>
      /\ (broken' \/ (drawn = N /\ UNCHANGED broken))
  BY DEF SourceEnds, SourceRaises, consumerVars
<1>2. ~ending /\ \A i \in 1 .. Len(in_q) : in_q[i] # _SENTINEL
  BY <1>1, NoSentinel DEF Running, TaskEnds
<1>3. InQueueInv'
  BY <1>1, <1>2 DEF Running, InQueueInv
<1>4. ProducerInv'
  BY <1>1 DEF Running, ProducerInv
<1>5. ASSUME NEW g \in Nat, InAt(g) PROVE InAt(g)'
  BY <1>1, <1>5, InStays
<1> QED
  BY <1>1, <1>3, <1>4, <1>5, ProducerKeeps DEF SourceEnds, SourceRaises

LEMMA PutSentinelKeeps == ASSUME TypeOK, Running, PutSentinel PROVE Running'
<1>1. /\ producer = "closing" /\ producer' = (IF broken THEN "failed" ELSE "finished")
      /\ UNCHANGED <<config, drawn, broken, hand, ending>>
  BY DEF PutSentinel, consumerVars
<1>2. /\ InQueueInv' /\ Waiting' = Waiting /\ Waiting = Len(in_q)
      /\ \A i \in 1 .. Len(in_q) : in_q'[i] = in_q[i]
  <2>1. producer \notin TaskEnds /\ producer' \in TaskEnds /\ _SENTINEL \in 0 .. N
    BY <1>1, NAssumption DEF TaskEnds, _SENTINEL
  <2> QED
    BY <1>1, <2>1, PutOnInQ DEF PutSentinel, Running
<1>3. ProducerInv'
  BY <1>1 DEF Running, ProducerInv, TypeOK
<1>4. ASSUME NEW g \in Nat, InAt(g) PROVE InAt(g)'
  BY <1>1, <1>2, <1>4 DEF InAt
<1> QED
  BY <1>1, <1>2, <1>3, <1>4, ProducerKeeps DEF PutSentinel

-----------------------------------------------------------------------------
\* The steps of the consumer.
LEMMA TakeFromInQ ==
  ASSUME TypeOK, InQueueInv, in_q # <<>>, in_q' = Tail(in_q), UNCHANGED <<config, producer>>,
         ending' => Head(in_q) = _SENTINEL, ~ending
  PROVE  /\ InQueueInv'
         /\ Head(in_q) # _SENTINEL =>
              /\ Waiting \in Nat \ {0} /\ Waiting' = Waiting - 1
              /\ Head(in_q) = in_q[1] /\ \A i \in 1 .. Waiting - 1 : in_q'[i] = in_q[i + 1]
         /\ Head(in_q) = _SENTINEL => Waiting = 0 /\ Waiting' = 0 /\ producer \in TaskEnds
<1> DEFINE n == Len(in_q)
<1>1. /\ n \in Nat \ {0} /\ Head(in_q) = in_q[1] /\ Len(in_q') = n - 1
      /\ \A i \in 1 .. n - 1 : in_q'[i] = in_q[i + 1]
      /\ in_q' \in Seq(_SENTINEL .. N)
  BY DEF TypeOK
<1>2. n - 1 = 0 <=> in_q' = <<>>
  <2>1. in_q' = <<>> => Len(in_q') = 0
    OBVIOUS
  <2>2. in_q' # <<>> => Len(in_q') \in Nat \ {0}
    BY <1>1, EmptySeq
  <2> QED
    BY <1>1, <2>1, <2>2
<1>3. \A i \in 1 .. n : in_q[i] = _SENTINEL => i = n /\ producer \in TaskEnds
  BY DEF InQueueInv
<1>4. Head(in_q) = _SENTINEL => n = 1 /\ in_q' = <<>> /\ producer \in TaskEnds
  <2>1. 1 \in 1 .. n
    BY <1>1
  <2>2. in_q[1] = _SENTINEL => 1 = n /\ producer \in TaskEnds
    BY <1>3, <2>1
  <2> QED
    BY <1>1, <1>2, <2>2
<1> HIDE DEF n
<1>5. InQueueInv'
  <2>1. \A i \in 1 .. n - 1 : in_q'[i] = _SENTINEL => i = n - 1 /\ producer' \in TaskEnds
    <3> SUFFICES ASSUME NEW i \in 1 .. n - 1, in_q'[i] = _SENTINEL
                 PROVE  i = n - 1 /\ producer' \in TaskEnds
      OBVIOUS
    <3>1. i + 1 \in 1 .. n /\ in_q[i + 1] = _SENTINEL
      BY <1>1
    <3> QED
      BY <1>1, <1>3, <3>1
  <2>2. config.queue_size \in Nat
    BY BatchSize DEF TypeOK
  <2>3. config.queue_size > 0 => n - 1 <= config.queue_size
    <3>1. config.queue_size > 0 => n <= config.queue_size
      BY DEF InQueueInv, n
    <3> QED
      BY <1>1, <2>2, <3>1
  <2> QED
    BY <1>1, <1>4, <2>1, <2>3 DEF InQueueInv
<1>6. CASE Head(in_q) # _SENTINEL
  <2>1. CASE in_q[n] = _SENTINEL
    <3>1. n > 1 /\ Waiting = n - 1
      BY <1>1, <1>6, <2>1 DEF Waiting, n
    <3>2. in_q'[n - 1] = _SENTINEL /\ in_q' # <<>> /\ Len(in_q') = n - 1
      <4>1. n - 1 \in 1 .. n - 1 /\ (n - 1) + 1 = n
        BY <1>1, <3>1
      <4> QED
        BY <1>1, <1>2, <2>1, <4>1
    <3>3. Waiting' = n - 2
      BY <1>1, <3>2 DEF Waiting
    <3> QED
      BY <1>1, <1>5, <1>6, <3>1, <3>3
  <2>2. CASE in_q[n] # _SENTINEL
    <3>1. Waiting = n
      BY <1>1, <2>2 DEF Waiting, n
    <3>2. in_q' # <<>> => in_q'[n - 1] # _SENTINEL
      <4>1. ASSUME in_q' # <<>> PROVE n - 1 \in 1 .. n - 1 /\ (n - 1) + 1 = n
        BY <1>1, <1>2, <4>1
      <4> QED
        BY <1>1, <2>2, <4>1
    <3>3. Waiting' = n - 1
      BY <1>1, <3>2 DEF Waiting
    <3> QED
      BY <1>1, <1>5, <1>6, <3>1, <3>3
  <2> QED
    BY <2>1, <2>2
<1>7. CASE Head(in_q) = _SENTINEL
  <2>1. Waiting = 0
    BY <1>1, <1>4, <1>7 DEF Waiting, n
  <2>2. Waiting' = 0
    <3>1. Len(<<>>) = 0
      OBVIOUS
    <3> QED
      BY <1>4, <1>7, <3>1 DEF Waiting
  <2> QED
    BY <1>4, <1>5, <1>7, <2>1, <2>2
<1> QED
  BY <1>6, <1>7

\* A consumer that does not put anything on out_q.
LEMMA OutQueueStays ==
  ASSUME Running, UNCHANGED <<config, out_q>>, consumer \notin TaskEnds
  PROVE  OutQueueInv'
<1>1. \A i \in 1 .. Len(out_q) : out_q[i].kind = "payload"
  BY DEF Running, OutQueueInv, TaskEnds
<1> QED
  BY <1>1 DEF Running, OutQueueInv

LEMMA FlushHeld ==
  ASSUME NEW e \in Nat, NEW g \in Nat, e < g, g <= e + Batch, Batch \in Nat \ {0},
         Flush(Interval(e, g)), ~stepBroke
  PROVE  HeldAt(e, g)' /\ ConsumerInv'
<1>1. /\ work' \in Frames(Interval(e, g)) /\ items' = <<>> /\ consumer' = "applying" /\ ~stepBroke'
      /\ UNCHANGED config
  BY DEF Flush
<1>2. Chain(work', e, g)
  BY <1>1, FramesChain
<1>3. Batch' = Batch
  BY <1>1 DEF Batch
<1>4. Chain(work, e, g)'
  BY <1>2, <1>3 DEF Chain
<1>5. work' # <<>>
  <2>1. Len(Interval(e, g)) = g - e
    <3>1. e <= g
      OBVIOUS
    <3> QED
      BY <3>1, IntervalFacts
  <2>2. CASE work' = <<Interval(e, g)>>
    BY <2>2
  <2>3. CASE work' = [i \in 1 .. Len(Interval(e, g)) |-> <<Interval(e, g)[i]>>]
    <3> DEFINE k == g - e
    <3>1. k \in Nat \ {0} /\ Len(Interval(e, g)) = k
      BY <2>1
    <3> HIDE DEF k
    <3>2. Len(work') = k
      BY <2>3, <3>1
    <3> QED
      BY <3>1, <3>2
  <2> QED
    BY <1>1, <2>2, <2>3 DEF Frames
<1>6. HeldAt(e, g)'
  BY <1>1, <1>3, <1>4 DEF HeldAt
<1>7. ConsumerInv'
  BY <1>1, <1>5 DEF ConsumerInv
<1> QED
  BY <1>6, <1>7

\* What is left to show of a step of the consumer that puts nothing on out_q.
LEMMA ConsumerKeeps ==
  ASSUME Running, UNCHANGED <<config, producerVars, out_q, readerVars>>, consumer \notin TaskEnds,
         consumer' \notin TaskEnds, ConsumerInv', InQueueInv',
         NEW e \in Nat, NEW g \in Nat, OutAt(e), HeldAt(e, g)', InAt(g)'
  PROVE  Running'
<1>1. UNCHANGED <<drawn, broken, hand, producer, reader, delivered, outcome>>
  BY DEF producerVars, readerVars
<1>2. ProducerInv'
  BY <1>1 DEF Running, ProducerInv
<1>3. OutQueueInv'
  BY OutQueueStays
<1>4. OutAt(e)'
  BY <1>1, OutStays
<1>5. Positions(e, g)'
  BY <1>4 DEF Positions
<1>6. (\E x, y \in Nat : Positions(x, y))'
  BY <1>5
<1> QED
  BY <1>1, <1>2, <1>3, <1>6 DEF Running, TaskEnds

LEMMA GetItemKeeps == ASSUME TypeOK, Running, GetItem PROVE Running'
<1>1. PICK e \in Nat, g \in Nat : OutAt(e) /\ HeldAt(e, g) /\ InAt(g)
  BY DEF Running, Positions
<1>2. /\ consumer = "getting" /\ items = Interval(e, g) /\ Len(items) < Batch /\ ~ending /\ ~stepBroke
      /\ work = <<>> /\ e <= g
  BY <1>1 DEF GetItem, Running, ConsumerInv, HeldAt
<1>3. Batch \in Nat \ {0}
  BY BatchSize DEF TypeOK
<1>4. /\ in_q # <<>> /\ Head(in_q) # _SENTINEL /\ in_q' = Tail(in_q) /\ ~ending'
      /\ UNCHANGED <<config, producer, drawn, hand>>
  BY <1>2 DEF GetItem, Flush, producerVars
<1>5. /\ InQueueInv' /\ Waiting \in Nat \ {0} /\ Waiting' = Waiting - 1
      /\ Head(in_q) = in_q[1] /\ \A i \in 1 .. Waiting - 1 : in_q'[i] = in_q[i + 1]
  BY <1>2, <1>4, TakeFromInQ DEF Running
<1>6. drawn = g + Waiting + Len(hand) /\ \A i \in 1 .. Waiting : in_q[i] = g + i
  BY <1>1 DEF InAt
<1>7. Head(in_q) = g + 1
  <2>1. 1 \in 1 .. Waiting
    BY <1>5
  <2> QED
    BY <1>5, <1>6, <2>1
<1>8. InAt(g + 1)'
  <2>1. drawn' = (g + 1) + Waiting' + Len(hand')
    <3>1. Len(hand) \in Nat
      BY DEF TypeOK
    <3> QED
      BY <1>4, <1>5, <1>6, <3>1
  <2>2. \A i \in 1 .. Waiting' : in_q'[i] = (g + 1) + i
    BY <1>5, <1>6
  <2> QED
    BY <2>1, <2>2 DEF InAt
<1>9. /\ Append(items, Head(in_q)) = Interval(e, g + 1) /\ Len(items) = g - e
      /\ Len(Interval(e, g + 1)) = (g - e) + 1
  <2>1. Len(Interval(e, g)) = g - e /\ Append(Interval(e, g), g + 1) = Interval(e, g + 1)
    BY <1>2, IntervalFacts
  <2>2. g + 1 \in Nat /\ e <= g + 1 /\ (g + 1) - e = (g - e) + 1
    BY <1>2
  <2>3. Len(Interval(e, g + 1)) = (g + 1) - e
    BY <2>2, IntervalFacts
  <2> QED
    BY <1>2, <1>7, <2>1, <2>2, <2>3
<1>10. e < g + 1 /\ g + 1 <= e + Batch /\ g + 1 \in Nat
  BY <1>2, <1>3, <1>9
<1>11. UNCHANGED <<config, producerVars, out_q, readerVars>> /\ consumer \notin TaskEnds
  BY <1>2 DEF GetItem, Flush, TaskEnds
<1>12. CASE Flush(Interval(e, g + 1))
  <2>1. HeldAt(e, g + 1)' /\ ConsumerInv' /\ consumer' \notin TaskEnds
    BY <1>2, <1>3, <1>10, <1>12, FlushHeld DEF Flush, TaskEnds
  <2> QED
    BY <1>1, <1>5, <1>8, <1>10, <1>11, <2>1, ConsumerKeeps
<1>13. CASE ~Flush(Interval(e, g + 1))
  <2>1. /\ ~(Len(Interval(e, g + 1)) >= config.batch_size) /\ items' = Interval(e, g + 1)
        /\ UNCHANGED <<work, result, consumer, stepBroke>>
    BY <1>9, <1>13 DEF GetItem
  <2>2. (g - e) + 1 < config.batch_size /\ Batch = config.batch_size
    <3>1. config.batch_size \in Nat
      BY ConfigsAssumption DEF TypeOK
    <3>2. (g - e) + 1 < config.batch_size
      BY <1>2, <1>9, <2>1, <3>1
    <3>3. config.batch_size > 0
      BY <1>2, <3>1, <3>2
    <3> QED
      BY <3>2, <3>3 DEF Batch
  <2>3. Batch' = Batch
    BY <1>4 DEF Batch
  <2>4. ConsumerInv'
    BY <1>2, <1>4, <1>9, <2>1, <2>2, <2>3 DEF ConsumerInv
  <2>5. HeldAt(e, g + 1)'
    BY <1>2, <1>10, <2>1, <2>3 DEF HeldAt
  <2>6. consumer' \notin TaskEnds
    BY <1>11, <2>1
  <2> QED
    BY <1>1, <1>5, <1>8, <1>10, <1>11, <2>4, <2>5, <2>6, ConsumerKeeps
<1> QED
  BY <1>12, <1>13

LEMMA GetSentinelKeeps == ASSUME TypeOK, Running, GetSentinel PROVE Running'
<1>1. PICK e \in Nat, g \in Nat : OutAt(e) /\ HeldAt(e, g) /\ InAt(g)
  BY DEF Running, Positions
<1>2. /\ consumer = "getting" /\ items = Interval(e, g) /\ ~ending /\ ~stepBroke
      /\ work = <<>> /\ e <= g /\ g <= e + Batch
  BY <1>1 DEF GetSentinel, Running, ConsumerInv, HeldAt
<1>3. Batch \in Nat \ {0}
  BY BatchSize DEF TypeOK
<1>4. /\ in_q # <<>> /\ Head(in_q) = _SENTINEL /\ in_q' = Tail(in_q) /\ ending'
      /\ UNCHANGED <<config, producer, drawn, hand>>
  BY <1>2 DEF GetSentinel, Flush, producerVars
<1>5. InQueueInv' /\ Waiting = 0 /\ Waiting' = 0
  BY <1>2, <1>4, TakeFromInQ DEF Running
<1>6. InAt(g)'
  BY <1>1, <1>4, <1>5 DEF InAt
<1>7. UNCHANGED <<config, producerVars, out_q, readerVars>> /\ consumer \notin TaskEnds
  BY <1>2 DEF GetSentinel, Flush, TaskEnds
<1>8. CASE items # <<>>
  <2>1. e < g
    BY <1>2, <1>8, EmptyInterval
  <2>2. HeldAt(e, g)' /\ ConsumerInv' /\ consumer' \notin TaskEnds
    BY <1>2, <1>3, <1>8, <2>1, FlushHeld DEF GetSentinel, Flush, TaskEnds
  <2> QED
    BY <1>1, <1>5, <1>6, <1>7, <2>2, ConsumerKeeps
<1>9. CASE items = <<>>
  <2>1. e = g
    <3>1. Len(items) = g - e
      BY <1>2, IntervalFacts
    <3>2. Len(items) = 0
      BY <1>9
    <3> QED
      BY <3>1, <3>2
  <2>2. /\ result' = Done /\ consumer' = "putting" /\ UNCHANGED <<items, work, stepBroke, config>>
    BY <1>9 DEF GetSentinel
  <2>3. ConsumerInv'
    BY <1>2, <1>4, <1>9, <2>2 DEF ConsumerInv, Done
  <2>4. Batch' = Batch
    BY <1>4 DEF Batch
  <2>5. Chain(work, e, e)'
    <3>1. Chain(work, e, e)
      BY <1>2, <1>3, ChainEmpty
    <3> QED
      BY <2>2, <2>4, <3>1 DEF Chain
  <2>6. HeldAt(e, g)'
    <3>1. e \in e .. g /\ result'.items = Interval(e, e)
      BY <2>1, <2>2, EmptyInterval DEF Done
    <3> QED
      BY <1>2, <2>1, <2>2, <2>4, <2>5, <3>1 DEF HeldAt
  <2> QED
    BY <1>1, <1>5, <1>6, <1>7, <2>2, <2>3, <2>6, ConsumerKeeps DEF TaskEnds
<1> QED
  BY <1>8, <1>9

LEMMA TimeoutKeeps == ASSUME TypeOK, Running, Timeout PROVE Running'
<1>1. PICK e \in Nat, g \in Nat : OutAt(e) /\ HeldAt(e, g) /\ InAt(g)
  BY DEF Running, Positions
<1>2. /\ consumer = "getting" /\ items = Interval(e, g) /\ ~ending /\ ~stepBroke
      /\ work = <<>> /\ e <= g /\ g <= e + Batch /\ items # <<>>
  BY <1>1 DEF Timeout, Running, ConsumerInv, HeldAt
<1>3. Batch \in Nat \ {0}
  BY BatchSize DEF TypeOK
<1>4. /\ Flush(items) /\ UNCHANGED <<in_q, ending>>
      /\ UNCHANGED <<config, producerVars, out_q, readerVars>> /\ consumer' = "applying"
  BY DEF Timeout, Flush
<1>5. e < g
  BY <1>2, EmptyInterval
<1>6. HeldAt(e, g)' /\ ConsumerInv'
  BY <1>2, <1>3, <1>4, <1>5, FlushHeld
<1>7. InQueueInv' /\ InAt(g)'
  BY <1>1, <1>4, InStays DEF Running, InQueueInv, producerVars
<1> QED
  BY <1>1, <1>2, <1>4, <1>6, <1>7, ConsumerKeeps DEF TaskEnds

LEMMA ApplyKeeps == ASSUME TypeOK, Running, ApplySteps PROVE Running'
<1>1. PICK e \in Nat, g \in Nat : OutAt(e) /\ HeldAt(e, g) /\ InAt(g)
  BY DEF Running, Positions
<1>2. /\ consumer = "applying" /\ work # <<>> /\ items = <<>> /\ ~stepBroke
      /\ Chain(work, e, g) /\ e <= g /\ g <= e + Batch
  BY <1>1 DEF ApplySteps, Running, ConsumerInv, HeldAt
<1>3. Batch \in Nat \ {0} /\ Batch' = Batch
  BY BatchSize DEF TypeOK, ApplySteps, Batch
<1>4. /\ UNCHANGED <<in_q, ending, items>> /\ consumer' = "putting"
      /\ UNCHANGED <<config, producerVars, out_q, readerVars>>
  BY DEF ApplySteps
<1>5. InQueueInv' /\ InAt(g)'
  BY <1>1, <1>4, InStays DEF Running, InQueueInv, producerVars
<1>6. HeldAt(e, g)' /\ ConsumerInv'
  <2>1. CASE result' = Payload(Head(work)) /\ work' = Tail(work) /\ UNCHANGED stepBroke
    <3>1. PICK c \in Nat : e <= c /\ c <= g /\ work[1] = Interval(e, c) /\ Chain(Tail(work), c, g)
      BY <1>2, <1>3, ChainFirst DEF TypeOK
    <3>2. result'.items = Interval(e, c) /\ result'.kind = "payload"
      BY <2>1, <3>1 DEF Payload
    <3>3. Chain(work, c, g)'
      BY <1>3, <2>1, <3>1 DEF Chain
    <3>4. HeldAt(e, g)'
      <4>1. c \in e .. g
        BY <3>1
      <4> QED
        BY <1>2, <1>3, <1>4, <3>2, <3>3, <4>1 DEF HeldAt
    <3>5. ConsumerInv'
      BY <1>2, <1>4, <2>1, <3>2 DEF ConsumerInv
    <3> QED
      BY <3>4, <3>5
  <2>2. CASE result' = Raised /\ work' = <<>> /\ stepBroke' = TRUE
    <3>1. HeldAt(e, g)'
      BY <1>2, <1>3, <1>4, <2>2 DEF HeldAt
    <3>2. ConsumerInv'
      BY <1>2, <1>4, <2>2 DEF ConsumerInv, Raised
    <3> QED
      BY <3>1, <3>2
  <2> QED
    BY <2>1, <2>2 DEF ApplySteps
<1> QED
  BY <1>1, <1>2, <1>4, <1>5, <1>6, ConsumerKeeps DEF TaskEnds

\* What goes on out_q comes after everything on it: items e + 1 .. r.
LEMMA PutOnOutQ ==
  ASSUME TypeOK, ConsumerInv, OutQueueInv, consumer = "putting", ~Full(out_q),
         UNCHANGED <<config, delivered>>, out_q' = Append(out_q, result),
         NEW e \in Nat, NEW r \in Nat, OutAt(e), e <= r, r <= e + Batch, result.items = Interval(e, r),
         result.kind # "payload" => consumer' = "finished" /\ UNCHANGED stepBroke
  PROVE  OutAt(r)' /\ OutQueueInv'
<1>1. out_q \in Seq(Result) /\ result \in Result
  BY DEF TypeOK
<1>2. /\ Len(out_q') = Len(out_q) + 1 /\ out_q'[Len(out_q) + 1] = result /\ Len(out_q) \in Nat
      /\ \A i \in 1 .. Len(out_q) : out_q'[i] = out_q[i]
  BY <1>1, AppendTyped
<1>3. OutAt(r)'
  <2>1. Chain(Append(Pieces(out_q), Interval(e, r)), Len(delivered), r)
    <3>1. Pieces(out_q) \in Seq(Seq(1 .. N)) /\ Chain(Pieces(out_q), Len(delivered), e)
      BY <1>1, PiecesTyped DEF OutAt
    <3>2. Batch \in Nat
      BY BatchSize DEF TypeOK
    <3> QED
      BY <3>1, <3>2, ChainAdd
  <2>2. Pieces(out_q') = Append(Pieces(out_q), Interval(e, r))
    BY <1>1, PiecesFacts
  <2> QED
    BY <2>1, <2>2, OutNext
<1>4. \A i \in 1 .. Len(out_q) : out_q[i].kind = "payload"
  BY DEF OutQueueInv
<1>5. ASSUME NEW i \in 1 .. Len(out_q'), out_q'[i].kind # "payload"
      PROVE  /\ i = Len(out_q') /\ consumer' = "finished" /\ out_q'[i].items = <<>>
             /\ out_q'[i].kind = "sentinel" => ~stepBroke'
  <2>1. i = Len(out_q) + 1
    BY <1>2, <1>4, <1>5
  <2>2. out_q'[i] = result
    BY <1>2, <2>1
  <2> QED
    BY <1>2, <1>5, <2>1, <2>2 DEF ConsumerInv
<1>6. config.queue_size > 0 => Len(out_q') <= config.queue_size
  <2>1. config.queue_size \in Nat
    BY BatchSize DEF TypeOK
  <2> QED
    BY <1>2, <2>1 DEF Full
<1> QED
  BY <1>3, <1>5, <1>6 DEF OutQueueInv

LEMMA PutResultKeeps == ASSUME TypeOK, Running, PutResult PROVE Running'
<1>1. PICK e \in Nat, g \in Nat : OutAt(e) /\ HeldAt(e, g) /\ InAt(g)
  BY DEF Running, Positions
<1>2. /\ consumer = "putting" /\ items = <<>> /\ ~Full(out_q) /\ out_q' = Append(out_q, result)
      /\ UNCHANGED <<config, producerVars, in_q, items, work, ending, stepBroke, readerVars>>
  BY DEF PutResult, Running, ConsumerInv
<1>3. Batch \in Nat \ {0} /\ Batch' = Batch
  BY <1>2, BatchSize DEF TypeOK, Batch
<1>4. UNCHANGED <<drawn, broken, hand, producer, reader, delivered, outcome>>
  BY <1>2 DEF producerVars, readerVars
<1>5. InAt(g)' /\ InQueueInv' /\ ProducerInv'
  BY <1>1, <1>2, <1>4, InStays DEF Running, InQueueInv, ProducerInv
<1>6. e <= g /\ g <= e + Batch
  BY <1>1 DEF HeldAt
<1>7. ASSUME NEW r \in Nat, OutAt(r)', OutQueueInv', HeldAt(r, g)', ConsumerInv',
             consumer' \notin {"failed", "cancelled"}
      PROVE  Running'
  <2>1. Positions(r, g)'
    BY <1>5, <1>7 DEF Positions
  <2>2. (\E x, y \in Nat : Positions(x, y))'
    BY <2>1
  <2> QED
    BY <1>4, <1>5, <1>7, <2>2 DEF Running
<1>8. CASE result.kind = "exception"
  <2>1. /\ stepBroke /\ result.items = <<>> /\ consumer' = "finished" /\ UNCHANGED result
        /\ work = <<>>
    BY <1>2, <1>8 DEF PutResult, Running, ConsumerInv
  <2>2. OutAt(e)' /\ OutQueueInv'
    <3>1. result.items = Interval(e, e) /\ e <= e + Batch
      BY <1>3, <2>1, EmptyInterval
    <3> QED
      BY <1>1, <1>2, <1>4, <1>8, <2>1, <3>1, PutOnOutQ DEF Running
  <2>3. HeldAt(e, g)' /\ ConsumerInv'
    BY <1>2, <1>3, <1>6, <2>1 DEF HeldAt, ConsumerInv
  <2> QED
    BY <1>7, <2>1, <2>2, <2>3
<1>9. CASE result.kind # "exception"
  <2>1. ~stepBroke
    BY <1>2, <1>9 DEF Running, ConsumerInv
  <2>2. PICK r \in e .. g : result.items = Interval(e, r) /\ Chain(work, r, g)
    BY <1>1, <1>2, <2>1 DEF HeldAt
  <2>3. r \in Nat /\ e <= r /\ r <= g /\ r <= e + Batch /\ g <= r + Batch
    BY <1>3, <1>6, <2>2
  <2>4. CASE result.kind = "sentinel"
    <3>1. result.items = <<>> /\ work = <<>> /\ ending /\ consumer' = "finished" /\ UNCHANGED result
      BY <1>2, <2>4 DEF PutResult, Running, ConsumerInv
    <3>2. r = g /\ e = r
      <4>1. Len(Interval(e, r)) = r - e
        BY <2>3, IntervalFacts
      <4>2. Len(<<>>) = 0
        OBVIOUS
      <4> QED
        BY <1>3, <2>2, <2>3, <3>1, <4>1, <4>2, ChainNone
    <3>3. OutAt(r)' /\ OutQueueInv'
      BY <1>1, <1>2, <1>4, <2>2, <2>3, <3>1, PutOnOutQ DEF Running
    <3>4. HeldAt(r, g)' /\ ConsumerInv'
      BY <1>2, <1>3, <1>6, <2>1, <3>1, <3>2 DEF HeldAt, ConsumerInv
    <3> QED
      BY <1>7, <2>3, <3>1, <3>3, <3>4
  <2>5. CASE result.kind = "payload"
    <3>1. OutAt(r)' /\ OutQueueInv'
      BY <1>1, <1>2, <1>4, <2>2, <2>3, <2>5, PutOnOutQ DEF Running
    <3>2. Chain(work, r, g)'
      BY <1>2, <1>3, <2>2 DEF Chain
    <3>3. work = <<>> => r = g
      BY <1>3, <2>2, ChainNone
    <3>4. HeldAt(r, g)' /\ ConsumerInv' /\ consumer' \notin {"failed", "cancelled"}
      <4>1. CASE work = <<>> /\ ending
        <5>1. result' = Done /\ consumer' = "putting"
          BY <1>2, <2>5, <4>1 DEF PutResult
        <5>2. r \in r .. g /\ result'.items = Interval(r, r)
          BY <2>3, <5>1, EmptyInterval DEF Done
        <5> QED
          BY <1>2, <1>3, <2>1, <2>3, <3>2, <4>1, <5>1, <5>2 DEF HeldAt, ConsumerInv, Done
      <4>2. CASE work # <<>>
        <5>1. UNCHANGED result /\ consumer' = "applying"
          BY <1>2, <2>5, <4>2 DEF PutResult
        <5> QED
          BY <1>2, <1>3, <2>1, <2>3, <3>2, <4>2, <5>1 DEF HeldAt, ConsumerInv
      <4>3. CASE work = <<>> /\ ~ending
        <5>1. UNCHANGED result /\ consumer' = "getting"
          BY <1>2, <2>5, <4>3 DEF PutResult
        <5>2. items' = Interval(r, g) /\ Len(items') = 0
          BY <1>2, <2>3, <3>3, <4>3, EmptyInterval
        <5> QED
          BY <1>2, <1>3, <2>1, <2>3, <4>3, <5>1, <5>2 DEF HeldAt, ConsumerInv
      <4> QED
        BY <4>1, <4>2, <4>3
    <3> QED
      BY <1>7, <2>3, <3>1, <3>4
  <2> QED
    BY <1>9, <2>4, <2>5 DEF TypeOK, Result
<1> QED
  BY <1>8, <1>9

-----------------------------------------------------------------------------
\* The steps of run.
LEMMA FinishEnds ==
  ASSUME Running, outcome = "running", NEW reason, reason # "running", Finish(reason)
  PROVE  outcome' # "running" /\ Ended' /\ UNCHANGED <<drawn, delivered, config>>
<1>1. producer' \in TaskEnds /\ consumer' \in TaskEnds
  BY DEF Finish, CancelledProducer, CancelledConsumer, TaskEnds
<1>2. outcome' # "running"
  BY DEF Finish, Overriding
<1> QED
  BY <1>1, <1>2 DEF Finish, Ended

LEMMA IntervalsJoin ==
  ASSUME NEW a \in Nat, NEW b \in Nat, NEW c \in Nat, a <= b, b <= c
  PROVE  Interval(a, b) \o Interval(b, c) = Interval(a, c)
<1>1. /\ Interval(a, b) \in Seq(Nat) /\ Len(Interval(a, b)) = b - a
      /\ \A i \in 1 .. b - a : Interval(a, b)[i] = a + i
  BY IntervalFacts
<1>2. /\ Interval(b, c) \in Seq(Nat) /\ Len(Interval(b, c)) = c - b
      /\ \A i \in 1 .. c - b : Interval(b, c)[i] = b + i
  BY IntervalFacts
<1>3. /\ Interval(a, c) \in Seq(Nat) /\ Len(Interval(a, c)) = c - a
      /\ \A i \in 1 .. c - a : Interval(a, c)[i] = a + i
  <2>1. a <= c
    OBVIOUS
  <2> QED
    BY <2>1, IntervalFacts
<1> DEFINE x == Interval(a, b)
           y == Interval(b, c)
           z == Interval(a, c)
<1> HIDE DEF x, y, z
<1>4. x \in Seq(Nat) /\ y \in Seq(Nat) /\ z \in Seq(Nat)
      /\ Len(x) = b - a /\ Len(y) = c - b /\ Len(z) = c - a
  BY <1>1, <1>2, <1>3 DEF x, y, z
<1>5. x \o y \in Seq(Nat) /\ Len(x \o y) = Len(z)
  BY <1>4
<1>6. ASSUME NEW i \in 1 .. Len(z) PROVE (x \o y)[i] = z[i]
  <2>1. z[i] = a + i /\ i \in 1 .. c - a
    BY <1>3, <1>4 DEF z
  <2>2. CASE i <= b - a
    <3>1. (x \o y)[i] = x[i] /\ i \in 1 .. b - a
      BY <1>4, <2>1, <2>2
    <3>2. x[i] = a + i
      BY <1>1, <3>1 DEF x
    <3> QED
      BY <2>1, <3>1, <3>2
  <2>3. CASE ~(i <= b - a)
    <3>1. (x \o y)[i] = y[i - (b - a)] /\ i - (b - a) \in 1 .. c - b
      <4>1. i \in 1 .. (b - a) + (c - b) /\ i > b - a
        BY <2>1, <2>3
      <4>2. (x \o y)[i] = y[i - (b - a)]
        <5>1. \A j \in 1 .. Len(x) + Len(y) :
                (x \o y)[j] = IF j <= Len(x) THEN x[j] ELSE y[j - Len(x)]
          BY <1>4, ConcatProperties
        <5>2. i \in 1 .. Len(x) + Len(y) /\ ~(i <= Len(x))
          BY <1>4, <2>3, <4>1
        <5>3. (x \o y)[i] = y[i - Len(x)]
          BY <5>1, <5>2
        <5> QED
          BY <1>4, <5>3
      <4> QED
        BY <4>1, <4>2
    <3>2. y[i - (b - a)] = b + (i - (b - a))
      BY <1>2, <3>1 DEF y
    <3> QED
      BY <2>1, <3>1, <3>2
  <2> QED
    BY <2>2, <2>3
<1>7. x \o y = z
  BY <1>4, <1>5, <1>6, SeqEqual
<1> QED
  BY <1>7 DEF x, y, z

\* What is left to show of a step of run that does not end it.
LEMMA ReaderKeeps ==
  ASSUME Running, UNCHANGED <<config, producerVars, in_q, consumerVars>>, reader' # "ended",
         OutQueueInv', delivered' = Interval(0, Len(delivered')), \A e \in Nat : OutAt(e) => OutAt(e)'
  PROVE  Running'
<1>1. UNCHANGED <<drawn, broken, hand, producer, items, work, ending, result, consumer, stepBroke>>
  BY DEF producerVars, consumerVars
<1>2. ProducerInv' /\ InQueueInv'
  BY <1>1 DEF Running, ProducerInv, InQueueInv
<1>3. ConsumerInv'
  <2>1. Batch' = Batch
    BY DEF Batch
  <2> QED
    BY <1>1, <2>1 DEF Running, ConsumerInv
<1>4. PICK e \in Nat, g \in Nat : OutAt(e) /\ HeldAt(e, g) /\ InAt(g)
  BY DEF Running, Positions
<1>5. Positions(e, g)'
  BY <1>1, <1>4, HeldStays, InStays DEF Positions
<1>6. (\E x, y \in Nat : Positions(x, y))'
  BY <1>5
<1> QED
  BY <1>1, <1>2, <1>3, <1>6 DEF Running

\* A result given to the caller holds the items that follow those it has.
LEMMA YieldFacts ==
  ASSUME TypeOK, Running, Yield
  PROVE  \E c \in Nat :
           /\ Len(delivered) <= c /\ c <= drawn /\ Head(out_q).items = Interval(Len(delivered), c)
           /\ delivered' = Interval(0, c) /\ Len(delivered') = c
           /\ \A e \in Nat : OutAt(e) => OutAt(e)'
<1> DEFINE d == Len(delivered)
<1>1. out_q \in Seq(Result) /\ out_q # <<>> /\ d \in Nat /\ drawn \in Nat /\ Batch \in Nat
  BY BatchSize DEF TypeOK, Yield
<1>2. delivered = Interval(0, d) /\ UNCHANGED config /\ out_q' = Tail(out_q)
      /\ delivered' = delivered \o Head(out_q).items
  BY DEF Running, Yield
<1> HIDE DEF d
<1>3. /\ Pieces(out_q) \in Seq(Seq(1 .. N)) /\ Pieces(out_q) # <<>>
      /\ Pieces(out_q)[1] = Head(out_q).items /\ Pieces(out_q') = Tail(Pieces(out_q))
  BY <1>1, <1>2, PiecesTyped, PiecesFacts
<1>4. ASSUME NEW e \in Nat, OutAt(e)
      PROVE  \E c \in Nat : /\ d <= c /\ c <= e /\ Head(out_q).items = Interval(d, c)
                            /\ delivered' = Interval(0, c) /\ Len(delivered') = c /\ OutAt(e)'
  <2>1. Chain(Pieces(out_q), d, e)
    BY <1>4 DEF OutAt, d
  <2>2. PICK c \in Nat : /\ d <= c /\ c <= e /\ Pieces(out_q)[1] = Interval(d, c)
                         /\ Chain(Tail(Pieces(out_q)), c, e)
    BY <1>1, <1>3, <2>1, ChainFirst
  <2>3. delivered' = Interval(0, c)
    <3>1. 0 \in Nat /\ 0 <= d
      BY <1>1
    <3>2. Interval(0, d) \o Interval(d, c) = Interval(0, c)
      BY <1>1, <2>2, <3>1, IntervalsJoin
    <3> QED
      BY <1>2, <1>3, <2>2, <3>2, Zenon
  <2>4. Len(delivered') = c
    <3>1. Len(Interval(0, c)) = c - 0
      <4>1. 0 \in Nat /\ 0 <= c
        OBVIOUS
      <4> QED
        BY <4>1, IntervalFacts
    <3> QED
      BY <2>3, <3>1
  <2>5. OutAt(e)'
    BY <1>2, <1>3, <2>2, <2>4, OutNext
  <2> QED
    BY <1>3, <2>2, <2>3, <2>4, <2>5
<1>5. PICK e \in Nat, g \in Nat : OutAt(e) /\ HeldAt(e, g) /\ InAt(g)
  BY DEF Running, Positions
<1>6. e <= drawn
  <2>1. e <= g /\ drawn = g + Waiting + Len(hand) /\ Len(hand) \in Nat
    BY <1>5 DEF HeldAt, InAt, TypeOK
  <2>2. Waiting \in Nat
    BY EmptySeq DEF Waiting, TypeOK
  <2> QED
    BY <2>1, <2>2
<1>7. PICK c \in Nat : /\ d <= c /\ c <= e /\ Head(out_q).items = Interval(d, c)
                       /\ delivered' = Interval(0, c) /\ Len(delivered') = c /\ OutAt(e)'
  BY <1>4, <1>5
<1> QED
  BY <1>1, <1>4, <1>6, <1>7 DEF d

LEMMA YieldKeeps == ASSUME TypeOK, Running, Yield PROVE Running'
<1>1. out_q \in Seq(Result) /\ out_q # <<>> /\ out_q' = Tail(out_q) /\ reader' = "yielding"
      /\ UNCHANGED <<config, producerVars, in_q, consumerVars>>
  BY DEF TypeOK, Yield
<1>2. delivered' = Interval(0, Len(delivered')) /\ \A e \in Nat : OutAt(e) => OutAt(e)'
  BY YieldFacts
<1>3. OutQueueInv'
  <2> DEFINE n == Len(out_q)
  <2>1. n \in Nat \ {0} /\ Len(out_q') = n - 1 /\ \A i \in 1 .. n - 1 : out_q'[i] = out_q[i + 1]
    BY <1>1
  <2>2. /\ \A i \in 1 .. n : out_q[i].kind # "payload" =>
             /\ i = n /\ consumer = "finished" /\ out_q[i].items = <<>>
             /\ out_q[i].kind = "sentinel" => ~stepBroke
        /\ config.queue_size > 0 => n <= config.queue_size
    BY DEF Running, OutQueueInv
  <2>3. config.queue_size \in Nat
    BY BatchSize DEF TypeOK
  <2>4. UNCHANGED <<config, consumer, stepBroke>>
    BY <1>1 DEF consumerVars
  <2> HIDE DEF n
  <2>5. config.queue_size > 0 => n - 1 <= config.queue_size
    BY <2>1, <2>2, <2>3
  <2>6. ASSUME NEW i \in 1 .. n - 1, out_q'[i].kind # "payload"
        PROVE  /\ i = n - 1 /\ consumer = "finished" /\ out_q'[i].items = <<>>
               /\ out_q'[i].kind = "sentinel" => ~stepBroke
    <3>1. i + 1 \in 1 .. n /\ out_q'[i] = out_q[i + 1] /\ (i + 1 = n <=> i = n - 1)
      BY <2>1
    <3> QED
      BY <2>2, <2>6, <3>1
  <2> QED
    BY <2>1, <2>4, <2>5, <2>6 DEF OutQueueInv
<1> QED
  BY <1>1, <1>2, <1>3, ReaderKeeps

LEMMA WaitingKeeps == ASSUME Running, Resume \/ (Check /\ producer # "failed") PROVE Running'
<1>1. UNCHANGED <<config, producerVars, in_q, consumerVars, out_q, delivered>> /\ reader' # "ended"
  BY DEF Resume, Check
<1>2. OutQueueInv' /\ delivered' = Interval(0, Len(delivered'))
  BY <1>1 DEF Running, OutQueueInv, consumerVars
<1>3. \A e \in Nat : OutAt(e) => OutAt(e)'
  BY <1>1, OutStays
<1> QED
  BY <1>1, <1>2, <1>3, ReaderKeeps

\* Once run has ended nothing moves.
LEMMA EndedStays == ASSUME Ended, [Next]_vars PROVE UNCHANGED vars
BY DEF Ended, Next, Producer, Consumer, Reader, Draw, SourceEnds, SourceRaises, PutItem, PutSentinel,
       GetItem, GetSentinel, ApplySteps, PutResult, Timeout, Check, Yield, Stop, Resume, Close,
       TaskEnds

-----------------------------------------------------------------------------
LEMMA StreamInit == Init => TypeOK /\ StreamInv /\ Backpressure
<1> SUFFICES ASSUME Init PROVE TypeOK /\ StreamInv /\ Backpressure
  OBVIOUS
<1>1. N \in Nat /\ config \in Configs
  BY NAssumption DEF Init
<1>2. TypeOK
  <2>1. <<>> \in Seq(1 .. N) /\ <<>> \in Seq(_SENTINEL .. N) /\ <<>> \in Seq(Seq(1 .. N))
        /\ <<>> \in Seq(Result)
    BY EmptySeq
  <2>2. Done \in Result
    BY <2>1 DEF Done, Result
  <2>3. drawn \in 0 .. N
    BY <1>1 DEF Init
  <2> QED
    BY <2>1, <2>2, <2>3 DEF Init, TypeOK, Outcomes
<1>3. Batch \in Nat \ {0} /\ config.queue_size \in Nat
  BY <1>1, BatchSize
<1>4. Len(in_q) = 0 /\ Len(out_q) = 0 /\ Len(items) = 0 /\ Len(delivered) = 0 /\ Len(hand) = 0
  BY DEF Init
<1>5. ProducerInv /\ ConsumerInv
  BY <1>3, <1>4 DEF Init, ProducerInv, ConsumerInv
<1>6. InQueueInv /\ OutQueueInv
  BY <1>3, <1>4 DEF Init, InQueueInv, OutQueueInv
<1>7. Interval(0, 0) = <<>>
  BY EmptyInterval
<1>8. Positions(0, 0)
  <2>1. Pieces(out_q) = <<>>
    BY <1>4 DEF Pieces
  <2>2. OutAt(0)
    BY <1>3, <1>4, <2>1, ChainEmpty DEF OutAt
  <2>3. HeldAt(0, 0)
    BY <1>3, <1>7 DEF HeldAt, Init
  <2>4. InAt(0)
    BY <1>4 DEF InAt, Waiting, Init
  <2> QED
    BY <2>2, <2>3, <2>4 DEF Positions
<1>9. StreamInv
  <2>1. \E e, g \in Nat : Positions(e, g)
    BY <1>8
  <2> QED
    BY <1>4, <1>5, <1>6, <1>7, <2>1 DEF StreamInv, Running, Init
<1>10. Backpressure
  <2>1. drawn - Len(delivered) = 0 /\ Ahead(config) >= 0
    <3>1. Ahead(config) = 1 + config.queue_size + Batch + config.queue_size * Batch
      BY DEF Ahead, Batch
    <3>2. config.queue_size * Batch \in Nat
      BY <1>3
    <3>3. Ahead(config) >= 0
      <4> DEFINE x == config.queue_size * Batch
      <4>1. x \in Nat /\ Ahead(config) = 1 + config.queue_size + Batch + x
        BY <3>1, <3>2
      <4> HIDE DEF x
      <4> QED
        BY <1>3, <4>1
    <3>4. drawn = 0
      BY DEF Init
    <3> QED
      BY <1>4, <3>3, <3>4
  <2> QED
    BY <2>1 DEF Backpressure, Ahead
<1> QED
  BY <1>2, <1>9, <1>10

\* A step of a stream that runs leaves it running in order, or ends it where it was.
LEMMA RunningStep ==
  ASSUME TypeOK, Running, outcome = "running", Next
  PROVE  \/ outcome' = "running" /\ Running'
         \/ outcome' # "running" /\ Ended' /\ UNCHANGED <<drawn, delivered, config>>
<1>1. CASE Draw \/ SourceEnds \/ SourceRaises \/ Producer
  BY <1>1, DrawKeeps, SourceStopsKeeps, PutItemKeeps, PutSentinelKeeps
     DEF Producer, Draw, SourceEnds, SourceRaises, PutItem, PutSentinel, readerVars
<1>2. CASE Consumer \/ Timeout
  <2>1. Running'
    BY <1>2, GetItemKeeps, GetSentinelKeeps, ApplyKeeps, PutResultKeeps, TimeoutKeeps DEF Consumer
  <2>2. UNCHANGED outcome
    BY <1>2 DEF Consumer, GetItem, GetSentinel, ApplySteps, PutResult, Timeout, Flush, readerVars
  <2> QED
    BY <2>1, <2>2
<1>3. CASE Yield
  BY <1>3, YieldKeeps DEF Yield
<1>4. CASE Resume \/ (Check /\ producer # "failed")
  BY <1>4, WaitingKeeps DEF Resume, Check
<1>5. CASE Stop \/ Close \/ (Check /\ producer = "failed")
  <2>1. \E reason \in {"end", "step_error", "source_error", "closed"} : Finish(reason)
    BY <1>5 DEF Stop, Close, Check
  <2> QED
    BY <2>1, FinishEnds
<1> QED
  BY <1>1, <1>2, <1>3, <1>4, <1>5 DEF Next, Reader

\* What is drawn fits on in_q, in a batch, on out_q and in the hand, and no more.
LEMMA RunningBound == ASSUME TypeOK, Running PROVE Backpressure
<1> SUFFICES ASSUME config.queue_size > 0 PROVE drawn - Len(delivered) <= Ahead(config)
  BY DEF Backpressure
<1> DEFINE d == Len(delivered)
           n == Len(out_q)
           q == config.queue_size
<1>1. d \in Nat /\ n \in Nat /\ q \in Nat /\ Batch \in Nat \ {0}
  BY BatchSize DEF TypeOK
<1>2. n <= q /\ Len(in_q) <= q
  BY DEF Running, InQueueInv, OutQueueInv
<1>3. PICK e \in Nat, g \in Nat : OutAt(e) /\ HeldAt(e, g) /\ InAt(g)
  BY DEF Running, Positions
<1>4. g <= e + Batch /\ drawn = g + Waiting + Len(hand)
  BY <1>3 DEF HeldAt, InAt
<1>5. Len(hand) \in Nat /\ Len(hand) <= 1
  BY DEF Running, ProducerInv
<1>6. Waiting \in Nat /\ Waiting <= Len(in_q) /\ Len(in_q) \in Nat
  BY EmptySeq DEF Waiting, TypeOK
<1>7. e <= d + n * Batch
  <2>1. Chain(Pieces(out_q), d, e) /\ Len(Pieces(out_q)) = n
    BY <1>3, PiecesTyped DEF OutAt, TypeOK
  <2> QED
    BY <1>1, <2>1, ChainBounds
<1>8. Ahead(config) = 1 + q + Batch + q * Batch
  BY DEF Ahead, Batch
<1> HIDE DEF d, n, q
<1>9. n * Batch <= q * Batch /\ n * Batch \in Nat /\ q * Batch \in Nat
  <2>1. \A x, y, z \in Nat : x <= y => x * z <= y * z /\ x * z \in Nat /\ y * z \in Nat
    OBVIOUS
  <2> QED
    BY <1>1, <1>2, <2>1
<1>10. drawn - d <= Ahead(config)
  <2> DEFINE u == n * Batch
             v == q * Batch
  <2>1. u \in Nat /\ v \in Nat /\ u <= v /\ e <= d + u /\ Ahead(config) = 1 + q + Batch + v
    BY <1>7, <1>8, <1>9
  <2> DEFINE w == Waiting
             h == Len(hand)
             k == Len(in_q)
  <2>2. w \in Nat /\ w <= k /\ k <= q /\ h <= 1 /\ h \in Nat /\ k \in Nat
        /\ g <= e + Batch /\ drawn = g + w + h
    <3>1. k <= q
      BY <1>2
    <3> QED
      BY <1>4, <1>5, <1>6, <3>1, Zenon
  <2> HIDE DEF u, v, w, h, k
  <2>3. drawn <= (e + Batch) + q + 1 /\ drawn \in Nat
    BY <1>1, <2>2
  <2>4. drawn <= d + v + Batch + q + 1
    BY <1>1, <2>1, <2>3
  <2> QED
    BY <1>1, <2>1, <2>3, <2>4
<1> QED
  BY <1>10 DEF d

LEMMA StreamStep ==
  ASSUME TypeOK, StreamInv, Backpressure, [Next]_vars
  PROVE  TypeOK' /\ StreamInv' /\ Backpressure'
<1>1. TypeOK'
  <2>1. consumer = "applying" => work # <<>>
    BY DEF StreamInv, Running, Ended, ConsumerInv, TaskEnds
  <2> QED
    BY <2>1, TypeStep
<1>2. CASE UNCHANGED vars
  <2>1. UNCHANGED <<config, drawn, broken, hand, producer, in_q, items, work, ending, result,
                    consumer, stepBroke, out_q, reader, delivered, outcome>>
    BY <1>2 DEF vars, producerVars, consumerVars, readerVars
  <2>2. StreamInv'
    <3>1. Running => Running'
      <4>1. ASSUME Running PROVE ProducerInv' /\ InQueueInv' /\ OutQueueInv'
        BY <2>1, <4>1 DEF Running, ProducerInv, InQueueInv, OutQueueInv
      <4>2. ASSUME Running PROVE ConsumerInv'
        <5>1. Batch' = Batch
          BY <2>1 DEF Batch
        <5> QED
          BY <2>1, <4>2, <5>1 DEF Running, ConsumerInv
      <4>3. ASSUME NEW e \in Nat, NEW g \in Nat, Positions(e, g) PROVE Positions(e, g)'
        BY <2>1, <4>3, OutStays, HeldStays, InStays DEF Positions
      <4> QED
        BY <2>1, <4>1, <4>2, <4>3 DEF Running
    <3>2. Ended => Ended'
      BY <2>1 DEF Ended
    <3> QED
      BY <2>1, <3>1, <3>2 DEF StreamInv
  <2>3. Backpressure'
    BY <2>1 DEF Backpressure
  <2> QED
    BY <1>1, <2>2, <2>3
<1>3. CASE Next /\ outcome # "running"
  <2>1. Ended
    BY <1>3 DEF StreamInv
  <2> QED
    BY <1>2, <2>1, EndedStays
<1>4. CASE Next /\ outcome = "running"
  <2>1. Running
    BY <1>4 DEF StreamInv
  <2>2. CASE outcome' = "running" /\ Running'
    <3>1. (TypeOK /\ Running => Backpressure)'
      BY RunningBound, PTL
    <3> QED
      BY <1>1, <2>2, <3>1 DEF StreamInv
  <2>3. CASE outcome' # "running" /\ Ended' /\ UNCHANGED <<drawn, delivered, config>>
    BY <1>1, <2>3 DEF StreamInv, Backpressure
  <2> QED
    BY <1>4, <2>1, <2>2, <2>3, RunningStep
<1> QED
  BY <1>2, <1>3, <1>4

LEMMA StreamAlways == Spec => [](TypeOK /\ StreamInv /\ Backpressure)
<1>1. TypeOK /\ StreamInv /\ Backpressure /\ [Next]_vars => (TypeOK /\ StreamInv /\ Backpressure)'
  BY StreamStep
<1> QED
  BY StreamInit, <1>1, PTL DEF Spec

\* Type correctness: whatever fails, every queue, batch and frame holds items of the source
\* and nothing else (streaming.py, lines 109-297).
THEOREM TypeCorrect == Spec => []TypeOK
BY StreamAlways, PTL

\* Backpressure, for sources of any length and every size of queues and batches: what is
\* drawn ahead of the caller fits in both queues, one batch and the producer's hand
\* (streaming.py, lines 246-247).
THEOREM DrawnAheadBounded == Spec => []Backpressure
BY StreamAlways, PTL

-----------------------------------------------------------------------------
\* A normal end comes only after the last item.
LEMMA EndIsComplete ==
  ASSUME TypeOK, Running, Stop, outcome' = "end"
  PROVE  Len(delivered) = N
<1>1. out_q \in Seq(Result) /\ out_q # <<>> /\ Head(out_q).kind # "payload"
  BY DEF TypeOK, Stop
<1>2. producer' \notin {"failed", "cancelled"} /\ Head(out_q).kind = "sentinel"
  BY <1>1 DEF Stop, Finish, Overriding
<1>3. Len(out_q) = 1 /\ consumer = "finished" /\ ~stepBroke /\ Head(out_q).items = <<>>
  <2>1. 1 \in 1 .. Len(out_q) /\ Head(out_q) = out_q[1]
    BY <1>1
  <2> QED
    BY <1>2, <2>1 DEF Running, OutQueueInv
<1>4. ending /\ in_q = <<>> /\ producer \in TaskEnds
  BY <1>3 DEF Running, ConsumerInv, InQueueInv
<1>5. producer = "finished" /\ drawn = N /\ hand = <<>>
  <2>1. producer' = producer
    BY <1>4 DEF Stop, Finish, CancelledProducer, TaskEnds
  <2> QED
    BY <1>2, <1>4, <2>1 DEF Running, ProducerInv, TaskEnds
<1>6. PICK e \in Nat, g \in Nat : OutAt(e) /\ HeldAt(e, g) /\ InAt(g)
  BY DEF Running, Positions
<1>7. e = g
  BY <1>3, <1>6 DEF HeldAt
<1>8. drawn = g
  <2>1. Len(<<>>) = 0
    OBVIOUS
  <2> QED
    BY <1>4, <1>5, <1>6, <2>1 DEF InAt, Waiting
<1>9. e = Len(delivered)
  <2> DEFINE d == Len(delivered)
  <2>1. d \in Nat /\ Batch \in Nat
    BY BatchSize DEF TypeOK
  <2>2. /\ Pieces(out_q) \in Seq(Seq(1 .. N)) /\ Pieces(out_q) # <<>> /\ Len(Pieces(out_q)) = 1
        /\ Pieces(out_q)[1] = <<>> /\ Chain(Pieces(out_q), d, e)
    BY <1>1, <1>3, <1>6, PiecesTyped, PiecesFacts DEF OutAt
  <2> HIDE DEF d
  <2>3. PICK c \in Nat : d <= c /\ <<>> = Interval(d, c) /\ Chain(Tail(Pieces(out_q)), c, e)
    BY <2>1, <2>2, ChainFirst
  <2>4. d = c
    <3>1. Len(Interval(d, c)) = c - d
      BY <2>1, <2>3, IntervalFacts
    <3>2. Len(<<>>) = 0
      OBVIOUS
    <3> QED
      BY <2>1, <2>3, <3>1, <3>2
  <2>5. Tail(Pieces(out_q)) = <<>>
    <3>1. Tail(Pieces(out_q)) \in Seq(Seq(1 .. N)) /\ Len(Tail(Pieces(out_q))) = 0
      BY <2>2
    <3> QED
      BY <3>1, EmptySeq
  <2>6. c = e
    BY <2>1, <2>3, <2>5, ChainNone
  <2> QED
    BY <2>4, <2>6 DEF d
<1> QED
  BY <1>5, <1>7, <1>8, <1>9

LEMMA YieldDelivers ==
  ASSUME TypeOK, Running, outcome = "running", Yield
  PROVE  [Stream!Next]_Stream!streamVars
<1> DEFINE d == Len(delivered)
<1>1. d \in Nat /\ drawn \in Nat
  BY DEF TypeOK
<1>2. PICK c \in Nat : /\ d <= c /\ c <= drawn /\ Head(out_q).items = Interval(d, c)
                       /\ delivered' = Interval(0, c)
  BY YieldFacts
<1>3. delivered' = delivered \o Interval(d, c) /\ UNCHANGED <<drawn, outcome>>
  BY <1>2 DEF Yield, producerVars
<1>4. CASE d = c
  <2>1. delivered' = delivered
    BY <1>2, <1>4 DEF Running
  <2> QED
    BY <1>3, <2>1 DEF Stream!streamVars
<1>5. CASE d # c
  <2> DEFINE k == c - d
  <2>1. k \in 1 .. drawn - d
    BY <1>1, <1>2, <1>5
  <2>2. Interval(d, c) = [j \in 1 .. k |-> d + j]
    BY DEF Interval
  <2>3. delivered' = delivered \o [j \in 1 .. k |-> d + j]
    BY <1>3, <2>2
  <2> HIDE DEF k
  <2>4. Stream!Deliver
    BY <1>3, <2>1, <2>3 DEF Stream!Deliver
  <2> QED
    BY <2>4 DEF Stream!Next
<1> QED
  BY <1>4, <1>5

\* Every step of the pipeline is a step of the ordered stream or leaves it alone.
LEMMA StreamRefines ==
  ASSUME TypeOK, StreamInv, [Next]_vars
  PROVE  [Stream!Next]_Stream!streamVars
<1>1. CASE UNCHANGED vars
  BY <1>1 DEF vars, producerVars, readerVars, Stream!streamVars
<1>2. CASE Next /\ outcome # "running"
  <2>1. Ended
    BY <1>2 DEF StreamInv
  <2> QED
    BY <1>1, <2>1, EndedStays
<1>3. CASE Next /\ outcome = "running"
  <2>1. Running
    BY <1>3 DEF StreamInv
  <2>2. CASE Draw
    BY <1>3, <2>2 DEF Draw, readerVars, Stream!Next, Stream!Draw
  <2>3. CASE SourceEnds \/ SourceRaises \/ Producer \/ Consumer \/ Timeout \/ Resume
             \/ (Check /\ producer # "failed")
    <3>1. UNCHANGED <<drawn, delivered, outcome>>
      BY <2>3 DEF SourceEnds, SourceRaises, Producer, PutItem, PutSentinel, Consumer, GetItem,
                  GetSentinel, ApplySteps, PutResult, Timeout, Flush, Resume, Check, producerVars,
                  readerVars
    <3> QED
      BY <3>1 DEF Stream!streamVars
  <2>4. CASE Yield
    BY <1>3, <2>1, <2>4, YieldDelivers
  <2>5. CASE Stop \/ Close \/ (Check /\ producer = "failed")
    <3>1. \E reason \in {"end", "step_error", "source_error", "closed"} : Finish(reason)
      BY <2>5 DEF Stop, Close, Check
    <3>2. outcome' \in {"end", "step_error", "source_error", "cancelled", "closed"}
          /\ UNCHANGED <<drawn, delivered>>
      BY <3>1 DEF Finish, Overriding
    <3>3. outcome' = "end" => Len(delivered) = N
      <4>1. outcome' = "end" => Stop
        BY <2>5 DEF Close, Check, Finish, Overriding
      <4> QED
        BY <2>1, <4>1, EndIsComplete
    <3>4. Stream!End \/ Stream!Break
      BY <1>3, <3>2, <3>3 DEF Stream!End, Stream!Break
    <3> QED
      BY <3>4 DEF Stream!Next
  <2> QED
    BY <1>3, <2>2, <2>3, <2>4, <2>5 DEF Next, Reader
<1> QED
  BY <1>1, <1>2, <1>3

\* The caller sees each item once and in order, and a normal end only after the last one,
\* whatever raises, is cancelled or is closed (streaming.py, lines 244-287): the two tasks and
\* their queues implement the stream that OrderedStream promises.
THEOREM PipelineImplementsStream == Spec => ImplementsOrderedStream
<1>1. Init => Stream!Init
  BY DEF Init, Stream!Init
<1>2. TypeOK /\ StreamInv /\ [Next]_vars => [Stream!Next]_Stream!streamVars
  BY StreamRefines
<1> QED
  BY <1>1, <1>2, StreamAlways, PTL DEF Spec, ImplementsOrderedStream, Stream!Spec

-----------------------------------------------------------------------------
\* Frames that follow one another, laid end to end.
LEMMA LeastNumber ==
  ASSUME NEW T \in SUBSET Nat, T # {}
  PROVE  \E m \in T : \A k \in T : m <= k
<1>1. PICK m \in T : \A k \in T : ~ (<<k, m>> \in OpToRel(<, Nat))
  BY NatLessThanWellFounded, WFMin, Zenon
<1>2. \A k \in T : ~ (k < m)
  BY <1>1 DEF OpToRel
<1> QED
  BY <1>2

LEMMA FlattenIntervals ==
  ASSUME NEW pieces, NEW n \in Nat, Len(pieces) = n, n = 0 => pieces = <<>>,
         NEW m \in [0 .. n -> Nat], \A i, j \in 0 .. n : i <= j => m[i] <= m[j],
         \A i \in 1 .. n : pieces[i] = Interval(m[i - 1], m[i])
  PROVE  FlattenSeq(pieces) = Interval(m[0], m[n])
<1>1. CASE n = 0
  <2>1. FlattenSeq(pieces) = <<>>
    BY <1>1 DEF FlattenSeq
  <2>2. m[0] \in Nat /\ m[n] = m[0]
    BY <1>1
  <2> QED
    BY <2>1, <2>2, EmptyInterval
<1>2. CASE n # 0
  <2> DEFINE f == [i \in 1 .. n |-> Interval(m[0], m[i])]
             Flat(h) == h = [i \in 1 .. n |-> IF i = 1 THEN pieces[i] ELSE h[i - 1] \o pieces[i]]
             F == CHOOSE h : Flat(h)
  <2>1. FlattenSeq(pieces) = F[n]
    BY <1>2 DEF FlattenSeq
  <2>2. \A i \in 2 .. n : f[i - 1] \o pieces[i] = Interval(m[0], m[i])
    <3> SUFFICES ASSUME NEW i \in 2 .. n PROVE f[i - 1] \o pieces[i] = Interval(m[0], m[i])
      OBVIOUS
    <3>1. /\ i - 1 \in 1 .. n /\ i \in 1 .. n /\ 0 \in 0 .. n /\ i - 1 \in 0 .. n /\ i \in 0 .. n
          /\ 0 <= i - 1 /\ i - 1 <= i
      OBVIOUS
    <3>2. /\ m[0] \in Nat /\ m[i - 1] \in Nat /\ m[i] \in Nat
          /\ m[0] <= m[i - 1] /\ m[i - 1] <= m[i]
      BY <3>1
    <3>3. Interval(m[0], m[i - 1]) \o Interval(m[i - 1], m[i]) = Interval(m[0], m[i])
      BY <3>2, IntervalsJoin, ZenonT(60)
    <3>4. f[i - 1] = Interval(m[0], m[i - 1]) /\ pieces[i] = Interval(m[i - 1], m[i])
      BY <3>1
    <3> HIDE DEF f
    <3> QED
      BY <3>3, <3>4, Zenon
  <2>3. pieces[1] = Interval(m[0], m[1])
    <3>1. 1 \in 1 .. n /\ 1 - 1 = 0
      BY <1>2
    <3> QED
      BY <3>1
  <2>4. Flat(f)
    <3>1. ASSUME NEW i \in 1 .. n
          PROVE  f[i] = IF i = 1 THEN pieces[i] ELSE f[i - 1] \o pieces[i]
      <4>1. f[i] = Interval(m[0], m[i]) /\ (i = 1 \/ i \in 2 .. n)
        OBVIOUS
      <4> HIDE DEF f
      <4> QED
        BY <2>2, <2>3, <4>1
    <3>2. f = [i \in 1 .. n |-> f[i]]
      OBVIOUS
    <3> HIDE DEF f
    <3> QED
      BY <3>1, <3>2
  <2>5. Flat(F)
    <3> HIDE DEF f, Flat
    <3> QED
      BY <2>4
  <2>6. \A i \in 1 .. n : F[i] = IF i = 1 THEN pieces[i] ELSE F[i - 1] \o pieces[i]
    <3> HIDE DEF f, F
    <3> QED
      BY <2>5
  <2> HIDE DEF F, Flat
  <2>7. \A i \in 1 .. n : F[i] = f[i]
    <3> DEFINE Bad == {i \in 1 .. n : F[i] # f[i]}
    <3> SUFFICES Bad = {}
      OBVIOUS
    <3>1. ASSUME Bad # {} PROVE FALSE
      <4>1. PICK i \in Bad : \A k \in Bad : i <= k
        <5>1. Bad \in SUBSET Nat
          OBVIOUS
        <5> HIDE DEF Bad
        <5> QED
          BY <3>1, <5>1, LeastNumber
      <4>2. i \in 1 .. n /\ F[i] # f[i]
        BY <4>1
      <4>3. f[i] = Interval(m[0], m[i])
        BY <4>2
      <4>4. i # 1
        <5> HIDE DEF f
        <5> QED
          BY <2>3, <2>6, <4>2, <4>3
      <4>5. i \in 2 .. n /\ i - 1 \in 1 .. n /\ i - 1 \notin Bad
        <5> HIDE DEF f
        <5> QED
          BY <4>1, <4>2, <4>4
      <4>6. F[i - 1] = f[i - 1]
        BY <4>5
      <4> HIDE DEF f
      <4>7. F[i] = F[i - 1] \o pieces[i]
        BY <2>6, <4>2, <4>4
      <4>8. f[i - 1] \o pieces[i] = Interval(m[0], m[i])
        BY <2>2, <4>5
      <4> QED
        BY <4>2, <4>3, <4>6, <4>7, <4>8, Zenon
    <3> QED
      BY <3>1
  <2>8. F[n] = f[n] /\ f[n] = Interval(m[0], m[n])
    <3>1. n \in 1 .. n
      BY <1>2
    <3> QED
      BY <2>7, <3>1
  <2> QED
    BY <2>1, <2>8, Zenon
<1> QED
  BY <1>1, <1>2

LEMMA FlattenChain ==
  ASSUME NEW S, NEW pieces \in Seq(S), NEW a, NEW b, Chain(pieces, a, b)
  PROVE  FlattenSeq(pieces) = Interval(a, b)
<1> DEFINE n == Len(pieces)
<1>1. n \in Nat /\ (n = 0 => pieces = <<>>)
  BY EmptySeq
<1>2. PICK m \in [0 .. n -> Nat] :
        /\ m[0] = a /\ m[n] = b
        /\ \A i, j \in 0 .. n : i <= j => m[i] <= m[j]
        /\ \A i \in 1 .. n : pieces[i] = Interval(m[i - 1], m[i])
  BY DEF Chain
<1>3. Len(pieces) = n
  OBVIOUS
<1> HIDE DEF n
<1>4. FlattenSeq(pieces) = Interval(m[0], m[n])
  BY <1>1, <1>2, <1>3, FlattenIntervals, ZenonT(60)
<1> QED
  BY <1>2, <1>4

\* The items on in_q, without the sentinel.
LEMMA FlattenWaiting ==
  ASSUME TypeOK, InQueueInv, NEW g \in Nat, InAt(g)
  PROVE  FlattenSeq([i \in 1 .. Len(in_q) |-> IF in_q[i] = _SENTINEL THEN <<>> ELSE <<in_q[i]>>])
           = Interval(g, g + Waiting)
<1> DEFINE n == Len(in_q)
           pieces == [i \in 1 .. n |-> IF in_q[i] = _SENTINEL THEN <<>> ELSE <<in_q[i]>>]
           w == Waiting
           m == [i \in 0 .. n |-> IF i <= w THEN g + i ELSE g + w]
<1>1. n \in Nat
  BY DEF TypeOK
<1>2. w \in Nat /\ w <= n /\ \A i \in 1 .. n : i <= w \/ in_q[i] = _SENTINEL
  <2>1. in_q # <<>> => n # 0
    BY EmptySeq DEF TypeOK
  <2> QED
    BY <1>1, <2>1 DEF Waiting
<1>3. \A i \in 1 .. w : in_q[i] = g + i
  BY DEF InAt
<1>4. Len(pieces) = n /\ (n = 0 => pieces = <<>>)
  BY <1>1
<1>5. \A i \in 1 .. n : pieces[i] = IF in_q[i] = _SENTINEL THEN <<>> ELSE <<in_q[i]>>
  OBVIOUS
<1> HIDE DEF pieces, n, w
<1>6. m \in [0 .. n -> Nat] /\ m[0] = g /\ m[n] = g + w
      /\ \A i \in 0 .. n : m[i] = IF i <= w THEN g + i ELSE g + w
  BY <1>1, <1>2
<1> HIDE DEF m
<1>7. \A i, j \in 0 .. n : i <= j => m[i] <= m[j]
  BY <1>1, <1>2, <1>6
<1>8. ASSUME NEW i \in 1 .. n PROVE pieces[i] = Interval(m[i - 1], m[i])
  <2>1. i \in 0 .. n /\ i - 1 \in 0 .. n
    BY <1>1
  <2>2. CASE i <= w
    <3>1. m[i - 1] = g + (i - 1) /\ m[i] = g + i
      BY <1>2, <1>6, <2>1, <2>2
    <3>2. in_q[i] = g + i /\ in_q[i] # _SENTINEL
      BY <1>2, <1>3, <2>2 DEF _SENTINEL
    <3>3. Interval(g + (i - 1), g + i) = <<g + i>>
      <4>1. (g + i) - (g + (i - 1)) = 1
        OBVIOUS
      <4>2. Interval(g + (i - 1), g + i) = [j \in 1 .. 1 |-> g + (i - 1) + j]
        BY <4>1 DEF Interval
      <4> QED
        BY <4>2
    <3> QED
      BY <1>5, <3>1, <3>2, <3>3
  <2>3. CASE ~(i <= w)
    <3>1. m[i - 1] = g + w /\ m[i] = g + w /\ in_q[i] = _SENTINEL /\ g + w \in Nat
      BY <1>2, <1>6, <2>1, <2>3
    <3>2. Interval(g + w, g + w) = <<>>
      BY <3>1, EmptyInterval
    <3> QED
      BY <1>5, <3>1, <3>2
  <2> QED
    BY <2>2, <2>3
<1>9. FlattenSeq(pieces) = Interval(m[0], m[n])
  <2>1. \A i \in 1 .. n : pieces[i] = Interval(m[i - 1], m[i])
    BY <1>8
  <2>2. m \in [0 .. n -> Nat]
    BY <1>6
  <2> QED
    BY <1>1, <1>4, <1>7, <2>1, <2>2, FlattenIntervals, ZenonT(60)
<1> QED
  BY <1>6, <1>9 DEF pieces, n, w

LEMMA RunningConserves == ASSUME TypeOK, Running PROVE Conservation
<1> DEFINE waiting == FlattenSeq([i \in 1 .. Len(in_q) |->
                                    IF in_q[i] = _SENTINEL THEN <<>> ELSE <<in_q[i]>>])
           queued == FlattenSeq([i \in 1 .. Len(out_q) |-> out_q[i].items])
           putting == IF consumer = "putting" THEN result.items ELSE <<>>
           frames == FlattenSeq(work)
<1>0. Interval(0, drawn) = [i \in 1 .. drawn |-> i]
  <2>1. drawn \in Nat
    BY DEF TypeOK
  <2>2. drawn - 0 = drawn /\ \A i \in 1 .. drawn : 0 + i = i
    BY <2>1
  <2> QED
    BY <2>2 DEF Interval
<1> SUFFICES ASSUME ~stepBroke
             PROVE  delivered \o queued \o putting \o frames \o items \o waiting \o hand
                      = Interval(0, drawn)
  BY <1>0, Zenon DEF Conservation
<1>1. PICK e \in Nat, g \in Nat : OutAt(e) /\ HeldAt(e, g) /\ InAt(g)
  BY DEF Running, Positions
<1>2. Batch \in Nat \ {0} /\ drawn \in Nat /\ Len(delivered) \in Nat
  BY BatchSize DEF TypeOK
<1> DEFINE d == Len(delivered)
<1>3. queued = Interval(d, e) /\ d <= e
  <2>1. Pieces(out_q) \in Seq(Seq(1 .. N)) /\ Len(Pieces(out_q)) \in Nat
    BY PiecesTyped DEF TypeOK
  <2>2. FlattenSeq(Pieces(out_q)) = Interval(d, e)
    BY <1>1, <2>1, FlattenChain DEF OutAt
  <2>3. d <= e
    BY <1>1, <1>2, <2>1, ChainBounds DEF OutAt
  <2> QED
    BY <2>2, <2>3 DEF Pieces
<1>4. waiting = Interval(g, g + Waiting)
  BY <1>1, FlattenWaiting DEF Running
<1>5. Waiting \in Nat /\ hand = Interval(g + Waiting, drawn) /\ g + Waiting <= drawn
  <2>1. Waiting \in Nat
    BY EmptySeq DEF Waiting, TypeOK
  <2>2. drawn = g + Waiting + Len(hand)
    BY <1>1 DEF InAt
  <2>3. CASE producer = "putting"
    <3>1. hand = <<drawn>> /\ Len(hand) = 1
      BY <2>3 DEF Running, ProducerInv
    <3>2. drawn = (g + Waiting) + 1 /\ g + Waiting \in Nat
      BY <2>1, <2>2, <3>1
    <3>3. \A x \in Nat : Interval(x, x + 1) = <<x + 1>>
      <4> SUFFICES ASSUME NEW x \in Nat PROVE Interval(x, x + 1) = <<x + 1>>
        OBVIOUS
      <4>1. (x + 1) - x = 1
        OBVIOUS
      <4>2. Interval(x, x + 1) = [j \in 1 .. 1 |-> x + j]
        BY <4>1 DEF Interval
      <4> QED
        BY <4>2
    <3> QED
      BY <2>1, <3>1, <3>2, <3>3
  <2>4. CASE producer # "putting"
    <3>1. hand = <<>> /\ Len(hand) = 0
      BY <2>4 DEF Running, ProducerInv
    <3> QED
      BY <2>1, <2>2, <3>1, EmptyInterval
  <2> QED
    BY <2>3, <2>4
<1>6. \E x, y \in Nat : /\ e <= x /\ x <= y /\ y <= g
                        /\ putting = Interval(e, x) /\ frames = Interval(x, y)
                        /\ items = Interval(y, g)
  <2>1. e <= g /\ Interval(e, e) = <<>> /\ Interval(g, g) = <<>>
    BY <1>1, EmptyInterval DEF HeldAt
  <2>2. work \in Seq(Seq(1 .. N))
    BY DEF TypeOK
  <2>3. work = <<>> => frames = <<>>
    BY DEF FlattenSeq
  <2>4. CASE consumer = "getting"
    <3>1. items = Interval(e, g) /\ putting = <<>> /\ frames = <<>>
      BY <1>1, <2>3, <2>4 DEF HeldAt, Running, ConsumerInv
    <3> QED
      BY <2>1, <3>1
  <2>5. CASE consumer = "applying"
    <3>1. items = <<>> /\ putting = <<>> /\ frames = Interval(e, g)
      BY <1>1, <2>2, <2>5, FlattenChain DEF HeldAt, Running, ConsumerInv
    <3> QED
      BY <2>1, <3>1
  <2>6. CASE consumer = "putting"
    <3>1. PICK r \in e .. g : result.items = Interval(e, r) /\ Chain(work, r, g)
      BY <1>1, <2>6 DEF HeldAt
    <3>2. items = <<>> /\ putting = Interval(e, r) /\ frames = Interval(r, g)
      BY <2>2, <2>6, <3>1, FlattenChain DEF Running, ConsumerInv
    <3>3. r \in Nat /\ e <= r /\ r <= g
      BY <3>1
    <3> QED
      BY <2>1, <3>2, <3>3
  <2>7. CASE consumer = "finished"
    <3>1. items = <<>> /\ putting = <<>> /\ frames = <<>> /\ e = g
      BY <1>1, <2>3, <2>7 DEF HeldAt, Running, ConsumerInv
    <3> QED
      BY <2>1, <3>1
  <2> QED
    BY <2>4, <2>5, <2>6, <2>7 DEF TypeOK, Running, TaskEnds
<1>7. PICK x \in Nat, y \in Nat :
        /\ e <= x /\ x <= y /\ y <= g
        /\ putting = Interval(e, x) /\ frames = Interval(x, y) /\ items = Interval(y, g)
  BY <1>6
<1>8. delivered = Interval(0, d)
  BY DEF Running
<1> DEFINE w == g + Waiting
<1>9. d \in Nat /\ w \in Nat /\ g <= w /\ w <= drawn /\ waiting = Interval(g, w) /\ hand = Interval(w, drawn)
  BY <1>2, <1>4, <1>5
<1> HIDE DEF waiting, queued, putting, frames, d, w
<1>10. \A a, b \in Nat : a <= b => Interval(0, a) \o Interval(a, b) = Interval(0, b)
  <2>1. \A a \in Nat : 0 <= a /\ 0 \in Nat
    OBVIOUS
  <2> QED
    BY <2>1, IntervalsJoin
<1>11. /\ Interval(0, d) \o Interval(d, e) = Interval(0, e)
       /\ Interval(0, e) \o Interval(e, x) = Interval(0, x)
       /\ Interval(0, x) \o Interval(x, y) = Interval(0, y)
       /\ Interval(0, y) \o Interval(y, g) = Interval(0, g)
       /\ Interval(0, g) \o Interval(g, w) = Interval(0, w)
       /\ Interval(0, w) \o Interval(w, drawn) = Interval(0, drawn)
  BY <1>2, <1>3, <1>7, <1>9, <1>10
<1> QED
  BY <1>3, <1>7, <1>8, <1>9, <1>11, Zenon

\* No item is lost, doubled or overtaken, for sources of any length and every size of queues
\* and batches: until something breaks what was drawn is, in its order, with the caller, on
\* out_q, with the consumer, on in_q or in the producer's hand (streaming.py, lines 109-242).
THEOREM ItemsConserved == Spec => []Conservation
<1>1. TypeOK /\ StreamInv => Conservation
  BY RunningConserves DEF StreamInv, Conservation
<1> QED
  BY <1>1, StreamAlways, PTL
=============================================================================
