---------------------------- MODULE BlocksProofs ----------------------------
(***************************************************************************)
(* The block transformations use every trace of the previous set once, keep *)
(* every promise of a block, give the best first, and end only with their   *)
(* traces, for every number of threads, every set before and every choice   *)
(* of consumers, with every failure.                                        *)
(***************************************************************************)
EXTENDS Blocks, SequenceTheorems, FiniteSetTheorems, WellFoundedInduction, TLAPS

Block == [key : STRING, items : Seq(Traces), best : Traces \cup {NULL}, flat : Seq(Traces),
          finalized : Nat, entries : Seq(STRING), src : Traces, res : Nat, numOut : Nat, done : BOOLEAN]

InHand == {"fetch", "reference", "accumulate"}

Types ==
    /\ consumer \in Consumers
    /\ nextIndex \in Nat /\ doneIndex \in Nat
    /\ blocks \in Seq(Block)
    /\ refLock \in Getters \cup {NULL} /\ refValid \in BOOLEAN
    /\ pc \in [Getters -> InHand \cup {"idle", "check", "take", "finalize"}]
    /\ idx \in [Getters -> Indices \cup {NULL}]
    /\ taken \in [Getters -> Nat \cup {NULL}]
    /\ nextAsk \in 0 .. Asked
    /\ lost \subseteq Traces /\ late \subseteq Traces
    /\ DOMAIN result = Indices
    /\ \A i \in Handed : result[i].src \in Traces /\ result[i].from \in Seq(Traces)

\* Each index is asked for once, and is open until its get returns.
Asking ==
    /\ \A g \in Getters : pc[g] # "idle" => idx[g] \in Indices /\ idx[g] < nextAsk /\ result[idx[g]] = Pending
    /\ \A g, h \in Getters : pc[g] # "idle" /\ pc[h] # "idle" /\ idx[g] = idx[h] => g = h
    /\ \A i \in Indices : i >= nextAsk => result[i] = Pending
    /\ \A g \in Getters : pc[g] = "finalize" => idx[g] < doneIndex
    /\ \A i \in Handed : i < doneIndex

\* Who has a trace in hand, and that nobody else has it.
Hands ==
    /\ \A g \in Getters : pc[g] \notin InHand => taken[g] = NULL
    /\ \A g \in Getters : pc[g] \in InHand => taken[g] \in 0 .. nextIndex - 1
    /\ \A g \in Getters : pc[g] \in {"reference", "accumulate"} => taken[g] \in Traces
    /\ \A g, h \in Getters : taken[g] = taken[h] /\ taken[g] # NULL => g = h
    /\ \A t \in lost : t < nextIndex /\ \A g \in Getters : taken[g] # t
    /\ \A i \in Handed : result[i].src < nextIndex /\ \A g \in Getters : taken[g] # result[i].src

\* Taken from the previous set, and out of every hand.
Settled(t) == t < nextIndex /\ t \notin lost /\ \A g \in Getters : taken[g] # t

\* No trace is in two blocks, or in one twice; none is in a hand or lost.
Apart ==
    /\ \A k \in DOMAIN blocks :
        /\ ~Freed(blocks[k]) => blocks[k].src = blocks[k].items[1]
        /\ \A m \in DOMAIN blocks[k].items : Settled(blocks[k].items[m])
    /\ \A k, l \in DOMAIN blocks : \A m \in DOMAIN blocks[k].items, n \in DOMAIN blocks[l].items :
        blocks[k].items[m] = blocks[l].items[n] => k = l /\ m = n

\* What was given is gone, but for the block of an extraction, which has one trace.
Given ==
    /\ \A i \in Handed : \A t \in From(i) : Settled(t)
    /\ ~Singular =>
        /\ \A i \in Handed, k \in DOMAIN blocks : From(i) \cap Remaining(blocks[k]) = {}
        /\ \A i, j \in Handed : From(i) \cap From(j) # {} => result[i].src = result[j].src

\* Every trace that was taken is somewhere.
Somewhere ==
    \A t \in Traces : t < nextIndex /\ Interesting(t) =>
        \/ t \in lost \/ t \in late
        \/ \E g \in Getters : taken[g] = t
        \/ \E k \in DOMAIN blocks : t \in Remaining(blocks[k])
        \/ \E i \in Handed : t \in From(i)

\* The array that is sorted: made of what the block had then, of which a part is given.
FlatIn(b, came) ==
    IF b.flat = <<>> THEN b.finalized = 0
    ELSE /\ consumer.op = "sort"
         /\ Len(b.flat) <= Len(b.items) /\ b.finalized < Len(b.items)
         /\ Len(b.flat) < Len(b.items) => came # {}
         /\ \A m, n \in DOMAIN b.flat : b.flat[m] = b.flat[n] => m = n
         /\ Range(b.flat) \subseteq Range(b.items)
         /\ Range(b.items) \subseteq Range(b.flat) \cup came
         /\ \A m, n \in DOMAIN b.flat :
                m < n => ~Better(Trace(b.flat[n]).value, Trace(b.flat[m]).value)

FlatOf(b) == FlatIn(b, late)

Flat == \A k \in DOMAIN blocks : FlatOf(blocks[k])

\* A selection knows the best of its block.
Best ==
    /\ consumer.op = "select" =>
        \A k \in DOMAIN blocks : ~Freed(blocks[k]) =>
            /\ blocks[k].best \in Traces
            /\ \A t \in Range(blocks[k].items) : ~Better(Trace(t).value, Trace(blocks[k].best).value)
    /\ \A i \in Handed : result[i].kind = "wild" => late # {}
    /\ \A i \in Handed : result[i].kind = "best" =>
        \A t \in From(i) : ~Better(Trace(t).value, Trace(result[i].trace).value)

\* What a block gave has an index before the one it waits under, and stood before the rest.
Precedes(r, i, b) ==
    ~Freed(b) /\ r.src = b.src =>
        /\ i < b.res /\ b.done
        /\ r.kind = "entry" => \E m \in DOMAIN b.flat : m <= b.finalized /\ r.from = <<b.flat[m]>>

Order ==
    /\ \A k \in DOMAIN blocks, i \in Handed : Precedes(result[i], i, blocks[k])
    /\ \A i, j \in Handed :
        i < j /\ result[i].kind = "entry" /\ result[j].kind = "entry" /\ result[i].src = result[j].src =>
            ~Better(Trace(result[j].from[1]).value, Trace(result[i].from[1]).value)

\* What is promised and not given has its block.
Promises ==
    /\ \A i \in Indices : result[i].kind # "unknown"
    /\ \A i \in 0 .. doneIndex - 1 :
        i \in Handed \/ \E k \in DOMAIN blocks : blocks[k].done /\ blocks[k].res = i
    /\ \A k \in DOMAIN blocks : blocks[k].done => blocks[k].res < doneIndex
    /\ \A k, l \in DOMAIN blocks :
        blocks[k].done /\ blocks[l].done /\ blocks[k].res = blocks[l].res => k = l
    /\ \A k \in DOMAIN blocks : IF Freed(blocks[k]) THEN blocks[k].done /\ blocks[k].res \in Handed
                               ELSE blocks[k].done => blocks[k].res \notin Handed

\* The list is no longer than it should be, unless it once was.
Listed ==
    /\ Singular => \A k \in DOMAIN blocks : blocks[k].done
    /\ ~Singular /\ ~overran => /\ Len(blocks) <= ListLength
                                /\ Len(blocks) = ListLength => blocks[1].done

IndInv ==
    /\ Types
    /\ Asking
    /\ Hands
    /\ Apart
    /\ Given
    /\ Somewhere
    /\ Flat
    /\ Best
    /\ Order
    /\ Promises
    /\ Listed

-----------------------------------------------------------------------------
(* What the operators do *)

\* A nonempty set of naturals has a least element.
LEMMA LeastNat ==
    ASSUME NEW S \in SUBSET Nat, S # {}
    PROVE  \E m \in S : \A k \in Nat : k < m => k \notin S
<1>1. PICK m \in S : \A k \in S : ~ (<<k, m>> \in OpToRel(<, Nat))
  BY NatLessThanWellFounded, WFMin
<1>2. \A k, n \in Nat : <<k, n>> \in OpToRel(<, Nat) <=> k < n
  BY DEF OpToRel
<1>3. \A k \in S : ~ (k < m)
  BY <1>1, <1>2, Zenon
<1>4. QED
  BY <1>3

LEMMA MinIs ==
    ASSUME NEW S \in SUBSET Nat, S # {}
    PROVE  Min(S) \in S
<1>1. \E m \in S : \A k \in S : m <= k
  BY LeastNat
<1>2. QED
  BY <1>1, Zenon DEF Min

\* The block of an index, when there is one.
LEMMA BlockOfIs ==
    ASSUME Types, NEW i
    PROVE  /\ BlockOf(i) # 0 =>
                BlockOf(i) \in DOMAIN blocks /\ blocks[BlockOf(i)].res = i /\ blocks[BlockOf(i)].done
           /\ BlockOf(i) = 0 => ~ \E k \in DOMAIN blocks : blocks[k].res = i /\ blocks[k].done
<1> DEFINE I == {k \in 1 .. Len(blocks) : blocks[k].res = i /\ blocks[k].done}
<1>1. BlockOf(i) = IF I # {} THEN Min(I) ELSE 0
  BY DEF BlockOf, SelectInSeq
<1>2. I \in SUBSET Nat /\ 0 \notin I
  OBVIOUS
<1>3. I # {} => Min(I) \in I
  BY <1>2, MinIs
<1>4. DOMAIN blocks = 1 .. Len(blocks)
  BY DEF Types
<1>5. QED
  BY <1>1, <1>2, <1>3, <1>4

LEMMA FirstMatchIs ==
    ASSUME Types, NEW t, FirstMatch(t) # 0
    PROVE  FirstMatch(t) \in DOMAIN blocks /\ ~Freed(blocks[FirstMatch(t)])
<1> DEFINE I == {k \in 1 .. Len(blocks) : Matches(t, blocks[k])}
<1>1. FirstMatch(t) = IF I # {} THEN Min(I) ELSE 0
  BY DEF FirstMatch, SelectInSeq
<1>2. I \in SUBSET Nat
  OBVIOUS
<1>3. I # {} => Min(I) \in I
  BY <1>2, MinIs
<1>4. QED
  BY <1>1, <1>3 DEF Types, Matches

\* The previous set.
LEMMA SourceIs ==
    \A t \in Traces : /\ t \in Nat /\ t # NULL
                      /\ Trace(t).key \in STRING /\ Trace(t).value \in Int /\ Trace(t).splits \in Seq(STRING)
                      /\ Trace(t).value > Lowest
<1>1. Source \in Seq([data : BOOLEAN, key : STRING, value : Int, splits : Seq(STRING)])
  BY SourceAssumption
<1>2. ASSUME NEW t \in Traces PROVE t \in Nat /\ t # NULL /\ t + 1 \in 1 .. Len(Source)
  BY <1>1, LenProperties DEF Traces, NULL
<1>3. ASSUME NEW t \in Traces
      PROVE  Source[t + 1] \in [data : BOOLEAN, key : STRING, value : Int, splits : Seq(STRING)]
  BY <1>1, <1>2, ElementOfSeq
<1>4. QED
  BY <1>2, <1>3, SourceAssumption DEF Trace

LEMMA ConsumerIs ==
    ASSUME Types
    PROVE  consumer.op \in {"reduce", "select", "sort", "extract"} /\ (consumer.op = "select" => consumer.stat = "max")
BY ConsumersAssumption DEF Types

\* A new block.
LEMMA EmptyBlockIs ==
    ASSUME NEW t \in Traces
    PROVE  EmptyBlock(t) \in Block
<1>1. <<>> \in Seq(Traces) /\ <<>> \in Seq(STRING)
  OBVIOUS
<1>2. QED
  BY <1>1, SourceIs DEF EmptyBlock, Block

\* A trace that joins a block is its last; the rest of the block stays, but for what a consumer keeps.
LEMMA AccumulatedIs ==
    ASSUME Types, NEW t \in Traces, NEW b \in Block
    PROVE  LET a == Accumulated(t, b)
           IN  /\ a \in Block
               /\ a.items = Append(b.items, t)
               /\ a.key = b.key /\ a.flat = b.flat /\ a.finalized = b.finalized
               /\ a.src = b.src /\ a.res = b.res /\ a.done = b.done
               /\ consumer.op = "select" =>
                    a.best = IF Better(Trace(t).value, IF b.best = NULL THEN Lowest ELSE Trace(b.best).value)
                             THEN t ELSE b.best
<1>1. Append(b.items, t) \in Seq(Traces)
  BY DEF Block
<1>2. Trace(t).splits \in Seq(STRING)
  BY SourceIs
<1>3. CASE consumer.op = "reduce" \/ consumer.op = "sort"
  <2>1. Accumulated(t, b) = [b EXCEPT !.items = Append(@, t)]
    BY <1>3 DEF Accumulated, ReduceAccumulate, SortAccumulate
  <2>2. QED
    BY <1>1, <1>3, <2>1 DEF Block
<1>4. CASE consumer.op = "extract"
  <2>1. Accumulated(t, b) = [b EXCEPT !.items = Append(@, t), !.entries = Trace(t).splits]
    BY <1>4 DEF Accumulated, ExtractAccumulate
  <2>2. QED
    BY <1>1, <1>2, <1>4, <2>1 DEF Block
<1>5. CASE consumer.op = "select"
  <2> DEFINE v == IF b.best = NULL THEN Lowest ELSE Trace(b.best).value
             c == IF Better(Trace(t).value, v) THEN t ELSE b.best
  <2>1. Accumulated(t, b) = [b EXCEPT !.items = Append(@, t), !.best = c]
    BY <1>5 DEF Accumulated, SelectAccumulate
  <2>2. c \in Traces \cup {NULL}
    BY DEF Block
  <2> HIDE DEF c
  <2>3. Accumulated(t, b).best = c /\ Accumulated(t, b) \in Block
    BY <1>1, <2>1, <2>2 DEF Block
  <2>4. QED
    BY <2>1, <2>3 DEF Block, c
<1>6. QED
  BY <1>3, <1>4, <1>5, ConsumerIs

\* What a consumer gives.
LEMMA FinalizedIs ==
    ASSUME Types, NEW b \in Block, b.items # <<>>,
           consumer.op = "sort" => Sorted(b.items) \in Seq(Traces)
    PROVE  LET f == Finalized(b)
           IN  /\ f.block \in Block /\ f.more \in BOOLEAN
               /\ f.block.items = b.items /\ f.block.best = b.best
               /\ f.block.src = b.src /\ f.block.res = b.res /\ f.block.done = b.done
               /\ f.out # Failed =>
                    /\ f.out.kind \in {"best", "entry", "wild", "empty", "pattern"}
                    /\ f.out.src = b.src /\ f.out.from \in Seq(Traces)
               /\ consumer.op # "sort" => f.block.flat = b.flat /\ f.block.finalized = b.finalized
               /\ consumer.op = "reduce" => f.out = Failed
               /\ consumer.op = "select" =>
                    /\ f.out # Failed /\ f.block = b /\ ~f.more /\ f.out.from = b.items
                    /\ f.out.kind = IF b.best = NULL THEN "wild" ELSE "best"
                    /\ f.out.trace = b.best
               /\ consumer.op = "extract" /\ f.out # Failed =>
                    f.out.kind \in {"empty", "pattern"} /\ f.out.from = b.items
               /\ consumer.op = "sort" =>
                    LET flat == IF b.flat = <<>> THEN Sorted(b.items) ELSE b.flat
                        n == b.finalized + 1
                    IN  /\ f.out # Failed
                        /\ f.block.flat = flat /\ f.block.finalized = n
                        /\ f.more <=> n < Len(b.items)
                        /\ n \in DOMAIN flat => f.out.kind = "entry" /\ f.out.from = <<flat[n]>>
                        /\ n \notin DOMAIN flat => f.out.kind = "wild" /\ f.out.from = <<>>
<1>1. CASE consumer.op = "reduce"
  BY <1>1 DEF Finalized, ReduceFinalize
<1>2. CASE consumer.op = "select"
  <2>1. Finalized(b) = SelectFinalize(b)
    BY <1>2 DEF Finalized
  <2>2. b.items \in Seq(Traces)
    BY DEF Block
  <2>3. QED
    BY <1>2, <2>1, <2>2 DEF SelectFinalize, Failed
<1>3. CASE consumer.op = "extract"
  <2>1. Finalized(b) = ExtractFinalize(b)
    BY <1>3 DEF Finalized
  <2>2. b.items \in Seq(Traces) /\ b.entries \in Seq(STRING)
    BY DEF Block
  <2>3. CASE b.entries = <<>>
    BY <1>3, <2>1, <2>2, <2>3 DEF ExtractFinalize, Failed
  <2>4. CASE b.entries # <<>>
    <3>1. Tail(b.entries) \in Seq(STRING)
      BY <2>2, <2>4, HeadTailProperties
    <3>2. /\ Finalized(b).block = [b EXCEPT !.entries = Tail(@)] /\ Finalized(b).more \in BOOLEAN
          /\ Finalized(b).out = IF Head(b.entries) = "short" THEN Failed
                                ELSE [kind |-> "pattern", src |-> b.src, from |-> b.items]
      BY <2>1, <2>4 DEF ExtractFinalize
    <3>3. [b EXCEPT !.entries = Tail(@)] \in Block
      BY <3>1 DEF Block
    <3>4. QED
      BY <1>3, <2>2, <3>2, <3>3 DEF Block
  <2>5. QED
    BY <2>3, <2>4
<1>4. CASE consumer.op = "sort"
  <2> DEFINE flat == IF b.flat = <<>> THEN Sorted(b.items) ELSE b.flat
             n == b.finalized + 1
  <2>1. flat \in Seq(Traces) /\ n \in Nat
    BY <1>4 DEF Block
  <2>2. Finalized(b) = SortFinalize(b)
    BY <1>4 DEF Finalized
  <2>3. /\ Finalized(b).block = [b EXCEPT !.flat = flat, !.finalized = n]
        /\ Finalized(b).more = (n < Len(b.items))
        /\ Finalized(b).out = IF n \in DOMAIN flat
                              THEN [kind |-> "entry", src |-> b.src, from |-> <<flat[n]>>]
                              ELSE [kind |-> "wild", src |-> b.src, from |-> <<>>]
    BY <2>2 DEF SortFinalize
  <2> HIDE DEF flat, n
  <2>4. [b EXCEPT !.flat = flat, !.finalized = n] \in Block
    BY <2>1 DEF Block
  <2>5. n \in DOMAIN flat => flat[n] \in Traces
    BY <2>1, ElementOfSeq
  <2>6. /\ Finalized(b).out # Failed
        /\ Finalized(b).out.kind \in {"entry", "wild"}
        /\ Finalized(b).out.src = b.src
        /\ n \in DOMAIN flat => Finalized(b).out.kind = "entry" /\ Finalized(b).out.from = <<flat[n]>>
        /\ n \notin DOMAIN flat => Finalized(b).out.kind = "wild" /\ Finalized(b).out.from = <<>>
    BY <2>3 DEF Failed
  <2>7. Finalized(b).out.from \in Seq(Traces)
    <3>1. CASE n \in DOMAIN flat
      <4>1. \A t \in Traces : <<t>> \in Seq(Traces)
        OBVIOUS
      <4>2. QED
        BY <2>5, <2>6, <3>1, <4>1, Zenon
    <3>2. CASE n \notin DOMAIN flat
      <4>1. <<>> \in Seq(Traces)
        OBVIOUS
      <4>2. QED
        BY <2>6, <3>2, <4>1, Zenon
    <3>3. QED
      BY <3>1, <3>2
  <2>8. /\ Finalized(b).block \in Block
        /\ Finalized(b).block.items = b.items /\ Finalized(b).block.best = b.best
        /\ Finalized(b).block.src = b.src /\ Finalized(b).block.res = b.res
        /\ Finalized(b).block.done = b.done
        /\ Finalized(b).block.flat = flat /\ Finalized(b).block.finalized = n
    BY <2>3, <2>4 DEF Block
  <2>9. Finalized(b).more \in BOOLEAN /\ (Finalized(b).more <=> n < Len(b.items))
    <3>1. (n < Len(b.items)) \in BOOLEAN
      OBVIOUS
    <3>2. QED
      BY <2>3, <3>1, Zenon
  <2>10. QED
    BY <1>4, <2>6, <2>7, <2>8, <2>9, Zenon DEF flat, n
<1>5. QED
  BY <1>1, <1>2, <1>3, <1>4, ConsumerIs

\* The places of a list, each after those whose traces come before: a strict total order.
LEMMA BeforeIsTotal ==
    ASSUME Types, NEW items \in Seq(Traces)
    PROVE  \A j, k, l \in DOMAIN items :
                /\ ~Before(items, j, j)
                /\ j # k => Before(items, j, k) \/ Before(items, k, j)
                /\ Before(items, j, k) /\ Before(items, k, l) => Before(items, j, l)
                /\ Before(items, j, k) => ~Better(Trace(items[k]).value, Trace(items[j]).value)
<1> SUFFICES ASSUME NEW j \in DOMAIN items, NEW k \in DOMAIN items, NEW l \in DOMAIN items
             PROVE  /\ ~Before(items, j, j)
                    /\ j # k => Before(items, j, k) \/ Before(items, k, j)
                    /\ Before(items, j, k) /\ Before(items, k, l) => Before(items, j, l)
                    /\ Before(items, j, k) => ~Better(Trace(items[k]).value, Trace(items[j]).value)
  OBVIOUS
<1>1. items[j] \in Traces /\ items[k] \in Traces /\ items[l] \in Traces
  BY ElementOfSeq
<1>2. PICK u \in Int, v \in Int, w \in Int :
          u = Trace(items[j]).value /\ v = Trace(items[k]).value /\ w = Trace(items[l]).value
  BY <1>1, SourceIs
<1>3. j \in Nat /\ k \in Nat /\ l \in Nat
  OBVIOUS
<1>4. \A a, b \in Int : Better(a, b) <=> IF consumer.stat = "max" THEN a > b ELSE a < b
  BY DEF Better
<1>5. \A a, b \in DOMAIN items :
          Before(items, a, b) <=>
             \/ Better(Trace(items[a]).value, Trace(items[b]).value)
             \/ ~Better(Trace(items[b]).value, Trace(items[a]).value) /\ a < b
  BY DEF Before
<1>6. CASE consumer.stat = "max"
  <2>1. \A a, b \in Int : Better(a, b) <=> a > b
    BY <1>4, <1>6
  <2>2. /\ Before(items, j, j) <=> u > u \/ (~(u > u) /\ j < j)
        /\ Before(items, j, k) <=> u > v \/ (~(v > u) /\ j < k)
        /\ Before(items, k, j) <=> v > u \/ (~(u > v) /\ k < j)
        /\ Before(items, k, l) <=> v > w \/ (~(w > v) /\ k < l)
        /\ Before(items, j, l) <=> u > w \/ (~(w > u) /\ j < l)
        /\ Better(Trace(items[k]).value, Trace(items[j]).value) <=> v > u
    BY <1>2, <1>5, <2>1
  <2>3. QED
    BY <1>2, <1>3, <2>2
<1>7. CASE consumer.stat # "max"
  <2>1. \A a, b \in Int : Better(a, b) <=> a < b
    BY <1>4, <1>7
  <2>2. /\ Before(items, j, j) <=> u < u \/ (~(u < u) /\ j < j)
        /\ Before(items, j, k) <=> u < v \/ (~(v < u) /\ j < k)
        /\ Before(items, k, j) <=> v < u \/ (~(u < v) /\ k < j)
        /\ Before(items, k, l) <=> v < w \/ (~(w < v) /\ k < l)
        /\ Before(items, j, l) <=> u < w \/ (~(w < u) /\ j < l)
        /\ Better(Trace(items[k]).value, Trace(items[j]).value) <=> v < u
    BY <1>2, <1>5, <2>1
  <2>3. QED
    BY <1>2, <1>3, <2>2
<1>8. QED
  BY <1>6, <1>7

\* The array that is sorted has the traces of the list, in order.
LEMMA SortedIs ==
    ASSUME Types, NEW items \in Seq(Traces)
    PROVE  /\ Sorted(items) \in Seq(Traces) /\ Len(Sorted(items)) = Len(items)
           /\ Range(Sorted(items)) = Range(items)
           /\ (\A m, n \in DOMAIN items : items[m] = items[n] => m = n) =>
                \A m, n \in DOMAIN Sorted(items) : Sorted(items)[m] = Sorted(items)[n] => m = n
           /\ \A m, n \in DOMAIN Sorted(items) :
                m < n => ~Better(Trace(Sorted(items)[n]).value, Trace(Sorted(items)[m]).value)
<1> DEFINE D == DOMAIN items
           earlier(k) == {j \in D : Before(items, j, k)}
           c(k) == Cardinality(earlier(k))
           rank == [k \in D |-> c(k) + 1]
           place == [n \in D |-> CHOOSE k \in D : c(k) = n - 1]
           s == Sorted(items)
<1>1. D = 1 .. Len(items) /\ Len(items) \in Nat
  BY LenProperties
<1>2. IsFiniteSet(D) /\ Cardinality(D) = Len(items)
  BY <1>1, FS_Interval
<1>3. /\ \A j \in D : ~Before(items, j, j)
      /\ \A j, k \in D : j # k => Before(items, j, k) \/ Before(items, k, j)
      /\ \A j, k, l \in D : Before(items, j, k) /\ Before(items, k, l) => Before(items, j, l)
      /\ \A j, k \in D : Before(items, j, k) => ~Better(Trace(items[k]).value, Trace(items[j]).value)
  BY BeforeIsTotal, Zenon
<1>e. s = [n \in D |-> items[place[n]]]
  BY DEF Sorted
<1> HIDE DEF s
<1>4. ASSUME NEW k \in D PROVE c(k) \in 0 .. Len(items) - 1
  <2>1. earlier(k) \subseteq D \ {k}
    BY <1>3
  <2>2. IsFiniteSet(D \ {k}) /\ Cardinality(D \ {k}) = Len(items) - 1
    BY <1>2, FS_RemoveElement
  <2>3. IsFiniteSet(earlier(k)) /\ c(k) <= Len(items) - 1
    BY <2>1, <2>2, FS_Subset
  <2>4. c(k) \in Nat
    BY <2>3, FS_CardinalityType
  <2>5. QED
    BY <1>1, <2>3, <2>4
<1>5. ASSUME NEW j \in D, NEW k \in D, Before(items, j, k)
      PROVE  c(j) < c(k)
  <2>1. earlier(j) \subseteq earlier(k) /\ j \in earlier(k) /\ j \notin earlier(j)
    BY <1>3, <1>5
  <2>2. IsFiniteSet(earlier(k))
    BY <1>2, FS_Subset
  <2>3. /\ c(j) <= c(k)
        /\ c(k) = c(j) => earlier(k) = earlier(j)
    BY <2>1, <2>2, FS_Subset
  <2>4. c(j) # c(k)
    BY <2>1, <2>3, Zenon
  <2>5. c(j) \in Nat /\ c(k) \in Nat
    BY <1>4
  <2>6. QED
    BY <2>3, <2>4, <2>5
<1> HIDE DEF earlier, c
<1>6. rank \in Injection(D, D)
  <2>1. rank \in [D -> D]
    BY <1>1, <1>4
  <2>2. ASSUME NEW j \in D, NEW k \in D, rank[j] = rank[k] PROVE j = k
    <3>1. c(j) = c(k)
      <4>1. c(j) \in Int /\ c(k) \in Int
        BY <1>4
      <4>2. c(j) + 1 = c(k) + 1
        BY <2>2
      <4>3. QED
        BY <4>1, <4>2
    <3>2. c(j) \in Nat
      BY <1>4
    <3>3. ~Before(items, j, k) /\ ~Before(items, k, j)
      BY <1>5, <3>1, <3>2
    <3>4. QED
      BY <1>3, <3>3
  <2>3. QED
    BY <2>1, <2>2 DEF Injection, IsInjective
<1>7. rank \in Surjection(D, D)
  BY <1>2, <1>6, FS_Injection
<1>8. ASSUME NEW n \in D PROVE place[n] \in D /\ c(place[n]) = n - 1
  <2>1. PICK k \in D : rank[k] = n
    BY <1>7 DEF Surjection
  <2>2. c(k) = n - 1
    <3>1. c(k) \in Int /\ n = c(k) + 1
      BY <1>4, <2>1
    <3>2. QED
      BY <3>1
  <2>3. QED
    BY <2>2, Zenon
<1>9. ASSUME NEW k \in D PROVE \E n \in D : place[n] = k
  <2>1. rank[k] \in D /\ rank[k] = c(k) + 1 /\ c(k) \in Int
    BY <1>1, <1>4
  <2>2. c(place[rank[k]]) = c(k) /\ place[rank[k]] \in D
    <3>1. c(place[rank[k]]) = rank[k] - 1 /\ place[rank[k]] \in D
      BY <1>8, <2>1, Zenon
    <3>2. rank[k] - 1 = c(k)
      BY <2>1
    <3>3. QED
      BY <3>1, <3>2, Zenon
  <2>3. rank[place[rank[k]]] = rank[k]
    BY <2>2
  <2>4. place[rank[k]] = k
    BY <1>6, <2>2, <2>3 DEF Injection, IsInjective
  <2>5. QED
    BY <2>1, <2>4
<1>10. ASSUME NEW m \in D, NEW n \in D, m < n PROVE Before(items, place[m], place[n])
  <2>1. c(place[m]) = m - 1 /\ c(place[n]) = n - 1 /\ place[m] \in D /\ place[n] \in D /\ m \in Int /\ n \in Int
    BY <1>1, <1>8
  <2>2. m - 1 < n - 1 /\ ~(n - 1 < m - 1)
    BY <1>10, <2>1
  <2>3. place[m] # place[n] /\ ~Before(items, place[n], place[m])
    <3>1. c(place[m]) # c(place[n]) /\ ~(c(place[n]) < c(place[m]))
      BY <2>1, <2>2
    <3>2. QED
      BY <1>5, <2>1, <3>1
  <2>4. QED
    BY <1>3, <2>1, <2>3
<1>11. ASSUME NEW m \in D, NEW n \in D, place[m] = place[n] PROVE m = n
  <2>1. c(place[m]) = m - 1 /\ c(place[n]) = n - 1
    BY <1>8
  <2>2. m - 1 = n - 1
    BY <1>11, <2>1, Zenon
  <2>3. QED
    BY <1>1, <2>2
<1> HIDE DEF place, rank
<1>12. \A n \in D : s[n] = items[place[n]] /\ items[place[n]] \in Traces
  BY <1>e, <1>8, ElementOfSeq, SMTT(20)
<1>13. s \in Seq(Traces) /\ Len(s) = Len(items) /\ DOMAIN s = D
  <2>1. s \in [1 .. Len(items) -> Traces]
    BY <1>e, <1>1, <1>12
  <2>2. QED
    BY <1>1, <2>1
<1>14. Range(s) = Range(items)
  <2>1. \A t \in Range(s) : t \in Range(items)
    BY <1>8, <1>12, <1>13 DEF Range
  <2>2. \A t \in Range(items) : t \in Range(s)
    BY <1>9, <1>12, <1>13 DEF Range
  <2>3. QED
    BY <2>1, <2>2
<1>15. ASSUME \A m, n \in D : items[m] = items[n] => m = n
       PROVE  \A m, n \in DOMAIN s : s[m] = s[n] => m = n
  BY <1>8, <1>11, <1>12, <1>13, <1>15
<1>16. ASSUME NEW m \in DOMAIN s, NEW n \in DOMAIN s, m < n
       PROVE  ~Better(Trace(s[n]).value, Trace(s[m]).value)
  BY <1>3, <1>8, <1>10, <1>12, <1>13, <1>16
<1>17. QED
  BY <1>13, <1>14, <1>15, <1>16 DEF s

-----------------------------------------------------------------------------
(* Steps *)

\* A trace joins block k.
Join(g, k) == pc[g] = "accumulate" /\ Accumulate(g) /\ ~Singular /\ k = FirstMatch(taken[g]) /\ k # 0

\* A trace begins a block.
Begin(g) == pc[g] = "accumulate" /\ Accumulate(g) /\ (Singular \/ FirstMatch(taken[g]) = 0)

\* A block gives a trace, whose title may fail, and stays, or goes, or stays without its part.
Keep(g, k) == (Finalize(g) \/ TitleFails(g)) /\ k = BlockOf(idx[g]) /\ Finalized(blocks[k]).more
Drop(g, k) == Finalize(g) /\ k = BlockOf(idx[g]) /\ ~Finalized(blocks[k]).more
Leave(g, k) == TitleFails(g) /\ k = BlockOf(idx[g]) /\ ~Finalized(blocks[k]).more

Gives(g, k) == Keep(g, k) \/ Drop(g, k) \/ Leave(g, k)

\* A block fails to give one.
Refuse(g, k) == FinalizeFails(g) /\ k = BlockOf(idx[g]) /\ k # 0

\* What leaves the blocks alone.
Quiet(g) ==
    \/ Ask(g) \/ Check(g) \/ Take(g) \/ Fetch(g) \/ FetchEnds(g) \/ FetchFails(g)
    \/ Reference(g) \/ ReferenceFails(g) \/ AccumulateFails(g) \/ JoinFreed(g)

LEMMA StepCases ==
    ASSUME [Next]_vars
    PROVE  \/ UNCHANGED vars
           \/ \E g \in Getters :
                \/ Quiet(g) \/ Begin(g) \/ (FinalizeFails(g) /\ BlockOf(idx[g]) = 0)
                \/ \E k \in {FirstMatch(taken[g]), BlockOf(idx[g])} :
                        Join(g, k) \/ Gives(g, k) \/ Refuse(g, k)
<1>1. CASE UNCHANGED vars
  BY <1>1
<1>2. ASSUME NEW g \in Getters, Ask(g) \/ Step(g)
      PROVE  \/ Quiet(g) \/ Begin(g) \/ (FinalizeFails(g) /\ BlockOf(idx[g]) = 0)
             \/ \E k \in {FirstMatch(taken[g]), BlockOf(idx[g])} :
                    Join(g, k) \/ Gives(g, k) \/ Refuse(g, k)
  <2>1. CASE Accumulate(g)
    <3>1. pc[g] = "accumulate"
      BY <2>1 DEF Accumulate
    <3>2. QED
      BY <2>1, <3>1, Zenon DEF Join, Begin
  <2>2. CASE Finalize(g) \/ TitleFails(g)
    BY <2>2, Zenon DEF Gives, Keep, Drop, Leave
  <2>3. CASE FinalizeFails(g)
    BY <2>3, Zenon DEF Refuse
  <2>4. QED
    BY <1>2, <2>1, <2>2, <2>3, Zenon DEF Step, Quiet
<1>3. QED
  BY <1>1, <1>2, Zenon DEF Next

\* How traces come to hand and leave it: only the one who steps takes the next, or gives his away.
HandsMove(g) ==
    /\ taken' \in [Getters -> Nat \cup {NULL}]
    /\ \A h \in Getters \ {g} : taken'[h] = taken[h]
    /\ \/ UNCHANGED <<taken, lost, nextIndex>>
       \/ taken[g] = NULL /\ taken'[g] = nextIndex /\ nextIndex' = nextIndex + 1 /\ UNCHANGED lost
       \/ /\ taken[g] # NULL /\ taken'[g] = NULL /\ UNCHANGED nextIndex
          /\ lost' \in {lost, lost \cup ({taken[g]} \cap Traces)}

\* Who steps, from where to where, and whether it is still in the same get.
Moves(g) ==
    /\ \A h \in Getters \ {g} : pc'[h] = pc[h] /\ idx'[h] = idx[h]
    /\ pc' \in [Getters -> InHand \cup {"idle", "check", "take", "finalize"}]
    /\ idx' \in [Getters -> Indices \cup {NULL}]

\* A get that returns closes its index.
Returns(g, what) ==
    /\ pc[g] # "idle" /\ pc'[g] = "idle" /\ idx'[g] = idx[g]
    /\ result' = [result EXCEPT ![idx[g]] = what]

Stays(g) == UNCHANGED result /\ (pc'[g] # "idle" /\ pc[g] # "idle" => idx'[g] = idx[g])

LEMMA QuietIs ==
    ASSUME Types, Hands, NEW g \in Getters, Quiet(g)
    PROVE  /\ UNCHANGED <<consumer, doneIndex, blocks, late, overran>>
           /\ HandsMove(g) /\ Moves(g)
           /\ refLock' \in Getters \cup {NULL} /\ refValid' \in BOOLEAN
           /\ \/ /\ Ask(g)
              \/ /\ UNCHANGED <<nextAsk, idx>> /\ pc[g] # "idle"
                 /\ \/ UNCHANGED result /\ pc'[g] # "idle"
                    \/ Returns(g, Failed) \/ Returns(g, EndOfSource)
           /\ taken'[g] # taken[g] /\ taken[g] \in Traces => taken[g] \in lost' \/ ~Interesting(taken[g])
           /\ pc'[g] = "finalize" => Check(g)
           /\ pc'[g] \in InHand => taken'[g] \in 0 .. nextIndex' - 1
           /\ pc'[g] \notin InHand => taken'[g] = NULL
           /\ pc'[g] \in {"reference", "accumulate"} => taken'[g] \in Traces
<1>0. /\ pc \in [Getters -> InHand \cup {"idle", "check", "take", "finalize"}]
      /\ idx \in [Getters -> Indices \cup {NULL}] /\ taken \in [Getters -> Nat \cup {NULL}]
      /\ nextIndex \in Nat /\ refLock \in Getters \cup {NULL} /\ refValid \in BOOLEAN
      /\ nextAsk \in 0 .. Asked
  BY DEF Types
<1>h. /\ pc[g] \notin InHand => taken[g] = NULL
      /\ pc[g] \in InHand => taken[g] \in 0 .. nextIndex - 1
      /\ pc[g] \in {"reference", "accumulate"} => taken[g] \in Traces
  BY DEF Hands
<1>n. NULL \notin Nat
  BY DEF NULL
<1>1. CASE Ask(g)
  BY <1>0, <1>1, <1>h DEF Ask, MoveTo, HandsMove, Moves, InHand, history
<1>2. CASE Check(g)
  BY <1>0, <1>2, <1>h DEF Check, MoveTo, HandsMove, Moves, InHand, history
<1>3. CASE Take(g)
  <2>1. /\ UNCHANGED <<consumer, doneIndex, blocks, refLock, refValid, idx, nextAsk, result, history>>
        /\ pc[g] = "take" /\ pc' = [pc EXCEPT ![g] = "fetch"]
        /\ nextIndex' = nextIndex + 1 /\ taken' = [taken EXCEPT ![g] = nextIndex]
    BY <1>3 DEF Take, TakeNext, MoveTo
  <2>2. /\ taken'[g] = nextIndex /\ taken' \in [Getters -> Nat \cup {NULL}]
        /\ \A h \in Getters \ {g} : taken'[h] = taken[h]
        /\ pc'[g] = "fetch"
        /\ \A h \in Getters \ {g} : pc'[h] = pc[h]
        /\ pc' \in [Getters -> InHand \cup {"idle", "check", "take", "finalize"}]
    BY <1>0, <2>1 DEF InHand
  <2>3. taken[g] = NULL
    BY <1>h, <2>1 DEF InHand
  <2>4. HandsMove(g) /\ Moves(g)
    BY <1>0, <2>1, <2>2, <2>3, Zenon DEF HandsMove, Moves, history
  <2>5. NULL \notin Traces
    BY SourceIs
  <2>6. nextIndex \in 0 .. nextIndex' - 1
    BY <1>0, <2>1
  <2>7. taken[g] \notin Traces
    BY <2>3, <2>5, Zenon
  <2>8. taken'[g] \in 0 .. nextIndex' - 1
    BY <2>2, <2>6, Zenon
  <2>9. UNCHANGED <<consumer, doneIndex, blocks, late, overran, idx, nextAsk, result>>
        /\ refLock' \in Getters \cup {NULL} /\ refValid' \in BOOLEAN
    BY <1>0, <2>1 DEF history
  <2>10. QED
    BY <2>1, <2>2, <2>4, <2>7, <2>8, <2>9 DEF InHand
<1>4. CASE Fetch(g)
  <2>1. /\ UNCHANGED <<consumer, nextIndex, doneIndex, blocks, refLock, refValid, idx, nextAsk, result, history>>
        /\ pc[g] = "fetch" /\ taken[g] \in Traces
    BY <1>4 DEF Fetch
  <2>2. CASE Interesting(taken[g])
    <3>1. taken' = taken /\ \E w \in {"reference", "accumulate"} : pc' = [pc EXCEPT ![g] = w]
      BY <1>4, <2>2 DEF Fetch, MoveTo
    <3>2. QED
      BY <1>0, <1>h, <2>1, <3>1 DEF HandsMove, Moves, InHand, history
  <2>3. CASE ~Interesting(taken[g])
    <3>1. taken' = [taken EXCEPT ![g] = NULL] /\ pc' = [pc EXCEPT ![g] = "check"]
      BY <1>4, <2>3 DEF Fetch, MoveTo
    <3>2. QED
      BY <1>0, <1>h, <1>n, <2>1, <2>3, <3>1 DEF HandsMove, Moves, InHand, history
  <2>4. QED
    BY <2>2, <2>3
<1>5. CASE FetchEnds(g) \/ FetchFails(g) \/ ReferenceFails(g) \/ AccumulateFails(g)
  <2>1. /\ UNCHANGED <<consumer, nextIndex, doneIndex, blocks, refValid, idx, nextAsk, overran, late>>
        /\ refLock' \in {refLock, g}
        /\ pc[g] \in InHand /\ taken' = [taken EXCEPT ![g] = NULL]
        /\ pc' = [pc EXCEPT ![g] = "idle"]
        /\ \E w \in {Failed, EndOfSource} : result' = [result EXCEPT ![idx[g]] = w]
    BY <1>5 DEF FetchEnds, FetchFails, ReferenceFails, AccumulateFails, Return, MoveTo, history, InHand
  <2>2. \/ lost' = lost /\ taken[g] \notin Traces
        \/ lost' = lost \cup {taken[g]} /\ taken[g] \in Traces
    BY <1>5, <1>h DEF FetchEnds, FetchFails, ReferenceFails, AccumulateFails, history, Beyond, Traces
  <2>3. taken'[g] = NULL /\ taken' \in [Getters -> Nat \cup {NULL}] /\ taken[g] # NULL
        /\ \A h \in Getters \ {g} : taken'[h] = taken[h]
    BY <1>0, <1>h, <1>n, <2>1 DEF NULL
  <2>4. lost' \in {lost, lost \cup ({taken[g]} \cap Traces)}
    BY <2>2
  <2>5. HandsMove(g)
    BY <2>1, <2>3, <2>4, Zenon DEF HandsMove
  <2>6. pc'[g] = "idle" /\ pc[g] # "idle" /\ Moves(g)
    BY <1>0, <2>1 DEF Moves, InHand
  <2>7. Returns(g, Failed) \/ Returns(g, EndOfSource)
    BY <2>1, <2>6, Zenon DEF Returns
  <2>8. taken[g] \in Traces => taken[g] \in lost'
    BY <2>2
  <2>9. UNCHANGED <<consumer, doneIndex, blocks, late, overran, idx, nextAsk>>
        /\ refLock' \in Getters \cup {NULL} /\ refValid' \in BOOLEAN
    BY <1>0, <2>1
  <2>10. pc'[g] # "finalize" /\ pc'[g] \notin InHand /\ pc'[g] \notin {"reference", "accumulate"}
    BY <2>6 DEF InHand
  <2>11. QED
    BY <2>3, <2>5, <2>6, <2>7, <2>8, <2>9, <2>10, Zenon
<1>6. CASE Reference(g)
  BY <1>0, <1>6, <1>h DEF Reference, MoveTo, HandsMove, Moves, InHand, history
<1>7. CASE JoinFreed(g)
  <2>1. /\ UNCHANGED <<consumer, nextIndex, doneIndex, blocks, refLock, refValid, idx, nextAsk, result, overran, late>>
        /\ pc[g] = "accumulate" /\ pc' = [pc EXCEPT ![g] = "check"]
        /\ taken' = [taken EXCEPT ![g] = NULL] /\ lost' = lost \cup {taken[g]}
    BY <1>7 DEF JoinFreed, MoveTo
  <2>2. taken[g] \in Traces /\ taken[g] # NULL
    BY <1>h, <1>n, <2>1, SourceIs
  <2>3. /\ taken'[g] = NULL /\ taken' \in [Getters -> Nat \cup {NULL}]
        /\ \A h \in Getters \ {g} : taken'[h] = taken[h]
    BY <1>0, <2>1
  <2>4. HandsMove(g)
    BY <2>1, <2>2, <2>3 DEF HandsMove
  <2>5. Moves(g) /\ pc'[g] = "check"
    BY <1>0, <2>1 DEF Moves
  <2>6. QED
    BY <1>0, <2>1, <2>2, <2>3, <2>4, <2>5 DEF InHand
<1>8. QED
  BY <1>1, <1>2, <1>3, <1>4, <1>5, <1>6, <1>7 DEF Quiet

-----------------------------------------------------------------------------
(* What a step does to the list *)

\* Where the j-th block was before block k went.
Up(j, k) == IF j < k THEN j ELSE j + 1

LEMMA RemoveAtIs ==
    ASSUME NEW S, NEW s \in Seq(S), NEW k \in 1 .. Len(s)
    PROVE  /\ RemoveAt(s, k) \in Seq(S) /\ Len(RemoveAt(s, k)) = Len(s) - 1
           /\ \A j \in 1 .. Len(s) - 1 : RemoveAt(s, k)[j] = s[Up(j, k)]
<1> DEFINE a == SubSeq(s, 1, k - 1)
           z == SubSeq(s, k + 1, Len(s))
<1>1. Len(s) \in Nat /\ k \in Int /\ \A j \in 1 .. Len(s) : s[j] \in S
  BY ElementOfSeq, LenProperties
<1>2. a \in Seq(S) /\ Len(a) = k - 1 /\ \A j \in 1 .. k - 1 : a[j] = s[j]
  <2>1. \A j \in 1 .. k - 1 : s[j] \in S
    BY <1>1
  <2>2. /\ a \in Seq(S) /\ Len(a) = IF 1 <= k - 1 THEN k - 1 - 1 + 1 ELSE 0
        /\ \A j \in 1 .. k - 1 - 1 + 1 : a[j] = s[1 + j - 1]
    BY <1>1, <2>1, SubSeqProperties
  <2> HIDE DEF a
  <2>3. QED
    BY <1>1, <2>2
<1>3. z \in Seq(S) /\ Len(z) = Len(s) - k /\ \A j \in 1 .. Len(s) - k : z[j] = s[k + j]
  <2>1. \A j \in k + 1 .. Len(s) : s[j] \in S
    BY <1>1
  <2>2. /\ z \in Seq(S) /\ Len(z) = IF k + 1 <= Len(s) THEN Len(s) - (k + 1) + 1 ELSE 0
        /\ \A j \in 1 .. Len(s) - (k + 1) + 1 : z[j] = s[k + 1 + j - 1]
    BY <1>1, <2>1, SubSeqProperties
  <2> HIDE DEF z
  <2>3. QED
    BY <1>1, <2>2
<1>4. RemoveAt(s, k) = a \o z
  BY DEF RemoveAt
<1> HIDE DEF a, z
<1>5. /\ a \o z \in Seq(S) /\ Len(a \o z) = Len(a) + Len(z)
      /\ \A j \in 1 .. Len(a) + Len(z) : (a \o z)[j] = IF j <= Len(a) THEN a[j] ELSE z[j - Len(a)]
  BY <1>2, <1>3, ConcatProperties
<1>6. ASSUME NEW j \in 1 .. Len(s) - 1 PROVE (a \o z)[j] = s[Up(j, k)]
  <2>1. CASE j < k
    BY <1>1, <1>2, <1>3, <1>5, <2>1 DEF Up
  <2>2. CASE ~(j < k)
    <3>1. /\ j \in 1 .. Len(a) + Len(z) /\ ~(j <= Len(a))
          /\ j - Len(a) = j - k + 1 /\ j - k + 1 \in 1 .. Len(s) - k /\ k + (j - k + 1) = j + 1
      BY <1>1, <1>2, <1>3, <2>2
    <3>2. (a \o z)[j] = z[j - k + 1] /\ z[j - k + 1] = s[k + (j - k + 1)]
      BY <1>3, <1>5, <3>1
    <3>3. QED
      BY <2>2, <3>1, <3>2, Zenon DEF Up
  <2>3. QED
    BY <2>1, <2>2
<1>7. Len(a) + Len(z) = Len(s) - 1
  BY <1>1, <1>2, <1>3
<1>8. QED
  BY <1>4, <1>5, <1>6, <1>7, Zenon

LEMMA UpIs ==
    ASSUME NEW n \in Nat, NEW k \in 1 .. n
    PROVE  /\ \A j \in 1 .. n - 1 : Up(j, k) \in 1 .. n /\ Up(j, k) # k
           /\ \A i, j \in 1 .. n - 1 : Up(i, k) = Up(j, k) => i = j
           /\ \A l \in 1 .. n : l # k => \E j \in 1 .. n - 1 : Up(j, k) = l
<1>1. ASSUME NEW l \in 1 .. n, l # k PROVE \E j \in 1 .. n - 1 : Up(j, k) = l
  <2>1. CASE l < k
    BY <1>1, <2>1 DEF Up
  <2>2. CASE ~(l < k)
    <3>1. l - 1 \in 1 .. n - 1 /\ Up(l - 1, k) = l
      BY <1>1, <2>2 DEF Up
    <3>2. QED
      BY <3>1
  <2>3. QED
    BY <2>1, <2>2
<1>2. QED
  BY <1>1 DEF Up

\* Who puts a trace into a block has it in hand, and then no more.
LEMMA AccumulateIs ==
    ASSUME Types, Hands, NEW g \in Getters, pc[g] = "accumulate", Accumulate(g)
    PROVE  /\ taken[g] \in Traces /\ taken[g] \in 0 .. nextIndex - 1
           /\ taken' = [taken EXCEPT ![g] = NULL] /\ taken'[g] = NULL
           /\ HandsMove(g) /\ Moves(g) /\ pc'[g] = "check"
           /\ UNCHANGED <<consumer, nextIndex, refLock, refValid, idx, nextAsk, result, lost>>
<1>1. /\ taken' = [taken EXCEPT ![g] = NULL] /\ pc' = [pc EXCEPT ![g] = "check"]
      /\ UNCHANGED <<consumer, nextIndex, refLock, refValid, idx, nextAsk, result, lost>>
  BY DEF Accumulate, MoveTo
<1>2. taken[g] \in Traces /\ taken[g] \in 0 .. nextIndex - 1
  BY DEF Hands, InHand
<1>3. taken[g] # NULL
  BY <1>2, SourceIs
<1>4. /\ pc \in [Getters -> InHand \cup {"idle", "check", "take", "finalize"}]
      /\ idx \in [Getters -> Indices \cup {NULL}] /\ taken \in [Getters -> Nat \cup {NULL}]
  BY DEF Types
<1>5. /\ taken'[g] = NULL /\ taken' \in [Getters -> Nat \cup {NULL}]
      /\ \A h \in Getters \ {g} : taken'[h] = taken[h]
  BY <1>1, <1>4
<1>6. HandsMove(g)
  BY <1>1, <1>3, <1>5, Zenon DEF HandsMove
<1>7. pc'[g] = "check" /\ Moves(g)
  BY <1>1, <1>4 DEF Moves
<1>8. QED
  BY <1>1, <1>2, <1>5, <1>6, <1>7

LEMMA JoinIs ==
    ASSUME Types, Hands, NEW g \in Getters, NEW k, Join(g, k)
    PROVE  LET t == taken[g]
           IN  /\ k \in DOMAIN blocks /\ ~Singular /\ ~Freed(blocks[k])
               /\ blocks' \in Seq(Block) /\ DOMAIN blocks' = DOMAIN blocks /\ Len(blocks') = Len(blocks)
               /\ \A j \in DOMAIN blocks : j # k => blocks'[j] = blocks[j]
               /\ blocks'[k].items = Append(blocks[k].items, t)
               /\ blocks'[k].flat = blocks[k].flat /\ blocks'[k].finalized = blocks[k].finalized
               /\ blocks'[k].src = blocks[k].src
               /\ blocks'[k].res = blocks[k].res /\ blocks'[k].done = blocks[k].done
               /\ consumer.op = "select" =>
                    blocks'[k].best =
                        IF Better(Trace(t).value, IF blocks[k].best = NULL THEN Lowest ELSE Trace(blocks[k].best).value)
                        THEN t ELSE blocks[k].best
               /\ late' = IF blocks[k].flat = <<>> THEN late ELSE late \cup {t}
               /\ UNCHANGED <<doneIndex, overran>>
<1> DEFINE t == taken[g]
           a == Accumulated(t, blocks[k])
<1>1. t \in Traces
  BY AccumulateIs DEF Join
<1>2. k \in DOMAIN blocks /\ ~Singular /\ ~Freed(blocks[k])
  BY FirstMatchIs DEF Join
<1>3. blocks \in Seq(Block) /\ DOMAIN blocks = 1 .. Len(blocks) /\ Len(blocks) \in Nat
  BY LenProperties DEF Types
<1>4. blocks[k] \in Block
  BY <1>2, <1>3, ElementOfSeq
<1>5. JoinBlock(t, k)
  BY Zenon DEF Join, Accumulate
<1>6. /\ blocks' = [blocks EXCEPT ![k] = a]
      /\ late' = IF blocks[k].flat = <<>> THEN late ELSE late \cup {t}
      /\ UNCHANGED <<doneIndex, overran>>
  BY <1>5 DEF JoinBlock
<1>7. /\ a \in Block /\ a.items = Append(blocks[k].items, t)
      /\ a.flat = blocks[k].flat /\ a.finalized = blocks[k].finalized
      /\ a.src = blocks[k].src /\ a.res = blocks[k].res /\ a.done = blocks[k].done
      /\ consumer.op = "select" =>
           a.best = IF Better(Trace(t).value, IF blocks[k].best = NULL THEN Lowest ELSE Trace(blocks[k].best).value)
                    THEN t ELSE blocks[k].best
  BY <1>1, <1>4, AccumulatedIs
<1> HIDE DEF a
<1>8. /\ blocks' \in Seq(Block) /\ Len(blocks') = Len(blocks) /\ DOMAIN blocks' = DOMAIN blocks
      /\ blocks'[k] = a /\ \A j \in DOMAIN blocks : j # k => blocks'[j] = blocks[j]
  <2>1. /\ blocks' \in Seq(Block) /\ Len(blocks') = Len(blocks)
        /\ \A j \in 1 .. Len(blocks) : blocks'[j] = IF j = k THEN a ELSE blocks[j]
    BY <1>2, <1>3, <1>6, <1>7, ExceptSeq
  <2>2. DOMAIN blocks' = 1 .. Len(blocks')
    BY <2>1, LenProperties
  <2>3. QED
    BY <1>2, <1>3, <2>1, <2>2, Zenon
<1>9. QED
  BY <1>2, <1>6, <1>7, <1>8, Zenon

\* A new block, and the one that it completes.
LEMMA BeginIs ==
    ASSUME Types, Hands, NEW g \in Getters, Begin(g)
    PROVE  LET t == taken[g]
               n == Len(blocks) + 1
           IN  /\ blocks' \in Seq(Block) /\ DOMAIN blocks' = 1 .. n /\ Len(blocks') = n /\ DOMAIN blocks = 1 .. n - 1
               /\ blocks'[n].items = <<t>> /\ blocks'[n].src = t
               /\ blocks'[n].flat = <<>> /\ blocks'[n].finalized = 0
               /\ consumer.op = "select" => blocks'[n].best = t
               /\ \A j \in 1 .. n - 1 :
                    /\ blocks'[j].items = blocks[j].items /\ blocks'[j].src = blocks[j].src
                    /\ blocks'[j].flat = blocks[j].flat /\ blocks'[j].finalized = blocks[j].finalized
                    /\ blocks'[j].best = blocks[j].best
               /\ \E m \in 0 .. n :
                    /\ \A j \in 1 .. n - 1 : j # m => blocks'[j].done = blocks[j].done /\ blocks'[j].res = blocks[j].res
                    /\ m # n => ~blocks'[n].done
                    /\ m # 0 => blocks'[m].done /\ blocks'[m].res = doneIndex
                    /\ m \in 1 .. n - 1 => ~blocks[m].done
                    /\ doneIndex' = IF m = 0 THEN doneIndex ELSE doneIndex + 1
                    /\ Singular => m = n
               /\ ~Singular /\ n = ListLength => blocks'[1].done
               /\ overran' = (overran \/ n > ListLength)
               /\ UNCHANGED late
<1> DEFINE t == taken[g]
           n == Len(blocks) + 1
           b == Accumulated(t, EmptyBlock(t))
           list == Append(blocks, b)
           complete == IF Singular THEN {Len(list)}
                       ELSE IF LengthReached(list) /\ ~list[1].done THEN {1} ELSE {}
<1>1. t \in Traces
  BY AccumulateIs DEF Begin
<1>2. blocks \in Seq(Block) /\ DOMAIN blocks = 1 .. Len(blocks) /\ Len(blocks) \in Nat
  BY LenProperties DEF Types
<1>3. EmptyBlock(t) \in Block
  BY <1>1, EmptyBlockIs
<1>4. /\ b \in Block /\ b.items = <<t>> /\ b.src = t /\ b.flat = <<>> /\ b.finalized = 0 /\ ~b.done
      /\ consumer.op = "select" => b.best = t
  <2>1. /\ EmptyBlock(t).items = <<>> /\ EmptyBlock(t).src = t /\ EmptyBlock(t).flat = <<>>
        /\ EmptyBlock(t).finalized = 0 /\ EmptyBlock(t).done = FALSE /\ EmptyBlock(t).best = NULL
    BY DEF EmptyBlock
  <2>2. Append(<<>>, t) = <<t>>
    OBVIOUS
  <2>3. consumer.op = "select" => Better(Trace(t).value, Lowest)
    BY <1>1, SourceIs, ConsumerIs DEF Better
  <2>4. /\ b \in Block /\ b.items = Append(EmptyBlock(t).items, t)
        /\ b.flat = EmptyBlock(t).flat /\ b.finalized = EmptyBlock(t).finalized
        /\ b.src = EmptyBlock(t).src /\ b.res = EmptyBlock(t).res /\ b.done = EmptyBlock(t).done
        /\ consumer.op = "select" =>
             b.best = IF Better(Trace(t).value,
                                IF EmptyBlock(t).best = NULL THEN Lowest ELSE Trace(EmptyBlock(t).best).value)
                      THEN t ELSE EmptyBlock(t).best
    BY <1>1, <1>3, AccumulatedIs
  <2> HIDE DEF b
  <2>5. QED
    BY <2>1, <2>2, <2>3, <2>4
<1> HIDE DEF b
<1>5. /\ list \in Seq(Block) /\ Len(list) = n /\ DOMAIN list = 1 .. n
      /\ list[n] = b /\ \A j \in 1 .. n - 1 : list[j] = blocks[j]
  BY <1>2, <1>4
<1>6. AppendBlock(b) /\ UNCHANGED late
  <2>1. CASE Singular
    BY <2>1, Zenon DEF Begin, Accumulate, b
  <2>2. CASE FirstMatch(t) = 0
    BY <2>2, Zenon DEF Begin, Accumulate, b
  <2>3. QED
    BY <2>1, <2>2 DEF Begin
<1>7. /\ blocks' = IF complete = {} THEN list ELSE MarkDone(list, CHOOSE k \in complete : TRUE, doneIndex)
      /\ doneIndex' = doneIndex + Cardinality(complete)
      /\ overran' = (overran \/ Len(list) > ListLength)
  BY <1>6, Zenon DEF AppendBlock
<1>8. \A j \in 1 .. n : list[j] \in Block
  BY <1>5, ElementOfSeq
<1>9. doneIndex \in Nat
  BY DEF Types
<1> HIDE DEF list
<1>10. CASE complete = {}
  <2>1. blocks' = list /\ doneIndex' = doneIndex
    <3>1. Cardinality({}) = 0
      BY FS_EmptySet
    <3>2. doneIndex' = doneIndex + 0
      BY <1>7, <1>10, <3>1, Zenon
    <3>3. QED
      BY <1>7, <1>9, <1>10, <3>2
  <2>2. ~Singular /\ (n = ListLength => list[1].done)
    <3>1. ~Singular
      BY <1>10, Zenon
    <3>2. ~(LengthReached(list) /\ ~list[1].done)
      BY <1>10, <3>1, Zenon
    <3>3. QED
      BY <1>5, <3>1, <3>2, Zenon DEF LengthReached
  <2>3. /\ \A j \in 1 .. n - 1 : blocks'[j] = blocks[j]
        /\ blocks'[n] = b
    BY <1>5, <2>1
  <2>4. 0 \in 0 .. n /\ 0 # n /\ n \in 1 .. n
    BY <1>2
  <2>5. \E m \in 0 .. n :
          /\ \A j \in 1 .. n - 1 : j # m => blocks'[j].done = blocks[j].done /\ blocks'[j].res = blocks[j].res
          /\ m # n => ~blocks'[n].done
          /\ m # 0 => blocks'[m].done /\ blocks'[m].res = doneIndex
          /\ m \in 1 .. n - 1 => ~blocks[m].done
          /\ doneIndex' = IF m = 0 THEN doneIndex ELSE doneIndex + 1
          /\ Singular => m = n
    <3> WITNESS 0 \in 0 .. n
    <3>1. 0 \notin 1 .. n - 1
      OBVIOUS
    <3>2. QED
      BY <1>4, <2>1, <2>2, <2>3, <3>1, Zenon
  <2>6. DOMAIN blocks = 1 .. n - 1
    BY <1>2
  <2>7. overran' = (overran \/ n > ListLength)
    BY <1>5, <1>7, Zenon
  <2> HIDE DEF n, complete
  <2>8. QED
    BY <1>4, <1>5, <1>6, <2>1, <2>2, <2>3, <2>5, <2>6, <2>7, Zenon DEF n
<1>11. ASSUME NEW m \in 1 .. n, complete = {m}, Singular => m = n, ~Singular => m = 1 /\ ~list[1].done
       PROVE  /\ blocks' \in Seq(Block) /\ DOMAIN blocks' = 1 .. n /\ Len(blocks') = n
              /\ \A j \in 1 .. n : j # m => blocks'[j] = list[j]
              /\ blocks'[m] = [list[m] EXCEPT !.done = TRUE, !.res = doneIndex]
              /\ doneIndex' = doneIndex + 1 /\ ~list[m].done
  <2>1. (CHOOSE k \in complete : TRUE) = m
    <3>1. (CHOOSE k \in {m} : TRUE) \in {m}
      BY Zenon
    <3>2. QED
      BY <1>11, <3>1, Zenon
  <2>2. blocks' = MarkDone(list, m, doneIndex)
    BY <1>7, <1>11, <2>1, Zenon
  <2>3. doneIndex' = doneIndex + 1
    <3>1. Cardinality({m}) = 1
      BY FS_Singleton
    <3>2. QED
      BY <1>7, <1>11, <3>1, Zenon
  <2>4. list[m] \in Block
    BY <1>8
  <2> DEFINE c == [list[m] EXCEPT !.done = TRUE, !.res = doneIndex]
  <2>5. c \in Block
    BY <1>9, <2>4 DEF Block
  <2>6. blocks' = [list EXCEPT ![m] = c]
    <3>1. [list[m] EXCEPT !.done = TRUE] = [list EXCEPT ![m].done = TRUE][m]
      BY <1>5
    <3>2. blocks' = [[list EXCEPT ![m].done = TRUE] EXCEPT ![m].res = doneIndex]
      BY <2>2 DEF MarkDone
    <3>3. QED
      BY <1>5, <2>4, <3>2 DEF Block
  <2> HIDE DEF c
  <2>7. /\ blocks' \in Seq(Block) /\ Len(blocks') = Len(list)
        /\ \A j \in 1 .. Len(list) : blocks'[j] = IF j = m THEN c ELSE list[j]
    BY <1>5, <2>5, <2>6, ExceptSeq
  <2>8. DOMAIN blocks' = 1 .. n
    BY <1>5, <2>7, LenProperties
  <2>9. ~list[m].done
    <3>1. CASE Singular
      BY <1>4, <1>5, <1>11, <3>1, Zenon
    <3>2. CASE ~Singular
      BY <1>11, <3>2, Zenon
    <3>3. QED
      BY <3>1, <3>2
  <2>10. QED
    BY <1>5, <2>3, <2>7, <2>8, <2>9, Zenon DEF c
<1>12. CASE complete # {}
  <2>1. PICK m \in 1 .. n : /\ complete = {m} /\ (Singular => m = n)
                            /\ ~Singular => m = 1 /\ ~list[1].done
    <3>1. 1 \in 1 .. n /\ n \in 1 .. n
      BY <1>2
    <3>2. CASE Singular
      BY <1>5, <3>1, <3>2, Zenon
    <3>3. CASE ~Singular
      BY <1>12, <3>1, <3>3, Zenon
    <3>4. QED
      BY <3>2, <3>3
  <2>2. /\ blocks' \in Seq(Block) /\ DOMAIN blocks' = 1 .. n /\ Len(blocks') = n
        /\ \A j \in 1 .. n : j # m => blocks'[j] = list[j]
        /\ blocks'[m] = [list[m] EXCEPT !.done = TRUE, !.res = doneIndex]
        /\ doneIndex' = doneIndex + 1 /\ ~list[m].done
    BY <1>11, <2>1
  <2>3. list[m] \in Block
    BY <1>8
  <2>4. /\ blocks'[m].done = TRUE /\ blocks'[m].res = doneIndex
        /\ blocks'[m].items = list[m].items /\ blocks'[m].src = list[m].src
        /\ blocks'[m].flat = list[m].flat /\ blocks'[m].finalized = list[m].finalized
        /\ blocks'[m].best = list[m].best
    BY <2>2, <2>3 DEF Block
  <2>5. n \in 1 .. n /\ m \in 0 .. n /\ m # 0 /\ \A j \in 1 .. n - 1 : j \in 1 .. n /\ j # n
    BY <1>2
  <2>6. \A j \in 1 .. n :
          /\ blocks'[j].items = list[j].items /\ blocks'[j].src = list[j].src
          /\ blocks'[j].flat = list[j].flat /\ blocks'[j].finalized = list[j].finalized
          /\ blocks'[j].best = list[j].best
    BY <2>2, <2>4, Zenon
  <2>7. \E l \in 0 .. n :
          /\ \A j \in 1 .. n - 1 : j # l => blocks'[j].done = blocks[j].done /\ blocks'[j].res = blocks[j].res
          /\ l # n => ~blocks'[n].done
          /\ l # 0 => blocks'[l].done /\ blocks'[l].res = doneIndex
          /\ l \in 1 .. n - 1 => ~blocks[l].done
          /\ doneIndex' = IF l = 0 THEN doneIndex ELSE doneIndex + 1
          /\ Singular => l = n
    <3> WITNESS m \in 0 .. n
    <3>1. m \in 1 .. n - 1 => ~blocks[m].done
      BY <1>5, <2>2, Zenon
    <3>2. m # n => ~blocks'[n].done
      BY <1>4, <1>5, <2>2, <2>5, Zenon
    <3>3. \A j \in 1 .. n - 1 : j # m => blocks'[j].done = blocks[j].done /\ blocks'[j].res = blocks[j].res
      BY <1>5, <2>2, <2>5, Zenon
    <3>4. QED
      BY <2>1, <2>2, <2>4, <2>5, <3>1, <3>2, <3>3, Zenon
  <2>8. DOMAIN blocks = 1 .. n - 1
    BY <1>2
  <2>9. overran' = (overran \/ n > ListLength)
    BY <1>5, <1>7, Zenon
  <2>10. ~Singular => blocks'[1].done
    BY <2>1, <2>4, Zenon
  <2>11. /\ blocks'[n].items = <<t>> /\ blocks'[n].src = t
         /\ blocks'[n].flat = <<>> /\ blocks'[n].finalized = 0
         /\ consumer.op = "select" => blocks'[n].best = t
    <3>1. /\ blocks'[n].items = list[n].items /\ blocks'[n].src = list[n].src
          /\ blocks'[n].flat = list[n].flat /\ blocks'[n].finalized = list[n].finalized
          /\ blocks'[n].best = list[n].best
      BY <2>5, <2>6, Zenon
    <3>2. QED
      BY <1>4, <1>5, <3>1, Zenon
  <2>12. \A j \in 1 .. n - 1 :
            /\ blocks'[j].items = blocks[j].items /\ blocks'[j].src = blocks[j].src
            /\ blocks'[j].flat = blocks[j].flat /\ blocks'[j].finalized = blocks[j].finalized
            /\ blocks'[j].best = blocks[j].best
    BY <1>5, <2>5, <2>6, Zenon
  <2> HIDE DEF n, complete
  <2>13. QED
    BY <1>6, <2>2, <2>7, <2>8, <2>9, <2>10, <2>11, <2>12, Zenon DEF n
<1>13. QED
  BY <1>10, <1>12

\* Whoever answers for an index that is promised finds its block.
LEMMA Found ==
    ASSUME Types, Asking, Promises, NEW g \in Getters, pc[g] = "finalize"
    PROVE  BlockOf(idx[g]) # 0 /\ ~Freed(blocks[BlockOf(idx[g])])
<1>1. idx[g] \in Indices /\ idx[g] < doneIndex /\ result[idx[g]] = Pending
  BY DEF Asking
<1>2. idx[g] \in 0 .. doneIndex - 1
  BY <1>1 DEF Types, Indices
<1>3. idx[g] \notin Handed
  BY <1>1 DEF Handed, Answered, Untitled, Pending
<1>4. \E k \in DOMAIN blocks : blocks[k].res = idx[g] /\ blocks[k].done
  BY <1>2, <1>3, Zenon DEF Promises
<1>5. /\ BlockOf(idx[g]) # 0 /\ BlockOf(idx[g]) \in DOMAIN blocks
      /\ blocks[BlockOf(idx[g])].res = idx[g]
  BY <1>4, BlockOfIs
<1>6. QED
  BY <1>3, <1>5, Zenon DEF Promises

\* What a get returns of what its block gave.
Untitle(out) == [kind |-> "untitled", src |-> out.src, from |-> out.from]
Outcomes(out) == {out, Untitle(out)}

LEMMA OutcomeIs ==
    ASSUME NEW out, NEW w \in Outcomes(out)
    PROVE  /\ w.src = out.src /\ w.from = out.from /\ w.kind \in {out.kind, "untitled"}
           /\ w.kind # "untitled" => w = out
BY DEF Outcomes, Untitle

\* What a get returns that is an error answers nothing, what a block gives answers its index.
LEMMA AnsweredSame ==
    ASSUME Types, Asking, NEW g \in Getters,
           \/ UNCHANGED result
           \/ Returns(g, Failed)
           \/ Returns(g, EndOfSource)
    PROVE  /\ Handed' = Handed /\ DOMAIN result' = Indices
           /\ \A i \in Handed : result'[i] = result[i]
           /\ \A i \in Handed : From(i)' = From(i)
           /\ \A i \in Indices : result[i].kind # "unknown" => result'[i].kind # "unknown"
<1>1. CASE UNCHANGED result
  BY <1>1 DEF Handed, Answered, Untitled, From, Types
<1>2. CASE Returns(g, Failed) \/ Returns(g, EndOfSource)
  <2>1. PICK w \in {Failed, EndOfSource} : result' = [result EXCEPT ![idx[g]] = w]
    BY <1>2 DEF Returns
  <2>2. pc[g] # "idle" /\ DOMAIN result = Indices
    BY <1>2 DEF Returns, Types
  <2>3. idx[g] \in Indices /\ result[idx[g]] = Pending
    BY <2>2 DEF Asking
  <2>4. idx[g] \notin Handed
    BY <2>3 DEF Handed, Answered, Untitled, Pending
  <2>5. w.kind \notin {"best", "entry", "wild", "empty", "pattern", "untitled", "unknown"}
    BY DEF Failed, EndOfSource
  <2>6. /\ DOMAIN result' = Indices /\ result'[idx[g]] = w
        /\ \A i \in Indices : i # idx[g] => result'[i] = result[i]
    BY <2>1, <2>2, <2>3
  <2>7. Handed' = Handed
    BY <2>4, <2>5, <2>6 DEF Handed, Answered, Untitled
  <2>8. \A i \in Handed : result'[i] = result[i]
    BY <2>4, <2>6, Zenon DEF Handed, Answered, Untitled
  <2>9. QED
    BY <2>5, <2>6, <2>7, <2>8 DEF From
<1>3. QED
  BY <1>1, <1>2

LEMMA AnsweredMore ==
    ASSUME Types, Asking, NEW g \in Getters, NEW out, Returns(g, out),
           out.kind \in {"best", "entry", "wild", "empty", "pattern", "untitled"}
    PROVE  /\ idx[g] \notin Handed /\ Handed' = Handed \cup {idx[g]} /\ idx[g] \in Indices
           /\ DOMAIN result' = Indices /\ result'[idx[g]] = out
           /\ \A i \in Handed : i # idx[g] /\ result'[i] = result[i]
           /\ \A i \in Handed : From(i)' = From(i)
           /\ From(idx[g])' = Range(out.from) /\ idx'[g] = idx[g]
           /\ \A i \in Indices : result[i].kind # "unknown" => result'[i].kind # "unknown"
<1>1. pc[g] # "idle" /\ DOMAIN result = Indices /\ result' = [result EXCEPT ![idx[g]] = out] /\ idx'[g] = idx[g]
  BY DEF Returns, Types
<1>2. idx[g] \in Indices /\ result[idx[g]] = Pending
  BY <1>1 DEF Asking
<1>3. idx[g] \notin Handed
  BY <1>2 DEF Handed, Answered, Untitled, Pending
<1>4. /\ DOMAIN result' = Indices /\ result'[idx[g]] = out
      /\ \A i \in Indices : i # idx[g] => result'[i] = result[i]
  BY <1>1, <1>2
<1>5. Handed' = Handed \cup {idx[g]}
  BY <1>2, <1>4 DEF Handed, Answered, Untitled
<1>6. \A i \in Handed : i # idx[g] /\ result'[i] = result[i]
  BY <1>3, <1>4, Zenon DEF Handed, Answered, Untitled
<1>7. \A i \in Handed : From(i)' = From(i)
  BY <1>6 DEF From
<1>8. From(idx[g])' = Range(out.from)
  BY <1>1, <1>4 DEF From
<1>9. QED
  BY <1>1, <1>2, <1>3, <1>4, <1>5, <1>6, <1>7, <1>8

\* What a sort has given of its array, and what is left of the list.
GivenOf(flat, n) == {flat[m] : m \in 1 .. n \cap DOMAIN flat}

LEMMA GivenOfIs ==
    ASSUME NEW flat \in Seq(Traces), NEW n \in Nat,
           \A l, m \in DOMAIN flat : flat[l] = flat[m] => l = m
    PROVE  /\ n + 1 \notin DOMAIN flat => GivenOf(flat, n + 1) = GivenOf(flat, n)
           /\ n + 1 \in DOMAIN flat =>
                GivenOf(flat, n + 1) = GivenOf(flat, n) \cup {flat[n + 1]} /\ flat[n + 1] \notin GivenOf(flat, n)
           /\ n >= Len(flat) => GivenOf(flat, n) = Range(flat)
           /\ GivenOf(flat, 0) = {}
<1>1. DOMAIN flat = 1 .. Len(flat) /\ Len(flat) \in Nat
  BY LenProperties
<1>2. 1 .. n + 1 = 1 .. n \cup {n + 1} /\ n + 1 \notin 1 .. n
  OBVIOUS
<1>3. n + 1 \notin DOMAIN flat => GivenOf(flat, n + 1) = GivenOf(flat, n)
  BY <1>2 DEF GivenOf
<1>4. n + 1 \in DOMAIN flat =>
        GivenOf(flat, n + 1) = GivenOf(flat, n) \cup {flat[n + 1]} /\ flat[n + 1] \notin GivenOf(flat, n)
  BY <1>2 DEF GivenOf
<1>5. n >= Len(flat) => 1 .. n \cap DOMAIN flat = DOMAIN flat
  BY <1>1
<1>6. n >= Len(flat) => GivenOf(flat, n) = Range(flat)
  BY <1>5 DEF GivenOf, Range
<1>7. QED
  BY <1>3, <1>4, <1>6 DEF GivenOf

LEMMA SortGives ==
    ASSUME Types, Apart, Flat, consumer.op = "sort", NEW k \in DOMAIN blocks, ~Freed(blocks[k])
    PROVE  LET b == blocks[k]
               f == Finalized(b)
               flat == f.block.flat
               n == f.block.finalized
           IN  /\ flat \in Seq(Traces) /\ n = b.finalized + 1 /\ b.finalized \in Nat
               /\ f.block.items = b.items
               /\ f.out # Failed
               /\ f.more <=> n < Len(b.items)
               /\ n \in DOMAIN flat => f.out.kind = "entry" /\ f.out.from = <<flat[n]>>
               /\ n \notin DOMAIN flat => f.out.kind = "wild" /\ f.out.from = <<>>
               /\ flat # <<>>
               /\ b.flat # <<>> => flat = b.flat
               /\ Len(flat) <= Len(b.items) /\ b.finalized < Len(b.items)
               /\ Len(flat) < Len(b.items) => late # {}
               /\ \A l, m \in DOMAIN flat : flat[l] = flat[m] => l = m
               /\ Range(flat) \subseteq Range(b.items)
               /\ Range(b.items) \subseteq Range(flat) \cup late
               /\ \A l, m \in DOMAIN flat : l < m => ~Better(Trace(flat[m]).value, Trace(flat[l]).value)
               /\ Remaining(b) = Range(b.items) \ GivenOf(flat, b.finalized)
               /\ Remaining(f.block) = Range(b.items) \ GivenOf(flat, n)
<1> DEFINE b == blocks[k]
           f == Finalized(b)
           flat == IF b.flat = <<>> THEN Sorted(b.items) ELSE b.flat
           n == b.finalized + 1
<1>1. b \in Block /\ b.items # <<>>
  BY ElementOfSeq, LenProperties DEF Types, Freed
<1>2. b.items \in Seq(Traces) /\ b.flat \in Seq(Traces) /\ b.finalized \in Nat
  BY <1>1 DEF Block
<1>3. \A l, m \in DOMAIN b.items : b.items[l] = b.items[m] => l = m
  BY DEF Apart
<1>4. /\ Sorted(b.items) \in Seq(Traces) /\ Len(Sorted(b.items)) = Len(b.items)
      /\ Range(Sorted(b.items)) = Range(b.items)
      /\ \A l, m \in DOMAIN Sorted(b.items) : Sorted(b.items)[l] = Sorted(b.items)[m] => l = m
      /\ \A l, m \in DOMAIN Sorted(b.items) :
            l < m => ~Better(Trace(Sorted(b.items)[m]).value, Trace(Sorted(b.items)[l]).value)
  BY <1>2, <1>3, SortedIs
<1>5. /\ f.block.items = b.items
      /\ f.out # Failed /\ f.block.flat = flat /\ f.block.finalized = n
      /\ f.more <=> n < Len(b.items)
      /\ n \in DOMAIN flat => f.out.kind = "entry" /\ f.out.from = <<flat[n]>>
      /\ n \notin DOMAIN flat => f.out.kind = "wild" /\ f.out.from = <<>>
  BY <1>1, <1>4, FinalizedIs
<1>6. FlatOf(b)
  BY DEF Flat
<1>7. Len(b.items) \in Nat \ {0}
  BY <1>1, <1>2, EmptySeq
<1> HIDE DEF f
<1>8. CASE b.flat = <<>>
  <2>1. flat = Sorted(b.items) /\ b.finalized = 0
    BY <1>6, <1>8, Zenon DEF FlatOf, FlatIn
  <2>2. flat # <<>>
    BY <1>4, <1>7, <2>1, EmptySeq
  <2>3. Remaining(b) = Range(b.items)
    BY <1>8 DEF Remaining
  <2>4. GivenOf(flat, b.finalized) = {}
    BY <2>1 DEF GivenOf
  <2>5. Remaining(f.block) = Range(b.items) \ GivenOf(flat, n)
    <3>1. f.block.items = b.items /\ f.block.flat = flat /\ f.block.finalized = n
      BY <1>5, Zenon
    <3> HIDE DEF flat, n
    <3>2. QED
      BY <2>2, <3>1, Zenon DEF Remaining, GivenOf
  <2>6. b.finalized < Len(b.items) /\ ~(Len(b.items) < Len(b.items)) /\ Len(b.items) <= Len(b.items)
    BY <1>7, <2>1
  <2> HIDE DEF flat, n
  <2>7. QED
    <3> DEFINE Sort == /\ flat \in Seq(Traces) /\ Len(flat) = Len(b.items)
                       /\ \A l, m \in DOMAIN flat : flat[l] = flat[m] => l = m
                       /\ Range(flat) = Range(b.items)
                       /\ \A l, m \in DOMAIN flat : l < m => ~Better(Trace(flat[m]).value, Trace(flat[l]).value)
    <3>1. Sort
      BY <1>4, <2>1, Zenon
    <3>2. Len(flat) <= Len(b.items) /\ b.finalized < Len(b.items) /\ ~(Len(flat) < Len(b.items))
      BY <2>6, <3>1, Zenon
    <3>3. Remaining(b) = Range(b.items) \ GivenOf(flat, b.finalized)
      BY <2>3, <2>4
    <3>4. QED
      BY <1>2, <1>5, <1>8, <2>2, <2>5, <3>1, <3>2, <3>3, ZenonT(60) DEF n, f
<1>9. CASE b.flat # <<>>
  <2>1. flat = b.flat
    BY <1>9
  <2>2. Remaining(b) = Range(b.items) \ GivenOf(flat, b.finalized)
    BY <1>9, <2>1, Zenon DEF Remaining, GivenOf
  <2>3. Remaining(f.block) = Range(b.items) \ GivenOf(flat, n)
    BY <1>5, <1>9, <2>1, Zenon DEF Remaining, GivenOf
  <2> HIDE DEF flat, n
  <2>4. QED
    BY <1>2, <1>5, <1>6, <1>9, <2>1, <2>2, <2>3, Zenon DEF n, f, FlatOf, FlatIn
<1>10. QED
  BY <1>8, <1>9

\* A block that is not sorted has nothing taken out.
LEMMA UnsortedIs ==
    ASSUME Flat, consumer.op # "sort", NEW k \in DOMAIN blocks
    PROVE  blocks[k].flat = <<>> /\ blocks[k].finalized = 0 /\ Remaining(blocks[k]) = Range(blocks[k].items)
<1>1. FlatOf(blocks[k])
  BY DEF Flat
<1>2. blocks[k].flat = <<>> /\ blocks[k].finalized = 0
  BY <1>1, Zenon DEF FlatOf, FlatIn
<1>3. QED
  BY <1>2 DEF Remaining

\* What leaves a block, what it keeps, and how it stands to what it gave.
LEMMA GivesIs ==
    ASSUME Types, Apart, Flat, Best, NEW k \in DOMAIN blocks, ~Freed(blocks[k])
    PROVE  LET b == blocks[k]
               f == Finalized(b)
           IN  /\ f.block \in Block /\ f.more \in BOOLEAN
               /\ f.block.items = b.items /\ f.block.best = b.best
               /\ f.block.src = b.src /\ f.block.res = b.res /\ f.block.done = b.done
               /\ b.flat # <<>> => f.block.flat = b.flat
               /\ b.finalized \in Nat /\ f.block.finalized \in Nat /\ b.finalized <= f.block.finalized
               /\ f.out # Failed =>
                    /\ f.out.kind \in {"best", "entry", "wild", "empty", "pattern"}
                    /\ f.out.src = b.src /\ f.out.from \in Seq(Traces)
                    /\ Range(f.out.from) \subseteq Remaining(b)
                    /\ Remaining(b) \subseteq Remaining(f.block) \cup Range(f.out.from)
                    /\ f.more => FlatOf(f.block)
                    /\ f.more /\ ~Singular => Range(f.out.from) \cap Remaining(f.block) = {}
                    /\ Remaining(f.block) \subseteq Remaining(b)
                    /\ ~f.more => Remaining(b) \subseteq Range(f.out.from) \cup late
                    /\ f.out.kind = "wild" => late # {}
                    /\ f.out.kind = "best" =>
                        \A t \in Range(f.out.from) : ~Better(Trace(t).value, Trace(f.out.trace).value)
                    /\ f.out.kind = "entry" =>
                        /\ f.block.finalized \in DOMAIN f.block.flat /\ b.finalized < f.block.finalized
                        /\ f.out.from = <<f.block.flat[f.block.finalized]>>
                        /\ \A m \in DOMAIN b.flat : m <= b.finalized =>
                            ~Better(Trace(f.block.flat[f.block.finalized]).value, Trace(b.flat[m]).value)
               /\ f.out = Failed => FlatOf(f.block) /\ Remaining(f.block) = Remaining(b)
<1> DEFINE b == blocks[k]
           f == Finalized(b)
<1>1. b \in Block /\ b.items # <<>>
  BY ElementOfSeq, LenProperties DEF Types, Freed
<1>2. b.items \in Seq(Traces) /\ b.finalized \in Nat /\ Range(<<>>) = {}
  BY <1>1 DEF Block, Range
<1>3. /\ f.block \in Block /\ f.more \in BOOLEAN
      /\ f.block.items = b.items /\ f.block.best = b.best
      /\ f.block.src = b.src /\ f.block.res = b.res /\ f.block.done = b.done
      /\ f.out # Failed =>
           /\ f.out.kind \in {"best", "entry", "wild", "empty", "pattern"}
           /\ f.out.src = b.src /\ f.out.from \in Seq(Traces)
      /\ consumer.op # "sort" => f.block.flat = b.flat /\ f.block.finalized = b.finalized
      /\ consumer.op = "reduce" => f.out = Failed
      /\ consumer.op = "select" =>
           /\ f.out # Failed /\ f.block = b /\ ~f.more /\ f.out.from = b.items
           /\ f.out.kind = IF b.best = NULL THEN "wild" ELSE "best"
           /\ f.out.trace = b.best
      /\ consumer.op = "extract" /\ f.out # Failed =>
           f.out.kind \in {"empty", "pattern"} /\ f.out.from = b.items
  BY <1>1, <1>2, SortedIs, FinalizedIs
<1>4. consumer.op \in {"reduce", "select", "sort", "extract"}
  BY ConsumerIs
<1>5. CASE consumer.op # "sort"
  <2>1. b.flat = <<>> /\ b.finalized = 0 /\ Remaining(b) = Range(b.items)
    BY <1>5, UnsortedIs
  <2>2. f.block.flat = <<>> /\ f.block.finalized = 0
    BY <1>3, <1>5, <2>1
  <2>3. Remaining(f.block) = Remaining(b) /\ FlatOf(f.block)
    BY <1>3, <2>1, <2>2, Zenon DEF Remaining, FlatOf, FlatIn
  <2>4. b.finalized <= f.block.finalized /\ f.block.finalized \in Nat
    BY <2>1, <2>2
  <2>5. CASE consumer.op = "reduce"
    BY <1>2, <1>3, <2>1, <2>3, <2>4, <2>5, Zenon
  <2>6. CASE consumer.op = "extract"
    <3>1. Singular
      BY <2>6 DEF Singular
    <3>2. f.out # Failed => f.out.kind \in {"empty", "pattern"} /\ f.out.from = b.items
      BY <1>3, <2>6, Zenon
    <3>3. f.out # Failed => f.out.kind # "wild" /\ f.out.kind # "best" /\ f.out.kind # "entry"
      BY <3>2
    <3> HIDE DEF f, b
    <3>4. QED
      BY <1>2, <1>3, <2>1, <2>3, <2>4, <3>1, <3>2, <3>3, Zenon DEF b, f
  <2>7. CASE consumer.op = "select"
    <3>1. /\ b.best \in Traces
          /\ \A t \in Range(b.items) : ~Better(Trace(t).value, Trace(b.best).value)
      BY <2>7, Zenon DEF Best
    <3>2. b.best # NULL
      BY <3>1, SourceIs
    <3>3. /\ f.out # Failed /\ f.block = b /\ ~f.more /\ f.out.from = b.items
          /\ f.out.kind = "best" /\ f.out.trace = b.best
      BY <1>3, <2>7, <3>2, Zenon
    <3>4. f.out.kind # "wild" /\ f.out.kind # "entry"
      BY <3>3
    <3> HIDE DEF f, b
    <3>5. QED
      BY <1>2, <1>3, <2>1, <2>3, <2>4, <3>1, <3>3, <3>4, Zenon DEF b, f
  <2>8. QED
    BY <1>4, <1>5, <2>5, <2>6, <2>7
<1>6. CASE consumer.op = "sort"
  <2> DEFINE flat == f.block.flat
             n == f.block.finalized
  <2>1. /\ flat \in Seq(Traces) /\ n = b.finalized + 1
        /\ f.out # Failed
        /\ f.more <=> n < Len(b.items)
        /\ n \in DOMAIN flat => f.out.kind = "entry" /\ f.out.from = <<flat[n]>>
        /\ n \notin DOMAIN flat => f.out.kind = "wild" /\ f.out.from = <<>>
        /\ flat # <<>>
        /\ b.flat # <<>> => flat = b.flat
        /\ Len(flat) <= Len(b.items) /\ b.finalized < Len(b.items)
        /\ Len(flat) < Len(b.items) => late # {}
        /\ \A l, m \in DOMAIN flat : flat[l] = flat[m] => l = m
        /\ Range(flat) \subseteq Range(b.items)
        /\ Range(b.items) \subseteq Range(flat) \cup late
        /\ \A l, m \in DOMAIN flat : l < m => ~Better(Trace(flat[m]).value, Trace(flat[l]).value)
        /\ Remaining(b) = Range(b.items) \ GivenOf(flat, b.finalized)
        /\ Remaining(f.block) = Range(b.items) \ GivenOf(flat, n)
    BY <1>6, SortGives
  <2>2. Len(flat) \in Nat /\ DOMAIN flat = 1 .. Len(flat) /\ Len(b.items) \in Nat
    BY <1>2, <2>1, LenProperties
  <2>3. /\ n \notin DOMAIN flat => GivenOf(flat, n) = GivenOf(flat, b.finalized)
        /\ n \in DOMAIN flat => GivenOf(flat, n) = GivenOf(flat, b.finalized) \cup {flat[n]} /\ flat[n] \notin GivenOf(flat, b.finalized)
    BY <1>2, <2>1, GivenOfIs
  <2>4. \A t \in Traces : Range(<<t>>) = {t}
    BY DEF Range
  <2>5. n \in DOMAIN flat => flat[n] \in Traces /\ flat[n] \in Range(flat)
    BY <2>1, <2>2, ElementOfSeq DEF Range
  <2>6. n \in DOMAIN flat => Range(f.out.from) = {flat[n]}
    BY <2>1, <2>4, <2>5, Zenon
  <2>7. n \notin DOMAIN flat => Range(f.out.from) = {}
    BY <1>2, <2>1, Zenon
  <2> HIDE DEF flat, n, f, b
  <2>8. /\ Range(f.out.from) \subseteq Remaining(b)
        /\ Remaining(b) \subseteq Remaining(f.block) \cup Range(f.out.from)
        /\ Range(f.out.from) \cap Remaining(f.block) = {}
        /\ Remaining(f.block) \subseteq Remaining(b)
    <3>1. CASE n \in DOMAIN flat
      <4> DEFINE I == Range(b.items)
                 G == GivenOf(flat, b.finalized)
                 H == GivenOf(flat, n)
                 x == flat[n]
      <4>1. x \in I /\ H = G \cup {x} /\ x \notin G
        BY <2>1, <2>3, <2>5, <3>1
      <4>2. Remaining(b) = I \ G /\ Remaining(f.block) = I \ H /\ Range(f.out.from) = {x}
        BY <2>1, <2>6, <3>1
      <4> HIDE DEF I, G, H, x
      <4>3. QED
        BY <4>1, <4>2
    <3>2. CASE n \notin DOMAIN flat
      <4>1. Remaining(b) = Remaining(f.block)
        BY <2>1, <2>3, <3>2, Zenon
      <4>2. QED
        BY <2>7, <3>2, <4>1
    <3>3. QED
      BY <3>1, <3>2
  <2>9. ~f.more => Remaining(b) \subseteq Range(f.out.from) \cup late
    <3> SUFFICES ASSUME ~f.more PROVE Remaining(b) \subseteq Range(f.out.from) \cup late
      OBVIOUS
    <3>1. n \in Nat /\ n >= Len(flat)
      BY <1>2, <2>1, <2>2
    <3>2. GivenOf(flat, n) = Range(flat)
      BY <2>1, <3>1, GivenOfIs
    <3>3. Remaining(f.block) \subseteq late
      BY <2>1, <3>2
    <3>4. QED
      BY <2>8, <3>3
  <2>10. f.out.kind = "wild" => late # {}
    <3>1. n \in Nat \ {0} /\ n <= Len(b.items)
      BY <1>2, <2>1, <2>2
    <3>2. n \notin DOMAIN flat => Len(flat) < Len(b.items)
      BY <2>2, <3>1
    <3>3. QED
      BY <2>1, <3>2
  <2>11. f.out.kind = "entry" =>
            /\ n \in DOMAIN flat /\ b.finalized < n
            /\ f.out.from = <<flat[n]>>
            /\ \A m \in DOMAIN b.flat : m <= b.finalized => ~Better(Trace(flat[n]).value, Trace(b.flat[m]).value)
    <3> SUFFICES ASSUME f.out.kind = "entry"
                 PROVE  /\ n \in DOMAIN flat /\ b.finalized < n
                        /\ f.out.from = <<flat[n]>>
                        /\ \A m \in DOMAIN b.flat : m <= b.finalized =>
                                ~Better(Trace(flat[n]).value, Trace(b.flat[m]).value)
      OBVIOUS
    <3>1. n \in DOMAIN flat /\ f.out.from = <<flat[n]>>
      BY <2>1
    <3>2. b.finalized < n
      BY <1>2, <2>1
    <3>3. ASSUME NEW m \in DOMAIN b.flat, m <= b.finalized
          PROVE  ~Better(Trace(flat[n]).value, Trace(b.flat[m]).value)
      <4>1. b.flat # <<>>
        BY <3>3
      <4>2. flat = b.flat
        BY <2>1, <4>1
      <4>3. m < n /\ m \in DOMAIN flat
        BY <1>2, <2>1, <2>2, <3>3, <4>2
      <4>4. QED
        BY <2>1, <3>1, <4>2, <4>3
    <3>4. QED
      BY <3>1, <3>2, <3>3
  <2>12. f.more => FlatOf(f.block)
    BY <1>3, <1>6, <2>1, Zenon DEF FlatOf, FlatIn, flat, n
  <2>13. b.finalized <= n /\ n \in Nat
    BY <1>2, <2>1
  <2>14. f.out.kind # "best"
    BY <2>1
  <2>15. QED
    BY <1>2, <1>3, <2>1, <2>8, <2>9, <2>10, <2>11, <2>12, <2>13, <2>14, Zenon DEF flat, n, f, b
<1>7. QED
  BY <1>5, <1>6

\* A finalize leaves the traces in hand alone and closes its index.
LEMMA FinalizeIs ==
    ASSUME Types, Asking, Promises, Hands, NEW g \in Getters, NEW k, k = BlockOf(idx[g]),
           Finalize(g) \/ TitleFails(g) \/ FinalizeFails(g)
    PROVE  LET f == Finalized(blocks[k])
           IN  /\ pc[g] = "finalize" /\ k \in DOMAIN blocks /\ blocks[k].res = idx[g] /\ blocks[k].done
               /\ ~Freed(blocks[k])
               /\ idx[g] \in Indices /\ idx[g] < doneIndex
               /\ UNCHANGED <<consumer, nextIndex, refLock, refValid, idx, taken, nextAsk, lost, overran, late>>
               /\ HandsMove(g) /\ Moves(g) /\ pc'[g] = "idle" /\ taken[g] = NULL
               /\ Finalize(g) \/ TitleFails(g) =>
                    /\ f.out # Failed
                    /\ \E w \in Outcomes(f.out) : Returns(g, w)
                    /\ f.more => KeepBlock(k, f.block)
               /\ Finalize(g) /\ ~f.more => DropBlock(k)
               /\ TitleFails(g) /\ ~f.more => LeaveFreed(k)
               /\ FinalizeFails(g) => /\ f.out = Failed
                                      /\ Returns(g, Failed)
                                      /\ blocks' = [blocks EXCEPT ![k] = f.block]
                                      /\ UNCHANGED doneIndex
<1> DEFINE f == Finalized(blocks[k])
<1>1. /\ pc[g] = "finalize"
      /\ UNCHANGED <<consumer, nextIndex, refLock, refValid, idx, taken, nextAsk, lost, overran, late>>
  BY DEF Finalize, TitleFails, FinalizeFails, history
<1>2. k # 0 /\ ~Freed(blocks[k])
  BY <1>1, Found
<1>3. k \in DOMAIN blocks /\ blocks[k].res = idx[g] /\ blocks[k].done
  BY <1>2, BlockOfIs
<1>4. idx[g] \in Indices /\ idx[g] < doneIndex
  BY <1>1 DEF Asking
<1>5. /\ pc \in [Getters -> InHand \cup {"idle", "check", "take", "finalize"}]
      /\ idx \in [Getters -> Indices \cup {NULL}] /\ taken \in [Getters -> Nat \cup {NULL}]
  BY DEF Types
<1>6. pc' = [pc EXCEPT ![g] = "idle"]
  BY DEF Finalize, TitleFails, FinalizeFails, Return, MoveTo
<1>7. pc'[g] = "idle" /\ Moves(g) /\ pc[g] # "idle"
  BY <1>1, <1>5, <1>6 DEF Moves
<1>8. taken[g] = NULL
  BY <1>1 DEF Hands, InHand
<1>9. HandsMove(g)
  BY <1>1, <1>5 DEF HandsMove
<1> HIDE DEF f
<1>10. Finalize(g) => /\ f.out # Failed /\ Returns(g, f.out)
                      /\ IF f.more THEN KeepBlock(k, f.block) ELSE DropBlock(k)
  BY <1>1, <1>7, Zenon DEF Finalize, Return, Returns, f
<1>11. TitleFails(g) => /\ f.out # Failed /\ Returns(g, Untitle(f.out))
                        /\ IF f.more THEN KeepBlock(k, f.block) ELSE LeaveFreed(k)
  BY <1>1, <1>7, Zenon DEF TitleFails, Return, Returns, Untitle, f
<1>12. FinalizeFails(g) => /\ f.out = Failed
                           /\ Returns(g, Failed)
                           /\ blocks' = [blocks EXCEPT ![k] = f.block]
                           /\ UNCHANGED doneIndex
  BY <1>1, <1>2, <1>7, Zenon DEF FinalizeFails, Return, Returns, f
<1>13. f.out \in Outcomes(f.out) /\ Untitle(f.out) \in Outcomes(f.out)
  BY DEF Outcomes
<1>14. QED
  BY <1>1, <1>2, <1>3, <1>4, <1>7, <1>8, <1>9, <1>10, <1>11, <1>12, <1>13, Zenon DEF f

LEMMA KeepIs ==
    ASSUME Types, Asking, Promises, Hands, Apart, Flat, Best, NEW g \in Getters, NEW k, Keep(g, k)
    PROVE  LET f == Finalized(blocks[k])
           IN  /\ f.out # Failed /\ f.more /\ (\E w \in Outcomes(f.out) : Returns(g, w))
               /\ k \in DOMAIN blocks /\ ~Freed(blocks[k])
               /\ blocks' \in Seq(Block) /\ DOMAIN blocks' = DOMAIN blocks /\ Len(blocks') = Len(blocks)
               /\ \A j \in DOMAIN blocks : j # k => blocks'[j] = blocks[j]
               /\ blocks'[k].items = blocks[k].items /\ blocks'[k].src = blocks[k].src
               /\ blocks'[k].best = blocks[k].best /\ blocks'[k].done = blocks[k].done
               /\ blocks'[k].res = doneIndex
               /\ blocks'[k].flat = f.block.flat /\ blocks'[k].finalized = f.block.finalized
               /\ FlatOf(blocks'[k]) /\ Remaining(blocks'[k]) = Remaining(f.block)
               /\ doneIndex' = doneIndex + 1
<1> DEFINE f == Finalized(blocks[k])
           b == [f.block EXCEPT !.res = doneIndex, !.numOut = @ + 1]
<1>1. /\ k \in DOMAIN blocks /\ ~Freed(blocks[k])
      /\ f.out # Failed /\ f.more /\ (\E w \in Outcomes(f.out) : Returns(g, w))
      /\ KeepBlock(k, f.block)
  BY FinalizeIs, Zenon DEF Keep
<1>2. blocks \in Seq(Block) /\ DOMAIN blocks = 1 .. Len(blocks) /\ doneIndex \in Nat
  BY LenProperties DEF Types
<1>3. /\ f.block \in Block
      /\ f.block.items = blocks[k].items /\ f.block.best = blocks[k].best
      /\ f.block.src = blocks[k].src /\ f.block.done = blocks[k].done
      /\ FlatOf(f.block)
  BY <1>1, GivesIs
<1> HIDE DEF f
<1>4. b \in Block /\ b.res = doneIndex
      /\ b.items = f.block.items /\ b.best = f.block.best /\ b.src = f.block.src /\ b.done = f.block.done
      /\ b.flat = f.block.flat /\ b.finalized = f.block.finalized
  <2>1. PICK p \in Block : p = f.block
    BY <1>3
  <2>2. PICK n \in Nat : n = p.numOut + 1
    BY DEF Block
  <2>3. b = [p EXCEPT !.res = doneIndex, !.numOut = n]
    BY <2>1, <2>2 DEF Block
  <2> HIDE DEF b
  <2>4. /\ b \in Block /\ b.res = doneIndex
        /\ b.items = p.items /\ b.best = p.best /\ b.src = p.src /\ b.done = p.done
        /\ b.flat = p.flat /\ b.finalized = p.finalized
    BY <1>2, <2>3 DEF Block
  <2>5. QED
    BY <2>1, <2>4
<1>5. blocks' = [blocks EXCEPT ![k] = b] /\ doneIndex' = doneIndex + 1
  BY <1>1 DEF KeepBlock
<1> HIDE DEF b
<1>6. /\ blocks' \in Seq(Block) /\ Len(blocks') = Len(blocks)
      /\ \A j \in 1 .. Len(blocks) : blocks'[j] = IF j = k THEN b ELSE blocks[j]
  BY <1>1, <1>2, <1>4, <1>5, ExceptSeq
<1>7. DOMAIN blocks' = DOMAIN blocks
  BY <1>2, <1>6, LenProperties
<1>8. blocks'[k] = b /\ \A j \in DOMAIN blocks : j # k => blocks'[j] = blocks[j]
  BY <1>1, <1>2, <1>6, Zenon
<1>9. FlatOf(b) /\ Remaining(b) = Remaining(f.block)
  <2>1. b.flat = f.block.flat /\ b.finalized = f.block.finalized /\ b.items = f.block.items
    BY <1>4
  <2>2. Remaining(b) = Remaining(f.block)
    BY <2>1 DEF Remaining
  <2>3. FlatOf(b)
    BY <1>3, <2>1 DEF FlatOf, FlatIn
  <2>4. QED
    BY <2>2, <2>3
<1>10. QED
  BY <1>1, <1>3, <1>4, <1>5, <1>6, <1>7, <1>8, <1>9, Zenon DEF f

LEMMA DropIs ==
    ASSUME Types, Asking, Promises, Hands, NEW g \in Getters, NEW k, Drop(g, k)
    PROVE  LET f == Finalized(blocks[k])
           IN  /\ f.out # Failed /\ ~f.more /\ (\E w \in Outcomes(f.out) : Returns(g, w))
               /\ k \in DOMAIN blocks /\ ~Freed(blocks[k])
               /\ blocks' \in Seq(Block) /\ Len(blocks') = Len(blocks) - 1
               /\ DOMAIN blocks = 1 .. Len(blocks) /\ DOMAIN blocks' = 1 .. Len(blocks) - 1
               /\ \A j \in DOMAIN blocks' : /\ blocks'[j] = blocks[Up(j, k)]
                                            /\ Up(j, k) \in DOMAIN blocks /\ Up(j, k) # k
               /\ \A i, j \in DOMAIN blocks' : Up(i, k) = Up(j, k) => i = j
               /\ \A l \in DOMAIN blocks : l # k => \E j \in DOMAIN blocks' : Up(j, k) = l
               /\ UNCHANGED doneIndex
<1> DEFINE f == Finalized(blocks[k])
<1>1. /\ k \in DOMAIN blocks /\ ~Freed(blocks[k])
      /\ f.out # Failed /\ ~f.more /\ (\E w \in Outcomes(f.out) : Returns(g, w)) /\ DropBlock(k)
  BY FinalizeIs, Zenon DEF Drop
<1>2. blocks \in Seq(Block) /\ DOMAIN blocks = 1 .. Len(blocks) /\ Len(blocks) \in Nat
  BY LenProperties DEF Types
<1>3. blocks' = RemoveAt(blocks, k) /\ UNCHANGED doneIndex
  BY <1>1 DEF DropBlock
<1>4. /\ blocks' \in Seq(Block) /\ Len(blocks') = Len(blocks) - 1
      /\ \A j \in 1 .. Len(blocks) - 1 : blocks'[j] = blocks[Up(j, k)]
  BY <1>1, <1>2, <1>3, RemoveAtIs
<1>5. DOMAIN blocks' = 1 .. Len(blocks) - 1
  BY <1>4, LenProperties
<1>6. /\ \A j \in 1 .. Len(blocks) - 1 : Up(j, k) \in 1 .. Len(blocks) /\ Up(j, k) # k
      /\ \A i, j \in 1 .. Len(blocks) - 1 : Up(i, k) = Up(j, k) => i = j
      /\ \A l \in 1 .. Len(blocks) : l # k => \E j \in 1 .. Len(blocks) - 1 : Up(j, k) = l
  BY <1>1, <1>2, UpIs
<1> HIDE DEF f
<1>7. QED
  BY <1>1, <1>2, <1>3, <1>4, <1>5, <1>6, Zenon DEF f

LEMMA LeaveIs ==
    ASSUME Types, Asking, Promises, Hands, NEW g \in Getters, NEW k, Leave(g, k)
    PROVE  LET f == Finalized(blocks[k])
           IN  /\ f.out # Failed /\ ~f.more /\ (\E w \in Outcomes(f.out) : Returns(g, w))
               /\ k \in DOMAIN blocks /\ ~Freed(blocks[k])
               /\ blocks' \in Seq(Block) /\ DOMAIN blocks' = DOMAIN blocks /\ Len(blocks') = Len(blocks)
               /\ \A j \in DOMAIN blocks : j # k => blocks'[j] = blocks[j]
               /\ blocks'[k].items = <<>> /\ Freed(blocks'[k]) /\ Remaining(blocks'[k]) = {}
               /\ blocks'[k].src = blocks[k].src /\ blocks'[k].res = blocks[k].res
               /\ blocks'[k].done /\ blocks[k].done /\ blocks'[k].done = blocks[k].done
               /\ blocks'[k].flat = <<>> /\ blocks'[k].finalized = 0
               /\ UNCHANGED doneIndex
<1> DEFINE f == Finalized(blocks[k])
           b == [EmptyBlock(blocks[k].src) EXCEPT !.res = blocks[k].res, !.done = TRUE]
<1>1. /\ k \in DOMAIN blocks /\ ~Freed(blocks[k]) /\ blocks[k].done
      /\ f.out # Failed /\ ~f.more /\ (\E w \in Outcomes(f.out) : Returns(g, w)) /\ LeaveFreed(k)
  BY FinalizeIs, Zenon DEF Leave
<1>2. blocks \in Seq(Block) /\ DOMAIN blocks = 1 .. Len(blocks)
  BY LenProperties DEF Types
<1>3. blocks[k] \in Block
  BY <1>1, <1>2, ElementOfSeq
<1>4. blocks' = [blocks EXCEPT ![k] = b] /\ UNCHANGED doneIndex
  BY <1>1, Zenon DEF LeaveFreed
<1>5. /\ b \in Block /\ b.items = <<>> /\ b.flat = <<>> /\ b.finalized = 0 /\ b.done /\ b.done = blocks[k].done
      /\ b.src = blocks[k].src /\ b.res = blocks[k].res
  <2>1. blocks[k].src \in Traces /\ blocks[k].res \in Nat /\ blocks[k].done = TRUE
    BY <1>1, <1>3 DEF Block
  <2>2. EmptyBlock(blocks[k].src) \in Block
    BY <2>1, EmptyBlockIs
  <2>3. /\ EmptyBlock(blocks[k].src).items = <<>> /\ EmptyBlock(blocks[k].src).flat = <<>>
        /\ EmptyBlock(blocks[k].src).finalized = 0 /\ EmptyBlock(blocks[k].src).src = blocks[k].src
    BY DEF EmptyBlock
  <2>4. QED
    BY <2>1, <2>2, <2>3 DEF Block
<1> HIDE DEF b, f
<1>6. /\ blocks' \in Seq(Block) /\ Len(blocks') = Len(blocks)
      /\ \A j \in 1 .. Len(blocks) : blocks'[j] = IF j = k THEN b ELSE blocks[j]
  BY <1>1, <1>2, <1>4, <1>5, ExceptSeq
<1>7. DOMAIN blocks' = DOMAIN blocks
  BY <1>2, <1>6, LenProperties
<1>8. blocks'[k] = b /\ \A j \in DOMAIN blocks : j # k => blocks'[j] = blocks[j]
  BY <1>1, <1>2, <1>6, Zenon
<1>9. Freed(b) /\ Remaining(b) = {}
  BY <1>5 DEF Freed, Remaining, Range
<1>10. QED
  BY <1>1, <1>4, <1>5, <1>6, <1>7, <1>8, <1>9, Zenon DEF f

LEMMA RefuseIs ==
    ASSUME Types, Asking, Promises, Hands, Apart, Flat, Best, NEW g \in Getters, NEW k, Refuse(g, k)
    PROVE  /\ Returns(g, Failed) /\ k \in DOMAIN blocks /\ ~Freed(blocks[k])
           /\ blocks' \in Seq(Block) /\ DOMAIN blocks' = DOMAIN blocks /\ Len(blocks') = Len(blocks)
           /\ \A j \in DOMAIN blocks : j # k => blocks'[j] = blocks[j]
           /\ blocks'[k].items = blocks[k].items /\ blocks'[k].src = blocks[k].src
           /\ blocks'[k].best = blocks[k].best /\ blocks'[k].done = blocks[k].done
           /\ blocks'[k].res = blocks[k].res
           /\ FlatOf(blocks'[k]) /\ Remaining(blocks'[k]) = Remaining(blocks[k])
           /\ blocks[k].flat # <<>> => blocks'[k].flat = blocks[k].flat
           /\ blocks[k].finalized <= blocks'[k].finalized
           /\ UNCHANGED doneIndex
<1> DEFINE f == Finalized(blocks[k])
<1>1. /\ k \in DOMAIN blocks /\ ~Freed(blocks[k]) /\ f.out = Failed /\ Returns(g, Failed)
      /\ blocks' = [blocks EXCEPT ![k] = f.block] /\ UNCHANGED doneIndex
  BY FinalizeIs, Zenon DEF Refuse
<1>2. blocks \in Seq(Block) /\ DOMAIN blocks = 1 .. Len(blocks)
  BY LenProperties DEF Types
<1>3. /\ f.block \in Block
      /\ f.block.items = blocks[k].items /\ f.block.best = blocks[k].best
      /\ f.block.src = blocks[k].src /\ f.block.done = blocks[k].done /\ f.block.res = blocks[k].res
      /\ blocks[k].flat # <<>> => f.block.flat = blocks[k].flat
      /\ blocks[k].finalized <= f.block.finalized
      /\ FlatOf(f.block) /\ Remaining(f.block) = Remaining(blocks[k])
  BY <1>1, GivesIs
<1> HIDE DEF f
<1>4. /\ blocks' \in Seq(Block) /\ Len(blocks') = Len(blocks)
      /\ \A j \in 1 .. Len(blocks) : blocks'[j] = IF j = k THEN f.block ELSE blocks[j]
  BY <1>1, <1>2, <1>3, ExceptSeq
<1>5. DOMAIN blocks' = DOMAIN blocks
  BY <1>2, <1>4, LenProperties
<1>6. blocks'[k] = f.block /\ \A j \in DOMAIN blocks : j # k => blocks'[j] = blocks[j]
  BY <1>1, <1>2, <1>4, Zenon
<1>7. QED
  BY <1>1, <1>3, <1>4, <1>5, <1>6, Zenon

-----------------------------------------------------------------------------
(* Every step *)

Acts(g) ==
    \/ Quiet(g) \/ Begin(g)
    \/ \E k : Join(g, k) \/ Gives(g, k) \/ Refuse(g, k)

LEMMA EveryStep ==
    ASSUME IndInv, [Next]_vars
    PROVE  UNCHANGED vars \/ \E g \in Getters : Acts(g)
<1>1. CASE UNCHANGED vars
  BY <1>1
<1>2. ASSUME NEW g \in Getters,
             \/ Quiet(g) \/ Begin(g) \/ (FinalizeFails(g) /\ BlockOf(idx[g]) = 0)
             \/ \E k \in {FirstMatch(taken[g]), BlockOf(idx[g])} :
                    Join(g, k) \/ Gives(g, k) \/ Refuse(g, k)
      PROVE  Acts(g)
  <2>1. ~(FinalizeFails(g) /\ BlockOf(idx[g]) = 0)
    BY Found DEF FinalizeFails, IndInv
  <2>2. QED
    BY <1>2, <2>1, Zenon DEF Acts
<1>3. QED
  BY <1>1, <1>2, StepCases, Zenon

\* The state but the list: who steps, what comes to hand, and what is answered.
Flow(g) ==
    /\ Moves(g) /\ HandsMove(g) /\ consumer' = consumer
    /\ refLock' \in Getters \cup {NULL} /\ refValid' \in BOOLEAN
    /\ \/ Ask(g)
       \/ /\ UNCHANGED <<nextAsk, idx>> /\ pc[g] # "idle"
          /\ (UNCHANGED result /\ pc'[g] # "idle") \/ \E w : Returns(g, w)
    /\ pc'[g] = "finalize" => Check(g)
    /\ doneIndex' \in {doneIndex, doneIndex + 1}
    /\ DOMAIN result' = Indices
    /\ \A i \in Handed : i \in Handed' /\ result'[i] = result[i] /\ From(i)' = From(i)
    /\ \A i \in Handed' \ Handed :
        /\ i = idx[g] /\ i < doneIndex
        /\ \E k \in DOMAIN blocks :
            /\ Gives(g, k)
            /\ result'[i] \in Outcomes(Finalized(blocks[k]).out)
    /\ \A i \in Indices : result'[i].kind # "unknown"
    /\ pc'[g] \in InHand => taken'[g] \in 0 .. nextIndex' - 1
    /\ pc'[g] \notin InHand => taken'[g] = NULL
    /\ pc'[g] \in {"reference", "accumulate"} => taken'[g] \in Traces

LEMMA FlowIs ==
    ASSUME IndInv, NEW g \in Getters, Acts(g)
    PROVE  Flow(g)
<1>0. /\ Types /\ Hands /\ Asking /\ Promises /\ Apart /\ Flat /\ Best
      /\ doneIndex \in Nat /\ refLock \in Getters \cup {NULL} /\ refValid \in BOOLEAN
      /\ \A i \in Indices : result[i].kind # "unknown"
  BY DEF IndInv, Types, Promises
<1>1. CASE Quiet(g)
  <2>1. /\ UNCHANGED <<consumer, doneIndex>>
        /\ HandsMove(g) /\ Moves(g)
        /\ refLock' \in Getters \cup {NULL} /\ refValid' \in BOOLEAN
        /\ \/ Ask(g)
           \/ /\ UNCHANGED <<nextAsk, idx>> /\ pc[g] # "idle"
              /\ \/ UNCHANGED result /\ pc'[g] # "idle"
                 \/ Returns(g, Failed) \/ Returns(g, EndOfSource)
        /\ pc'[g] = "finalize" => Check(g)
        /\ pc'[g] \in InHand => taken'[g] \in 0 .. nextIndex' - 1
        /\ pc'[g] \notin InHand => taken'[g] = NULL
        /\ pc'[g] \in {"reference", "accumulate"} => taken'[g] \in Traces
    BY <1>0, <1>1, QuietIs
  <2>2. UNCHANGED result \/ Returns(g, Failed) \/ Returns(g, EndOfSource)
    BY <2>1 DEF Ask
  <2>3. /\ Handed' = Handed /\ DOMAIN result' = Indices
        /\ \A i \in Handed : result'[i] = result[i]
        /\ \A i \in Handed : From(i)' = From(i)
        /\ \A i \in Indices : result'[i].kind # "unknown"
    BY <1>0, <2>2, AnsweredSame
  <2>4. QED
    BY <2>1, <2>3, Zenon DEF Flow
<1>2. ASSUME NEW k, Begin(g) \/ Join(g, k) PROVE Flow(g)
  <2>1. /\ HandsMove(g) /\ Moves(g) /\ pc'[g] = "check" /\ taken'[g] = NULL /\ pc[g] = "accumulate"
        /\ UNCHANGED <<consumer, nextIndex, refLock, refValid, idx, nextAsk, result, lost>>
    BY <1>0, <1>2, AccumulateIs DEF Begin, Join
  <2>2. doneIndex' \in {doneIndex, doneIndex + 1}
    BY <1>0, <1>2, BeginIs, JoinIs
  <2>3. /\ Handed' = Handed /\ DOMAIN result' = Indices
        /\ \A i \in Handed : result'[i] = result[i]
        /\ \A i \in Handed : From(i)' = From(i)
        /\ \A i \in Indices : result'[i].kind # "unknown"
    BY <1>0, <2>1, AnsweredSame
  <2>4. pc'[g] \notin InHand /\ pc'[g] # "finalize" /\ pc'[g] # "idle" /\ pc[g] # "idle"
        /\ pc'[g] \notin {"reference", "accumulate"}
    BY <2>1 DEF InHand
  <2>5. QED
    BY <1>0, <2>1, <2>2, <2>3, <2>4, Zenon DEF Flow
<1>3. ASSUME NEW k, Gives(g, k) \/ Refuse(g, k) PROVE Flow(g)
  <2>1. /\ Finalize(g) \/ TitleFails(g) \/ FinalizeFails(g)
        /\ Gives(g, k) => Finalize(g) \/ TitleFails(g)
        /\ Refuse(g, k) => FinalizeFails(g)
    BY <1>3 DEF Gives, Keep, Drop, Leave, Refuse
  <2>2. k = BlockOf(idx[g])
    BY <1>3 DEF Gives, Keep, Drop, Leave, Refuse
  <2>3. /\ pc[g] = "finalize" /\ k \in DOMAIN blocks /\ ~Freed(blocks[k])
        /\ idx[g] \in Indices /\ idx[g] < doneIndex
        /\ UNCHANGED <<consumer, nextIndex, refLock, refValid, idx, taken, nextAsk, lost, overran, late>>
        /\ HandsMove(g) /\ Moves(g) /\ pc'[g] = "idle" /\ taken[g] = NULL
        /\ Finalize(g) \/ TitleFails(g) =>
             /\ Finalized(blocks[k]).out # Failed
             /\ \E w \in Outcomes(Finalized(blocks[k]).out) : Returns(g, w)
        /\ FinalizeFails(g) => Returns(g, Failed)
    BY <1>0, <2>1, <2>2, FinalizeIs
  <2>4. doneIndex' \in {doneIndex, doneIndex + 1}
    BY <1>0, <1>3, KeepIs, DropIs, LeaveIs, RefuseIs DEF Gives
  <2>5. /\ pc'[g] \notin InHand /\ pc'[g] # "finalize" /\ pc[g] # "idle"
        /\ pc'[g] \notin {"reference", "accumulate"}
    BY <2>3 DEF InHand
  <2>6. taken'[g] = NULL
    BY <2>3
  <2>7. CASE Refuse(g, k)
    <3>1. /\ Handed' = Handed /\ DOMAIN result' = Indices
          /\ \A i \in Handed : result'[i] = result[i]
          /\ \A i \in Handed : From(i)' = From(i)
          /\ \A i \in Indices : result'[i].kind # "unknown"
      BY <1>0, <2>1, <2>3, <2>7, AnsweredSame
    <3>2. QED
      BY <1>0, <2>1, <2>3, <2>4, <2>5, <2>6, <2>7, <3>1, Zenon DEF Flow
  <2>8. CASE Gives(g, k)
    <3> DEFINE out == Finalized(blocks[k]).out
    <3>1. out # Failed /\ \E w \in Outcomes(out) : Returns(g, w)
      BY <2>1, <2>3, <2>8
    <3>2. out.kind \in {"best", "entry", "wild", "empty", "pattern"}
      BY <1>0, <2>3, <3>1, GivesIs
    <3> HIDE DEF out
    <3>3. PICK w \in Outcomes(out) : Returns(g, w)
      BY <3>1
    <3>4. w.kind \in {"best", "entry", "wild", "empty", "pattern", "untitled"}
      BY <3>2, OutcomeIs
    <3>5. /\ Handed' = Handed \cup {idx[g]}
          /\ DOMAIN result' = Indices /\ result'[idx[g]] = w
          /\ \A i \in Handed : i # idx[g] /\ result'[i] = result[i]
          /\ \A i \in Handed : From(i)' = From(i)
          /\ \A i \in Indices : result'[i].kind # "unknown"
      BY <1>0, <3>3, <3>4, AnsweredMore
    <3>6. \A i \in Handed' \ Handed :
            /\ i = idx[g] /\ i < doneIndex
            /\ \E l \in DOMAIN blocks :
                /\ Gives(g, l)
                /\ result'[i] \in Outcomes(Finalized(blocks[l]).out)
      BY <2>3, <2>8, <3>3, <3>5, Zenon DEF out
    <3>7. \A i \in Handed : i \in Handed'
      BY <3>5
    <3>8. QED
      BY <1>0, <2>3, <2>4, <2>5, <2>6, <3>3, <3>5, <3>6, <3>7, Zenon DEF Flow
  <2>9. QED
    BY <1>3, <2>7, <2>8
<1>4. QED
  BY <1>1, <1>2, <1>3, Zenon DEF Acts

\* The block that gives has its part still, and its index is asked for.
LEMMA GiverAt ==
    ASSUME IndInv, NEW g \in Getters, NEW k, Gives(g, k)
    PROVE  /\ k \in DOMAIN blocks /\ ~Freed(blocks[k]) /\ blocks[k].res = idx[g] /\ blocks[k].done
           /\ idx[g] \in Indices /\ idx[g] < doneIndex
           /\ Finalized(blocks[k]).out # Failed
           /\ \E w \in Outcomes(Finalized(blocks[k]).out) : Returns(g, w)
<1>0. Types /\ Hands /\ Asking /\ Promises
  BY DEF IndInv
<1>1. (Finalize(g) \/ TitleFails(g)) /\ k = BlockOf(idx[g])
  BY DEF Gives, Keep, Drop, Leave
<1>2. QED
  BY <1>0, <1>1, FinalizeIs

\* What a step answers.
LEMMA AnswerIs ==
    ASSUME IndInv, NEW g \in Getters, Acts(g), NEW i \in Handed' \ Handed
    PROVE  \E k \in DOMAIN blocks :
                LET f == Finalized(blocks[k])
                IN  /\ Gives(g, k)
                    /\ ~Freed(blocks[k]) /\ f.out # Failed
                    /\ i = idx[g] /\ i < doneIndex /\ i \in Indices
                    /\ blocks[k].res = i /\ blocks[k].done
                    /\ result'[i].src = blocks[k].src /\ result'[i].from = f.out.from
                    /\ result'[i].from \in Seq(Traces)
                    /\ result'[i].kind \in {f.out.kind, "untitled"}
                    /\ result'[i].kind # "untitled" => result'[i] = f.out
                    /\ From(i)' \subseteq Remaining(blocks[k])
                    /\ From(i)' = Range(f.out.from)
<1>0. Types /\ Hands /\ Asking /\ Promises /\ Apart /\ Flat /\ Best
  BY DEF IndInv
<1>1. i = idx[g] /\ i < doneIndex /\ \E k \in DOMAIN blocks :
          /\ Gives(g, k)
          /\ result'[i] \in Outcomes(Finalized(blocks[k]).out)
  BY FlowIs, Zenon DEF Flow
<1>2. PICK k \in DOMAIN blocks : /\ Gives(g, k)
                                 /\ result'[i] \in Outcomes(Finalized(blocks[k]).out)
  BY <1>1
<1> DEFINE f == Finalized(blocks[k])
<1>3. /\ blocks[k].res = idx[g] /\ blocks[k].done /\ idx[g] \in Indices
      /\ f.out # Failed /\ ~Freed(blocks[k])
  BY <1>2, GiverAt
<1>4. f.out.src = blocks[k].src /\ Range(f.out.from) \subseteq Remaining(blocks[k]) /\ f.out.from \in Seq(Traces)
  BY <1>0, <1>3, GivesIs
<1> HIDE DEF f
<1>5. /\ result'[i].src = f.out.src /\ result'[i].from = f.out.from
      /\ result'[i].kind \in {f.out.kind, "untitled"}
      /\ result'[i].kind # "untitled" => result'[i] = f.out
  BY <1>2, OutcomeIs DEF f
<1>6. From(i)' = Range(f.out.from)
  BY <1>5 DEF From
<1>7. QED
  BY <1>1, <1>2, <1>3, <1>4, <1>5, <1>6, Zenon DEF f

LEMMA TypesStep ==
    ASSUME IndInv, NEW g \in Getters, Acts(g)
    PROVE  Types'
<1>0. Types /\ Hands /\ Asking /\ Promises /\ Apart /\ Flat /\ Best /\ Flow(g)
  BY FlowIs DEF IndInv
<1>1. /\ consumer \in Consumers /\ nextIndex \in Nat /\ doneIndex \in Nat /\ blocks \in Seq(Block)
      /\ nextAsk \in 0 .. Asked /\ lost \subseteq Traces /\ late \subseteq Traces
      /\ \A i \in Handed : result[i].src \in Traces /\ result[i].from \in Seq(Traces)
      /\ \A k \in DOMAIN blocks : blocks[k] \in Block
  BY <1>0, LenProperties, ElementOfSeq DEF Types
<1>2. consumer' \in Consumers /\ doneIndex' \in Nat
  BY <1>0, <1>1 DEF Flow
<1>3. nextIndex' \in Nat /\ lost' \subseteq Traces /\ taken' \in [Getters -> Nat \cup {NULL}]
  <2>1. HandsMove(g)
    BY <1>0, Zenon DEF Flow
  <2>2. nextIndex' \in {nextIndex, nextIndex + 1} /\ lost' \in {lost, lost \cup ({taken[g]} \cap Traces)}
    BY <2>1 DEF HandsMove
  <2>3. QED
    BY <1>1, <2>1, <2>2 DEF HandsMove
<1>4. /\ pc' \in [Getters -> InHand \cup {"idle", "check", "take", "finalize"}]
      /\ idx' \in [Getters -> Indices \cup {NULL}]
  BY <1>0, Zenon DEF Flow, Moves
<1>5. nextAsk' \in 0 .. Asked
  <2>1. CASE Ask(g)
    BY <1>1, <2>1, SizesAssumption DEF Ask, Indices
  <2>2. CASE UNCHANGED nextAsk
    BY <1>1, <2>2
  <2>3. QED
    BY <1>0, <2>1, <2>2, Zenon DEF Flow
<1>6. blocks' \in Seq(Block) /\ late' \subseteq Traces
  <2>1. CASE Quiet(g)
    BY <1>0, <1>1, <2>1, QuietIs
  <2>2. CASE Begin(g)
    BY <1>0, <1>1, <2>2, BeginIs
  <2>3. ASSUME NEW k, Join(g, k) PROVE blocks' \in Seq(Block) /\ late' \subseteq Traces
    <3>1. blocks' \in Seq(Block) /\ late' \in {late, late \cup {taken[g]}}
      BY <1>0, <2>3, JoinIs
    <3>2. taken[g] \in Traces
      BY <1>0, <2>3, AccumulateIs DEF Join
    <3>3. QED
      BY <1>1, <3>1, <3>2
  <2>4. ASSUME NEW k, Gives(g, k) \/ Refuse(g, k)
        PROVE  blocks' \in Seq(Block) /\ late' \subseteq Traces
    <3>1. blocks' \in Seq(Block)
      BY <1>0, <2>4, KeepIs, DropIs, LeaveIs, RefuseIs DEF Gives
    <3>2. late' = late
      BY <2>4 DEF Gives, Keep, Drop, Leave, Refuse, Finalize, TitleFails, FinalizeFails, history
    <3>3. QED
      BY <1>1, <3>1, <3>2
  <2>5. QED
    BY <2>1, <2>2, <2>3, <2>4, Zenon DEF Acts
<1>7. \A i \in Handed' : result'[i].src \in Traces /\ result'[i].from \in Seq(Traces)
  <2>1. ASSUME NEW i \in Handed' \ Handed PROVE result'[i].src \in Traces /\ result'[i].from \in Seq(Traces)
    <3>1. PICK k \in DOMAIN blocks : result'[i].src = blocks[k].src /\ result'[i].from \in Seq(Traces)
      BY <2>1, AnswerIs
    <3>2. blocks[k].src \in Traces
      BY <1>1 DEF Block
    <3>3. QED
      BY <3>1, <3>2
  <2>2. \A i \in Handed : result'[i].src \in Traces /\ result'[i].from \in Seq(Traces)
    BY <1>0, <1>1, Zenon DEF Flow
  <2>3. QED
    BY <2>1, <2>2
<1>8. DOMAIN result' = Indices /\ refLock' \in Getters \cup {NULL} /\ refValid' \in BOOLEAN
  BY <1>0, Zenon DEF Flow
<1>9. QED
  BY <1>2, <1>3, <1>4, <1>5, <1>6, <1>7, <1>8, Zenon DEF Types

LEMMA AskingStep ==
    ASSUME IndInv, NEW g \in Getters, Acts(g)
    PROVE  Asking'
<1>0. Types /\ Asking /\ Flow(g) /\ Moves(g)
  BY FlowIs, Zenon DEF IndInv, Flow
<1>1. /\ doneIndex \in Nat /\ nextAsk \in 0 .. Asked /\ DOMAIN result = Indices
      /\ idx \in [Getters -> Indices \cup {NULL}]
      /\ pc \in [Getters -> InHand \cup {"idle", "check", "take", "finalize"}]
  BY <1>0 DEF Types
<1>2. doneIndex' \in {doneIndex, doneIndex + 1} /\ DOMAIN result' = Indices
  BY <1>0, Zenon DEF Flow
<1>3. \A h \in Getters \ {g} : pc'[h] = pc[h] /\ idx'[h] = idx[h]
  BY <1>0 DEF Moves
<1>4. \A i \in Handed' : i < doneIndex'
  <2>1. \A i \in Handed' \ Handed : i < doneIndex
    BY <1>0, Zenon DEF Flow
  <2>2. \A i \in Handed' : i < doneIndex /\ i \in Nat
    BY <1>0, <2>1 DEF Asking, Handed, Answered, Untitled, Indices
  <2>3. QED
    BY <1>1, <1>2, <2>2
<1>5. \A h \in Getters : pc'[h] = "finalize" => idx'[h] < doneIndex'
  <2>1. ASSUME NEW h \in Getters, pc'[h] = "finalize" PROVE idx'[h] < doneIndex /\ idx'[h] \in Int
    <3>1. CASE h = g
      <4>1. Check(g)
        BY <1>0, <2>1, <3>1, Zenon DEF Flow
      <4>2. pc[g] = "check" /\ idx' = idx /\ pc' = [pc EXCEPT ![g] = IF Ready(idx[g]) THEN "finalize" ELSE "take"]
        BY <4>1 DEF Check, MoveTo
      <4>3. idx[g] < doneIndex /\ idx[g] \in Indices
        BY <1>0, <1>1, <2>1, <3>1, <4>2 DEF Ready, Asking
      <4>4. QED
        BY <3>1, <4>2, <4>3 DEF Indices
    <3>2. CASE h # g
      BY <1>0, <1>3, <2>1, <3>2 DEF Asking, Indices
    <3>3. QED
      BY <3>1, <3>2
  <2>2. QED
    BY <1>1, <1>2, <2>1
<1>6. CASE Ask(g)
  <2>1. /\ pc[g] = "idle" /\ nextAsk \in Indices /\ idx'[g] = nextAsk /\ nextAsk' = nextAsk + 1
        /\ result' = result
    BY <1>1, <1>6 DEF Ask
  <2>2. ASSUME NEW h \in Getters, pc'[h] # "idle"
        PROVE  idx'[h] \in Indices /\ idx'[h] < nextAsk' /\ result'[idx'[h]] = Pending
    <3>1. CASE h = g
      BY <1>0, <1>1, <2>1, <3>1 DEF Asking, Indices
    <3>2. CASE h # g
      BY <1>0, <1>1, <1>3, <2>1, <2>2, <3>2 DEF Asking, Indices
    <3>3. QED
      BY <3>1, <3>2
  <2>3. ASSUME NEW h \in Getters, NEW j \in Getters, pc'[h] # "idle", pc'[j] # "idle", idx'[h] = idx'[j]
        PROVE  h = j
    <3>1. \A l \in Getters \ {g} : pc'[l] # "idle" => idx'[l] < nextAsk /\ idx'[l] \in Int
      BY <1>0, <1>3 DEF Asking, Indices
    <3>2. nextAsk \in Int /\ ~(nextAsk < nextAsk)
      BY <1>1
    <3>3. CASE h # g /\ j # g
      BY <1>0, <1>3, <2>3, <3>3 DEF Asking
    <3>4. QED
      BY <2>1, <2>3, <3>1, <3>2, <3>3
  <2>4. \A i \in Indices : i >= nextAsk' => result'[i] = Pending
    BY <1>0, <1>1, <2>1 DEF Asking, Indices
  <2>5. QED
    BY <1>4, <1>5, <2>2, <2>3, <2>4 DEF Asking
<1>7. CASE UNCHANGED <<nextAsk, idx>> /\ pc[g] # "idle" /\ UNCHANGED result /\ pc'[g] # "idle"
  <2>1. \A h \in Getters : pc'[h] # "idle" => pc[h] # "idle" /\ idx'[h] = idx[h]
    BY <1>3, <1>7
  <2>2. /\ \A h \in Getters : pc'[h] # "idle" =>
            idx'[h] \in Indices /\ idx'[h] < nextAsk' /\ result'[idx'[h]] = Pending
        /\ \A h, j \in Getters : pc'[h] # "idle" /\ pc'[j] # "idle" /\ idx'[h] = idx'[j] => h = j
        /\ \A i \in Indices : i >= nextAsk' => result'[i] = Pending
    BY <1>0, <1>7, <2>1 DEF Asking
  <2>3. QED
    BY <1>4, <1>5, <2>2, Zenon DEF Asking
<1>8. ASSUME NEW w, UNCHANGED <<nextAsk, idx>> /\ pc[g] # "idle" /\ Returns(g, w) PROVE Asking'
  <2>1. /\ pc'[g] = "idle" /\ nextAsk' = nextAsk /\ idx' = idx
        /\ result' = [result EXCEPT ![idx[g]] = w]
    BY <1>8 DEF Returns
  <2>2. idx[g] \in Indices /\ idx[g] < nextAsk
    BY <1>0, <1>8 DEF Asking
  <2>3. \A i \in Indices : i # idx[g] => result'[i] = result[i]
    BY <1>1, <2>1
  <2>4. ASSUME NEW h \in Getters, pc'[h] # "idle"
        PROVE  h # g /\ pc[h] # "idle" /\ idx[h] # idx[g]
    BY <1>0, <1>3, <1>8, <2>1, <2>4 DEF Asking
  <2>5. \A h \in Getters : pc'[h] # "idle" =>
            idx'[h] \in Indices /\ idx'[h] < nextAsk' /\ result'[idx'[h]] = Pending
    BY <1>0, <2>1, <2>3, <2>4 DEF Asking
  <2>6. \A h, j \in Getters : pc'[h] # "idle" /\ pc'[j] # "idle" /\ idx'[h] = idx'[j] => h = j
    BY <1>0, <2>1, <2>4 DEF Asking
  <2>7. \A i \in Indices : i >= nextAsk' => result'[i] = Pending
    <3>1. \A i \in Indices : i >= nextAsk => i # idx[g]
      BY <1>1, <2>2 DEF Indices
    <3>2. QED
      BY <1>0, <2>1, <2>3, <3>1 DEF Asking
  <2>8. QED
    BY <1>4, <1>5, <2>5, <2>6, <2>7, Zenon DEF Asking
<1>9. QED
  BY <1>0, <1>6, <1>7, <1>8, Zenon DEF Flow

LEMMA HandsStep ==
    ASSUME IndInv, NEW g \in Getters, Acts(g)
    PROVE  Hands'
<1>0. Types /\ Hands /\ Apart /\ Flat /\ Best /\ Flow(g) /\ Moves(g) /\ HandsMove(g)
  BY FlowIs, Zenon DEF IndInv, Flow
<1>1. /\ nextIndex \in Nat /\ lost \subseteq Traces
      /\ taken \in [Getters -> Nat \cup {NULL}] /\ taken' \in [Getters -> Nat \cup {NULL}]
      /\ \A t \in Traces : t \in Nat /\ t # NULL
      /\ NULL \notin Nat
  BY <1>0, SourceIs DEF Types, HandsMove, NULL
<1>2. /\ \A h \in Getters \ {g} : pc'[h] = pc[h] /\ taken'[h] = taken[h]
      /\ nextIndex' \in {nextIndex, nextIndex + 1}
  BY <1>0 DEF Moves, HandsMove
<1>3. \A h \in Getters : pc'[h] \notin InHand => taken'[h] = NULL
  BY <1>0, <1>2 DEF Flow, Hands
<1>4. \A h \in Getters : pc'[h] \in InHand => taken'[h] \in 0 .. nextIndex' - 1
  <2>1. \A h \in Getters \ {g} : pc[h] \in InHand => taken[h] \in 0 .. nextIndex - 1
    BY <1>0 DEF Hands
  <2>2. \A t \in 0 .. nextIndex - 1 : t \in 0 .. nextIndex' - 1
    <3>1. \A n, m \in Nat : n <= m => \A t \in 0 .. n - 1 : t \in 0 .. m - 1
      OBVIOUS
    <3>2. nextIndex' \in Nat /\ nextIndex <= nextIndex'
      BY <1>1, <1>2
    <3>3. QED
      BY <1>1, <3>1, <3>2, Zenon
  <2>3. pc'[g] \in InHand => taken'[g] \in 0 .. nextIndex' - 1
    BY <1>0, Zenon DEF Flow
  <2>4. QED
    BY <1>2, <2>1, <2>2, <2>3
<1>5. \A h \in Getters : pc'[h] \in {"reference", "accumulate"} => taken'[h] \in Traces
  BY <1>0, <1>2 DEF Flow, Hands
<1>6. /\ \A h \in Getters : taken[h] # NULL => taken[h] < nextIndex /\ taken[h] \in Nat
      /\ \A h, j \in Getters : taken[h] = taken[j] /\ taken[h] # NULL => h = j
  BY <1>0, <1>1 DEF Hands
<1>7. \A h, j \in Getters : taken'[h] = taken'[j] /\ taken'[h] # NULL => h = j
  <2>1. CASE UNCHANGED <<taken, lost, nextIndex>>
    BY <1>6, <2>1
  <2>2. CASE taken[g] = NULL /\ taken'[g] = nextIndex
    BY <1>1, <1>2, <1>6, <2>2
  <2>3. CASE taken'[g] = NULL
    BY <1>2, <1>6, <2>3
  <2>4. QED
    BY <1>0, <2>1, <2>2, <2>3 DEF HandsMove
<1>8. ASSUME NEW t \in Traces, t < nextIndex, \A h \in Getters : taken[h] # t \/ (h = g /\ taken'[g] = NULL)
      PROVE  t < nextIndex' /\ \A h \in Getters : taken'[h] # t
  <2>1. t < nextIndex' /\ t # nextIndex /\ t # NULL
    BY <1>1, <1>2, <1>8
  <2>2. taken'[g] # t
    BY <1>0, <1>8, <2>1 DEF HandsMove
  <2>3. QED
    BY <1>2, <1>8, <2>1, <2>2
<1>9. \A t \in lost' : t < nextIndex' /\ \A h \in Getters : taken'[h] # t
  <2>1. ASSUME NEW t \in lost' PROVE t \in Traces /\ t < nextIndex /\ \A h \in Getters : taken[h] # t \/ (h = g /\ taken'[g] = NULL)
    <3>1. CASE t \in lost
      BY <1>0, <1>1, <3>1 DEF Hands
    <3>2. CASE t \notin lost
      <4>1. t = taken[g] /\ t \in Traces /\ taken'[g] = NULL
        BY <1>0, <2>1, <3>2 DEF HandsMove
      <4>2. QED
        BY <1>1, <1>6, <4>1
    <3>3. QED
      BY <3>1, <3>2
  <2>2. QED
    BY <1>8, <2>1
<1>10. \A i \in Handed' : result'[i].src < nextIndex' /\ \A h \in Getters : taken'[h] # result'[i].src
  <2>1. ASSUME NEW i \in Handed'
        PROVE  result'[i].src \in Traces /\ result'[i].src < nextIndex /\ \A h \in Getters : taken[h] # result'[i].src
    <3>1. CASE i \in Handed
      <4>1. result'[i] = result[i]
        BY <1>0, <3>1, Zenon DEF Flow
      <4>2. QED
        BY <1>0, <3>1, <4>1 DEF Hands, Types
    <3>2. CASE i \notin Handed
      <4>3. PICK k \in DOMAIN blocks : ~Freed(blocks[k]) /\ result'[i].src = blocks[k].src
        BY <3>2, AnswerIs
      <4>4. /\ blocks[k].items # <<>> /\ blocks[k].src = blocks[k].items[1]
            /\ \A m \in DOMAIN blocks[k].items :
                    blocks[k].items[m] < nextIndex /\ \A h \in Getters : taken[h] # blocks[k].items[m]
        BY <1>0, <4>3, Zenon DEF Apart, Settled, Freed
      <4>5. blocks[k].items \in Seq(Traces)
        <5>1. blocks[k] \in Block
          BY <1>0, LenProperties, ElementOfSeq DEF Types
        <5>2. QED
          BY <5>1 DEF Block
      <4>6. 1 \in DOMAIN blocks[k].items /\ blocks[k].items[1] \in Traces
        BY <4>4, <4>5, EmptySeq, LenProperties, ElementOfSeq
      <4>7. QED
        BY <4>3, <4>4, <4>6
    <3>3. QED
      BY <3>1, <3>2
  <2>2. QED
    BY <1>8, <2>1
<1>11. QED
  BY <1>3, <1>4, <1>5, <1>7, <1>9, <1>10, Zenon DEF Hands

-----------------------------------------------------------------------------
(* Where the traces go *)

LEMMA BlockIs ==
    ASSUME Types, NEW k \in DOMAIN blocks
    PROVE  /\ blocks[k] \in Block
           /\ blocks[k].items \in Seq(Traces) /\ blocks[k].flat \in Seq(Traces) /\ blocks[k].finalized \in Nat
           /\ DOMAIN blocks[k].items = 1 .. Len(blocks[k].items) /\ Len(blocks[k].items) \in Nat
           /\ \A m \in DOMAIN blocks[k].items : blocks[k].items[m] \in Traces
           /\ Range(blocks[k].items) \subseteq Traces
           /\ Remaining(blocks[k]) \subseteq Range(blocks[k].items)
<1>1. blocks[k] \in Block
  BY LenProperties, ElementOfSeq DEF Types
<1>2. blocks[k].items \in Seq(Traces) /\ blocks[k].flat \in Seq(Traces) /\ blocks[k].finalized \in Nat
  BY <1>1 DEF Block
<1>3. DOMAIN blocks[k].items = 1 .. Len(blocks[k].items) /\ Len(blocks[k].items) \in Nat
  BY <1>2, LenProperties
<1>4. \A m \in DOMAIN blocks[k].items : blocks[k].items[m] \in Traces
  BY <1>2, <1>3, ElementOfSeq
<1>5. QED
  BY <1>1, <1>2, <1>3, <1>4 DEF Remaining, Range

\* The same after a step.
After(t) == t < nextIndex' /\ t \notin lost' /\ \A g \in Getters : taken'[g] # t

LEMMA SettledStep ==
    ASSUME IndInv, NEW g \in Getters, Acts(g), NEW t \in Traces, Settled(t)
    PROVE  After(t)
<1>1. HandsMove(g)
  BY FlowIs, Zenon DEF Flow
<1>2. t \in Nat /\ t # NULL /\ nextIndex \in Nat
  BY SourceIs DEF IndInv, Types
<1>3. t < nextIndex /\ t \notin lost /\ \A h \in Getters : taken[h] # t
  BY DEF Settled
<1>4. t < nextIndex' /\ t # nextIndex
  BY <1>1, <1>2, <1>3 DEF HandsMove
<1>5. t \notin lost'
  BY <1>1, <1>3 DEF HandsMove
<1>6. \A h \in Getters : taken'[h] # t
  BY <1>1, <1>2, <1>3, <1>4 DEF HandsMove
<1>7. QED
  BY <1>4, <1>5, <1>6, Zenon DEF After

\* Who puts his trace into a block has settled it.
LEMMA SettledNow ==
    ASSUME IndInv, NEW g \in Getters, pc[g] = "accumulate", Accumulate(g), NEW t, t = taken[g]
    PROVE  After(t) /\ ~Settled(t) /\ t \in Traces
<1>1. Types /\ Hands
  BY DEF IndInv
<1>2. /\ t \in Traces /\ taken[g] \in 0 .. nextIndex - 1 /\ taken' = [taken EXCEPT ![g] = NULL]
      /\ nextIndex' = nextIndex /\ lost' = lost
  BY <1>1, AccumulateIs
<1>3. t \in Nat /\ t # NULL /\ t < nextIndex
  BY <1>1, <1>2, SourceIs DEF Types
<1>4. t \notin lost /\ \A h \in Getters \ {g} : taken[h] # t
  BY <1>1, <1>3 DEF Hands
<1>5. \A h \in Getters : taken'[h] # t
  BY <1>1, <1>2, <1>3, <1>4 DEF Types
<1>6. QED
  BY <1>2, <1>3, <1>4, <1>5 DEF Settled, After

LEMMA ApartStep ==
    ASSUME IndInv, NEW g \in Getters, Acts(g)
    PROVE  Apart'
<1>0. Types /\ Hands /\ Asking /\ Promises /\ Apart /\ Flat /\ Best
  BY DEF IndInv
<1>1. \A k \in DOMAIN blocks :
        /\ blocks[k].items \in Seq(Traces)
        /\ \A m \in DOMAIN blocks[k].items : blocks[k].items[m] \in Traces /\ Settled(blocks[k].items[m])
  BY <1>0, BlockIs DEF Apart
<1>2. \A t \in Traces : Settled(t) => After(t)
  BY SettledStep
<1>3. ASSUME DOMAIN blocks' = DOMAIN blocks,
             \A j \in DOMAIN blocks : blocks'[j].items = blocks[j].items /\ blocks'[j].src = blocks[j].src
      PROVE  Apart'
  <2>1. \A k \in DOMAIN blocks' :
            /\ ~Freed(blocks'[k]) => blocks'[k].src = blocks'[k].items[1]
            /\ \A m \in DOMAIN blocks'[k].items : After(blocks'[k].items[m])
    BY <1>0, <1>1, <1>2, <1>3, Zenon DEF Apart, Freed
  <2>2. \A k, l \in DOMAIN blocks' : \A m \in DOMAIN blocks'[k].items, n \in DOMAIN blocks'[l].items :
            blocks'[k].items[m] = blocks'[l].items[n] => k = l /\ m = n
    BY <1>0, <1>3 DEF Apart
  <2>3. QED
    BY <2>1, <2>2, Zenon DEF Apart, Settled, After
<1>4. CASE Quiet(g)
  <2>1. blocks' = blocks
    BY <1>0, <1>4, QuietIs
  <2>2. QED
    BY <1>3, <2>1
<1>5. ASSUME NEW k, Keep(g, k) \/ Refuse(g, k) PROVE Apart'
  <2>1. /\ DOMAIN blocks' = DOMAIN blocks
        /\ \A j \in DOMAIN blocks : j # k => blocks'[j] = blocks[j]
        /\ blocks'[k].items = blocks[k].items /\ blocks'[k].src = blocks[k].src
    BY <1>0, <1>5, KeepIs, RefuseIs
  <2>2. \A j \in DOMAIN blocks : blocks'[j].items = blocks[j].items /\ blocks'[j].src = blocks[j].src
    BY <2>1, Zenon
  <2>3. QED
    BY <1>3, <2>1, <2>2
<1>6. ASSUME NEW k, Drop(g, k) PROVE Apart'
  <2>1. /\ \A j \in DOMAIN blocks' : blocks'[j] = blocks[Up(j, k)] /\ Up(j, k) \in DOMAIN blocks
        /\ \A i, j \in DOMAIN blocks' : Up(i, k) = Up(j, k) => i = j
    BY <1>0, <1>6, DropIs
  <2>2. \A j \in DOMAIN blocks' :
            /\ ~Freed(blocks'[j]) => blocks'[j].src = blocks'[j].items[1]
            /\ \A m \in DOMAIN blocks'[j].items : After(blocks'[j].items[m])
    <3> TAKE j \in DOMAIN blocks'
    <3>1. PICK l \in DOMAIN blocks : blocks'[j] = blocks[l]
      BY <2>1, Zenon
    <3>2. QED
      BY <1>0, <1>1, <1>2, <3>1 DEF Apart
  <2>3. \A j, l \in DOMAIN blocks' : \A m \in DOMAIN blocks'[j].items, n \in DOMAIN blocks'[l].items :
            blocks'[j].items[m] = blocks'[l].items[n] => j = l /\ m = n
    <3> TAKE j, l \in DOMAIN blocks'
    <3>1. PICK p, q \in DOMAIN blocks :
              blocks'[j] = blocks[p] /\ blocks'[l] = blocks[q] /\ p = Up(j, k) /\ q = Up(l, k)
      BY <2>1, Zenon
    <3>2. p = q => j = l
      BY <2>1, <3>1, Zenon
    <3>3. QED
      BY <1>0, <3>1, <3>2 DEF Apart
  <2>4. QED
    BY <2>2, <2>3, Zenon DEF Apart, Settled, After
<1>7. ASSUME NEW k, Join(g, k) PROVE Apart'
  <2>1. PICK t : t = taken[g]
    OBVIOUS
  <2>2. /\ k \in DOMAIN blocks /\ DOMAIN blocks' = DOMAIN blocks
        /\ \A j \in DOMAIN blocks : j # k => blocks'[j] = blocks[j]
        /\ blocks'[k].items = Append(blocks[k].items, t) /\ blocks'[k].src = blocks[k].src
    BY <1>0, <1>7, <2>1, JoinIs
  <2>3. After(t) /\ ~Settled(t) /\ t \in Traces
    BY <1>7, <2>1, SettledNow DEF Join
  <2>4. blocks[k].items # <<>> /\ blocks[k].src = blocks[k].items[1]
    BY <1>0, <1>7, <2>2, JoinIs DEF Apart, Freed
  <2>5. /\ blocks'[k].items # <<>> /\ blocks'[k].items[1] = blocks[k].items[1]
        /\ \A m \in DOMAIN blocks'[k].items :
                \/ m \in DOMAIN blocks[k].items /\ blocks'[k].items[m] = blocks[k].items[m]
                \/ m = Len(blocks[k].items) + 1 /\ blocks'[k].items[m] = t
    <3>1. \A q \in Seq(Traces) : q # <<>> =>
            /\ Append(q, t) # <<>> /\ Append(q, t)[1] = q[1]
            /\ \A m \in DOMAIN Append(q, t) :
                    \/ m \in DOMAIN q /\ Append(q, t)[m] = q[m]
                    \/ m = Len(q) + 1 /\ Append(q, t)[m] = t
      BY <2>3, EmptySeq
    <3>2. PICK q \in Seq(Traces) : q = blocks[k].items
      BY <1>1, <2>2
    <3>3. q # <<>> /\ blocks'[k].items = Append(q, t)
      BY <2>2, <2>4, <3>2, Zenon
    <3>4. QED
      BY <3>1, <3>2, <3>3, Zenon
  <2>6. \A j \in DOMAIN blocks' :
            /\ ~Freed(blocks'[j]) => blocks'[j].src = blocks'[j].items[1]
            /\ \A m \in DOMAIN blocks'[j].items : After(blocks'[j].items[m])
    <3>1. ASSUME NEW j \in DOMAIN blocks', j = k
          PROVE  /\ ~Freed(blocks'[j]) => blocks'[j].src = blocks'[j].items[1]
                 /\ \A m \in DOMAIN blocks'[j].items : After(blocks'[j].items[m])
      BY <1>1, <1>2, <2>2, <2>3, <2>4, <2>5, <3>1, Zenon
    <3>2. ASSUME NEW j \in DOMAIN blocks', j # k
          PROVE  /\ ~Freed(blocks'[j]) => blocks'[j].src = blocks'[j].items[1]
                 /\ \A m \in DOMAIN blocks'[j].items : After(blocks'[j].items[m])
      BY <1>0, <1>1, <1>2, <2>2, <3>2, Zenon DEF Apart
    <3>3. QED
      BY <3>1, <3>2, Zenon
  <2>7. ASSUME NEW j \in DOMAIN blocks', NEW l \in DOMAIN blocks',
               NEW m \in DOMAIN blocks'[j].items, NEW n \in DOMAIN blocks'[l].items,
               blocks'[j].items[m] = blocks'[l].items[n]
        PROVE  j = l /\ m = n
    <3>1. \/ m \in DOMAIN blocks[j].items /\ blocks'[j].items[m] = blocks[j].items[m] /\ Settled(blocks[j].items[m])
          \/ j = k /\ m = Len(blocks[k].items) + 1 /\ blocks'[j].items[m] = t
      BY <1>1, <2>2, <2>5, Zenon
    <3>2. \/ n \in DOMAIN blocks[l].items /\ blocks'[l].items[n] = blocks[l].items[n] /\ Settled(blocks[l].items[n])
          \/ l = k /\ n = Len(blocks[k].items) + 1 /\ blocks'[l].items[n] = t
      BY <1>1, <2>2, <2>5, Zenon
    <3>3. PICK x : x = blocks'[j].items[m] /\ x = blocks'[l].items[n]
      BY <2>7
    <3>4. CASE x = t
      BY <2>3, <3>1, <3>2, <3>3, <3>4, Zenon
    <3>5. CASE x # t
      BY <1>0, <3>1, <3>2, <3>3, <3>5, <2>2 DEF Apart
    <3>6. QED
      BY <3>4, <3>5
  <2>8. QED
    BY <2>6, <2>7, Zenon DEF Apart, Settled, After
<1>8. CASE Begin(g)
  <2>1. PICK t, n : t = taken[g] /\ n = Len(blocks) + 1
    OBVIOUS
  <2>2. /\ DOMAIN blocks' = 1 .. n /\ DOMAIN blocks = 1 .. n - 1
        /\ blocks'[n].items = <<t>> /\ blocks'[n].src = t
        /\ \A j \in 1 .. n - 1 : blocks'[j].items = blocks[j].items /\ blocks'[j].src = blocks[j].src
    BY <1>0, <1>8, <2>1, BeginIs
  <2>3. After(t) /\ ~Settled(t) /\ t \in Traces
    BY <1>8, <2>1, SettledNow DEF Begin
  <2>4. <<t>> # <<>> /\ <<t>>[1] = t /\ \A m \in DOMAIN <<t>> : m = 1
    OBVIOUS
  <2>5. n \in Nat /\ \A j \in 1 .. n : j \in 1 .. n - 1 \/ j = n
    BY <1>0, <2>1, LenProperties DEF Types
  <2>6. ASSUME NEW j \in DOMAIN blocks'
        PROVE  /\ ~Freed(blocks'[j]) => blocks'[j].src = blocks'[j].items[1]
               /\ \A m \in DOMAIN blocks'[j].items : After(blocks'[j].items[m])
    <3>1. CASE j = n
      BY <2>2, <2>3, <2>4, <3>1, Zenon
    <3>2. CASE j \in 1 .. n - 1
      BY <1>0, <1>1, <1>2, <2>2, <3>2, Zenon DEF Apart, Freed
    <3>3. QED
      BY <2>2, <2>5, <3>1, <3>2
  <2>7. ASSUME NEW j \in DOMAIN blocks', NEW l \in DOMAIN blocks',
               NEW m \in DOMAIN blocks'[j].items, NEW i \in DOMAIN blocks'[l].items,
               blocks'[j].items[m] = blocks'[l].items[i]
        PROVE  j = l /\ m = i
    <3>1. \/ /\ j \in DOMAIN blocks /\ m \in DOMAIN blocks[j].items
             /\ blocks'[j].items[m] = blocks[j].items[m] /\ Settled(blocks[j].items[m])
          \/ j = n /\ m = 1 /\ blocks'[j].items[m] = t
      BY <1>1, <2>2, <2>4, <2>5, Zenon
    <3>2. \/ /\ l \in DOMAIN blocks /\ i \in DOMAIN blocks[l].items
             /\ blocks'[l].items[i] = blocks[l].items[i] /\ Settled(blocks[l].items[i])
          \/ l = n /\ i = 1 /\ blocks'[l].items[i] = t
      BY <1>1, <2>2, <2>4, <2>5, Zenon
    <3>3. PICK x : x = blocks'[j].items[m] /\ x = blocks'[l].items[i]
      BY <2>7
    <3>4. CASE x = t
      BY <2>3, <3>1, <3>2, <3>3, <3>4, Zenon
    <3>5. CASE x # t
      BY <1>0, <3>1, <3>2, <3>3, <3>5 DEF Apart
    <3>6. QED
      BY <3>4, <3>5
  <2>8. QED
    BY <2>6, <2>7, Zenon DEF Apart, Settled, After
<1>9. ASSUME NEW k, Leave(g, k) PROVE Apart'
  <2>1. /\ DOMAIN blocks' = DOMAIN blocks /\ blocks'[k].items = <<>> /\ Freed(blocks'[k])
        /\ \A j \in DOMAIN blocks : j # k => blocks'[j] = blocks[j]
    BY <1>0, <1>9, LeaveIs
  <2>2. \A j \in DOMAIN blocks' : \A m \in DOMAIN blocks'[j].items : j # k
    BY <2>1
  <2>3. \A j \in DOMAIN blocks' :
            /\ ~Freed(blocks'[j]) => blocks'[j].src = blocks'[j].items[1]
            /\ \A m \in DOMAIN blocks'[j].items : After(blocks'[j].items[m])
    BY <1>0, <1>1, <1>2, <2>1, <2>2, Zenon DEF Apart
  <2>4. \A j, l \in DOMAIN blocks' : \A m \in DOMAIN blocks'[j].items, n \in DOMAIN blocks'[l].items :
            blocks'[j].items[m] = blocks'[l].items[n] => j = l /\ m = n
    <3> TAKE j, l \in DOMAIN blocks'
    <3> TAKE m \in DOMAIN blocks'[j].items, n \in DOMAIN blocks'[l].items
    <3>1. blocks'[j] = blocks[j] /\ blocks'[l] = blocks[l] /\ j \in DOMAIN blocks /\ l \in DOMAIN blocks
      BY <2>1, <2>2, Zenon
    <3>2. QED
      BY <1>0, <3>1 DEF Apart
  <2>5. QED
    BY <2>3, <2>4, Zenon DEF Apart, Settled, After
<1>10. QED
  BY <1>4, <1>5, <1>6, <1>7, <1>8, <1>9, Zenon DEF Acts, Gives

\* A trace that joins a block is left in it, with what was left before.
LEMMA JoinLeft ==
    ASSUME IndInv, NEW g \in Getters, NEW k, Join(g, k)
    PROVE  Remaining(blocks'[k]) = Remaining(blocks[k]) \cup {taken[g]}
<1> DEFINE b == blocks[k]
           c == blocks'[k]
           t == taken[g]
<1>1. /\ k \in DOMAIN blocks /\ c.items = Append(b.items, t)
      /\ c.flat = b.flat /\ c.finalized = b.finalized
  BY JoinIs DEF IndInv
<1>2. t \in Traces /\ ~Settled(t)
  BY SettledNow DEF Join
<1>3. b.items \in Seq(Traces)
  BY <1>1, BlockIs DEF IndInv
<1>4. Range(c.items) = Range(b.items) \cup {t}
  <2>1. \A q \in Seq(Traces), x \in Traces : Range(Append(q, x)) = Range(q) \cup {x}
    <3> SUFFICES ASSUME NEW q \in Seq(Traces), NEW x \in Traces
                 PROVE  Range(Append(q, x)) = Range(q) \cup {x}
      OBVIOUS
    <3>1. /\ DOMAIN Append(q, x) = DOMAIN q \cup {Len(q) + 1} /\ Len(q) + 1 \notin DOMAIN q
          /\ Append(q, x)[Len(q) + 1] = x
          /\ \A m \in DOMAIN q : Append(q, x)[m] = q[m]
      BY LenProperties
    <3>2. QED
      BY <3>1 DEF Range
  <2>2. QED
    BY <1>1, <1>2, <1>3, <2>1
<1>5. CASE b.flat = <<>>
  BY <1>1, <1>4, <1>5 DEF Remaining
<1>6. CASE b.flat # <<>>
  <2>1. FlatOf(b)
    BY <1>1 DEF IndInv, Flat
  <2>2. Range(b.flat) \subseteq Range(b.items)
    BY <1>6, <2>1, Zenon DEF FlatOf, FlatIn
  <2>3. t \notin Range(b.items)
    BY <1>1, <1>2 DEF IndInv, Apart, Range
  <2>4. t \notin GivenOf(b.flat, b.finalized)
    BY <2>2, <2>3 DEF GivenOf, Range
  <2>5. /\ Remaining(b) = Range(b.items) \ GivenOf(b.flat, b.finalized)
        /\ Remaining(c) = Range(c.items) \ GivenOf(b.flat, b.finalized)
    BY <1>1, <1>6, Zenon DEF Remaining, GivenOf
  <2> HIDE DEF b, c, t
  <2>6. Remaining(c) = Remaining(b) \cup {t}
    BY <1>4, <2>4, <2>5
  <2>7. QED
    BY <2>6, Zenon DEF b, c, t
<1>7. QED
  BY <1>5, <1>6

LEMMA BeginLeft ==
    ASSUME IndInv, NEW g \in Getters, Begin(g), NEW n, n = Len(blocks) + 1
    PROVE  /\ n \in DOMAIN blocks' /\ Remaining(blocks'[n]) = {taken[g]}
           /\ \A j \in DOMAIN blocks' : j \in DOMAIN blocks \/ j = n
           /\ \A j \in DOMAIN blocks : j \in DOMAIN blocks' /\ Remaining(blocks'[j]) = Remaining(blocks[j])
<1>1. /\ DOMAIN blocks' = 1 .. n /\ DOMAIN blocks = 1 .. n - 1
      /\ blocks'[n].items = <<taken[g]>> /\ blocks'[n].flat = <<>>
      /\ \A j \in 1 .. n - 1 :
            /\ blocks'[j].items = blocks[j].items /\ blocks'[j].flat = blocks[j].flat
            /\ blocks'[j].finalized = blocks[j].finalized
  BY BeginIs DEF IndInv
<1>2. n \in 1 .. n /\ \A j \in 1 .. n : j \in 1 .. n - 1 \/ j = n
  BY LenProperties DEF IndInv, Types
<1>3. Remaining(blocks'[n]) = {taken[g]}
  <2>1. \A x : Range(<<x>>) = {x}
    BY DEF Range
  <2>2. QED
    BY <1>1, <2>1 DEF Remaining
<1>4. \A j \in DOMAIN blocks : j \in DOMAIN blocks'
  BY <1>1, <1>2
<1>5. ASSUME NEW j \in DOMAIN blocks PROVE Remaining(blocks'[j]) = Remaining(blocks[j])
  <2>1. /\ blocks'[j].items = blocks[j].items /\ blocks'[j].flat = blocks[j].flat
        /\ blocks'[j].finalized = blocks[j].finalized
    BY <1>1
  <2>2. QED
    BY <2>1 DEF Remaining
<1>6. QED
  BY <1>1, <1>2, <1>3, <1>4, <1>5

\* What is left in a block was left there before, or comes to it by this step.
LEMMA LeftIs ==
    ASSUME IndInv, NEW g \in Getters, Acts(g), NEW j \in DOMAIN blocks', NEW t \in Remaining(blocks'[j])
    PROVE  \/ t = taken[g] /\ t \in Traces /\ ~Settled(t)
           \/ \E l \in DOMAIN blocks : t \in Remaining(blocks[l])
<1>0. Types /\ Hands /\ Asking /\ Promises /\ Apart /\ Flat /\ Best
  BY DEF IndInv
<1>1. CASE Quiet(g)
  <2>1. blocks' = blocks
    BY <1>0, <1>1, QuietIs
  <2>2. QED
    BY <2>1, Zenon
<1>2. CASE Begin(g)
  <2>1. taken[g] \in Traces /\ ~Settled(taken[g])
    BY <1>2, SettledNow DEF Begin
  <2>2. QED
    BY <1>2, <2>1, BeginLeft
<1> DEFINE Goal == \/ t = taken[g] /\ t \in Traces /\ ~Settled(t)
                   \/ \E l \in DOMAIN blocks : t \in Remaining(blocks[l])
<1>3. ASSUME NEW k, Join(g, k) PROVE Goal
  <2>1. taken[g] \in Traces /\ ~Settled(taken[g])
    BY <1>3, SettledNow DEF Join
  <2>2. /\ k \in DOMAIN blocks /\ DOMAIN blocks' = DOMAIN blocks
        /\ \A l \in DOMAIN blocks : l # k => blocks'[l] = blocks[l]
    BY <1>0, <1>3, JoinIs
  <2>3. Remaining(blocks'[k]) = Remaining(blocks[k]) \cup {taken[g]}
    BY <1>3, JoinLeft
  <2>4. CASE j = k
    BY <2>1, <2>2, <2>3, <2>4
  <2>5. CASE j # k
    BY <2>2, <2>5, Zenon
  <2>6. QED
    BY <2>4, <2>5
<1>4. ASSUME NEW k, Keep(g, k) \/ Refuse(g, k) PROVE Goal
  <2>1. k \in DOMAIN blocks /\ ~Freed(blocks[k])
    BY <1>0, <1>4, KeepIs, RefuseIs
  <2>2. /\ DOMAIN blocks' = DOMAIN blocks
        /\ \A l \in DOMAIN blocks : l # k => blocks'[l] = blocks[l]
    BY <1>0, <1>4, KeepIs, RefuseIs
  <2>3. Remaining(blocks'[k]) \subseteq Remaining(blocks[k])
    <3>1. CASE Keep(g, k)
      <4>1. Finalized(blocks[k]).out # Failed /\ Remaining(blocks'[k]) = Remaining(Finalized(blocks[k]).block)
        BY <1>0, <3>1, KeepIs
      <4>2. QED
        BY <1>0, <2>1, <4>1, GivesIs
    <3>2. CASE Refuse(g, k)
      BY <1>0, <3>2, RefuseIs
    <3>3. QED
      BY <1>4, <3>1, <3>2
  <2>4. CASE j = k
    BY <2>1, <2>3, <2>4
  <2>5. CASE j # k
    BY <2>2, <2>5, Zenon
  <2>6. QED
    BY <2>4, <2>5
<1>5. ASSUME NEW k, Drop(g, k) PROVE Goal
  <2>1. PICK l \in DOMAIN blocks : blocks'[j] = blocks[l]
    BY <1>0, <1>5, DropIs
  <2>2. QED
    BY <2>1, Zenon
<1>6. ASSUME NEW k, Leave(g, k) PROVE Goal
  <2>1. /\ DOMAIN blocks' = DOMAIN blocks /\ Remaining(blocks'[k]) = {}
        /\ \A l \in DOMAIN blocks : l # k => blocks'[l] = blocks[l]
    BY <1>0, <1>6, LeaveIs
  <2>2. j # k
    BY <2>1
  <2>3. QED
    BY <2>1, <2>2, Zenon
<1>7. QED
  BY <1>1, <1>2, <1>3, <1>4, <1>5, <1>6, Zenon DEF Acts, Gives

LEMMA DisjointIs ==
    ASSUME Types, Apart, NEW j \in DOMAIN blocks, NEW k \in DOMAIN blocks, j # k
    PROVE  Remaining(blocks[j]) \cap Remaining(blocks[k]) = {}
<1>1. Range(blocks[j].items) \cap Range(blocks[k].items) = {}
  BY DEF Apart, Range
<1>2. QED
  BY <1>1, BlockIs

LEMMA GivenStep ==
    ASSUME IndInv, NEW g \in Getters, Acts(g)
    PROVE  Given'
<1>0. Types /\ Hands /\ Asking /\ Promises /\ Apart /\ Given /\ Flat /\ Best
  BY DEF IndInv
<1>1. \A i \in Handed : i \in Handed' /\ result'[i] = result[i] /\ From(i)' = From(i)
  BY FlowIs, Zenon DEF Flow
<1>2. \A i \in Handed : From(i) \subseteq Traces
  BY <1>0, LenProperties, ElementOfSeq DEF Types, From, Range
<1>3. \A k \in DOMAIN blocks : \A t \in Remaining(blocks[k]) : t \in Traces /\ Settled(t)
  <2>1. ASSUME NEW k \in DOMAIN blocks, NEW t \in Remaining(blocks[k]) PROVE t \in Traces /\ Settled(t)
    <3>1. t \in Range(blocks[k].items)
      BY <1>0, <2>1, BlockIs
    <3>2. PICK m \in DOMAIN blocks[k].items : t = blocks[k].items[m]
      BY <3>1 DEF Range
    <3>3. QED
      BY <1>0, <3>2, BlockIs DEF Apart
  <2>2. QED
    BY <2>1
<1>4. \A t \in Traces : Settled(t) => After(t)
  BY SettledStep
<1>5. Singular' <=> Singular
  BY FlowIs DEF Flow, Singular
<1>6. ASSUME NEW i \in Handed', NEW t \in From(i)' PROVE After(t)
  <2>1. CASE i \in Handed
    BY <1>0, <1>1, <1>2, <1>4, <1>6, <2>1 DEF Given
  <2>2. CASE i \notin Handed
    <3>1. PICK k \in DOMAIN blocks : From(i)' \subseteq Remaining(blocks[k])
      BY <2>2, AnswerIs
    <3>2. QED
      BY <1>3, <1>4, <1>6, <3>1
  <2>3. QED
    BY <2>1, <2>2
<1>7. ASSUME ~Singular, NEW i \in Handed', NEW j \in DOMAIN blocks'
      PROVE  From(i)' \cap Remaining(blocks'[j]) = {}
  <2>1. CASE i \in Handed
    <3>1. SUFFICES ASSUME NEW t \in From(i), t \in Remaining(blocks'[j]) PROVE FALSE
      BY <1>1, <2>1
    <3>2. Settled(t)
      BY <1>0, <2>1 DEF Given
    <3>3. PICK l \in DOMAIN blocks : t \in Remaining(blocks[l])
      BY <3>1, <3>2, LeftIs
    <3>4. QED
      BY <1>0, <1>7, <2>1, <3>3 DEF Given
  <2>2. CASE i \notin Handed
    <3>1. PICK k \in DOMAIN blocks : /\ Gives(g, k)
                                     /\ From(i)' \subseteq Remaining(blocks[k])
                                     /\ From(i)' = Range(Finalized(blocks[k]).out.from)
      BY <2>2, AnswerIs
    <3>2. \A l \in DOMAIN blocks : l # k => From(i)' \cap Remaining(blocks[l]) = {}
      <4>1. \A l \in DOMAIN blocks : l # k => Remaining(blocks[k]) \cap Remaining(blocks[l]) = {}
        BY <1>0, DisjointIs
      <4>2. QED
        BY <3>1, <4>1
    <3>3. CASE Keep(g, k)
      <4>1. /\ Finalized(blocks[k]).out # Failed /\ Finalized(blocks[k]).more /\ ~Freed(blocks[k])
            /\ Remaining(blocks'[k]) = Remaining(Finalized(blocks[k]).block)
            /\ DOMAIN blocks' = DOMAIN blocks
            /\ \A l \in DOMAIN blocks : l # k => blocks'[l] = blocks[l]
        BY <1>0, <3>3, KeepIs
      <4>2. Range(Finalized(blocks[k]).out.from) \cap Remaining(Finalized(blocks[k]).block) = {}
        BY <1>0, <1>7, <4>1, GivesIs
      <4>3. CASE j = k
        BY <3>1, <4>1, <4>2, <4>3
      <4>4. CASE j # k
        BY <3>2, <4>1, <4>4, Zenon
      <4>5. QED
        BY <4>3, <4>4
    <3>4. CASE Drop(g, k)
      <4>1. PICK l \in DOMAIN blocks : blocks'[j] = blocks[l] /\ l # k
        BY <1>0, <3>4, DropIs
      <4>2. QED
        BY <3>2, <4>1, Zenon
    <3>5. CASE Leave(g, k)
      <4>1. /\ DOMAIN blocks' = DOMAIN blocks /\ Remaining(blocks'[k]) = {}
            /\ \A l \in DOMAIN blocks : l # k => blocks'[l] = blocks[l]
        BY <1>0, <3>5, LeaveIs
      <4>2. CASE j = k
        BY <4>1, <4>2
      <4>3. CASE j # k
        BY <3>2, <4>1, <4>3, Zenon
      <4>4. QED
        BY <4>2, <4>3
    <3>6. QED
      BY <3>1, <3>3, <3>4, <3>5 DEF Gives
  <2>3. QED
    BY <2>1, <2>2
<1>8. ASSUME ~Singular, NEW i \in Handed', NEW j \in Handed', From(i)' \cap From(j)' # {}
      PROVE  result'[i].src = result'[j].src
  <2>1. CASE i \in Handed /\ j \in Handed
    BY <1>0, <1>1, <1>8, <2>1 DEF Given
  <2>2. ASSUME NEW m \in Handed, NEW n \in Handed' \ Handed PROVE From(m)' \cap From(n)' = {}
    <3>1. PICK k \in DOMAIN blocks : From(n)' \subseteq Remaining(blocks[k])
      BY <2>2, AnswerIs
    <3>2. From(m)' = From(m) /\ From(m) \cap Remaining(blocks[k]) = {}
      BY <1>0, <1>1, <1>8 DEF Given
    <3>3. QED
      BY <3>1, <3>2
  <2>3. CASE i \notin Handed /\ j \notin Handed
    BY <2>3, AnswerIs
  <2>4. QED
    BY <1>8, <2>1, <2>2, <2>3
<1>9. /\ \A i \in Handed' : \A t \in From(i)' : After(t)
      /\ ~Singular' =>
            /\ \A i \in Handed', k \in DOMAIN blocks' : From(i)' \cap Remaining(blocks'[k]) = {}
            /\ \A i, j \in Handed' : From(i)' \cap From(j)' # {} => result'[i].src = result'[j].src
  BY <1>5, <1>6, <1>7, <1>8
<1>10. QED
  BY <1>9, Zenon DEF Given, Settled, After, Remaining

LEMMA LateGrows ==
    ASSUME IndInv, NEW g \in Getters, Acts(g)
    PROVE  late \subseteq late'
<1>0. Types /\ Hands
  BY DEF IndInv
<1>1. CASE Quiet(g)
  BY <1>0, <1>1, QuietIs
<1>2. CASE Begin(g)
  BY <1>0, <1>2, BeginIs
<1>3. ASSUME NEW k, Join(g, k) PROVE late \subseteq late'
  <2>1. late' \in {late, late \cup {taken[g]}}
    BY <1>0, <1>3, JoinIs
  <2>2. QED
    BY <2>1
<1>4. ASSUME NEW k, Gives(g, k) \/ Refuse(g, k) PROVE late \subseteq late'
  BY <1>4 DEF Gives, Keep, Drop, Leave, Refuse, Finalize, TitleFails, FinalizeFails, history
<1>5. QED
  BY <1>1, <1>2, <1>3, <1>4, Zenon DEF Acts

\* What was left in a block is still left, or given, or it came late.
LEMMA StillThere ==
    ASSUME IndInv, NEW g \in Getters, Acts(g), NEW l \in DOMAIN blocks, NEW t \in Remaining(blocks[l])
    PROVE  \/ t \in late
           \/ \E j \in DOMAIN blocks' : t \in Remaining(blocks'[j])
           \/ \E i \in Handed' : t \in From(i)'
<1> DEFINE Goal == \/ t \in late
                   \/ \E j \in DOMAIN blocks' : t \in Remaining(blocks'[j])
                   \/ \E i \in Handed' : t \in From(i)'
<1>0. Types /\ Hands /\ Asking /\ Promises /\ Apart /\ Flat /\ Best
  BY DEF IndInv
<1>1. CASE Quiet(g)
  <2>1. blocks' = blocks
    BY <1>0, <1>1, QuietIs
  <2>2. QED
    BY <2>1, Zenon
<1>2. CASE Begin(g)
  BY <1>2, BeginLeft
<1>3. ASSUME NEW k, Join(g, k) PROVE Goal
  <2>1. /\ DOMAIN blocks' = DOMAIN blocks
        /\ \A j \in DOMAIN blocks : j # k => blocks'[j] = blocks[j]
    BY <1>0, <1>3, JoinIs
  <2>2. Remaining(blocks[k]) \subseteq Remaining(blocks'[k])
    BY <1>3, JoinLeft
  <2>3. t \in Remaining(blocks'[l])
    BY <2>1, <2>2
  <2>4. QED
    BY <2>1, <2>3
<1>4. ASSUME NEW k, Refuse(g, k) PROVE Goal
  <2>1. /\ DOMAIN blocks' = DOMAIN blocks
        /\ \A j \in DOMAIN blocks : j # k => blocks'[j] = blocks[j]
        /\ Remaining(blocks'[k]) = Remaining(blocks[k])
    BY <1>0, <1>4, RefuseIs
  <2>2. t \in Remaining(blocks'[l])
    BY <2>1
  <2>3. QED
    BY <2>1, <2>2
<1>5. ASSUME NEW k, Gives(g, k) PROVE Goal
  <2>1. /\ k \in DOMAIN blocks /\ ~Freed(blocks[k]) /\ idx[g] \in Indices
        /\ (Finalized(blocks[k]).out # Failed)
        /\ \E w \in Outcomes(Finalized(blocks[k]).out) : Returns(g, w)
    BY <1>5, GiverAt
  <2>2. PICK w \in Outcomes(Finalized(blocks[k]).out) : Returns(g, w)
    BY <2>1
  <2>3. w.kind \in {"best", "entry", "wild", "empty", "pattern", "untitled"} /\ w.from = Finalized(blocks[k]).out.from
    <3>1. Finalized(blocks[k]).out.kind \in {"best", "entry", "wild", "empty", "pattern"}
      BY <1>0, <2>1, GivesIs
    <3>2. QED
      BY <3>1, OutcomeIs
  <2>4. idx[g] \in Handed' /\ From(idx[g])' = Range(Finalized(blocks[k]).out.from)
    BY <1>0, <2>2, <2>3, AnsweredMore
  <2>5. PICK i : i = idx[g]
    OBVIOUS
  <2>a. UNCHANGED idx
    BY <1>5 DEF Gives, Keep, Drop, Leave, Finalize, TitleFails
  <2>6. i \in Handed' /\ From(i)' = Range(Finalized(blocks[k]).out.from)
    BY <2>4, <2>5, <2>a DEF From
  <2>7. CASE Keep(g, k)
    <3>1. /\ DOMAIN blocks' = DOMAIN blocks
          /\ \A j \in DOMAIN blocks : j # k => blocks'[j] = blocks[j]
          /\ Remaining(blocks'[k]) = Remaining(Finalized(blocks[k]).block)
      BY <1>0, <2>7, KeepIs
    <3>2. Remaining(blocks[k]) \subseteq Remaining(blocks'[k]) \cup From(i)'
      BY <1>0, <2>1, <2>6, <3>1, GivesIs
    <3>3. CASE l = k
      BY <2>1, <2>6, <3>1, <3>2, <3>3
    <3>4. CASE l # k
      <4>1. t \in Remaining(blocks'[l])
        BY <3>1, <3>4, Zenon
      <4>2. QED
        BY <3>1, <4>1
    <3>5. QED
      BY <3>3, <3>4
  <2>8. CASE Drop(g, k)
    <3>1. /\ ~Finalized(blocks[k]).more
          /\ \A j \in DOMAIN blocks' : blocks'[j] = blocks[Up(j, k)]
          /\ \A m \in DOMAIN blocks : m # k => \E j \in DOMAIN blocks' : Up(j, k) = m
      BY <1>0, <2>8, DropIs
    <3>2. Remaining(blocks[k]) \subseteq From(i)' \cup late
      BY <1>0, <2>1, <2>6, <3>1, GivesIs
    <3>3. CASE l = k
      BY <2>6, <3>2, <3>3
    <3>4. CASE l # k
      <4>1. PICK j \in DOMAIN blocks' : blocks'[j] = blocks[l]
        BY <3>1, <3>4, Zenon
      <4>2. t \in Remaining(blocks'[j])
        BY <4>1, Zenon
      <4>3. QED
        BY <4>2
    <3>5. QED
      BY <3>3, <3>4
  <2>9. CASE Leave(g, k)
    <3>1. /\ ~Finalized(blocks[k]).more
          /\ DOMAIN blocks' = DOMAIN blocks
          /\ \A j \in DOMAIN blocks : j # k => blocks'[j] = blocks[j]
      BY <1>0, <2>9, LeaveIs
    <3>2. Remaining(blocks[k]) \subseteq From(i)' \cup late
      BY <1>0, <2>1, <2>6, <3>1, GivesIs
    <3>3. CASE l = k
      BY <2>6, <3>2, <3>3
    <3>4. CASE l # k
      <4>1. t \in Remaining(blocks'[l])
        BY <3>1, <3>4, Zenon
      <4>2. QED
        BY <3>1, <4>1
    <3>5. QED
      BY <3>3, <3>4
  <2>10. QED
    BY <1>5, <2>7, <2>8, <2>9 DEF Gives
<1>6. QED
  BY <1>1, <1>2, <1>3, <1>4, <1>5, Zenon DEF Acts

LEMMA SomewhereStep ==
    ASSUME IndInv, NEW g \in Getters, Acts(g)
    PROVE  Somewhere'
<1>0. Types /\ Hands /\ Somewhere /\ HandsMove(g) /\ consumer' = consumer
  BY FlowIs, Zenon DEF IndInv, Flow
<1>1. \A i \in Handed : i \in Handed' /\ From(i)' = From(i)
  BY FlowIs, Zenon DEF Flow
<1>2. SUFFICES ASSUME NEW t \in Traces, t < nextIndex', Interesting(t)'
               PROVE  \/ t \in lost' \/ t \in late'
                      \/ \E h \in Getters : taken'[h] = t
                      \/ \E k \in DOMAIN blocks' : t \in Remaining(blocks'[k])
                      \/ \E i \in Handed' : t \in From(i)'
  BY Zenon DEF Somewhere, Remaining
<1>3. Interesting(t)
  BY <1>0, <1>2 DEF Interesting, ReduceInteresting, SelectInteresting, SortInteresting, ExtractInteresting,
                    AlongData, Samples
<1>4. t \in Nat /\ nextIndex \in Nat
  BY <1>0, SourceIs DEF Types
<1>5. CASE t = nextIndex
  <2>1. nextIndex' # nextIndex
    BY <1>2, <1>4, <1>5
  <2>2. QED
    BY <1>0, <1>5, <2>1 DEF HandsMove
<1>6. CASE t # nextIndex
  <2>1. t < nextIndex
    BY <1>0, <1>2, <1>4, <1>6 DEF HandsMove
  <2>2. \/ t \in lost \/ t \in late
        \/ \E h \in Getters : taken[h] = t
        \/ \E k \in DOMAIN blocks : t \in Remaining(blocks[k])
        \/ \E i \in Handed : t \in From(i)
    BY <1>0, <1>3, <2>1 DEF Somewhere
  <2>3. CASE t \in lost
    BY <1>0, <2>3 DEF HandsMove
  <2>4. CASE t \in late
    BY <2>4, LateGrows
  <2>5. ASSUME NEW h \in Getters, taken[h] = t, taken'[h] # t
        PROVE  t \in lost' \/ \E k \in DOMAIN blocks' : t \in Remaining(blocks'[k])
    <3>1. h = g
      BY <1>0, <2>5 DEF HandsMove
    <3>2. CASE Quiet(g)
      BY <1>0, <1>3, <2>5, <3>1, <3>2, QuietIs
    <3>3. CASE Begin(g)
      <4>1. PICK n : n = Len(blocks) + 1
        OBVIOUS
      <4>2. n \in DOMAIN blocks' /\ Remaining(blocks'[n]) = {taken[g]}
        BY <3>3, <4>1, BeginLeft
      <4>3. QED
        BY <2>5, <3>1, <4>2
    <3>4. ASSUME NEW k, Join(g, k) PROVE \E j \in DOMAIN blocks' : t \in Remaining(blocks'[j])
      <4>1. Remaining(blocks'[k]) = Remaining(blocks[k]) \cup {taken[g]} /\ k \in DOMAIN blocks'
        BY <1>0, <3>4, JoinLeft, JoinIs
      <4>2. QED
        BY <2>5, <3>1, <4>1
    <3>5. ASSUME NEW k, Gives(g, k) \/ Refuse(g, k) PROVE FALSE
      BY <2>5, <3>5 DEF Gives, Keep, Drop, Leave, Refuse, Finalize, TitleFails, FinalizeFails
    <3>6. QED
      BY <3>2, <3>3, <3>4, <3>5, Zenon DEF Acts
  <2>6. ASSUME NEW k \in DOMAIN blocks, t \in Remaining(blocks[k])
        PROVE  \/ t \in late
               \/ \E j \in DOMAIN blocks' : t \in Remaining(blocks'[j])
               \/ \E i \in Handed' : t \in From(i)'
    BY <2>6, StillThere
  <2>7. \A i \in Handed : t \in From(i) => \E j \in Handed' : t \in From(j)'
    BY <1>1
  <2>8. late \subseteq late'
    BY LateGrows
  <2>9. QED
    BY <2>2, <2>3, <2>5, <2>6, <2>7, <2>8
<1>7. QED
  BY <1>5, <1>6

-----------------------------------------------------------------------------
(* The order of what is given *)

LEMMA FlatMore ==
    ASSUME NEW b, NEW c, NEW came, NEW more, came \subseteq more, FlatIn(b, came),
           c.flat = b.flat, c.finalized = b.finalized, c.items = b.items
    PROVE  FlatIn(c, more)
<1>1. CASE b.flat = <<>>
  BY <1>1, Zenon DEF FlatIn
<1>2. CASE b.flat # <<>>
  <2>1. /\ Len(b.flat) < Len(b.items) => came # {}
        /\ Range(b.items) \subseteq Range(b.flat) \cup came
    BY <1>2, Zenon DEF FlatIn
  <2>2. /\ Len(b.flat) < Len(b.items) => more # {}
        /\ Range(b.items) \subseteq Range(b.flat) \cup more
    BY <2>1
  <2>3. QED
    BY <1>2, <2>2, Zenon DEF FlatIn
<1>3. QED
  BY <1>1, <1>2

LEMMA FlatStep ==
    ASSUME IndInv, NEW g \in Getters, Acts(g)
    PROVE  Flat'
<1>0. Types /\ Hands /\ Asking /\ Promises /\ Apart /\ Flat /\ Best
  BY DEF IndInv
<1>1. late \subseteq late' /\ consumer' = consumer
  BY LateGrows, FlowIs DEF Flow
<1>2. \A j \in DOMAIN blocks : FlatIn(blocks[j], late')
  <2>1. ASSUME NEW j \in DOMAIN blocks PROVE FlatIn(blocks[j], late')
    <3>1. FlatIn(blocks[j], late)
      BY <1>0 DEF Flat, FlatOf
    <3>2. QED
      BY <1>1, <3>1, FlatMore
  <2>2. QED
    BY <2>1
<1> DEFINE Goal == \A j \in DOMAIN blocks' : FlatIn(blocks'[j], late')
<1>3. ASSUME Quiet(g) PROVE Goal
  <2>1. blocks' = blocks
    BY <1>0, <1>3, QuietIs
  <2>2. QED
    BY <1>2, <2>1, Zenon
<1>4. ASSUME Begin(g) PROVE Goal
  <2>1. SUFFICES ASSUME NEW j \in DOMAIN blocks' PROVE FlatIn(blocks'[j], late')
    OBVIOUS
  <2>2. PICK n : n = Len(blocks) + 1
    OBVIOUS
  <2>3. /\ DOMAIN blocks = 1 .. n - 1
        /\ blocks'[n].flat = <<>> /\ blocks'[n].finalized = 0
        /\ \A l \in 1 .. n - 1 :
            /\ blocks'[l].items = blocks[l].items
            /\ blocks'[l].flat = blocks[l].flat /\ blocks'[l].finalized = blocks[l].finalized
    BY <1>0, <1>4, <2>2, BeginIs
  <2>4. j \in DOMAIN blocks \/ j = n
    BY <1>4, <2>1, <2>2, BeginLeft
  <2>5. CASE j = n
    BY <2>3, <2>5 DEF FlatIn
  <2>6. CASE j \in DOMAIN blocks
    <3>1. /\ blocks'[j].items = blocks[j].items
          /\ blocks'[j].flat = blocks[j].flat /\ blocks'[j].finalized = blocks[j].finalized
      BY <2>3, <2>6
    <3>2. FlatIn(blocks[j], late')
      BY <1>2, <2>6
    <3>3. QED
      BY <3>1, <3>2, FlatMore
  <2>7. QED
    BY <2>4, <2>5, <2>6
<1>5. ASSUME NEW k, Join(g, k) PROVE Goal
  <2>1. PICK t : t = taken[g]
    OBVIOUS
  <2>2. /\ k \in DOMAIN blocks /\ DOMAIN blocks' = DOMAIN blocks
        /\ \A j \in DOMAIN blocks : j # k => blocks'[j] = blocks[j]
        /\ blocks'[k].items = Append(blocks[k].items, t)
        /\ blocks'[k].flat = blocks[k].flat /\ blocks'[k].finalized = blocks[k].finalized
        /\ late' = IF blocks[k].flat = <<>> THEN late ELSE late \cup {t}
    BY <1>0, <1>5, <2>1, JoinIs
  <2>3. t \in Traces
    BY <1>5, <2>1, SettledNow DEF Join
  <2>4. FlatIn(blocks'[k], late')
    <3>1. FlatIn(blocks[k], late')
      BY <1>2, <2>2
    <3>2. CASE blocks[k].flat = <<>>
      BY <2>2, <3>1, <3>2, Zenon DEF FlatIn
    <3>3. CASE blocks[k].flat # <<>>
      <4> DEFINE q == blocks[k].items
                 f == blocks[k].flat
      <4>1. q \in Seq(Traces) /\ Len(q) \in Nat /\ Len(f) \in Nat /\ blocks[k].finalized \in Nat
        BY <1>0, <2>2, BlockIs, LenProperties
      <4>2. Len(Append(q, t)) = Len(q) + 1
        BY <2>3, <4>1
      <4>3. Range(Append(q, t)) = Range(q) \cup {t}
        <5>1. /\ DOMAIN Append(q, t) = DOMAIN q \cup {Len(q) + 1} /\ Len(q) + 1 \notin DOMAIN q
              /\ Append(q, t)[Len(q) + 1] = t
              /\ \A m \in DOMAIN q : Append(q, t)[m] = q[m]
          BY <2>3, <4>1, LenProperties, SMTT(20)
        <5>2. QED
          BY <5>1 DEF Range
      <4>4. /\ consumer.op = "sort"
            /\ Len(f) <= Len(q) /\ blocks[k].finalized < Len(q)
            /\ \A m, n \in DOMAIN f : f[m] = f[n] => m = n
            /\ Range(f) \subseteq Range(q)
            /\ Range(q) \subseteq Range(f) \cup late'
            /\ \A m, n \in DOMAIN f : m < n => ~Better(Trace(f[n]).value, Trace(f[m]).value)
        BY <3>1, <3>3, Zenon DEF FlatIn
      <4>5. t \in late'
        BY <2>2, <3>3
      <4> HIDE DEF q, f
      <4>6. Len(f) <= Len(q) + 1 /\ blocks[k].finalized < Len(q) + 1
        BY <4>1, <4>4
      <4>7. Range(f) \subseteq Range(q) \cup {t} /\ Range(q) \cup {t} \subseteq Range(f) \cup late'
        BY <4>4, <4>5
      <4>8. blocks'[k].flat = f /\ blocks'[k].items = Append(q, t) /\ f # <<>>
        BY <2>2, <3>3 DEF q, f
      <4>9. late' # {}
        BY <4>5
      <4>10. QED
        BY <2>2, <4>2, <4>3, <4>4, <4>6, <4>7, <4>8, <4>9, Zenon DEF FlatIn
    <3>4. QED
      BY <3>2, <3>3
  <2>5. QED
    BY <1>2, <2>2, <2>4, Zenon
<1>6. ASSUME NEW k, Keep(g, k) \/ Refuse(g, k) PROVE Goal
  <2>1. /\ DOMAIN blocks' = DOMAIN blocks
        /\ \A j \in DOMAIN blocks : j # k => blocks'[j] = blocks[j]
        /\ FlatOf(blocks'[k])
    BY <1>0, <1>6, KeepIs, RefuseIs
  <2>2. FlatIn(blocks'[k], late')
    BY <1>1, <2>1, FlatMore DEF FlatOf
  <2>3. QED
    BY <1>2, <2>1, <2>2, Zenon
<1>7. ASSUME NEW k, Drop(g, k) PROVE Goal
  <2>1. SUFFICES ASSUME NEW j \in DOMAIN blocks' PROVE FlatIn(blocks'[j], late')
    OBVIOUS
  <2>2. PICK l \in DOMAIN blocks : blocks'[j] = blocks[l]
    BY <1>0, <1>7, <2>1, DropIs
  <2>3. QED
    BY <1>2, <2>2, Zenon
<1>8. ASSUME NEW k, Leave(g, k) PROVE Goal
  <2>1. /\ DOMAIN blocks' = DOMAIN blocks
        /\ \A j \in DOMAIN blocks : j # k => blocks'[j] = blocks[j]
        /\ blocks'[k].flat = <<>> /\ blocks'[k].finalized = 0
    BY <1>0, <1>8, LeaveIs
  <2>2. FlatIn(blocks'[k], late')
    BY <2>1, Zenon DEF FlatIn
  <2>3. QED
    BY <1>2, <2>1, <2>2, Zenon
<1>a. Goal
  BY <1>3, <1>4, <1>5, <1>6, <1>7, <1>8, Zenon DEF Acts, Gives
<1>9. QED
  BY <1>1, <1>a, Zenon DEF Flat, FlatOf, FlatIn, Better

\* No value is better than the best of those before, when that is kept.
LEMMA BetterIs ==
    ASSUME Types, consumer.op = "select"
    PROVE  /\ \A v \in Int : ~Better(v, v)
           /\ \A u, v, w \in Int : ~Better(u, v) /\ Better(w, v) => ~Better(u, w)
<1>1. \A v, w \in Int : Better(v, w) <=> v > w
  BY ConsumerIs DEF Better
<1>2. QED
  BY <1>1

LEMMA BestStep ==
    ASSUME IndInv, NEW g \in Getters, Acts(g)
    PROVE  Best'
<1>0. Types /\ Hands /\ Asking /\ Promises /\ Apart /\ Flat /\ Best
  BY DEF IndInv
<1>1. late \subseteq late' /\ consumer' = consumer
  BY LateGrows, FlowIs DEF Flow
<1>2. \A i \in Handed : i \in Handed' /\ result'[i] = result[i] /\ From(i)' = From(i)
  BY FlowIs, Zenon DEF Flow
<1> DEFINE Top(b) == ~Freed(b) =>
                     /\ b.best \in Traces
                     /\ \A t \in Range(b.items) : ~Better(Trace(t).value, Trace(b.best).value)
           Goal == \A j \in DOMAIN blocks' : Top(blocks'[j])
<1>3. ASSUME consumer.op = "select", NEW j \in DOMAIN blocks PROVE Top(blocks[j])
  BY <1>0, <1>3, Zenon DEF Best
<1>4. \A b, c : Top(b) /\ c.best = b.best /\ c.items = b.items => Top(c)
  BY Zenon DEF Freed
<1>5. ASSUME Quiet(g), consumer.op = "select" PROVE Goal
  <2>1. blocks' = blocks
    BY <1>0, <1>5, QuietIs
  <2> HIDE DEF Top
  <2>2. QED
    BY <1>3, <1>5, <2>1
<1>6. ASSUME Begin(g), consumer.op = "select" PROVE Goal
  <2>1. SUFFICES ASSUME NEW j \in DOMAIN blocks' PROVE Top(blocks'[j])
    OBVIOUS
  <2>2. PICK n, t : n = Len(blocks) + 1 /\ t = taken[g]
    OBVIOUS
  <2>3. /\ DOMAIN blocks = 1 .. n - 1
        /\ blocks'[n].items = <<t>> /\ blocks'[n].best = t
        /\ \A l \in 1 .. n - 1 : blocks'[l].items = blocks[l].items /\ blocks'[l].best = blocks[l].best
    BY <1>0, <1>6, <2>2, BeginIs
  <2>4. j \in DOMAIN blocks \/ j = n
    BY <1>6, <2>1, <2>2, BeginLeft
  <2>5. CASE j = n
    <3>1. t \in Traces /\ Trace(t).value \in Int
      BY <1>6, <2>2, SettledNow, SourceIs DEF Begin
    <3>2. Range(<<t>>) = {t}
      BY DEF Range
    <3>3. ~Better(Trace(t).value, Trace(t).value)
      BY <1>0, <1>6, <3>1, BetterIs
    <3>4. QED
      BY <2>3, <2>5, <3>1, <3>2, <3>3
  <2>6. CASE j \in DOMAIN blocks
    <3>1. Top(blocks[j]) /\ blocks'[j].items = blocks[j].items /\ blocks'[j].best = blocks[j].best
      BY <1>3, <1>6, <2>3, <2>6
    <3> HIDE DEF Top
    <3>2. QED
      BY <1>4, <3>1
  <2>7. QED
    BY <2>4, <2>5, <2>6
<1>7. ASSUME NEW k, Join(g, k), consumer.op = "select" PROVE Goal
  <2>1. PICK t : t = taken[g]
    OBVIOUS
  <2>2. /\ k \in DOMAIN blocks /\ ~Freed(blocks[k]) /\ DOMAIN blocks' = DOMAIN blocks
        /\ \A j \in DOMAIN blocks : j # k => blocks'[j] = blocks[j]
        /\ blocks'[k].items = Append(blocks[k].items, t)
        /\ blocks'[k].best =
                IF Better(Trace(t).value, IF blocks[k].best = NULL THEN Lowest ELSE Trace(blocks[k].best).value)
                THEN t ELSE blocks[k].best
    BY <1>0, <1>7, <2>1, JoinIs
  <2>3. t \in Traces
    BY <1>7, <2>1, SettledNow DEF Join
  <2>4. Top(blocks'[k])
    <3> DEFINE q == blocks[k].items
               o == blocks[k].best
               b == IF Better(Trace(t).value, Trace(o).value) THEN t ELSE o
    <3>1. o \in Traces /\ \A x \in Range(q) : ~Better(Trace(x).value, Trace(o).value)
      BY <1>3, <1>7, <2>2
    <3>2. o # NULL
      BY <3>1, SourceIs
    <3>3. blocks'[k].best = b
      BY <2>2, <3>2
    <3>4. Range(Append(q, t)) = Range(q) \cup {t} /\ Range(q) \subseteq Traces
      <4>1. q \in Seq(Traces) /\ Range(q) \subseteq Traces
        BY <1>0, <2>2, BlockIs
      <4>2. /\ DOMAIN Append(q, t) = DOMAIN q \cup {Len(q) + 1} /\ Len(q) + 1 \notin DOMAIN q
            /\ Append(q, t)[Len(q) + 1] = t
            /\ \A m \in DOMAIN q : Append(q, t)[m] = q[m]
        BY <2>3, <4>1, LenProperties
      <4>3. QED
        BY <4>1, <4>2 DEF Range
    <3>5. \A x \in Traces : Trace(x).value \in Int
      BY SourceIs
    <3>6. /\ \A v \in Int : ~Better(v, v)
          /\ \A u, v, w \in Int : ~Better(u, v) /\ Better(w, v) => ~Better(u, w)
      BY <1>0, <1>7, BetterIs
    <3> HIDE DEF q, o
    <3>7. b \in Traces /\ \A x \in Range(q) \cup {t} : ~Better(Trace(x).value, Trace(b).value)
      <4>1. CASE Better(Trace(t).value, Trace(o).value)
        BY <2>3, <3>1, <3>4, <3>5, <3>6, <4>1
      <4>2. CASE ~Better(Trace(t).value, Trace(o).value)
        BY <2>3, <3>1, <4>2
      <4>3. QED
        BY <4>1, <4>2
    <3> HIDE DEF b
    <3>8. blocks'[k].items = Append(q, t)
      BY <2>2 DEF q
    <3>9. QED
      BY <3>3, <3>4, <3>7, <3>8
  <2> HIDE DEF Top
  <2>5. QED
    BY <1>3, <1>7, <2>2, <2>4, Zenon
<1>8. ASSUME NEW k, Keep(g, k) \/ Refuse(g, k), consumer.op = "select" PROVE Goal
  <2>1. k \in DOMAIN blocks
    BY <1>0, <1>8, KeepIs, RefuseIs
  <2>2. /\ DOMAIN blocks' = DOMAIN blocks
        /\ \A j \in DOMAIN blocks : j # k => blocks'[j] = blocks[j]
        /\ blocks'[k].items = blocks[k].items /\ blocks'[k].best = blocks[k].best
    BY <1>0, <1>8, KeepIs, RefuseIs
  <2> HIDE DEF Top
  <2>3. Top(blocks'[k])
    BY <1>3, <1>4, <1>8, <2>1, <2>2
  <2>4. QED
    BY <1>3, <1>8, <2>2, <2>3, Zenon
<1>9. ASSUME NEW k, Drop(g, k), consumer.op = "select" PROVE Goal
  <2>1. SUFFICES ASSUME NEW j \in DOMAIN blocks' PROVE Top(blocks'[j])
    OBVIOUS
  <2>2. PICK l \in DOMAIN blocks : blocks'[j] = blocks[l]
    BY <1>0, <1>9, <2>1, DropIs
  <2> HIDE DEF Top
  <2>3. QED
    BY <1>3, <1>9, <2>2, Zenon
<1>a. ASSUME NEW k, Leave(g, k), consumer.op = "select" PROVE Goal
  <2>1. /\ DOMAIN blocks' = DOMAIN blocks /\ Freed(blocks'[k])
        /\ \A j \in DOMAIN blocks : j # k => blocks'[j] = blocks[j]
    BY <1>0, <1>a, LeaveIs
  <2>2. Top(blocks'[k])
    BY <2>1
  <2> HIDE DEF Top
  <2>3. QED
    BY <1>3, <1>a, <2>1, <2>2, Zenon
<1>10. consumer.op = "select" => Goal
  <2> HIDE DEF Goal
  <2>1. QED
    BY <1>5, <1>6, <1>7, <1>8, <1>9, <1>a, Zenon DEF Acts, Gives
<1>11. ASSUME NEW i \in Handed'
       PROVE  /\ result'[i].kind = "wild" => late' # {}
              /\ result'[i].kind = "best" =>
                    \A t \in From(i)' : ~Better(Trace(t).value, Trace(result'[i].trace).value)
  <2>1. CASE i \in Handed
    <3>1. result'[i] = result[i] /\ From(i)' = From(i)
      BY <1>2, <2>1
    <3>2. /\ result[i].kind = "wild" => late # {}
          /\ result[i].kind = "best" =>
                \A t \in From(i) : ~Better(Trace(t).value, Trace(result[i].trace).value)
      BY <1>0, <2>1, Zenon DEF Best
    <3>3. late # {} => late' # {}
      BY <1>1
    <3>4. QED
      BY <3>1, <3>2, <3>3, Zenon
  <2>2. CASE i \notin Handed
    <3>1. PICK k \in DOMAIN blocks :
              /\ ~Freed(blocks[k]) /\ Finalized(blocks[k]).out # Failed
              /\ result'[i].kind # "untitled" => result'[i] = Finalized(blocks[k]).out
              /\ From(i)' = Range(Finalized(blocks[k]).out.from)
      BY <2>2, AnswerIs
    <3>2. /\ Finalized(blocks[k]).out.kind = "wild" => late # {}
          /\ Finalized(blocks[k]).out.kind = "best" =>
                \A t \in Range(Finalized(blocks[k]).out.from) :
                    ~Better(Trace(t).value, Trace(Finalized(blocks[k]).out.trace).value)
      BY <1>0, <3>1, GivesIs
    <3>3. late # {} => late' # {}
      BY <1>1
    <3>4. result'[i].kind \in {"wild", "best"} => result'[i] = Finalized(blocks[k]).out
      BY <3>1
    <3>5. QED
      BY <3>1, <3>2, <3>3, <3>4
  <2>3. QED
    BY <2>1, <2>2
<1>12. QED
  BY <1>1, <1>10, <1>11, Zenon DEF Best, Better, Freed

\* Each block has a first trace of its own.
LEMMA SrcIs ==
    ASSUME Types, Apart, NEW j \in DOMAIN blocks, NEW k \in DOMAIN blocks, j # k,
           ~Freed(blocks[j]), ~Freed(blocks[k])
    PROVE  blocks[j].src # blocks[k].src
<1>1. \A l \in {j, k} : 1 \in DOMAIN blocks[l].items /\ blocks[l].src = blocks[l].items[1]
  <2>1. ASSUME NEW l \in {j, k} PROVE 1 \in DOMAIN blocks[l].items /\ blocks[l].src = blocks[l].items[1]
    <3>1. blocks[l].items # <<>> /\ blocks[l].src = blocks[l].items[1]
      BY DEF Apart, Freed
    <3>2. blocks[l].items \in Seq(Traces) /\ DOMAIN blocks[l].items = 1 .. Len(blocks[l].items)
      BY BlockIs
    <3>3. QED
      BY <3>1, <3>2, EmptySeq
  <2>2. QED
    BY <2>1
<1>2. QED
  BY <1>1 DEF Apart

LEMMA OrderStep ==
    ASSUME IndInv, NEW g \in Getters, Acts(g)
    PROVE  Order'
<1>0. Types /\ Hands /\ Asking /\ Promises /\ Apart /\ Flat /\ Best /\ Order
  BY DEF IndInv
<1>1. consumer' = consumer
  BY FlowIs DEF Flow
<1>2. \A i \in Handed : i \in Handed' /\ result'[i] = result[i]
  BY FlowIs, Zenon DEF Flow
<1>3. \A k \in DOMAIN blocks, i \in Handed : Precedes(result[i], i, blocks[k])
  BY <1>0 DEF Order
<1> DEFINE Goal == \A j \in DOMAIN blocks', i \in Handed : Precedes(result[i], i, blocks'[j])
<1>4. ASSUME Quiet(g) PROVE Goal
  <2>1. blocks' = blocks
    BY <1>0, <1>4, QuietIs
  <2>2. QED
    BY <1>3, <2>1
<1>5. ASSUME Begin(g) PROVE Goal
  <2>1. SUFFICES ASSUME NEW j \in DOMAIN blocks', NEW i \in Handed PROVE Precedes(result[i], i, blocks'[j])
    OBVIOUS
  <2>2. PICK n : n = Len(blocks) + 1
    OBVIOUS
  <2>3. /\ DOMAIN blocks = 1 .. n - 1 /\ blocks'[n].src = taken[g]
        /\ \A l \in 1 .. n - 1 :
            /\ blocks'[l].items = blocks[l].items /\ blocks'[l].src = blocks[l].src
            /\ blocks'[l].flat = blocks[l].flat /\ blocks'[l].finalized = blocks[l].finalized
        /\ \E m \in 0 .. n :
            /\ \A l \in 1 .. n - 1 : l # m => blocks'[l].done = blocks[l].done /\ blocks'[l].res = blocks[l].res
            /\ m \in 1 .. n - 1 => ~blocks[m].done
    BY <1>0, <1>5, <2>2, BeginIs
  <2>4. j \in DOMAIN blocks \/ j = n
    BY <1>5, <2>1, <2>2, BeginLeft
  <2>5. CASE j = n
    <3>1. result[i].src # taken[g]
      BY <1>0, <2>1 DEF Hands
    <3>2. QED
      BY <2>3, <2>5, <3>1 DEF Precedes
  <2>6. CASE j \in DOMAIN blocks
    <3>1. PICK m \in 0 .. n :
            /\ \A l \in 1 .. n - 1 : l # m => blocks'[l].done = blocks[l].done /\ blocks'[l].res = blocks[l].res
            /\ m \in 1 .. n - 1 => ~blocks[m].done
      BY <2>3, Zenon
    <3>2. Precedes(result[i], i, blocks[j])
      BY <1>3, <2>1, <2>6
    <3>3. /\ blocks'[j].items = blocks[j].items /\ blocks'[j].src = blocks[j].src
          /\ blocks'[j].flat = blocks[j].flat /\ blocks'[j].finalized = blocks[j].finalized
      BY <2>3, <2>6
    <3>4. CASE j = m
      <4>1. ~blocks[j].done
        BY <2>3, <2>6, <3>1, <3>4, Zenon
      <4>2. QED
        BY <3>2, <3>3, <4>1, Zenon DEF Precedes, Freed
    <3>5. CASE j # m
      <4>1. blocks'[j].done = blocks[j].done /\ blocks'[j].res = blocks[j].res
        BY <2>3, <2>6, <3>1, <3>5, Zenon
      <4>2. QED
        BY <3>2, <3>3, <4>1, Zenon DEF Precedes, Freed
    <3>6. QED
      BY <3>4, <3>5
  <2>7. QED
    BY <2>4, <2>5, <2>6
<1>6. ASSUME NEW k, Join(g, k) PROVE Goal
  <2>1. /\ k \in DOMAIN blocks /\ DOMAIN blocks' = DOMAIN blocks
        /\ \A j \in DOMAIN blocks : j # k => blocks'[j] = blocks[j]
        /\ blocks'[k].flat = blocks[k].flat /\ blocks'[k].finalized = blocks[k].finalized
        /\ blocks'[k].src = blocks[k].src /\ ~Freed(blocks[k])
        /\ blocks'[k].res = blocks[k].res /\ blocks'[k].done = blocks[k].done
    BY <1>0, <1>6, JoinIs
  <2>2. ASSUME NEW i \in Handed PROVE Precedes(result[i], i, blocks'[k])
    <3>1. Precedes(result[i], i, blocks[k])
      BY <1>3, <2>1
    <3>2. QED
      BY <2>1, <3>1 DEF Precedes
  <2>3. QED
    BY <1>3, <2>1, <2>2, Zenon
<1>7. ASSUME NEW k, NEW i \in Handed,
             k \in DOMAIN blocks, ~Freed(blocks[k]), blocks'[k].src = blocks[k].src, blocks'[k].done = blocks[k].done,
             blocks'[k].res \in {blocks[k].res, doneIndex},
             blocks[k].flat # <<>> => blocks'[k].flat = blocks[k].flat,
             blocks[k].finalized <= blocks'[k].finalized, blocks'[k].finalized \in Nat
      PROVE  Precedes(result[i], i, blocks'[k])
  <2>1. SUFFICES ASSUME result[i].src = blocks'[k].src
                 PROVE  /\ i < blocks'[k].res /\ blocks'[k].done
                        /\ result[i].kind = "entry" =>
                            \E m \in DOMAIN blocks'[k].flat :
                                m <= blocks'[k].finalized /\ result[i].from = <<blocks'[k].flat[m]>>
    BY Zenon DEF Precedes
  <2>2. /\ i < blocks[k].res /\ blocks[k].done
        /\ result[i].kind = "entry" =>
                \E m \in DOMAIN blocks[k].flat :
                    m <= blocks[k].finalized /\ result[i].from = <<blocks[k].flat[m]>>
    BY <1>3, <1>7, <2>1 DEF Precedes
  <2>3. i < doneIndex
    BY <1>0, <1>7 DEF Asking
  <2>4. i < blocks'[k].res
    BY <1>7, <2>2, <2>3
  <2>5. blocks'[k].done
    BY <1>7, <2>2, Zenon
  <2>6. ASSUME result[i].kind = "entry"
        PROVE  \E m \in DOMAIN blocks'[k].flat :
                    m <= blocks'[k].finalized /\ result[i].from = <<blocks'[k].flat[m]>>
    <3>1. PICK m \in DOMAIN blocks[k].flat : m <= blocks[k].finalized /\ result[i].from = <<blocks[k].flat[m]>>
      BY <2>2, <2>6
    <3>2. blocks[k].flat # <<>>
      BY <3>1
    <3>3. blocks'[k].flat = blocks[k].flat
      BY <1>7, <3>2
    <3>4. m \in Nat /\ blocks[k].finalized \in Nat
      BY <1>0, <1>7, BlockIs, LenProperties
    <3>5. m <= blocks'[k].finalized
      BY <1>7, <3>1, <3>4
    <3>6. QED
      BY <3>1, <3>3, <3>5
  <2>7. QED
    BY <2>4, <2>5, <2>6
<1>8. ASSUME NEW k, Keep(g, k) \/ Refuse(g, k) PROVE Goal
  <2>1. k \in DOMAIN blocks /\ ~Freed(blocks[k])
    BY <1>0, <1>8, KeepIs, RefuseIs
  <2>2. /\ DOMAIN blocks' = DOMAIN blocks
        /\ \A j \in DOMAIN blocks : j # k => blocks'[j] = blocks[j]
        /\ blocks'[k].src = blocks[k].src /\ blocks'[k].done = blocks[k].done
        /\ blocks'[k].res \in {blocks[k].res, doneIndex}
        /\ blocks' \in Seq(Block)
    BY <1>0, <1>8, KeepIs, RefuseIs
  <2>3. /\ blocks[k].flat # <<>> => blocks'[k].flat = blocks[k].flat
        /\ blocks[k].finalized <= blocks'[k].finalized
    <3>1. CASE Keep(g, k)
      BY <1>0, <2>1, <3>1, KeepIs, GivesIs
    <3>2. CASE Refuse(g, k)
      BY <1>0, <3>2, RefuseIs
    <3>3. QED
      BY <1>8, <3>1, <3>2
  <2>4. blocks'[k].finalized \in Nat
    <3>1. blocks'[k] \in Block
      BY <2>1, <2>2, LenProperties, ElementOfSeq
    <3>2. QED
      BY <3>1 DEF Block
  <2>5. \A i \in Handed : Precedes(result[i], i, blocks'[k])
    BY <1>7, <2>1, <2>2, <2>3, <2>4
  <2>6. QED
    BY <1>3, <2>2, <2>5, Zenon
<1>9. ASSUME NEW k, Drop(g, k) PROVE Goal
  <2>1. SUFFICES ASSUME NEW j \in DOMAIN blocks', NEW i \in Handed PROVE Precedes(result[i], i, blocks'[j])
    OBVIOUS
  <2>2. PICK l \in DOMAIN blocks : blocks'[j] = blocks[l]
    BY <1>0, <1>9, <2>1, DropIs
  <2>3. QED
    BY <1>3, <2>1, <2>2, Zenon
<1>c. ASSUME NEW k, Leave(g, k) PROVE Goal
  <2>1. /\ DOMAIN blocks' = DOMAIN blocks
        /\ \A j \in DOMAIN blocks : j # k => blocks'[j] = blocks[j]
        /\ Freed(blocks'[k])
    BY <1>0, <1>c, LeaveIs
  <2>2. \A i \in Handed : Precedes(result[i], i, blocks'[k])
    BY <2>1 DEF Precedes
  <2>3. QED
    BY <1>3, <2>1, <2>2, Zenon
<1>10. Goal
  <2> HIDE DEF Goal
  <2>1. QED
    BY <1>4, <1>5, <1>6, <1>8, <1>9, <1>c, Zenon DEF Acts, Gives
<1>11. ASSUME NEW i \in Handed' \ Handed, NEW j \in DOMAIN blocks'
       PROVE  Precedes(result'[i], i, blocks'[j])
  <2>1. PICK k \in DOMAIN blocks :
            /\ Gives(g, k)
            /\ Finalized(blocks[k]).out # Failed /\ ~Freed(blocks[k])
            /\ result'[i].kind # "untitled" => result'[i] = Finalized(blocks[k]).out
            /\ i < doneIndex /\ blocks[k].done
            /\ result'[i].src = blocks[k].src
    BY AnswerIs
  <2>2. \A l \in DOMAIN blocks : l # k /\ ~Freed(blocks[l]) => blocks[l].src # result'[i].src
    BY <1>0, <2>1, SrcIs
  <2>3. CASE Keep(g, k)
    <3>1. /\ DOMAIN blocks' = DOMAIN blocks
          /\ \A l \in DOMAIN blocks : l # k => blocks'[l] = blocks[l]
          /\ blocks'[k].done = blocks[k].done /\ blocks'[k].res = doneIndex
          /\ blocks'[k].flat = Finalized(blocks[k]).block.flat
          /\ blocks'[k].finalized = Finalized(blocks[k]).block.finalized
      BY <1>0, <2>3, KeepIs
    <3>2. CASE j = k
      <4>1. result'[i].kind = "entry" =>
                /\ blocks'[k].finalized \in DOMAIN blocks'[k].flat /\ blocks'[k].finalized \in Nat
                /\ result'[i].from = <<blocks'[k].flat[blocks'[k].finalized]>>
        BY <1>0, <2>1, <3>1, GivesIs
      <4>2. result'[i].kind = "entry" =>
                \E m \in DOMAIN blocks'[k].flat :
                    m <= blocks'[k].finalized /\ result'[i].from = <<blocks'[k].flat[m]>>
        BY <4>1
      <4>3. i < blocks'[k].res /\ blocks'[k].done
        BY <2>1, <3>1, Zenon
      <4>4. QED
        BY <3>2, <4>2, <4>3, Zenon DEF Precedes
    <3>3. CASE j # k
      BY <2>2, <3>1, <3>3, Zenon DEF Precedes
    <3>4. QED
      BY <3>2, <3>3
  <2>4. CASE Drop(g, k)
    <3>1. PICK l \in DOMAIN blocks : blocks'[j] = blocks[l] /\ l # k
      BY <1>0, <2>4, DropIs
    <3>2. QED
      BY <2>2, <3>1, Zenon DEF Precedes
  <2>c. CASE Leave(g, k)
    <3>1. /\ DOMAIN blocks' = DOMAIN blocks
          /\ \A l \in DOMAIN blocks : l # k => blocks'[l] = blocks[l]
          /\ Freed(blocks'[k])
      BY <1>0, <2>c, LeaveIs DEF Freed
    <3>2. QED
      BY <2>2, <3>1, Zenon DEF Precedes
  <2>5. QED
    BY <2>1, <2>3, <2>4, <2>c, Zenon DEF Gives
<1>12. ASSUME NEW i \in Handed', NEW j \in Handed', i < j, result'[i].kind = "entry", result'[j].kind = "entry",
              result'[i].src = result'[j].src
       PROVE  ~Better(Trace(result'[j].from[1]).value, Trace(result'[i].from[1]).value)
  <2>0. i \in Int /\ j \in Int
    BY <1>12, FlowIs DEF Handed, Answered, Untitled, Indices, Flow
  <2>1. CASE i \in Handed /\ j \in Handed
    BY <1>0, <1>2, <1>12, <2>1 DEF Order
  <2>2. ASSUME NEW n \in Handed' \ Handed, NEW m \in Handed, result'[n].src = result'[m].src,
               result'[n].kind = "entry", result'[m].kind = "entry", n \in Int
        PROVE  /\ m < n
               /\ ~Better(Trace(result'[n].from[1]).value, Trace(result'[m].from[1]).value)
    <3>1. PICK k \in DOMAIN blocks :
              /\ Finalized(blocks[k]).out # Failed /\ ~Freed(blocks[k])
              /\ result'[n] = Finalized(blocks[k]).out
              /\ blocks[k].res = n
              /\ result'[n].src = blocks[k].src
      BY <2>2, AnswerIs
    <3>2. result'[m] = result[m] /\ result[m].src = blocks[k].src /\ result[m].kind = "entry"
      BY <1>2, <2>2, <3>1
    <3>3. Precedes(result[m], m, blocks[k])
      BY <1>3, <2>2
    <3>4. m < n /\ \E p \in DOMAIN blocks[k].flat :
              p <= blocks[k].finalized /\ result[m].from = <<blocks[k].flat[p]>>
      BY <3>1, <3>2, <3>3 DEF Precedes
    <3>5. PICK p \in DOMAIN blocks[k].flat : p <= blocks[k].finalized /\ result[m].from = <<blocks[k].flat[p]>>
      BY <3>4
    <3> DEFINE new == Finalized(blocks[k]).block.flat[Finalized(blocks[k]).block.finalized]
               old == blocks[k].flat[p]
    <3>6. /\ result'[n].from = <<new>>
          /\ ~Better(Trace(new).value, Trace(old).value)
      BY <1>0, <2>2, <3>1, <3>5, GivesIs
    <3> HIDE DEF new, old
    <3>7. result'[n].from[1] = new /\ result'[m].from[1] = old
      BY <3>2, <3>5, <3>6 DEF old
    <3>8. QED
      BY <3>4, <3>6, <3>7
  <2>3. CASE i \in Handed /\ j \notin Handed
    BY <1>12, <2>0, <2>2, <2>3
  <2>4. CASE i \notin Handed /\ j \in Handed
    BY <1>12, <2>0, <2>2, <2>4
  <2>5. CASE i \notin Handed /\ j \notin Handed
    <3>1. i = idx[g] /\ j = idx[g]
      BY <1>12, <2>5, AnswerIs
    <3>2. QED
      BY <1>12, <2>0, <3>1
  <2>6. QED
    BY <2>1, <2>3, <2>4, <2>5
<1>13. \A j \in DOMAIN blocks', i \in Handed' : Precedes(result'[i], i, blocks'[j])
  BY <1>2, <1>10, <1>11, Zenon
<1>14. /\ \A j \in DOMAIN blocks', i \in Handed' : Precedes(result'[i], i, blocks'[j])
       /\ \A i, j \in Handed' :
            i < j /\ result'[i].kind = "entry" /\ result'[j].kind = "entry" /\ result'[i].src = result'[j].src =>
                ~Better(Trace(result'[j].from[1]).value, Trace(result'[i].from[1]).value)
  BY <1>12, <1>13
<1>15. QED
  BY <1>1, <1>14, Zenon DEF Order, Precedes, Better

-----------------------------------------------------------------------------
(* What is promised *)

LEMMA GiverIs ==
    ASSUME IndInv, NEW g \in Getters, NEW k, Gives(g, k)
    PROVE  /\ k \in DOMAIN blocks /\ blocks[k].done /\ ~Freed(blocks[k])
           /\ blocks[k].res \notin Handed /\ Handed' = Handed \cup {blocks[k].res}
<1>0. Types /\ Asking /\ Apart /\ Flat /\ Best
  BY DEF IndInv
<1>1. /\ k \in DOMAIN blocks /\ ~Freed(blocks[k]) /\ blocks[k].res = idx[g] /\ blocks[k].done
      /\ Finalized(blocks[k]).out # Failed
      /\ \E w \in Outcomes(Finalized(blocks[k]).out) : Returns(g, w)
  BY GiverAt
<1>2. Finalized(blocks[k]).out.kind \in {"best", "entry", "wild", "empty", "pattern"}
  BY <1>0, <1>1, GivesIs
<1>3. PICK w \in Outcomes(Finalized(blocks[k]).out) : Returns(g, w)
  BY <1>1
<1>4. w.kind \in {"best", "entry", "wild", "empty", "pattern", "untitled"}
  BY <1>2, OutcomeIs
<1>5. idx[g] \notin Handed /\ Handed' = Handed \cup {idx[g]}
  BY <1>0, <1>3, <1>4, AnsweredMore
<1>6. QED
  BY <1>1, <1>5

\* A freed block has given all that it had, another waits under an index that is open.
LEMMA OpenStep ==
    ASSUME IndInv, NEW g \in Getters, Acts(g), NEW j \in DOMAIN blocks'
    PROVE  IF Freed(blocks'[j]) THEN blocks'[j].done /\ blocks'[j].res \in Handed'
           ELSE blocks'[j].done => blocks'[j].res \notin Handed'
<1> DEFINE Goal == IF Freed(blocks'[j]) THEN blocks'[j].done /\ blocks'[j].res \in Handed'
                   ELSE blocks'[j].done => blocks'[j].res \notin Handed'
<1>0. Types /\ Hands /\ Asking /\ Promises /\ Apart /\ Flat /\ Best
  BY DEF IndInv
<1>1. /\ \A k \in DOMAIN blocks : IF Freed(blocks[k]) THEN blocks[k].done /\ blocks[k].res \in Handed
                                  ELSE blocks[k].done => blocks[k].res \notin Handed
      /\ \A k, l \in DOMAIN blocks :
            blocks[k].done /\ blocks[l].done /\ blocks[k].res = blocks[l].res => k = l
      /\ \A k \in DOMAIN blocks : blocks[k].done => blocks[k].res < doneIndex
  BY <1>0, Zenon DEF Promises
<1>2. doneIndex \notin Handed /\ \A k \in DOMAIN blocks : blocks[k].done => blocks[k].res # doneIndex
  BY <1>0, <1>1 DEF Asking, Types
<1>3. ASSUME Handed' = Handed, NEW k \in DOMAIN blocks, Freed(blocks'[j]) <=> Freed(blocks[k]),
             blocks'[j].done = blocks[k].done, blocks'[j].res = blocks[k].res
      PROVE  Goal
  BY <1>1, <1>3, Zenon
<1>4. UNCHANGED result \/ Returns(g, Failed) \/ Returns(g, EndOfSource) => Handed' = Handed
  BY <1>0, AnsweredSame
<1>5. ASSUME Quiet(g) PROVE Goal
  <2>1. blocks' = blocks
    BY <1>0, <1>5, QuietIs
  <2>2. Ask(g) \/ UNCHANGED result \/ Returns(g, Failed) \/ Returns(g, EndOfSource)
    BY <1>0, <1>5, QuietIs, Zenon
  <2>3. Handed' = Handed
    BY <1>4, <2>2 DEF Ask
  <2>4. QED
    BY <1>1, <2>1, <2>3
<1>6. ASSUME Begin(g) PROVE Goal
  <2>1. UNCHANGED result
    BY <1>6 DEF Begin, Accumulate
  <2>2. Handed' = Handed
    BY <1>4, <2>1
  <2>3. PICK n : n = Len(blocks) + 1
    OBVIOUS
  <2>4. /\ DOMAIN blocks = 1 .. n - 1
        /\ blocks'[n].items = <<taken[g]>>
        /\ \A l \in 1 .. n - 1 : blocks'[l].items = blocks[l].items
        /\ \E m \in 0 .. n :
            /\ \A l \in 1 .. n - 1 : l # m => blocks'[l].done = blocks[l].done /\ blocks'[l].res = blocks[l].res
            /\ m # n => ~blocks'[n].done
            /\ m # 0 => blocks'[m].done /\ blocks'[m].res = doneIndex
            /\ m \in 1 .. n - 1 => ~blocks[m].done
    BY <1>0, <1>6, <2>3, BeginIs
  <2>5. PICK m \in 0 .. n :
            /\ \A l \in 1 .. n - 1 : l # m => blocks'[l].done = blocks[l].done /\ blocks'[l].res = blocks[l].res
            /\ m # n => ~blocks'[n].done
            /\ m # 0 => blocks'[m].done /\ blocks'[m].res = doneIndex
            /\ m \in 1 .. n - 1 => ~blocks[m].done
    BY <2>4, Zenon
  <2>6. j \in DOMAIN blocks \/ j = n
    BY <1>6, <2>3, BeginLeft
  <2>7. CASE j = n
    <3>1. ~Freed(blocks'[j])
      BY <2>4, <2>7 DEF Freed
    <3>2. n # 0
      BY <1>0, <2>3, LenProperties DEF Types
    <3>3. blocks'[j].done => blocks'[j].res = doneIndex
      BY <2>5, <2>7, <3>2, Zenon
    <3>4. QED
      BY <1>2, <2>2, <3>1, <3>3, Zenon
  <2>8. CASE j \in DOMAIN blocks
    <3>1. Freed(blocks'[j]) <=> Freed(blocks[j])
      BY <2>4, <2>8, Zenon DEF Freed
    <3>2. CASE j = m
      <4>1. ~blocks[j].done
        BY <2>4, <2>5, <2>8, <3>2, Zenon
      <4>2. ~Freed(blocks[j])
        BY <1>1, <2>8, <4>1, Zenon
      <4>3. j # 0
        BY <2>4, <2>8
      <4>4. blocks'[j].res = doneIndex
        BY <2>5, <3>2, <4>3, Zenon
      <4>5. QED
        BY <1>2, <2>2, <3>1, <4>2, <4>4, Zenon
    <3>3. CASE j # m
      <4>1. blocks'[j].done = blocks[j].done /\ blocks'[j].res = blocks[j].res
        BY <2>4, <2>5, <2>8, <3>3, Zenon
      <4> HIDE DEF Goal
      <4>2. QED
        BY <1>3, <2>2, <2>8, <3>1, <4>1
    <3>4. QED
      BY <3>2, <3>3
  <2>9. QED
    BY <2>6, <2>7, <2>8
<1>7. ASSUME NEW k, Join(g, k) \/ Refuse(g, k) PROVE Goal
  <2>1. UNCHANGED result \/ Returns(g, Failed)
    BY <1>0, <1>7, RefuseIs DEF Join, Accumulate
  <2>2. Handed' = Handed
    BY <1>4, <2>1
  <2>3. /\ k \in DOMAIN blocks /\ DOMAIN blocks' = DOMAIN blocks
        /\ \A l \in DOMAIN blocks : l # k => blocks'[l] = blocks[l]
        /\ blocks'[k].res = blocks[k].res /\ blocks'[k].done = blocks[k].done
    BY <1>0, <1>7, JoinIs, RefuseIs
  <2>4. ~Freed(blocks[k]) /\ ~Freed(blocks'[k])
    <3>1. CASE Join(g, k)
      <4>1. /\ ~Freed(blocks[k]) /\ blocks'[k].items = Append(blocks[k].items, taken[g])
            /\ k \in DOMAIN blocks
        BY <1>0, <3>1, JoinIs
      <4>2. blocks[k].items \in Seq(Traces)
        BY <1>0, <4>1, BlockIs
      <4>3. QED
        BY <4>1, <4>2 DEF Freed
    <3>2. CASE Refuse(g, k)
      BY <1>0, <3>2, RefuseIs DEF Freed
    <3>3. QED
      BY <1>7, <3>1, <3>2
  <2>5. CASE j = k
    BY <1>1, <2>2, <2>3, <2>4, <2>5, Zenon
  <2>6. CASE j # k
    BY <1>1, <2>2, <2>3, <2>6, Zenon
  <2>7. QED
    BY <2>5, <2>6
<1>8. ASSUME NEW k, Gives(g, k) PROVE Goal
  <2>1. /\ k \in DOMAIN blocks /\ blocks[k].done /\ ~Freed(blocks[k])
        /\ Handed' = Handed \cup {blocks[k].res}
    BY <1>8, GiverIs
  <2>2. ASSUME NEW l \in DOMAIN blocks, l # k, blocks'[j] = blocks[l] PROVE Goal
    <3>1. CASE Freed(blocks[l])
      BY <1>1, <2>1, <2>2, <3>1
    <3>2. CASE ~Freed(blocks[l])
      <4>1. ASSUME blocks[l].done PROVE blocks[l].res \notin Handed /\ blocks[l].res # blocks[k].res
        BY <1>1, <2>1, <2>2, <3>2, <4>1, Zenon
      <4>2. QED
        BY <2>1, <2>2, <3>2, <4>1
    <3>3. QED
      BY <3>1, <3>2
  <2>3. CASE Keep(g, k)
    <3>1. /\ DOMAIN blocks' = DOMAIN blocks
          /\ \A l \in DOMAIN blocks : l # k => blocks'[l] = blocks[l]
          /\ blocks'[k].items = blocks[k].items /\ blocks'[k].res = doneIndex
      BY <1>0, <2>3, KeepIs
    <3>2. CASE j = k
      <4>1. ~Freed(blocks'[j])
        BY <2>1, <3>1, <3>2 DEF Freed
      <4>2. blocks'[j].res \notin Handed'
        BY <1>2, <2>1, <3>1, <3>2
      <4>3. QED
        BY <4>1, <4>2
    <3> HIDE DEF Goal
    <3>3. QED
      BY <2>2, <3>1, <3>2, Zenon
  <2>4. CASE Leave(g, k)
    <3>1. /\ DOMAIN blocks' = DOMAIN blocks
          /\ \A l \in DOMAIN blocks : l # k => blocks'[l] = blocks[l]
          /\ Freed(blocks'[k]) /\ blocks'[k].done /\ blocks'[k].res = blocks[k].res
      BY <1>0, <2>4, LeaveIs
    <3>2. CASE j = k
      BY <2>1, <3>1, <3>2
    <3> HIDE DEF Goal
    <3>3. QED
      BY <2>2, <3>1, <3>2, Zenon
  <2>5. CASE Drop(g, k)
    <3>1. Up(j, k) \in DOMAIN blocks /\ Up(j, k) # k /\ blocks'[j] = blocks[Up(j, k)]
      BY <1>0, <2>5, DropIs
    <3> HIDE DEF Goal
    <3>2. QED
      BY <2>2, <3>1
  <2> HIDE DEF Goal
  <2>6. QED
    BY <1>8, <2>3, <2>4, <2>5, Zenon DEF Gives
<1> HIDE DEF Goal
<1>9. Goal
  BY <1>5, <1>6, <1>7, <1>8, Zenon DEF Acts
<1>10. QED
  BY <1>9 DEF Goal

LEMMA PromisesStep ==
    ASSUME IndInv, NEW g \in Getters, Acts(g)
    PROVE  Promises'
<1>0. Types /\ Hands /\ Asking /\ Promises /\ Apart /\ Flat /\ Best
  BY DEF IndInv
<1>1. /\ \A i \in Indices : result'[i].kind # "unknown"
      /\ \A i \in Handed : i \in Handed'
  BY FlowIs, Zenon DEF Flow
<1>2. /\ doneIndex \in Nat
      /\ \A k \in DOMAIN blocks : blocks[k].res \in Nat
  BY <1>0, BlockIs DEF Types, Block
<1>3. /\ \A i \in 0 .. doneIndex - 1 :
            i \in Handed \/ \E k \in DOMAIN blocks : blocks[k].done /\ blocks[k].res = i
      /\ \A k \in DOMAIN blocks : blocks[k].done => blocks[k].res < doneIndex
      /\ \A k, l \in DOMAIN blocks :
            blocks[k].done /\ blocks[l].done /\ blocks[k].res = blocks[l].res => k = l
  BY <1>0, Zenon DEF Promises
<1> DEFINE Kept == \A i \in 0 .. doneIndex' - 1 :
                        i \in Handed' \/ \E k \in DOMAIN blocks' : blocks'[k].done /\ blocks'[k].res = i
           Below == \A k \in DOMAIN blocks' : blocks'[k].done => blocks'[k].res < doneIndex'
           Once == \A k, l \in DOMAIN blocks' :
                        blocks'[k].done /\ blocks'[l].done /\ blocks'[k].res = blocks'[l].res => k = l
<1>4. ASSUME DOMAIN blocks' = DOMAIN blocks, doneIndex' = doneIndex,
             \A j \in DOMAIN blocks : blocks'[j].done = blocks[j].done /\ blocks'[j].res = blocks[j].res
      PROVE  Kept /\ Below /\ Once
  <2>1. Kept
    <3>1. SUFFICES ASSUME NEW i \in 0 .. doneIndex - 1
                   PROVE  i \in Handed' \/ \E k \in DOMAIN blocks' : blocks'[k].done /\ blocks'[k].res = i
      BY <1>4, Zenon
    <3>2. i \in Handed \/ \E k \in DOMAIN blocks : blocks[k].done /\ blocks[k].res = i
      BY <1>3
    <3>3. QED
      BY <1>1, <1>4, <3>2, Zenon
  <2>2. Below
    BY <1>3, <1>4, Zenon
  <2>3. Once
    BY <1>3, <1>4, Zenon
  <2>4. QED
    BY <2>1, <2>2, <2>3
<1>5. ASSUME Quiet(g) PROVE Kept /\ Below /\ Once
  <2>1. blocks' = blocks /\ doneIndex' = doneIndex
    BY <1>0, <1>5, QuietIs
  <2>2. DOMAIN blocks' = DOMAIN blocks
        /\ \A j \in DOMAIN blocks : blocks'[j].done = blocks[j].done /\ blocks'[j].res = blocks[j].res
    BY <2>1
  <2> HIDE DEF Kept, Below, Once
  <2>3. QED
    BY <1>4, <2>1, <2>2
<1>6. ASSUME NEW k, Join(g, k) \/ Refuse(g, k) \/ Leave(g, k) PROVE Kept /\ Below /\ Once
  <2>1. /\ DOMAIN blocks' = DOMAIN blocks /\ doneIndex' = doneIndex
        /\ \A j \in DOMAIN blocks : j # k => blocks'[j] = blocks[j]
        /\ blocks'[k].res = blocks[k].res /\ blocks'[k].done = blocks[k].done
    BY <1>0, <1>6, JoinIs, RefuseIs, LeaveIs
  <2>2. \A j \in DOMAIN blocks : blocks'[j].done = blocks[j].done /\ blocks'[j].res = blocks[j].res
    BY <2>1, Zenon
  <2> HIDE DEF Kept, Below, Once
  <2>3. QED
    BY <1>4, <2>1, <2>2
<1>7. ASSUME NEW k, Keep(g, k) PROVE Kept /\ Below /\ Once
  <2>1. /\ DOMAIN blocks' = DOMAIN blocks /\ doneIndex' = doneIndex + 1
        /\ \A j \in DOMAIN blocks : j # k => blocks'[j] = blocks[j]
        /\ blocks'[k].res = doneIndex /\ blocks'[k].done = blocks[k].done
    BY <1>0, <1>7, KeepIs
  <2>2. k \in DOMAIN blocks /\ blocks[k].done /\ blocks[k].res \in Handed'
    BY <1>7, GiverIs DEF Gives
  <2>3. blocks'[k].done /\ k \in DOMAIN blocks'
    BY <2>1, <2>2, Zenon
  <2>4. ASSUME NEW i \in 0 .. doneIndex' - 1
        PROVE  i \in Handed' \/ \E j \in DOMAIN blocks' : blocks'[j].done /\ blocks'[j].res = i
    <3>1. i = doneIndex \/ i \in 0 .. doneIndex - 1
      BY <1>2, <2>1
    <3>2. CASE i = doneIndex
      BY <2>1, <2>3, <3>2, Zenon
    <3>3. ASSUME NEW j \in DOMAIN blocks, blocks[j].done, blocks[j].res = i
          PROVE  i \in Handed' \/ \E l \in DOMAIN blocks' : blocks'[l].done /\ blocks'[l].res = i
      <4>1. CASE j = k
        BY <2>2, <3>3, <4>1
      <4>2. CASE j # k
        BY <2>1, <3>3, <4>2, Zenon
      <4>3. QED
        BY <4>1, <4>2
    <3>4. QED
      BY <1>1, <1>3, <3>1, <3>2, <3>3, Zenon
  <2>5. ASSUME NEW j \in DOMAIN blocks', blocks'[j].done PROVE blocks'[j].res < doneIndex'
    <3>1. CASE j = k
      BY <1>2, <2>1, <3>1
    <3>2. CASE j # k
      <4>1. blocks[j].done /\ blocks'[j].res = blocks[j].res /\ j \in DOMAIN blocks
        BY <2>1, <2>5, <3>2, Zenon
      <4>2. QED
        BY <1>2, <1>3, <2>1, <4>1
    <3>3. QED
      BY <3>1, <3>2
  <2>6. ASSUME NEW j \in DOMAIN blocks', j # k, blocks'[j].done PROVE blocks'[j].res # doneIndex /\ blocks[j].done
    <3>1. blocks[j].done /\ blocks'[j].res = blocks[j].res /\ j \in DOMAIN blocks
      BY <2>1, <2>6, Zenon
    <3>2. QED
      BY <1>2, <1>3, <3>1
  <2>7. Once
    BY <1>3, <2>1, <2>6, Zenon
  <2>8. QED
    BY <2>4, <2>5, <2>7
<1>8. ASSUME NEW k, Drop(g, k) PROVE Kept /\ Below /\ Once
  <2>1. /\ doneIndex' = doneIndex
        /\ \A j \in DOMAIN blocks' : blocks'[j] = blocks[Up(j, k)] /\ Up(j, k) \in DOMAIN blocks
        /\ \A i, j \in DOMAIN blocks' : Up(i, k) = Up(j, k) => i = j
        /\ \A l \in DOMAIN blocks : l # k => \E j \in DOMAIN blocks' : Up(j, k) = l
    BY <1>0, <1>8, DropIs
  <2>2. blocks[k].res \in Handed'
    BY <1>8, GiverIs DEF Gives
  <2>3. ASSUME NEW j \in DOMAIN blocks, j # k PROVE \E l \in DOMAIN blocks' : blocks'[l] = blocks[j]
    BY <2>1, <2>3, Zenon
  <2>4. ASSUME NEW j \in DOMAIN blocks' PROVE \E l \in DOMAIN blocks : blocks'[j] = blocks[l] /\ l = Up(j, k)
    BY <2>1
  <2>5. Kept
    <3>1. SUFFICES ASSUME NEW i \in 0 .. doneIndex - 1
                   PROVE  i \in Handed' \/ \E j \in DOMAIN blocks' : blocks'[j].done /\ blocks'[j].res = i
      BY <2>1, Zenon
    <3>2. CASE i \in Handed
      BY <1>1, <3>2
    <3>3. ASSUME NEW j \in DOMAIN blocks, blocks[j].done, blocks[j].res = i
          PROVE  i \in Handed' \/ \E l \in DOMAIN blocks' : blocks'[l].done /\ blocks'[l].res = i
      <4>1. CASE j = k
        BY <2>2, <3>3, <4>1
      <4>2. CASE j # k
        BY <2>3, <3>3, <4>2, Zenon
      <4>3. QED
        BY <4>1, <4>2
    <3>4. QED
      BY <1>3, <3>1, <3>2, <3>3, Zenon
  <2>6. Below
    BY <1>3, <2>1, <2>4, Zenon
  <2>7. ASSUME NEW i \in DOMAIN blocks', NEW j \in DOMAIN blocks',
               blocks'[i].done, blocks'[j].done, blocks'[i].res = blocks'[j].res
        PROVE  i = j
    <3>1. PICK p, q \in DOMAIN blocks :
              blocks'[i] = blocks[p] /\ blocks'[j] = blocks[q] /\ p = Up(i, k) /\ q = Up(j, k)
      BY <2>4, Zenon
    <3>2. blocks[p].done /\ blocks[q].done /\ blocks[p].res = blocks[q].res
      BY <2>7, <3>1, Zenon
    <3>3. p = q
      BY <1>3, <3>2, Zenon
    <3>4. QED
      BY <2>1, <3>1, <3>3, Zenon
  <2>8. QED
    BY <2>5, <2>6, <2>7
<1>9. ASSUME Begin(g) PROVE Kept /\ Below /\ Once
  <2>1. PICK n : n = Len(blocks) + 1
    OBVIOUS
  <2>2. /\ DOMAIN blocks' = 1 .. n /\ DOMAIN blocks = 1 .. n - 1
        /\ \E m \in 0 .. n :
            /\ \A l \in 1 .. n - 1 : l # m => blocks'[l].done = blocks[l].done /\ blocks'[l].res = blocks[l].res
            /\ m # n => ~blocks'[n].done
            /\ m # 0 => blocks'[m].done /\ blocks'[m].res = doneIndex
            /\ m \in 1 .. n - 1 => ~blocks[m].done
            /\ doneIndex' = IF m = 0 THEN doneIndex ELSE doneIndex + 1
    BY <1>0, <1>9, <2>1, BeginIs
  <2>3. n \in Nat \ {0} /\ \A j \in 1 .. n : j \in 1 .. n - 1 \/ j = n
    BY <1>0, <2>1, LenProperties DEF Types
  <2>4. PICK m \in 0 .. n :
            /\ \A l \in 1 .. n - 1 : l # m => blocks'[l].done = blocks[l].done /\ blocks'[l].res = blocks[l].res
            /\ m # n => ~blocks'[n].done
            /\ m # 0 => blocks'[m].done /\ blocks'[m].res = doneIndex
            /\ m \in 1 .. n - 1 => ~blocks[m].done
            /\ doneIndex' = IF m = 0 THEN doneIndex ELSE doneIndex + 1
    BY <2>2, Zenon
  <2>5. \A j \in DOMAIN blocks' : blocks'[j].done =>
            \/ j = m
            \/ j \in DOMAIN blocks /\ blocks[j].done /\ blocks'[j].res = blocks[j].res
    BY <2>2, <2>3, <2>4, Zenon
  <2>6. \A j \in DOMAIN blocks : blocks[j].done =>
            j \in DOMAIN blocks' /\ blocks'[j].done /\ blocks'[j].res = blocks[j].res
    <3>1. ASSUME NEW j \in DOMAIN blocks, blocks[j].done
          PROVE  j \in DOMAIN blocks' /\ blocks'[j].done /\ blocks'[j].res = blocks[j].res
      <4>1. j \in 1 .. n - 1 /\ j \in DOMAIN blocks'
        BY <2>2, <2>3
      <4>2. j # m
        BY <2>4, <3>1, <4>1, Zenon
      <4>3. QED
        BY <2>4, <3>1, <4>1, <4>2, Zenon
    <3>2. QED
      BY <3>1
  <2>7. \A j \in DOMAIN blocks' : m # 0 /\ j = m => blocks'[j].res = doneIndex
    BY <2>4
  <2>8. 0 \notin DOMAIN blocks' /\ (m # 0 => m \in DOMAIN blocks')
    BY <2>2, <2>3
  <2>9. ASSUME NEW i \in 0 .. doneIndex' - 1
        PROVE  i \in Handed' \/ \E j \in DOMAIN blocks' : blocks'[j].done /\ blocks'[j].res = i
    <3>1. (m # 0 /\ i = doneIndex) \/ i \in 0 .. doneIndex - 1
      BY <1>2, <2>4
    <3>2. CASE m # 0 /\ i = doneIndex
      BY <2>4, <2>8, <3>2, Zenon
    <3>3. CASE i \in 0 .. doneIndex - 1
      <4>1. i \in Handed \/ \E k \in DOMAIN blocks : blocks[k].done /\ blocks[k].res = i
        BY <1>3, <3>3
      <4>2. QED
        BY <1>1, <2>6, <4>1, Zenon
    <3>4. QED
      BY <3>1, <3>2, <3>3
  <2>10. ASSUME NEW j \in DOMAIN blocks', blocks'[j].done PROVE blocks'[j].res < doneIndex'
    <3>1. CASE j = m
      BY <1>2, <2>4, <2>8, <3>1
    <3>2. CASE j # m
      <4>1. j \in DOMAIN blocks /\ blocks[j].done /\ blocks'[j].res = blocks[j].res
        BY <2>5, <2>10, <3>2, Zenon
      <4>2. QED
        BY <1>2, <1>3, <2>4, <4>1
    <3>3. QED
      BY <3>1, <3>2
  <2>11. \A j \in DOMAIN blocks : blocks[j].done => blocks[j].res # doneIndex
    BY <1>2, <1>3
  <2>12. ASSUME NEW i \in DOMAIN blocks', NEW j \in DOMAIN blocks',
                blocks'[i].done, blocks'[j].done, blocks'[i].res = blocks'[j].res
         PROVE  i = j
    <3>1. \A l \in DOMAIN blocks' : l = m => blocks'[l].res = doneIndex
      BY <2>7, <2>8
    <3>2. CASE i = m
      BY <2>5, <2>11, <2>12, <3>1, <3>2, Zenon
    <3>3. CASE j = m
      BY <2>5, <2>11, <2>12, <3>1, <3>3, Zenon
    <3>4. CASE i # m /\ j # m
      <4>1. /\ i \in DOMAIN blocks /\ blocks[i].done /\ blocks'[i].res = blocks[i].res
            /\ j \in DOMAIN blocks /\ blocks[j].done /\ blocks'[j].res = blocks[j].res
        BY <2>5, <2>12, <3>4, Zenon
      <4>2. QED
        BY <1>3, <2>12, <4>1, Zenon
    <3>5. QED
      BY <3>2, <3>3, <3>4
  <2>13. QED
    BY <2>9, <2>10, <2>12
<1>10. Kept /\ Below /\ Once
  <2> HIDE DEF Kept, Below, Once
  <2>1. QED
    BY <1>5, <1>6, <1>7, <1>8, <1>9, Zenon DEF Acts, Gives
<1>11. QED
  BY <1>1, <1>10, OpenStep, Zenon DEF Promises

LEMMA ListedStep ==
    ASSUME IndInv, NEW g \in Getters, Acts(g)
    PROVE  Listed'
<1>0. Types /\ Hands /\ Asking /\ Promises /\ Apart /\ Flat /\ Best
  BY DEF IndInv
<1>1. (Singular' <=> Singular)
  BY FlowIs DEF Flow, Singular
<1>2. /\ Singular => \A k \in DOMAIN blocks : blocks[k].done
      /\ ~Singular /\ ~overran => /\ Len(blocks) <= ListLength
                                  /\ Len(blocks) = ListLength => blocks[1].done
  BY Zenon DEF IndInv, Listed
<1>3. Len(blocks) \in Nat /\ ListLength \in Nat \ {0} /\ DOMAIN blocks = 1 .. Len(blocks)
  BY <1>0, SizesAssumption, LenProperties DEF Types
<1> DEFINE All == Singular => \A k \in DOMAIN blocks' : blocks'[k].done
           Few == ~Singular /\ ~overran' => /\ Len(blocks') <= ListLength
                                            /\ Len(blocks') = ListLength => blocks'[1].done
<1>4. ASSUME DOMAIN blocks' = DOMAIN blocks, Len(blocks') = Len(blocks), overran' = overran,
             \A j \in DOMAIN blocks : blocks'[j].done = blocks[j].done
      PROVE  All /\ Few
  <2>1. All
    BY <1>2, <1>4, Zenon
  <2>2. Len(blocks) = ListLength => 1 \in DOMAIN blocks
    BY <1>3
  <2>3. Few
    BY <1>2, <1>4, <2>2, Zenon
  <2>4. QED
    BY <2>1, <2>3
<1>5. ASSUME Quiet(g) PROVE All /\ Few
  <2>1. blocks' = blocks /\ overran' = overran
    BY <1>0, <1>5, QuietIs
  <2>2. /\ DOMAIN blocks' = DOMAIN blocks /\ Len(blocks') = Len(blocks)
        /\ \A j \in DOMAIN blocks : blocks'[j].done = blocks[j].done
    BY <2>1
  <2> HIDE DEF All, Few
  <2>3. QED
    BY <1>4, <2>1, <2>2
<1>6. ASSUME NEW k, Join(g, k) \/ Keep(g, k) \/ Refuse(g, k) \/ Leave(g, k) PROVE All /\ Few
  <2>1. /\ DOMAIN blocks' = DOMAIN blocks /\ Len(blocks') = Len(blocks)
        /\ \A j \in DOMAIN blocks : j # k => blocks'[j] = blocks[j]
        /\ blocks'[k].done = blocks[k].done
    BY <1>0, <1>6, JoinIs, KeepIs, RefuseIs, LeaveIs
  <2>2. overran' = overran
    BY <1>0, <1>6, JoinIs DEF Keep, Leave, Refuse, Finalize, TitleFails, FinalizeFails, history
  <2>3. \A j \in DOMAIN blocks : blocks'[j].done = blocks[j].done
    BY <2>1, Zenon
  <2> HIDE DEF All, Few
  <2>4. QED
    BY <1>4, <2>1, <2>2, <2>3
<1>7. ASSUME NEW k, Drop(g, k) PROVE All /\ Few
  <2>1. /\ Len(blocks') = Len(blocks) - 1
        /\ \A j \in DOMAIN blocks' : blocks'[j] = blocks[Up(j, k)] /\ Up(j, k) \in DOMAIN blocks
    BY <1>0, <1>7, DropIs
  <2>2. overran' = overran
    BY <1>7 DEF Drop, Finalize, history
  <2>3. All
    BY <1>2, <2>1, Zenon
  <2>4. Len(blocks) <= ListLength => Len(blocks') <= ListLength /\ Len(blocks') # ListLength
    <3>1. \A n \in Nat, m \in Nat : n <= m => n - 1 <= m /\ n - 1 # m
      OBVIOUS
    <3>2. QED
      BY <1>3, <2>1, <3>1, Zenon
  <2>5. Few
    BY <1>2, <2>2, <2>4, Zenon
  <2>6. QED
    BY <2>3, <2>5
<1>8. ASSUME Begin(g) PROVE All /\ Few
  <2>1. PICK n : n = Len(blocks) + 1
    OBVIOUS
  <2>2. /\ DOMAIN blocks' = 1 .. n /\ DOMAIN blocks = 1 .. n - 1 /\ Len(blocks') = n
        /\ \E m \in 0 .. n :
            /\ \A l \in 1 .. n - 1 : l # m => blocks'[l].done = blocks[l].done
            /\ m # 0 => blocks'[m].done
            /\ Singular => m = n
        /\ ~Singular /\ n = ListLength => blocks'[1].done
        /\ overran' = (overran \/ n > ListLength)
    BY <1>0, <1>8, <2>1, BeginIs
  <2>3. n \in Nat \ {0} /\ \A j \in 1 .. n : j \in 1 .. n - 1 \/ j = n
    BY <1>3, <2>1
  <2>4. All
    <3>1. SUFFICES ASSUME Singular, NEW j \in DOMAIN blocks' PROVE blocks'[j].done
      OBVIOUS
    <3>2. PICK m \in 0 .. n : /\ \A l \in 1 .. n - 1 : l # m => blocks'[l].done = blocks[l].done
                              /\ m # 0 => blocks'[m].done
                              /\ m = n
      BY <2>2, <3>1, Zenon
    <3>3. CASE j = n
      BY <2>3, <3>2, <3>3
    <3>4. CASE j # n
      BY <1>2, <2>2, <2>3, <3>1, <3>2, <3>4, Zenon
    <3>5. QED
      BY <3>3, <3>4
  <2>5. ~(n > ListLength) => n <= ListLength
    BY <1>3, <2>3
  <2>6. Few
    BY <2>2, <2>5, Zenon
  <2>7. QED
    BY <2>4, <2>6
<1>9. All /\ Few
  <2> HIDE DEF All, Few
  <2>1. QED
    BY <1>5, <1>6, <1>7, <1>8, Zenon DEF Acts, Gives
<1>10. QED
  BY <1>1, <1>9, Zenon DEF Listed

-----------------------------------------------------------------------------
(* The invariant *)

LEMMA Initially ==
    ASSUME Init
    PROVE  IndInv
<1>1. /\ consumer \in Consumers /\ nextIndex = 0 /\ doneIndex = 0 /\ blocks = <<>>
      /\ refLock = NULL /\ refValid = FALSE /\ nextAsk = 0
      /\ lost = {} /\ late = {} /\ overran = FALSE
      /\ result = [i \in Indices |-> Pending]
  BY DEF Init
<1>2. \A g \in Getters : pc[g] = "idle" /\ idx[g] = NULL /\ taken[g] = NULL
  BY DEF Init
<1>3. Handed = {}
  BY <1>1 DEF Handed, Answered, Untitled, Pending
<1>4. DOMAIN blocks = {} /\ Len(blocks) = 0 /\ blocks \in Seq(Block)
  BY <1>1
<1>5. \A i \in Indices : i \in Nat /\ result[i] = Pending /\ result[i].kind # "unknown"
  BY <1>1 DEF Indices, Pending
<1>6. Asked \in Nat /\ ListLength \in Nat \ {0}
  BY SizesAssumption
<1>7. Types
  <2>1. /\ pc \in [Getters -> InHand \cup {"idle", "check", "take", "finalize"}]
        /\ idx \in [Getters -> Indices \cup {NULL}]
        /\ taken \in [Getters -> Nat \cup {NULL}]
    BY DEF Init
  <2>2. nextAsk \in 0 .. Asked
    BY <1>1, <1>6
  <2>3. DOMAIN result = Indices
    BY <1>1
  <2>4. QED
    BY <1>1, <1>3, <1>4, <2>1, <2>2, <2>3 DEF Types
<1>8. Asking
  BY <1>1, <1>2, <1>3, <1>5 DEF Asking
<1>9. Hands
  BY <1>1, <1>2, <1>3 DEF Hands, InHand
<1>10. Apart /\ Given /\ Flat /\ Best /\ Order
  BY <1>3, <1>4 DEF Apart, Given, Flat, Best, Order
<1>11. Somewhere
  BY <1>1, SourceIs DEF Somewhere
<1>12. Promises
  BY <1>1, <1>4, <1>5 DEF Promises, Freed
<1>13. Listed
  BY <1>4, <1>6 DEF Listed
<1>14. QED
  BY <1>7, <1>8, <1>9, <1>10, <1>11, <1>12, <1>13 DEF IndInv

LEMMA Stuttering ==
    ASSUME IndInv, UNCHANGED vars
    PROVE  IndInv'
<1>1. /\ consumer' = consumer /\ nextIndex' = nextIndex /\ doneIndex' = doneIndex /\ blocks' = blocks
      /\ refLock' = refLock /\ refValid' = refValid /\ nextAsk' = nextAsk
      /\ pc' = pc /\ idx' = idx /\ taken' = taken
      /\ lost' = lost /\ late' = late /\ overran' = overran /\ result' = result
  BY DEF vars, getterVars, history
<1>2. Handed' = Handed
  BY <1>1 DEF Handed, Answered, Untitled
<1>3. Singular' = Singular /\ \A t : Interesting(t)' = Interesting(t)
  BY <1>1 DEF Singular, Interesting, ReduceInteresting, SelectInteresting, SortInteresting, ExtractInteresting,
              AlongData, Samples
<1>4. \A v, w : Better(v, w)' = Better(v, w)
  BY <1>1 DEF Better
<1>5. Types' /\ Asking' /\ Hands'
  BY <1>1, <1>2 DEF IndInv, Types, Asking, Hands
<1>6. Apart'
  BY <1>1 DEF IndInv, Apart, Settled, Freed
<1>7. Given'
  <2>1. \A i : From(i)' = From(i)
    BY <1>1 DEF From
  <2>2. \A t : Settled(t)' <=> Settled(t)
    BY <1>1 DEF Settled
  <2>3. \A k : Remaining(blocks[k])' = Remaining(blocks[k])
    BY <1>1 DEF Remaining
  <2>4. QED
    BY <1>1, <1>2, <1>3, <2>1, <2>2, <2>3 DEF IndInv, Given
<1>8. Somewhere'
  BY <1>1, <1>2, <1>3 DEF IndInv, Somewhere, From, Remaining
<1>9. Flat'
  BY <1>1, <1>4 DEF IndInv, Flat, FlatOf, FlatIn
<1>10. Best'
  BY <1>1, <1>2, <1>4 DEF IndInv, Best, From, Freed
<1>11. Order'
  BY <1>1, <1>2, <1>4 DEF IndInv, Order, Precedes, Freed
<1>12. Promises' /\ Listed'
  BY <1>1, <1>2, <1>3 DEF IndInv, Promises, Listed, Freed
<1>13. QED
  BY <1>5, <1>6, <1>7, <1>8, <1>9, <1>10, <1>11, <1>12 DEF IndInv

LEMMA Preserved == IndInv /\ [Next]_vars => IndInv'
<1>1. SUFFICES ASSUME IndInv, [Next]_vars PROVE IndInv'
  OBVIOUS
<1>2. CASE UNCHANGED vars
  BY <1>1, <1>2, Stuttering
<1>3. ASSUME NEW g \in Getters, Acts(g) PROVE IndInv'
  <2>1. Types' /\ Asking' /\ Hands' /\ Apart'
    BY <1>1, <1>3, TypesStep, AskingStep, HandsStep, ApartStep
  <2>2. Given' /\ Somewhere' /\ Flat' /\ Best'
    BY <1>1, <1>3, GivenStep, SomewhereStep, FlatStep, BestStep
  <2>3. Order' /\ Promises' /\ Listed'
    BY <1>1, <1>3, OrderStep, PromisesStep, ListedStep
  <2>4. QED
    BY <2>1, <2>2, <2>3 DEF IndInv
<1>4. QED
  BY <1>1, <1>2, <1>3, EveryStep

-----------------------------------------------------------------------------
(* The theorems *)

\* Every trace of the previous set has one place, every promised index one block, and
\* every block what its consumer has still to give: the invariant that the block
\* transformations keep, in every run, with any threads, traces, consumers and failures.
THEOREM Inductive == Spec => []IndInv
<1>1. Init => IndInv
  BY Initially
<1>2. QED
  BY <1>1, Preserved, PTL DEF Spec

\* The state of the block transformations always has its types (TypeOK).
THEOREM TypeCorrect == Spec => []TypeOK
<1>1. IndInv => TypeOK
  <2>1. SUFFICES ASSUME IndInv PROVE TypeOK
    OBVIOUS
  <2>2. ASSUME NEW k \in DOMAIN blocks
        PROVE  Range(blocks[k].items) \subseteq Traces /\ blocks[k].res \in Nat
    <3>1. blocks[k] \in Block
      BY <2>1, ElementOfSeq DEF IndInv, Types
    <3>2. blocks[k].items \in Seq(Traces) /\ blocks[k].res \in Nat
      BY <3>1 DEF Block
    <3>3. QED
      BY <3>2 DEF Range
  <2>3. pc \in [Getters -> {"idle", "check", "take", "fetch", "reference", "accumulate", "finalize"}]
    BY <2>1 DEF IndInv, Types, InHand
  <2>4. QED
    BY <2>1, <2>2, <2>3 DEF IndInv, Types, TypeOK
<1>2. QED
  BY <1>1, Inductive, PTL

\* A set of which no two elements differ has one, or none.
LEMMA AtMostOne ==
    ASSUME NEW S, \A x, y \in S : x = y
    PROVE  /\ S = {} => Cardinality(S) = 0
           /\ S # {} => Cardinality(S) = 1
<1>1. CASE S = {}
  BY <1>1, FS_EmptySet
<1>2. CASE S # {}
  <2>1. PICK x \in S : TRUE
    BY <1>2
  <2>2. S = {x}
    BY <2>1
  <2>3. QED
    BY <1>2, <2>2, FS_Singleton
<1>3. QED
  BY <1>1, <1>2

\* Whoever asks for a promised index finds its block, once, and nothing that is not
\* promised waits (PromisesKept): of __block_finalize, with a list that others change.
THEOREM PromisesTrue == Spec => []PromisesKept
<1>1. IndInv => PromisesKept
  <2>1. SUFFICES ASSUME IndInv PROVE PromisesKept
    OBVIOUS
  <2>2. ASSUME NEW i \in 0 .. doneIndex - 1, i \notin Handed
        PROVE  Cardinality({k \in DOMAIN blocks : blocks[k].done /\ blocks[k].res = i /\ ~Freed(blocks[k])}) = 1
    <3> DEFINE S == {k \in DOMAIN blocks : blocks[k].done /\ blocks[k].res = i /\ ~Freed(blocks[k])}
    <3>1. S # {}
      BY <2>1, <2>2 DEF IndInv, Promises
    <3>2. \A k, l \in S : k = l
      BY <2>1 DEF IndInv, Promises
    <3> HIDE DEF S
    <3>3. Cardinality(S) = 1
      BY <3>1, <3>2, AtMostOne
    <3>4. QED
      BY <3>3 DEF S
  <2>3. ASSUME NEW i \in 0 .. doneIndex - 1, i \in Handed
        PROVE  Cardinality({k \in DOMAIN blocks : blocks[k].done /\ blocks[k].res = i /\ ~Freed(blocks[k])}) = 0
    <3>1. {k \in DOMAIN blocks : blocks[k].done /\ blocks[k].res = i /\ ~Freed(blocks[k])} = {}
      BY <2>1, <2>3 DEF IndInv, Promises
    <3>2. QED
      BY <3>1, FS_EmptySet
  <2>4. QED
    BY <2>1, <2>2, <2>3 DEF IndInv, Promises, PromisesKept
<1>2. QED
  BY <1>1, Inductive, PTL

\* A selection gives the best of its block and a sort gives its traces in order, unless
\* one came when the block was already being given out (BestFirst): of the finalizes of
\* block_select and block_sort.
THEOREM BestTrue == Spec => []BestFirst
<1>1. IndInv => BestFirst
  BY DEF IndInv, Best, Order, BestFirst, Handed
<1>2. QED
  BY <1>1, Inductive, PTL

\* When a get ends for want of traces no more than one block is unfinished, unless the
\* list overran (EndMeansLastBlock): of the criterion DONE_LISTLEN.
THEOREM EndTrue == Spec => []EndMeansLastBlock
<1>1. IndInv => EndMeansLastBlock
  <2>1. SUFFICES ASSUME IndInv, ~overran
                 PROVE  Cardinality({k \in DOMAIN blocks : ~blocks[k].done}) < ListLength
    BY DEF EndMeansLastBlock
  <2> DEFINE S == {k \in DOMAIN blocks : ~blocks[k].done}
  <2>2. ListLength \in Nat /\ ListLength > 0
    BY SizesAssumption
  <2>3. DOMAIN blocks = 1 .. Len(blocks) /\ Len(blocks) \in Nat
    BY <2>1 DEF IndInv, Types
  <2>4. CASE Singular
    <3>1. S = {}
      BY <2>1, <2>4 DEF IndInv, Listed
    <3> HIDE DEF S
    <3>2. Cardinality(S) < ListLength
      BY <2>2, <3>1, FS_EmptySet
    <3>3. QED
      BY <3>2 DEF S
  <2>5. CASE ~Singular
    <3>1. Len(blocks) <= ListLength /\ (Len(blocks) = ListLength => blocks[1].done)
      BY <2>1, <2>5 DEF IndInv, Listed
    <3>2. S \subseteq (IF Len(blocks) = ListLength THEN 2 .. Len(blocks) ELSE 1 .. Len(blocks))
      BY <2>3, <3>1
    <3> HIDE DEF S
    <3>3. PICK a \in {1, 2}, n \in Nat : S \subseteq a .. n /\ n - a + 1 < ListLength
      <4>1. PICK n \in Nat : n = Len(blocks)
        BY <2>3
      <4>2. /\ n <= ListLength
            /\ S \subseteq (IF n = ListLength THEN 2 .. n ELSE 1 .. n)
        BY <3>1, <3>2, <4>1, Zenon
      <4>3. CASE n = ListLength
        <5>1. S \subseteq 2 .. n /\ n - 2 + 1 < ListLength
          BY <2>2, <4>2, <4>3
        <5>2. QED
          BY <5>1
      <4>4. CASE n # ListLength
        <5>1. S \subseteq 1 .. n /\ n - 1 + 1 < ListLength
          BY <2>2, <4>2, <4>4
        <5>2. QED
          BY <5>1
      <4>5. QED
        BY <4>3, <4>4
    <3>4. IsFiniteSet(a .. n) /\ Cardinality(a .. n) = IF a > n THEN 0 ELSE n - a + 1
      BY FS_Interval
    <3>5. IsFiniteSet(S) /\ Cardinality(S) <= Cardinality(a .. n)
      BY <3>3, <3>4, FS_Subset
    <3>6. Cardinality(S) < ListLength
      <4>1. PICK c, d : c = Cardinality(S) /\ d = Cardinality(a .. n)
        OBVIOUS
      <4>2. c \in Nat /\ c <= d /\ d < ListLength
        <5>1. c \in Nat
          BY <3>5, <4>1, FS_CardinalityType
        <5>2. d = IF a > n THEN 0 ELSE n - a + 1
          BY <3>4, <4>1, Zenon
        <5>3. c <= d
          BY <3>5, <4>1, Zenon
        <5>4. QED
          BY <2>2, <3>3, <5>1, <5>2, <5>3
      <4>3. d \in Nat
        BY <3>4, <4>1, FS_CardinalityType
      <4>4. c < ListLength
        BY <2>2, <4>2, <4>3
      <4>5. QED
        BY <4>1, <4>4, Zenon
    <3>7. QED
      BY <3>6 DEF S
  <2>6. QED
    BY <2>4, <2>5
<1>2. QED
  BY <1>1, Inductive, PTL

\* An extraction gathers nothing, so nothing comes late to it.
LEMMA NoneLate == Spec => [](Singular => late = {})
<1>1. Init => (Singular => late = {})
  BY DEF Init
<1>2. (Singular => late = {}) /\ [Next]_vars => (Singular => late = {})'
  <2>1. SUFFICES ASSUME Singular => late = {}, [Next]_vars PROVE (Singular => late = {})'
    OBVIOUS
  <2>2. Singular' = Singular /\ (Singular => late' = late)
    BY <2>1 DEF Next, Step, vars, history, Singular, Ask, Check, Take, Fetch, FetchEnds, FetchFails, Reference,
                ReferenceFails, Accumulate, JoinFreed, AccumulateFails, Finalize, TitleFails, FinalizeFails
  <2>3. QED
    BY <2>1, <2>2
<1>3. QED
  BY <1>1, <1>2, PTL DEF Spec

\* Every trace that was taken from the previous set is in one place, used once, or lost to
\* a failure (EveryTraceOnce): of __tfm_block_get, called by any number of threads.
THEOREM EveryTraceUsedOnce == Spec => []EveryTraceOnce
<1>1. IndInv /\ (Singular => late = {}) => EveryTraceOnce
  <2>1. SUFFICES ASSUME IndInv, Singular => late = {},
                        NEW t \in 0 .. nextIndex - 1, t \in Traces, Interesting(t)
                 PROVE  LET hands == {g \in Getters : taken[g] = t}
                            lists == {k \in DOMAIN blocks : t \in Remaining(blocks[k])}
                            given == {result[i].src : i \in {j \in Handed : t \in From(j)}}
                            places == Cardinality(hands) + Cardinality(lists) + Cardinality(given)
                        IN  IF Singular
                            THEN t \in lost \/ hands # {} \/ lists # {} \/ given # {}
                            ELSE places = (IF t \in lost THEN 0 ELSE 1) \/ (t \in late /\ places = 0)
    BY DEF EveryTraceOnce
  <2> DEFINE hands == {g \in Getters : taken[g] = t}
             lists == {k \in DOMAIN blocks : t \in Remaining(blocks[k])}
             given == {result[i].src : i \in {j \in Handed : t \in From(j)}}
  <2>2. t < nextIndex /\ t # NULL
    BY <2>1, SourceIs DEF IndInv, Types
  <2>3. t \in lost \/ t \in late \/ hands # {} \/ lists # {} \/ given # {}
    BY <2>1, <2>2 DEF IndInv, Somewhere
  <2>4. \A g, h \in hands : g = h
    BY <2>1, <2>2 DEF IndInv, Hands
  <2>5. \A k \in lists : \E m \in DOMAIN blocks[k].items : blocks[k].items[m] = t
    <3>1. SUFFICES ASSUME NEW k \in lists PROVE \E m \in DOMAIN blocks[k].items : blocks[k].items[m] = t
      OBVIOUS
    <3>2. t \in Range(blocks[k].items)
      BY <3>1 DEF Remaining
    <3>3. QED
      BY <3>2 DEF Range
  <2>6. \A k, l \in lists : k = l
    BY <2>1, <2>5 DEF IndInv, Apart
  <2>7. lists # {} => Settled(t)
    BY <2>1, <2>5 DEF IndInv, Apart
  <2>8. given # {} => Settled(t)
    BY <2>1 DEF IndInv, Given
  <2>9. t \in lost => hands = {}
    BY <2>1 DEF IndInv, Hands
  <2>10. Settled(t) => t \notin lost /\ hands = {}
    BY DEF Settled
  <2>11. CASE Singular
    BY <2>1, <2>3, <2>11
  <2>12. CASE ~Singular
    <3>1. \A s, r \in given : s = r
      BY <2>1, <2>12 DEF IndInv, Given
    <3>2. lists = {} \/ given = {}
      BY <2>1, <2>12 DEF IndInv, Given
    <3> HIDE DEF hands, lists, given
    <3>3. /\ Cardinality(hands) = (IF hands = {} THEN 0 ELSE 1)
          /\ Cardinality(lists) = (IF lists = {} THEN 0 ELSE 1)
          /\ Cardinality(given) = (IF given = {} THEN 0 ELSE 1)
      BY <2>4, <2>6, <3>1, AtMostOne
    <3>4. LET places == Cardinality(hands) + Cardinality(lists) + Cardinality(given)
          IN  places = (IF t \in lost THEN 0 ELSE 1) \/ (t \in late /\ places = 0)
      BY <2>3, <2>7, <2>8, <2>9, <2>10, <3>2, <3>3
    <3>5. QED
      BY <2>12, <3>4, Zenon DEF hands, lists, given
  <2>13. QED
    BY <2>11, <2>12
<1>2. QED
  BY <1>1, Inductive, NoneLate, PTL

=============================================================================
