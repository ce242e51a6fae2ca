------------------------------ MODULE Blocks ------------------------------
(***************************************************************************)
(* The block transformations (transform/tfm_block.c and its consumers in    *)
(* transform/block and transform/extract).  The traces of the previous set  *)
(* are gathered into blocks; each block becomes one trace of this set, or   *)
(* several.  Nothing is gathered ahead: whoever asks for a trace that no    *)
(* block is ready for takes traces from the previous set until one is.      *)
(* Several threads do so at once, and only the list of blocks is locked.    *)
(*                                                                         *)
(* A consumer is a record [op, along, stat, bare], where bare are the       *)
(* traces that come without samples.  Numbers 0, 1, ... name the traces of  *)
(* the previous set; -1 stands for NULL.                                    *)
(***************************************************************************)
EXTENDS Integers, FiniteSets, Sequences, SequencesExt

CONSTANTS
    Getters,      \* threads
    Source,       \* the previous set: a sequence of [samples, key, value, splits]
    Consumers,    \* the consumers to choose from
    Num,          \* param.num
    Asked,        \* bound: how many traces of this set are asked for
    ListLength,   \* LIST_LENGTH
    MaxFaults     \* bound: failures of the previous set, and of the reference trace

ASSUME SizesAssumption == {Num, Asked, ListLength} \subseteq Nat \ {0} /\ MaxFaults \in Nat

VARIABLES
    consumer,     \* which consumer the set was made with
    nextIndex,    \* next_index
    doneIndex,    \* done_index
    blocks,       \* blocks, and nblocks its length
    refLock,      \* cfg->lock of an extraction, and
    refValid,     \* its ref_valid
    pc, idx,      \* per thread: where, and the index asked for
    taken,        \* curr_trace
    nextAsk,      \* the next index to ask for
    result,       \* what the get of each index returned
    lost,         \* history: traces that a failure threw away
    overran,      \* history: the list grew past ListLength
    late,         \* history: traces that joined a block that was being given out
    faults

getterVars == <<pc, idx, taken, nextAsk>>
history == <<lost, overran, late>>
vars == <<consumer, nextIndex, doneIndex, blocks, refLock, refValid, getterVars, result, history, faults>>

NULL == -1
Lowest == -1000   \* -FLT_MAX

Traces == 0 .. Len(Source) - 1
Trace(t) == Source[t + 1]
Indices == 0 .. Asked - 1

Singular == consumer.op = "extract"    \* criteria DONE_SINGULAR, else DONE_LISTLEN
AlongData == consumer.along = "data"

\* Nothing is less than -FLT_MAX, and a least value is not selected (see the README).
ASSUME SourceAssumption ==
    /\ Source \in Seq([data : BOOLEAN, key : STRING, value : Int, splits : Seq(STRING)])
    /\ \A t \in Traces : Trace(t).value > Lowest
ASSUME ConsumersAssumption ==
    \A c \in Consumers :
        /\ c.op \in {"reduce", "select", "sort", "extract"}
        /\ c.op = "select" => c.stat = "max"

Pending == [kind |-> "pending"]
Failed == [kind |-> "failed"]
EndOfSource == [kind |-> "end"]

Init ==
    /\ consumer \in Consumers
    /\ nextIndex = 0 /\ doneIndex = 0
    /\ blocks = <<>>
    /\ refLock = NULL /\ refValid = FALSE
    /\ pc = [g \in Getters |-> "idle"]
    /\ idx = [g \in Getters |-> NULL]
    /\ taken = [g \in Getters |-> NULL]
    /\ nextAsk = 0
    /\ result = [i \in Indices |-> Pending]
    /\ lost = {} /\ late = {} /\ overran = FALSE
    /\ faults = 0

MoveTo(g, where) == pc' = [pc EXCEPT ![g] = where]

Return(g, what) ==
    /\ result' = [result EXCEPT ![idx[g]] = what]
    /\ MoveTo(g, "idle")

-----------------------------------------------------------------------------
(* What the consumers do *)

Samples(t) == t \notin consumer.bare

\* A reduction along numbers takes traces without samples, and would read them.
ReduceInteresting(t) == AlongData => Trace(t).data /\ Samples(t)
SelectInteresting(t) == Samples(t) /\ (AlongData => Trace(t).data)
SortInteresting(t) == Samples(t) /\ (AlongData => Trace(t).data)
ExtractInteresting(t) == Samples(t) /\ Trace(t).data

Interesting(t) ==
    CASE consumer.op = "reduce" -> ReduceInteresting(t)
      [] consumer.op = "select" -> SelectInteresting(t)
      [] consumer.op = "sort" -> SortInteresting(t)
      [] consumer.op = "extract" -> ExtractInteresting(t)

\* A block with no trace yet.
EmptyBlock(t) ==
    [key |-> Trace(t).key, items |-> <<>>, best |-> NULL, flat |-> <<>>, finalized |-> 0,
     entries |-> <<>>, src |-> t, res |-> t, numOut |-> 0, done |-> FALSE]

\* A block that was left in the list although the consumer freed its part: it has no trace.
Freed(b) == b.items = <<>>

Matches(t, b) ==
    /\ ~Freed(b)
    /\ IF AlongData THEN b.key = Trace(t).key ELSE Len(b.items) < Num

ReduceAccumulate(t, b) == [b EXCEPT !.items = Append(@, t)]

\* The first of the best is kept.
Better(v, w) == IF consumer.stat = "max" THEN v > w ELSE v < w

SelectAccumulate(t, b) ==
    LET val == IF b.best = NULL THEN Lowest ELSE Trace(b.best).value
    IN  [b EXCEPT !.items = Append(@, t), !.best = IF Better(Trace(t).value, val) THEN t ELSE @]

SortAccumulate(t, b) == [b EXCEPT !.items = Append(@, t)]

\* The pattern search is in module Extract; here only what it leaves in the split
\* list, or that it fails: then the new block is gone, and so is the trace.
SearchFails(t) == Singular /\ Trace(t).splits = <<"error">>

ExtractAccumulate(t, b) == [b EXCEPT !.items = Append(@, t), !.entries = Trace(t).splits]

Accumulated(t, b) ==
    CASE consumer.op = "reduce" -> ReduceAccumulate(t, b)
      [] consumer.op = "select" -> SelectAccumulate(t, b)
      [] consumer.op = "sort" -> SortAccumulate(t, b)
      [] consumer.op = "extract" -> ExtractAccumulate(t, b)

\* What a finalize returns: the trace, the block after it, and whether more follows.
\* Of a reduction nothing ever comes out:
\* stat_get_all refuses every statistic of an array accumulator (see Statistics).
ReduceFinalize(b) == [out |-> Failed, block |-> b, more |-> FALSE]

SelectFinalize(b) ==
    [out |-> [kind |-> IF b.best = NULL THEN "wild" ELSE "best",
              src |-> b.src, from |-> b.items, trace |-> b.best],
     block |-> b, more |-> FALSE]

MutUnsorted(items) == items

\* Of two places in the list, whose trace comes first; of equal ones the earlier.
Before(items, j, k) ==
    LET v == Trace(items[j]).value
        w == Trace(items[k]).value
    IN  Better(v, w) \/ (~Better(w, v) /\ j < k)

\* qsort: the n-th is the one that n - 1 others come before.
Sorted(items) ==
    LET earlier(k) == {j \in DOMAIN items : Before(items, j, k)}
    IN  [n \in DOMAIN items |-> items[CHOOSE k \in DOMAIN items : Cardinality(earlier(k)) = n - 1]]

\* all_entries is made by the first call and as long as count was then.
SortFinalize(b) ==
    LET flat == IF b.flat = <<>> THEN Sorted(b.items) ELSE b.flat
        n == b.finalized + 1
    IN  [out |-> IF n \in DOMAIN flat
                 THEN [kind |-> "entry", src |-> b.src, from |-> <<flat[n]>>]
                 ELSE [kind |-> "wild", src |-> b.src, from |-> <<>>],
         block |-> [b EXCEPT !.flat = flat, !.finalized = n],
         more |-> n < Len(b.items)]

\* An empty split list gives one empty trace; an entry too close to the end
\* gives an error, and is gone.
ExtractFinalize(b) ==
    IF b.entries = <<>>
    THEN [out |-> [kind |-> "empty", src |-> b.src, from |-> b.items], block |-> b, more |-> FALSE]
    ELSE [out |-> IF Head(b.entries) = "short" THEN Failed
                  ELSE [kind |-> "pattern", src |-> b.src, from |-> b.items],
          block |-> [b EXCEPT !.entries = Tail(@)],
          more |-> Len(b.entries) > 1]

Finalized(b) ==
    CASE consumer.op = "reduce" -> ReduceFinalize(b)
      [] consumer.op = "select" -> SelectFinalize(b)
      [] consumer.op = "sort" -> SortFinalize(b)
      [] consumer.op = "extract" -> ExtractFinalize(b)

-----------------------------------------------------------------------------
(* __block_accumulate *)

FirstMatch(t) == SelectInSeq(blocks, LAMBDA b : Matches(t, b))

\* The first block is complete when a second one begins.
LengthReached(list) == Len(list) = ListLength

MutNotDone(list, k, index) == [list EXCEPT ![k].res = index]

MarkDone(list, k, index) == [list EXCEPT ![k].done = TRUE, ![k].res = index]

\* list_add_tail, and which block that completes.
AppendBlock(b) ==
    LET list == Append(blocks, b)
        complete == IF Singular THEN {Len(list)}
                    ELSE IF LengthReached(list) /\ ~list[1].done THEN {1} ELSE {}
    IN  /\ blocks' = IF complete = {} THEN list
                     ELSE MarkDone(list, CHOOSE k \in complete : TRUE, doneIndex)
        /\ doneIndex' = doneIndex + Cardinality(complete)
        /\ overran' = (overran \/ Len(list) > ListLength)

JoinBlock(t, k) ==
    /\ blocks' = [blocks EXCEPT ![k] = Accumulated(t, @)]
    /\ late' = IF blocks[k].flat = <<>> THEN late ELSE late \cup {t}
    /\ UNCHANGED <<doneIndex, overran>>

\* One critical section of lock, and trace_free.
Accumulate(g) ==
    LET k == FirstMatch(taken[g])
    IN  /\ pc[g] = "accumulate"
        /\ ~SearchFails(taken[g])
        /\ IF k # 0 /\ ~Singular
           THEN JoinBlock(taken[g], k)
           ELSE AppendBlock(Accumulated(taken[g], EmptyBlock(taken[g]))) /\ UNCHANGED late
        /\ taken' = [taken EXCEPT ![g] = NULL]
        /\ MoveTo(g, "check")
        /\ UNCHANGED <<consumer, nextIndex, refLock, refValid, idx, nextAsk, result, lost, faults>>

\* trace_matches of a freed block reads what is there now, and may find that it
\* matches: then the trace goes where no block is.
JoinFreed(g) ==
    LET k == FirstMatch(taken[g])
    IN  /\ pc[g] = "accumulate"
        /\ ~Singular
        /\ \E j \in DOMAIN blocks : Freed(blocks[j]) /\ (k = 0 \/ j < k)
        /\ lost' = lost \cup {taken[g]}
        /\ taken' = [taken EXCEPT ![g] = NULL]
        /\ MoveTo(g, "check")
        /\ UNCHANGED <<consumer, nextIndex, doneIndex, blocks, refLock, refValid, idx, nextAsk, result, overran, late, faults>>

\* A search fails; or there is no memory for a new block, or its consumer has none.
AccumulateFails(g) ==
    LET k == FirstMatch(taken[g])
    IN  /\ pc[g] = "accumulate"
        /\ \/ SearchFails(taken[g]) /\ UNCHANGED faults
           \/ (Singular \/ k = 0) /\ faults < MaxFaults /\ faults' = faults + 1
        /\ lost' = lost \cup {taken[g]}
        /\ taken' = [taken EXCEPT ![g] = NULL]
        /\ Return(g, Failed)
        /\ UNCHANGED <<consumer, nextIndex, doneIndex, blocks, refLock, refValid, idx, nextAsk, overran, late>>

\* The first extraction prepares the reference trace, the others wait for it.
Reference(g) ==
    /\ pc[g] = "reference"
    /\ refLock = NULL
    /\ refValid' = TRUE
    /\ MoveTo(g, "accumulate")
    /\ UNCHANGED <<consumer, nextIndex, doneIndex, blocks, refLock, idx, taken, nextAsk, result, history, faults>>

\* ... and when that fails cfg->lock is never released.
ReferenceFails(g) ==
    /\ pc[g] = "reference"
    /\ refLock = NULL
    /\ ~refValid
    /\ faults < MaxFaults /\ faults' = faults + 1
    /\ refLock' = g
    /\ lost' = lost \cup {taken[g]}
    /\ taken' = [taken EXCEPT ![g] = NULL]
    /\ Return(g, Failed)
    /\ UNCHANGED <<consumer, nextIndex, doneIndex, blocks, refValid, idx, nextAsk, overran, late>>

-----------------------------------------------------------------------------
(* __tfm_block_get *)

\* Each trace of the set is asked for once, in the order ts_render does.
Ask(g) ==
    /\ pc[g] = "idle"
    /\ nextAsk \in Indices
    /\ idx' = [idx EXCEPT ![g] = nextAsk]
    /\ nextAsk' = nextAsk + 1
    /\ MoveTo(g, "check")
    /\ UNCHANGED <<consumer, nextIndex, doneIndex, blocks, refLock, refValid, taken, result, history, faults>>

\* done_index is read without the lock.
Ready(i) == i < doneIndex

Check(g) ==
    /\ pc[g] = "check"
    /\ MoveTo(g, IF Ready(idx[g]) THEN "finalize" ELSE "take")
    /\ UNCHANGED <<consumer, nextIndex, doneIndex, blocks, refLock, refValid, idx, taken, nextAsk, result, history, faults>>

MutTakeNext(g) ==
    /\ nextIndex' = IF \E h \in Getters \ {g} : pc[h] = "fetch" THEN nextIndex ELSE nextIndex + 1
    /\ taken' = [taken EXCEPT ![g] = nextIndex]

TakeNext(g) ==
    /\ nextIndex' = nextIndex + 1
    /\ taken' = [taken EXCEPT ![g] = nextIndex]

Take(g) ==
    /\ pc[g] = "take"
    /\ TakeNext(g)
    /\ MoveTo(g, "fetch")
    /\ UNCHANGED <<consumer, doneIndex, blocks, refLock, refValid, idx, nextAsk, result, history, faults>>

\* trace_get of the previous set.
Fetch(g) ==
    /\ pc[g] = "fetch"
    /\ taken[g] \in Traces
    /\ IF Interesting(taken[g])
       THEN MoveTo(g, IF Singular THEN "reference" ELSE "accumulate") /\ UNCHANGED taken
       ELSE MoveTo(g, "check") /\ taken' = [taken EXCEPT ![g] = NULL]
    /\ UNCHANGED <<consumer, nextIndex, doneIndex, blocks, refLock, refValid, idx, nextAsk, result, history, faults>>

MutBeyond(t) == t > Len(Source)

Beyond(t) == t >= Len(Source)

\* It ends, which nothing here expects, or fails.
FetchEnds(g) ==
    /\ pc[g] = "fetch"
    /\ Beyond(taken[g])
    /\ taken' = [taken EXCEPT ![g] = NULL]
    /\ Return(g, EndOfSource)
    /\ UNCHANGED <<consumer, nextIndex, doneIndex, blocks, refLock, refValid, idx, nextAsk, history, faults>>

FetchFails(g) ==
    /\ pc[g] = "fetch"
    /\ taken[g] \in Traces
    /\ faults < MaxFaults /\ faults' = faults + 1
    /\ lost' = lost \cup {taken[g]}
    /\ taken' = [taken EXCEPT ![g] = NULL]
    /\ Return(g, Failed)
    /\ UNCHANGED <<consumer, nextIndex, doneIndex, blocks, refLock, refValid, idx, nextAsk, overran, late>>

-----------------------------------------------------------------------------
(* __block_finalize, one critical section of lock *)

BlockOf(i) == SelectInSeq(blocks, LAMBDA b : b.res = i /\ b.done)

MutKeepBlock(k, b) ==
    /\ blocks' = [blocks EXCEPT ![k] = [b EXCEPT !.res = doneIndex, !.numOut = @ + 1]]
    /\ UNCHANGED doneIndex

\* More to come: the block is promised under the next index.
KeepBlock(k, b) ==
    /\ blocks' = [blocks EXCEPT ![k] = [b EXCEPT !.res = doneIndex, !.numOut = @ + 1]]
    /\ doneIndex' = doneIndex + 1

DropBlock(k) ==
    /\ blocks' = RemoveAt(blocks, k)
    /\ UNCHANGED doneIndex

Finalize(g) ==
    LET k == BlockOf(idx[g])
        f == Finalized(blocks[k])
    IN  /\ pc[g] = "finalize"
        /\ k # 0
        /\ f.out # Failed
        /\ IF f.more THEN KeepBlock(k, f.block) ELSE DropBlock(k)
        /\ Return(g, f.out)
        /\ UNCHANGED <<consumer, nextIndex, refLock, refValid, idx, taken, nextAsk, history, faults>>

\* The consumer's part is freed, the block stays in the list.
LeaveFreed(k) ==
    /\ blocks' = [blocks EXCEPT ![k] = [EmptyBlock(@.src) EXCEPT !.res = blocks[k].res, !.done = TRUE]]
    /\ UNCHANGED doneIndex

\* The title is too long or has no memory.  By then the consumer has given the trace,
\* and the next index is promised or the consumer's part freed: the trace is gone.
TitleFails(g) ==
    LET k == BlockOf(idx[g])
        f == Finalized(blocks[k])
    IN  /\ pc[g] = "finalize"
        /\ k # 0
        /\ f.out # Failed
        /\ faults < MaxFaults /\ faults' = faults + 1
        /\ IF f.more THEN KeepBlock(k, f.block) ELSE LeaveFreed(k)
        /\ Return(g, [kind |-> "untitled", src |-> f.out.src, from |-> f.out.from])
        /\ UNCHANGED <<consumer, nextIndex, refLock, refValid, idx, taken, nextAsk, history>>

\* No such block, or the consumer fails: the block keeps its index.
FinalizeFails(g) ==
    LET k == BlockOf(idx[g])
        f == Finalized(blocks[k])
    IN  /\ pc[g] = "finalize"
        /\ k # 0 => f.out = Failed
        /\ blocks' = IF k = 0 THEN blocks ELSE [blocks EXCEPT ![k] = f.block]
        /\ Return(g, IF k = 0 THEN [kind |-> "unknown"] ELSE Failed)
        /\ UNCHANGED <<consumer, nextIndex, doneIndex, refLock, refValid, idx, taken, nextAsk, history, faults>>

-----------------------------------------------------------------------------

Step(g) ==
    \/ Check(g) \/ Take(g) \/ Fetch(g) \/ FetchEnds(g) \/ FetchFails(g)
    \/ Reference(g) \/ ReferenceFails(g)
    \/ Accumulate(g) \/ JoinFreed(g) \/ AccumulateFails(g)
    \/ Finalize(g) \/ TitleFails(g) \/ FinalizeFails(g)

Next == \E g \in Getters : Ask(g) \/ Step(g)

\* A thread runs unless it waits for cfg->lock.
Spec == Init /\ [][Next]_vars /\ \A g \in Getters : WF_vars(Step(g))

-----------------------------------------------------------------------------
(* Properties *)

TypeOK ==
    /\ consumer \in Consumers
    /\ {nextIndex, doneIndex} \subseteq Nat
    /\ \A k \in DOMAIN blocks : Range(blocks[k].items) \subseteq Traces /\ blocks[k].res \in Nat
    /\ refLock \in Getters \cup {NULL} /\ refValid \in BOOLEAN
    /\ pc \in [Getters -> {"idle", "check", "take", "fetch", "reference", "accumulate", "finalize"}]
    /\ idx \in [Getters -> Indices \cup {NULL}]
    /\ taken \in [Getters -> Nat \cup {NULL}]
    /\ nextAsk \in 0 .. Asked
    /\ lost \subseteq Traces

\* What a block has still to give.
Remaining(b) ==
    IF b.flat = <<>> THEN Range(b.items)
    ELSE Range(b.items) \ {b.flat[n] : n \in 1 .. b.finalized \cap DOMAIN b.flat}

Answered == {i \in Indices : result[i].kind \in {"best", "entry", "wild", "empty", "pattern"}}

\* The gets that failed for the title, after their block had given them its trace.
Untitled == {i \in Indices : result[i].kind = "untitled"}

Handed == Answered \cup Untitled

From(i) == Range(result[i].from)

\* Every trace of the previous set is used once: it is still to be taken, in the
\* hands of a thread, thrown away by a failure, in one block, or in what one block
\* gave, though the title may have failed then; and the results of two blocks never
\* share a trace.  Only a trace that came late to a block that was being given out
\* may go with it.
EveryTraceOnce ==
    \A t \in 0 .. nextIndex - 1 : t \in Traces /\ Interesting(t) =>
        LET hands == {g \in Getters : taken[g] = t}
            lists == {k \in DOMAIN blocks : t \in Remaining(blocks[k])}
            given == {result[i].src : i \in {j \in Handed : t \in From(j)}}
            places == Cardinality(hands) + Cardinality(lists) + Cardinality(given)
        IN  IF Singular
            THEN t \in lost \/ hands # {} \/ lists # {} \/ given # {}
            ELSE places = (IF t \in lost THEN 0 ELSE 1) \/ (t \in late /\ places = 0)

\* done_index promises: who asks for an index below it finds its block, once, unless
\* its title fails; until then just one block that can give waits under it, then
\* none; and no block waits under an index that is not promised yet.
PromisesKept ==
    /\ \A i \in Indices : result[i].kind # "unknown"
    /\ \A i \in 0 .. doneIndex - 1 :
        LET waiting == {k \in DOMAIN blocks : blocks[k].done /\ blocks[k].res = i /\ ~Freed(blocks[k])}
        IN  Cardinality(waiting) = IF i \in Handed THEN 0 ELSE 1
    /\ \A k \in DOMAIN blocks : blocks[k].done => blocks[k].res < doneIndex

\* A selection gives the best of its block, and what a sort gives gets no better,
\* unless a trace came late to a block that was already being given out.
BestFirst ==
    /\ \A i \in Answered : result[i].kind = "wild" => late # {}
    /\ \A i \in Answered : result[i].kind = "best" =>
        \A t \in From(i) : ~Better(Trace(t).value, Trace(result[i].trace).value)
    /\ \A i, j \in Answered :
        i < j /\ result[i].kind = "entry" /\ result[j].kind = "entry"
              /\ result[i].src = result[j].src =>
            ~Better(Trace(result[j].from[1]).value, Trace(result[i].from[1]).value)

\* A get fails for want of traces only when no more than one block, the last, is
\* unfinished, unless the list overran before its first block was given out.
EndMeansLastBlock ==
    (\E i \in Indices : result[i] = EndOfSource) /\ ~overran
        => Cardinality({k \in DOMAIN blocks : ~blocks[k].done}) < ListLength

ReferenceStuck == refLock # NULL

\* Whoever asks for a trace gets it or an error, unless a thread kept cfg->lock.
EveryGetReturns == \A g \in Getters : pc[g] = "check" ~> (pc[g] = "idle" \/ ReferenceStuck)

=============================================================================
