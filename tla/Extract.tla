------------------------------ MODULE Extract ------------------------------
(* How the repetitions of a pattern are found in one trace                  *)
(* (tfm_extract_pattern.c, tfm_extract_timing.c, extract_internal.c): the   *)
(* reference trace, the confident matches, the gaps between them and before *)
(* and after them, and the traces that finalize makes of the list, each     *)
(* with the data of its run: run k was fed the k-th encryption.             *)
(* Floats are integers here, a mean and a deviation three integer sums.     *)
EXTENDS Integers, Sequences, FiniteSets, FiniteSetsExt, SequencesExt

CONSTANTS
    Scenes,        \* the traces: [starts, pearson]: where the runs really are,
                   \* and the correlation of the samples with the pattern
    References,    \* the correlations of reference traces
    Num,           \* blk->num
    Expecting, AvgLen, MaxDev, PatternSize, Confidence,    \* the configuration
    Offset,        \* the index of the first timing (5227)
    MaxFaults      \* bound: failed pushes of a plot

ASSUME SizesAssumption == {Num, Expecting, AvgLen, PatternSize, Confidence} \subseteq Nat \ {0}
ASSUME MarginAssumption == {MaxDev, Offset, MaxFaults} \subseteq Nat /\ MaxDev < AvgLen

VARIABLES
    tool,          \* "pattern" or "timing"
    debugging,     \* cfg->debugging
    starts,        \* where the runs are (what timings tell a timing extraction)
    pearson,       \* blk->pearson
    ref,           \* cfg->ref: the gaps of the reference trace
    list,          \* blk->split_list
    confident, predictable, unpredictable, tail,   \* the counts
    gaps,          \* gap_mean and gap_dev: the best values in the gaps
    first, last,   \* first_pattern_match, last_pattern_match
    walk,          \* curr, timing_index, last_gap and num_gap of a timing extraction
    pushed,        \* the plots pushed to the waiter, and debug_sent when complete
    data,          \* blk->trace.data: how often it was encrypted
    out,           \* the traces given: where from and with which data
    overcounted,   \* history: more runs were counted in a gap than are there
    refused,       \* history: entries too close to the end
    phase, faults

input == <<tool, debugging, starts>>
counts == <<confident, predictable, unpredictable, tail>>
found == <<gaps, first, last, overcounted>>
vars == <<input, pearson, ref, list, counts, found, walk, pushed, data, refused, out, phase, faults>>

None == -1
Lowest == -100   \* -FLT_MAX

Samples == 0 .. Num - 1

Abs(x) == IF x < 0 THEN -x ELSE x

Confident(i) == [type |-> "confident", index |-> i, num |-> 0]
Gap(type, i, n) == [type |-> type, index |-> i, num |-> n]
TailEntry(i) == [type |-> "tail", index |-> i, num |-> 0]

-----------------------------------------------------------------------------
(* STAT_AVG and STAT_DEV *)

\* f is a function whose values are the observations.
Stat(f) ==
    [n |-> Cardinality(DOMAIN f),
     sum |-> MapThenSumSet(LAMBDA x : f[x], DOMAIN f),
     sq |-> MapThenSumSet(LAMBDA x : f[x] * f[x], DOMAIN f)]

Spread(s) == s.n * s.sq - s.sum * s.sum

\* (int) mean; 0 when there is nothing to take it of.
Mean(s) == IF s.n = 0 THEN 0 ELSE s.sum \div s.n

\* |v/r - mean| / dev compared with CONF = 49/25, all in squares; no comparison
\* with the deviation of fewer than two values, or of equal ones, holds.
Within(s, v, r) ==
    /\ s.n > 1 /\ Spread(s) > 0
    /\ (v * s.n - r * s.sum) ^ 2 * (s.n - 1) * 625 <= 2401 * r ^ 2 * s.n * Spread(s)

Beyond(s, v) ==
    /\ s.n > 1
    /\ (v * s.n - s.sum) ^ 2 * (s.n - 1) * 625 > 2401 * s.n * Spread(s)

\* roundf(d / mean)
Rounded(d) == (2 * d * ref.n + ref.sum) \div (2 * ref.sum)

-----------------------------------------------------------------------------
(* The correlation *)

\* The sample after i has its sign still, unless it is the last.
Peak(p, i) ==
    /\ Abs(p[i]) >= Confidence
    /\ Abs(p[i - 1]) < Abs(p[i])
    /\ (IF i + 1 = Num - 1 THEN Abs(p[i + 1]) ELSE p[i + 1]) < Abs(p[i])

\* After a match max_dev samples pass before the next.
SearchMatches(p) ==
    LET matches[i \in 0 .. Num - 2] ==
            IF i = 0 THEN <<>>
            ELSE LET before == matches[i - 1]
                 IN  IF Peak(p, i) /\ (before = <<>> \/ i - Last(before) >= MaxDev)
                     THEN Append(before, i) ELSE before
    IN  matches[Num - 2]

Window(base) == (base - MaxDev .. base + MaxDev - 1) \cap Samples

\* The first of the best in the window, if there is a window.
LocalMax(base) ==
    IF Window(base) = {} THEN [index |-> None, value |-> Lowest]
    ELSE LET best == Max({pearson[i] : i \in Window(base)})
         IN  [index |-> Min({i \in Window(base) : pearson[i] = best}), value |-> best]

Usual(d) == AvgLen - MaxDev <= d /\ d < AvgLen + MaxDev

-----------------------------------------------------------------------------
\* A block holds the samples and the data of its trace; that of a timing extraction
\* leaves out the timings, which are read when the trace is accumulated.
PatternBlock == tool = "pattern"
TimingBlock == tool = "timing"

Init ==
    /\ PatternBlock \/ TimingBlock
    /\ debugging \in BOOLEAN
    /\ \E s \in Scenes : starts = s.starts /\ pearson = s.pearson
    /\ ref = Stat(<<>>)
    /\ list = <<>>
    /\ confident = 0 /\ predictable = 0 /\ unpredictable = 0 /\ tail = 0
    /\ overcounted = FALSE
    /\ gaps = ref /\ first = None /\ last = None
    /\ walk = [curr |-> 1, timing |-> 1, gap |-> None, num |-> 0]
    /\ pushed = 0 /\ data = 0 /\ refused = 0 /\ out = <<>>
    /\ phase = "reference" /\ faults = 0

\* __process_ref_trace: the usual gaps between the matches of the reference trace.
ProcessReference ==
    /\ phase = "reference"
    /\ \E p \in References :
        LET m == SearchMatches(p)
            d(k) == m[k + 1] - m[k]
        IN  ref' = Stat([k \in {j \in 1 .. Len(m) - 1 : Usual(d(j))} |-> d(k)])
    /\ phase' = "matches"
    /\ UNCHANGED <<input, pearson, list, counts, found, walk, pushed, data, refused, out, faults>>

FindMatches ==
    LET m == SearchMatches(pearson)
    IN  /\ phase = "matches"
        /\ pearson' = [i \in Samples |-> Abs(pearson[i])]
        /\ list' = [k \in DOMAIN m |-> Confident(m[k])]
        /\ confident' = Len(m)
        /\ first' = IF m = <<>> THEN None ELSE m[1]
        /\ last' = IF m = <<>> THEN None ELSE Last(m)
        /\ phase' = IF tool = "timing" THEN "walk" ELSE IF m = <<>> THEN "finalize" ELSE "gaps"
        /\ UNCHANGED <<input, ref, predictable, unpredictable, tail, gaps, overcounted, walk, pushed, data, refused, out, faults>>

-----------------------------------------------------------------------------
(* Extraction by pattern: what lies between matches *)

\* Without a mean of the reference no gap is predictable.
Predictable(d) == ref.n > 0 /\ Rounded(d) > 0 /\ Within(ref, d, Rounded(d))

MutGapAt(k) ==
    LET d == list[k].index - list[k - 1].index
    IN  IF Predictable(d) THEN Gap("predictable", list[k].index, Rounded(d))
        ELSE Gap("unpredictable", list[k].index, None)

GapAt(k) ==
    LET d == list[k].index - list[k - 1].index
    IN  IF Predictable(d) THEN Gap("predictable", list[k].index, Rounded(d) - 1)
        ELSE Gap("unpredictable", list[k].index, None)

SearchGaps ==
    LET unusual == {k \in 2 .. Len(list) : ~Usual(list[k].index - list[k - 1].index)}
        known == {k \in unusual : GapAt(k).type = "predictable"}
        slots == {<<k, i>> \in known \X (1 .. Num) : i <= GapAt(k).num}
        best(s) == LocalMax(list[s[1] - 1].index + s[2] * Mean(ref)).value
    IN  /\ phase = "gaps"
        /\ list' = FlattenSeq([k \in DOMAIN list |->
                        IF k \in unusual THEN <<GapAt(k), list[k]>> ELSE <<list[k]>>])
        /\ predictable' = MapThenSumSet(LAMBDA k : GapAt(k).num, known)
        /\ unpredictable' = Cardinality(unusual \ known)
        /\ gaps' = Stat([s \in slots |-> best(s)])
        /\ phase' = IF unusual = known THEN "tail" ELSE "optimize"
        /\ UNCHANGED <<input, pearson, ref, confident, tail, first, last, overcounted, walk, pushed, data, refused, out, faults>>

NoMatch(v) == v * gaps.n < gaps.sum /\ Beyond(gaps, v)

\* The leading elements of s that may be matches.
Leading(s) == Cardinality({i \in DOMAIN s : \A j \in 1 .. i : ~NoMatch(s[j].value)})

Missed(k) == Rounded(list[k + 1].index - list[k - 1].index) - 1

\* How many runs were missed: from both ends, and when these do not meet in the
\* same samples, as many as each end finds.
Settled(k) ==
    LET num == Missed(k)
        forwards == [i \in 1 .. num |-> LocalMax(list[k - 1].index + i * Mean(ref))]
        backwards == [i \in 1 .. num |-> LocalMax(list[k + 1].index - i * Mean(ref))]
        agree == \A i \in 1 .. num : /\ forwards[i].index = backwards[num + 1 - i].index
                                     /\ ~NoMatch(forwards[i].value)
    IN  IF agree THEN num ELSE Leading(forwards) + Leading(backwards)

Unpredictable == {k \in DOMAIN list : list[k].type = "unpredictable"}

\* The arrays for the first gap cannot be had when the gap is shorter than half
\* the mean (its size is -1), or when there is no mean (2^31 entries).
NoArrays == ref.n = 0 \/ Missed(Min(Unpredictable)) < 0

OptimizeGaps ==
    /\ phase = "optimize"
    /\ ~NoArrays
    /\ list' = [k \in DOMAIN list |->
                    IF k \in Unpredictable THEN [list[k] EXCEPT !.num = Settled(k)] ELSE list[k]]
    /\ unpredictable' = MapThenSumSet(Settled, Unpredictable)
    /\ phase' = "tail"
    /\ UNCHANGED <<input, pearson, ref, confident, predictable, tail, found, walk, pushed, data, refused, out, faults>>

OptimizeFails ==
    /\ phase = "optimize"
    /\ NoArrays
    /\ phase' = "error"
    /\ UNCHANGED <<input, pearson, ref, list, counts, found, walk, pushed, data, refused, out, faults>>

-----------------------------------------------------------------------------
(* ... and before and after them *)

Missing == Expecting - confident - predictable - unpredictable

\* The slots before the first match and after the last; what is like the values in
\* the gaps is thrown away, and what is too close to the end.
Slot(i) ==
    LET best == LocalMax(i * Mean(ref) + IF i < 0 THEN first ELSE last + Mean(ref))
    IN  IF Within(gaps, best.value, 1) \/ best.index + PatternSize >= Num THEN None ELSE best.index

Slots == [i \in -Missing .. Missing - 1 |-> Slot(i)]
Hits == {i \in DOMAIN Slots : Slots[i] # None}

Span == IF Hits = {} THEN 1 ELSE Max(Hits) - Min(Hits) + 1

\* To choose among them the means of an array accumulator are needed, which it
\* refuses (see Statistics).
TailFails ==
    /\ phase = "tail"
    /\ Missing > 0 /\ Span >= Missing
    /\ phase' = "error"
    /\ UNCHANGED <<input, pearson, ref, list, counts, found, walk, pushed, data, refused, out, faults>>

\* With no hit the element before the array is taken: any number.
SearchTail ==
    /\ phase = "tail"
    /\ Missing > 0 /\ Span < Missing
    /\ \E wild \in {0, Num} :
        LET new == IF Hits = {} THEN <<wild>> ELSE [i \in 1 .. Span |-> Slots[Min(Hits) + i - 1]]
            entries(S) == LET s == SelectSeq(new, LAMBDA i : i \in S)
                          IN  [k \in DOMAIN s |-> TailEntry(s[k])]
        IN  list' = entries(None .. first - 1) \o list \o entries(first .. Num)
    /\ tail' = Span
    /\ phase' = "decide"
    /\ UNCHANGED <<input, pearson, ref, confident, predictable, unpredictable, found, walk, pushed, data, refused, out, faults>>

NoTail ==
    /\ phase = "tail"
    /\ Missing <= 0
    /\ phase' = "decide"
    /\ UNCHANGED <<input, pearson, ref, list, counts, found, walk, pushed, data, refused, out, faults>>

MutComplete == confident + predictable + unpredictable + tail <= Expecting

Complete == confident + predictable + unpredictable + tail = Expecting

IsGap(e) == e.type \in {"predictable", "unpredictable"}

\* The runs that really are between the matches before and after the gap.
Between(k) ==
    {run \in DOMAIN starts : list[k - 1].index + MaxDev <= starts[run] /\ starts[run] + MaxDev <= list[k + 1].index}

Decide ==
    /\ phase = "decide"
    /\ list' = IF Complete THEN list ELSE <<>>
    /\ overcounted' = \E k \in DOMAIN list : IsGap(list[k]) /\ list[k].num > Cardinality(Between(k))
    /\ phase' = "finalize"
    /\ UNCHANGED <<input, pearson, ref, counts, gaps, first, last, walk, pushed, data, refused, out, faults>>

-----------------------------------------------------------------------------
(* Extraction by timing: the list is walked along the timings *)

Timing(k) == starts[k] - starts[1] + Offset

\* The last entry of the list is never compared.
Walking == walk.timing <= Expecting /\ walk.curr < Len(list)

Close == Abs(Timing(walk.timing) - list[walk.curr].index) < MaxDev

IsFirst == \A k \in 1 .. walk.curr - 1 : list[k].type = "tail"

MutCloseGap == [list |-> list, by |-> 1]

\* A gap becomes an entry when the next match is found.
CloseGap ==
    IF walk.gap = None THEN [list |-> list, by |-> 1]
    ELSE [list |-> InsertAt(list, walk.curr, Gap("predictable", walk.gap, walk.num)), by |-> 2]

TimingMatches ==
    /\ phase = "walk"
    /\ Walking /\ Close
    /\ list' = CloseGap.list
    /\ walk' = [walk EXCEPT !.curr = @ + CloseGap.by, !.timing = @ + 1, !.gap = None]
    /\ UNCHANGED <<input, pearson, ref, counts, found, pushed, data, refused, out, phase, faults>>

\* Before the first match the timing is believed, later it is a gap.
TimingBefore ==
    /\ phase = "walk"
    /\ Walking /\ ~Close /\ IsFirst
    /\ list' = InsertAt(list, walk.curr, TailEntry(Timing(walk.timing)))
    /\ walk' = [walk EXCEPT !.curr = @ + 1, !.timing = @ + 1]
    /\ UNCHANGED <<input, pearson, ref, counts, found, pushed, data, refused, out, phase, faults>>

TimingMissing ==
    /\ phase = "walk"
    /\ Walking /\ ~Close /\ ~IsFirst
    /\ walk' = [walk EXCEPT !.timing = @ + 1,
                            !.gap = IF @ = None THEN Timing(walk.timing) ELSE @,
                            !.num = IF walk.gap = None THEN 1 ELSE @ + 1]
    /\ UNCHANGED <<input, pearson, ref, list, counts, found, pushed, data, refused, out, phase, faults>>

WalkEnds ==
    /\ phase = "walk"
    /\ ~Walking
    /\ phase' = "finalize"
    /\ UNCHANGED <<input, pearson, ref, list, counts, found, walk, pushed, data, refused, out, faults>>

-----------------------------------------------------------------------------
(* finalize, once for each trace that is given *)

Plots == IF tool = "pattern" THEN 5 ELSE 3

PlotsSent == debugging => pushed = Plots

PushPlots ==
    /\ phase = "finalize"
    /\ ~PlotsSent
    /\ pushed' = Plots
    /\ UNCHANGED <<input, pearson, ref, list, counts, found, walk, data, refused, out, phase, faults>>

\* A push that fails fails the get; the next one begins anew.
PushFails ==
    /\ phase = "finalize"
    /\ ~PlotsSent
    /\ faults < MaxFaults /\ faults' = faults + 1
    /\ UNCHANGED <<input, pearson, ref, list, counts, found, walk, pushed, data, refused, out, phase>>

\* The trace that tells there is none.
GiveEmpty ==
    /\ phase = "finalize"
    /\ PlotsSent
    /\ list = <<>>
    /\ phase' = "done"
    /\ UNCHANGED <<input, pearson, ref, list, counts, found, walk, pushed, data, refused, out, faults>>

Fits(e) == e.index + PatternSize < Num

\* AES128 increments the plaintext by encrypting it; the ciphertext given with it is
\* one encryption further.
Incremented(d, n) == d + n
Ciphertext(d) == Incremented(d, 1)

\* The gaps that follow count with the entry before them.
AfterGaps(rest) == Cardinality({k \in DOMAIN rest : \A j \in 1 .. k : IsGap(rest[j])})

Give ==
    LET rest == SubSeq(list, 2, Len(list))
        n == AfterGaps(rest)
    IN  /\ phase = "finalize"
        /\ PlotsSent
        /\ list # <<>> /\ ~IsGap(list[1]) /\ Fits(list[1])
        /\ out' = Append(out, [index |-> list[1].index, data |-> data, cipher |-> Ciphertext(data)])
        /\ data' = Incremented(data, 1 + MapThenSumSet(LAMBDA k : Max({rest[k].num, 0}), 1 .. n))
        /\ list' = SubSeq(rest, n + 1, Len(rest))
        /\ phase' = IF list' = <<>> THEN "done" ELSE "finalize"
        /\ UNCHANGED <<input, pearson, ref, counts, found, walk, pushed, refused, faults>>

\* The entry is gone all the same; what follows waits under the same index.
GiveFails ==
    /\ phase = "finalize"
    /\ PlotsSent
    /\ list # <<>> /\ (IsGap(list[1]) \/ ~Fits(list[1]))
    /\ list' = SubSeq(list, 2, Len(list))
    /\ refused' = refused + 1
    /\ UNCHANGED <<input, pearson, ref, counts, found, walk, pushed, data, out, phase, faults>>

-----------------------------------------------------------------------------
Next ==
    \/ ProcessReference \/ FindMatches
    \/ SearchGaps \/ OptimizeGaps \/ OptimizeFails
    \/ SearchTail \/ TailFails \/ NoTail \/ Decide
    \/ TimingMatches \/ TimingBefore \/ TimingMissing \/ WalkEnds
    \/ PushPlots \/ PushFails \/ GiveEmpty \/ Give \/ GiveFails

Spec == Init /\ [][Next]_vars

-----------------------------------------------------------------------------
(* Properties *)

RunsAt(i) == {k \in DOMAIN starts : Abs(starts[k] - i) < MaxDev}

\* Something that is no run correlates like one.
Ghost == \E i \in Samples : pearson[i] >= Confidence /\ RunsAt(i) = {}

DataTrue(j) == \A k \in RunsAt(out[j].index) : out[j].data = k - 1 /\ out[j].cipher = k

\* A trace made by pattern carries the data of its run, however many runs before it were not
\* recognised, unless something else was taken for a run, or in a gap more runs were counted
\* than are there: what is counted too little anywhere is not made up for elsewhere.
PatternDataTrue == tool = "pattern" /\ ~Ghost /\ ~overcounted => \A j \in DOMAIN out : DataTrue(j)

\* So does a trace made by timing, but for that of the last match, which is never
\* compared with a timing: runs missed just before it are not counted.
TimingDataTrue ==
    tool = "timing" /\ ~Ghost => \A j \in DOMAIN out : out[j].index # last => DataTrue(j)

\* The runs come at even distances, and each match is where its run starts.
Even ==
    /\ \A k \in DOMAIN starts \ {1} : starts[k] - starts[k - 1] = Mean(ref)
    /\ \A k \in DOMAIN list : list[k].type = "confident" => \E run \in DOMAIN starts : list[k].index = starts[run]

\* How many runs the list counts before its n-th entry.
CountedBefore(n) ==
    MapThenSumSet(LAMBDA k : IF IsGap(list[k]) THEN Max({list[k].num, 0}) ELSE 1, 1 .. n - 1)

\* Of runs that come at even distances none is counted twice, from both ends of a gap or by
\* rounding: in the list of a trace that is not rejected each entry is preceded by as many
\* counted runs as there are, and all the runs are in it, however weak they are.
EvenRunsCounted ==
    tool = "pattern" /\ phase = "finalize" /\ list # <<>> /\ out = <<>> /\ refused = 0 /\ Even =>
        /\ \A n \in DOMAIN list : ~IsGap(list[n]) => list[n].index = starts[CountedBefore(n) + 1]
        /\ CountedBefore(Len(list) + 1) = Len(starts)

=============================================================================
