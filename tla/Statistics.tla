----------------------------- MODULE Statistics -----------------------------
(* The accumulators of lib/stats: one value, two values, an array, two      *)
(* arrays (kept on the GPU, as the build has it), and the match of a        *)
(* pattern. One accumulator is created, filled, reset and asked.            *)
(* Values are integers for which every mean is one; a deviation stands for  *)
(* the sum of squares under its root, a correlation for the three sums of   *)
(* which it is the quotient.                                                *)
EXTENDS Integers, Sequences, FiniteSets, FiniteSetsExt, SequencesExt

CONSTANTS
    Accumulators,  \* [kind, dim0, dim1, requested]: what is created
    Inputs,        \* observations: sequences at least as long as any accumulator
    Pattern,       \* the pattern that is looked for in the inputs
    MaxCount,      \* bound: observations between two resets
    MaxResets, MaxFaults   \* bounds: resets, and transfers from the GPU that fail

ASSUME BoundsAssumption == {MaxCount, MaxResets, MaxFaults} \subseteq Nat

VARIABLES
    conf,          \* kind, dim0, dim1 and the capabilities asked for
    acc,           \* struct accumulator, its arrays and those of the GPU
    seen,          \* history: the observations since the last reset
    match,         \* the result of the last stat_pattern_match
    resets, faults

vars == <<conf, acc, seen, match, resets, faults>>

Extremes == {"max", "min", "maxabs", "minabs"}
Sums == {"avg", "dev"}

Lanes == 0 .. conf.dim0 + conf.dim1 - 1
Cells == 0 .. conf.dim0 * conf.dim1 - 1

\* A dual array whose second dimension is the greater is kept the other way round.
Transposed == conf.kind = "dual_array" /\ conf.dim0 < conf.dim1

Abs(x) == IF x < 0 THEN -x ELSE x

-----------------------------------------------------------------------------
(* Capabilities *)

dependencies ==
    [s \in {"avg", "dev", "cov"} \cup Extremes |->
        CASE s = "avg" -> {"dev", "cov", "pearson"}
          [] s = "dev" -> {"avg", "cov", "pearson"}
          [] s = "cov" -> {"avg", "dev", "cov", "pearson"}
          [] OTHER -> {}]

IfCap(a, s) == a.has \cap (dependencies[s] \cup {s}) # {}

\* stat_create_single_array does not keep what it is asked for.
Capabilities(c) == IF c.kind = "array" THEN {} ELSE c.requested

\* The GPU's memory is not cleared.
Created(c, junk) ==
    LET lanes == 0 .. c.dim0 + c.dim1 - 1
        cells == 0 .. c.dim0 * c.dim1 - 1
        zero == [l \in lanes |-> 0]
    IN  [has |-> Capabilities(c), count |-> 0, stale |-> FALSE,
         host |-> [s \in Sums \cup Extremes |-> zero], cov |-> [p \in cells |-> 0],
         gpu |-> [s \in Sums |-> zero], gpucov |-> [p \in cells |-> junk]]

-----------------------------------------------------------------------------
(* One observation v *)

NewMean(m, v, n) == m + (v - m) \div n

Deviation(m, v, n) == (v - m) * (v - NewMean(m, v, n))

Extreme(s, old, v) ==
    CASE s = "max" -> Max({old, v})
      [] s = "min" -> Min({old, v})
      [] s = "maxabs" -> Max({old, Abs(v)})
      [] s = "minabs" -> Min({old, Abs(v)})

\* The first observation overwrites what is there.
First(s, v) == CASE s \in {"avg", "max", "min"} -> v [] s = "dev" -> 0 [] OTHER -> Abs(v)

Later(a, s, l, v) ==
    CASE s = "avg" -> NewMean(a.host.avg[l], v, a.count + 1)
      [] s = "dev" -> a.host.dev[l] + Deviation(a.host.avg[l], v, a.count + 1)
      [] OTHER -> Extreme(s, a.host[s][l], v)

MutEntry(a, s, l, v) == IF IfCap(a, s) THEN Later(a, s, l, v) ELSE a.host[s][l]

Entry(a, s, l, v) ==
    IF ~IfCap(a, s) THEN a.host[s][l] ELSE IF a.count = 0 THEN First(s, v) ELSE Later(a, s, l, v)

AccumulateSingle(a, v) ==
    [a EXCEPT !.count = @ + 1,
              !.host = [s \in DOMAIN a.host |-> [l \in Lanes |-> Entry(a, s, l, v[l + 1])]]]

\* The covariance takes the old mean of the first and the new one of the second.
Covariance(m0, v0, m1, v1, n) == (v0 - m0) * (v1 - NewMean(m1, v1, n))

AccumulateDual(a, v) ==
    [AccumulateSingle(a, v) EXCEPT
        !.cov[0] = IF ~IfCap(a, "cov") \/ a.count = 0 THEN 0
                   ELSE @ + Covariance(a.host.avg[0], v[1], a.host.avg[1], v[2], a.count + 1)]

\* Lanes that fit a vector register; there the minima go into the maxima.
InVector(l) == l < 4 * (conf.dim0 \div 4)

ArrayEntry(a, s, l, v) ==
    LET lower == CASE s = "max" -> "min" [] s = "maxabs" -> "minabs" [] OTHER -> s
    IN  IF a.count = 0 \/ ~InVector(l) THEN Entry(a, s, l, v)
        ELSE IF s \in {"min", "minabs"} THEN a.host[s][l]
        ELSE IF s \in {"max", "maxabs"} /\ IfCap(a, lower) THEN Extreme(lower, Entry(a, s, l, v), v)
        ELSE Entry(a, s, l, v)

AccumulateArray(a, v) ==
    [a EXCEPT !.count = @ + 1,
              !.host = [s \in DOMAIN a.host |-> [l \in Lanes |-> ArrayEntry(a, s, l, v[l + 1])]]]

\* On the GPU only the sums are kept. The second array comes first, then the
\* covariances, then the first array.
Val1(g, v, len0, n) ==
    [avg |-> [l \in Lanes |-> IF l < len0 THEN g.avg[l] ELSE NewMean(g.avg[l], v[l + 1], n)],
     dev |-> [l \in Lanes |-> IF l < len0 THEN g.dev[l] ELSE g.dev[l] + Deviation(g.avg[l], v[l + 1], n)]]

Cov(g, cov, v, len0) ==
    [p \in Cells |-> LET i == p % len0
                         j == len0 + p \div len0
                     IN  cov[p] + (v[i + 1] - g.avg[i]) * (v[j + 1] - g.avg[j])]

Val0(g, v, len0, n) ==
    [avg |-> [l \in Lanes |-> IF l < len0 THEN NewMean(g.avg[l], v[l + 1], n) ELSE g.avg[l]],
     dev |-> [l \in Lanes |-> IF l < len0 THEN g.dev[l] + Deviation(g.avg[l], v[l + 1], n) ELSE g.dev[l]]]

\* The first observation clears as many covariances as there are lanes.
InitKernel(a, v) ==
    [a EXCEPT !.gpu = [avg |-> [l \in Lanes |-> v[l + 1]], dev |-> [l \in Lanes |-> 0]],
              !.gpucov = [p \in Cells |-> IF p \in Lanes THEN 0 ELSE @[p]]]

MutKernels(a, v, len0) ==
    LET n == a.count + 1
        g == Val0(Val1(a.gpu, v, len0, n), v, len0, n)
    IN  [a EXCEPT !.gpu = g, !.gpucov = Cov(g, @, v, len0)]

Kernels(a, v, len0) ==
    LET n == a.count + 1
        g == Val1(a.gpu, v, len0, n)
    IN  [a EXCEPT !.gpu = Val0(g, v, len0, n), !.gpucov = Cov(g, @, v, len0)]

AccumulateGpu(a, v, len0) ==
    [(IF a.count = 0 THEN InitKernel(a, v) ELSE Kernels(a, v, len0)) EXCEPT !.count = @ + 1, !.stale = TRUE]

Swapped(v, n, m) == SubSeq(v, n + 1, n + m) \o SubSeq(v, 1, n)

AccumulateDualArray(a, v) ==
    IF Transposed THEN AccumulateGpu(a, Swapped(v, conf.dim0, conf.dim1), conf.dim1)
    ELSE AccumulateGpu(a, v, conf.dim0)

Accumulated(a, v) ==
    CASE conf.kind = "single" -> AccumulateSingle(a, v)
      [] conf.kind = "dual" -> AccumulateDual(a, v)
      [] conf.kind = "array" -> AccumulateArray(a, v)
      [] conf.kind = "dual_array" -> AccumulateDualArray(a, v)

-----------------------------------------------------------------------------
(* Actions *)

Init ==
    /\ conf \in Accumulators
    /\ \E junk \in {0, 1} : acc = Created(conf, junk)
    /\ seen = <<>> /\ match = <<>>
    /\ resets = 0 /\ faults = 0

Width(v) == SubSeq(v, 1, conf.dim0 + conf.dim1)

Accumulate(v) ==
    /\ conf.kind # "pattern"
    /\ Len(seen) < MaxCount
    /\ acc' = Accumulated(acc, Width(v))
    /\ seen' = Append(seen, Width(v))
    /\ UNCHANGED <<conf, match, resets, faults>>

\* stat_accumulate_..._many; those of two arrays are not swapped, and used where
\* that is not needed.
AccumulateMany(v, w) ==
    /\ conf.kind # "pattern" /\ ~Transposed
    /\ Len(seen) + 1 < MaxCount
    /\ acc' = Accumulated(Accumulated(acc, Width(v)), Width(w))
    /\ seen' = seen \o <<Width(v), Width(w)>>
    /\ UNCHANGED <<conf, match, resets, faults>>

\* One value is only counted from 0 again.
Cleared(a, s) ==
    IF IfCap(a, s) /\ conf.kind # "single" THEN [l \in Lanes |-> 0] ELSE a.host[s]

Reset ==
    /\ resets < MaxResets /\ resets' = resets + 1
    /\ conf.kind # "pattern" /\ seen # <<>>
    /\ acc' = [acc EXCEPT !.count = 0, !.host = [s \in DOMAIN @ |-> Cleared(acc, s)],
                          !.cov = [p \in Cells |-> IF IfCap(acc, "cov") THEN 0 ELSE @[p]]]
    /\ seen' = <<>>
    /\ UNCHANGED <<conf, match, faults>>

\* gpu_sync_dual_array copies means, deviations and covariances in turn.
Synced(a, n) ==
    [a EXCEPT !.host.avg = a.gpu.avg,
              !.host.dev = IF n > 1 THEN a.gpu.dev ELSE @,
              !.cov = IF n > 2 THEN a.gpucov ELSE @,
              !.stale = n < 3]

\* A get of two arrays fetches them from the GPU first, or fails on the way.
Sync ==
    /\ acc.stale
    /\ acc' = Synced(acc, 3)
    /\ UNCHANGED <<conf, seen, match, resets, faults>>

SyncFails(n) ==
    /\ acc.stale
    /\ faults < MaxFaults /\ faults' = faults + 1
    /\ acc' = Synced(acc, n)
    /\ UNCHANGED <<conf, seen, match, resets>>

-----------------------------------------------------------------------------
(* The match of a pattern *)

\* What is kept of the pattern: each element less the mean up to it, and the sum of squares.
Preprocessed ==
    LET m[i \in DOMAIN Pattern] ==
            IF i = 1 THEN Pattern[1] ELSE NewMean(m[i - 1], Pattern[i], i)
    IN  [res |-> [i \in DOMAIN Pattern |-> IF i = 1 THEN 0 ELSE Pattern[i] - m[i]],
         s |-> MapThenSumSet(LAMBDA i : Deviation(m[i - 1], Pattern[i], i), 2 .. Len(Pattern))]

MutMatchAt(v, x) ==
    LET m[i \in DOMAIN Pattern] ==
            IF i = 1 THEN v[x + 1] ELSE NewMean(m[i - 1], v[x + i], i)
        rest == 2 .. Len(Pattern)
    IN  <<MapThenSumSet(LAMBDA i : (v[x + i] - m[i]) * Preprocessed.res[i], rest),
          MapThenSumSet(LAMBDA i : Deviation(m[i - 1], v[x + i], i), rest), Preprocessed.s>>

\* The window that begins at x.
MatchAt(v, x) ==
    LET m[i \in DOMAIN Pattern] ==
            IF i = 1 THEN v[x + 1] ELSE NewMean(m[i - 1], v[x + i], i)
        rest == 2 .. Len(Pattern)
    IN  <<MapThenSumSet(LAMBDA i : (v[x + i] - m[i - 1]) * Preprocessed.res[i], rest),
          MapThenSumSet(LAMBDA i : Deviation(m[i - 1], v[x + i], i), rest), Preprocessed.s>>

\* Data of another length than the accumulator was made for is refused.
Fits(v) == Len(v) = conf.dim1

\* The last window is left out.
Match(v) ==
    /\ conf.kind = "pattern"
    /\ Fits(v)
    /\ match' = [x \in 1 .. Len(v) - Len(Pattern) |-> MatchAt(v, x - 1)]
    /\ seen' = <<v>>
    /\ UNCHANGED <<conf, acc, resets, faults>>

Next ==
    \/ \E v \in Inputs : Accumulate(v) \/ Match(v)
    \/ \E v, w \in Inputs : AccumulateMany(v, w)
    \/ Reset \/ Sync \/ \E n \in {1, 2} : SyncFails(n)

Spec == Init /\ [][Next]_vars

-----------------------------------------------------------------------------
(* What is given when the host is not stale *)

Refused == <<"refused">>

\* get_all of an array of lanes: the two parts change places when transposed.
Part(l) ==
    IF ~Transposed THEN l
    ELSE IF l < conf.dim0 THEN conf.dim1 + l ELSE l - conf.dim0

\* ... and so does each covariance.
Cell(p) ==
    IF ~Transposed THEN p
    ELSE LET x == p \div conf.dim0
             y == p % conf.dim0
         IN  y * conf.dim1 + x

Checked == conf.kind # "dual_array"

\* stat_get_all: a mean or extreme, a sum of squares, or the sums of a correlation.
GetAll(s) ==
    IF Checked /\ s \notin acc.has THEN Refused
    ELSE IF s = "pearson"
    THEN [p \in Cells |-> <<acc.cov[Cell(p)], acc.host.dev[Part(p % conf.dim0)],
                            acc.host.dev[Part(conf.dim0 + p \div conf.dim0)]>>]
    ELSE IF s = "cov" THEN [p \in Cells |-> acc.cov[Cell(p)]]
    ELSE [l \in Lanes |-> acc.host[s][Part(l)]]

\* stat_get turns an index of a transposed array as if both parts were one.
Turned(s, i) ==
    IF ~Transposed THEN i
    ELSE IF s \in {"cov", "pearson"} THEN (i % conf.dim0) * conf.dim0 + i \div conf.dim0
    ELSE conf.dim0 + conf.dim1 - i

\* stat_get: one of them. Indices of correlations are held against both bounds.
Get(s, i) ==
    LET t == Turned(s, i)
    IN  IF s \notin acc.has \/ i \notin Lanes \/ (s \in {"cov", "pearson"} /\ i \notin Cells) THEN Refused
        ELSE IF s = "pearson"
        THEN <<acc.cov[t], acc.host.dev[t % conf.dim0], acc.host.dev[conf.dim0 + t \div conf.dim0]>>
        ELSE IF s = "cov" THEN acc.cov[t] ELSE acc.host[s][t]

\* Both ways of asking; the index of a transposed array is not the caller's.
Given(s, i) == {GetAll(s)[i]} \cup (IF Transposed THEN {} ELSE {Get(s, i)})

-----------------------------------------------------------------------------
(* Properties *)

Sum(f(_)) == MapThenSumSet(f, DOMAIN seen)

At(k, l) == seen[k][l + 1]

\* n times the sum of products of the distances from the means.
Products(l, m) ==
    LET x(k) == At(k, l)
        y(k) == At(k, m)
    IN  Len(seen) * Sum(LAMBDA k : x(k) * y(k)) - Sum(x) * Sum(y)

Times(n, s) == [i \in DOMAIN s |-> n * s[i]]

True(s, l, given) ==
    LET all == {At(k, l) : k \in DOMAIN seen}
    IN  CASE s = "avg" -> Len(seen) * given = Sum(LAMBDA k : At(k, l))
          [] s = "dev" -> Len(seen) * given = Products(l, l)
          [] s = "max" -> given = Max(all)
          [] s = "min" -> given = Min(all)
          [] s = "maxabs" -> given = Max({Abs(x) : x \in all})
          [] s = "minabs" -> given = Min({Abs(x) : x \in all})

Answers == seen # <<>> /\ ~acc.stale /\ conf.kind # "pattern"

\* What is given of one value is what the observations since the last reset make
\* it; two arrays have no extremes on the GPU.
StatisticsTrue ==
    Answers => \A s \in conf.requested \ {"cov", "pearson"} :
        GetAll(s) # Refused /\ ~(conf.kind = "dual_array" /\ s \in Extremes)
            => \A l \in Lanes : \A given \in Given(s, l) : True(s, l, given)

\* So is a correlation, wherever the first observation cleared the covariance.
CorrelationsTrue ==
    Answers /\ "pearson" \in conf.requested => \A p \in Cells :
        LET i == p % conf.dim0
            j == conf.dim0 + p \div conf.dim0
        IN  Cell(p) \in Lanes => \A given \in Given("pearson", p) :
                Times(Len(seen), given) = <<Products(i, j), Products(i, i), Products(j, j)>>

\* The correlation with a pattern is that of each window.
MatchTrue ==
    match # <<>> =>
        \A x \in DOMAIN match :
            LET n == Len(Pattern)
                d(i) == seen[1][x + i - 1]
                p(i) == Pattern[i]
                sum(f(_)) == MapThenSumSet(f, 1 .. n)
                products(f(_), g(_)) == n * sum(LAMBDA i : f(i) * g(i)) - sum(f) * sum(g)
            IN  Times(n, match[x]) = <<products(d, p), products(d, d), products(p, p)>>

=============================================================================
