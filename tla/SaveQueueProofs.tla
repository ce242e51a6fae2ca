-------------------------- MODULE SaveQueueProofs --------------------------
(***************************************************************************)
(* For any number of threads and traces, any choice of traces with samples  *)
(* and all failures: tfm_save loses no trace on its way to the file, reads  *)
(* back only what was written, keeps the order when one thread renders, and *)
(* owes a sentinel to exactly those who wait for one; it implements         *)
(* CommitLog.                                                               *)
(***************************************************************************)
EXTENDS SaveQueueRefinement, FiniteSetTheorems, SequenceTheorems, TLAPS

Types ==
    /\ pool \subseteq Getters
    /\ gpc \in [Getters -> {"idle", "asked", "render", "taken", "fetch",
                            "filled", "waiting", "read", "failed", "dropped"}]
    /\ gidx \in [Getters -> Nat]
    /\ gprev \in [Getters -> Nat]
    /\ asked \in Nat /\ nextPrev \in Nat /\ numWritten \in Nat
    /\ numTraces \in Nat
    /\ pending \subseteq 0 .. NPrev - 1
    /\ ready \subseteq pending \intersect Valid
    /\ sentinels \in Nat /\ sem \in Nat
    /\ cpc \in {"sleep", "commit", "dead"}
    /\ batch \subseteq Valid
    /\ batchSentinels \in Nat
    /\ count \in Nat
    /\ seen \in BOOLEAN
    /\ file \in Seq(Valid)
    /\ closer \in {"open", "join", "closed"}
    /\ header \in Nat

\* Every thread at work belongs to the render, and none is left once the set is being closed.
Workers == \A g \in Getters : gpc[g] # "idle" => g \in pool

Closing == closer # "open" => \A g \in Getters : gpc[g] \in {"idle", "failed", "dropped"}

Holding(g) == gpc[g] \in {"taken", "dropped", "fetch", "filled"}

\* What was taken is taken once, and an entry that is fetched stays in the queue till then.
Held ==
    /\ \A g \in Getters : Holding(g) => gprev[g] < nextPrev
    /\ \A g, h \in Getters : Holding(g) /\ Holding(h) /\ gprev[g] = gprev[h] => g = h
    /\ \A g \in Getters : gpc[g] \in {"taken", "dropped"} =>
          gprev[g] \notin pending /\ gprev[g] \notin batch /\ gprev[g] \notin Written
    /\ \A g \in Getters : gpc[g] = "fetch" => gprev[g] \in pending \ ready

\* The queue, the batch and the file share nothing, and hold nothing that was not taken.
Apart ==
    /\ \A p \in pending \union batch \union Written : p < nextPrev
    /\ pending \intersect batch = {}
    /\ pending \intersect Written = {}
    /\ batch \intersect Written = {}
    /\ \A m, n \in DOMAIN file : file[m] = file[n] => m = n

\* Each usable trace that was taken is somewhere, as long as the commit thread lives.
Somewhere ==
    ~Failed => \A p \in Valid : p < nextPrev =>
        \/ \E g \in Getters : gpc[g] \in {"taken", "dropped"} /\ gprev[g] = p
        \/ p \in pending \/ p \in batch \/ p \in Written

\* Until a sentinel is seen, what is accounted for has been written; the batch will be.
Accounted ==
    /\ ~seen => numWritten <= Len(file)
    /\ cpc = "sleep" => batch = {} /\ batchSentinels = 0
    /\ cpc = "commit" /\ ~seen =>
          numWritten + count <= Len(file) + Cardinality(batch) + batchSentinels

\* The end is announced with the length of the file, which then no longer grows.
Announced ==
    /\ closer # "closed" => numTraces = IF seen THEN Len(file) ELSE Unknown
    /\ closer # "open" => pending = {} /\ sentinels = 0
    /\ sem > 0 => seen
    /\ \A g \in Getters : gpc[g] = "read" /\ ~seen => gidx[g] < Len(file)
    /\ closer = "closed" => Failed

\* One thread alone takes the traces in order, and nothing overtakes on the way.
Ordered ==
    Alone =>
        /\ \A g \in Getters : Holding(g) => gprev[g] + 1 = nextPrev
        /\ \A m, n \in DOMAIN file : m < n => file[m] < file[n]
        /\ \A q \in Written, p \in Valid : p < q => p \in Written
        /\ \A p \in Written, q \in batch : p < q
        /\ \A p \in Written \union batch, q \in pending : p < q
        /\ sentinels > 0 \/ batchSentinels > 0 \/ seen => nextPrev > NPrev
        /\ batchSentinels > 0 \/ seen => pending = {}
        /\ seen => batch = {}

\* Who waits at the end is owed one sentinel.
SentinelsOwed == sentinels + batchSentinels + sem = Cardinality(At({"waiting"}))

IndInv ==
    /\ Types /\ Workers /\ Closing /\ Held /\ Apart /\ Somewhere
    /\ Accounted /\ Announced /\ Ordered /\ SentinelsOwed

-----------------------------------------------------------------------------

\* The oldest entry of a batch: a set of naturals has a least element.
LEMMA FirstOfBatch ==
    ASSUME Types, batch # {}
    PROVE  First \in batch /\ \A q \in batch : First <= q
<1>1. batch \subseteq Nat
  BY SizesAssumption DEF Types
<1>2. PICK p \in batch : \A q \in batch : ~ (<<q, p>> \in OpToRel(<, Nat))
  BY <1>1, NatLessThanWellFounded, WFMin
<1>3. \A m, n \in Nat : <<m, n>> \in OpToRel(<, Nat) <=> m < n
  BY DEF OpToRel
<1>4. \A q \in batch : ~ (q < p)
  BY <1>1, <1>2, <1>3, Zenon
<1>5. \A q \in batch : p <= q
  BY <1>1, <1>4
<1>6. QED
  BY <1>5, Zenon DEF First

Labels == {"idle", "asked", "render", "taken", "fetch", "filled", "waiting", "read", "failed", "dropped"}

\* What a thread does only to itself.
Local(g) ==
    \/ Ask(g) \/ OutOfBounds(g) \/ Check(g) \/ Reached(g) \/ ContinueRender(g)
    \/ FetchFails(g) \/ Read(g)

\* ... so that the thread no longer holds what it has taken, and nothing else changes.
LEMMA LocalStep ==
    ASSUME Types, NEW g \in Getters, Local(g)
    PROVE  /\ \E label \in Labels \ {"taken", "dropped", "fetch", "filled", "waiting"} :
                gpc' = [gpc EXCEPT ![g] = label]
           /\ gpc[g] # "waiting"
           /\ gidx' \in [Getters -> Nat] /\ asked' \in Nat
           /\ UNCHANGED <<pool, gprev, counters, queue, sem, commitVars, closeVars>>
<1> USE DEF Types, Goto, Labels
<1>1. CASE Ask(g)
  <2>1. /\ gpc' = [gpc EXCEPT ![g] = "asked"] /\ gpc[g] = "idle"
        /\ gidx' = [gidx EXCEPT ![g] = asked] /\ asked' = asked + 1
        /\ UNCHANGED <<pool, gprev, counters, queue, sem, commitVars, closeVars>>
    BY <1>1 DEF Ask
  <2>2. gidx' \in [Getters -> Nat] /\ asked' \in Nat
    BY <2>1
  <2>3. QED
    BY <2>1, <2>2
<1>2. CASE OutOfBounds(g)
  BY <1>2 DEF OutOfBounds
<1>3. CASE Check(g)
  BY <1>3 DEF Check
<1>4. CASE Reached(g)
  BY <1>4 DEF Reached
<1>5. CASE ContinueRender(g)
  BY <1>5 DEF ContinueRender
<1>6. CASE FetchFails(g)
  BY <1>6 DEF FetchFails
<1>7. CASE Read(g)
  BY <1>7 DEF Read
<1>8. QED
  BY <1>1, <1>2, <1>3, <1>4, <1>5, <1>6, <1>7 DEF Local

\* A step of a thread of the render: one label changes, and nothing of the commit thread.
LEMMA GetterStep ==
    ASSUME Types, Workers, Closing, NEW g \in Getters, Ask(g) \/ Getter(g)
    PROVE  /\ g \in pool /\ closer = "open"
           /\ \E label \in Labels : gpc' = [gpc EXCEPT ![g] = label]
           /\ UNCHANGED <<pool, numWritten, numTraces, commitVars, closeVars>>
<1> USE DEF Types, Goto, Labels, counters
<1>1. g \in pool /\ closer = "open"
  <2>1. CASE Ask(g)
    BY <2>1 DEF Ask
  <2>2. CASE Getter(g)
    <3>1. gpc[g] \notin {"idle", "failed", "dropped"}
      BY <2>2 DEF Getter, OutOfBounds, Check, Reached, Take, InsertSentinel, Insert, InsertFails, FetchFails,
                  FetchInvalid, Fetch, ContinueRender, SeeFailure, PassSentinel, Read
    <3>2. QED
      BY <3>1 DEF Workers, Closing
  <2>3. QED
    BY <2>1, <2>2
<1>2. CASE Local(g)
  BY <1>1, <1>2, LocalStep
<1>3. CASE Take(g)
  BY <1>1, <1>3 DEF Take
<1>4. CASE InsertSentinel(g)
  BY <1>1, <1>4 DEF InsertSentinel
<1>5. CASE Insert(g)
  BY <1>1, <1>5 DEF Insert
<1>6. CASE FetchInvalid(g)
  BY <1>1, <1>6 DEF FetchInvalid
<1>7. CASE Fetch(g)
  BY <1>1, <1>7 DEF Fetch
<1>8. CASE SeeFailure(g)
  BY <1>1, <1>8 DEF SeeFailure
<1>9. CASE PassSentinel(g)
  BY <1>1, <1>9 DEF PassSentinel
<1>10. CASE InsertFails(g)
  BY <1>1, <1>10 DEF InsertFails
<1>11. QED
  BY <1>2, <1>3, <1>4, <1>5, <1>6, <1>7, <1>8, <1>9, <1>10 DEF Getter, Local

\* A thread without memory for its entry keeps the index it has taken, for good.
LEMMA DropStep ==
    ASSUME Types, NEW g \in Getters, InsertFails(g)
    PROVE  /\ "memory" \in Faults
           /\ gpc[g] = "taken" /\ gpc' = [gpc EXCEPT ![g] = "dropped"]
           /\ \A h \in Getters : Holding(h)' <=> Holding(h)
           /\ \A h \in Getters : gpc'[h] \in {"taken", "dropped"} <=> gpc[h] \in {"taken", "dropped"}
           /\ \A h \in Getters : gpc[h] # "taken" => gpc'[h] = gpc[h]
           /\ \A h \in Getters : gpc'[h] \notin {"taken", "dropped"} => gpc'[h] = gpc[h]
           /\ UNCHANGED <<pool, gidx, gprev, asked, counters, queue, sem, commitVars, closeVars>>
<1>1. /\ "memory" \in Faults /\ gpc[g] = "taken" /\ gpc' = [gpc EXCEPT ![g] = "dropped"]
      /\ UNCHANGED <<pool, gidx, gprev, asked, counters, queue, sem, commitVars, closeVars>>
  BY DEF InsertFails, Goto
<1>2. gpc'[g] = "dropped" /\ \A h \in Getters : h # g => gpc'[h] = gpc[h]
  BY <1>1 DEF Types
<1>3. QED
  BY <1>1, <1>2 DEF Holding

\* The actions of the commit thread and of the exit change nothing of the render's threads.
LEMMA OtherStep ==
    ASSUME CommitThread \/ Drained \/ Close
    PROVE  UNCHANGED <<getterVars, nextPrev>>
<1>1. CASE CommitThread
  BY <1>1 DEF CommitThread, Collect, WriteTrace, WriteFails, TraceAfterSentinel, Die,
              CommitSentinel, Account, CommitUnchanged
<1>2. CASE Drained \/ Close
  BY <1>2 DEF Drained, Close, CloseUnchanged
<1>3. QED
  BY <1>1, <1>2

\* One more trace at the end of the file.
LEMMA FileGrows ==
    ASSUME Types, NEW p \in Valid, file' = Append(file, p)
    PROVE  /\ file' \in Seq(Valid)
           /\ Len(file) \in Nat /\ Len(file)' = Len(file) + 1
           /\ DOMAIN file = 1 .. Len(file) /\ (DOMAIN file)' = 1 .. Len(file) + 1
           /\ \A n \in DOMAIN file : file'[n] = file[n]
           /\ file'[Len(file) + 1] = p
           /\ Written' = Written \union {p}
<1>1. /\ file \in Seq(Valid) /\ file' \in Seq(Valid)
      /\ Len(file) \in Nat /\ Len(file') = Len(file) + 1
      /\ DOMAIN file = 1 .. Len(file) /\ DOMAIN file' = 1 .. Len(file) + 1
      /\ \A n \in 1 .. Len(file) : file'[n] = file[n]
      /\ file'[Len(file) + 1] = p
  BY DEF Types
<1>2. {file'[n] : n \in DOMAIN file'} = {file[n] : n \in DOMAIN file} \union {p}
  BY <1>1
<1>3. QED
  BY <1>1, <1>2 DEF Written

LEMMA WriteStep ==
    ASSUME Types, WriteTrace
    PROVE  /\ First \in batch /\ \A q \in batch : First <= q
           /\ cpc = "commit" /\ ~seen
           /\ file' = Append(file, First)
           /\ batch' = batch \ {First}
           /\ file' \in Seq(Valid)
           /\ Len(file) \in Nat /\ Len(file)' = Len(file) + 1
           /\ DOMAIN file = 1 .. Len(file) /\ (DOMAIN file)' = 1 .. Len(file) + 1
           /\ \A n \in DOMAIN file : file'[n] = file[n]
           /\ file'[Len(file) + 1] = First
           /\ Written' = Written \union {First}
           /\ UNCHANGED <<getterVars, counters, queue, sem, cpc, batchSentinels, count, seen, closeVars>>
<1>1. /\ batch # {} /\ cpc = "commit" /\ ~seen
      /\ file' = Append(file, First)
      /\ batch' = batch \ {First}
      /\ UNCHANGED <<getterVars, counters, queue, sem, cpc, batchSentinels, count, seen, closeVars>>
  BY DEF WriteTrace, CommitUnchanged, counters
<1>2. First \in batch /\ \A q \in batch : First <= q
  BY <1>1, FirstOfBatch
<1>3. First \in Valid
  BY <1>2 DEF Types
<1>4. QED
  BY <1>1, <1>2, <1>3, FileGrows

LEMMA CollectStep ==
    ASSUME Types, Collect
    PROVE  /\ cpc = "sleep" /\ cpc' = "commit" /\ closer = "open"
           /\ batch' = Complete /\ pending' = pending \ Complete /\ ready' = ready \ Complete
           /\ batchSentinels' = CompleteSentinels /\ sentinels' = sentinels - CompleteSentinels
           /\ CompleteSentinels \in {0, sentinels}
           /\ CompleteSentinels > 0 => Complete = pending
           /\ Complete \subseteq pending /\ Complete \subseteq ready
           /\ \A p \in Complete, q \in pending \ Complete : p < q
           /\ count' = Cardinality(Complete) + CompleteSentinels
           /\ UNCHANGED <<getterVars, counters, sem, seen, file, closeVars>>
<1>1. \A p, q \in pending : p <= q \/ q <= p
  BY SizesAssumption DEF Types
<1>2. \A p, q, r \in pending : p <= q /\ q <= r => p <= r
  BY SizesAssumption DEF Types
<1>3. \A p \in Complete, q \in pending \ Complete : ~ (q <= p)
  BY <1>2 DEF Complete
<1>4. \A p, q \in pending : p <= q /\ ~ (q <= p) => p < q
  BY SizesAssumption DEF Types
<1>5. /\ Complete \subseteq pending
      /\ \A p \in Complete, q \in pending \ Complete : p < q
  BY <1>1, <1>3, <1>4 DEF Complete
<1>6. Complete \subseteq ready
  BY <1>1 DEF Complete
<1>7. QED
  BY <1>5, <1>6 DEF Collect, CompleteSentinels, Remaining, Unlocked, CommitUnchanged, counters, Types

-----------------------------------------------------------------------------
(* Types *)

LEMMA TypesInit == Init => Types
<1>1. <<>> \in Seq(Valid)
  OBVIOUS
<1>2. ASSUME Init
      PROVE  /\ gpc \in [Getters -> Labels]
             /\ gidx \in [Getters -> Nat] /\ gprev \in [Getters -> Nat]
  BY <1>2 DEF Init, Labels
<1>3. ASSUME Init
      PROVE  /\ pending \subseteq 0 .. NPrev - 1 /\ ready \subseteq pending \intersect Valid
             /\ batch \subseteq Valid /\ file \in Seq(Valid) /\ pool \subseteq Getters
  BY <1>1, <1>3 DEF Init
<1>4. ASSUME Init
      PROVE  /\ asked \in Nat /\ nextPrev \in Nat /\ numWritten \in Nat /\ numTraces \in Nat
             /\ sentinels \in Nat /\ sem \in Nat /\ batchSentinels \in Nat
             /\ count \in Nat /\ header \in Nat
             /\ cpc = "sleep" /\ seen = FALSE /\ closer = "open"
  BY <1>4 DEF Init, Unknown
<1>5. QED
  BY <1>2, <1>3, <1>4 DEF Types, Labels

LEMMA TypesStep ==
    ASSUME Types, Workers, Closing, Held, [Next]_vars
    PROVE  Types'
<1> USE SizesAssumption DEF getterVars, counters, queue, commitVars, closeVars
<1>1. ASSUME NEW g \in Getters, Ask(g) \/ Getter(g)
      PROVE  Types'
  <2>1. /\ gpc' \in [Getters -> Labels]
        /\ UNCHANGED <<pool, numWritten, numTraces, cpc, batch, batchSentinels, count, seen, file, closer, header>>
    BY <1>1, GetterStep DEF Types, Labels
  <2>2. CASE Local(g)
    BY <2>1, <2>2, LocalStep DEF Types, Labels
  <2>3. CASE Take(g)
    BY <2>1, <2>3 DEF Take, Types, Labels
  <2>4. CASE InsertSentinel(g)
    BY <2>1, <2>4 DEF InsertSentinel, Types, Labels
  <2>5. CASE Insert(g)
    <3>1. gprev[g] \in 0 .. NPrev - 1
      BY <2>5 DEF Insert, PastEnd, Types
    <3>2. /\ pending' = pending \union {gprev[g]}
          /\ UNCHANGED <<gidx, gprev, asked, nextPrev, ready, sentinels, sem>>
      BY <2>5 DEF Insert
    <3>3. pending' \subseteq 0 .. NPrev - 1 /\ ready' \subseteq pending' \intersect Valid
      BY <3>1, <3>2 DEF Types
    <3>4. QED
      BY <2>1, <3>2, <3>3 DEF Types, Labels
  <2>6. CASE FetchInvalid(g) \/ SeeFailure(g)
    <3>1. /\ pending' = pending \ {gprev[g]} /\ ready' = ready \ {gprev[g]}
          /\ UNCHANGED <<gidx, gprev, asked, nextPrev, sentinels, sem>>
      BY <2>6 DEF FetchInvalid, SeeFailure, RemoveEntry
    <3>2. pending' \subseteq 0 .. NPrev - 1 /\ ready' \subseteq pending' \intersect Valid
      BY <3>1 DEF Types
    <3>3. QED
      BY <2>1, <3>1, <3>2 DEF Types, Labels
  <2>7. CASE Fetch(g)
    <3>1. /\ ready' = ready \union {gprev[g]} /\ gprev[g] \in Valid
          /\ UNCHANGED <<gidx, gprev, asked, nextPrev, pending, sentinels, sem>>
      BY <2>7 DEF Fetch
    <3>2. gprev[g] \in pending
      BY <2>7 DEF Fetch, Held
    <3>3. QED
      BY <2>1, <3>1, <3>2 DEF Types, Labels
  <2>8. CASE PassSentinel(g)
    BY <2>1, <2>8 DEF PassSentinel, Types, Labels
  <2>9. CASE InsertFails(g)
    BY <2>1, <2>9 DEF InsertFails, Types, Labels
  <2>10. QED
    BY <1>1, <2>2, <2>3, <2>4, <2>5, <2>6, <2>7, <2>8, <2>9 DEF Getter, Local
<1>2. CASE Collect
  <2>1. pending' \subseteq 0 .. NPrev - 1 /\ ready' \subseteq pending' \intersect Valid /\ batch' \subseteq Valid
    BY <1>2, CollectStep DEF Types
  <2>2. IsFiniteSet(Complete)
    <3>1. Complete \subseteq 0 .. NPrev - 1
      BY <1>2, CollectStep DEF Types
    <3>2. IsFiniteSet(0 .. NPrev - 1)
      BY FS_Interval
    <3>3. QED
      BY <3>1, <3>2, FS_Subset
  <2>3. count' \in Nat
    BY <1>2, <2>2, CollectStep, FS_CardinalityType DEF Types
  <2>4. batchSentinels' \in Nat /\ sentinels' \in Nat
    BY <1>2, CollectStep DEF Types
  <2>5. cpc' = "commit" /\ UNCHANGED <<getterVars, counters, sem, seen, file, closeVars>>
    BY <1>2, CollectStep
  <2>6. QED
    BY <2>1, <2>3, <2>4, <2>5 DEF Types
<1>3. CASE WriteTrace
  <2>1. batch' \subseteq Valid
    BY <1>3, WriteStep DEF Types
  <2>2. QED
    BY <1>3, <2>1, WriteStep DEF Types
<1>4. CASE WriteFails \/ TraceAfterSentinel
  BY <1>4 DEF WriteFails, TraceAfterSentinel, Die, CommitUnchanged, Types
<1>5. CASE CommitSentinel
  <2>1. Len(file) \in Nat
    BY DEF Types
  <2>2. QED
    BY <1>5, <2>1 DEF CommitSentinel, SetNumTraces, PostSentinel, CommitUnchanged, Types
<1>6. CASE Account
  BY <1>6 DEF Account, CommitUnchanged, Types
<1>7. CASE Drained \/ Close
  BY <1>7 DEF Drained, Close, CloseUnchanged, Types
<1>8. CASE UNCHANGED vars
  BY <1>8 DEF vars, Types
<1>9. QED
  BY <1>1, <1>2, <1>3, <1>4, <1>5, <1>6, <1>7, <1>8 DEF Next, CommitThread

-----------------------------------------------------------------------------
(* Threads *)

LEMMA WorkersStep ==
    ASSUME Types, Workers, Closing, [Next]_vars
    PROVE  Workers' /\ Closing'
<1>1. ASSUME NEW g \in Getters, Ask(g) \/ Getter(g)
      PROVE  Workers' /\ Closing'
  BY <1>1, GetterStep DEF Workers, Closing, Types, closeVars
<1>2. CASE CommitThread
  <2>1. UNCHANGED <<getterVars, closeVars>>
    BY <1>2 DEF CommitThread, Collect, WriteTrace, WriteFails, TraceAfterSentinel, Die,
                CommitSentinel, Account, CommitUnchanged
  <2>2. QED
    BY <2>1 DEF Workers, Closing, getterVars, closeVars
<1>3. CASE Drained
  BY <1>3 DEF Drained, RenderOver, CloseUnchanged, Workers, Closing, getterVars
<1>4. CASE Close
  BY <1>4 DEF Close, CloseUnchanged, Workers, Closing, getterVars
<1>5. CASE UNCHANGED vars
  BY <1>5 DEF vars, Workers, Closing, getterVars, closeVars
<1>6. QED
  BY <1>1, <1>2, <1>3, <1>4, <1>5 DEF Next

\* A thread that stops holding, and changes neither the queue nor what is written.
LEMMA LetGo ==
    ASSUME Types, Held, NEW g \in Getters, NEW label \in Labels \ {"taken", "dropped", "fetch", "filled"},
           gpc' = [gpc EXCEPT ![g] = label],
           UNCHANGED <<gprev, nextPrev, pending, ready, batch, file>>
    PROVE  Held'
<1>1. \A h \in Getters : Holding(h)' => Holding(h) /\ gpc'[h] = gpc[h]
  BY DEF Holding, Types, Labels
<1>2. \A h \in Getters : gpc'[h] \in {"taken", "dropped", "fetch"} => gpc'[h] = gpc[h]
  BY DEF Types, Labels
<1>3. Written' = Written
  BY DEF Written
<1>4. QED
  BY <1>1, <1>2, <1>3 DEF Held

LEMMA HeldStep ==
    ASSUME Types, Workers, Closing, Held, Apart, [Next]_vars
    PROVE  Held'
<1> USE DEF getterVars, counters, queue, commitVars, closeVars
<1>1. ASSUME NEW g \in Getters, Ask(g) \/ Getter(g)
      PROVE  Held'
  <2>0. UNCHANGED <<batch, file>> /\ Written' = Written
    BY <1>1, GetterStep DEF Written
  <2>1. CASE Local(g)
    BY <2>1, LocalStep, LetGo
  <2>2. CASE Take(g)
    <3>1. /\ gpc' = [gpc EXCEPT ![g] = "taken"]
          /\ gprev' = [gprev EXCEPT ![g] = nextPrev]
          /\ nextPrev' = nextPrev + 1
          /\ UNCHANGED <<pending, ready>>
      BY <2>2 DEF Take, Goto
    <3>2. \A h \in Getters : h # g => gpc'[h] = gpc[h] /\ gprev'[h] = gprev[h]
      BY <3>1 DEF Types
    <3>3. gpc'[g] = "taken" /\ gprev'[g] = nextPrev
      BY <3>1 DEF Types
    <3>4. \A h \in Getters : h # g /\ Holding(h)' => Holding(h) /\ gprev'[h] < nextPrev
      BY <3>2 DEF Holding, Held
    <3>5. nextPrev \in Nat /\ nextPrev \notin pending /\ nextPrev \notin batch /\ nextPrev \notin Written
      BY DEF Types, Apart
    <3>6. \A h \in Getters : gprev[h] \in Nat
      BY DEF Types
    <3>7. \A h \in Getters : Holding(h)' => gprev'[h] < nextPrev'
      BY <3>1, <3>2, <3>3, <3>4, <3>5, <3>6
    <3>8. \A h, k \in Getters : Holding(h)' /\ Holding(k)' /\ gprev'[h] = gprev'[k] => h = k
      BY <3>2, <3>3, <3>4, <3>5, <3>6 DEF Held
    <3>9. QED
      BY <2>0, <3>1, <3>2, <3>3, <3>5, <3>7, <3>8 DEF Held
  <2>3. CASE InsertSentinel(g)
    BY <2>0, <2>3, LetGo DEF InsertSentinel, Goto, Labels
  <2>4. CASE Insert(g)
    <3>1. /\ gpc[g] = "taken" /\ gpc' = [gpc EXCEPT ![g] = "fetch"]
          /\ pending' = pending \union {gprev[g]}
          /\ UNCHANGED <<gprev, nextPrev, ready>>
      BY <2>4 DEF Insert, Goto
    <3>2. /\ \A h \in Getters : h # g => gpc'[h] = gpc[h]
          /\ gpc'[g] = "fetch"
      BY <3>1 DEF Types
    <3>3. \A h \in Getters : Holding(h)' => Holding(h)
      BY <3>1, <3>2 DEF Holding
    <3>4. \A h \in Getters : gpc'[h] \in {"taken", "dropped"} => h # g /\ gpc[h] = gpc'[h] /\ gprev[h] # gprev[g]
      BY <3>1, <3>2 DEF Held, Holding
    <3>5. gprev[g] \notin ready
      BY <3>1 DEF Held, Types
    <3>6. QED
      BY <2>0, <3>1, <3>2, <3>3, <3>4, <3>5 DEF Held
  <2>5. CASE FetchInvalid(g) \/ SeeFailure(g)
    <3>1. /\ Holding(g)
          /\ gpc' = [gpc EXCEPT ![g] = "render"] \/ gpc' = [gpc EXCEPT ![g] = "failed"]
          /\ pending' = pending \ {gprev[g]} /\ ready' = ready \ {gprev[g]}
          /\ UNCHANGED <<gprev, nextPrev>>
      BY <2>5 DEF FetchInvalid, SeeFailure, RemoveEntry, Goto, Holding
    <3>2. /\ \A h \in Getters : h # g => gpc'[h] = gpc[h]
          /\ gpc'[g] \in {"render", "failed"}
      BY <3>1 DEF Types
    <3>3. \A h \in Getters : Holding(h)' => Holding(h) /\ h # g
      BY <3>1, <3>2 DEF Holding
    <3>4. \A h \in Getters : gpc'[h] = "fetch" => gprev[h] # gprev[g]
      BY <3>1, <3>2 DEF Held, Holding
    <3>5. QED
      BY <2>0, <3>1, <3>2, <3>3, <3>4 DEF Held
  <2>6. CASE Fetch(g)
    <3>1. /\ gpc[g] = "fetch" /\ gpc' = [gpc EXCEPT ![g] = "filled"]
          /\ ready' = ready \union {gprev[g]}
          /\ UNCHANGED <<gprev, nextPrev, pending>>
      BY <2>6 DEF Fetch, Goto
    <3>2. /\ \A h \in Getters : h # g => gpc'[h] = gpc[h]
          /\ gpc'[g] = "filled"
      BY <3>1 DEF Types
    <3>3. \A h \in Getters : Holding(h)' => Holding(h)
      BY <3>1, <3>2 DEF Holding
    <3>4. \A h \in Getters : gpc'[h] = "fetch" => gprev[h] # gprev[g]
      BY <3>1, <3>2 DEF Held, Holding
    <3>5. QED
      BY <2>0, <3>1, <3>2, <3>3, <3>4 DEF Held
  <2>7. CASE PassSentinel(g)
    BY <2>0, <2>7, LetGo DEF PassSentinel, Goto, Labels
  <2>8. CASE InsertFails(g)
    <3>1. /\ \A h \in Getters : Holding(h)' <=> Holding(h)
          /\ \A h \in Getters : gpc'[h] \in {"taken", "dropped"} <=> gpc[h] \in {"taken", "dropped"}
          /\ \A h \in Getters : gpc'[h] \notin {"taken", "dropped"} => gpc'[h] = gpc[h]
          /\ UNCHANGED <<gprev, nextPrev, pending, ready>>
      BY <2>8, DropStep
    <3>2. QED
      BY <2>0, <3>1 DEF Held
  <2>9. QED
    BY <1>1, <2>1, <2>2, <2>3, <2>4, <2>5, <2>6, <2>7, <2>8 DEF Getter, Local
<1>2. CASE Collect
  <2>1. UNCHANGED <<gpc, gprev, nextPrev, file>> /\ Written' = Written
    BY <1>2, CollectStep DEF Written
  <2>2. \A g \in Getters : Holding(g)' <=> Holding(g)
    BY <2>1 DEF Holding
  <2>3. /\ pending' = pending \ Complete /\ ready' = ready \ Complete /\ batch' = Complete
        /\ Complete \subseteq pending /\ Complete \subseteq ready
    BY <1>2, CollectStep
  <2>4. QED
    BY <2>1, <2>2, <2>3 DEF Held
<1>3. CASE WriteTrace
  <2>1. UNCHANGED <<gpc, gprev, nextPrev, pending, ready>>
    BY <1>3, WriteStep
  <2>2. \A g \in Getters : Holding(g)' <=> Holding(g)
    BY <2>1 DEF Holding
  <2>3. First \in batch /\ batch' = batch \ {First} /\ Written' = Written \union {First}
    BY <1>3, WriteStep
  <2>4. QED
    BY <2>1, <2>2, <2>3 DEF Held
<1>4. CASE WriteFails \/ TraceAfterSentinel \/ CommitSentinel \/ Account \/ Drained \/ Close \/ UNCHANGED vars
  <2>1. UNCHANGED <<gpc, gprev, nextPrev, pending, ready, batch, file>>
    BY <1>4 DEF WriteFails, TraceAfterSentinel, Die, CommitSentinel, Account, CommitUnchanged,
                Drained, Close, CloseUnchanged, vars
  <2>2. \A g \in Getters : Holding(g)' <=> Holding(g)
    BY <2>1 DEF Holding
  <2>3. Written' = Written
    BY <2>1 DEF Written
  <2>4. QED
    BY <2>1, <2>2, <2>3 DEF Held
<1>5. QED
  BY <1>1, <1>2, <1>3, <1>4 DEF Next, CommitThread

-----------------------------------------------------------------------------
(* Traces *)

LEMMA ApartStep ==
    ASSUME Types, Workers, Closing, Held, Apart, [Next]_vars
    PROVE  Apart'
<1> USE DEF getterVars, counters, queue, commitVars, closeVars
<1>0. ASSUME UNCHANGED <<batch, file>>, pending' \subseteq pending, nextPrev' \in {nextPrev, nextPrev + 1}
      PROVE  Apart'
  <2>1. Written' = Written
    BY <1>0 DEF Written
  <2>2. \A p \in pending \union batch \union Written : p \in Nat
    <3>1. pending \subseteq Nat /\ batch \subseteq Valid /\ file \in Seq(Valid) /\ Valid \subseteq Nat
      BY SizesAssumption DEF Types
    <3>2. Written \subseteq Valid
      BY <3>1 DEF Written
    <3>3. QED
      BY <3>1, <3>2
  <2>3. \A p \in pending \union batch \union Written : p < nextPrev'
    BY <1>0, <2>2 DEF Apart, Types
  <2>4. QED
    BY <1>0, <2>1, <2>3 DEF Apart
<1>1. ASSUME NEW g \in Getters, Ask(g) \/ Getter(g)
      PROVE  Apart'
  <2>0. UNCHANGED <<batch, file>> /\ Written' = Written
    BY <1>1, GetterStep DEF Written
  <2>1. CASE Local(g)
    BY <1>0, <2>0, <2>1, LocalStep
  <2>2. CASE Take(g)
    BY <1>0, <2>0, <2>2 DEF Take
  <2>3. CASE InsertSentinel(g) \/ InsertFails(g) \/ Fetch(g) \/ PassSentinel(g)
    BY <1>0, <2>0, <2>3 DEF InsertSentinel, InsertFails, Fetch, PassSentinel
  <2>4. CASE Insert(g)
    <3>1. gpc[g] = "taken" /\ pending' = pending \union {gprev[g]} /\ nextPrev' = nextPrev
      BY <2>4 DEF Insert
    <3>2. gprev[g] < nextPrev /\ gprev[g] \notin batch /\ gprev[g] \notin Written
      BY <3>1 DEF Held, Holding
    <3>3. QED
      BY <2>0, <3>1, <3>2 DEF Apart
  <2>5. CASE FetchInvalid(g) \/ SeeFailure(g)
    BY <1>0, <2>0, <2>5 DEF FetchInvalid, SeeFailure, RemoveEntry
  <2>6. QED
    BY <1>1, <2>1, <2>2, <2>3, <2>4, <2>5 DEF Getter, Local
<1>2. CASE Collect
  <2>1. UNCHANGED <<nextPrev, file>> /\ Written' = Written
    BY <1>2, CollectStep DEF Written
  <2>2. pending' = pending \ Complete /\ batch' = Complete /\ Complete \subseteq pending
    BY <1>2, CollectStep
  <2>3. QED
    BY <2>1, <2>2 DEF Apart
<1>3. CASE WriteTrace
  <2>1. /\ First \in batch /\ batch' = batch \ {First} /\ Written' = Written \union {First}
        /\ UNCHANGED <<pending, nextPrev>>
    BY <1>3, WriteStep
  <2>2. \A p \in (pending \union batch \union Written)' : p < nextPrev'
    BY <2>1 DEF Apart
  <2>3. (pending \intersect batch)' = {} /\ (pending \intersect Written)' = {} /\ (batch \intersect Written)' = {}
    BY <2>1 DEF Apart
  <2>4. ASSUME NEW m \in (DOMAIN file)', NEW n \in (DOMAIN file)', file'[m] = file'[n]
        PROVE  m = n
    <3>1. /\ Len(file) \in Nat
          /\ DOMAIN file = 1 .. Len(file) /\ (DOMAIN file)' = 1 .. Len(file) + 1
          /\ \A k \in DOMAIN file : file'[k] = file[k]
          /\ file'[Len(file) + 1] = First
      BY <1>3, WriteStep
    <3>2. \A k \in DOMAIN file : file[k] # First
      BY <2>1 DEF Apart, Written
    <3>3. \A k \in (DOMAIN file)' : k \in DOMAIN file \/ k = Len(file) + 1
      BY <3>1
    <3>4. QED
      BY <2>4, <3>1, <3>2, <3>3 DEF Apart
  <2>5. QED
    BY <2>2, <2>3, <2>4 DEF Apart
<1>4. CASE WriteFails \/ TraceAfterSentinel \/ CommitSentinel \/ Account \/ Drained \/ Close \/ UNCHANGED vars
  <2>1. UNCHANGED <<nextPrev, pending, batch, file>>
    BY <1>4 DEF WriteFails, TraceAfterSentinel, Die, CommitSentinel, Account, CommitUnchanged,
                Drained, Close, CloseUnchanged, vars
  <2>2. QED
    BY <1>0, <2>1
<1>5. QED
  BY <1>1, <1>2, <1>3, <1>4 DEF Next, CommitThread

LEMMA SomewhereStep ==
    ASSUME Types, Workers, Closing, Held, Apart, Somewhere, Accounted, [Next]_vars
    PROVE  Somewhere'
<1> USE DEF getterVars, counters, queue, commitVars, closeVars
<1> SUFFICES ASSUME ~Failed', NEW p \in Valid, p < nextPrev'
             PROVE  \/ \E g \in Getters : gpc'[g] \in {"taken", "dropped"} /\ gprev'[g] = p
                    \/ p \in pending' \/ p \in batch' \/ p \in Written'
  BY DEF Somewhere
<1>1. ASSUME NEW g \in Getters, Ask(g) \/ Getter(g)
      PROVE  \/ \E h \in Getters : gpc'[h] \in {"taken", "dropped"} /\ gprev'[h] = p
             \/ p \in pending' \/ p \in batch' \/ p \in Written'
  <2>0. UNCHANGED <<batch, file>> /\ Written' = Written /\ ~Failed
    BY <1>1, GetterStep DEF Written, Failed
  <2>1. ASSUME gpc[g] \notin {"taken", "dropped"}, \A h \in Getters \ {g} : gpc'[h] = gpc[h],
               UNCHANGED <<gprev, nextPrev>>, pending \ {gprev[g]} \subseteq pending',
               p = gprev[g] => pending \subseteq pending'
        PROVE  \/ \E h \in Getters : gpc'[h] \in {"taken", "dropped"} /\ gprev'[h] = p
               \/ p \in pending' \/ p \in batch' \/ p \in Written'
    BY <2>0, <2>1 DEF Somewhere
  <2>2. CASE Local(g)
    <3>1. gpc[g] \notin {"taken", "dropped"}
      BY <2>2 DEF Local, Ask, OutOfBounds, Check, Reached, ContinueRender, FetchFails, Read
    <3>2. PICK label : gpc' = [gpc EXCEPT ![g] = label]
      BY <2>2, LocalStep
    <3>3. UNCHANGED <<gprev, nextPrev, pending>>
      BY <2>2, LocalStep
    <3>4. \A h \in Getters \ {g} : gpc'[h] = gpc[h]
      BY <3>2 DEF Types
    <3>5. QED
      BY <2>1, <3>1, <3>3, <3>4
  <2>3. CASE Take(g)
    <3>1. /\ gpc[g] = "render" /\ gpc' = [gpc EXCEPT ![g] = "taken"]
          /\ gprev' = [gprev EXCEPT ![g] = nextPrev] /\ nextPrev' = nextPrev + 1
          /\ pending' = pending
      BY <2>3 DEF Take, Goto
    <3>2. /\ \A h \in Getters : h # g => gpc'[h] = gpc[h] /\ gprev'[h] = gprev[h]
          /\ gpc'[g] = "taken" /\ gprev'[g] = nextPrev
      BY <3>1 DEF Types
    <3>3. p = nextPrev \/ p < nextPrev
      BY <3>1, SizesAssumption DEF Types
    <3>4. QED
      BY <2>0, <3>1, <3>2, <3>3 DEF Somewhere
  <2>4. CASE InsertSentinel(g)
    <3>1. /\ gpc' = [gpc EXCEPT ![g] = "waiting"] /\ gprev[g] >= NPrev
          /\ UNCHANGED <<gprev, nextPrev, pending>>
      BY <2>4 DEF InsertSentinel, Goto, PastEnd
    <3>2. \A h \in Getters : h # g => gpc'[h] = gpc[h]
      BY <3>1 DEF Types
    <3>3. p # gprev[g]
      BY <3>1, SizesAssumption DEF Types
    <3>4. QED
      BY <2>0, <3>1, <3>2, <3>3 DEF Somewhere
  <2>5. CASE Insert(g)
    <3>1. /\ gpc' = [gpc EXCEPT ![g] = "fetch"] /\ pending' = pending \union {gprev[g]}
          /\ UNCHANGED <<gprev, nextPrev>>
      BY <2>5 DEF Insert, Goto
    <3>2. \A h \in Getters : h # g => gpc'[h] = gpc[h]
      BY <3>1 DEF Types
    <3>3. QED
      BY <2>0, <3>1, <3>2 DEF Somewhere
  <2>6. CASE FetchInvalid(g)
    <3>1. /\ gpc[g] = "fetch" /\ gpc' = [gpc EXCEPT ![g] = "render"] /\ gprev[g] \notin Valid
          /\ pending' = pending \ {gprev[g]} /\ UNCHANGED <<gprev, nextPrev>>
      BY <2>6 DEF FetchInvalid, RemoveEntry, Goto
    <3>2. QED
      BY <2>1, <3>1 DEF Types
  <2>7. CASE SeeFailure(g)
    BY <2>0, <2>7 DEF SeeFailure
  <2>8. CASE Fetch(g) \/ PassSentinel(g)
    <3>1. /\ gpc[g] \notin {"taken", "dropped"}
          /\ gpc' = [gpc EXCEPT ![g] = "filled"] \/ gpc' = [gpc EXCEPT ![g] = "read"]
          /\ UNCHANGED <<gprev, nextPrev, pending>>
      BY <2>8 DEF Fetch, PassSentinel, Goto
    <3>2. QED
      BY <2>1, <3>1 DEF Types
  <2>9. CASE InsertFails(g)
    BY <2>0, <2>9, DropStep DEF Somewhere
  <2>10. QED
    BY <1>1, <2>2, <2>3, <2>4, <2>5, <2>6, <2>7, <2>8, <2>9 DEF Getter, Local
<1>2. CASE Collect
  <2>1. UNCHANGED <<gpc, gprev, nextPrev, file>> /\ Written' = Written
    BY <1>2, CollectStep DEF Written
  <2>2. pending' = pending \ Complete /\ batch' = Complete /\ cpc = "sleep"
    BY <1>2, CollectStep
  <2>3. p \notin batch
    BY <2>2 DEF Accounted
  <2>4. QED
    BY <2>1, <2>2, <2>3 DEF Somewhere, Failed
<1>3. CASE WriteTrace
  <2>1. /\ batch' = batch \ {First} /\ Written' = Written \union {First} /\ cpc = "commit"
        /\ UNCHANGED <<gpc, gprev, pending, nextPrev>>
    BY <1>3, WriteStep
  <2>2. QED
    BY <2>1 DEF Somewhere, Failed
<1>4. CASE WriteFails \/ TraceAfterSentinel
  BY <1>4 DEF WriteFails, TraceAfterSentinel, Die, Failed
<1>5. CASE CommitSentinel \/ Account \/ Drained \/ Close \/ UNCHANGED vars
  <2>1. /\ UNCHANGED <<gpc, gprev, nextPrev, pending, batch, file>>
        /\ cpc' # "dead" => cpc # "dead"
    BY <1>5 DEF CommitSentinel, Account, CommitUnchanged, Drained, Close, CloseUnchanged, vars
  <2>2. Written' = Written
    BY <2>1 DEF Written
  <2>3. QED
    BY <2>1, <2>2 DEF Somewhere, Failed
<1>6. QED
  BY <1>1, <1>2, <1>3, <1>4, <1>5 DEF Next, CommitThread

-----------------------------------------------------------------------------
(* Numbers *)

LEMMA BatchFinite == Types => IsFiniteSet(batch) /\ Cardinality(batch) \in Nat
<1> SUFFICES ASSUME Types PROVE IsFiniteSet(batch) /\ Cardinality(batch) \in Nat
  OBVIOUS
<1>1. batch \subseteq 0 .. NPrev - 1 /\ NPrev \in Nat
  BY SizesAssumption DEF Types
<1>2. IsFiniteSet(0 .. NPrev - 1)
  BY <1>1, FS_Interval
<1>3. QED
  BY <1>1, <1>2, FS_Subset, FS_CardinalityType

LEMMA AccountedStep ==
    ASSUME Types, Workers, Closing, Accounted, [Next]_vars
    PROVE  Accounted'
<1> USE DEF getterVars, counters, queue, commitVars, closeVars
<1>1. ASSUME UNCHANGED <<numWritten, cpc, batch, batchSentinels, count, seen, file>>
      PROVE  Accounted'
  BY <1>1 DEF Accounted
<1>2. ASSUME NEW g \in Getters, Ask(g) \/ Getter(g)
      PROVE  Accounted'
  BY <1>1, <1>2, GetterStep
<1>3. CASE Collect
  <2>1. /\ cpc = "sleep" /\ cpc' = "commit"
        /\ batch' = Complete /\ batchSentinels' = CompleteSentinels
        /\ count' = Cardinality(Complete) + CompleteSentinels
        /\ CompleteSentinels \in {0, sentinels}
        /\ UNCHANGED <<numWritten, seen, file>>
    BY <1>3, CollectStep
  <2>2. Complete \subseteq pending
    BY <1>3, CollectStep
  <2>3. Cardinality(batch') = Cardinality(Complete)
    BY <2>1
  <2>4. Len(file) \in Nat /\ numWritten \in Nat /\ CompleteSentinels \in Nat
    BY <2>1 DEF Types
  <2>5. Cardinality(Complete) \in Nat
    <3>1. Complete \subseteq 0 .. NPrev - 1 /\ NPrev \in Nat
      BY <2>2, SizesAssumption DEF Types
    <3>2. IsFiniteSet(0 .. NPrev - 1)
      BY <3>1, FS_Interval
    <3>3. QED
      BY <3>1, <3>2, FS_Subset, FS_CardinalityType
  <2>6. QED
    BY <2>1, <2>3, <2>4, <2>5 DEF Accounted
<1>4. CASE WriteTrace
  <2>1. /\ cpc = "commit" /\ ~seen /\ First \in batch /\ batch' = batch \ {First}
        /\ Len(file) \in Nat /\ Len(file)' = Len(file) + 1
        /\ UNCHANGED <<numWritten, cpc, batchSentinels, count, seen>>
    BY <1>4, WriteStep
  <2>2. Cardinality(batch \ {First}) = Cardinality(batch) - 1 /\ Cardinality(batch) \in Nat
    BY <2>1, BatchFinite, FS_RemoveElement
  <2>3. Cardinality(batch)' = Cardinality(batch \ {First})
    BY <2>1, Zenon
  <2>4. numWritten \in Nat /\ count \in Nat /\ batchSentinels \in Nat
    BY DEF Types
  <2>5. QED
    BY <2>1, <2>2, <2>3, <2>4 DEF Accounted
<1>5. CASE WriteFails \/ TraceAfterSentinel
  BY <1>5 DEF WriteFails, TraceAfterSentinel, Die, CommitUnchanged, Accounted
<1>6. CASE CommitSentinel
  BY <1>6 DEF CommitSentinel, CommitUnchanged, Accounted
<1>7. CASE Account
  <2>1. /\ cpc = "commit" /\ batch = {} /\ batchSentinels = 0
        /\ numWritten' = numWritten + count /\ cpc' = "sleep"
        /\ UNCHANGED <<batch, batchSentinels, count, seen, file>>
    BY <1>7 DEF Account, CommitUnchanged
  <2>2. Cardinality(batch) = 0
    BY <2>1, FS_EmptySet
  <2>3. numWritten \in Nat /\ count \in Nat /\ Len(file) \in Nat
    BY DEF Types
  <2>4. QED
    BY <2>1, <2>2, <2>3 DEF Accounted
<1>8. CASE Drained \/ Close \/ UNCHANGED vars
  BY <1>1, <1>8 DEF Drained, Close, CloseUnchanged, vars
<1>9. QED
  BY <1>2, <1>3, <1>4, <1>5, <1>6, <1>7, <1>8 DEF Next, CommitThread

LEMMA AnnouncedStep ==
    ASSUME Types, Workers, Closing, Accounted, Announced, [Next]_vars
    PROVE  Announced'
<1> USE DEF getterVars, counters, queue, commitVars, closeVars
<1>1. ASSUME NEW g \in Getters, Ask(g) \/ Getter(g)
      PROVE  Announced'
  <2>0. closer = "open" /\ UNCHANGED <<numTraces, closer, cpc, seen, file>>
    BY <1>1, GetterStep
  <2>1. ASSUME \A h \in Getters \ {g} : gpc'[h] = gpc[h] /\ gidx'[h] = gidx[h],
               sem' > 0 => sem > 0,
               gpc'[g] = "read" /\ ~seen => gidx'[g] < Len(file)
        PROVE  Announced'
    BY <2>0, <2>1 DEF Announced
  <2>2. CASE Ask(g)
    BY <2>1, <2>2 DEF Ask, Goto, Types
  <2>3. CASE Check(g) \/ Reached(g)
    <3>1. /\ gpc' = [gpc EXCEPT ![g] = "render"] \/ (gidx[g] < numWritten /\ gpc' = [gpc EXCEPT ![g] = "read"])
          /\ UNCHANGED <<gidx, sem>>
      BY <2>3 DEF Check, Reached, Goto, Types
    <3>2. ~seen /\ gidx[g] < numWritten => gidx[g] < Len(file)
      BY DEF Accounted, Types
    <3>3. QED
      BY <2>1, <3>1, <3>2 DEF Types
  <2>4. CASE PassSentinel(g)
    <3>1. /\ gpc' = [gpc EXCEPT ![g] = "read"] /\ sem > 0 /\ sem' = sem - 1 /\ UNCHANGED gidx
      BY <2>4 DEF PassSentinel, Goto
    <3>2. seen
      BY <3>1 DEF Announced
    <3>3. QED
      BY <2>1, <3>1, <3>2 DEF Types
  <2>5. ASSUME NEW label \in Labels \ {"read"}, gpc' = [gpc EXCEPT ![g] = label], UNCHANGED <<gidx, sem>>
        PROVE  Announced'
    BY <2>1, <2>5 DEF Types, Labels
  <2>6. CASE OutOfBounds(g) \/ Take(g) \/ InsertSentinel(g) \/ Insert(g) \/ InsertFails(g) \/ FetchFails(g)
    BY <2>5, <2>6 DEF OutOfBounds, Take, InsertSentinel, Insert, InsertFails, FetchFails, Goto, Labels
  <2>7. CASE FetchInvalid(g) \/ Fetch(g) \/ ContinueRender(g) \/ SeeFailure(g) \/ Read(g)
    BY <2>5, <2>7 DEF FetchInvalid, Fetch, ContinueRender, SeeFailure, Read, Goto, Labels
  <2>8. QED
    BY <1>1, <2>2, <2>3, <2>4, <2>6, <2>7 DEF Getter
<1>2. CASE Collect
  BY <1>2, CollectStep DEF Announced, Failed
<1>3. CASE WriteTrace
  <2>1. /\ cpc = "commit" /\ ~seen /\ Len(file) \in Nat /\ Len(file)' = Len(file) + 1
        /\ UNCHANGED <<gpc, gidx, numTraces, pending, sentinels, sem, cpc, seen, closer>>
    BY <1>3, WriteStep
  <2>2. \A g \in Getters : gidx[g] \in Nat
    BY DEF Types
  <2>3. QED
    BY <2>1, <2>2 DEF Announced, Failed
<1>4. CASE WriteFails \/ TraceAfterSentinel
  BY <1>4 DEF WriteFails, TraceAfterSentinel, Die, CommitUnchanged, Announced, Failed
<1>5. CASE CommitSentinel
  BY <1>5 DEF CommitSentinel, SetNumTraces, PostSentinel, Unlocked, CommitUnchanged, Announced, Failed
<1>6. CASE Account
  BY <1>6 DEF Account, CommitUnchanged, Announced, Failed
<1>7. CASE Drained
  BY <1>7 DEF Drained, CloseUnchanged, Announced, Failed
<1>8. CASE Close
  BY <1>8 DEF Close, CloseUnchanged, Announced, Failed
<1>9. CASE UNCHANGED vars
  BY <1>9 DEF vars, Announced, Failed
<1>10. QED
  BY <1>1, <1>2, <1>3, <1>4, <1>5, <1>6, <1>7, <1>8, <1>9 DEF Next, CommitThread

-----------------------------------------------------------------------------
(* Order *)

LEMMA OrderedStep ==
    ASSUME Types, Workers, Closing, Held, Apart, Somewhere, Accounted, Ordered, [Next]_vars
    PROVE  Ordered'
<1> USE DEF getterVars, counters, queue, commitVars, closeVars
<1>0. ASSUME UNCHANGED <<pool, gpc, gprev, nextPrev, file>>
      PROVE  /\ Written' = Written
             /\ Alone' => Alone
             /\ \A g \in Getters : Holding(g)' <=> Holding(g)
  BY <1>0 DEF Written, Alone, Holding
<1>1. ASSUME NEW g \in Getters, Ask(g) \/ Getter(g), Alone'
      PROVE  Ordered'
  <2>0. /\ g \in pool /\ UNCHANGED <<pool, cpc, batch, batchSentinels, seen, file>> /\ Written' = Written
        /\ \E label \in Labels : gpc' = [gpc EXCEPT ![g] = label]
    BY <1>1, GetterStep DEF Written
  <2>1. \A h \in Getters : h # g => gpc'[h] = "idle" /\ gpc[h] = "idle"
    BY <1>1, <2>0 DEF Alone, Workers, Types
  <2>2. Alone
    BY <1>1, <2>0 DEF Alone
  <2>3. /\ Holding(g) => gprev[g] + 1 = nextPrev
        /\ \A m, n \in DOMAIN file : m < n => file[m] < file[n]
        /\ \A q \in Written, p \in Valid : p < q => p \in Written
        /\ \A p \in Written, q \in batch : p < q
        /\ \A p \in Written \union batch, q \in pending : p < q
        /\ sentinels > 0 \/ batchSentinels > 0 \/ seen => nextPrev > NPrev
        /\ batchSentinels > 0 \/ seen => pending = {}
        /\ seen => batch = {}
    BY <2>2 DEF Ordered, Alone
  <2>4. ASSUME Holding(g)' => gprev'[g] + 1 = nextPrev',
               \A p \in Written \union batch, q \in pending' : p < q,
               sentinels' > 0 \/ batchSentinels > 0 \/ seen => nextPrev' > NPrev,
               batchSentinels > 0 \/ seen => pending' = {}
        PROVE  Ordered'
    BY <2>0, <2>1, <2>3, <2>4 DEF Ordered, Holding
  <2>5. CASE Local(g)
    <3>1. ~Holding(g)'
      BY <2>5, LocalStep DEF Holding, Types, Labels
    <3>2. UNCHANGED <<nextPrev, pending, sentinels>>
      BY <2>5, LocalStep
    <3>3. QED
      BY <2>3, <2>4, <3>1, <3>2
  <2>6. CASE Take(g)
    <3>1. gprev' = [gprev EXCEPT ![g] = nextPrev] /\ nextPrev' = nextPrev + 1 /\ UNCHANGED <<pending, sentinels>>
      BY <2>6 DEF Take
    <3>2. gprev'[g] + 1 = nextPrev'
      BY <3>1 DEF Types
    <3>3. nextPrev > NPrev => nextPrev' > NPrev
      BY <3>1, SizesAssumption DEF Types
    <3>4. QED
      BY <2>3, <2>4, <3>1, <3>2, <3>3
  <2>7. CASE InsertSentinel(g)
    <3>1. gpc[g] = "taken" /\ gpc' = [gpc EXCEPT ![g] = "waiting"] /\ gprev[g] >= NPrev /\ UNCHANGED <<nextPrev, pending>>
      BY <2>7 DEF InsertSentinel, Goto, PastEnd
    <3>2. nextPrev' > NPrev
      BY <2>3, <3>1, SizesAssumption DEF Holding, Types
    <3>3. ~Holding(g)'
      BY <3>1 DEF Holding, Types
    <3>4. QED
      BY <2>3, <2>4, <3>1, <3>2, <3>3
  <2>8. CASE Insert(g)
    <3>1. /\ gpc[g] = "taken" /\ gpc' = [gpc EXCEPT ![g] = "fetch"] /\ ~ (gprev[g] >= NPrev)
          /\ pending' = pending \union {gprev[g]} /\ UNCHANGED <<gprev, nextPrev, sentinels>>
      BY <2>8 DEF Insert, Goto, PastEnd
    <3>2. gprev[g] + 1 = nextPrev /\ gprev[g] \in Nat /\ nextPrev \in Nat
      BY <2>3, <3>1 DEF Holding, Types
    <3>3. \A p \in Written \union batch : p \in Nat
      <4>1. Written \subseteq Valid /\ batch \subseteq Valid
        BY DEF Types, Written
      <4>2. Valid \subseteq Nat
        BY SizesAssumption
      <4>3. QED
        BY <4>1, <4>2
    <3>4. \A p \in Written \union batch : p < nextPrev /\ p # gprev[g]
      BY <3>1 DEF Apart, Held
    <3>5. \A p \in Written \union batch : p < gprev[g]
      BY <3>2, <3>3, <3>4
    <3>6. ~ (nextPrev > NPrev)
      BY <3>1, <3>2, SizesAssumption
    <3>7. QED
      BY <2>3, <2>4, <3>1, <3>2, <3>5, <3>6
  <2>9. CASE FetchInvalid(g) \/ SeeFailure(g)
    <3>1. /\ gpc' \in {[gpc EXCEPT ![g] = "render"], [gpc EXCEPT ![g] = "failed"]}
          /\ pending' \subseteq pending /\ UNCHANGED <<nextPrev, sentinels>>
      BY <2>9 DEF FetchInvalid, SeeFailure, Goto, RemoveEntry
    <3>2. ~Holding(g)'
      BY <3>1 DEF Holding, Types
    <3>3. QED
      BY <2>3, <2>4, <3>1, <3>2
  <2>11. CASE Fetch(g)
    <3>1. gpc[g] = "fetch" /\ UNCHANGED <<gprev, nextPrev, pending, sentinels>>
      BY <2>11 DEF Fetch
    <3>2. QED
      BY <2>3, <2>4, <3>1 DEF Holding
  <2>12. CASE PassSentinel(g)
    <3>1. gpc' = [gpc EXCEPT ![g] = "read"] /\ UNCHANGED <<nextPrev, pending, sentinels>>
      BY <2>12 DEF PassSentinel, Goto
    <3>2. ~Holding(g)'
      BY <3>1 DEF Holding, Types
    <3>3. QED
      BY <2>3, <2>4, <3>1, <3>2
  <2>13. CASE InsertFails(g)
    <3>1. Holding(g) /\ UNCHANGED <<gprev, nextPrev, pending, sentinels>>
      BY <2>13, DropStep DEF Holding
    <3>2. QED
      BY <2>3, <2>4, <3>1
  <2>14. QED
    BY <1>1, <2>5, <2>6, <2>7, <2>8, <2>9, <2>11, <2>12, <2>13 DEF Getter, Local
<1>2. ASSUME Collect, Alone'
      PROVE  Ordered'
  <2>1. /\ cpc = "sleep"
        /\ batch' = Complete /\ pending' = pending \ Complete
        /\ batchSentinels' = CompleteSentinels /\ sentinels' = sentinels - CompleteSentinels
        /\ CompleteSentinels \in {0, sentinels}
        /\ CompleteSentinels > 0 => Complete = pending
        /\ Complete \subseteq pending
        /\ \A p \in Complete, q \in pending \ Complete : p < q
        /\ UNCHANGED <<pool, gpc, gprev, nextPrev, seen, file>>
    BY <1>2, CollectStep
  <2>2. Written' = Written /\ Alone /\ \A g \in Getters : Holding(g)' <=> Holding(g)
    BY <1>0, <1>2, <2>1
  <2>3. batch = {} /\ batchSentinels = 0
    BY <2>1 DEF Accounted
  <2>4. /\ sentinels \in Nat
        /\ sentinels' > 0 \/ batchSentinels' > 0 => sentinels > 0
    BY <2>1 DEF Types
  <2>5. QED
    BY <2>1, <2>2, <2>3, <2>4 DEF Ordered, Alone
<1>3. ASSUME WriteTrace, Alone'
      PROVE  Ordered'
  <2>1. /\ First \in batch /\ (\A q \in batch : First <= q) /\ ~seen /\ cpc = "commit"
        /\ batch' = batch \ {First} /\ Written' = Written \union {First}
        /\ UNCHANGED <<pool, gpc, gprev, nextPrev, pending, sentinels, batchSentinels, seen, cpc>>
    BY <1>3, WriteStep
  <2>2. Alone /\ \A g \in Getters : Holding(g)' <=> Holding(g)
    BY <1>3, <2>1 DEF Alone, Holding
  <2>3. /\ \A m, n \in DOMAIN file : m < n => file[m] < file[n]
        /\ \A q \in Written, p \in Valid : p < q => p \in Written
        /\ \A g \in Getters : Holding(g) => gprev[g] + 1 = nextPrev
        /\ \A p \in Written, q \in batch : p < q
        /\ \A p \in Written \union batch, q \in pending : p < q
    BY <2>2 DEF Ordered, Alone
  <2>4. \A q \in batch : q \in Nat
    BY SizesAssumption DEF Types
  <2>5. \A q \in batch \ {First} : First < q
    BY <2>1, <2>4
  <2>6. ASSUME NEW m \in (DOMAIN file)', NEW n \in (DOMAIN file)', m < n
        PROVE  file'[m] < file'[n]
    <3>1. /\ Len(file) \in Nat
          /\ DOMAIN file = 1 .. Len(file) /\ (DOMAIN file)' = 1 .. Len(file) + 1
          /\ \A k \in DOMAIN file : file'[k] = file[k]
          /\ file'[Len(file) + 1] = First
      BY <1>3, WriteStep
    <3>2. m \in DOMAIN file /\ (n \in DOMAIN file \/ n = Len(file) + 1)
      BY <2>6, <3>1
    <3>3. file[m] < First
      BY <2>1, <2>3, <3>2 DEF Written
    <3>4. QED
      BY <2>3, <2>6, <3>1, <3>2, <3>3
  <2>7. ASSUME NEW p \in Valid, p < First
        PROVE  p \in Written
    <3>1. First \in Valid /\ First < nextPrev /\ Valid \subseteq Nat /\ nextPrev \in Nat
      BY <2>1, SizesAssumption DEF Types, Apart
    <3>2. p \notin batch
      BY <2>1, <2>7, <3>1
    <3>3. p \notin pending
      <4>1. \A q \in pending : First < q
        BY <2>1, <2>3
      <4>2. QED
        BY <2>7, <3>1, <4>1
    <3>4. ASSUME NEW g \in Getters, gpc[g] \in {"taken", "dropped"}, gprev[g] = p
          PROVE  FALSE
      BY <2>3, <2>7, <3>1, <3>4 DEF Holding
    <3>5. p < nextPrev /\ ~Failed
      BY <2>1, <2>7, <3>1 DEF Failed
    <3>6. QED
      BY <3>2, <3>3, <3>4, <3>5 DEF Somewhere
  <2>8. \A q \in Written', p \in Valid : p < q => p \in Written'
    BY <2>1, <2>3, <2>7
  <2>9. QED
    BY <2>1, <2>2, <2>3, <2>5, <2>6, <2>8 DEF Ordered, Alone
<1>4. ASSUME WriteFails \/ TraceAfterSentinel, Alone'
      PROVE  Ordered'
  <2>1. UNCHANGED <<pool, gpc, gprev, nextPrev, pending, sentinels, batch, batchSentinels, seen, file>>
    BY <1>4 DEF WriteFails, TraceAfterSentinel, Die, CommitUnchanged
  <2>2. Written' = Written /\ Alone /\ \A g \in Getters : Holding(g)' <=> Holding(g)
    BY <1>0, <1>4, <2>1
  <2>3. QED
    BY <2>1, <2>2 DEF Ordered, Alone
<1>5. ASSUME CommitSentinel, Alone'
      PROVE  Ordered'
  <2>1. /\ cpc = "commit" /\ batch = {} /\ batchSentinels > 0 /\ batchSentinels' = batchSentinels - 1
        /\ seen' = TRUE
        /\ UNCHANGED <<pool, gpc, gprev, nextPrev, pending, sentinels, cpc, batch, file>>
    BY <1>5 DEF CommitSentinel, CommitUnchanged
  <2>2. Written' = Written /\ Alone /\ \A g \in Getters : Holding(g)' <=> Holding(g)
    BY <1>0, <1>5, <2>1
  <2>3. QED
    BY <2>1, <2>2 DEF Ordered, Alone
<1>6. ASSUME Account \/ Drained \/ Close \/ UNCHANGED vars, Alone'
      PROVE  Ordered'
  <2>1. UNCHANGED <<pool, gpc, gprev, nextPrev, pending, sentinels, batch, batchSentinels, seen, file>>
    BY <1>6 DEF Account, CommitUnchanged, Drained, Close, CloseUnchanged, vars
  <2>2. Written' = Written /\ Alone /\ \A g \in Getters : Holding(g)' <=> Holding(g)
    BY <1>0, <1>6, <2>1
  <2>3. QED
    BY <2>1, <2>2 DEF Ordered, Alone
<1>7. ~Alone' => Ordered'
  BY DEF Alone, Ordered
<1>8. QED
  BY <1>1, <1>2, <1>3, <1>4, <1>5, <1>6, <1>7 DEF Next, CommitThread

-----------------------------------------------------------------------------
(* Sentinels *)

LEMMA WaitingFinite == IsFiniteSet(At({"waiting"})) /\ Cardinality(At({"waiting"})) \in Nat
<1>1. At({"waiting"}) \subseteq Getters
  BY DEF At
<1>2. QED
  BY <1>1, GettersAssumption, FS_Subset, FS_CardinalityType

LEMMA OwedStep ==
    ASSUME Types, Workers, Closing, Accounted, SentinelsOwed, [Next]_vars
    PROVE  SentinelsOwed'
<1> USE DEF getterVars, counters, queue, commitVars, closeVars
<1>0. PICK waiting : waiting = At({"waiting"})
  OBVIOUS
<1>1. IsFiniteSet(waiting) /\ Cardinality(waiting) \in Nat /\ sentinels + batchSentinels + sem = Cardinality(waiting)
  BY <1>0, WaitingFinite DEF SentinelsOwed
<1>2. sentinels \in Nat /\ batchSentinels \in Nat /\ sem \in Nat
  BY DEF Types
<1>3. ASSUME At({"waiting"})' = waiting, (sentinels + batchSentinels + sem)' = sentinels + batchSentinels + sem
      PROVE  SentinelsOwed'
  <2>1. Cardinality(At({"waiting"}))' = Cardinality(waiting)
    BY <1>3, Zenon
  <2>2. QED
    BY <1>1, <1>3, <2>1 DEF SentinelsOwed
<1>4. ASSUME NEW g \in Getters, Ask(g) \/ Getter(g)
      PROVE  SentinelsOwed'
  <2>0. UNCHANGED batchSentinels
    BY <1>4, GetterStep
  <2>1. ASSUME NEW label \in Labels \ {"waiting"}, gpc' = [gpc EXCEPT ![g] = label], gpc[g] # "waiting",
               UNCHANGED <<sentinels, sem>>
        PROVE  SentinelsOwed'
    <3>1. At({"waiting"})' = waiting
      BY <1>0, <2>1 DEF At, Types
    <3>2. QED
      BY <1>3, <2>0, <2>1, <3>1
  <2>2. CASE Local(g)
    <3>1. UNCHANGED <<sentinels, sem>>
      BY <2>2, LocalStep
    <3>2. QED
      BY <2>1, <2>2, <3>1, LocalStep DEF Labels
  <2>3. CASE InsertSentinel(g)
    <3>1. gpc[g] = "taken" /\ gpc' = [gpc EXCEPT ![g] = "waiting"] /\ sentinels' = sentinels + 1 /\ sem' = sem
      BY <2>3 DEF InsertSentinel, Goto
    <3>2. At({"waiting"})' = waiting \union {g} /\ g \notin waiting
      BY <1>0, <3>1 DEF At, Types
    <3>3. Cardinality(waiting \union {g}) = Cardinality(waiting) + 1
      BY <1>1, <3>2, FS_AddElement
    <3>4. Cardinality(At({"waiting"}))' = Cardinality(waiting \union {g})
      BY <3>2, Zenon
    <3>5. QED
      BY <1>1, <1>2, <2>0, <3>1, <3>3, <3>4 DEF SentinelsOwed
  <2>4. CASE PassSentinel(g)
    <3>1. gpc[g] = "waiting" /\ gpc' = [gpc EXCEPT ![g] = "read"] /\ sem' = sem - 1 /\ sentinels' = sentinels
      BY <2>4 DEF PassSentinel, Goto
    <3>2. At({"waiting"})' = waiting \ {g} /\ g \in waiting
      BY <1>0, <3>1 DEF At, Types
    <3>3. Cardinality(waiting \ {g}) = Cardinality(waiting) - 1
      BY <1>1, <3>2, FS_RemoveElement
    <3>4. Cardinality(At({"waiting"}))' = Cardinality(waiting \ {g})
      BY <3>2, Zenon
    <3>5. QED
      BY <1>1, <1>2, <2>0, <3>1, <3>3, <3>4 DEF SentinelsOwed
  <2>5. CASE Take(g) \/ Insert(g) \/ InsertFails(g) \/ FetchInvalid(g) \/ Fetch(g) \/ SeeFailure(g)
    BY <2>1, <2>5 DEF Take, Insert, InsertFails, FetchInvalid, Fetch, SeeFailure, Goto, Labels
  <2>6. QED
    BY <1>4, <2>2, <2>3, <2>4, <2>5 DEF Getter, Local
<1>5. CASE CommitThread \/ Drained \/ Close \/ UNCHANGED vars
  <2>1. At({"waiting"})' = waiting
    <3>1. UNCHANGED gpc
      BY <1>5, OtherStep DEF vars
    <3>2. QED
      BY <1>0, <3>1 DEF At
  <2>2. CASE Collect
    <3>1. /\ batchSentinels = 0
          /\ batchSentinels' = CompleteSentinels /\ sentinels' = sentinels - CompleteSentinels /\ sem' = sem
          /\ CompleteSentinels \in {0, sentinels}
      BY <2>2, CollectStep DEF Accounted
    <3>2. QED
      BY <1>2, <1>3, <2>1, <3>1
  <2>3. CASE CommitSentinel
    <3>1. batchSentinels > 0 /\ batchSentinels' = batchSentinels - 1 /\ sem' = sem + 1 /\ sentinels' = sentinels
      BY <2>3 DEF CommitSentinel, PostSentinel
    <3>2. QED
      BY <1>2, <1>3, <2>1, <3>1
  <2>4. CASE WriteTrace \/ WriteFails \/ TraceAfterSentinel \/ Account \/ Drained \/ Close \/ UNCHANGED vars
    <3>1. UNCHANGED <<sentinels, batchSentinels, sem>>
      BY <2>4 DEF WriteTrace, WriteFails, TraceAfterSentinel, Die, Account, Drained, Close, CloseUnchanged, vars
    <3>2. QED
      BY <1>3, <2>1, <3>1
  <2>5. QED
    BY <1>5, <2>2, <2>3, <2>4 DEF CommitThread
<1>6. QED
  BY <1>4, <1>5 DEF Next

-----------------------------------------------------------------------------
(* The invariant, and what it implies *)

LEMMA Initially == Init => IndInv
<1> SUFFICES ASSUME Init PROVE IndInv
  OBVIOUS
<1>1. Types
  BY TypesInit
<1>2. Written = {}
  BY DEF Init, Written
<1>3. Workers /\ Closing /\ Held /\ Apart /\ Somewhere
  <2>1. /\ \A g \in Getters : gpc[g] = "idle" /\ ~Holding(g)
        /\ pending = {} /\ ready = {} /\ batch = {} /\ DOMAIN file = {} /\ nextPrev = 0
        /\ closer = "open" /\ cpc = "sleep"
    BY DEF Init, Holding
  <2>2. Workers
    BY <2>1 DEF Workers
  <2>3. Closing
    BY <2>1 DEF Closing, Init
  <2>4. Held
    BY <2>1 DEF Held
  <2>5. Apart
    BY <1>2, <2>1 DEF Apart
  <2>6. Somewhere
    <3>1. \A p \in Valid : ~(p < 0)
      BY SizesAssumption
    <3>2. QED
      BY <2>1, <3>1 DEF Somewhere
  <2>7. QED
    BY <2>2, <2>3, <2>4, <2>5, <2>6
<1>4. Accounted /\ Announced
  BY FS_EmptySet DEF Init, Accounted, Announced
<1>5. Ordered
  BY <1>2 DEF Init, Ordered, Holding
<1>6. SentinelsOwed
  <2>1. At({"waiting"}) = {}
    BY DEF Init, At
  <2>2. Cardinality(At({"waiting"})) = 0
    BY <2>1, FS_EmptySet
  <2>3. QED
    BY <2>2 DEF Init, SentinelsOwed
<1>7. QED
  BY <1>1, <1>3, <1>4, <1>5, <1>6 DEF IndInv

LEMMA Preserved == IndInv /\ [Next]_vars => IndInv'
<1> SUFFICES ASSUME IndInv, [Next]_vars PROVE IndInv'
  OBVIOUS
<1>1. Types' /\ Workers' /\ Closing' /\ Held' /\ Apart' /\ Somewhere'
  BY TypesStep, WorkersStep, HeldStep, ApartStep, SomewhereStep DEF IndInv
<1>2. Accounted' /\ Announced' /\ Ordered' /\ SentinelsOwed'
  BY AccountedStep, AnnouncedStep, OrderedStep, OwedStep DEF IndInv
<1>3. QED
  BY <1>1, <1>2 DEF IndInv

\* One thread that has run past the end has nothing in its hands: all is in the file.
LEMMA AllTaken ==
    ASSUME IndInv, Alone, ~Failed, nextPrev > NPrev, pending = {}, batch = {}
    PROVE  Valid \subseteq Written
<1>. SUFFICES ASSUME NEW p \in Valid PROVE p \in Written
  OBVIOUS
<1>1. p < NPrev /\ p \in Nat /\ NPrev \in Nat /\ nextPrev \in Nat
  BY SizesAssumption DEF IndInv, Types
<1>2. ASSUME NEW g \in Getters, gpc[g] \in {"taken", "dropped"}, gprev[g] = p PROVE FALSE
  <2>1. gprev[g] + 1 = nextPrev
    BY <1>2 DEF IndInv, Ordered, Holding
  <2>2. QED
    BY <1>1, <1>2, <2>1
<1>3. p < nextPrev
  BY <1>1
<1>4. QED
  BY <1>2, <1>3 DEF IndInv, Somewhere

\* The invariant of the save transformation (tfm_save.c): where each trace is on its way to
\* the file, what the counters say of the file, and who is owed a sentinel.
THEOREM Inductive == Spec => []IndInv
  BY Initially, Preserved, PTL DEF Spec

\* Types; and there are never more sentinels than threads that wait, in the queue, in the
\* batch and posted together (tfm_save.c:135-145, 400-413, 478).
THEOREM TypeCorrect == Spec => [](TypeOK /\ SentinelsOwed)
<1>1. ASSUME IndInv
      PROVE  TypeOK /\ SentinelsOwed
  <2>1. Cardinality(At({"waiting"})) \in 0 .. Cardinality(Getters)
    <3>1. At({"waiting"}) \subseteq Getters
      BY DEF At
    <3>2. QED
      BY <3>1, WaitingFinite, GettersAssumption, FS_Subset, FS_CardinalityType
  <2>2. Cardinality(Getters) \in Nat
    BY GettersAssumption, FS_CardinalityType
  <2>3. /\ sentinels \in 0 .. Cardinality(Getters) /\ sem \in 0 .. Cardinality(Getters)
        /\ batchSentinels \in 0 .. Cardinality(Getters)
    BY <1>1, <2>1, <2>2 DEF IndInv, Types, SentinelsOwed
  <2>4. QED
    BY <1>1, <2>3 DEF IndInv, Types, TypeOK
<1>2. QED
  BY <1>1, Inductive, PTL

\* As long as the commit thread lives no trace is lost and none is twice on its way: in the
\* hands of a thread, the queue, the batch and the file (tfm_save.c:63-231, 389-458).
THEOREM NoTraceLost == Spec => []NothingLost
<1>1. ASSUME IndInv
      PROVE  NothingLost
  <2> SUFFICES ASSUME ~Failed
               PROVE  LET taken == At({"taken", "dropped"})
                          Places == <<{gprev[g] : g \in taken}, pending, batch, Written>>
                      IN  /\ \A p \in Valid : p < nextPrev => \E n \in 1 .. 4 : p \in Places[n]
                          /\ \A m, n \in 1 .. 4 : m # n => Places[m] \intersect Places[n] = {}
                          /\ \A g, h \in taken : gprev[g] = gprev[h] => g = h
                          /\ \A m, n \in DOMAIN file : file[m] = file[n] => m = n
    BY DEF NothingLost
  <2> DEFINE taken == At({"taken", "dropped"})
  <2> DEFINE held == {gprev[g] : g \in taken}
  <2> DEFINE Places == <<held, pending, batch, Written>>
  <2>1. Places[1] = held /\ Places[2] = pending /\ Places[3] = batch /\ Places[4] = Written
    OBVIOUS
  <2>2. \A p \in Valid : p < nextPrev => p \in held \/ p \in pending \/ p \in batch \/ p \in Written
    BY <1>1 DEF IndInv, Somewhere, At
  <2>3. /\ held \intersect pending = {} /\ held \intersect batch = {} /\ held \intersect Written = {}
        /\ pending \intersect batch = {} /\ pending \intersect Written = {} /\ batch \intersect Written = {}
    BY <1>1 DEF IndInv, Held, Apart, At
  <2>4. \A g, h \in taken : gprev[g] = gprev[h] => g = h
    BY <1>1 DEF IndInv, Held, Holding, At
  <2>5. \A m, n \in DOMAIN file : file[m] = file[n] => m = n
    BY <1>1 DEF IndInv, Apart
  <2> HIDE DEF held, Places, taken
  <2>6. \A n \in 1 .. 4 : n = 1 \/ n = 2 \/ n = 3 \/ n = 4
    OBVIOUS
  <2>7. \A p \in Valid : p < nextPrev => \E n \in 1 .. 4 : p \in Places[n]
    BY <2>1, <2>2
  <2>8. \A m, n \in 1 .. 4 : m # n => Places[m] \intersect Places[n] = {}
    BY <2>1, <2>3, <2>6
  <2>9. QED
    BY <2>4, <2>5, <2>7, <2>8 DEF Places, held, taken
<1>2. QED
  BY <1>1, Inductive, PTL

\* What is read back from the file was written to it, although the counters are read without
\* the lock and one of them counts sentinels too (tfm_save.c:470, 230, 142).
THEOREM ReadsAreWritten == Spec => []ReadsWritten
<1>1. ASSUME IndInv
      PROVE  ReadsWritten
  BY <1>1 DEF IndInv, ReadsWritten, At, Closing, Announced
<1>2. QED
  BY <1>1, Inductive, PTL

\* With one render thread the file has the order of the set before it, without a gap, whatever
\* fails, and its end is announced when it is complete (tfm_save.c:63-98, 207-215, 397).
THEOREM FileIsFaithful == Spec => []FileFaithful
<1>1. ASSUME IndInv
      PROVE  FileFaithful
  <2> SUFFICES ASSUME Cardinality(pool) = 1
               PROVE  /\ \A m, n \in DOMAIN file : m < n => file[m] < file[n]
                      /\ \A n \in DOMAIN file : \A p \in Valid : p < file[n] => p \in Written
                      /\ numTraces # Unknown /\ ~Failed =>
                            Valid \subseteq Written /\ numTraces = Len(file)
    BY DEF FileFaithful
  <2>1. Alone
    <3>1. IsFiniteSet(pool)
      BY <1>1, GettersAssumption, FS_Subset DEF IndInv, Types
    <3>2. \E g : pool = {g}
      BY <3>1, FS_Singleton
    <3>3. QED
      BY <3>2 DEF Alone
  <2>2. /\ \A m, n \in DOMAIN file : m < n => file[m] < file[n]
        /\ \A q \in Written, p \in Valid : p < q => p \in Written
    BY <1>1, <2>1 DEF IndInv, Ordered
  <2>3. ASSUME numTraces # Unknown, ~Failed
        PROVE  Valid \subseteq Written /\ numTraces = Len(file)
    <3>1. seen /\ numTraces = Len(file)
      BY <1>1, <2>3 DEF IndInv, Announced
    <3>2. nextPrev > NPrev /\ pending = {} /\ batch = {}
      BY <1>1, <2>1, <3>1 DEF IndInv, Ordered
    <3>3. QED
      BY <1>1, <2>1, <2>3, <3>1, <3>2, AllTaken
  <2>4. QED
    BY <2>2, <2>3 DEF Written
<1>2. QED
  BY <1>1, Inductive, PTL

-----------------------------------------------------------------------------
(* The log that the save transformation implements *)

\* Only a thread that has run past the end of the previous set queues a sentinel.
LEMMA EndReachedStep ==
    ASSUME Types, Held, EndReached, [Next]_vars
    PROVE  EndReached'
<1> USE DEF getterVars, counters, queue, commitVars, closeVars
<1>0. NPrev \in Nat /\ nextPrev \in Nat /\ sentinels \in Nat /\ batchSentinels \in Nat
  BY SizesAssumption DEF Types
<1>1. ASSUME NEW g \in Getters, InsertSentinel(g)
      PROVE  EndReached'
  <2>1. gprev[g] \in Nat /\ gprev[g] >= NPrev /\ gpc[g] = "taken" /\ nextPrev' = nextPrev
    BY <1>1 DEF InsertSentinel, PastEnd, Types
  <2>2. gprev[g] < nextPrev
    BY <2>1 DEF Held, Holding
  <2>3. nextPrev' > NPrev
    BY <1>0, <2>1, <2>2
  <2>4. QED
    BY <2>3 DEF EndReached
<1>2. ASSUME NEW g \in Getters, Take(g)
      PROVE  EndReached'
  <2>1. nextPrev' = nextPrev + 1 /\ UNCHANGED <<sentinels, batchSentinels, seen>>
    BY <1>2 DEF Take
  <2>2. QED
    BY <1>0, <2>1 DEF EndReached
<1>3. ASSUME NEW g \in Getters,
             \/ Local(g) \/ Insert(g) \/ InsertFails(g) \/ FetchInvalid(g) \/ Fetch(g)
             \/ SeeFailure(g) \/ PassSentinel(g)
      PROVE  EndReached'
  <2>1. UNCHANGED <<sentinels, batchSentinels, seen, nextPrev>>
    BY <1>3 DEF Local, Ask, OutOfBounds, Check, Reached, ContinueRender, FetchFails, Read,
                Insert, InsertFails, FetchInvalid, Fetch, SeeFailure, PassSentinel
  <2>2. QED
    BY <2>1 DEF EndReached
<1>4. CASE Collect
  <2>1. /\ batchSentinels' = CompleteSentinels /\ sentinels' = sentinels - CompleteSentinels
        /\ CompleteSentinels \in {0, sentinels} /\ nextPrev' = nextPrev /\ seen' = seen
    BY <1>4, CollectStep
  <2>2. QED
    BY <1>0, <2>1 DEF EndReached
<1>5. CASE CommitSentinel
  <2>1. batchSentinels > 0 /\ nextPrev' = nextPrev
    BY <1>5 DEF CommitSentinel, CommitUnchanged
  <2>2. QED
    BY <2>1 DEF EndReached
<1>6. CASE WriteTrace \/ WriteFails \/ TraceAfterSentinel \/ Account \/ Drained \/ Close \/ UNCHANGED vars
  <2>1. UNCHANGED <<sentinels, batchSentinels, seen, nextPrev>>
    BY <1>6 DEF WriteTrace, WriteFails, TraceAfterSentinel, Die, Account, CommitUnchanged, Drained,
                Close, CloseUnchanged, vars
  <2>2. QED
    BY <2>1 DEF EndReached
<1>7. QED
  BY <1>1, <1>2, <1>3, <1>4, <1>5, <1>6 DEF Next, Getter, Local, CommitThread

\* A step that the log does not see.
LEMMA Hidden ==
    ASSUME Wants' = Wants, OnTheWay' = OnTheWay, pool' = pool, cpc' = "dead" <=> cpc = "dead",
           UNCHANGED <<asked, nextPrev, file, numTraces, seen>>
    PROVE  UNCHANGED Abstract!vars
<1>1. Alone' = Alone
  BY DEF Alone
<1>2. Failed' = Failed
  BY DEF Failed
<1>3. QED
  BY <1>1, <1>2 DEF Abstract!vars

\* What a getter asks for: the index it was given, until it has an answer.
LEMMA WantsOf ==
    ASSUME Types, NEW g \in Getters
    PROVE  /\ gpc[g] \in {"idle", "failed", "dropped"} => Wants[g] = NoIndex
           /\ gpc[g] \notin {"idle", "failed", "dropped"} => Wants[g] = gidx[g] /\ gidx[g] # NoIndex
<1>1. gidx[g] \in Nat
  BY DEF Types
<1>2. gidx[g] # NoIndex
  BY <1>1 DEF NoIndex
<1>3. QED
  BY <1>2 DEF Wants

\* A getter goes on with its request.
LEMMA GoesOn ==
    ASSUME Types, NEW g \in Getters, NEW label \in Labels \ {"idle", "failed", "dropped"},
           gpc[g] \notin {"idle", "failed", "dropped"}, Goto(g, label), gidx' = gidx
    PROVE  Wants' = Wants
<1>1. \A h \in Getters : gpc'[h] \in {"idle", "failed", "dropped"} <=> gpc[h] \in {"idle", "failed", "dropped"}
  BY DEF Goto, Types
<1>2. QED
  BY <1>1 DEF Wants

Cleared(g) == [Wants EXCEPT ![g] = NoIndex]

\* ... or ends it.
LEMMA Clears ==
    ASSUME Types, NEW g \in Getters, NEW label \in {"idle", "failed", "dropped"}, Goto(g, label), gidx' = gidx
    PROVE  Wants' = Cleared(g)
<1>1. \A h \in Getters : gpc'[h] = IF h = g THEN label ELSE gpc[h]
  BY DEF Goto, Types
<1>2. QED
  BY <1>1 DEF Wants, Cleared

\* What is in the hands of the getters changes with those at "taken" and "dropped" only.
LEMMA HandsKept ==
    ASSUME Types, NEW g \in Getters, NEW label \in Labels \ {"taken", "dropped"},
           gpc[g] \notin {"taken", "dropped"}, Goto(g, label), gprev' = gprev
    PROVE  InHand' = InHand
<1>1. \A h \in Getters : gpc'[h] \in {"taken", "dropped"} <=> gpc[h] \in {"taken", "dropped"}
  BY DEF Goto, Types
<1>2. QED
  BY <1>1 DEF InHand, At

\* A trace leaves the hands of the one getter that has it,
LEMMA LetsGo ==
    ASSUME Types, Held, NEW g \in Getters, NEW label \in Labels \ {"taken", "dropped"}, gpc[g] = "taken",
           Goto(g, label), gprev' = gprev
    PROVE  InHand' = InHand \ {gprev[g]} /\ gprev[g] \in InHand
<1>1. \A h \in Getters : gpc'[h] \in {"taken", "dropped"} <=> gpc[h] \in {"taken", "dropped"} /\ h # g
  BY DEF Goto, Types
<1>2. \A h \in Getters : gpc[h] \in {"taken", "dropped"} /\ gprev[h] = gprev[g] => h = g
  BY DEF Held, Holding
<1>3. QED
  BY <1>1, <1>2 DEF InHand, At

\* ... and comes into them.
LEMMA HandsOver ==
    ASSUME Types, NEW g \in Getters, Take(g)
    PROVE  InHand' = InHand \union {nextPrev}
<1>1. \A h \in Getters : gpc'[h] \in {"taken", "dropped"} <=> gpc[h] \in {"taken", "dropped"} \/ h = g
  BY DEF Take, Goto, Types
<1>2. \A h \in Getters : gprev'[h] = IF h = g THEN nextPrev ELSE gprev[h]
  BY DEF Take, Types
<1>3. gpc[g] \notin {"taken", "dropped"}
  BY DEF Take
<1>4. QED
  BY <1>1, <1>2, <1>3 DEF InHand, At

\* A getter is given an index.
LEMMA MapAsk ==
    ASSUME IndInv, NEW g \in Getters, Ask(g)
    PROVE  Abstract!Ask(g)
<1>1. /\ gpc[g] = "idle" /\ asked < numTraces /\ asked' = asked + 1 /\ Goto(g, "asked")
      /\ gidx' = [gidx EXCEPT ![g] = asked]
      /\ UNCHANGED <<pool, gprev, nextPrev, numTraces, pending, batch, cpc, seen, file>>
  BY DEF Ask, counters, queue, commitVars
<1>2. Wants[g] = NoIndex
  BY <1>1, WantsOf DEF IndInv
<1>3. Wants' = [Wants EXCEPT ![g] = asked]
  <2>1. \A h \in Getters : gpc'[h] = IF h = g THEN "asked" ELSE gpc[h]
    BY <1>1 DEF Goto, IndInv, Types
  <2>2. \A h \in Getters : gidx'[h] = IF h = g THEN asked ELSE gidx[h]
    BY <1>1 DEF IndInv, Types
  <2>3. QED
    BY <2>1, <2>2 DEF Wants
<1>4. OnTheWay' = OnTheWay
  <2>1. InHand' = InHand
    BY <1>1, HandsKept DEF IndInv, Labels
  <2>2. QED
    BY <1>1, <2>1 DEF OnTheWay
<1>5. Alone' = Alone /\ Failed' = Failed
  BY <1>1 DEF Alone, Failed
<1>6. QED
  BY <1>1, <1>2, <1>3, <1>4, <1>5 DEF Abstract!Ask

\* A request that ends: with an answer, or given up because the end is known, because the
\* set before fails, or because the log has failed.
LEMMA MapEnd ==
    ASSUME IndInv, NEW g \in Getters, OutOfBounds(g) \/ FetchFails(g) \/ Read(g)
    PROVE  Abstract!GiveUp(g) \/ Abstract!Answer(g)
<1>1. /\ UNCHANGED <<pool, gidx, gprev, asked, nextPrev, numTraces, pending, batch, cpc, seen, file>>
      /\ gpc[g] \in {"asked", "fetch", "read"}
  BY DEF OutOfBounds, FetchFails, Read, counters, queue, commitVars
<1>2. \E label \in {"idle", "failed"} : Goto(g, label)
  BY DEF OutOfBounds, FetchFails, Read
<1>3. Wants[g] = gidx[g] /\ gidx[g] # NoIndex
  BY <1>1, WantsOf DEF IndInv
<1>4. Wants' = Cleared(g)
  BY <1>1, <1>2, Clears DEF IndInv
<1>5. OnTheWay' = OnTheWay
  <2>1. InHand' = InHand
    BY <1>1, <1>2, HandsKept DEF IndInv, Labels
  <2>2. QED
    BY <1>1, <2>1 DEF OnTheWay
<1>6. Alone' = Alone /\ Failed' = Failed
  BY <1>1 DEF Alone, Failed
<1>7. CASE OutOfBounds(g) \/ FetchFails(g)
  <2>1. gidx[g] >= numTraces \/ "get" \in Faults
    BY <1>7 DEF OutOfBounds, FetchFails
  <2>2. QED
    BY <1>1, <1>3, <1>4, <1>5, <1>6, <2>1 DEF Abstract!GiveUp, Cleared
<1>8. CASE Read(g)
  <2>1. gidx[g] < numTraces => gidx[g] < Len(file)
    <3>1. gpc[g] = "read"
      BY <1>8 DEF Read
    <3>2. closer = "open"
      BY <3>1 DEF IndInv, Closing
    <3>3. /\ seen => numTraces = Len(file)
          /\ ~seen => gidx[g] < Len(file)
      BY <3>1, <3>2 DEF IndInv, Announced
    <3>4. QED
      BY <3>3
  <2>2. QED
    BY <1>1, <1>3, <1>4, <1>5, <1>6, <2>1 DEF Abstract!Answer, Cleared
<1>9. QED
  BY <1>7, <1>8

\* A getter without memory gives up, and its trace stays on its way.
LEMMA MapDrop ==
    ASSUME IndInv, NEW g \in Getters, InsertFails(g)
    PROVE  Abstract!GiveUp(g)
<1>0. Types
  BY DEF IndInv
<1>1. /\ "memory" \in Faults /\ gpc[g] = "taken" /\ Goto(g, "dropped")
      /\ \A h \in Getters : gpc'[h] \in {"taken", "dropped"} <=> gpc[h] \in {"taken", "dropped"}
      /\ UNCHANGED <<pool, gidx, gprev, asked, nextPrev, numTraces, pending, batch, cpc, seen, file>>
  BY <1>0, DropStep DEF Goto, counters, queue, commitVars
<1>2. Wants[g] = gidx[g] /\ gidx[g] # NoIndex
  BY <1>0, <1>1, WantsOf
<1>3. Wants' = Cleared(g)
  BY <1>0, <1>1, Clears
<1>4. OnTheWay' = OnTheWay
  <2>1. InHand' = InHand
    BY <1>1 DEF InHand, At
  <2>2. QED
    BY <1>1, <2>1 DEF OnTheWay
<1>5. Alone' = Alone /\ Failed' = Failed
  BY <1>1 DEF Alone, Failed
<1>6. QED
  BY <1>1, <1>2, <1>3, <1>4, <1>5 DEF Abstract!GiveUp, Cleared

\* Who finds the commit thread dead takes its entry out of the queue, if it is still there.
LEMMA MapSeeFailure ==
    ASSUME IndInv, NEW g \in Getters, SeeFailure(g)
    PROVE  Abstract!GiveUp(g)
<1>1. /\ gpc[g] = "filled" /\ Failed /\ pending' = pending \ {gprev[g]} /\ Goto(g, "failed")
      /\ UNCHANGED <<pool, gidx, gprev, asked, nextPrev, numTraces, batch, cpc, seen, file>>
  BY DEF SeeFailure, RemoveEntry, counters, commitVars
<1>2. Wants[g] = gidx[g] /\ gidx[g] # NoIndex
  BY <1>1, WantsOf DEF IndInv
<1>3. Wants' = Cleared(g)
  BY <1>1, Clears DEF IndInv
<1>4. InHand' = InHand
  BY <1>1, HandsKept DEF IndInv, Labels
<1>5. gprev[g] \notin InHand
  BY <1>1 DEF IndInv, Held, Holding, InHand, At
<1>6. gprev[g] \in pending => gprev[g] \notin batch
  BY DEF IndInv, Apart
<1>7. OnTheWay' = OnTheWay \/ \E p \in OnTheWay : OnTheWay' = OnTheWay \ {p}
  <2>1. CASE gprev[g] \in pending \intersect Valid
    <3>1. gprev[g] \in OnTheWay /\ OnTheWay' = OnTheWay \ {gprev[g]}
      BY <1>1, <1>4, <1>5, <1>6, <2>1 DEF OnTheWay
    <3>2. QED
      BY <3>1
  <2>2. CASE gprev[g] \notin pending \intersect Valid
    BY <1>1, <1>4, <2>2 DEF OnTheWay
  <2>3. QED
    BY <2>1, <2>2
<1>8. Alone' = Alone /\ Failed' = Failed
  BY <1>1 DEF Alone, Failed
<1>9. QED
  BY <1>1, <1>2, <1>3, <1>7, <1>8 DEF Abstract!GiveUp, Cleared

\* A getter takes the next trace, if there is one.
LEMMA MapTake ==
    ASSUME IndInv, NEW g \in Getters, Take(g)
    PROVE  Abstract!Take
<1>1. /\ gpc[g] = "render" /\ Goto(g, "taken")
      /\ gprev' = [gprev EXCEPT ![g] = nextPrev] /\ nextPrev' = nextPrev + 1
      /\ UNCHANGED <<pool, gidx, asked, numTraces, pending, batch, cpc, seen, file>>
  BY DEF Take, queue, commitVars
<1>2. Wants[g] = gidx[g] /\ gidx[g] # NoIndex
  BY <1>1, WantsOf DEF IndInv
<1>3. Wants' = Wants
  BY <1>1, GoesOn DEF IndInv, Labels
<1>4. InHand' = InHand \union {nextPrev}
  BY <1>1, HandsOver DEF IndInv
<1>5. OnTheWay' = OnTheWay \union ({nextPrev} \intersect Valid)
  BY <1>1, <1>4 DEF OnTheWay
<1>6. Alone' = Alone /\ Failed' = Failed
  BY <1>1 DEF Alone, Failed
<1>7. QED
  BY <1>1, <1>2, <1>3, <1>5, <1>6 DEF Abstract!Take

\* The steps between: the counters are read, and a trace passes from hand to queue.
LEMMA MapHidden ==
    ASSUME IndInv, NEW g \in Getters,
           \/ Check(g) \/ Reached(g) \/ InsertSentinel(g) \/ Insert(g) \/ FetchInvalid(g)
           \/ Fetch(g) \/ ContinueRender(g) \/ PassSentinel(g)
    PROVE  UNCHANGED Abstract!vars
<1>1. /\ UNCHANGED <<pool, gidx, gprev, asked, nextPrev, numTraces, batch, cpc, seen, file>>
      /\ gpc[g] \notin {"idle", "failed", "dropped"}
  BY DEF Check, Reached, InsertSentinel, Insert, FetchInvalid, Fetch, ContinueRender, PassSentinel,
         RemoveEntry, counters, queue, commitVars
<1>2. \E label \in Labels \ {"idle", "failed", "taken", "dropped"} : Goto(g, label)
  BY DEF Check, Reached, InsertSentinel, Insert, FetchInvalid, Fetch, ContinueRender, PassSentinel, Labels
<1>3. Wants' = Wants
  BY <1>1, <1>2, GoesOn DEF IndInv
<1>4. OnTheWay' = OnTheWay
  <2>1. CASE InsertSentinel(g)
    <3>1. gprev[g] \notin Valid /\ gpc[g] = "taken" /\ pending' = pending
      BY <2>1, SizesAssumption DEF InsertSentinel, PastEnd, IndInv, Types
    <3>2. InHand' = InHand \ {gprev[g]}
      BY <1>1, <1>2, <3>1, LetsGo DEF IndInv
    <3>3. QED
      BY <1>1, <3>1, <3>2 DEF OnTheWay
  <2>2. CASE Insert(g)
    <3>1. gpc[g] = "taken" /\ pending' = pending \union {gprev[g]}
      BY <2>2 DEF Insert
    <3>2. InHand' = InHand \ {gprev[g]} /\ gprev[g] \in InHand
      BY <1>1, <1>2, <3>1, LetsGo DEF IndInv
    <3>3. QED
      BY <1>1, <3>1, <3>2 DEF OnTheWay
  <2>3. CASE FetchInvalid(g)
    <3>1. gprev[g] \notin Valid /\ gpc[g] = "fetch" /\ pending' = pending \ {gprev[g]}
      BY <2>3 DEF FetchInvalid, RemoveEntry
    <3>2. InHand' = InHand
      BY <1>1, <1>2, <3>1, HandsKept DEF IndInv
    <3>3. QED
      BY <1>1, <3>1, <3>2 DEF OnTheWay
  <2>4. CASE Check(g) \/ Reached(g) \/ Fetch(g) \/ ContinueRender(g) \/ PassSentinel(g)
    <3>1. gpc[g] \notin {"taken", "dropped"} /\ pending' = pending
      BY <2>4 DEF Check, Reached, Fetch, ContinueRender, PassSentinel, queue
    <3>2. InHand' = InHand
      BY <1>1, <1>2, <3>1, HandsKept DEF IndInv
    <3>3. QED
      BY <1>1, <3>1, <3>2 DEF OnTheWay
  <2>5. QED
    BY <2>1, <2>2, <2>3, <2>4
<1>5. QED
  BY <1>1, <1>3, <1>4, Hidden

\* Every step of a getter is one of these.
LEMMA MapGetter ==
    ASSUME IndInv, NEW g \in Getters, Ask(g) \/ Getter(g)
    PROVE  Abstract!Next \/ UNCHANGED Abstract!vars
BY MapAsk, MapEnd, MapDrop, MapSeeFailure, MapTake, MapHidden DEF Getter, Abstract!Next

\* The steps of the commit thread and of the exit leave the getters alone.
LEMMA GettersStay ==
    ASSUME CommitThread \/ Drained \/ Close
    PROVE  UNCHANGED <<pool, asked, nextPrev>> /\ Wants' = Wants /\ InHand' = InHand /\ Alone' = Alone
<1>1. UNCHANGED <<pool, gpc, gidx, gprev, asked, nextPrev>>
  BY OtherStep DEF getterVars
<1>2. QED
  BY <1>1 DEF Wants, InHand, At, Alone

\* One thread alone: the oldest of the batch is the oldest of all on their way.
LEMMA MapWrite ==
    ASSUME IndInv, WriteTrace
    PROVE  Abstract!Write
<1>0. Types
  BY DEF IndInv
<1>1. /\ First \in batch /\ \A q \in batch : First <= q
      /\ cpc = "commit" /\ ~seen /\ file' = Append(file, First) /\ batch' = batch \ {First}
      /\ UNCHANGED <<pending, numTraces, cpc, seen>>
  BY <1>0, WriteStep DEF counters, queue
<1>2. UNCHANGED <<pool, asked, nextPrev>> /\ Wants' = Wants /\ InHand' = InHand /\ Alone' = Alone
  BY GettersStay DEF CommitThread
<1>3. First \notin pending /\ First \notin InHand
  BY <1>1 DEF IndInv, Apart, Held, InHand, At
<1>4. First \in OnTheWay /\ OnTheWay' = OnTheWay \ {First}
  <2>1. First \in Valid
    BY <1>1 DEF IndInv, Types
  <2>2. QED
    BY <1>1, <1>2, <1>3, <2>1 DEF OnTheWay
<1>5. ASSUME Alone, NEW q \in OnTheWay
      PROVE  First <= q
  <2>1. q \in Nat /\ First \in Nat /\ nextPrev \in Nat
    BY <1>1, SizesAssumption DEF OnTheWay, IndInv, Types
  <2>2. CASE q \in batch
    BY <1>1, <2>2
  <2>3. CASE q \in pending
    <3>1. First < q
      BY <1>1, <1>5, <2>3 DEF IndInv, Ordered
    <3>2. QED
      BY <1>1, <2>1, <3>1
  <2>4. CASE q \in InHand
    <3>1. PICK g \in Getters : gpc[g] \in {"taken", "dropped"} /\ q = gprev[g]
      BY <2>4 DEF InHand, At
    <3>2. q + 1 = nextPrev
      BY <1>5, <3>1 DEF IndInv, Ordered, Holding
    <3>3. First < nextPrev
      BY <1>1 DEF IndInv, Apart
    <3>4. QED
      BY <1>1, <2>1, <3>2, <3>3
  <2>5. QED
    BY <2>2, <2>3, <2>4 DEF OnTheWay
<1>6. ~Failed /\ Failed' = Failed
  BY <1>1 DEF Failed
<1>7. QED
  BY <1>1, <1>2, <1>4, <1>5, <1>6 DEF Abstract!Write

\* The commit thread returns with an error, and what it had is lost.
LEMMA MapDie ==
    ASSUME IndInv, WriteFails \/ TraceAfterSentinel
    PROVE  Abstract!Die
<1>1. /\ cpc' = "dead" /\ batch # {} /\ (seen \/ "write" \in Faults)
      /\ UNCHANGED <<pending, batch, numTraces, file, seen>>
  BY DEF WriteFails, TraceAfterSentinel, Die, queue
<1>2. UNCHANGED <<pool, asked, nextPrev>> /\ Wants' = Wants /\ InHand' = InHand /\ Alone' = Alone
  BY GettersStay DEF CommitThread
<1>3. OnTheWay' = OnTheWay
  BY <1>1, <1>2 DEF OnTheWay
<1>4. OnTheWay # {}
  <2>1. PICK p \in batch : TRUE
    BY <1>1
  <2>2. p \in OnTheWay
    BY <2>1 DEF OnTheWay, IndInv, Types
  <2>3. QED
    BY <2>2
<1>5. Failed' = TRUE
  BY <1>1 DEF Failed
<1>6. QED
  BY <1>1, <1>2, <1>3, <1>4, <1>5 DEF Abstract!Die

\* When one thread alone has reached the end, nothing is on its way any more.
LEMMA MapAnnounce ==
    ASSUME IndInv, EndReached, CommitSentinel
    PROVE  Abstract!Announce
<1>1. /\ cpc = "commit" /\ batch = {} /\ batchSentinels > 0
      /\ seen' = TRUE /\ numTraces' = Len(file)
      /\ UNCHANGED <<pending, batch, file, cpc>>
  BY DEF CommitSentinel, SetNumTraces, queue
<1>2. UNCHANGED <<pool, asked, nextPrev>> /\ Wants' = Wants /\ InHand' = InHand /\ Alone' = Alone
  BY GettersStay DEF CommitThread
<1>3. OnTheWay' = OnTheWay
  BY <1>1, <1>2 DEF OnTheWay
<1>4. nextPrev > NPrev
  BY <1>1 DEF EndReached
<1>5. ASSUME Alone, NEW q \in OnTheWay
      PROVE  FALSE
  <2>1. pending = {}
    BY <1>1, <1>5 DEF IndInv, Ordered
  <2>2. PICK g \in Getters : gpc[g] \in {"taken", "dropped"} /\ q = gprev[g]
    BY <1>1, <2>1 DEF OnTheWay, InHand, At
  <2>3. q + 1 = nextPrev
    BY <1>5, <2>2 DEF IndInv, Ordered, Holding
  <2>4. q \in 0 .. NPrev - 1 /\ NPrev \in Nat /\ nextPrev \in Nat
    BY SizesAssumption DEF OnTheWay, IndInv, Types
  <2>5. QED
    BY <1>4, <2>3, <2>4
<1>6. ~Failed /\ Failed' = Failed
  BY <1>1 DEF Failed
<1>7. QED
  BY <1>1, <1>2, <1>3, <1>4, <1>5, <1>6 DEF Abstract!Announce

\* The set is closed with the number of traces that were accounted for.
LEMMA MapClose ==
    ASSUME IndInv, Close
    PROVE  Abstract!Close
<1>1. /\ closer = "join" /\ cpc = "dead" /\ numTraces' = numWritten
      /\ UNCHANGED <<pending, batch, file, cpc, seen>>
  BY DEF Close, CloseUnchanged, queue, commitVars
<1>2. UNCHANGED <<pool, asked, nextPrev>> /\ Wants' = Wants /\ InHand' = InHand /\ Alone' = Alone
  BY GettersStay
<1>3. OnTheWay' = OnTheWay
  BY <1>1, <1>2 DEF OnTheWay
<1>4. \A g \in Getters : Wants[g] = NoIndex
  BY <1>1, WantsOf DEF IndInv, Closing
<1>5. numTraces' \in Nat
  BY <1>1 DEF IndInv, Types
<1>6. Failed /\ Failed' = Failed
  BY <1>1 DEF Failed
<1>7. QED
  BY <1>1, <1>2, <1>3, <1>4, <1>5, <1>6 DEF Abstract!Close

\* The queue is cut, a batch is accounted for, the lock is taken.
LEMMA MapHousekeeping ==
    ASSUME IndInv, Collect \/ Account \/ Drained
    PROVE  UNCHANGED Abstract!vars
<1>1. UNCHANGED <<pool, asked, nextPrev>> /\ Wants' = Wants /\ InHand' = InHand
  BY GettersStay DEF CommitThread
<1>2. CASE Collect
  <2>1. /\ batch' = Complete /\ pending' = pending \ Complete /\ Complete \subseteq pending
        /\ cpc = "sleep" /\ cpc' = "commit"
        /\ UNCHANGED <<numTraces, seen, file>>
    BY <1>2, CollectStep DEF IndInv, counters
  <2>2. batch = {}
    BY <2>1 DEF IndInv, Accounted
  <2>3. OnTheWay' = OnTheWay
    BY <1>1, <2>1, <2>2 DEF OnTheWay
  <2>4. QED
    BY <1>1, <2>1, <2>3, Hidden
<1>3. CASE Account \/ Drained
  <2>1. /\ UNCHANGED <<pending, batch, numTraces, seen, file>>
        /\ cpc' = "dead" <=> cpc = "dead"
    BY <1>3 DEF Account, Drained, CloseUnchanged, queue, commitVars
  <2>2. OnTheWay' = OnTheWay
    BY <1>1, <2>1 DEF OnTheWay
  <2>3. QED
    BY <1>1, <2>1, <2>2, Hidden
<1>4. QED
  BY <1>2, <1>3

\* The first state, and every step.
LEMMA MapInit == Init => Abstract!Init
<1> SUFFICES ASSUME Init PROVE Abstract!Init
  OBVIOUS
<1>1. /\ \A g \in Getters : gpc[g] = "idle"
      /\ pending = {} /\ batch = {} /\ cpc = "sleep"
      /\ asked = 0 /\ nextPrev = 0 /\ numTraces = Unknown /\ seen = FALSE /\ file = <<>>
  BY DEF Init
<1>2. Wants = [g \in Getters |-> NoIndex]
  BY <1>1 DEF Wants
<1>3. OnTheWay = {}
  BY <1>1 DEF OnTheWay, InHand, At
<1>4. Failed = FALSE /\ Alone \in BOOLEAN
  BY <1>1 DEF Failed, Alone
<1>5. QED
  BY <1>1, <1>2, <1>3, <1>4 DEF Abstract!Init

LEMMA MapNext ==
    ASSUME IndInv, EndReached, [Next]_vars
    PROVE  [Abstract!Next]_(Abstract!vars)
<1>1. ASSUME NEW g \in Getters, Ask(g) \/ Getter(g)
      PROVE  Abstract!Next \/ UNCHANGED Abstract!vars
  BY <1>1, MapGetter
<1>2. CASE CommitThread \/ Drained \/ Close
  BY <1>2, MapWrite, MapDie, MapAnnounce, MapClose, MapHousekeeping DEF CommitThread, Abstract!Next
<1>3. CASE UNCHANGED vars
  <2>1. UNCHANGED <<pool, gpc, gidx, gprev, asked, nextPrev, numTraces, pending, batch, cpc, seen, file>>
    BY <1>3 DEF vars, getterVars, counters, queue, commitVars
  <2>2. Wants' = Wants /\ OnTheWay' = OnTheWay
    BY <2>1 DEF Wants, OnTheWay, InHand, At
  <2>3. QED
    BY <2>1, <2>2, Hidden
<1>4. QED
  BY <1>1, <1>2, <1>3 DEF Next

\* The queue, the commit thread, the counters read without a lock and the sentinels together
\* are a log into which each trace of the previous set goes once, and whose length, once it
\* is announced, is final (tfm_save.c).
THEOREM Implements == Spec => ImplementsCommitLog
<1>1. Init => IndInv /\ EndReached
  <2>1. Init => EndReached
    BY DEF Init, EndReached
  <2>2. QED
    BY <2>1, Initially
<1>2. IndInv /\ EndReached /\ [Next]_vars => IndInv' /\ EndReached'
  BY Preserved, EndReachedStep DEF IndInv
<1>3. IndInv /\ EndReached /\ [Next]_vars => [Abstract!Next]_(Abstract!vars)
  BY MapNext
<1>4. QED
  BY <1>1, <1>2, <1>3, MapInit, PTL DEF Spec, ImplementsCommitLog, Abstract!Spec

=============================================================================
