----------------------------- MODULE SaveQueue -----------------------------
(***************************************************************************)
(* tfm_save (transform/system/tfm_save.c).  Whoever asks for a trace that   *)
(* is not written yet renders traces of the set before it, one after the    *)
(* other, into a sorted commit queue; a commit thread moves the complete    *)
(* front of the queue to the file.  Who runs past the last trace puts a     *)
(* sentinel into the queue and waits until the commit thread meets it.      *)
(*                                                                         *)
(* The queue is sorted by prev_index with the sentinels last, and every     *)
(* prev_index is in it at most once: it is a set of indices and a number.   *)
(***************************************************************************)
EXTENDS Integers, FiniteSets, Sequences

CONSTANTS Getters,
          NPrev,    \* ts_num_traces(ts->prev)
          Valid,    \* the indices whose trace has samples
          Faults

ASSUME SizesAssumption == NPrev \in Nat /\ Valid \subseteq 0 .. NPrev - 1
ASSUME GettersAssumption == IsFiniteSet(Getters)
ASSUME FaultsAssumption == Faults \subseteq {"get", "memory", "write"}

VARIABLES
    pool,               \* the getters there are: the threads of the render
    gpc, gidx, gprev,   \* per getter: where, the index it wants, its prev_index
    asked,              \* the next index of the render
    nextPrev,           \* prev_next_trace
    numWritten,         \* num_traces_written
    numTraces,          \* ts->num_traces
    pending,            \* the prev_index of the entries in the queue
    ready,              \* those of them whose trace is there
    sentinels,          \* the sentinels in the queue
    sem,                \* the semaphore that who queued a sentinel waits for
    cpc,                \* where the commit thread is; "dead" when it has returned
    batch, batchSentinels,  \* its write_head
    count,              \* how many entries it took
    seen,               \* sentinel_seen
    file,               \* the prev_index of the traces written, in order
    closer,             \* where the thread that closes the set is
    header              \* the number of traces the header of a closed file gives

getterVars == <<pool, gpc, gidx, gprev, asked>>
counters == <<nextPrev, numWritten, numTraces>>
queue == <<pending, ready, sentinels>>
commitVars == <<cpc, batch, batchSentinels, count, seen, file>>
closeVars == <<closer, header>>
vars == <<getterVars, counters, queue, sem, commitVars, closeVars>>

\* UNKNOWN_NUM_TRACES, larger than every number of traces.
Unknown == 1000

Init ==
    /\ pool \in (SUBSET Getters) \ {{}}
    /\ gpc = [g \in Getters |-> "idle"]
    /\ gidx = [g \in Getters |-> 0]
    /\ gprev = [g \in Getters |-> 0]
    /\ asked = 0
    /\ nextPrev = 0
    /\ numWritten = 0
    /\ numTraces = Unknown
    /\ pending = {}
    /\ ready = {}
    /\ sentinels = 0
    /\ sem = 0
    /\ cpc = "sleep"
    /\ batch = {}
    /\ batchSentinels = 0
    /\ count = 0
    /\ seen = FALSE
    /\ file = <<>>
    /\ closer = "open"
    /\ header = Unknown

\* list_lock is taken by __tfm_save_exit and kept.
Unlocked == closer = "open"

-----------------------------------------------------------------------------
(* A getter: trace_get on the set, __tfm_save_get and __render_to_index *)

Goto(g, label) == gpc' = [gpc EXCEPT ![g] = label]

\* The render hands out the next index while it knows of no end.
Ask(g) ==
    /\ g \in pool
    /\ gpc[g] = "idle"
    /\ closer = "open"
    /\ asked < numTraces
    /\ asked' = asked + 1
    /\ gidx' = [gidx EXCEPT ![g] = asked]
    /\ Goto(g, "asked")
    /\ UNCHANGED <<pool, gprev, counters, queue, sem, commitVars, closeVars>>

\* The end has become known after the index was handed out.
OutOfBounds(g) ==
    /\ gpc[g] = "asked"
    /\ gidx[g] >= numTraces
    /\ Goto(g, "failed")
    /\ UNCHANGED <<pool, gidx, gprev, asked, counters, queue, sem, commitVars, closeVars>>

\* num_traces_written is read without the lock.
Check(g) ==
    /\ gpc[g] = "asked"
    /\ gidx[g] < numTraces
    /\ Goto(g, IF gidx[g] >= numWritten THEN "render" ELSE "read")
    /\ UNCHANGED <<pool, gidx, gprev, asked, counters, queue, sem, commitVars, closeVars>>

Reached(g) ==
    /\ gpc[g] = "render"
    /\ Unlocked
    /\ gidx[g] < numWritten
    /\ Goto(g, "read")
    /\ UNCHANGED <<pool, gidx, gprev, asked, counters, queue, sem, commitVars, closeVars>>

Take(g) ==
    /\ gpc[g] = "render"
    /\ Unlocked
    /\ gidx[g] >= numWritten
    /\ gprev' = [gprev EXCEPT ![g] = nextPrev]
    /\ nextPrev' = nextPrev + 1
    /\ Goto(g, "taken")
    /\ UNCHANGED <<pool, gidx, asked, numWritten, numTraces, queue, sem, commitVars, closeVars>>

PastEnd(g) == gprev[g] >= NPrev

InsertSentinel(g) ==
    /\ gpc[g] = "taken"
    /\ Unlocked
    /\ PastEnd(g)
    /\ sentinels' = sentinels + 1
    /\ Goto(g, "waiting")
    /\ UNCHANGED <<pool, gidx, gprev, asked, counters, pending, ready, sem, commitVars, closeVars>>

Insert(g) ==
    /\ gpc[g] = "taken"
    /\ Unlocked
    /\ ~PastEnd(g)
    /\ pending' = pending \union {gprev[g]}
    /\ Goto(g, "fetch")
    /\ UNCHANGED <<pool, gidx, gprev, asked, counters, ready, sentinels, sem, commitVars, closeVars>>

\* There is no memory for the entry, be it a sentinel: the index is taken and lost.
InsertFails(g) ==
    /\ "memory" \in Faults
    /\ gpc[g] = "taken"
    /\ Goto(g, "dropped")
    /\ UNCHANGED <<pool, gidx, gprev, asked, counters, queue, sem, commitVars, closeVars>>

\* The error return leaves the entry in the queue, without a trace.
FetchFails(g) ==
    /\ "get" \in Faults
    /\ gpc[g] = "fetch"
    /\ Goto(g, "failed")
    /\ UNCHANGED <<pool, gidx, gprev, asked, counters, queue, sem, commitVars, closeVars>>

\* MUTANT: the entry of a trace without samples stays in the queue.
MutRemoveEntry(g) == UNCHANGED <<pending, ready>>

RemoveEntry(g) ==
    /\ pending' = pending \ {gprev[g]}
    /\ ready' = ready \ {gprev[g]}

FetchInvalid(g) ==
    /\ gpc[g] = "fetch"
    /\ Unlocked
    /\ gprev[g] \notin Valid
    /\ RemoveEntry(g)
    /\ Goto(g, "render")
    /\ UNCHANGED <<pool, gidx, gprev, asked, counters, sentinels, sem, commitVars, closeVars>>

\* The trace is put into the entry without the lock.
Fetch(g) ==
    /\ gpc[g] = "fetch"
    /\ gprev[g] \in Valid
    /\ ready' = ready \union {gprev[g]}
    /\ Goto(g, "filled")
    /\ UNCHANGED <<pool, gidx, gprev, asked, counters, pending, sentinels, sem, commitVars, closeVars>>

\* thread_ret < 0.
Failed == cpc = "dead"

ContinueRender(g) ==
    /\ gpc[g] = "filled"
    /\ ~Failed
    /\ Goto(g, "render")
    /\ UNCHANGED <<pool, gidx, gprev, asked, counters, queue, sem, commitVars, closeVars>>

\* The commit thread has failed: the entry is taken out again.
SeeFailure(g) ==
    /\ gpc[g] = "filled"
    /\ Failed
    /\ Unlocked
    /\ RemoveEntry(g)
    /\ Goto(g, "failed")
    /\ UNCHANGED <<pool, gidx, gprev, asked, counters, sentinels, sem, commitVars, closeVars>>

PassSentinel(g) ==
    /\ gpc[g] = "waiting"
    /\ sem > 0
    /\ sem' = sem - 1
    /\ Goto(g, "read")
    /\ UNCHANGED <<pool, gidx, gprev, asked, counters, queue, commitVars, closeVars>>

\* The trace is read back from the file, or is empty past the end.
Read(g) ==
    /\ gpc[g] = "read"
    /\ Goto(g, "idle")
    /\ UNCHANGED <<pool, gidx, gprev, asked, counters, queue, sem, commitVars, closeVars>>

-----------------------------------------------------------------------------
(* The commit thread *)

CommitUnchanged == UNCHANGED <<getterVars, nextPrev, closeVars>>

\* The entries before the first one that has no trace.
Complete == {p \in pending : \A q \in pending : q <= p => q \in ready}

\* The sentinels follow when nothing stops the scan before them.
CompleteSentinels == IF Complete = pending THEN sentinels ELSE 0

\* MUTANT: the list is cut at its end.
MutRemaining == {}

Remaining == pending \ Complete

Collect ==
    /\ cpc = "sleep"
    /\ Unlocked
    /\ batch' = Complete
    /\ batchSentinels' = CompleteSentinels
    /\ count' = Cardinality(Complete) + CompleteSentinels
    /\ count' > 0
    /\ pending' = Remaining
    /\ ready' = ready \ Complete
    /\ sentinels' = sentinels - CompleteSentinels
    /\ cpc' = "commit"
    /\ UNCHANGED <<numWritten, numTraces, sem, seen, file>>
    /\ CommitUnchanged

First == CHOOSE p \in batch : \A q \in batch : p <= q

WriteTrace ==
    /\ cpc = "commit"
    /\ batch # {}
    /\ ~seen
    /\ file' = Append(file, First)
    /\ batch' = batch \ {First}
    /\ UNCHANGED <<numWritten, numTraces, queue, sem, cpc, batchSentinels, count, seen>>
    /\ CommitUnchanged

\* What is left of the batch is lost with the thread.
Die ==
    /\ cpc' = "dead"
    /\ UNCHANGED <<numWritten, numTraces, queue, sem, batch, batchSentinels, count, seen, file>>
    /\ CommitUnchanged

WriteFails ==
    /\ "write" \in Faults
    /\ cpc = "commit"
    /\ batch # {}
    /\ ~seen
    /\ Die

TraceAfterSentinel ==
    /\ cpc = "commit"
    /\ batch # {}
    /\ seen
    /\ Die

\* MUTANT: the number of traces is not set, or from the counter of the batches.
MutKeepNumTraces == UNCHANGED numTraces
MutStaleNumTraces == numTraces' = numWritten

SetNumTraces == numTraces' = Len(file)

PostSentinel == sem' = sem + 1

CommitSentinel ==
    /\ cpc = "commit"
    /\ batch = {}
    /\ batchSentinels > 0
    /\ Unlocked
    /\ seen' = TRUE
    /\ SetNumTraces
    /\ PostSentinel
    /\ batchSentinels' = batchSentinels - 1
    /\ UNCHANGED <<numWritten, queue, cpc, batch, count, file>>
    /\ CommitUnchanged

\* The sentinels are counted with the traces.
Account ==
    /\ cpc = "commit"
    /\ batch = {}
    /\ batchSentinels = 0
    /\ Unlocked
    /\ numWritten' = numWritten + count
    /\ cpc' = "sleep"
    /\ UNCHANGED <<numTraces, queue, sem, batch, batchSentinels, count, seen, file>>
    /\ CommitUnchanged

-----------------------------------------------------------------------------
(* __tfm_save_exit *)

CloseUnchanged == UNCHANGED <<getterVars, nextPrev, numWritten, queue, sem, commitVars>>

RenderOver ==
    /\ \A g \in Getters : gpc[g] \in {"idle", "failed", "dropped"}
    /\ asked >= numTraces \/ \E g \in Getters : gpc[g] \in {"failed", "dropped"}

\* The queue is drained: the loop is left with the lock taken.
Drained ==
    /\ closer = "open"
    /\ RenderOver
    /\ pending = {} /\ sentinels = 0
    /\ closer' = "join"
    /\ UNCHANGED <<numTraces, header>>
    /\ CloseUnchanged

\* The commit thread cannot see that it is to exit: it needs the lock first.
Close ==
    /\ closer = "join"
    /\ cpc = "dead"
    /\ numTraces' = numWritten
    /\ header' = numWritten
    /\ closer' = "closed"
    /\ CloseUnchanged

-----------------------------------------------------------------------------

Getter(g) ==
    \/ OutOfBounds(g) \/ Check(g) \/ Reached(g) \/ Take(g)
    \/ InsertSentinel(g) \/ Insert(g) \/ InsertFails(g)
    \/ FetchFails(g) \/ FetchInvalid(g) \/ Fetch(g)
    \/ ContinueRender(g) \/ SeeFailure(g) \/ PassSentinel(g) \/ Read(g)

CommitThread ==
    \/ Collect \/ WriteTrace \/ WriteFails \/ TraceAfterSentinel
    \/ CommitSentinel \/ Account

Next ==
    \/ \E g \in Getters : Ask(g) \/ Getter(g)
    \/ CommitThread
    \/ Drained \/ Close

Spec == Init /\ [][Next]_vars

\* Threads that are not blocked go on, the traces of the set before arrive, and
\* the render asks and closes when it is time to.
FairSpec ==
    /\ Spec
    /\ \A g \in Getters : WF_vars(Getter(g)) /\ WF_vars(Ask(g))
    /\ WF_vars(CommitThread)
    /\ WF_vars(Drained \/ Close)

-----------------------------------------------------------------------------
(* Properties *)

TypeOK ==
    /\ pool \subseteq Getters
    /\ gpc \in [Getters -> {"idle", "asked", "render", "taken", "fetch",
                            "filled", "waiting", "read", "failed", "dropped"}]
    /\ gidx \in [Getters -> Nat]
    /\ gprev \in [Getters -> Nat]
    /\ asked \in Nat /\ nextPrev \in Nat /\ numWritten \in Nat
    /\ numTraces \in Nat
    /\ pending \subseteq 0 .. NPrev - 1
    /\ ready \subseteq pending
    /\ sentinels \in 0 .. Cardinality(Getters)
    /\ sem \in 0 .. Cardinality(Getters)
    /\ cpc \in {"sleep", "commit", "dead"}
    /\ batch \subseteq Valid
    /\ batchSentinels \in 0 .. Cardinality(Getters)
    /\ count \in Nat
    /\ seen \in BOOLEAN
    /\ file \in Seq(Valid)
    /\ closer \in {"open", "join", "closed"}
    /\ header \in Nat

Written == {file[n] : n \in DOMAIN file}

At(labels) == {g \in Getters : gpc[g] \in labels}

\* As long as the commit thread lives, no trace is lost or written twice on its
\* way: each usable index that was taken is with the getter that took it, or that
\* had no memory for it, in the queue, in the batch or in the file, and in one of
\* them only.
NothingLost ==
    LET taken == At({"taken", "dropped"})
        Places == <<{gprev[g] : g \in taken}, pending, batch, Written>>
    IN  ~Failed =>
            /\ \A p \in Valid : p < nextPrev => \E n \in 1 .. 4 : p \in Places[n]
            /\ \A m, n \in 1 .. 4 : m # n => Places[m] \intersect Places[n] = {}
            /\ \A g, h \in taken : gprev[g] = gprev[h] => g = h
            /\ \A m, n \in DOMAIN file : file[m] = file[n] => m = n

\* A trace that is read back from the file has been written, although
\* num_traces_written and num_traces are read without a lock and the first counts
\* sentinels too.
ReadsWritten ==
    \A g \in At({"read"}) : gidx[g] < numTraces => gidx[g] < Len(file)

\* With one render thread, whatever fails, the traces stand in the file in the order of the
\* previous set and without a gap (those without samples are left out), and the end is
\* announced when the file is complete.
FileFaithful ==
    Cardinality(pool) = 1 =>
        /\ \A m, n \in DOMAIN file : m < n => file[m] < file[n]
        /\ \A n \in DOMAIN file : \A p \in Valid : p < file[n] => p \in Written
        /\ numTraces # Unknown /\ ~Failed => Valid \subseteq Written /\ numTraces = Len(file)

\* A trace could not be got, or the commit thread has ended with an error.
Stopped == Failed \/ At({"failed", "dropped"}) # {}

\* Each trace_get returns as long as nothing fails: who waits past the end gets
\* its sentinel.
EveryGetReturns ==
    \A g \in Getters : gpc[g] # "idle" ~> gpc[g] = "idle" \/ Stopped

\* trace.h: ts_close returns "0 on success, does not fail"; so it returns.
CloseReturns == <>(closer = "closed")

=============================================================================
