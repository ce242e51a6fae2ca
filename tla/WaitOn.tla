------------------------------- MODULE WaitOn -------------------------------
(***************************************************************************)
(* tfm_wait_on (transform/system/tfm_wait_on.c).  The transformation before *)
(* it pushes results in the order in which they happen to be computed; they *)
(* are buffered in a cache of their own, where a result nobody reads may be *)
(* evicted.  A getter whose result is not there leaves a request in a list  *)
(* and waits for the push.                                                  *)
(*                                                                         *)
(* The buffer and the list are used under the waiter's lock, so that a push *)
(* and a search are one step each; tc_deref after the copy is another.      *)
(***************************************************************************)
EXTENDS LruPolicy, FiniteSets

CONSTANTS Producers, Getters, NTraces,
          BufTraces,  \* entry->ntraces: how many traces the buffer is said to hold
          Faults

NSets == BufTraces \div NWays

\* A buffer with less than one set would make tc_store divide by zero.
ASSUME SizesAssumption == NTraces \in Nat /\ BufTraces \in Nat /\ NSets > 0
ASSUME GettersAssumption == IsFiniteSet(Getters)
ASSUME FaultsAssumption == Faults \subseteq {"alloc", "copy"}

VARIABLES
    ppc, pidx,    \* per producer: where, and the index it pushes
    nextPush,     \* the next index that is computed
    over,         \* history: the indices whose push has returned
    slot,         \* per set and way: the index of the trace, or Empty
    refcount, lru,
    gpc, gidx,    \* per getter: where, and TRACE_IDX of its trace
    asked,        \* the next index of the getters' render
    wanted,       \* the getters whose request is in traces_wanted
    leaked        \* a call returned and kept the waiter's lock

producerVars == <<ppc, pidx, nextPush, over>>
bufferVars == <<slot, refcount, lru>>
getterVars == <<gpc, gidx, asked>>
vars == <<producerVars, bufferVars, getterVars, wanted, leaked>>

Indices == 0 .. NTraces - 1
SetIds == 0 .. NSets - 1
SetOf(k) == k % NSets
Empty == -1

Init ==
    /\ ppc = [p \in Producers |-> "idle"]
    /\ pidx = [p \in Producers |-> 0]
    /\ nextPush = 0
    /\ over = {}
    /\ slot = [s \in SetIds |-> [w \in Ways |-> Empty]]
    /\ refcount = [s \in SetIds |-> [w \in Ways |-> 0]]
    /\ lru = [s \in SetIds |-> FreshAges]
    /\ gpc = [g \in Getters |-> "idle"]
    /\ gidx = [g \in Getters |-> 0]
    /\ asked = 0
    /\ wanted = {}
    /\ leaked = FALSE

Buffered == {slot[s][w] : s \in SetIds, w \in Ways} \ {Empty}

-----------------------------------------------------------------------------
(* __tfm_wait_on_push *)

\* The transformation before computes the indices in order, several at a time.
Compute(p) ==
    /\ ppc[p] = "idle"
    /\ nextPush < NTraces
    /\ pidx' = [pidx EXCEPT ![p] = nextPush]
    /\ nextPush' = nextPush + 1
    /\ ppc' = [ppc EXCEPT ![p] = "push"]
    /\ UNCHANGED <<over, bufferVars, getterVars, wanted, leaked>>

\* MUTANT: a trace somebody reads may be evicted.
MutCandidates(s) ==
    LET empty == {w \in Ways : slot[s][w] = Empty} IN
    IF empty # {} THEN empty ELSE Ways

\* Empty ways first; when there are none, those nobody reads.
Candidates(s) ==
    LET empty == {w \in Ways : slot[s][w] = Empty} IN
    IF empty # {} THEN empty ELSE {w \in Ways : refcount[s][w] = 0}

\* A stored trace is dereferenced at once.
Store(k) == \E w \in Highest(lru[SetOf(k)], Candidates(SetOf(k))) :
    /\ slot' = [slot EXCEPT ![SetOf(k)][w] = k]
    /\ refcount' = [refcount EXCEPT ![SetOf(k)][w] = 0]
    /\ lru' = [lru EXCEPT ![SetOf(k)] = UpdateLru(@, w, FALSE)]

\* MUTANT: the scan of the requests stops before the index that is pushed.
MutServed(k) == {}

\* MUTANT: every older request is timed out.
MutTimedOut(k) == {g \in wanted : gidx[g] < k}

\* The requests that the push of k ends: those for k, and those for an index that
\* is more than the buffer's size behind.
Served(k) == {g \in wanted : gidx[g] = k}
TimedOut(k) == {g \in wanted : gidx[g] < k - BufTraces}

PushReturns(p, label) ==
    /\ over' = over \union {pidx[p]}
    /\ ppc' = [ppc EXCEPT ![p] = label]

Push(p) ==
    /\ ppc[p] = "push"
    /\ ~leaked
    /\ Store(pidx[p])
    /\ wanted' = wanted \ (Served(pidx[p]) \union TimedOut(pidx[p]))
    /\ PushReturns(p, "idle")
    /\ UNCHANGED <<pidx, nextPush, getterVars, leaked>>

\* Every way of the set is being read: -EINVAL, nobody is woken, and the
\* producer fails with it.
PushFull(p) ==
    /\ ppc[p] = "push"
    /\ ~leaked
    /\ Candidates(SetOf(pidx[p])) = {}
    /\ PushReturns(p, "failed")
    /\ UNCHANGED <<pidx, nextPush, bufferVars, getterVars, wanted, leaked>>

\* There is no memory for the new trace; the lock is not taken yet.
PushNoMemory(p) ==
    /\ "alloc" \in Faults
    /\ ppc[p] = "push"
    /\ PushReturns(p, "failed")
    /\ UNCHANGED <<pidx, nextPush, bufferVars, getterVars, wanted, leaked>>

-----------------------------------------------------------------------------
(* __tfm_wait_on_get *)

Goto(g, label) == gpc' = [gpc EXCEPT ![g] = label]

\* The threads of a render take the indices in order.
Ask(g) ==
    /\ gpc[g] = "idle"
    /\ asked < NTraces
    /\ gidx' = [gidx EXCEPT ![g] = asked]
    /\ asked' = asked + 1
    /\ Goto(g, "search")
    /\ UNCHANGED <<producerVars, bufferVars, wanted, leaked>>

Reference(s, w) == refcount' = [refcount EXCEPT ![s][w] = @ + 1]

\* tc_lookup finds the trace, at once or after the wait.
Find(g) == \E w \in Ways :
    LET s == SetOf(gidx[g]) IN
    /\ gpc[g] \in {"search", "woken"}
    /\ ~leaked
    /\ slot[s][w] = gidx[g]
    /\ Reference(s, w)
    /\ lru' = [lru EXCEPT ![s] = UpdateLru(@, w, TRUE)]
    /\ Goto(g, "copy")
    /\ UNCHANGED <<producerVars, slot, gidx, asked, wanted, leaked>>

\* MUTANT: the lock is released between the lookup and the request.
MutMisses(g) == TRUE

Misses(g) == gidx[g] \notin Buffered

\* The request enters the list before the lock is released.
Request(g) ==
    /\ gpc[g] = "search"
    /\ ~leaked
    /\ Misses(g)
    /\ wanted' = wanted \union {g}
    /\ Goto(g, "waiting")
    /\ UNCHANGED <<producerVars, bufferVars, gidx, asked, leaked>>

\* No semaphore or no memory for the request: the error returns keep the lock.
RequestFails(g) ==
    /\ "alloc" \in Faults
    /\ gpc[g] = "search"
    /\ ~leaked
    /\ Misses(g)
    /\ leaked' = TRUE
    /\ Goto(g, "failed")
    /\ UNCHANGED <<producerVars, bufferVars, gidx, asked, wanted>>

Wake(g) ==
    /\ gpc[g] = "waiting"
    /\ g \notin wanted
    /\ Goto(g, "woken")
    /\ UNCHANGED <<producerVars, bufferVars, gidx, asked, wanted, leaked>>

\* "Failed to find requested trace after available signaled"
FindsNothing(g) ==
    /\ gpc[g] = "woken"
    /\ ~leaked
    /\ Misses(g)
    /\ Goto(g, "failed")
    /\ UNCHANGED <<producerVars, bufferVars, gidx, asked, wanted, leaked>>

\* The copy is made without the lock; tc_deref follows it.
Copy(g) == \E w \in Ways :
    LET s == SetOf(gidx[g]) IN
    /\ gpc[g] = "copy"
    /\ slot[s][w] = gidx[g]
    /\ refcount' = [refcount EXCEPT ![s][w] = @ - 1]
    /\ Goto(g, "idle")
    /\ UNCHANGED <<producerVars, slot, lru, gidx, asked, wanted, leaked>>

\* The error return does not give the reference back: the way stays pinned.
CopyFails(g) ==
    /\ "copy" \in Faults
    /\ gpc[g] = "copy"
    /\ Goto(g, "pinned")
    /\ UNCHANGED <<producerVars, bufferVars, gidx, asked, wanted, leaked>>

-----------------------------------------------------------------------------

Producer(p) == Compute(p) \/ Push(p) \/ PushFull(p) \/ PushNoMemory(p)

Getter(g) ==
    \/ Find(g) \/ Request(g) \/ RequestFails(g)
    \/ Wake(g) \/ FindsNothing(g)
    \/ Copy(g) \/ CopyFails(g)

Next ==
    \/ \E p \in Producers : Producer(p)
    \/ \E g \in Getters : Ask(g) \/ Getter(g)

Spec == Init /\ [][Next]_vars

\* The render of the transformation before goes on to its last index, and a
\* getter goes on unless it waits for a push.
FairSpec ==
    /\ Spec
    /\ \A p \in Producers : WF_vars(Producer(p))
    /\ \A g \in Getters : WF_vars(Getter(g)) /\ WF_vars(Ask(g))

-----------------------------------------------------------------------------
(* Properties *)

TypeOK ==
    /\ ppc \in [Producers -> {"idle", "push", "failed"}]
    /\ pidx \in [Producers -> Indices \union {0}]
    /\ nextPush \in 0 .. NTraces
    /\ over \subseteq Indices
    /\ slot \in [SetIds -> [Ways -> Indices \union {Empty}]]
    /\ refcount \in [SetIds -> [Ways -> Nat]]
    /\ lru \in [SetIds -> [Ways -> Ages]]
    /\ gpc \in [Getters -> {"idle", "search", "waiting", "woken", "copy", "failed", "pinned"}]
    /\ gidx \in [Getters -> Indices \union {0}]
    /\ asked \in 0 .. NTraces
    /\ wanted \subseteq Getters
    /\ leaked \in BOOLEAN

\* No push is missed: whose request is still in the list waits for a trace that
\* is not in the buffer, although the lookup and the wait are far apart.
NoPushMissed ==
    \A g \in wanted : gpc[g] = "waiting" /\ gidx[g] \notin Buffered

Readers(k) == {g \in Getters : gpc[g] \in {"copy", "pinned"} /\ gidx[g] = k}

\* The trace a getter copies without the lock stays in the buffer, once, and its
\* references are exactly its readers, those included whose copy has failed.
ReadersKeepTrace ==
    /\ \A g \in Getters : gpc[g] \in {"copy", "pinned"} => gidx[g] \in Buffered
    /\ \A s \in SetIds, w \in Ways : slot[s][w] # Empty =>
          /\ refcount[s][w] = Cardinality(Readers(slot[s][w]))
          /\ \A v \in Ways : slot[s][v] = slot[s][w] => v = w

\* The push of the index is over, or one has left it more than the buffer's size behind.
Answered(g) == gidx[g] \in over \/ \E k \in over : gidx[g] < k - BufTraces

\* A getter comes back without its trace for one of two reasons: the push of its
\* index is over, and the trace was evicted before the getter had the lock again,
\* or a push has left the index more than the buffer's size behind.
FailureHasReason == \A g \in Getters : gpc[g] = "failed" /\ ~leaked => Answered(g)

\* The push of this index can never come, or has come and gone.
Gone(k) ==
    \/ k \in over /\ k \notin Buffered
    \/ \A p \in Producers : ppc[p] = "failed"
    \/ leaked

\* A getter waits for ever only for a trace that is gone, or behind a call that
\* kept the lock: a push that comes after the request always ends the wait.
WaitEndsWithPush ==
    \A g \in Getters : gpc[g] = "waiting" ~> gpc[g] # "waiting" \/ Gone(gidx[g])

=============================================================================
