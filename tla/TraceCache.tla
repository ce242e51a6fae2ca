----------------------------- MODULE TraceCache -----------------------------
(***************************************************************************)
(* trace_get and trace_free over a trace cache (lib/trace/trace.c and       *)
(* lib/trace/cache.c), entered by several threads.  A client is one         *)
(* outstanding reference: a thread that holds two traces is two clients.    *)
(*                                                                         *)
(* A step runs from one semaphore operation that may block to the next.     *)
(* Memory is explicit: an address is given out by calloc and may be given   *)
(* out again once it is freed.                                              *)
(***************************************************************************)
EXTENDS LruPolicy, FiniteSets

CONSTANTS Clients,
          Addrs,     \* what calloc can return
          NULL,
          NTraces, NSets,
          RefMod,    \* the reference counts are uint8_t: 2^8
          Cohesive,  \* COHESIVE_CACHES: keep the set lock from miss to store
          Faults,    \* the failures that may happen
          MaxGets    \* bound on the traces one client asks for

ASSUME SizesAssumption ==
    /\ NTraces \in Nat \ {0}
    /\ NSets \in Nat \ {0}
    /\ MaxGets \in Nat
ASSUME NamesAssumption ==
    /\ NULL \notin Clients
    /\ NULL \notin Addrs
    /\ Cohesive \in BOOLEAN
    /\ Faults \subseteq {"init", "calloc", "get"}
\* More references to one trace than a uint8_t counts would wrap to "unused".
ASSUME RefModAssumption ==
    /\ IsFiniteSet(Clients)
    /\ RefMod \in Nat
    /\ Cardinality(Clients) < RefMod

VARIABLES
    pc,           \* where each client is in trace_get / trace_free
    idx,          \* the trace index it asked for
    ptr,          \* t_result: the trace it fills or holds
    gets,         \* how many traces it has asked for (bounded by MaxGets)
    cacheLock,    \* holder of cache_lock, or NULL
    setLock,      \* per set: holder of set_lock, or NULL
    initialized,  \* the sets whose arrays exist
    traces,       \* per set and way; NULL when the way is not valid
    refcount,
    lru,
    heap,         \* per address: the index of the trace there, or FREE
    closeAt       \* tc_free: the next set to free; NotClosing before

clientVars == <<pc, idx, ptr, gets>>
setVars == <<initialized, traces, refcount, lru>>
vars == <<clientVars, cacheLock, setLock, setVars, heap, closeAt>>

Indices == 0 .. NTraces - 1
SetIds == 0 .. NSets - 1
SetOf(i) == i % NSets
FREE == -1
NotClosing == -1

\* The set a client works on.
MySet(c) == SetOf(idx[c])

Occupied(s) == {w \in Ways : traces[s][w] # NULL}

\* MUTANT: the index of the trace is not compared.
MutWaysWith(s, i) == Occupied(s)

\* The ways whose trace has index i: valid[w] && TRACE_IDX(traces[w]) == i.
WaysWith(s, i) == {w \in Occupied(s) : heap[traces[s][w]] = i}

Init ==
    /\ pc = [c \in Clients |-> "idle"]
    /\ idx = [c \in Clients |-> 0]
    /\ ptr = [c \in Clients |-> NULL]
    /\ gets = [c \in Clients |-> 0]
    /\ cacheLock = NULL
    /\ setLock = [s \in SetIds |-> NULL]
    /\ initialized = {}
    /\ traces = [s \in SetIds |-> [w \in Ways |-> NULL]]
    /\ refcount = [s \in SetIds |-> [w \in Ways |-> 0]]
    /\ lru = [s \in SetIds |-> [w \in Ways |-> 0]]
    /\ heap = [a \in Addrs |-> FREE]
    /\ closeAt = NotClosing

-----------------------------------------------------------------------------
(* tc_lookup *)

Goto(c, label) == pc' = [pc EXCEPT ![c] = label]

\* An index out of bounds is refused before anything changes.
Get(c) ==
    /\ pc[c] = "idle"
    /\ closeAt = NotClosing
    /\ gets[c] < MaxGets
    /\ \E i \in Indices : idx' = [idx EXCEPT ![c] = i]
    /\ gets' = [gets EXCEPT ![c] = @ + 1]
    /\ Goto(c, "lookup")
    /\ UNCHANGED <<ptr, cacheLock, setLock, setVars, heap, closeAt>>

\* A set that is already initialised: go for its lock without cache_lock.
LookupEnter(c) ==
    /\ pc[c] = "lookup"
    /\ cacheLock = NULL
    /\ MySet(c) \in initialized
    /\ cacheLock' = c
    /\ Goto(c, "lookup_leave")
    /\ UNCHANGED <<idx, ptr, gets, setLock, setVars, heap, closeAt>>

LookupLeave(c) ==
    /\ pc[c] = "lookup_leave"
    /\ cacheLock' = NULL
    /\ Goto(c, "scan")
    /\ UNCHANGED <<idx, ptr, gets, setLock, setVars, heap, closeAt>>

\* The first access to a set initialises it: certainly a miss.
LookupInit(c) ==
    /\ pc[c] = "lookup"
    /\ cacheLock = NULL
    /\ MySet(c) \notin initialized
    /\ cacheLock' = c
    /\ initialized' = initialized \union {MySet(c)}
    /\ lru' = [lru EXCEPT ![MySet(c)] = FreshAges]
    /\ Goto(c, "lookup_nested")
    /\ UNCHANGED <<idx, ptr, gets, setLock, traces, refcount, heap, closeAt>>

\* __initialize_set fails: tc_lookup returns at once and keeps cache_lock.
LookupInitFails(c) ==
    /\ "init" \in Faults
    /\ pc[c] = "lookup"
    /\ cacheLock = NULL
    /\ MySet(c) \notin initialized
    /\ cacheLock' = c
    /\ Goto(c, "idle")
    /\ UNCHANGED <<idx, ptr, gets, setLock, setVars, heap, closeAt>>

\* set_lock is taken inside cache_lock, then cache_lock is released.
LookupNested(c) ==
    /\ pc[c] = "lookup_nested"
    /\ IF Cohesive
       THEN /\ setLock[MySet(c)] = NULL
            /\ setLock' = [setLock EXCEPT ![MySet(c)] = c]
       ELSE UNCHANGED setLock
    /\ cacheLock' = NULL
    /\ Goto(c, "calloc")
    /\ UNCHANGED <<idx, ptr, gets, setVars, heap, closeAt>>

\* MUTANT: a hit does not count the new reference.
MutHit(c, s, w) ==
    /\ lru' = [lru EXCEPT ![s] = UpdateLru(@, w, TRUE)]
    /\ ptr' = [ptr EXCEPT ![c] = traces[s][w]]
    /\ UNCHANGED refcount

\* The client takes one more reference to the trace in way w.
Hit(c, s, w) ==
    /\ lru' = [lru EXCEPT ![s] = UpdateLru(@, w, TRUE)]
    /\ refcount' = [refcount EXCEPT ![s][w] = (@ + 1) % RefMod]
    /\ ptr' = [ptr EXCEPT ![c] = traces[s][w]]

\* Under set_lock, the first way with this index is a hit.
ScanHit(c) ==
    LET s == MySet(c) IN
    /\ pc[c] = "scan"
    /\ setLock[s] = NULL
    /\ \E w \in WaysWith(s, idx[c]) :
        /\ \A v \in WaysWith(s, idx[c]) : w <= v
        /\ Hit(c, s, w)
    /\ Goto(c, "holding")
    /\ UNCHANGED <<idx, gets, cacheLock, setLock, initialized, traces, heap, closeAt>>

\* MUTANT: a miss gives the set lock back.
MutLockAfterMiss(c) == NULL

\* A miss keeps set_lock when the caches are cohesive.
LockAfterMiss(c) == IF Cohesive THEN c ELSE NULL

ScanMiss(c) ==
    LET s == MySet(c) IN
    /\ pc[c] = "scan"
    /\ setLock[s] = NULL
    /\ WaysWith(s, idx[c]) = {}
    /\ setLock' = [setLock EXCEPT ![s] = LockAfterMiss(c)]
    /\ Goto(c, "calloc")
    /\ UNCHANGED <<idx, ptr, gets, cacheLock, setVars, heap, closeAt>>

-----------------------------------------------------------------------------
(* trace_get after a miss, and tc_store *)

Alloc(c) ==
    /\ pc[c] = "calloc"
    /\ \E a \in Addrs :
        /\ heap[a] = FREE
        /\ heap' = [heap EXCEPT ![a] = idx[c]]
        /\ ptr' = [ptr EXCEPT ![c] = a]
    /\ Goto(c, "fill")
    /\ UNCHANGED <<idx, gets, cacheLock, setLock, setVars, closeAt>>

\* calloc fails: -ENOMEM, with set_lock still held by a cohesive miss.
AllocFails(c) ==
    /\ "calloc" \in Faults
    /\ pc[c] = "calloc"
    /\ Goto(c, "idle")
    /\ UNCHANGED <<idx, ptr, gets, cacheLock, setLock, setVars, heap, closeAt>>

\* tfm->get or backend->read has filled the trace.
Fill(c) ==
    /\ pc[c] = "fill"
    /\ Goto(c, "store")
    /\ UNCHANGED <<idx, ptr, gets, cacheLock, setLock, setVars, heap, closeAt>>

\* MUTANT: the trace that could not be filled or stored is forgotten.
MutDrop(c) ==
    /\ ptr' = [ptr EXCEPT ![c] = NULL]
    /\ Goto(c, "idle")
    /\ UNCHANGED heap

Drop(c) ==
    /\ heap' = [heap EXCEPT ![ptr[c]] = FREE]
    /\ ptr' = [ptr EXCEPT ![c] = NULL]
    /\ Goto(c, "idle")

\* It fails: __fail frees the trace and nothing releases set_lock.
FillFails(c) ==
    /\ "get" \in Faults
    /\ pc[c] = "fill"
    /\ Drop(c)
    /\ UNCHANGED <<idx, gets, cacheLock, setLock, setVars, closeAt>>

\* tc_store takes cache_lock while it holds set_lock.
StoreEnter(c) ==
    /\ pc[c] = "store"
    /\ cacheLock = NULL
    /\ cacheLock' = c
    /\ Goto(c, "store_leave")
    /\ UNCHANGED <<idx, ptr, gets, setLock, setVars, heap, closeAt>>

\* MUTANT: tc_store keeps cache_lock.
MutStoreLeave(c) ==
    /\ pc[c] = "store_leave"
    /\ Goto(c, "place")
    /\ UNCHANGED <<idx, ptr, gets, cacheLock, setLock, setVars, heap, closeAt>>

StoreLeave(c) ==
    /\ pc[c] = "store_leave"
    /\ cacheLock' = NULL
    /\ Goto(c, "place")
    /\ UNCHANGED <<idx, ptr, gets, setLock, setVars, heap, closeAt>>

\* MUTANT: the second pass does not look at the reference counts.
MutCandidates(s) == IF Occupied(s) # Ways THEN Ways \ Occupied(s) ELSE Ways

\* MUTANT: there is no second pass.
MutNoSecondPass(s) == Ways \ Occupied(s)

\* Empty ways first; when there are none, the ways nobody has a reference to.
Candidates(s) ==
    IF Occupied(s) # Ways THEN Ways \ Occupied(s)
                          ELSE {w \in Ways : refcount[s][w] = 0}

\* MUTANT: the set lock is not released.
MutUnlock(s) == UNCHANGED setLock

Unlock(s) == setLock' = [setLock EXCEPT ![s] = NULL]

\* A cohesive store holds set_lock since the miss; another takes it here.
MayPlace(c) ==
    /\ pc[c] = "place"
    /\ Cohesive \/ setLock[MySet(c)] = NULL

\* The victim's memory is freed and the new trace starts with one reference.
Place(c) ==
    LET s == MySet(c) IN
    /\ MayPlace(c)
    /\ \E w \in Highest(lru[s], Candidates(s)) :
        /\ heap' = [a \in Addrs |-> IF a = traces[s][w] THEN FREE ELSE heap[a]]
        /\ traces' = [traces EXCEPT ![s][w] = ptr[c]]
        /\ refcount' = [refcount EXCEPT ![s][w] = 1]
        /\ lru' = [lru EXCEPT ![s] = UpdateLru(@, w, FALSE)]
    /\ Unlock(s)
    /\ Goto(c, "holding")
    /\ UNCHANGED <<idx, ptr, gets, cacheLock, initialized, closeAt>>

\* Every way is referenced: -EINVAL, and __fail frees the trace.
PlaceFails(c) ==
    /\ MayPlace(c)
    /\ Candidates(MySet(c)) = {}
    /\ Unlock(MySet(c))
    /\ Drop(c)
    /\ UNCHANGED <<idx, gets, cacheLock, setVars, closeAt>>

-----------------------------------------------------------------------------
(* trace_free: tc_deref *)

\* The first way with this index decides.  It is this very trace: one
\* reference less.  It is another trace: this one is freed, as it is when the
\* set does not exist.  There is no such way: nothing happens.
Deref(c) ==
    LET s == MySet(c)
        found == WaysWith(s, heap[ptr[c]])
        first == CHOOSE w \in found : \A v \in found : w <= v
        same == found # {} /\ traces[s][first] = ptr[c]
        stray == s \notin initialized \/ (found # {} /\ ~same)
    IN  /\ pc[c] = "holding"
        /\ setLock[s] = NULL
        /\ refcount' = IF same
                       THEN [refcount EXCEPT ![s][first] = (@ - 1) % RefMod]
                       ELSE refcount
        /\ heap' = IF stray
                   THEN [heap EXCEPT ![ptr[c]] = FREE]
                   ELSE heap
        /\ ptr' = [ptr EXCEPT ![c] = NULL]
        /\ Goto(c, "idle")
        /\ UNCHANGED <<idx, gets, cacheLock, setLock, initialized, traces, lru, closeAt>>

-----------------------------------------------------------------------------
(* tc_free, called by ts_close when every user of the set has returned *)

CloseBegin ==
    /\ closeAt = NotClosing
    /\ \A c \in Clients : pc[c] = "idle"
    /\ cacheLock = NULL
    /\ closeAt' = 0
    /\ UNCHANGED <<clientVars, cacheLock, setLock, setVars, heap>>

\* An initialised set is freed under its lock, referenced or not.
CloseSet ==
    /\ closeAt \in SetIds
    /\ closeAt \in initialized => setLock[closeAt] = NULL
    /\ heap' = [a \in Addrs |->
                    IF \E w \in Ways : traces[closeAt][w] = a THEN FREE ELSE heap[a]]
    /\ traces' = [traces EXCEPT ![closeAt] = [w \in Ways |-> NULL]]
    /\ closeAt' = closeAt + 1
    /\ UNCHANGED <<clientVars, cacheLock, setLock, initialized, refcount, lru>>

Closed == closeAt = NSets

\* The program goes on without the cache.
Terminated == Closed /\ UNCHANGED vars

-----------------------------------------------------------------------------

\* The steps of one trace_get.
GetStep(c) ==
    \/ LookupEnter(c) \/ LookupLeave(c)
    \/ LookupInit(c) \/ LookupInitFails(c) \/ LookupNested(c)
    \/ ScanHit(c) \/ ScanMiss(c)
    \/ Alloc(c) \/ AllocFails(c) \/ Fill(c) \/ FillFails(c)
    \/ StoreEnter(c) \/ StoreLeave(c) \/ Place(c) \/ PlaceFails(c)

Close == CloseBegin \/ CloseSet

Next ==
    \/ \E c \in Clients : Get(c) \/ GetStep(c) \/ Deref(c)
    \/ Close
    \/ Terminated

Spec == Init /\ [][Next]_vars

\* A thread runs whenever it is not blocked on a semaphore, frees what it got,
\* and ts_close is called in the end.  A thread need not ask for a trace.
Fairness ==
    /\ \A c \in Clients : WF_vars(GetStep(c)) /\ WF_vars(Deref(c))
    /\ WF_vars(Close)

FairSpec == Spec /\ Fairness

-----------------------------------------------------------------------------
(* Properties *)

TypeOK ==
    /\ pc \in [Clients -> {"idle", "lookup", "lookup_leave", "lookup_nested", "scan",
                           "calloc", "fill", "store", "store_leave", "place", "holding"}]
    /\ idx \in [Clients -> Indices]
    /\ ptr \in [Clients -> Addrs \union {NULL}]
    /\ gets \in [Clients -> 0 .. MaxGets]
    /\ cacheLock \in Clients \union {NULL}
    /\ setLock \in [SetIds -> Clients \union {NULL}]
    /\ initialized \subseteq SetIds
    /\ traces \in [SetIds -> [Ways -> Addrs \union {NULL}]]
    /\ refcount \in [SetIds -> [Ways -> 0 .. RefMod - 1]]
    /\ lru \in [SetIds -> [Ways -> Ages]]
    /\ heap \in [Addrs -> Indices \union {FREE}]
    /\ closeAt \in {NotClosing} \union 0 .. NSets

Filling(c) == pc[c] \in {"fill", "store", "store_leave", "place"}

Holders(a) == {c \in Clients : pc[c] = "holding" /\ ptr[c] = a}

\* Nobody uses freed memory: the trace a thread fills or holds, and every trace
\* a set points to, is allocated and still is the trace with the index it was
\* asked for, however evictions, hits and frees interleave.
NoDangling ==
    /\ \A c \in Clients : Filling(c) \/ pc[c] = "holding" => heap[ptr[c]] = idx[c]
    /\ \A s \in SetIds : \A w \in Occupied(s) :
            heap[traces[s][w]] \in Indices /\ SetOf(heap[traces[s][w]]) = s

\* refcount is exactly the number of threads that hold the trace in that way,
\* so that refcount 0 is "nobody uses it" and a trace can be evicted at last.
RefcountExact ==
    \A s \in SetIds : \A w \in Occupied(s) :
        refcount[s][w] = Cardinality(Holders(traces[s][w]))

\* Cohesion: one trace per index, shared by all who hold it.  Neither two ways
\* nor two threads have different traces of the same index.
OneTracePerIndex ==
    \A a, b \in {x \in Addrs : heap[x] # FREE} : heap[a] = heap[b] => a = b

Cached(a) == \E s \in SetIds, w \in Ways : traces[s][w] = a

\* No allocated trace is lost: it is in a set or its thread still works on it,
\* and once tc_free is through nothing at all is left allocated.
NoLeak ==
    /\ \A a \in Addrs : heap[a] # FREE =>
        \/ Cached(a)
        \/ \E c \in Clients : Filling(c) /\ ptr[c] = a
    /\ Closed => \A a \in Addrs : heap[a] = FREE

\* The store of a filled trace finds no slot only when other threads hold as many
\* traces of the set as it has ways: with a way per thread trace_get cannot fail
\* with "no available slot".
EnoughWays ==
    \A c \in Clients : pc[c] = "place" /\ Candidates(MySet(c)) = {} =>
        Cardinality({d \in Clients \ {c} : pc[d] = "holding" /\ MySet(d) = MySet(c)}) >= NWays

-----------------------------------------------------------------------------
(* What makes the properties above inductive, for cohesive caches *)

HasSetLock(c) == pc[c] = "calloc" \/ Filling(c)
HasCacheLock(c) == pc[c] \in {"lookup_leave", "lookup_nested", "store_leave"}
InSet(c) == pc[c] \in {"lookup_leave", "lookup_nested", "scan", "holding"} \/ HasSetLock(c)

\* A client that fails may leave a lock behind; one that needs it has it.
LocksHeld ==
    \A c \in Clients :
        /\ HasSetLock(c) => setLock[MySet(c)] = c
        /\ HasCacheLock(c) => cacheLock = c

SlotsDistinct ==
    \A s \in SetIds : \A v, w \in Occupied(s) : traces[s][v] = traces[s][w] => v = w

\* A trace that is being filled is in no set, one that is held is in its set.
PlaceOfTraces ==
    \A c \in Clients :
        /\ Filling(c) => ptr[c] \in Addrs /\ ~Cached(ptr[c])
        /\ pc[c] = "holding" => ptr[c] \in Addrs /\ \E w \in Ways : traces[MySet(c)][w] = ptr[c]

\* After a miss the index stays absent until this client allocates its trace.
MissStands ==
    \A c \in Clients : pc[c] = "calloc" => \A a \in Addrs : heap[a] # idx[c]

\* The client that initialises a set is alone in it.
Initialising ==
    /\ \A s \in SetIds : s \notin initialized => Occupied(s) = {}
    /\ \A c \in Clients : InSet(c) => MySet(c) \in initialized
    /\ \A c \in Clients : pc[c] = "lookup_nested" =>
        /\ Occupied(MySet(c)) = {}
        /\ \A d \in Clients \ {c} : InSet(d) => MySet(d) # MySet(c)

Closing ==
    closeAt # NotClosing =>
        /\ \A c \in Clients : pc[c] = "idle"
        /\ \A s \in SetIds : s < closeAt => Occupied(s) = {}

IndInv ==
    /\ TypeOK
    /\ LocksHeld
    /\ NoDangling
    /\ SlotsDistinct
    /\ PlaceOfTraces
    /\ MissStands
    /\ Initialising
    /\ RefcountExact
    /\ OneTracePerIndex
    /\ NoLeak
    /\ Closing

-----------------------------------------------------------------------------

\* Each trace_get returns, and the trace is there for its caller: no thread waits
\* forever for cache_lock or set_lock.
EveryGetReturns ==
    \A c \in Clients : pc[c] = "lookup" ~> pc[c] \in {"holding", "idle"}

\* ts_close frees the cache in the end.
CloseCompletes == <>Closed

=============================================================================
