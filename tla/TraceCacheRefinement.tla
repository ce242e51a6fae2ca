------------------------ MODULE TraceCacheRefinement ------------------------
(***************************************************************************)
(* TraceCache, with its locks, memory and ages, implements SharedCache: the *)
(* valid ways of a set in the order of their ages are the abstract shelf.   *)
(***************************************************************************)
EXTENDS TraceCache, Sequences

\* How many members of W are younger than w.
Ahead(W, age, w) == {v \in W : age[v] < age[w]}
Rank(W, age, w) == Cardinality(Ahead(W, age, w))

\* What f says of the members of W, in the order of their ages, which are distinct.
Ranked(W, age, f) ==
    [k \in 1 .. Cardinality(W) |-> f[CHOOSE w \in W : Rank(W, age, w) = k - 1]]

\* What SharedCache tells of the trace in each way.
Entries(s) == [w \in Ways |-> [index |-> heap[traces[s][w]], refs |-> refcount[s][w]]]

Shelves == [s \in SetIds |-> Ranked(Occupied(s), lru[s], Entries(s))]

\* A borrowed trace is on loan from the step that hands it out to tc_deref.
Loans == [c \in Clients |-> IF pc[c] = "holding" THEN idx[c] ELSE FREE]

Abstract == INSTANCE SharedCache WITH
    NONE <- FREE, shelf <- Shelves, loan <- Loans, closed <- closeAt > 0

\* Every hit, miss, eviction and return that the threads' interleaved steps
\* produce is one the atomic reference-counted LRU cache could have made; all
\* other steps, failing ones included, are invisible.
ImplementsSharedCache == Abstract!Spec

\* The ages are uint8_t: a trace of age 255 gets age 0 at the next store in its
\* set and then counts as the one used last.  No trace is that old.
AgesLow == \A s \in SetIds : \A w \in Occupied(s) : lru[s][w] < AgeMod - 1

=============================================================================
