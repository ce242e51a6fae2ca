---------------------------- MODULE Synchronize ----------------------------
(***************************************************************************)
(* tfm_synchronize (transform/system/tfm_synchronize.c) lets a request pass *)
(* to the set before it only while no request that is max_distance indices  *)
(* behind is still in flight.  Both lists are only touched under list_lock, *)
(* so a step here is one critical section, or one wait for a semaphore; the *)
(* error returns that leave the lock taken set `leaked`.                    *)
(***************************************************************************)
EXTENDS Integers, FiniteSets

CONSTANTS Threads, NTraces, MaxDistance,
          RequestBound,  \* how many requests the clients of a server make
          Faults

ASSUME SizesAssumption ==
    /\ IsFiniteSet(Threads)
    /\ NTraces \in Nat /\ MaxDistance \in Nat /\ RequestBound \in Nat
ASSUME FaultsAssumption == Faults \subseteq {"alloc", "passthrough"}

VARIABLES
    inOrder,       \* who asks: a render, or the clients of an export server
    pc, idx,       \* per thread: where it is, and TRACE_IDX of its trace
    requests,      \* per index: count of its entry in requests, 0 if there is none
    waiting,       \* per index: count of its entry in waiting, 0 if there is none
    signalled,     \* per index: the flag of the entry in waiting
    signal,        \* per index: the semaphore of the entry in waiting
    leaked,        \* list_lock was never released by a call that has returned
    next           \* how many requests were made

entryVars == <<requests, waiting, signalled, signal>>
vars == <<inOrder, pc, idx, entryVars, leaked, next>>

Indices == 0 .. NTraces - 1

Init ==
    /\ inOrder \in BOOLEAN
    /\ pc = [t \in Threads |-> "idle"]
    /\ idx = [t \in Threads |-> 0]
    /\ requests = [k \in Indices |-> 0]
    /\ waiting = [k \in Indices |-> 0]
    /\ signalled = [k \in Indices |-> FALSE]
    /\ signal = [k \in Indices |-> 0]
    /\ leaked = FALSE
    /\ next = 0

Goto(t, label) == pc' = [pc EXCEPT ![t] = label]

-----------------------------------------------------------------------------

\* The threads of a render take the indices in order; the clients of an export
\* server ask for what they like.
Ask(t, k) ==
    /\ pc[t] = "idle"
    /\ IF inOrder THEN next < NTraces /\ k = next ELSE next < RequestBound
    /\ next' = next + 1
    /\ idx' = [idx EXCEPT ![t] = k]
    /\ Goto(t, "asked")
    /\ UNCHANGED <<inOrder, entryVars, leaked>>

MustStall(k) == \E r \in Indices : requests[r] > 0 /\ r + MaxDistance < k

\* Look for an entry of the index, or create it; count the request in.
Register(t) ==
    /\ requests' = [requests EXCEPT ![idx[t]] = @ + 1]
    /\ Goto(t, "passing")

Enter(t) ==
    /\ pc[t] = "asked"
    /\ ~leaked
    /\ ~MustStall(idx[t])
    /\ Register(t)
    /\ UNCHANGED <<inOrder, idx, waiting, signalled, signal, leaked, next>>

\* __stall up to the wait: the lock is released, the entry stays.
Stall(t) ==
    /\ pc[t] = "asked"
    /\ ~leaked
    /\ MustStall(idx[t])
    /\ waiting' = [waiting EXCEPT ![idx[t]] = @ + 1]
    /\ Goto(t, "stalled")
    /\ UNCHANGED <<inOrder, idx, requests, signalled, signal, leaked, next>>

\* calloc or sem_init fails for a new entry: the call returns with the lock.
EnterFails(t) ==
    /\ "alloc" \in Faults
    /\ pc[t] = "asked"
    /\ ~leaked
    /\ IF MustStall(idx[t]) THEN waiting[idx[t]] = 0 ELSE requests[idx[t]] = 0
    /\ leaked' = TRUE
    /\ Goto(t, "failed")
    /\ UNCHANGED <<inOrder, idx, entryVars, next>>

Wake(t) ==
    /\ pc[t] = "stalled"
    /\ signal[idx[t]] > 0
    /\ signal' = [signal EXCEPT ![idx[t]] = @ - 1]
    /\ Goto(t, "woken")
    /\ UNCHANGED <<inOrder, idx, requests, waiting, signalled, leaked, next>>

\* MUTANT: the flag is not reset.
MutUnstall(t) ==
    /\ waiting' = [waiting EXCEPT ![idx[t]] = @ - 1]
    /\ signalled' = [signalled EXCEPT ![idx[t]] = waiting[idx[t]] > 1]

\* MUTANT: the count is left alone.
MutKeepCount(t) ==
    /\ UNCHANGED waiting
    /\ signalled' = [signalled EXCEPT ![idx[t]] = FALSE]

\* The end of __stall: the last thread that waited frees the entry.
Unstall(t) ==
    /\ waiting' = [waiting EXCEPT ![idx[t]] = @ - 1]
    /\ signalled' = [signalled EXCEPT ![idx[t]] = FALSE]

\* A thread that wakes without the flag keeps the lock and fails.
Resume(t) ==
    /\ pc[t] = "woken"
    /\ ~leaked
    /\ Unstall(t)
    /\ IF signalled[idx[t]]
       THEN Register(t) /\ UNCHANGED leaked
       ELSE Goto(t, "failed") /\ leaked' = TRUE /\ UNCHANGED requests
    /\ UNCHANGED <<inOrder, idx, signal, next>>

\* The stall is over, but there is no memory for the entry in requests.
ResumeFails(t) ==
    /\ "alloc" \in Faults
    /\ pc[t] = "woken"
    /\ ~leaked
    /\ signalled[idx[t]]
    /\ requests[idx[t]] = 0
    /\ Unstall(t)
    /\ leaked' = TRUE
    /\ Goto(t, "failed")
    /\ UNCHANGED <<inOrder, idx, requests, signal, next>>

Passthrough(t) ==
    /\ pc[t] = "passing"
    /\ Goto(t, "passed")
    /\ UNCHANGED <<inOrder, idx, entryVars, leaked, next>>

\* The set before fails: nothing takes the request out again.
PassthroughFails(t) ==
    /\ "passthrough" \in Faults
    /\ pc[t] = "passing"
    /\ Goto(t, "lost")
    /\ UNCHANGED <<inOrder, idx, entryVars, leaked, next>>

\* MUTANT: only those are woken that the end of request k is the first to let through.
MutToWake(k) ==
    {w \in Indices : waiting[w] > 0 /\ k + MaxDistance = w /\ ~signalled[w]}

\* The entries that the end of request k wakes.
ToWake(k) ==
    {w \in Indices : waiting[w] > 0 /\ k + MaxDistance >= w /\ ~signalled[w]}

CountOut(k) == requests' = [requests EXCEPT ![k] = @ - 1]

\* __sync_finalize; a request that is not in the list fails with the lock.
Finalize(t) ==
    /\ pc[t] = "passed"
    /\ ~leaked
    /\ signalled' = [w \in Indices |-> signalled[w] \/ w \in ToWake(idx[t])]
    /\ signal' = [w \in Indices |-> signal[w] + IF w \in ToWake(idx[t]) THEN 1 ELSE 0]
    /\ IF requests[idx[t]] > 0
       THEN /\ CountOut(idx[t])
            /\ Goto(t, "idle")
            /\ UNCHANGED leaked
       ELSE /\ leaked' = TRUE
            /\ Goto(t, "failed")
            /\ UNCHANGED requests
    /\ UNCHANGED <<inOrder, idx, waiting, next>>

-----------------------------------------------------------------------------

Step(t) ==
    \/ Enter(t) \/ Stall(t) \/ EnterFails(t)
    \/ Wake(t) \/ Resume(t) \/ ResumeFails(t)
    \/ Passthrough(t) \/ PassthroughFails(t)
    \/ Finalize(t)

AskSome(t) == \E k \in Indices : Ask(t, k)

Next == \E t \in Threads : AskSome(t) \/ Step(t)

Spec == Init /\ [][Next]_vars

\* A free thread of the render is given the next index; a thread that is not
\* blocked goes on, and the set before answers.
FairSpec == Spec /\ \A t \in Threads : WF_vars(Step(t)) /\ WF_vars(AskSome(t))

-----------------------------------------------------------------------------
(* Properties *)

Of(k, labels) == {t \in Threads : idx[t] = k /\ pc[t] \in labels}

TypeOK ==
    /\ inOrder \in BOOLEAN
    /\ pc \in [Threads -> {"idle", "asked", "stalled", "woken",
                           "passing", "passed", "failed", "lost"}]
    /\ idx \in [Threads -> Indices \union {0}]
    /\ requests \in [Indices -> 0 .. Cardinality(Threads)]
    /\ waiting \in [Indices -> 0 .. Cardinality(Threads)]
    /\ signalled \in [Indices -> BOOLEAN]
    /\ signal \in [Indices -> 0 .. 1]
    /\ leaked \in BOOLEAN
    /\ next \in Nat

\* An entry counts the threads that use it, so that none is freed under a
\* thread that waits on its semaphore and none stays behind; the one exception is
\* a request whose passthrough has failed, which is in flight for ever.
CountsExact ==
    \A k \in Indices :
        /\ requests[k] = Cardinality(Of(k, {"passing", "passed", "lost"}))
        /\ waiting[k] = Cardinality(Of(k, {"stalled", "woken"}))

\* The flag and the semaphore of an entry go together although the flag is set
\* and cleared under the lock and the semaphore is taken outside it: a set flag
\* is one wake-up that is pending or under way, a clear one is none.
WakeupsPaired ==
    \A k \in Indices :
        signal[k] + Cardinality(Of(k, {"woken"})) = IF signalled[k] THEN 1 ELSE 0

\* A request failed: one that holds the lock, or one that stays in flight.
Broken == leaked \/ \E t \in Threads : pc[t] = "lost"

\* A stall of a render ends as long as no request fails, however late the request ended that it
\* waited for, if there were as many indices left as there are other threads: fewer than these
\* can stall for good, so that a later request passes, and its end wakes this one.
StallEndsBeforeTail ==
    \A t \in Threads :
        inOrder /\ pc[t] = "stalled" /\ next + Cardinality(Threads \ {t}) <= NTraces ~>
            pc[t] # "stalled" \/ Broken

=============================================================================
