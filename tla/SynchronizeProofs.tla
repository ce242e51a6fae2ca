------------------------- MODULE SynchronizeProofs -------------------------
(***************************************************************************)
(* For any number of threads and traces, any distance and all failures: the *)
(* entries of tfm_synchronize count their users exactly, and the flag of an *)
(* entry goes with its semaphore.                                           *)
(***************************************************************************)
EXTENDS Synchronize, FiniteSetTheorems, TLAPS

Flight(k) == Of(k, {"passing", "passed", "lost"})
Stalled(k) == Of(k, {"stalled", "woken"})
Woken(k) == Of(k, {"woken"})

Types ==
    /\ inOrder \in BOOLEAN
    /\ pc \in [Threads -> {"idle", "asked", "stalled", "woken",
                           "passing", "passed", "failed", "lost"}]
    /\ idx \in [Threads -> Indices \union {0}]
    /\ requests \in [Indices -> Nat]
    /\ waiting \in [Indices -> Nat]
    /\ signalled \in [Indices -> BOOLEAN]
    /\ signal \in [Indices -> Nat]
    /\ leaked \in BOOLEAN
    /\ next \in Nat

\* A request that is under way is for an index of the set.
Placed == \A t \in Threads : pc[t] # "idle" => idx[t] \in Indices

IndInv == Types /\ Placed /\ CountsExact /\ WakeupsPaired

\* CountsExact and WakeupsPaired for one index, with the sets named.
Entry(k) ==
    /\ requests[k] = Cardinality(Flight(k))
    /\ waiting[k] = Cardinality(Stalled(k))
    /\ signal[k] + Cardinality(Woken(k)) = IF signalled[k] THEN 1 ELSE 0

-----------------------------------------------------------------------------

LEMMA OfFinite ==
    ASSUME NEW k, NEW L
    PROVE  /\ IsFiniteSet(Of(k, L))
           /\ Cardinality(Of(k, L)) \in 0 .. Cardinality(Threads)
<1>1. Of(k, L) \subseteq Threads
  BY DEF Of
<1>2. QED
  BY <1>1, SizesAssumption, FS_Subset, FS_CardinalityType

\* A set that a thread joins or leaves.
LEMMA Recount ==
    ASSUME NEW S, IsFiniteSet(S), NEW t
    PROVE  /\ Cardinality(S) \in Nat
           /\ Cardinality(S \union {t}) = IF t \in S THEN Cardinality(S) ELSE Cardinality(S) + 1
           /\ Cardinality(S \ {t}) = IF t \in S THEN Cardinality(S) - 1 ELSE Cardinality(S)
  BY FS_AddElement, FS_RemoveElement, FS_CardinalityType

\* The three counts of the invariant after such a move.
LEMMA AllCounted ==
    ASSUME Types, NEW t \in Threads, NEW label, Goto(t, label), UNCHANGED idx,
           NEW k \in Indices
    PROVE  /\ Cardinality(Flight(k)) \in Nat /\ Cardinality(Flight(k))' = Cardinality(Flight(k))
                + IF k # idx[t] THEN 0
                  ELSE (IF label \in {"passing", "passed", "lost"} THEN 1 ELSE 0)
                       - (IF pc[t] \in {"passing", "passed", "lost"} THEN 1 ELSE 0)
           /\ Cardinality(Stalled(k)) \in Nat /\ Cardinality(Stalled(k))' = Cardinality(Stalled(k))
                + IF k # idx[t] THEN 0
                  ELSE (IF label \in {"stalled", "woken"} THEN 1 ELSE 0)
                       - (IF pc[t] \in {"stalled", "woken"} THEN 1 ELSE 0)
           /\ Cardinality(Woken(k)) \in Nat /\ Cardinality(Woken(k))' = Cardinality(Woken(k))
                + IF k # idx[t] THEN 0
                  ELSE (IF label = "woken" THEN 1 ELSE 0)
                       - (IF pc[t] = "woken" THEN 1 ELSE 0)
<1>0. \A u \in Threads : pc'[u] = (IF u = t THEN label ELSE pc[u]) /\ idx'[u] = idx[u]
  BY DEF Goto, Types
<1>1. /\ Cardinality(Flight(k)) \in Nat
      /\ Cardinality(Stalled(k)) \in Nat
      /\ Cardinality(Woken(k)) \in Nat
  BY OfFinite DEF Flight, Stalled, Woken
<1>2. Cardinality(Flight(k))' = Cardinality(Flight(k))
                + IF k # idx[t] THEN 0
                  ELSE (IF label \in {"passing", "passed", "lost"} THEN 1 ELSE 0)
                       - (IF pc[t] \in {"passing", "passed", "lost"} THEN 1 ELSE 0)
  <2>1. PICK S : S = Flight(k)
    OBVIOUS
  <2>2. IsFiniteSet(S) /\ (t \in S <=> k = idx[t] /\ pc[t] \in {"passing", "passed", "lost"})
    <3>1. S = Of(k, {"passing", "passed", "lost"})
      BY <2>1 DEF Flight
    <3>2. IsFiniteSet(S)
      BY <3>1, OfFinite
    <3>3. t \in S <=> k = idx[t] /\ pc[t] \in {"passing", "passed", "lost"}
      BY <3>1, ZenonT(20) DEF Of
    <3>4. QED
      BY <3>2, <3>3
  <2>3. /\ k # idx[t] => Flight(k)' = S
        /\ k = idx[t] /\ label \in {"passing", "passed", "lost"} => Flight(k)' = S \union {t}
        /\ k = idx[t] /\ label \notin {"passing", "passed", "lost"} => Flight(k)' = S \ {t}
    BY <1>0, <2>1 DEF Flight, Of
  <2>4. /\ Cardinality(S \union {t}) = IF t \in S THEN Cardinality(S) ELSE Cardinality(S) + 1
        /\ Cardinality(S \ {t}) = IF t \in S THEN Cardinality(S) - 1 ELSE Cardinality(S)
        /\ Cardinality(S) \in Nat
    BY <2>2, Recount
  <2>5. Cardinality(Flight(k))' = Cardinality(Flight(k)') /\ Cardinality(Flight(k)) = Cardinality(S)
    BY <2>1
  <2>6. /\ k # idx[t] => Cardinality(Flight(k)') = Cardinality(S)
        /\ k = idx[t] /\ label \in {"passing", "passed", "lost"} => Cardinality(Flight(k)') = Cardinality(S \union {t})
        /\ k = idx[t] /\ label \notin {"passing", "passed", "lost"} => Cardinality(Flight(k)') = Cardinality(S \ {t})
    BY <2>3, Zenon
  <2>7. QED
    BY <2>2, <2>4, <2>5, <2>6
<1>3. Cardinality(Stalled(k))' = Cardinality(Stalled(k))
                + IF k # idx[t] THEN 0
                  ELSE (IF label \in {"stalled", "woken"} THEN 1 ELSE 0)
                       - (IF pc[t] \in {"stalled", "woken"} THEN 1 ELSE 0)
  <2>1. PICK S : S = Stalled(k)
    OBVIOUS
  <2>2. IsFiniteSet(S) /\ (t \in S <=> k = idx[t] /\ pc[t] \in {"stalled", "woken"})
    BY <2>1, OfFinite DEF Stalled, Of
  <2>3. /\ k # idx[t] => Stalled(k)' = S
        /\ k = idx[t] /\ label \in {"stalled", "woken"} => Stalled(k)' = S \union {t}
        /\ k = idx[t] /\ label \notin {"stalled", "woken"} => Stalled(k)' = S \ {t}
    BY <1>0, <2>1 DEF Stalled, Of
  <2>4. /\ Cardinality(S \union {t}) = IF t \in S THEN Cardinality(S) ELSE Cardinality(S) + 1
        /\ Cardinality(S \ {t}) = IF t \in S THEN Cardinality(S) - 1 ELSE Cardinality(S)
        /\ Cardinality(S) \in Nat
    BY <2>2, Recount
  <2>5. Cardinality(Stalled(k))' = Cardinality(Stalled(k)') /\ Cardinality(Stalled(k)) = Cardinality(S)
    BY <2>1
  <2>6. /\ k # idx[t] => Cardinality(Stalled(k)') = Cardinality(S)
        /\ k = idx[t] /\ label \in {"stalled", "woken"} => Cardinality(Stalled(k)') = Cardinality(S \union {t})
        /\ k = idx[t] /\ label \notin {"stalled", "woken"} => Cardinality(Stalled(k)') = Cardinality(S \ {t})
    BY <2>3, Zenon
  <2>7. QED
    BY <2>2, <2>4, <2>5, <2>6
<1>4. Cardinality(Woken(k))' = Cardinality(Woken(k))
                + IF k # idx[t] THEN 0
                  ELSE (IF label = "woken" THEN 1 ELSE 0)
                       - (IF pc[t] = "woken" THEN 1 ELSE 0)
  <2>1. PICK S : S = Woken(k)
    OBVIOUS
  <2>2. IsFiniteSet(S) /\ (t \in S <=> k = idx[t] /\ pc[t] \in {"woken"})
    BY <2>1, OfFinite DEF Woken, Of
  <2>3. /\ k # idx[t] => Woken(k)' = S
        /\ k = idx[t] /\ label \in {"woken"} => Woken(k)' = S \union {t}
        /\ k = idx[t] /\ label \notin {"woken"} => Woken(k)' = S \ {t}
    BY <1>0, <2>1 DEF Woken, Of
  <2>4. /\ Cardinality(S \union {t}) = IF t \in S THEN Cardinality(S) ELSE Cardinality(S) + 1
        /\ Cardinality(S \ {t}) = IF t \in S THEN Cardinality(S) - 1 ELSE Cardinality(S)
        /\ Cardinality(S) \in Nat
    BY <2>2, Recount
  <2>5. Cardinality(Woken(k))' = Cardinality(Woken(k)') /\ Cardinality(Woken(k)) = Cardinality(S)
    BY <2>1
  <2>6. /\ k # idx[t] => Cardinality(Woken(k)') = Cardinality(S)
        /\ k = idx[t] /\ label \in {"woken"} => Cardinality(Woken(k)') = Cardinality(S \union {t})
        /\ k = idx[t] /\ label \notin {"woken"} => Cardinality(Woken(k)') = Cardinality(S \ {t})
    BY <2>3, Zenon
  <2>7. QED
    BY <2>2, <2>4, <2>5, <2>6
<1>5. QED
  BY <1>1, <1>2, <1>3, <1>4

\* Whoever uses an entry is counted by it.
LEMMA CountedIn ==
    ASSUME NEW k, NEW t \in Threads, NEW L, idx[t] = k, pc[t] \in L
    PROVE  Cardinality(Of(k, L)) > 0
<1>1. t \in Of(k, L)
  BY DEF Of
<1>2. QED
  BY <1>1, OfFinite, FS_EmptySet

\* A thread that was woken finds the flag of its entry set: __stall never fails
\* with "Signalled flag not set after wakeup".
LEMMA WokenIsSignalled ==
    ASSUME IndInv, NEW t \in Threads, pc[t] = "woken"
    PROVE  signalled[idx[t]] /\ signal[idx[t]] = 0 /\ Cardinality(Woken(idx[t])) = 1
<1>1. idx[t] \in Indices
  BY DEF IndInv, Placed
<1>2. Cardinality(Woken(idx[t])) > 0 /\ Cardinality(Woken(idx[t])) \in Nat
  BY CountedIn, OfFinite DEF Woken
<1>3. signal[idx[t]] \in Nat
        /\ signal[idx[t]] + Cardinality(Woken(idx[t])) = IF signalled[idx[t]] THEN 1 ELSE 0
  BY <1>1 DEF IndInv, Types, WakeupsPaired, Woken
<1>4. QED
  BY <1>2, <1>3

\* A request that has passed is in the list: __sync_finalize finds its entry.
LEMMA PassedIsListed ==
    ASSUME IndInv, NEW t \in Threads, pc[t] \in {"passing", "passed", "lost"}
    PROVE  requests[idx[t]] > 0
<1>1. idx[t] \in Indices
  BY DEF IndInv, Placed
<1>2. QED
  BY <1>1, CountedIn DEF IndInv, CountsExact

\* A thread that was stalled is counted by its entry.
LEMMA StalledIsListed ==
    ASSUME IndInv, NEW t \in Threads, pc[t] \in {"stalled", "woken"}
    PROVE  waiting[idx[t]] > 0
<1>1. idx[t] \in Indices
  BY DEF IndInv, Placed
<1>2. QED
  BY <1>1, CountedIn DEF IndInv, CountsExact

-----------------------------------------------------------------------------
(* One lemma per action *)

\* What is left to show of a step that moves one thread along its request.
LEMMA AfterMove ==
    ASSUME IndInv, NEW t \in Threads, NEW label,
           label \in {"idle", "asked", "stalled", "woken", "passing", "passed", "failed", "lost"},
           pc[t] # "idle", Goto(t, label), UNCHANGED <<idx, inOrder>>
    PROVE  /\ inOrder' \in BOOLEAN
           /\ pc' \in [Threads -> {"idle", "asked", "stalled", "woken",
                                   "passing", "passed", "failed", "lost"}]
           /\ idx' \in [Threads -> Indices \union {0}]
           /\ idx[t] \in Indices
           /\ Placed'
  BY DEF IndInv, Types, Placed, Goto

\* An entry whose counts move with the thread stays right.
LEMMA Restated ==
    /\ IndInv => \A k \in Indices : Entry(k)
    /\ Types' /\ Placed' /\ (\A k \in Indices : Entry(k)') => IndInv'
<1>1. CountsExact /\ WakeupsPaired <=> \A k \in Indices : Entry(k)
  BY DEF CountsExact, WakeupsPaired, Entry, Flight, Stalled, Woken
<1>2. CountsExact' /\ WakeupsPaired' <=> \A k \in Indices : Entry(k)'
  BY DEF CountsExact, WakeupsPaired, Entry, Flight, Stalled, Woken
<1>3. QED
  BY <1>1, <1>2 DEF IndInv

LEMMA InitInd == Init => IndInv
<1>. SUFFICES ASSUME Init PROVE IndInv
  OBVIOUS
<1>1. Types /\ Placed
  BY DEF Init, Types, Placed
<1>2. \A k \in Indices : Flight(k) = {} /\ Stalled(k) = {} /\ Woken(k) = {}
  BY DEF Init, Of, Flight, Stalled, Woken
<1>3. \A k \in Indices : requests[k] = 0 /\ waiting[k] = 0 /\ signal[k] = 0 /\ ~signalled[k]
  BY DEF Init
<1>4. QED
  BY <1>1, <1>2, <1>3, FS_EmptySet DEF IndInv, CountsExact, WakeupsPaired, Flight, Stalled, Woken

LEMMA AskInd == ASSUME IndInv, NEW t \in Threads, NEW j \in Indices, Ask(t, j) PROVE IndInv'
<1>. USE DEF IndInv, Ask, Goto, entryVars
<1>1. Types' /\ Placed'
  BY DEF Types, Placed
<1>2. \A k : Flight(k)' = Flight(k) /\ Stalled(k)' = Stalled(k) /\ Woken(k)' = Woken(k)
  BY DEF Types, Of, Flight, Stalled, Woken
<1>3. QED
  BY <1>1, <1>2 DEF CountsExact, WakeupsPaired, Flight, Stalled, Woken

LEMMA EnterInd == ASSUME IndInv, NEW t \in Threads, Enter(t) PROVE IndInv'
<1>1. /\ pc[t] = "asked" /\ Goto(t, "passing") /\ UNCHANGED <<idx, inOrder>>
      /\ Types /\ idx[t] \in Indices
  BY DEF Enter, Register, IndInv, Placed
<1>2. Types' /\ Placed'
  BY <1>1, AfterMove DEF Types, Enter, Register, entryVars
<1>3. ASSUME NEW k \in Indices PROVE Entry(k)'
  <2>1. Entry(k)
    BY Restated
  <2>2. QED
    BY <1>1, <2>1, AllCounted DEF Types, Entry, Enter, Register, entryVars
<1>4. QED
  BY <1>2, <1>3, Restated

LEMMA StallInd == ASSUME IndInv, NEW t \in Threads, Stall(t) PROVE IndInv'
<1>1. /\ pc[t] = "asked" /\ Goto(t, "stalled") /\ UNCHANGED <<idx, inOrder>>
      /\ Types /\ idx[t] \in Indices
  BY DEF Stall, IndInv, Placed
<1>2. Types' /\ Placed'
  BY <1>1, AfterMove DEF Types, Stall, entryVars
<1>3. ASSUME NEW k \in Indices PROVE Entry(k)'
  <2>1. Entry(k)
    BY Restated
  <2>2. QED
    BY <1>1, <2>1, AllCounted DEF Types, Entry, Stall, entryVars
<1>4. QED
  BY <1>2, <1>3, Restated

LEMMA EnterFailsInd == ASSUME IndInv, NEW t \in Threads, EnterFails(t) PROVE IndInv'
<1>1. /\ pc[t] = "asked" /\ Goto(t, "failed") /\ UNCHANGED <<idx, inOrder>>
      /\ Types /\ idx[t] \in Indices
  BY DEF EnterFails, IndInv, Placed
<1>2. Types' /\ Placed'
  BY <1>1, AfterMove DEF Types, EnterFails, entryVars
<1>3. ASSUME NEW k \in Indices PROVE Entry(k)'
  <2>1. Entry(k)
    BY Restated
  <2>2. QED
    BY <1>1, <2>1, AllCounted DEF Types, Entry, EnterFails, entryVars
<1>4. QED
  BY <1>2, <1>3, Restated

LEMMA WakeInd == ASSUME IndInv, NEW t \in Threads, Wake(t) PROVE IndInv'
<1>1. /\ pc[t] = "stalled" /\ Goto(t, "woken") /\ UNCHANGED <<idx, inOrder>>
      /\ Types /\ idx[t] \in Indices
  BY DEF Wake, IndInv, Placed
<1>2. Types' /\ Placed'
  BY <1>1, AfterMove DEF Types, Wake, entryVars
<1>3. ASSUME NEW k \in Indices PROVE Entry(k)'
  <2>1. Entry(k)
    BY Restated
  <2>2. QED
    BY <1>1, <2>1, AllCounted DEF Types, Entry, Wake, entryVars
<1>4. QED
  BY <1>2, <1>3, Restated

LEMMA PassthroughInd == ASSUME IndInv, NEW t \in Threads, Passthrough(t) PROVE IndInv'
<1>1. /\ pc[t] = "passing" /\ Goto(t, "passed") /\ UNCHANGED <<idx, inOrder>>
      /\ Types /\ idx[t] \in Indices
  BY DEF Passthrough, IndInv, Placed
<1>2. Types' /\ Placed'
  BY <1>1, AfterMove DEF Types, Passthrough, entryVars
<1>3. ASSUME NEW k \in Indices PROVE Entry(k)'
  <2>1. Entry(k)
    BY Restated
  <2>2. QED
    BY <1>1, <2>1, AllCounted DEF Types, Entry, Passthrough, entryVars
<1>4. QED
  BY <1>2, <1>3, Restated

LEMMA PassthroughFailsInd == ASSUME IndInv, NEW t \in Threads, PassthroughFails(t) PROVE IndInv'
<1>1. /\ pc[t] = "passing" /\ Goto(t, "lost") /\ UNCHANGED <<idx, inOrder>>
      /\ Types /\ idx[t] \in Indices
  BY DEF PassthroughFails, IndInv, Placed
<1>2. Types' /\ Placed'
  BY <1>1, AfterMove DEF Types, PassthroughFails, entryVars
<1>3. ASSUME NEW k \in Indices PROVE Entry(k)'
  <2>1. Entry(k)
    BY Restated
  <2>2. QED
    BY <1>1, <2>1, AllCounted DEF Types, Entry, PassthroughFails, entryVars
<1>4. QED
  BY <1>2, <1>3, Restated

LEMMA ResumeInd == ASSUME IndInv, NEW t \in Threads, Resume(t) PROVE IndInv'
<1>0. signalled[idx[t]] /\ signal[idx[t]] = 0 /\ waiting[idx[t]] > 0
  BY WokenIsSignalled, StalledIsListed DEF Resume
<1>1. /\ pc[t] = "woken" /\ Goto(t, "passing") /\ UNCHANGED <<idx, inOrder>>
      /\ Types /\ idx[t] \in Indices
  BY <1>0 DEF Resume, Register, Unstall, IndInv, Placed
<1>2. Types' /\ Placed'
  BY <1>1, <1>0, AfterMove DEF Types, Resume, Register, Unstall, entryVars
<1>3. ASSUME NEW k \in Indices PROVE Entry(k)'
  <2>1. Entry(k)
    BY Restated
  <2>2. QED
    BY <1>1, <1>0, <2>1, AllCounted DEF Types, Entry, Resume, Register, Unstall, entryVars
<1>4. QED
  BY <1>2, <1>3, Restated

LEMMA ResumeFailsInd == ASSUME IndInv, NEW t \in Threads, ResumeFails(t) PROVE IndInv'
<1>0. signalled[idx[t]] /\ signal[idx[t]] = 0 /\ waiting[idx[t]] > 0
  BY WokenIsSignalled, StalledIsListed DEF ResumeFails
<1>1. /\ pc[t] = "woken" /\ Goto(t, "failed") /\ UNCHANGED <<idx, inOrder>>
      /\ Types /\ idx[t] \in Indices
  BY DEF ResumeFails, Unstall, IndInv, Placed
<1>2. Types' /\ Placed'
  BY <1>1, <1>0, AfterMove DEF Types, ResumeFails, Unstall, entryVars
<1>3. ASSUME NEW k \in Indices PROVE Entry(k)'
  <2>1. Entry(k)
    BY Restated
  <2>2. QED
    BY <1>1, <1>0, <2>1, AllCounted DEF Types, Entry, ResumeFails, Unstall, entryVars
<1>4. QED
  BY <1>2, <1>3, Restated

LEMMA FinalizeInd == ASSUME IndInv, NEW t \in Threads, Finalize(t) PROVE IndInv'
<1>0. requests[idx[t]] > 0
  BY PassedIsListed DEF Finalize
<1>1. /\ pc[t] = "passed" /\ Goto(t, "idle") /\ UNCHANGED <<idx, inOrder>>
      /\ Types /\ idx[t] \in Indices
  BY <1>0 DEF Finalize, CountOut, ToWake, IndInv, Placed
<1>2. Types' /\ Placed'
  BY <1>1, <1>0, AfterMove DEF Types, Finalize, CountOut, ToWake, entryVars
<1>3. ASSUME NEW k \in Indices PROVE Entry(k)'
  <2>1. Entry(k)
    BY Restated
  <2>2. /\ requests'[k] = IF k = idx[t] THEN requests[k] - 1 ELSE requests[k]
        /\ waiting'[k] = waiting[k]
        /\ requests[k] \in Nat /\ waiting[k] \in Nat /\ signal[k] \in Nat
    BY <1>0, <1>1 DEF Types, Finalize, CountOut
  <2>3. \/ signalled'[k] = signalled[k] /\ signal'[k] = signal[k]
        \/ ~signalled[k] /\ signalled'[k] /\ signal'[k] = signal[k] + 1
    <3>1. CASE k \in ToWake(idx[t])
      BY <1>1, <2>2, <3>1 DEF Types, Finalize, ToWake
    <3>2. CASE k \notin ToWake(idx[t])
      BY <1>1, <2>2, <3>2 DEF Types, Finalize
    <3>3. QED
      BY <3>1, <3>2
  <2>4. /\ Cardinality(Flight(k)) \in Nat /\ Cardinality(Woken(k)) \in Nat
        /\ Cardinality(Flight(k))' = Cardinality(Flight(k)) - IF k = idx[t] THEN 1 ELSE 0
        /\ Cardinality(Stalled(k))' = Cardinality(Stalled(k))
        /\ Cardinality(Woken(k))' = Cardinality(Woken(k))
    BY <1>1, AllCounted
  <2>5. QED
    BY <2>1, <2>2, <2>3, <2>4 DEF Entry
<1>4. QED
  BY <1>2, <1>3, Restated

LEMMA StutterInd == ASSUME IndInv, UNCHANGED vars PROVE IndInv'
<1>1. Types' /\ Placed'
  BY DEF IndInv, Types, Placed, vars, entryVars
<1>2. ASSUME NEW k \in Indices PROVE Entry(k)'
  <2>1. Entry(k)
    BY Restated
  <2>2. Flight(k)' = Flight(k) /\ Stalled(k)' = Stalled(k) /\ Woken(k)' = Woken(k)
    BY DEF vars, Of, Flight, Stalled, Woken
  <2>3. QED
    BY <2>1, <2>2 DEF Entry, vars, entryVars
<1>3. QED
  BY <1>1, <1>2, Restated

-----------------------------------------------------------------------------
(* The theorems *)

\* Every reachable state satisfies the inductive invariant, with every failure.
THEOREM Inductive == Spec => []IndInv
<1>1. IndInv /\ [Next]_vars => IndInv'
  <2>. SUFFICES ASSUME IndInv, [Next]_vars PROVE IndInv'
    OBVIOUS
  <2>1. ASSUME NEW t \in Threads, AskSome(t) PROVE IndInv'
    BY <2>1, AskInd DEF AskSome
  <2>2. ASSUME NEW t \in Threads, Step(t) PROVE IndInv'
    BY <2>2, EnterInd, StallInd, EnterFailsInd, WakeInd, ResumeInd, ResumeFailsInd,
       PassthroughInd, PassthroughFailsInd, FinalizeInd DEF Step
  <2>3. CASE UNCHANGED vars
    BY <2>3, StutterInd
  <2>4. QED
    BY <2>1, <2>2, <2>3 DEF Next
<1>2. QED
  BY <1>1, InitInd, PTL DEF Spec

\* Every variable has its type: no count ever falls below zero or exceeds the number
\* of threads, and the semaphore of an entry is posted at most once.
THEOREM TypeCorrect == Spec => []TypeOK
<1>1. ASSUME IndInv PROVE TypeOK
  <2>1. ASSUME NEW k \in Indices
        PROVE  /\ requests[k] \in 0 .. Cardinality(Threads)
               /\ waiting[k] \in 0 .. Cardinality(Threads)
               /\ signal[k] \in 0 .. 1
    <3>1. Entry(k) /\ signal[k] \in Nat
      BY <1>1, Restated DEF IndInv, Types
    <3>2. /\ Cardinality(Flight(k)) \in 0 .. Cardinality(Threads)
          /\ Cardinality(Stalled(k)) \in 0 .. Cardinality(Threads)
          /\ Cardinality(Woken(k)) \in Nat
      BY OfFinite DEF Flight, Stalled, Woken
    <3>3. QED
      BY <3>1, <3>2 DEF Entry
  <2>2. QED
    BY <1>1, <2>1 DEF IndInv, Types, TypeOK
<1>2. QED
  BY <1>1, Inductive, PTL

\* An entry counts exactly the threads that use it, whatever fails.
THEOREM CountsAreExact == Spec => []CountsExact
<1>1. IndInv => CountsExact
  BY DEF IndInv
<1>2. QED
  BY <1>1, Inductive, PTL

\* No wake-up is lost and none is doubled: a flag that is set is one post of the
\* semaphore that is pending, or one thread that has taken it.
THEOREM NoWakeupLost == Spec => []WakeupsPaired
<1>1. IndInv => WakeupsPaired
  BY DEF IndInv
<1>2. QED
  BY <1>1, Inductive, PTL

\* The two errors of this file that would leave the lock taken for an inconsistent
\* list ("Signalled flag not set after wakeup", "Couldn't find index %zu
\* in the request list") cannot happen: whoever wakes finds its flag, and whoever has
\* passed finds its entry.
THEOREM ListsConsistent ==
    Spec => [](\A t \in Threads :
                  /\ pc[t] = "woken" => signalled[idx[t]] /\ waiting[idx[t]] > 0
                  /\ pc[t] = "passed" => requests[idx[t]] > 0)
<1>1. ASSUME IndInv
      PROVE  \A t \in Threads :
                  /\ pc[t] = "woken" => signalled[idx[t]] /\ waiting[idx[t]] > 0
                  /\ pc[t] = "passed" => requests[idx[t]] > 0
  BY <1>1, WokenIsSignalled, StalledIsListed, PassedIsListed
<1>2. QED
  BY <1>1, Inductive, PTL

=============================================================================
