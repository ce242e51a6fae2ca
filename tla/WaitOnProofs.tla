---------------------------- MODULE WaitOnProofs ----------------------------
(***************************************************************************)
(* No push of tfm_wait_on is missed, what a getter copies without the lock  *)
(* stays in the buffer with exactly its readers counted, and a getter that  *)
(* fails has one of two reasons; WaitOn implements ResultBoard: for every   *)
(* number of producers, getters and traces, every size of the buffer and    *)
(* with every failure.                                                      *)
(***************************************************************************)
EXTENDS WaitOnRefinement, FiniteSetTheorems, TLAPS

\* An index is pushed by one producer and once; what is buffered has been pushed.
PushedOnce ==
    /\ \A k \in over : k < nextPush
    /\ \A p \in Producers : ppc[p] = "push" =>
          pidx[p] \in Indices /\ pidx[p] < nextPush /\ pidx[p] \notin over
    /\ \A p, q \in Producers : ppc[p] = "push" /\ ppc[q] = "push" /\ pidx[p] = pidx[q] => p = q
    /\ Buffered \subseteq over

\* A trace is in its set.
InItsSet == \A s \in SetIds, w \in Ways : slot[s][w] # Empty => SetOf(slot[s][w]) = s

\* Who is on the way after a wait was answered.
Ended(g) == gpc[g] = "woken" \/ (gpc[g] = "waiting" /\ g \notin wanted) \/ (gpc[g] = "failed" /\ ~leaked)

WaitsAnswered == \A g \in Getters : Ended(g) => Answered(g)

\* Who has asked wants an index there is.
Asked == \A g \in Getters : gpc[g] # "idle" => gidx[g] \in Indices

IndInv ==
    /\ TypeOK
    /\ Asked
    /\ PushedOnce
    /\ InItsSet
    /\ NoPushMissed
    /\ ReadersKeepTrace
    /\ WaitsAnswered

-----------------------------------------------------------------------------
(* Constants and helpers *)

LEMMA ModInRange == ASSUME NEW a \in Int, NEW n \in Nat \ {0} PROVE a % n \in 0 .. n - 1
BY SMT

\* The sets are numbered from 0.
LEMMA SetsType == NSets \in Nat \ {0} /\ NTraces \in Nat /\ BufTraces \in Nat
<1>1. \A a \in Nat, n \in Nat \ {0} : a \div n \in Int
  BY SMT
<1>2. NSets \in Int
  BY <1>1, SizesAssumption, NWaysAssumption DEF NSets
<1>3. QED
  BY <1>2, SizesAssumption

\* An index belongs to a set.
LEMMA SetOfType == ASSUME NEW k \in Indices PROVE SetOf(k) \in SetIds
<1>1. k \in Int
  BY SetsType DEF Indices
<1>2. QED
  BY <1>1, SetsType, ModInRange DEF SetOf, SetIds

\* Ageing keeps the ages in their range.
LEMMA UpdateLruType ==
    ASSUME NEW ages \in [Ways -> Ages], NEW way \in Ways, NEW hit \in BOOLEAN
    PROVE  UpdateLru(ages, way, hit) \in [Ways -> Ages]
<1>1. ASSUME NEW w \in Ways PROVE (ages[w] + 1) % AgeMod \in Ages
  BY <1>1, ModInRange, AgeModAssumption, NWaysAssumption DEF Ages
<1>2. 0 \in Ages
  BY AgeModAssumption, NWaysAssumption DEF Ages
<1>3. QED
  BY <1>1, <1>2 DEF UpdateLru

\* What the buffer holds, place by place.
LEMMA BufferedAt ==
    \A k : k \in Buffered <=> k # Empty /\ \E s \in SetIds, w \in Ways : slot[s][w] = k
BY DEF Buffered

LEMMA BufferedAtNext ==
    \A k : k \in Buffered' <=> k # Empty /\ \E s \in SetIds, w \in Ways : slot'[s][w] = k
BY DEF Buffered

\* Readers can be counted.
LEMMA ReadersFinite ==
    \A k : IsFiniteSet(Readers(k)) /\ Cardinality(Readers(k)) \in Nat
<1>1. \A k : Readers(k) \subseteq Getters
  BY DEF Readers
<1>2. QED
  BY <1>1, GettersAssumption, FS_Subset, FS_CardinalityType

\* A trace is put where nothing is, or what nobody reads.
LEMMA StoreWhere ==
    ASSUME TypeOK, NEW k \in Indices, Store(k)
    PROVE  \E w \in Ways :
              /\ slot[SetOf(k)][w] = Empty \/ refcount[SetOf(k)][w] = 0
              /\ slot' = [slot EXCEPT ![SetOf(k)][w] = k]
              /\ refcount' = [refcount EXCEPT ![SetOf(k)][w] = 0]
              /\ lru' = [lru EXCEPT ![SetOf(k)] = UpdateLru(@, w, FALSE)]
<1>1. PICK w \in Highest(lru[SetOf(k)], Candidates(SetOf(k))) :
              /\ slot' = [slot EXCEPT ![SetOf(k)][w] = k]
              /\ refcount' = [refcount EXCEPT ![SetOf(k)][w] = 0]
              /\ lru' = [lru EXCEPT ![SetOf(k)] = UpdateLru(@, w, FALSE)]
  BY DEF Store
<1>2. w \in Candidates(SetOf(k))
  BY DEF Highest
<1>3. w \in Ways /\ (slot[SetOf(k)][w] = Empty \/ refcount[SetOf(k)][w] = 0)
  BY <1>2 DEF Candidates
<1>4. QED
  BY <1>1, <1>3

\* A push that is under way has an index that no push before it had.
LEMMA PushIndex ==
    ASSUME TypeOK, PushedOnce, NEW p \in Producers, ppc[p] = "push"
    PROVE  /\ pidx[p] \in Indices /\ SetOf(pidx[p]) \in SetIds
           /\ pidx[p] \notin over /\ pidx[p] \notin Buffered
BY SetOfType DEF PushedOnce

\* Where a getter that has asked finds its trace.
LEMMA GetterIndex ==
    ASSUME TypeOK, Asked, NEW g \in Getters, gpc[g] # "idle"
    PROVE  gidx[g] \in Indices /\ SetOf(gidx[g]) \in SetIds
BY SetOfType DEF Asked

\* A step of a producer, and one of a getter.
LEMMA StepCases ==
    ASSUME [Next]_vars
    PROVE  \/ \E p \in Producers : Compute(p)
           \/ \E p \in Producers : Push(p)
           \/ \E p \in Producers : PushFull(p) \/ PushNoMemory(p)
           \/ \E g \in Getters : Ask(g)
           \/ \E g \in Getters : Find(g)
           \/ \E g \in Getters : Request(g)
           \/ \E g \in Getters : RequestFails(g) \/ Wake(g) \/ FindsNothing(g) \/ CopyFails(g)
           \/ \E g \in Getters : Copy(g)
           \/ UNCHANGED vars
BY DEF Next, Producer, Getter

-----------------------------------------------------------------------------
(* Types *)

LEMMA TypesInit == Init => TypeOK
<1> SUFFICES ASSUME Init PROVE TypeOK
  OBVIOUS
<1>1. FreshAges \in [Ways -> Ages]
  BY AgeModAssumption, NWaysAssumption DEF FreshAges, Ways, Ages
<1>2. lru \in [SetIds -> [Ways -> Ages]]
  BY <1>1 DEF Init
<1>3. /\ slot \in [SetIds -> [Ways -> Indices \union {Empty}]]
      /\ refcount \in [SetIds -> [Ways -> Nat]]
  BY DEF Init
<1>4. nextPush \in 0 .. NTraces /\ asked \in 0 .. NTraces
  BY SetsType DEF Init
<1>5. QED
  BY <1>2, <1>3, <1>4 DEF Init, TypeOK

LEMMA TypesStep == IndInv /\ [Next]_vars => TypeOK'
<1> SUFFICES ASSUME IndInv, [Next]_vars PROVE TypeOK'
  OBVIOUS
<1>0. TypeOK /\ Asked /\ PushedOnce /\ InItsSet /\ ReadersKeepTrace
  BY DEF IndInv
<1>n. NTraces \in Nat
  BY SetsType
<1>1. ASSUME NEW p \in Producers, Compute(p) PROVE TypeOK'
  BY <1>0, <1>1, <1>n DEF TypeOK, Compute, Indices, bufferVars, getterVars
<1>2. ASSUME NEW p \in Producers, Push(p) PROVE TypeOK'
  <2>0. pidx[p] \in Indices /\ SetOf(pidx[p]) \in SetIds
    BY <1>0, <1>2, PushIndex DEF Push
  <2>1. PICK w \in Ways :
              /\ slot' = [slot EXCEPT ![SetOf(pidx[p])][w] = pidx[p]]
              /\ refcount' = [refcount EXCEPT ![SetOf(pidx[p])][w] = 0]
              /\ lru' = [lru EXCEPT ![SetOf(pidx[p])] = UpdateLru(@, w, FALSE)]
    BY <1>0, <1>2, <2>0, StoreWhere DEF Push
  <2>2. slot' \in [SetIds -> [Ways -> Indices \union {Empty}]]
    BY <1>0, <2>0, <2>1 DEF TypeOK
  <2>3. refcount' \in [SetIds -> [Ways -> Nat]]
    BY <1>0, <2>0, <2>1 DEF TypeOK
  <2>4. UpdateLru(lru[SetOf(pidx[p])], w, FALSE) \in [Ways -> Ages]
    BY <1>0, <2>0, UpdateLruType DEF TypeOK
  <2>5. lru' \in [SetIds -> [Ways -> Ages]]
    BY <1>0, <2>0, <2>1, <2>4 DEF TypeOK
  <2>6. QED
    BY <1>0, <1>2, <2>0, <2>2, <2>3, <2>5 DEF TypeOK, Push, PushReturns, getterVars
<1>3. ASSUME NEW p \in Producers, PushFull(p) \/ PushNoMemory(p) PROVE TypeOK'
  <2>0. pidx[p] \in Indices
    BY <1>0, <1>3, PushIndex DEF PushFull, PushNoMemory
  <2>1. QED
    BY <1>0, <1>3, <2>0 DEF TypeOK, PushFull, PushNoMemory, PushReturns, bufferVars, getterVars
<1>4. ASSUME NEW g \in Getters, Ask(g) PROVE TypeOK'
  BY <1>0, <1>4, <1>n DEF TypeOK, Ask, Goto, Indices, producerVars, bufferVars
<1>5. ASSUME NEW g \in Getters, Find(g) PROVE TypeOK'
  <2>0. SetOf(gidx[g]) \in SetIds
    BY <1>0, <1>5, GetterIndex DEF Find
  <2>1. PICK w \in Ways :
              /\ refcount' = [refcount EXCEPT ![SetOf(gidx[g])][w] = @ + 1]
              /\ lru' = [lru EXCEPT ![SetOf(gidx[g])] = UpdateLru(@, w, TRUE)]
    BY <1>5 DEF Find, Reference
  <2>2. refcount' \in [SetIds -> [Ways -> Nat]]
    BY <1>0, <2>0, <2>1 DEF TypeOK
  <2>3. UpdateLru(lru[SetOf(gidx[g])], w, TRUE) \in [Ways -> Ages]
    BY <1>0, <2>0, UpdateLruType DEF TypeOK
  <2>4. lru' \in [SetIds -> [Ways -> Ages]]
    BY <1>0, <2>0, <2>1, <2>3 DEF TypeOK
  <2>5. QED
    BY <1>0, <1>5, <2>2, <2>4 DEF TypeOK, Find, Goto, producerVars
<1>6. ASSUME NEW g \in Getters, Request(g) PROVE TypeOK'
  BY <1>0, <1>6 DEF TypeOK, Request, Goto, producerVars, bufferVars
<1>7. ASSUME NEW g \in Getters, RequestFails(g) \/ Wake(g) \/ FindsNothing(g) \/ CopyFails(g)
      PROVE  TypeOK'
  BY <1>0, <1>7 DEF TypeOK, RequestFails, Wake, FindsNothing, CopyFails, Goto, producerVars, bufferVars
<1>8. ASSUME NEW g \in Getters, Copy(g) PROVE TypeOK'
  <2>0. gidx[g] \in Indices /\ SetOf(gidx[g]) \in SetIds
    BY <1>0, <1>8, GetterIndex DEF Copy
  <2>1. PICK w \in Ways :
              /\ slot[SetOf(gidx[g])][w] = gidx[g]
              /\ refcount' = [refcount EXCEPT ![SetOf(gidx[g])][w] = @ - 1]
    BY <1>8 DEF Copy
  <2>2. gidx[g] # Empty
    BY <2>0, <1>n DEF Indices, Empty
  <2>3. refcount[SetOf(gidx[g])][w] = Cardinality(Readers(gidx[g]))
    BY <1>0, <2>0, <2>1, <2>2 DEF ReadersKeepTrace
  <2>4. g \in Readers(gidx[g])
    BY <1>8 DEF Copy, Readers
  <2>5. Cardinality(Readers(gidx[g])) \in Nat \ {0}
    BY <2>4, ReadersFinite, FS_EmptySet
  <2>6. refcount[SetOf(gidx[g])][w] - 1 \in Nat
    BY <2>3, <2>5
  <2>7. refcount' \in [SetIds -> [Ways -> Nat]]
    BY <1>0, <2>0, <2>1, <2>6 DEF TypeOK
  <2>8. QED
    BY <1>0, <1>8, <2>7 DEF TypeOK, Copy, Goto, producerVars
<1>9. CASE UNCHANGED vars
  BY <1>0, <1>9 DEF TypeOK, vars, producerVars, bufferVars, getterVars
<1>10. QED
  BY <1>1, <1>2, <1>3, <1>4, <1>5, <1>6, <1>7, <1>8, <1>9, StepCases

-----------------------------------------------------------------------------
(* Pushes *)

\* Nothing but a push changes what is buffered.
LEMMA BufferKept == ASSUME UNCHANGED slot PROVE Buffered' = Buffered
BY DEF Buffered

\* A push puts its index where nothing is, or what nobody reads, and evicts nothing else.
LEMMA PushBuffers ==
    ASSUME TypeOK, InItsSet, PushedOnce, ReadersKeepTrace, NEW p \in Producers, Push(p)
    PROVE  /\ Buffered' \subseteq Buffered \union {pidx[p]}
           /\ pidx[p] \in Buffered'
           /\ \A k \in Buffered : Readers(k) # {} => k \in Buffered'
<1>0. pidx[p] \in Indices /\ SetOf(pidx[p]) \in SetIds /\ pidx[p] # Empty
  BY PushIndex, SetsType DEF Push, Indices, Empty
<1>1. PICK w \in Ways :
            /\ slot[SetOf(pidx[p])][w] = Empty \/ refcount[SetOf(pidx[p])][w] = 0
            /\ slot' = [slot EXCEPT ![SetOf(pidx[p])][w] = pidx[p]]
  BY <1>0, StoreWhere DEF Push
<1>2. \A s \in SetIds, v \in Ways :
          slot'[s][v] = IF s = SetOf(pidx[p]) /\ v = w THEN pidx[p] ELSE slot[s][v]
  BY <1>0, <1>1 DEF TypeOK
<1>3. Buffered' \subseteq Buffered \union {pidx[p]}
  BY <1>2, BufferedAt, BufferedAtNext
<1>4. pidx[p] \in Buffered'
  BY <1>0, <1>2, BufferedAtNext
<1>5. ASSUME NEW k \in Buffered, Readers(k) # {} PROVE k \in Buffered'
  <2>1. PICK s \in SetIds, v \in Ways : k # Empty /\ slot[s][v] = k
    BY BufferedAt
  <2>2. CASE s = SetOf(pidx[p]) /\ v = w
    <3>1. refcount[s][v] = 0
      BY <1>1, <2>1, <2>2
    <3>2. Cardinality(Readers(k)) = 0
      BY <2>1, <3>1 DEF ReadersKeepTrace
    <3>3. QED
      BY <1>5, <3>2, ReadersFinite, FS_EmptySet
  <2>3. CASE ~(s = SetOf(pidx[p]) /\ v = w)
    BY <1>2, <2>1, <2>3, BufferedAtNext
  <2>4. QED
    BY <2>2, <2>3
<1>6. QED
  BY <1>3, <1>4, <1>5

LEMMA PushedOnceStep == IndInv /\ [Next]_vars => PushedOnce'
<1> SUFFICES ASSUME IndInv, [Next]_vars PROVE PushedOnce'
  OBVIOUS
<1>0. TypeOK /\ PushedOnce /\ InItsSet /\ ReadersKeepTrace
  BY DEF IndInv
<1>n. NTraces \in Nat /\ nextPush \in Nat
  BY <1>0, SetsType DEF TypeOK
<1>i. over \subseteq Nat
  BY <1>0 DEF TypeOK, Indices
<1>1. ASSUME NEW p \in Producers, Compute(p) PROVE PushedOnce'
  <2>1. /\ ppc' = [ppc EXCEPT ![p] = "push"] /\ pidx' = [pidx EXCEPT ![p] = nextPush]
        /\ nextPush' = nextPush + 1 /\ nextPush < NTraces
        /\ over' = over /\ slot' = slot
    BY <1>1 DEF Compute, bufferVars
  <2>2. /\ nextPush \in Indices /\ nextPush \notin over
        /\ \A q \in Producers : ppc[q] = "push" => pidx[q] < nextPush /\ pidx[q] \in Nat
    BY <1>0, <1>n, <1>i, <2>1 DEF PushedOnce, Indices
  <2>3. \A k \in over : k < nextPush'
    BY <1>0, <1>n, <1>i, <2>1 DEF PushedOnce
  <2>4. \A q \in Producers : ppc'[q] = "push" =>
            pidx'[q] \in Indices /\ pidx'[q] < nextPush' /\ pidx'[q] \notin over
    BY <1>0, <1>n, <2>1, <2>2 DEF PushedOnce, TypeOK
  <2>5. \A q, r \in Producers : ppc'[q] = "push" /\ ppc'[r] = "push" /\ pidx'[q] = pidx'[r] => q = r
    BY <1>0, <1>n, <2>1, <2>2 DEF PushedOnce, TypeOK
  <2>6. QED
    BY <1>0, <2>1, <2>3, <2>4, <2>5, BufferKept DEF PushedOnce
<1>2. ASSUME NEW p \in Producers, NEW label \in {"idle", "failed"}, ppc[p] = "push", PushReturns(p, label),
             UNCHANGED <<pidx, nextPush>>, Buffered' \subseteq Buffered \union {pidx[p]}
      PROVE  PushedOnce'
  <2>1. ppc' = [ppc EXCEPT ![p] = label] /\ over' = over \union {pidx[p]}
    BY <1>2 DEF PushReturns
  <2>2. \A q \in Producers : ppc'[q] = "push" => ppc[q] = "push" /\ q # p
    BY <1>0, <2>1 DEF TypeOK
  <2>3. QED
    BY <1>0, <1>2, <2>1, <2>2 DEF PushedOnce
<1>3. ASSUME NEW p \in Producers, Push(p) PROVE PushedOnce'
  BY <1>0, <1>2, <1>3, PushBuffers DEF Push
<1>4. ASSUME NEW p \in Producers, PushFull(p) \/ PushNoMemory(p) PROVE PushedOnce'
  BY <1>2, <1>4, BufferKept DEF PushFull, PushNoMemory, bufferVars
<1>5. ASSUME UNCHANGED <<ppc, pidx, nextPush, over, slot>> PROVE PushedOnce'
  BY <1>0, <1>5, BufferKept DEF PushedOnce
<1>6. CASE \E g \in Getters : Ask(g) \/ Find(g) \/ Request(g) \/ RequestFails(g) \/ Wake(g)
                              \/ FindsNothing(g) \/ CopyFails(g) \/ Copy(g)
  BY <1>5, <1>6 DEF Ask, Find, Request, RequestFails, Wake, FindsNothing, CopyFails, Copy,
                    producerVars, bufferVars
<1>7. CASE UNCHANGED vars
  BY <1>5, <1>7 DEF vars, producerVars, bufferVars
<1>8. QED
  BY <1>1, <1>3, <1>4, <1>6, <1>7, StepCases

LEMMA InItsSetStep == IndInv /\ [Next]_vars => InItsSet'
<1> SUFFICES ASSUME IndInv, [Next]_vars PROVE InItsSet'
  OBVIOUS
<1>0. TypeOK /\ PushedOnce /\ InItsSet
  BY DEF IndInv
<1>1. ASSUME NEW p \in Producers, Push(p) PROVE InItsSet'
  <2>0. pidx[p] \in Indices /\ SetOf(pidx[p]) \in SetIds
    BY <1>0, <1>1, PushIndex DEF Push
  <2>1. PICK w \in Ways : slot' = [slot EXCEPT ![SetOf(pidx[p])][w] = pidx[p]]
    BY <1>0, <1>1, <2>0, StoreWhere DEF Push
  <2>2. \A s \in SetIds, v \in Ways :
            slot'[s][v] = IF s = SetOf(pidx[p]) /\ v = w THEN pidx[p] ELSE slot[s][v]
    BY <1>0, <2>0, <2>1 DEF TypeOK
  <2>3. QED
    BY <1>0, <2>2 DEF InItsSet, SetOf
<1>2. ASSUME UNCHANGED slot PROVE InItsSet'
  BY <1>0, <1>2 DEF InItsSet, SetOf
<1>3. CASE \E p \in Producers : Compute(p) \/ PushFull(p) \/ PushNoMemory(p)
  BY <1>2, <1>3 DEF Compute, PushFull, PushNoMemory, bufferVars
<1>4. CASE \E g \in Getters : Ask(g) \/ Find(g) \/ Request(g) \/ RequestFails(g) \/ Wake(g)
                              \/ FindsNothing(g) \/ CopyFails(g) \/ Copy(g)
  BY <1>2, <1>4 DEF Ask, Find, Request, RequestFails, Wake, FindsNothing, CopyFails, Copy, bufferVars
<1>5. CASE UNCHANGED vars
  BY <1>2, <1>5 DEF vars, bufferVars
<1>6. QED
  BY <1>1, <1>3, <1>4, <1>5, StepCases

-----------------------------------------------------------------------------
(* Requests *)

LEMMA AskedStep == IndInv /\ [Next]_vars => Asked'
<1> SUFFICES ASSUME IndInv, [Next]_vars PROVE Asked'
  OBVIOUS
<1>0. TypeOK /\ Asked
  BY DEF IndInv
<1>1. ASSUME NEW g \in Getters, Ask(g) PROVE Asked'
  <2>1. gpc' = [gpc EXCEPT ![g] = "search"] /\ gidx' = [gidx EXCEPT ![g] = asked] /\ asked < NTraces
    BY <1>1 DEF Ask, Goto
  <2>2. asked \in Indices
    BY <1>0, <2>1, SetsType DEF TypeOK, Indices
  <2>3. QED
    BY <1>0, <2>1, <2>2 DEF Asked, TypeOK
<1>2. ASSUME NEW g \in Getters, NEW label, gpc[g] # "idle", Goto(g, label), UNCHANGED gidx PROVE Asked'
  BY <1>0, <1>2 DEF Asked, TypeOK, Goto
<1>3. ASSUME NEW g \in Getters,
             Find(g) \/ Request(g) \/ RequestFails(g) \/ Wake(g) \/ FindsNothing(g) \/ CopyFails(g) \/ Copy(g)
      PROVE  Asked'
  BY <1>2, <1>3 DEF Find, Request, RequestFails, Wake, FindsNothing, CopyFails, Copy
<1>4. CASE (\E p \in Producers : Producer(p)) \/ UNCHANGED vars
  BY <1>0, <1>4 DEF Asked, Producer, Compute, Push, PushFull, PushNoMemory, vars, getterVars
<1>5. QED
  BY <1>1, <1>3, <1>4, StepCases DEF Producer

LEMMA MissedStep == IndInv /\ [Next]_vars => NoPushMissed'
<1> SUFFICES ASSUME IndInv, [Next]_vars PROVE NoPushMissed'
  OBVIOUS
<1>0. TypeOK /\ PushedOnce /\ InItsSet /\ ReadersKeepTrace /\ NoPushMissed
  BY DEF IndInv
<1>1. ASSUME NEW p \in Producers, Push(p) PROVE NoPushMissed'
  <2>1. /\ wanted' = wanted \ (Served(pidx[p]) \union TimedOut(pidx[p])) /\ gpc' = gpc /\ gidx' = gidx
    BY <1>1 DEF Push, getterVars
  <2>2. \A g \in wanted' : g \in wanted /\ gidx[g] # pidx[p]
    BY <2>1 DEF Served
  <2>3. QED
    BY <1>0, <1>1, <2>1, <2>2, PushBuffers DEF NoPushMissed
<1>2. ASSUME NEW g \in Getters, g \notin wanted, NEW label, Goto(g, label), UNCHANGED <<slot, wanted>>,
             \A h \in Getters \ {g} : gidx'[h] = gidx[h]
      PROVE  NoPushMissed'
  BY <1>0, <1>2, BufferKept DEF NoPushMissed, Goto, TypeOK
<1>3. ASSUME NEW g \in Getters,
             Ask(g) \/ Find(g) \/ RequestFails(g) \/ Wake(g) \/ FindsNothing(g) \/ CopyFails(g) \/ Copy(g)
      PROVE  NoPushMissed'
  <2>1. g \notin wanted
    BY <1>0, <1>3 DEF NoPushMissed, Ask, Find, RequestFails, Wake, FindsNothing, CopyFails, Copy
  <2>2. \A h \in Getters \ {g} : gidx'[h] = gidx[h]
    BY <1>0, <1>3 DEF Ask, Find, RequestFails, Wake, FindsNothing, CopyFails, Copy, TypeOK
  <2>3. QED
    BY <1>2, <1>3, <2>1, <2>2
       DEF Ask, Find, RequestFails, Wake, FindsNothing, CopyFails, Copy, bufferVars
<1>4. ASSUME NEW g \in Getters, Request(g) PROVE NoPushMissed'
  BY <1>0, <1>4, BufferKept DEF NoPushMissed, Request, Misses, Goto, TypeOK, bufferVars
<1>5. CASE (\E p \in Producers : Compute(p) \/ PushFull(p) \/ PushNoMemory(p)) \/ UNCHANGED vars
  BY <1>0, <1>5, BufferKept
     DEF NoPushMissed, Compute, PushFull, PushNoMemory, vars, bufferVars, getterVars
<1>6. QED
  BY <1>1, <1>3, <1>4, <1>5, StepCases

\* An answer stands: pushes are not taken back.
LEMMA AnswerStands ==
    ASSUME NEW g \in Getters, over \subseteq over', gidx'[g] = gidx[g], Answered(g)
    PROVE  Answered(g)'
BY DEF Answered

LEMMA AnsweredStep == IndInv /\ [Next]_vars => WaitsAnswered'
<1> SUFFICES ASSUME IndInv, [Next]_vars PROVE WaitsAnswered'
  OBVIOUS
<1>0. TypeOK /\ PushedOnce /\ NoPushMissed /\ WaitsAnswered
  BY DEF IndInv
<1>1. ASSUME over \subseteq over', UNCHANGED <<gpc, gidx, leaked>>,
             \A g \in Getters : g \in wanted /\ g \notin wanted' => Answered(g)'
      PROVE  WaitsAnswered'
  BY <1>0, <1>1, AnswerStands DEF WaitsAnswered, Ended
<1>2. ASSUME NEW p \in Producers, Push(p) PROVE WaitsAnswered'
  <2>1. /\ wanted' = wanted \ (Served(pidx[p]) \union TimedOut(pidx[p]))
        /\ gidx' = gidx /\ over' = over \union {pidx[p]}
    BY <1>2 DEF Push, PushReturns, getterVars
  <2>2. \A g \in Getters : g \in wanted /\ g \notin wanted' => Answered(g)'
    BY <2>1 DEF Served, TimedOut, Answered
  <2>3. QED
    BY <1>1, <1>2, <2>1, <2>2 DEF Push, getterVars
<1>3. CASE (\E p \in Producers : Compute(p) \/ PushFull(p) \/ PushNoMemory(p)) \/ UNCHANGED vars
  BY <1>1, <1>3 DEF Compute, PushFull, PushNoMemory, PushReturns, vars, producerVars, getterVars
<1>4. ASSUME NEW g \in Getters, NEW label, Goto(g, label), UNCHANGED over,
             \A h \in Getters \ {g} : gidx'[h] = gidx[h], leaked => leaked',
             \A h \in Getters \ {g} : h \in wanted => h \in wanted',
             Ended(g)' => Answered(g)'
      PROVE  WaitsAnswered'
  <2>1. ASSUME NEW h \in Getters \ {g}, Ended(h)' PROVE Answered(h)'
    <3>1. gpc'[h] = gpc[h]
      BY <1>0, <1>4 DEF Goto, TypeOK
    <3>2. Ended(h)
      BY <1>4, <2>1, <3>1 DEF Ended
    <3>3. QED
      BY <1>0, <1>4, <3>2, AnswerStands DEF WaitsAnswered
  <2>2. QED
    BY <1>4, <2>1 DEF WaitsAnswered
<1>5. ASSUME NEW g \in Getters, Ask(g) \/ Find(g) \/ CopyFails(g) \/ Copy(g) \/ Request(g) \/ RequestFails(g)
      PROVE  WaitsAnswered'
  <2>1. PICK label \in {"search", "copy", "pinned", "idle", "waiting", "failed"} :
            /\ Goto(g, label)
            /\ label = "waiting" => wanted' = wanted \union {g}
            /\ label = "failed" => leaked'
    BY <1>5 DEF Ask, Find, CopyFails, Copy, Request, RequestFails
  <2>2. gpc'[g] = label
    BY <1>0, <2>1 DEF Goto, TypeOK
  <2>3. ~Ended(g)'
    BY <2>1, <2>2 DEF Ended
  <2>4. \A h \in Getters \ {g} : gidx'[h] = gidx[h]
    BY <1>0, <1>5 DEF Ask, Find, CopyFails, Copy, Request, RequestFails, TypeOK
  <2>5. UNCHANGED over /\ wanted \subseteq wanted'
    BY <1>5 DEF Ask, Find, CopyFails, Copy, Request, RequestFails, producerVars
  <2>6. leaked => leaked'
    BY <1>5, Zenon DEF Ask, Find, CopyFails, Copy, Request, RequestFails
  <2>7. QED
    BY <1>4, <2>1, <2>3, <2>4, <2>5, <2>6
<1>6. ASSUME NEW g \in Getters, Wake(g) \/ FindsNothing(g) PROVE WaitsAnswered'
  <2>1. Ended(g)
    BY <1>6 DEF Wake, FindsNothing, Ended
  <2>2. UNCHANGED <<over, gidx, leaked, wanted>>
    BY <1>6 DEF Wake, FindsNothing, producerVars
  <2>3. Answered(g)'
    BY <1>0, <2>1, <2>2, AnswerStands DEF WaitsAnswered
  <2>4. QED
    BY <1>4, <1>6, <2>2, <2>3 DEF Wake, FindsNothing
<1>7. QED
  BY <1>2, <1>3, <1>5, <1>6, StepCases

-----------------------------------------------------------------------------
(* References *)

\* Who reads changes only when the getter's own label or index does.
LEMMA ReadersAfter ==
    ASSUME TypeOK, NEW g \in Getters, NEW label, Goto(g, label),
           \A h \in Getters \ {g} : gidx'[h] = gidx[h]
    PROVE  \A k : Readers(k)' = IF label \in {"copy", "pinned"} /\ gidx'[g] = k
                                THEN Readers(k) \union {g} ELSE Readers(k) \ {g}
BY DEF Readers, Goto, TypeOK

\* Nothing changes for a getter that does not read before the step nor after it.
LEMMA OutsideStep ==
    ASSUME TypeOK, ReadersKeepTrace, NEW g \in Getters, NEW label, label \notin {"copy", "pinned"},
           gpc[g] \notin {"copy", "pinned"}, Goto(g, label),
           \A h \in Getters \ {g} : gidx'[h] = gidx[h], UNCHANGED <<slot, refcount>>
    PROVE  ReadersKeepTrace'
<1>1. \A k : Readers(k)' = Readers(k)
  BY ReadersAfter DEF Readers
<1>2. \A h \in Getters : gpc'[h] \in {"copy", "pinned"} => h # g /\ gpc[h] \in {"copy", "pinned"}
  BY DEF Goto, TypeOK
<1>3. \A h \in Getters : gpc'[h] \in {"copy", "pinned"} => gidx'[h] \in Buffered'
  BY <1>2, BufferKept DEF ReadersKeepTrace
<1>4. QED
  BY <1>1, <1>3 DEF ReadersKeepTrace

LEMMA ReadersStep == IndInv /\ [Next]_vars => ReadersKeepTrace'
<1> SUFFICES ASSUME IndInv, [Next]_vars PROVE ReadersKeepTrace'
  OBVIOUS
<1>0. TypeOK /\ Asked /\ PushedOnce /\ InItsSet /\ ReadersKeepTrace
  BY DEF IndInv
<1>1. ASSUME NEW p \in Producers, Push(p) PROVE ReadersKeepTrace'
  <2>0. pidx[p] \in Indices /\ SetOf(pidx[p]) \in SetIds /\ pidx[p] \notin Buffered /\ pidx[p] # Empty
    BY <1>0, <1>1, PushIndex, SetsType DEF Push, Indices, Empty
  <2>1. PICK w \in Ways :
            /\ slot' = [slot EXCEPT ![SetOf(pidx[p])][w] = pidx[p]]
            /\ refcount' = [refcount EXCEPT ![SetOf(pidx[p])][w] = 0]
    BY <1>0, <1>1, <2>0, StoreWhere DEF Push
  <2>2. \A s \in SetIds, v \in Ways :
            /\ slot'[s][v] = IF s = SetOf(pidx[p]) /\ v = w THEN pidx[p] ELSE slot[s][v]
            /\ refcount'[s][v] = IF s = SetOf(pidx[p]) /\ v = w THEN 0 ELSE refcount[s][v]
    BY <1>0, <2>0, <2>1 DEF TypeOK
  <2>3. UNCHANGED <<gpc, gidx>>
    BY <1>1 DEF Push, getterVars
  <2>4. \A k : Readers(k)' = Readers(k)
    BY <2>3 DEF Readers
  <2>5. ASSUME NEW g \in Getters, gpc'[g] \in {"copy", "pinned"} PROVE gidx'[g] \in Buffered'
    <3>1. g \in Readers(gidx[g]) /\ gidx[g] \in Buffered
      BY <1>0, <2>3, <2>5 DEF Readers, ReadersKeepTrace
    <3>2. QED
      BY <1>0, <1>1, <2>3, <3>1, PushBuffers
  <2>6. Readers(pidx[p]) = {}
    BY <1>0, <2>0 DEF Readers, ReadersKeepTrace
  <2>7. \A s \in SetIds, v \in Ways : slot[s][v] # pidx[p]
    BY <2>0, BufferedAt
  <2>8. ASSUME NEW s \in SetIds, NEW v \in Ways, slot'[s][v] # Empty
        PROVE  refcount'[s][v] = Cardinality(Readers(slot'[s][v]))
    <3>1. CASE s = SetOf(pidx[p]) /\ v = w
      BY <2>2, <2>6, <3>1, FS_EmptySet
    <3>2. CASE ~(s = SetOf(pidx[p]) /\ v = w)
      BY <1>0, <2>2, <2>8, <3>2 DEF ReadersKeepTrace
    <3>3. QED
      BY <3>1, <3>2
  <2>9. ASSUME NEW s \in SetIds, NEW v \in Ways, slot'[s][v] # Empty
        PROVE  \A u \in Ways : slot'[s][u] = slot'[s][v] => u = v
    BY <1>0, <2>2, <2>7, <2>9 DEF ReadersKeepTrace
  <2>10. QED
    BY <2>4, <2>5, <2>8, <2>9 DEF ReadersKeepTrace
<1>2. ASSUME NEW g \in Getters, Find(g) PROVE ReadersKeepTrace'
  <2>0. gidx[g] \in Indices /\ SetOf(gidx[g]) \in SetIds /\ gidx[g] # Empty
    BY <1>0, <1>2, GetterIndex, SetsType DEF Find, Indices, Empty
  <2>1. PICK w \in Ways :
            /\ slot[SetOf(gidx[g])][w] = gidx[g]
            /\ refcount' = [refcount EXCEPT ![SetOf(gidx[g])][w] = @ + 1]
    BY <1>2 DEF Find, Reference
  <2>2. Goto(g, "copy") /\ UNCHANGED <<slot, gidx>> /\ gpc[g] \notin {"copy", "pinned"}
    BY <1>2 DEF Find
  <2>3. \A k : Readers(k)' = IF gidx[g] = k THEN Readers(k) \union {g} ELSE Readers(k)
    BY <1>0, <2>2, ReadersAfter DEF Readers
  <2>4. g \notin Readers(gidx[g])
    BY <2>2 DEF Readers
  <2>5. Cardinality(Readers(gidx[g]) \union {g}) = Cardinality(Readers(gidx[g])) + 1
    BY <2>4, ReadersFinite, FS_AddElement
  <2>6. gidx[g] \in Buffered
    BY <2>0, <2>1, BufferedAt
  <2>7. ASSUME NEW h \in Getters, gpc'[h] \in {"copy", "pinned"} PROVE gidx'[h] \in Buffered'
    BY <1>0, <2>2, <2>6, <2>7, BufferKept DEF ReadersKeepTrace, Goto, TypeOK
  <2>8. ASSUME NEW s \in SetIds, NEW v \in Ways, slot[s][v] # Empty
        PROVE  refcount'[s][v] = Cardinality(Readers(slot[s][v]))'
    <3>1. CASE slot[s][v] = gidx[g]
      <4>1. s = SetOf(gidx[g]) /\ v = w
        BY <1>0, <2>1, <2>8, <3>1 DEF InItsSet, ReadersKeepTrace
      <4>2. refcount'[s][v] = refcount[s][v] + 1
        BY <1>0, <2>1, <4>1 DEF TypeOK
      <4>3. Readers(slot[s][v])' = Readers(gidx[g]) \union {g}
        BY <2>2, <2>3, <3>1
      <4>4. Cardinality(Readers(slot[s][v]))' = Cardinality(Readers(gidx[g]) \union {g})
        BY <4>3, Zenon
      <4>5. QED
        BY <1>0, <2>5, <2>8, <3>1, <4>2, <4>4 DEF ReadersKeepTrace
    <3>2. CASE slot[s][v] # gidx[g]
      <4>1. refcount'[s][v] = refcount[s][v]
        BY <1>0, <2>0, <2>1, <3>2 DEF TypeOK
      <4>2. Readers(slot[s][v])' = Readers(slot[s][v])
        BY <2>2, <2>3, <3>2
      <4>3. Cardinality(Readers(slot[s][v]))' = Cardinality(Readers(slot[s][v]))
        BY <4>2, Zenon
      <4>4. QED
        BY <1>0, <2>8, <4>1, <4>3 DEF ReadersKeepTrace
    <3>3. QED
      BY <3>1, <3>2
  <2>9. QED
    BY <1>0, <2>2, <2>7, <2>8 DEF ReadersKeepTrace
<1>3. ASSUME NEW g \in Getters, Copy(g) PROVE ReadersKeepTrace'
  <2>0. gidx[g] \in Indices /\ SetOf(gidx[g]) \in SetIds /\ gidx[g] # Empty
    BY <1>0, <1>3, GetterIndex, SetsType DEF Copy, Indices, Empty
  <2>1. PICK w \in Ways :
            /\ slot[SetOf(gidx[g])][w] = gidx[g]
            /\ refcount' = [refcount EXCEPT ![SetOf(gidx[g])][w] = @ - 1]
    BY <1>3 DEF Copy
  <2>2. Goto(g, "idle") /\ UNCHANGED <<slot, gidx>> /\ gpc[g] = "copy"
    BY <1>3 DEF Copy
  <2>3. \A k : Readers(k)' = Readers(k) \ {g}
    BY <1>0, <2>2, ReadersAfter DEF Readers
  <2>4. g \in Readers(gidx[g]) /\ \A k : k # gidx[g] => g \notin Readers(k)
    BY <2>2 DEF Readers
  <2>5. Cardinality(Readers(gidx[g]) \ {g}) = Cardinality(Readers(gidx[g])) - 1
    BY <2>4, ReadersFinite, FS_RemoveElement
  <2>6. ASSUME NEW h \in Getters, gpc'[h] \in {"copy", "pinned"} PROVE gidx'[h] \in Buffered'
    BY <1>0, <2>2, <2>6, BufferKept DEF ReadersKeepTrace, Goto, TypeOK
  <2>7. ASSUME NEW s \in SetIds, NEW v \in Ways, slot[s][v] # Empty
        PROVE  refcount'[s][v] = Cardinality(Readers(slot[s][v]))'
    <3>1. CASE slot[s][v] = gidx[g]
      <4>1. s = SetOf(gidx[g]) /\ v = w
        BY <1>0, <2>1, <2>7, <3>1 DEF InItsSet, ReadersKeepTrace
      <4>2. refcount'[s][v] = refcount[s][v] - 1
        BY <1>0, <2>1, <4>1 DEF TypeOK
      <4>3. Readers(slot[s][v])' = Readers(gidx[g]) \ {g}
        BY <2>2, <2>3, <3>1
      <4>4. Cardinality(Readers(slot[s][v]))' = Cardinality(Readers(gidx[g]) \ {g})
        BY <4>3, Zenon
      <4>5. QED
        BY <1>0, <2>5, <2>7, <3>1, <4>2, <4>4 DEF ReadersKeepTrace
    <3>2. CASE slot[s][v] # gidx[g]
      <4>1. refcount'[s][v] = refcount[s][v]
        BY <1>0, <2>0, <2>1, <3>2 DEF TypeOK
      <4>2. Readers(slot[s][v])' = Readers(slot[s][v])
        BY <2>2, <2>3, <2>4, <3>2
      <4>3. Cardinality(Readers(slot[s][v]))' = Cardinality(Readers(slot[s][v]))
        BY <4>2, Zenon
      <4>4. QED
        BY <1>0, <2>7, <4>1, <4>3 DEF ReadersKeepTrace
    <3>3. QED
      BY <3>1, <3>2
  <2>8. QED
    BY <1>0, <2>2, <2>6, <2>7 DEF ReadersKeepTrace
<1>4. ASSUME NEW g \in Getters, CopyFails(g) PROVE ReadersKeepTrace'
  <2>1. Goto(g, "pinned") /\ UNCHANGED <<slot, refcount, gidx>> /\ gpc[g] = "copy"
    BY <1>4 DEF CopyFails, bufferVars
  <2>2. \A k : Readers(k)' = Readers(k)
    BY <1>0, <2>1, ReadersAfter DEF Readers
  <2>3. \A h \in Getters : gpc'[h] \in {"copy", "pinned"} => gpc[h] \in {"copy", "pinned"}
    BY <1>0, <2>1 DEF Goto, TypeOK
  <2>4. QED
    BY <1>0, <2>1, <2>2, <2>3, BufferKept DEF ReadersKeepTrace
<1>5. ASSUME NEW g \in Getters, Ask(g) \/ Request(g) \/ RequestFails(g) \/ Wake(g) \/ FindsNothing(g)
      PROVE  ReadersKeepTrace'
  <2>1. /\ \A h \in Getters \ {g} : gidx'[h] = gidx[h]
        /\ UNCHANGED <<slot, refcount>>
        /\ gpc[g] \notin {"copy", "pinned"}
    BY <1>0, <1>5 DEF Ask, Request, RequestFails, Wake, FindsNothing, bufferVars, TypeOK
  <2>2. PICK label \in {"search", "waiting", "failed", "woken"} : Goto(g, label)
    BY <1>5 DEF Ask, Request, RequestFails, Wake, FindsNothing
  <2>3. QED
    BY <1>0, <2>1, <2>2, OutsideStep
<1>6. CASE (\E p \in Producers : Compute(p) \/ PushFull(p) \/ PushNoMemory(p)) \/ UNCHANGED vars
  <2>1. UNCHANGED <<slot, refcount, gpc, gidx>>
    BY <1>6 DEF Compute, PushFull, PushNoMemory, vars, bufferVars, getterVars
  <2>2. \A k : Readers(k)' = Readers(k)
    BY <2>1 DEF Readers
  <2>3. QED
    BY <1>0, <2>1, <2>2, BufferKept DEF ReadersKeepTrace
<1>7. QED
  BY <1>1, <1>2, <1>3, <1>4, <1>5, <1>6, StepCases

-----------------------------------------------------------------------------
(* The invariant, and what it implies *)

LEMMA Initially == Init => IndInv
<1> SUFFICES ASSUME Init PROVE IndInv
  OBVIOUS
<1>1. \A s \in SetIds, w \in Ways : slot[s][w] = Empty
  BY DEF Init
<1>2. Buffered = {}
  BY <1>1, BufferedAt
<1>3. Asked /\ PushedOnce /\ InItsSet
  BY <1>1, <1>2 DEF Init, Asked, PushedOnce, InItsSet
<1>4. NoPushMissed /\ WaitsAnswered
  BY DEF Init, NoPushMissed, WaitsAnswered, Ended
<1>5. ReadersKeepTrace
  BY <1>1 DEF Init, ReadersKeepTrace
<1>6. QED
  BY <1>3, <1>4, <1>5, TypesInit DEF IndInv

LEMMA Preserved == IndInv /\ [Next]_vars => IndInv'
BY TypesStep, AskedStep, PushedOnceStep, InItsSetStep, MissedStep, ReadersStep, AnsweredStep DEF IndInv

\* The invariant of a waiter (tfm_wait_on.c): an index is pushed once, a trace is in its
\* set, a request stands for a trace that is not there, an answer for a push that is over.
THEOREM Inductive == Spec => []IndInv
  BY Initially, Preserved, PTL DEF Spec

\* Every variable has its type; in particular no reference count falls below 0.
THEOREM TypeCorrect == Spec => []TypeOK
<1>1. IndInv => TypeOK
  BY DEF IndInv
<1>2. QED
  BY <1>1, Inductive, PTL

\* Whoever is in the list of requests waits for a trace that is not in the buffer: no push
\* comes between the search and the wait (tfm_wait_on.c:319-353).
THEOREM PushesFound == Spec => []NoPushMissed
<1>1. IndInv => NoPushMissed
  BY DEF IndInv
<1>2. QED
  BY <1>1, Inductive, PTL

\* What is copied without the lock stays in the buffer, and its references are its readers
\* (tfm_wait_on.c:432-463, cache.c:321-452).
THEOREM ReadersPin == Spec => []ReadersKeepTrace
<1>1. IndInv => ReadersKeepTrace
  BY DEF IndInv
<1>2. QED
  BY <1>1, Inductive, PTL

\* A getter that comes back without its trace was answered by a push, of its index or of one
\* far ahead (tfm_wait_on.c:150-168, 402-423).
THEOREM FailuresExplained == Spec => []FailureHasReason
<1>1. IndInv => FailureHasReason
  BY DEF IndInv, WaitsAnswered, Ended, FailureHasReason
<1>2. QED
  BY <1>1, Inductive, PTL

-----------------------------------------------------------------------------
(* What a board has room for, and who reads it *)

\* A shelf of the board is what stands in the ways of one set.
LEMMA ShelfIs ==
    ASSUME TypeOK, InItsSet, NEW k \in Indices
    PROVE  /\ Abstract!Shelf(k) \subseteq Indices
           /\ \A j : j \in Abstract!Shelf(k) <=>
                  j # Empty /\ \E w \in Ways : slot[SetOf(k)][w] = j
<1>1. SetOf(k) \in SetIds
  BY SetOfType
<1>2. \A j : j \in Abstract!Shelf(k) <=> j \in Buffered /\ SetOf(j) = SetOf(k)
  BY DEF Abstract!Shelf, SetOf
<1>3. \A s \in SetIds, w \in Ways : slot[s][w] \in Indices \union {Empty}
  BY DEF TypeOK
<1>4. Buffered \subseteq Indices
  BY <1>3, BufferedAt
<1>5. \A s \in SetIds, w \in Ways : slot[s][w] # Empty => SetOf(slot[s][w]) = s
  BY DEF InItsSet
<1>6. ASSUME NEW j, j \in Buffered, SetOf(j) = SetOf(k)
      PROVE  j # Empty /\ \E w \in Ways : slot[SetOf(k)][w] = j
  <2>1. PICK s \in SetIds, w \in Ways : j # Empty /\ slot[s][w] = j
    BY <1>6, BufferedAt
  <2>2. s = SetOf(k)
    BY <1>5, <1>6, <2>1
  <2>3. QED
    BY <2>1, <2>2
<1>7. ASSUME NEW j, j # Empty, NEW w \in Ways, slot[SetOf(k)][w] = j
      PROVE  j \in Buffered /\ SetOf(j) = SetOf(k)
  BY <1>1, <1>5, <1>7, BufferedAt
<1>8. QED
  BY <1>2, <1>4, <1>6, <1>7, Zenon

\* It is full when no way is empty.
LEMMA FullMeans ==
    ASSUME TypeOK, InItsSet, ReadersKeepTrace, NEW k \in Indices
    PROVE  Abstract!Full(k) <=> \A w \in Ways : slot[SetOf(k)][w] # Empty
<1> DEFINE s == SetOf(k)
           occupied == {w \in Ways : slot[s][w] # Empty}
           f == [w \in occupied |-> slot[s][w]]
<1>1. IsFiniteSet(Ways) /\ Cardinality(Ways) = NWays
  <2>1. NWays - 1 \in Int /\ 0 \in Int
    BY NWaysAssumption
  <2>2. QED
    BY <2>1, NWaysAssumption, FS_Interval DEF Ways
<1>2. occupied \in SUBSET Ways
  OBVIOUS
<1>3. /\ IsFiniteSet(occupied) /\ Cardinality(occupied) \in Nat
      /\ Cardinality(Ways) = Cardinality(occupied) => Ways = occupied
  BY <1>1, <1>2, FS_Subset, FS_CardinalityType
<1>4. s \in SetIds
  BY SetOfType
<1>5. f \in Bijection(occupied, Abstract!Shelf(k))
  <2>1. \A w \in occupied : slot[s][w] \in Abstract!Shelf(k)
    BY ShelfIs, Zenon
  <2>2. \A j \in Abstract!Shelf(k) : \E w \in occupied : slot[s][w] = j
    BY ShelfIs, Zenon
  <2>3. \A v, w \in occupied : slot[s][v] = slot[s][w] => v = w
    BY <1>4 DEF ReadersKeepTrace
  <2> HIDE DEF occupied, s
  <2>4. f \in [occupied -> Abstract!Shelf(k)]
    BY <2>1
  <2>5. f \in Injection(occupied, Abstract!Shelf(k))
    BY <2>3, <2>4 DEF Injection, IsInjective
  <2>6. f \in Surjection(occupied, Abstract!Shelf(k))
    BY <2>2, <2>4 DEF Surjection
  <2>7. QED
    BY <2>5, <2>6 DEF Bijection
<1>6. Cardinality(Abstract!Shelf(k)) = Cardinality(occupied)
  BY <1>3, <1>5, FS_Bijection DEF ExistsBijection
<1>7. Abstract!Cardinality(Abstract!Shelf(k)) = Cardinality(Abstract!Shelf(k))
  BY Zenon DEF Abstract!Cardinality, Cardinality
<1>8. Abstract!Full(k) <=> Cardinality(occupied) = Cardinality(Ways)
  BY <1>1, <1>6, <1>7 DEF Abstract!Full
<1>9. occupied = Ways <=> \A w \in Ways : slot[s][w] # Empty
  OBVIOUS
<1>10. Cardinality(occupied) = Cardinality(Ways) <=> occupied = Ways
  <2> HIDE DEF occupied
  <2>1. QED
    BY <1>3
<1>11. QED
  <2> HIDE DEF occupied
  <2>1. QED
    BY <1>8, <1>9, <1>10, Zenon

\* A result is unread when it has no readers.
LEMMA UnreadMeans ==
    ASSUME NEW k \in Indices
    PROVE  Abstract!Unread(k) <=> Readers(k) = {}
<1>1. k # Empty
  BY SetsType DEF Indices, Empty
<1>2. QED
  BY <1>1 DEF Abstract!Unread, Reading, Readers

-----------------------------------------------------------------------------
(* How each step looks to who sees the board only. *)

\* A step of one getter changes what it asks for and what it reads.
LEMMA WantsOf ==
    ASSUME TypeOK, NEW g \in Getters, NEW label, Goto(g, label), UNCHANGED gidx
    PROVE  /\ Wants' = [Wants EXCEPT ![g] =
                          IF label \in {"search", "waiting", "woken"} THEN gidx[g] ELSE Empty]
           /\ Reading' = [Reading EXCEPT ![g] =
                            IF label \in {"copy", "pinned"} THEN gidx[g] ELSE Empty]
BY DEF TypeOK, Goto, Wants, Reading

\* What does not change what a getter asks for or reads, nor the board, is not seen.
LEMMA Hidden ==
    ASSUME UNCHANGED <<Wants, Reading, asked, over, leaked, slot>>
    PROVE  UNCHANGED Abstract!vars
BY BufferKept DEF Abstract!vars

LEMMA GettersStay ==
    ASSUME UNCHANGED getterVars
    PROVE  UNCHANGED <<Wants, Reading, asked>>
BY DEF getterVars, Wants, Reading

LEMMA MapPush ==
    ASSUME IndInv, NEW p \in Producers, Push(p)
    PROVE  Abstract!Next
<1> DEFINE k == pidx[p]
           s == SetOf(k)
<1>0. TypeOK /\ PushedOnce /\ InItsSet /\ ReadersKeepTrace
  BY DEF IndInv
<1>1. k \in Indices /\ s \in SetIds /\ k \notin over /\ k \notin Buffered /\ k # Empty
  BY <1>0, PushIndex, SetsType DEF Push, Indices, Empty
<1>2. /\ ~leaked /\ leaked' = leaked /\ over' = over \union {k}
      /\ UNCHANGED <<Wants, Reading, asked>>
  BY GettersStay DEF Push, PushReturns
<1>3. PICK w \in Highest(lru[s], Candidates(s)) : slot' = [slot EXCEPT ![s][w] = k]
  BY DEF Push, Store
<1>4. w \in Candidates(s) /\ w \in Ways
  BY <1>3 DEF Highest, Candidates
<1>5. \A t \in SetIds, v \in Ways :
          slot'[t][v] = IF t = s /\ v = w THEN k ELSE slot[t][v]
  BY <1>0, <1>1, <1>3, <1>4 DEF TypeOK
<1> HIDE DEF k, s
<1>6. CASE slot[s][w] = Empty
  <2>1. ~Abstract!Full(k)
    BY <1>0, <1>1, <1>4, <1>6, FullMeans DEF s
  <2>2. \A j : j \in Buffered' <=> j \in Buffered \/ j = k
    BY <1>1, <1>4, <1>5, <1>6, BufferedAt, BufferedAtNext
  <2>3. Buffered' = Buffered \union {k}
    BY <2>2
  <2>4. Abstract!Publish(k)
    BY <1>1, <1>2, <2>1, <2>3 DEF Abstract!Publish
  <2>5. QED
    BY <1>1, <2>4 DEF Abstract!Next, Abstract!Indices, Indices
<1>7. CASE slot[s][w] # Empty
  <2>1. (\A v \in Ways : slot[s][v] # Empty) /\ refcount[s][w] = 0
    BY <1>4, <1>7 DEF Candidates
  <2>2. Abstract!Full(k)
    BY <1>0, <1>1, <2>1, FullMeans DEF s
  <2>3. PICK j : j = slot[s][w]
    OBVIOUS
  <2>4. j \in Abstract!Shelf(k) /\ j \in Indices
    BY <1>0, <1>1, <1>4, <1>7, <2>3, ShelfIs DEF s
  <2>5. Readers(j) = {}
    <3>1. Cardinality(Readers(j)) = 0
      BY <1>0, <1>1, <1>4, <1>7, <2>1, <2>3 DEF ReadersKeepTrace
    <3>2. QED
      BY <3>1, ReadersFinite, FS_EmptySet
  <2>6. Abstract!Unread(j)
    BY <2>4, <2>5, UnreadMeans
  <2>7. \A t \in SetIds, v \in Ways : slot[t][v] = j => t = s /\ v = w
    BY <1>0, <1>1, <1>4, <1>7, <2>3 DEF InItsSet, ReadersKeepTrace
  <2>8. \A i : i \in Buffered' <=> (i \in Buffered /\ i # j) \/ i = k
    BY <1>1, <1>4, <1>5, <2>3, <2>7, BufferedAt, BufferedAtNext
  <2>9. Buffered' = (Buffered \ {j}) \union {k}
    BY <2>8
  <2>10. Abstract!Publish(k)
    BY <1>1, <1>2, <2>2, <2>4, <2>6, <2>9 DEF Abstract!Publish
  <2>11. QED
    BY <1>1, <2>10 DEF Abstract!Next, Abstract!Indices, Indices
<1>8. QED
  BY <1>6, <1>7

LEMMA MapLose ==
    ASSUME IndInv, NEW p \in Producers, PushFull(p) \/ PushNoMemory(p)
    PROVE  Abstract!Next
<1> DEFINE k == pidx[p]
           s == SetOf(k)
<1>0. TypeOK /\ PushedOnce /\ InItsSet /\ ReadersKeepTrace
  BY DEF IndInv
<1>1. k \in Indices /\ s \in SetIds /\ k \notin over
  BY <1>0, PushIndex DEF PushFull, PushNoMemory
<1>2. /\ leaked' = leaked /\ over' = over \union {k} /\ slot' = slot
      /\ UNCHANGED <<Wants, Reading, asked>>
  BY GettersStay DEF PushFull, PushNoMemory, PushReturns, bufferVars
<1>3. "alloc" \in Faults \/ Candidates(s) = {}
  BY DEF PushFull, PushNoMemory
<1> HIDE DEF k, s
<1>4. ASSUME Candidates(s) = {}
      PROVE  Abstract!Full(k) /\ \A j \in Abstract!Shelf(k) : ~Abstract!Unread(j)
  <2>1. \A v \in Ways : slot[s][v] # Empty /\ refcount[s][v] # 0
    BY <1>4 DEF Candidates
  <2>2. Abstract!Full(k)
    BY <1>0, <1>1, <2>1, FullMeans DEF s
  <2>3. ASSUME NEW j \in Abstract!Shelf(k) PROVE ~Abstract!Unread(j)
    <3>1. j \in Indices /\ \E v \in Ways : slot[s][v] = j
      BY <1>0, <1>1, ShelfIs DEF s
    <3>2. Cardinality(Readers(j)) # 0
      BY <1>0, <1>1, <2>1, <3>1 DEF ReadersKeepTrace
    <3>3. Readers(j) # {}
      BY <3>2, FS_EmptySet
    <3>4. QED
      BY <3>1, <3>3, UnreadMeans
  <2>4. QED
    BY <2>2, <2>3
<1>5. Abstract!Lose(k)
  BY <1>1, <1>2, <1>3, <1>4, BufferKept DEF Abstract!Lose
<1>6. QED
  BY <1>1, <1>5 DEF Abstract!Next, Abstract!Indices, Indices

LEMMA MapAsk ==
    ASSUME IndInv, NEW g \in Getters, Ask(g)
    PROVE  Abstract!Next
<1>0. TypeOK
  BY DEF IndInv
<1>1. /\ gpc' = [gpc EXCEPT ![g] = "search"] /\ gidx' = [gidx EXCEPT ![g] = asked]
      /\ gpc[g] = "idle" /\ asked < NTraces /\ asked' = asked + 1
      /\ UNCHANGED <<over, leaked, slot>>
  BY DEF Ask, Goto, producerVars, bufferVars
<1>2. asked \in Indices
  BY <1>0, <1>1, SetsType DEF TypeOK, Indices
<1>3. Wants[g] = Empty /\ Reading[g] = Empty
  BY <1>1 DEF Wants, Reading
<1>4. Wants' = [Wants EXCEPT ![g] = asked] /\ Reading' = Reading
  BY <1>0, <1>1 DEF TypeOK, Wants, Reading
<1>5. Abstract!Ask(g)
  BY <1>1, <1>2, <1>3, <1>4, BufferKept DEF Abstract!Ask, Abstract!Indices, Indices
<1>6. QED
  BY <1>5 DEF Abstract!Next

LEMMA MapFind ==
    ASSUME IndInv, NEW g \in Getters, Find(g)
    PROVE  Abstract!Next
<1>0. TypeOK /\ Asked
  BY DEF IndInv
<1>1. /\ gpc[g] \in {"search", "woken"} /\ ~leaked /\ Goto(g, "copy")
      /\ UNCHANGED <<slot, gidx, asked, over, leaked>>
      /\ \E w \in Ways : slot[SetOf(gidx[g])][w] = gidx[g]
  BY DEF Find, producerVars
<1>2. gidx[g] \in Indices /\ SetOf(gidx[g]) \in SetIds /\ gidx[g] # Empty
  BY <1>0, <1>1, GetterIndex, SetsType DEF Indices, Empty
<1>3. Wants[g] = gidx[g] /\ gidx[g] \in Buffered
  BY <1>1, <1>2, BufferedAt DEF Wants
<1>4. Wants' = [Wants EXCEPT ![g] = Empty] /\ Reading' = [Reading EXCEPT ![g] = gidx[g]]
  BY <1>0, <1>1, WantsOf
<1>5. Abstract!Find(g)
  BY <1>1, <1>3, <1>4, BufferKept DEF Abstract!Find
<1>6. QED
  BY <1>5 DEF Abstract!Next

LEMMA MapCopy ==
    ASSUME IndInv, NEW g \in Getters, Copy(g)
    PROVE  Abstract!Next
<1>0. TypeOK /\ ReadersKeepTrace
  BY DEF IndInv
<1>1. /\ gpc[g] = "copy" /\ Goto(g, "idle")
      /\ UNCHANGED <<slot, gidx, asked, over, leaked>>
  BY DEF Copy, producerVars
<1>2. Reading[g] = gidx[g] /\ gidx[g] \in Buffered /\ Wants[g] = Empty
  BY <1>0, <1>1 DEF Reading, Wants, ReadersKeepTrace
<1>3. Reading' = [Reading EXCEPT ![g] = Empty]
  BY <1>0, <1>1, WantsOf
<1>4. Wants' = Wants
  BY <1>0, <1>1 DEF Wants, Goto, TypeOK
<1>5. Abstract!Leave(g)
  BY <1>1, <1>2, <1>3, <1>4, BufferKept DEF Abstract!Leave
<1>6. QED
  BY <1>5 DEF Abstract!Next

\* Who has not found its result fails, with a reason or for want of memory.
LEMMA MapFails ==
    ASSUME IndInv, NEW g \in Getters, FindsNothing(g) \/ RequestFails(g)
    PROVE  Abstract!Next
<1>0. TypeOK /\ Asked /\ WaitsAnswered
  BY DEF IndInv
<1>1. /\ gpc[g] \in {"search", "woken"} /\ ~leaked /\ Goto(g, "failed") /\ Misses(g)
      /\ UNCHANGED <<slot, gidx, asked, over>>
  BY DEF FindsNothing, RequestFails, producerVars, bufferVars
<1>2. gidx[g] # Empty
  BY <1>0, <1>1, GetterIndex, SetsType DEF Indices, Empty
<1>3. Wants[g] = gidx[g] /\ gidx[g] \notin Buffered /\ Reading[g] = Empty
  BY <1>1 DEF Wants, Reading, Misses
<1>4. Wants' = [Wants EXCEPT ![g] = Empty]
  BY <1>0, <1>1, WantsOf
<1>5. Reading' = Reading
  BY <1>0, <1>1 DEF Reading, Goto, TypeOK
<1>6. CASE FindsNothing(g)
  <2>1. Answered(g) /\ leaked' = leaked
    BY <1>0, <1>6 DEF FindsNothing, WaitsAnswered, Ended
  <2>2. Abstract!Miss(g)
    BY <1>1, <1>2, <1>3, <1>4, <1>5, <2>1, BufferKept DEF Abstract!Miss, Answered
  <2>3. QED
    BY <2>2 DEF Abstract!Next
<1>7. CASE RequestFails(g)
  <2>1. "alloc" \in Faults /\ leaked'
    BY <1>7, Zenon DEF RequestFails
  <2>2. leaked' = TRUE
    BY <1>7, Zenon DEF RequestFails
  <2>3. Abstract!Break(g)
    BY <1>1, <1>2, <1>3, <1>4, <1>5, <2>1, <2>2, BufferKept DEF Abstract!Break
  <2>4. QED
    BY <2>3 DEF Abstract!Next
<1>8. QED
  BY <1>6, <1>7

LEMMA MapHidden ==
    ASSUME IndInv,
           \/ \E p \in Producers : Compute(p)
           \/ \E g \in Getters : Request(g) \/ Wake(g) \/ CopyFails(g)
           \/ UNCHANGED vars
    PROVE  UNCHANGED Abstract!vars
<1>0. TypeOK
  BY DEF IndInv
<1>1. ASSUME NEW p \in Producers, Compute(p) PROVE UNCHANGED Abstract!vars
  BY <1>1, GettersStay, Hidden DEF Compute, bufferVars, getterVars
<1>2. ASSUME NEW g \in Getters, Request(g) \/ Wake(g) \/ CopyFails(g)
      PROVE  UNCHANGED Abstract!vars
  <2>1. /\ UNCHANGED <<gidx, asked, over, leaked, slot>>
        /\ \/ gpc[g] \in {"search", "waiting"} /\ (Goto(g, "waiting") \/ Goto(g, "woken"))
           \/ gpc[g] = "copy" /\ Goto(g, "pinned")
    BY <1>2 DEF Request, Wake, CopyFails, producerVars, bufferVars
  <2>2. Wants' = Wants /\ Reading' = Reading
    BY <1>0, <2>1 DEF Goto, Wants, Reading, TypeOK
  <2>3. QED
    BY <2>1, <2>2, Hidden
<1>3. CASE UNCHANGED vars
  BY <1>3, GettersStay, Hidden DEF vars, producerVars, bufferVars, getterVars
<1>4. QED
  BY <1>1, <1>2, <1>3

LEMMA MapInit == Init => Abstract!Init
<1> SUFFICES ASSUME Init PROVE Abstract!Init
  OBVIOUS
<1>1. Buffered = {}
  BY BufferedAt DEF Init
<1>2. Wants = [g \in Getters |-> Empty] /\ Reading = [g \in Getters |-> Empty]
  BY DEF Init, Wants, Reading
<1>3. QED
  BY <1>1, <1>2 DEF Init, Abstract!Init

\* The cache, the list of requests and the reference that is given back without the lock
\* implement a board on which each result is put once, from which nothing goes that is read
\* or has room, and which answers "missed" only for what was there or is overdue
\* (tfm_wait_on.c:64-182, 308-463).
THEOREM Implements == Spec => ImplementsResultBoard
<1>1. IndInv /\ [Next]_vars => [Abstract!Next]_Abstract!vars
  BY StepCases, MapPush, MapLose, MapAsk, MapFind, MapCopy, MapFails, MapHidden
<1>2. QED
  BY <1>1, MapInit, Inductive, PTL DEF Spec, ImplementsResultBoard, Abstract!Spec

=============================================================================
