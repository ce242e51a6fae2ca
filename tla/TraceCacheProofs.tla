-------------------------- MODULE TraceCacheProofs --------------------------
EXTENDS TraceCacheRefinement, SequencesExt, FiniteSetTheorems, SequenceTheorems, TLAPS

\* A remainder lies below the modulus; so do the counters that wrap, up and down.
LEMMA ModInRange == ASSUME NEW a \in Int, NEW n \in Nat \ {0} PROVE a % n \in 0 .. n - 1
BY SMT

\* Counting up, with the wrap.
LEMMA IncInRange == ASSUME NEW a \in Int, NEW n \in Nat \ {0} PROVE (a + 1) % n \in 0 .. n - 1
BY SMT

\* Counting down, with the wrap.
LEMMA DecInRange == ASSUME NEW a \in Int, NEW n \in Nat \ {0} PROVE (a - 1) % n \in 0 .. n - 1
BY SMT

\* Below the modulus nothing wraps.
LEMMA ModSmall == ASSUME NEW n \in Nat \ {0}, NEW a \in 0 .. n - 1 PROVE a % n = a
BY SMT

\* An update two levels deep keeps the type, wherever its arguments are.
LEMMA UpdateWithin ==
    ASSUME NEW D, NEW E, NEW R, NEW f \in [D -> [E -> R]], NEW d, NEW e, NEW v,
           d \in D /\ e \in E => v \in R
    PROVE  [f EXCEPT ![d][e] = v] \in [D -> [E -> R]]
OBVIOUS

\* An index belongs to a set.
LEMMA SetOfType == ASSUME NEW k \in Indices PROVE SetOf(k) \in SetIds
BY ModInRange, SizesAssumption DEF SetOf, SetIds, Indices

\* Ageing keeps the ages in their range.
LEMMA UpdateLruType ==
    ASSUME NEW ages \in [Ways -> Ages], NEW way \in Ways, NEW hit \in BOOLEAN
    PROVE  UpdateLru(ages, way, hit) \in [Ways -> Ages]
<1>1. ASSUME NEW w \in Ways PROVE (ages[w] + 1) % AgeMod \in Ages
  BY <1>1, ModInRange, AgeModAssumption, NWaysAssumption DEF Ages
<1>2. 0 \in Ages
  BY AgeModAssumption, NWaysAssumption DEF Ages
<1>3. QED
  BY <1>1, <1>2 DEF UpdateLru

\* So do the ages of a new set.
LEMMA FreshAgesType == FreshAges \in [Ways -> Ages]
BY AgeModAssumption, NWaysAssumption DEF FreshAges, Ways, Ages

\* The initial values have their types.
LEMMA TypeInit == Init => TypeOK
<1>1. 0 \in Ages /\ 0 \in Indices /\ 0 \in 0 .. MaxGets /\ 0 \in 0 .. RefMod - 1
  BY AgeModAssumption, NWaysAssumption, SizesAssumption, RefModAssumption, FS_CardinalityType
     DEF Ages, Indices
<1>2. QED
  BY <1>1 DEF Init, TypeOK, FREE

\* Every step keeps the types of the cache and of its users.
THEOREM TypeStep == TypeOK /\ [Next]_vars => TypeOK'
<1>. SUFFICES ASSUME TypeOK, [Next]_vars PROVE TypeOK'
  OBVIOUS
<1>m. RefMod \in Nat \ {0}
  BY RefModAssumption, FS_CardinalityType
<1>. USE DEF clientVars, setVars, Goto, MySet
<1>1. ASSUME NEW c \in Clients, Get(c) PROVE TypeOK'
  BY <1>1, SizesAssumption DEF TypeOK, Get
<1>2. ASSUME NEW c \in Clients, LookupEnter(c) PROVE TypeOK'
  BY <1>2 DEF TypeOK, LookupEnter
<1>3. ASSUME NEW c \in Clients, LookupLeave(c) PROVE TypeOK'
  BY <1>3 DEF TypeOK, LookupLeave
<1>4. ASSUME NEW c \in Clients, LookupInit(c) PROVE TypeOK'
  BY <1>4, SetOfType, FreshAgesType DEF TypeOK, LookupInit
<1>5. ASSUME NEW c \in Clients, LookupInitFails(c) PROVE TypeOK'
  BY <1>5 DEF TypeOK, LookupInitFails
<1>6. ASSUME NEW c \in Clients, LookupNested(c) PROVE TypeOK'
  BY <1>6 DEF TypeOK, LookupNested
<1>7. ASSUME NEW c \in Clients, ScanHit(c) PROVE TypeOK'
  <2>. DEFINE s == SetOf(idx[c])
  <2>1. s \in SetIds
    BY SetOfType DEF TypeOK
  <2>2. PICK w \in Ways :
            /\ traces[s][w] # NULL
            /\ lru' = [lru EXCEPT ![s] = UpdateLru(@, w, TRUE)]
            /\ refcount' = [refcount EXCEPT ![s][w] = (@ + 1) % RefMod]
            /\ ptr' = [ptr EXCEPT ![c] = traces[s][w]]
    BY <1>7 DEF ScanHit, Hit, WaysWith, Occupied
  <2>3. UpdateLru(lru[s], w, TRUE) \in [Ways -> Ages]
    BY <2>1, UpdateLruType DEF TypeOK
  <2>4. lru' \in [SetIds -> [Ways -> Ages]]
    BY <2>1, <2>2, <2>3 DEF TypeOK
  <2>5. refcount[s][w] \in Int
    BY <2>1 DEF TypeOK
  <2>6. (refcount[s][w] + 1) % RefMod \in 0 .. RefMod - 1
    BY <2>5, <1>m, IncInRange
  <2>7. refcount' \in [SetIds -> [Ways -> 0 .. RefMod - 1]]
    BY <2>2, <2>6, UpdateWithin DEF TypeOK
  <2>8. ptr' \in [Clients -> Addrs \union {NULL}]
    BY <2>1, <2>2 DEF TypeOK
  <2>9. QED
    BY <1>7, <2>4, <2>7, <2>8 DEF TypeOK, ScanHit
<1>8. ASSUME NEW c \in Clients, ScanMiss(c) PROVE TypeOK'
  BY <1>8 DEF TypeOK, ScanMiss, LockAfterMiss
<1>9. ASSUME NEW c \in Clients, Alloc(c) PROVE TypeOK'
  BY <1>9 DEF TypeOK, Alloc
<1>10. ASSUME NEW c \in Clients, AllocFails(c) PROVE TypeOK'
  BY <1>10 DEF TypeOK, AllocFails
<1>11. ASSUME NEW c \in Clients, Fill(c) PROVE TypeOK'
  BY <1>11 DEF TypeOK, Fill
<1>12. ASSUME NEW c \in Clients, FillFails(c) PROVE TypeOK'
  BY <1>12 DEF TypeOK, FillFails, Drop
<1>13. ASSUME NEW c \in Clients, StoreEnter(c) PROVE TypeOK'
  BY <1>13 DEF TypeOK, StoreEnter
<1>14. ASSUME NEW c \in Clients, StoreLeave(c) PROVE TypeOK'
  BY <1>14 DEF TypeOK, StoreLeave
<1>15. ASSUME NEW c \in Clients, Place(c) PROVE TypeOK'
  <2>. DEFINE s == SetOf(idx[c])
  <2>1. s \in SetIds
    BY SetOfType DEF TypeOK
  <2>2. PICK w \in Ways :
            /\ heap' = [a \in Addrs |-> IF a = traces[s][w] THEN FREE ELSE heap[a]]
            /\ traces' = [traces EXCEPT ![s][w] = ptr[c]]
            /\ refcount' = [refcount EXCEPT ![s][w] = 1]
            /\ lru' = [lru EXCEPT ![s] = UpdateLru(@, w, FALSE)]
    BY <1>15 DEF Place, Highest, Candidates
  <2>3. 1 \in 0 .. RefMod - 1
    <3>1. Cardinality(Clients) # 0
      BY RefModAssumption, FS_EmptySet
    <3>2. QED
      BY <3>1, RefModAssumption, FS_CardinalityType
  <2>4. UpdateLru(lru[s], w, FALSE) \in [Ways -> Ages]
    BY <2>1, UpdateLruType DEF TypeOK
  <2>5. heap' \in [Addrs -> Indices \union {FREE}]
    BY <2>2 DEF TypeOK
  <2>6. traces' \in [SetIds -> [Ways -> Addrs \union {NULL}]]
    BY <2>1, <2>2 DEF TypeOK
  <2>7. refcount' \in [SetIds -> [Ways -> 0 .. RefMod - 1]]
    BY <2>1, <2>2, <2>3 DEF TypeOK
  <2>8. lru' \in [SetIds -> [Ways -> Ages]]
    BY <2>1, <2>2, <2>4 DEF TypeOK
  <2>9. QED
    BY <1>15, <2>5, <2>6, <2>7, <2>8 DEF TypeOK, Place, MayPlace, Unlock
<1>16. ASSUME NEW c \in Clients, PlaceFails(c) PROVE TypeOK'
  BY <1>16 DEF TypeOK, PlaceFails, MayPlace, Unlock, Drop
<1>17. ASSUME NEW c \in Clients, Deref(c) PROVE TypeOK'
  <2>. DEFINE s == SetOf(idx[c])
              found == WaysWith(s, heap[ptr[c]])
              first == CHOOSE w \in found : \A v \in found : w <= v
  <2>1. \/ refcount' = refcount
        \/ refcount' = [refcount EXCEPT ![s][first] = (@ - 1) % RefMod]
    BY <1>17 DEF Deref
  <2>2. heap' = heap \/ heap' = [heap EXCEPT ![ptr[c]] = FREE]
    BY <1>17 DEF Deref
  <2>3. s \in SetIds /\ first \in Ways => (refcount[s][first] - 1) % RefMod \in 0 .. RefMod - 1
    <3>. HAVE s \in SetIds /\ first \in Ways
    <3>. HIDE DEF s, first
    <3>1. refcount[s][first] \in Int
      BY DEF TypeOK
    <3>2. QED
      BY <3>1, <1>m, DecInRange
  <2>4. refcount' \in [SetIds -> [Ways -> 0 .. RefMod - 1]]
    <3>. DEFINE v == (refcount[s][first] - 1) % RefMod
    <3>1. refcount' = refcount \/ refcount' = [refcount EXCEPT ![s][first] = v]
      BY <2>1
    <3>2. s \in SetIds /\ first \in Ways => v \in 0 .. RefMod - 1
      BY <2>3
    <3>3. refcount \in [SetIds -> [Ways -> 0 .. RefMod - 1]]
      BY DEF TypeOK
    <3>. HIDE DEF s, first, v
    <3>4. [refcount EXCEPT ![s][first] = v] \in [SetIds -> [Ways -> 0 .. RefMod - 1]]
      BY <3>2, <3>3
    <3>5. QED
      BY <3>1, <3>3, <3>4
  <2>5. heap' \in [Addrs -> Indices \union {FREE}]
    BY <2>2 DEF TypeOK
  <2>6. QED
    BY <1>17, <2>4, <2>5 DEF TypeOK, Deref
<1>18. CASE CloseBegin
  BY <1>18, SizesAssumption DEF TypeOK, CloseBegin
<1>19. CASE CloseSet
  BY <1>19, SizesAssumption DEF TypeOK, CloseSet, SetIds, FREE, NotClosing
<1>20. CASE UNCHANGED vars
  BY <1>20 DEF TypeOK, vars
<1>21. QED
  BY <1>1, <1>2, <1>3, <1>4, <1>5, <1>6, <1>7, <1>8, <1>9, <1>10, <1>11, <1>12, <1>13,
     <1>14, <1>15, <1>16, <1>17, <1>18, <1>19, <1>20
     DEF Next, GetStep, Close, Terminated

\* Nothing is cached, held or locked in the beginning.
LEMMA InitInd == Init => IndInv
<1>. SUFFICES ASSUME Init PROVE IndInv
  OBVIOUS
<1>1. TypeOK
  BY TypeInit
<1>2. LocksHeld /\ NoDangling /\ SlotsDistinct /\ PlaceOfTraces /\ MissStands /\ Initialising
  BY DEF Init, LocksHeld, HasSetLock, HasCacheLock, Filling, NoDangling, Occupied, SlotsDistinct,
         PlaceOfTraces, MissStands, Initialising, InSet
<1>3. RefcountExact /\ OneTracePerIndex
  BY DEF Init, RefcountExact, OneTracePerIndex, Occupied
<1>4. NoLeak
  BY SizesAssumption DEF Init, NoLeak, Closed, NotClosing
<1>5. Closing
  BY DEF Init, Closing
<1>6. QED
  BY <1>1, <1>2, <1>3, <1>4, <1>5 DEF IndInv

-----------------------------------------------------------------------------
(* Steps that leave memory, slots and reference counts alone *)

Settled(c) == pc[c] = "holding" \/ Filling(c)

\* What a step that leaves the sets and the traces alone has to keep: only the locks and the places of the threads.
LEMMA QuietStep ==
    ASSUME IndInv, UNCHANGED <<ptr, heap, traces, refcount, closeAt>>,
           \A c \in Clients :
               /\ Filling(c)' = Filling(c)
               /\ (pc[c] = "holding")' = (pc[c] = "holding")
               /\ Settled(c) => idx'[c] = idx[c]
    PROVE  NoDangling' /\ SlotsDistinct' /\ PlaceOfTraces' /\ RefcountExact'
           /\ OneTracePerIndex' /\ NoLeak'
<1>. USE DEF IndInv, Settled
<1>1. NoDangling'
  BY DEF NoDangling, Occupied
<1>2. SlotsDistinct'
  BY DEF SlotsDistinct, Occupied
<1>3. PlaceOfTraces'
  BY DEF PlaceOfTraces, Cached, MySet
<1>4. RefcountExact'
  <2>1. \A a : Holders(a)' = Holders(a)
    BY DEF Holders
  <2>2. QED
    BY <2>1 DEF RefcountExact, Occupied
<1>5. OneTracePerIndex'
  BY DEF OneTracePerIndex
<1>6. NoLeak'
  BY DEF NoLeak, Cached, Closed
<1>7. QED
  BY <1>1, <1>2, <1>3, <1>4, <1>5, <1>6

\* A thread asks for a trace.
LEMMA GetInd == ASSUME Cohesive, IndInv, NEW c \in Clients, Get(c) PROVE IndInv'
<1>. USE DEF IndInv, Get, Goto, setVars
<1>1. TypeOK'
  BY TypeStep DEF Next, GetStep
<1>2. LocksHeld'
  BY NamesAssumption DEF TypeOK, LocksHeld, HasSetLock, HasCacheLock, Filling, MySet
<1>3. MissStands'
  BY DEF TypeOK, MissStands
<1>4. Initialising'
  BY NamesAssumption DEF TypeOK, Initialising, LocksHeld, InSet, HasSetLock, HasCacheLock,
     Filling, Occupied, MySet
<1>5. Closing'
  BY DEF TypeOK, Closing, Occupied
<1>6. QED
  BY <1>1, <1>2, <1>3, <1>4, <1>5, QuietStep DEF TypeOK, Filling, Settled

\* A lookup takes the cache lock to see that the set is initialised,
LEMMA LookupEnterInd == ASSUME Cohesive, IndInv, NEW c \in Clients, LookupEnter(c) PROVE IndInv'
<1>. USE DEF IndInv, LookupEnter, Goto, setVars
<1>1. TypeOK'
  BY TypeStep DEF Next, GetStep
<1>2. LocksHeld'
  BY NamesAssumption DEF TypeOK, LocksHeld, HasSetLock, HasCacheLock, Filling, MySet
<1>3. MissStands'
  BY DEF TypeOK, MissStands
<1>4. Initialising'
  BY NamesAssumption DEF TypeOK, Initialising, LocksHeld, InSet, HasSetLock, HasCacheLock,
     Filling, Occupied, MySet
<1>5. Closing'
  BY DEF TypeOK, Closing, Occupied
<1>6. QED
  BY <1>1, <1>2, <1>3, <1>4, <1>5, QuietStep DEF TypeOK, Filling, Settled

\* and gives it back before it waits for the lock of the set.
LEMMA LookupLeaveInd == ASSUME Cohesive, IndInv, NEW c \in Clients, LookupLeave(c) PROVE IndInv'
<1>. USE DEF IndInv, LookupLeave, Goto, setVars
<1>1. TypeOK'
  BY TypeStep DEF Next, GetStep
<1>2. LocksHeld'
  BY NamesAssumption DEF TypeOK, LocksHeld, HasSetLock, HasCacheLock, Filling, MySet
<1>3. MissStands'
  BY DEF TypeOK, MissStands
<1>4. Initialising'
  BY NamesAssumption DEF TypeOK, Initialising, LocksHeld, InSet, HasSetLock, HasCacheLock,
     Filling, Occupied, MySet
<1>5. Closing'
  BY DEF TypeOK, Closing, Occupied
<1>6. QED
  BY <1>1, <1>2, <1>3, <1>4, <1>5, QuietStep DEF TypeOK, Filling, Settled

\* The first lookup initialises a set,
LEMMA LookupInitInd == ASSUME Cohesive, IndInv, NEW c \in Clients, LookupInit(c) PROVE IndInv'
<1>. USE DEF IndInv, LookupInit, Goto, setVars
<1>1. TypeOK'
  BY TypeStep DEF Next, GetStep
<1>2. LocksHeld'
  BY NamesAssumption DEF TypeOK, LocksHeld, HasSetLock, HasCacheLock, Filling, MySet
<1>3. MissStands'
  BY DEF TypeOK, MissStands
<1>4. Initialising'
  <2>1. ASSUME NEW d \in Clients \ {c}, InSet(d) PROVE MySet(d) # MySet(c)
    BY <2>1 DEF Initialising
  <2>2. \A d \in Clients \ {c} : pc[d] # "lookup_nested"
    BY NamesAssumption DEF LocksHeld, HasCacheLock
  <2>3. Occupied(MySet(c)) = {}
    BY SetOfType DEF Initialising, TypeOK, MySet
  <2>4. \A d \in Clients \ {c} : InSet(d)' = InSet(d)
    BY DEF TypeOK, InSet, HasSetLock, Filling
  <2>5. \A s \in SetIds : Occupied(s)' = Occupied(s)
    BY DEF Occupied
  <2>6. QED
    BY <2>1, <2>2, <2>3, <2>4, <2>5, SetOfType DEF Initialising, TypeOK, MySet
<1>5. Closing'
  BY DEF TypeOK, Closing, Occupied
<1>6. QED
  BY <1>1, <1>2, <1>3, <1>4, <1>5, QuietStep DEF TypeOK, Filling, Settled

\* or cannot be.
LEMMA LookupInitFailsInd == ASSUME Cohesive, IndInv, NEW c \in Clients, LookupInitFails(c) PROVE IndInv'
<1>. USE DEF IndInv, LookupInitFails, Goto, setVars
<1>1. TypeOK'
  BY TypeStep DEF Next, GetStep
<1>2. LocksHeld'
  BY NamesAssumption DEF TypeOK, LocksHeld, HasSetLock, HasCacheLock, Filling, MySet
<1>3. MissStands'
  BY DEF TypeOK, MissStands
<1>4. Initialising'
  BY NamesAssumption DEF TypeOK, Initialising, LocksHeld, InSet, HasSetLock, HasCacheLock,
     Filling, Occupied, MySet
<1>5. Closing'
  BY DEF TypeOK, Closing, Occupied
<1>6. QED
  BY <1>1, <1>2, <1>3, <1>4, <1>5, QuietStep DEF TypeOK, Filling, Settled

\* A set that was just initialised is locked inside the cache lock.
LEMMA LookupNestedInd == ASSUME Cohesive, IndInv, NEW c \in Clients, LookupNested(c) PROVE IndInv'
<1>. USE DEF IndInv, LookupNested, Goto, setVars
<1>1. TypeOK'
  BY TypeStep DEF Next, GetStep
<1>2. LocksHeld'
  BY SetOfType, NamesAssumption DEF TypeOK, LocksHeld, HasSetLock, HasCacheLock, Filling, MySet
<1>3. MissStands'
  <2>1. ASSUME NEW a \in Addrs, heap[a] = idx[c] PROVE FALSE
    <3>1. heap[a] # FREE
      BY <2>1 DEF TypeOK, FREE, Indices
    <3>2. CASE Cached(a)
      <4>1. PICK t \in SetIds, w \in Ways : traces[t][w] = a
        BY <3>2 DEF Cached
      <4>2. t = MySet(c)
        BY <2>1, <4>1, NamesAssumption DEF NoDangling, Occupied, MySet
      <4>3. QED
        BY <2>1, <4>1, <4>2, NamesAssumption DEF Initialising, Occupied
    <3>3. CASE \E d \in Clients : Filling(d) /\ ptr[d] = a
      <4>1. PICK d \in Clients : Filling(d) /\ ptr[d] = a
        BY <3>3
      <4>2. idx[d] = idx[c]
        BY <2>1, <4>1 DEF NoDangling
      <4>3. QED
        BY <4>1, <4>2, NamesAssumption DEF Initialising, InSet, HasSetLock, Filling, MySet
    <3>4. QED
      BY <3>1, <3>2, <3>3 DEF NoLeak
  <2>2. QED
    BY <2>1 DEF TypeOK, MissStands
<1>4. Initialising'
  BY NamesAssumption DEF TypeOK, Initialising, LocksHeld, InSet, HasSetLock, HasCacheLock,
     Filling, Occupied, MySet
<1>5. Closing'
  BY DEF TypeOK, Closing, Occupied
<1>6. QED
  BY <1>1, <1>2, <1>3, <1>4, <1>5, QuietStep DEF TypeOK, Filling, Settled

\* A miss keeps the lock of the set.
LEMMA ScanMissInd == ASSUME Cohesive, IndInv, NEW c \in Clients, ScanMiss(c) PROVE IndInv'
<1>. USE DEF IndInv, ScanMiss, LockAfterMiss, Goto, setVars
<1>1. TypeOK'
  BY TypeStep DEF Next, GetStep
<1>2. LocksHeld'
  BY SetOfType, NamesAssumption DEF TypeOK, LocksHeld, HasSetLock, HasCacheLock, Filling, MySet
<1>3. MissStands'
  <2>1. ASSUME NEW a \in Addrs, heap[a] = idx[c] PROVE FALSE
    <3>1. heap[a] # FREE
      BY <2>1 DEF TypeOK, FREE, Indices
    <3>2. CASE Cached(a)
      <4>1. PICK t \in SetIds, w \in Ways : traces[t][w] = a
        BY <3>2 DEF Cached
      <4>2. t = MySet(c)
        BY <2>1, <4>1, NamesAssumption DEF NoDangling, Occupied, MySet
      <4>3. QED
        BY <2>1, <4>1, <4>2, NamesAssumption DEF WaysWith, Occupied
    <3>3. CASE \E d \in Clients : Filling(d) /\ ptr[d] = a
      <4>1. PICK d \in Clients : Filling(d) /\ ptr[d] = a
        BY <3>3
      <4>2. idx[d] = idx[c]
        BY <2>1, <4>1 DEF NoDangling
      <4>3. QED
        BY <4>1, <4>2, NamesAssumption DEF LocksHeld, HasSetLock, MySet
    <3>4. QED
      BY <3>1, <3>2, <3>3 DEF NoLeak
  <2>2. QED
    BY <2>1 DEF TypeOK, MissStands
<1>4. Initialising'
  BY NamesAssumption DEF TypeOK, Initialising, LocksHeld, InSet, HasSetLock, HasCacheLock,
     Filling, Occupied, MySet
<1>5. Closing'
  BY DEF TypeOK, Closing, Occupied
<1>6. QED
  BY <1>1, <1>2, <1>3, <1>4, <1>5, QuietStep DEF TypeOK, Filling, Settled

\* A trace that cannot be allocated leaves nothing behind.
LEMMA AllocFailsInd == ASSUME Cohesive, IndInv, NEW c \in Clients, AllocFails(c) PROVE IndInv'
<1>. USE DEF IndInv, AllocFails, Goto, setVars
<1>1. TypeOK'
  BY TypeStep DEF Next, GetStep
<1>2. LocksHeld'
  BY NamesAssumption DEF TypeOK, LocksHeld, HasSetLock, HasCacheLock, Filling, MySet
<1>3. MissStands'
  BY DEF TypeOK, MissStands
<1>4. Initialising'
  BY NamesAssumption DEF TypeOK, Initialising, LocksHeld, InSet, HasSetLock, HasCacheLock,
     Filling, Occupied, MySet
<1>5. Closing'
  BY DEF TypeOK, Closing, Occupied
<1>6. QED
  BY <1>1, <1>2, <1>3, <1>4, <1>5, QuietStep DEF TypeOK, Filling, Settled

\* The transformation fills the trace.
LEMMA FillInd == ASSUME Cohesive, IndInv, NEW c \in Clients, Fill(c) PROVE IndInv'
<1>. USE DEF IndInv, Fill, Goto, setVars
<1>1. TypeOK'
  BY TypeStep DEF Next, GetStep
<1>2. LocksHeld'
  BY NamesAssumption DEF TypeOK, LocksHeld, HasSetLock, HasCacheLock, Filling, MySet
<1>3. MissStands'
  BY DEF TypeOK, MissStands
<1>4. Initialising'
  BY NamesAssumption DEF TypeOK, Initialising, LocksHeld, InSet, HasSetLock, HasCacheLock,
     Filling, Occupied, MySet
<1>5. Closing'
  BY DEF TypeOK, Closing, Occupied
<1>6. QED
  BY <1>1, <1>2, <1>3, <1>4, <1>5, QuietStep DEF TypeOK, Filling, Settled

\* A store takes the cache lock
LEMMA StoreEnterInd == ASSUME Cohesive, IndInv, NEW c \in Clients, StoreEnter(c) PROVE IndInv'
<1>. USE DEF IndInv, StoreEnter, Goto, setVars
<1>1. TypeOK'
  BY TypeStep DEF Next, GetStep
<1>2. LocksHeld'
  BY NamesAssumption DEF TypeOK, LocksHeld, HasSetLock, HasCacheLock, Filling, MySet
<1>3. MissStands'
  BY DEF TypeOK, MissStands
<1>4. Initialising'
  BY NamesAssumption DEF TypeOK, Initialising, LocksHeld, InSet, HasSetLock, HasCacheLock,
     Filling, Occupied, MySet
<1>5. Closing'
  BY DEF TypeOK, Closing, Occupied
<1>6. QED
  BY <1>1, <1>2, <1>3, <1>4, <1>5, QuietStep DEF TypeOK, Filling, Settled

\* and gives it back; the lock of the set is still its own.
LEMMA StoreLeaveInd == ASSUME Cohesive, IndInv, NEW c \in Clients, StoreLeave(c) PROVE IndInv'
<1>. USE DEF IndInv, StoreLeave, Goto, setVars
<1>1. TypeOK'
  BY TypeStep DEF Next, GetStep
<1>2. LocksHeld'
  BY NamesAssumption DEF TypeOK, LocksHeld, HasSetLock, HasCacheLock, Filling, MySet
<1>3. MissStands'
  BY DEF TypeOK, MissStands
<1>4. Initialising'
  BY NamesAssumption DEF TypeOK, Initialising, LocksHeld, InSet, HasSetLock, HasCacheLock,
     Filling, Occupied, MySet
<1>5. Closing'
  BY DEF TypeOK, Closing, Occupied
<1>6. QED
  BY <1>1, <1>2, <1>3, <1>4, <1>5, QuietStep DEF TypeOK, Filling, Settled

-----------------------------------------------------------------------------
(* Steps that change memory, slots or reference counts *)

\* A trace is in one way of one set.
LEMMA SlotUnique ==
    ASSUME IndInv, NEW s \in SetIds, NEW t \in SetIds, NEW v \in Ways, NEW w \in Ways,
           traces[s][v] = traces[t][w], traces[s][v] # NULL
    PROVE  s = t /\ v = w
<1>1. s = t
  BY DEF IndInv, NoDangling, Occupied
<1>2. QED
  BY <1>1 DEF IndInv, SlotsDistinct, Occupied

\* The holders of a trace are finitely many, as the threads are.
LEMMA HoldersFinite ==
    ASSUME NEW a
    PROVE  /\ IsFiniteSet(Holders(a))
           /\ Cardinality(Holders(a)) \in Nat
           /\ Cardinality(Holders(a)) < RefMod
<1>1. Holders(a) \in SUBSET Clients
  BY DEF Holders
<1>2. QED
  BY <1>1, RefModAssumption, FS_Subset, FS_CardinalityType

\* A hit counts one more holder.
LEMMA ScanHitInd == ASSUME Cohesive, IndInv, NEW c \in Clients, ScanHit(c) PROVE IndInv'
<1>. USE DEF IndInv, Goto, setVars
<1>1. PICK s \in SetIds : s = MySet(c)
  BY SetOfType DEF TypeOK, MySet
<1>2. PICK w \in Ways :
          /\ traces[s][w] # NULL
          /\ heap[traces[s][w]] = idx[c]
          /\ refcount' = [refcount EXCEPT ![s][w] = (@ + 1) % RefMod]
          /\ ptr' = [ptr EXCEPT ![c] = traces[s][w]]
  BY <1>1 DEF ScanHit, Hit, WaysWith, Occupied
<1>3. /\ pc[c] = "scan"
      /\ pc' = [pc EXCEPT ![c] = "holding"]
      /\ UNCHANGED <<idx, cacheLock, setLock, initialized, traces, heap, closeAt>>
  BY DEF ScanHit
<1>4. traces[s][w] \in Addrs
  BY <1>1, <1>2 DEF TypeOK
<1>5. TypeOK'
  BY TypeStep DEF Next, GetStep
<1>6. LocksHeld'
  BY <1>3 DEF TypeOK, LocksHeld, HasSetLock, HasCacheLock, Filling, MySet
<1>7. NoDangling'
  BY <1>1, <1>2, <1>3 DEF TypeOK, NoDangling, Filling, Occupied
<1>8. SlotsDistinct'
  BY <1>3 DEF SlotsDistinct, Occupied
<1>9. PlaceOfTraces'
  BY <1>1, <1>2, <1>3, <1>4 DEF TypeOK, PlaceOfTraces, Filling, Cached, MySet
<1>10. MissStands'
  BY <1>3 DEF TypeOK, MissStands
<1>11. Initialising'
  BY <1>3 DEF TypeOK, Initialising, InSet, HasSetLock, Filling, Occupied, MySet
<1>12. RefcountExact'
  <2>. DEFINE After(a) == {d \in Clients : pc'[d] = "holding" /\ ptr'[d] = a}
  <2>1. c \notin Holders(traces[s][w])
    BY <1>3 DEF Holders
  <2>2. After(traces[s][w]) = Holders(traces[s][w]) \union {c}
    BY <1>2, <1>3 DEF TypeOK, Holders
  <2>3. \A a : a # traces[s][w] => After(a) = Holders(a)
    BY <1>2, <1>3 DEF TypeOK, Holders
  <2>4. Cardinality(After(traces[s][w])) = Cardinality(Holders(traces[s][w])) + 1
    BY <2>1, <2>2, HoldersFinite, FS_AddElement
  <2>5. Cardinality(After(traces[s][w])) < RefMod
    <3>1. After(traces[s][w]) \in SUBSET Clients
      OBVIOUS
    <3>2. QED
      BY <3>1, RefModAssumption, FS_Subset, FS_CardinalityType
  <2>6. refcount[s][w] = Cardinality(Holders(traces[s][w]))
    BY <1>1, <1>2 DEF RefcountExact, Occupied
  <2>7. refcount'[s][w] = Cardinality(After(traces[s][w]))
    <3>1. refcount'[s][w] = (refcount[s][w] + 1) % RefMod
      BY <1>1, <1>2 DEF TypeOK
    <3>2. refcount[s][w] + 1 \in 0 .. RefMod - 1
      BY <2>4, <2>5, <2>6, HoldersFinite, RefModAssumption
    <3>3. RefMod \in Nat \ {0}
      BY RefModAssumption, FS_CardinalityType
    <3>4. QED
      BY <2>4, <2>6, <3>1, <3>2, <3>3, ModSmall
  <2>8. ASSUME NEW t \in SetIds, NEW v \in Ways, traces[t][v] # NULL
        PROVE  refcount'[t][v] = Cardinality(After(traces[t][v]))
    <3>1. CASE t = s /\ v = w
      BY <2>7, <3>1
    <3>2. CASE ~(t = s /\ v = w)
      <4>1. traces[t][v] # traces[s][w]
        BY <1>1, <2>8, <3>2, SlotUnique
      <4>2. refcount'[t][v] = refcount[t][v]
        BY <1>1, <1>2, <3>2 DEF TypeOK
      <4>3. QED
        <5>1. After(traces[t][v]) = Holders(traces[t][v])
          BY <2>3, <4>1
        <5>2. refcount[t][v] = Cardinality(Holders(traces[t][v]))
          BY <2>8 DEF RefcountExact, Occupied
        <5>. HIDE DEF After
        <5>3. QED
          BY <4>2, <5>1, <5>2, Zenon
    <3>3. QED
      BY <3>1, <3>2
  <2>. HIDE DEF After
  <2>9. QED
    BY <1>3, <2>8 DEF RefcountExact, Occupied, Holders, After
<1>13. OneTracePerIndex'
  BY <1>3 DEF OneTracePerIndex
<1>14. NoLeak'
  <2>1. \A a : Cached(a) => Cached(a)'
    BY <1>3 DEF Cached
  <2>2. \A d \in Clients : Filling(d) => Filling(d)' /\ ptr'[d] = ptr[d]
    BY <1>2, <1>3 DEF TypeOK, Filling
  <2>3. QED
    BY <1>3, <2>1, <2>2 DEF NoLeak, Closed
<1>15. Closing'
  BY <1>3 DEF TypeOK, Closing
<1>16. QED
  BY <1>5, <1>6, <1>7, <1>8, <1>9, <1>10, <1>11, <1>12, <1>13, <1>14, <1>15

\* A new trace is held by the thread that made it.
LEMMA AllocInd == ASSUME Cohesive, IndInv, NEW c \in Clients, Alloc(c) PROVE IndInv'
<1>. USE DEF IndInv, Goto, setVars
<1>1. PICK a \in Addrs :
          /\ heap[a] = FREE
          /\ heap' = [heap EXCEPT ![a] = idx[c]]
          /\ ptr' = [ptr EXCEPT ![c] = a]
  BY DEF Alloc
<1>2. /\ pc[c] = "calloc"
      /\ pc' = [pc EXCEPT ![c] = "fill"]
      /\ UNCHANGED <<idx, gets, cacheLock, setLock, initialized, traces, refcount, lru, closeAt>>
  BY DEF Alloc
<1>3. \A k \in Indices : k # FREE
  BY DEF Indices, FREE
<1>4. /\ ~Cached(a)
      /\ \A d \in Clients : Settled(d) => ptr[d] # a
  <2>1. ~Cached(a)
    <3>1. ASSUME NEW s \in SetIds, NEW w \in Ways PROVE traces[s][w] # a
      BY <1>1, <1>3, <3>1, NamesAssumption, SMTT(20) DEF TypeOK, NoDangling, Occupied
    <3>2. QED
      BY <3>1 DEF Cached
  <2>2. ASSUME NEW d \in Clients, Settled(d) PROVE ptr[d] # a
    BY <1>1, <1>3, <2>2, NamesAssumption DEF TypeOK, NoDangling, Settled
  <2>3. QED
    BY <2>1, <2>2
<1>5. TypeOK'
  BY TypeStep DEF Next, GetStep
<1>6. LocksHeld'
  BY <1>2 DEF TypeOK, LocksHeld, HasSetLock, HasCacheLock, Filling, MySet
<1>7. NoDangling'
  <2>1. \A d \in Clients : Settled(d)' => heap'[ptr'[d]] = idx'[d]
    BY <1>1, <1>2, <1>4 DEF TypeOK, NoDangling, Filling, Settled
  <2>2. \A s \in SetIds : \A w \in Occupied(s)' : heap'[traces'[s][w]] = heap[traces[s][w]]
    BY <1>1, <1>2, <1>4 DEF TypeOK, Cached, Occupied
  <2>3. QED
    BY <1>2, <2>1, <2>2 DEF NoDangling, Occupied, Settled
<1>8. SlotsDistinct'
  BY <1>2 DEF SlotsDistinct, Occupied
<1>9. PlaceOfTraces'
  BY <1>1, <1>2, <1>4 DEF TypeOK, PlaceOfTraces, Filling, Cached, MySet
<1>10. MissStands'
  <2>1. \A d \in Clients \ {c} : pc[d] = "calloc" => idx[d] # idx[c]
    BY <1>2, NamesAssumption DEF LocksHeld, HasSetLock, MySet
  <2>2. QED
    BY <1>1, <1>2, <2>1 DEF TypeOK, MissStands
<1>11. Initialising'
  BY <1>2 DEF TypeOK, Initialising, InSet, HasSetLock, Filling, Occupied, MySet
<1>12. RefcountExact'
  <2>1. \A x : Holders(x)' = Holders(x)
    BY <1>1, <1>2 DEF TypeOK, Holders
  <2>2. QED
    BY <1>2, <2>1 DEF RefcountExact, Occupied
<1>13. OneTracePerIndex'
  BY <1>1, <1>2 DEF TypeOK, OneTracePerIndex, MissStands
<1>14. NoLeak'
  BY <1>1, <1>2, <1>4, SizesAssumption
     DEF TypeOK, NoLeak, Cached, Filling, Closed, Closing, NotClosing, Settled
<1>15. Closing'
  BY <1>2 DEF TypeOK, Closing, Occupied
<1>16. QED
  BY <1>5, <1>6, <1>7, <1>8, <1>9, <1>10, <1>11, <1>12, <1>13, <1>14, <1>15

\* The trace a client is filling belongs to this client alone.
LEMMA PrivateTrace ==
    ASSUME IndInv, NEW c \in Clients, Filling(c)
    PROVE  /\ ptr[c] \in Addrs
           /\ ~Cached(ptr[c])
           /\ \A d \in Clients \ {c} : Settled(d) => ptr[d] # ptr[c]
<1>. USE DEF IndInv
<1>1. ptr[c] \in Addrs /\ ~Cached(ptr[c])
  BY DEF PlaceOfTraces
<1>2. ASSUME NEW d \in Clients \ {c}, pc[d] = "holding" PROVE ptr[d] # ptr[c]
  BY <1>1, <1>2, SetOfType DEF PlaceOfTraces, Cached, TypeOK, MySet
<1>3. ASSUME NEW d \in Clients \ {c}, Filling(d), ptr[d] = ptr[c] PROVE FALSE
  <2>1. idx[d] = idx[c]
    BY <1>3 DEF NoDangling
  <2>2. QED
    BY <1>3, <2>1 DEF LocksHeld, HasSetLock, MySet
<1>4. QED
  BY <1>1, <1>2, <1>3 DEF Settled

\* A trace that nobody sees is freed.
LEMMA DropInd ==
    ASSUME Cohesive, IndInv, NEW c \in Clients, FillFails(c) \/ PlaceFails(c)
    PROVE  IndInv'
<1>. USE DEF IndInv, Goto, setVars
<1>1. /\ Filling(c)
      /\ heap' = [heap EXCEPT ![ptr[c]] = FREE]
      /\ ptr' = [ptr EXCEPT ![c] = NULL]
      /\ pc' = [pc EXCEPT ![c] = "idle"]
      /\ setLock' = setLock \/ setLock' = [setLock EXCEPT ![MySet(c)] = NULL]
      /\ UNCHANGED <<idx, gets, cacheLock, initialized, traces, refcount, lru, closeAt>>
  BY DEF FillFails, PlaceFails, MayPlace, Unlock, Drop, Filling
<1>2. PICK a \in Addrs : a = ptr[c]
  BY <1>1, PrivateTrace
<1>3. ~Cached(a) /\ \A d \in Clients \ {c} : Settled(d) => ptr[d] # a
  BY <1>1, <1>2, PrivateTrace
<1>4. TypeOK'
  BY TypeStep DEF Next, GetStep
<1>5. LocksHeld'
  <2>1. \A d \in Clients \ {c} : HasSetLock(d) => MySet(d) # MySet(c)
    BY <1>1 DEF LocksHeld, HasSetLock
  <2>2. \A d \in Clients : HasSetLock(d)' => d # c /\ HasSetLock(d)
    BY <1>1 DEF TypeOK, HasSetLock, Filling
  <2>3. \A d \in Clients : HasCacheLock(d)' => d # c /\ HasCacheLock(d)
    BY <1>1 DEF TypeOK, HasCacheLock
  <2>4. \A d \in Clients : MySet(d) \in SetIds
    BY SetOfType DEF TypeOK, MySet
  <2>5. \A d \in Clients : HasSetLock(d)' => setLock'[MySet(d)] = d
    BY <1>1, <2>1, <2>2, <2>4 DEF TypeOK, LocksHeld
  <2>6. QED
    BY <1>1, <2>3, <2>5 DEF LocksHeld, MySet
<1>6. NoDangling'
  BY <1>1, <1>2, <1>3, NamesAssumption DEF TypeOK, NoDangling, Filling, Settled, Cached, Occupied
<1>7. SlotsDistinct'
  BY <1>1 DEF SlotsDistinct, Occupied
<1>8. PlaceOfTraces'
  BY <1>1 DEF TypeOK, PlaceOfTraces, Filling, Cached, MySet
<1>9. MissStands'
  BY <1>1, <1>2 DEF TypeOK, MissStands, FREE, Indices
<1>10. Initialising'
  BY <1>1 DEF TypeOK, Initialising, InSet, HasSetLock, Filling, Occupied, MySet
<1>11. RefcountExact'
  <2>1. \A x : Holders(x)' = Holders(x)
    BY <1>1 DEF TypeOK, Holders, Filling
  <2>2. QED
    BY <1>1, <2>1 DEF RefcountExact, Occupied
<1>12. OneTracePerIndex'
  BY <1>1, <1>2 DEF TypeOK, OneTracePerIndex
<1>13. NoLeak'
  <2>1. ASSUME NEW x \in Addrs, heap'[x] # FREE
        PROVE  Cached(x)' \/ \E d \in Clients : Filling(d)' /\ ptr'[d] = x
    <3>1. heap[x] # FREE /\ x # a
      BY <1>1, <1>2, <2>1 DEF TypeOK
    <3>2. Cached(x) \/ \E d \in Clients : Filling(d) /\ ptr[d] = x
      BY <3>1 DEF NoLeak
    <3>3. QED
      BY <1>1, <1>2, <3>1, <3>2 DEF TypeOK, Cached, Filling
  <2>2. ~Closed'
    BY <1>1, SizesAssumption DEF Closed, Closing, NotClosing, Filling
  <2>3. QED
    BY <2>1, <2>2 DEF NoLeak
<1>14. Closing'
  BY <1>1 DEF TypeOK, Closing, Occupied
<1>15. QED
  BY <1>4, <1>5, <1>6, <1>7, <1>8, <1>9, <1>10, <1>11, <1>12, <1>13, <1>14

\* A store puts the trace into a way whose own trace nobody holds.
LEMMA PlaceInd == ASSUME Cohesive, IndInv, NEW c \in Clients, Place(c) PROVE IndInv'
<1>. USE DEF IndInv, Goto, setVars
<1>1. PICK s \in SetIds : s = MySet(c)
  BY SetOfType DEF TypeOK, MySet
<1>2. PICK w \in Ways :
          /\ w \in Candidates(s)
          /\ heap' = [a \in Addrs |-> IF a = traces[s][w] THEN FREE ELSE heap[a]]
          /\ traces' = [traces EXCEPT ![s][w] = ptr[c]]
          /\ refcount' = [refcount EXCEPT ![s][w] = 1]
  <2>1. PICK w \in Highest(lru[s], Candidates(s)) :
          /\ heap' = [a \in Addrs |-> IF a = traces[s][w] THEN FREE ELSE heap[a]]
          /\ traces' = [traces EXCEPT ![s][w] = ptr[c]]
          /\ refcount' = [refcount EXCEPT ![s][w] = 1]
    BY <1>1, ZenonT(60) DEF Place
  <2>2. w \in Candidates(s) /\ w \in Ways
    BY DEF Highest, Candidates
  <2>3. QED
    BY <2>1, <2>2
<1>3. /\ pc[c] = "place" /\ Filling(c)
      /\ pc' = [pc EXCEPT ![c] = "holding"]
      /\ setLock' = [setLock EXCEPT ![s] = NULL]
      /\ UNCHANGED <<idx, ptr, gets, cacheLock, initialized, closeAt>>
  BY <1>1 DEF Place, MayPlace, Unlock, Filling
<1>4. PICK a \in Addrs : a = ptr[c]
  BY <1>3, PrivateTrace
<1>5. ~Cached(a) /\ \A d \in Clients \ {c} : Settled(d) => ptr[d] # a
  BY <1>3, <1>4, PrivateTrace
<1>6. PICK old : old = traces[s][w]
  OBVIOUS
<1>7. Holders(old) = {} /\ a # old
  <2>1. CASE old = NULL
    BY <2>1, NamesAssumption DEF Holders, PlaceOfTraces
  <2>2. CASE old # NULL
    <3>1. refcount[s][w] = 0
      BY <1>2, <1>6, <2>2 DEF Candidates, Occupied
    <3>2. Cardinality(Holders(old)) = 0
      BY <1>6, <2>2, <3>1 DEF RefcountExact, Occupied
    <3>3. QED
      BY <1>5, <1>6, <3>2, HoldersFinite, FS_EmptySet DEF Cached
  <2>3. QED
    BY <2>1, <2>2
<1>8. \A d \in Clients : Settled(d) => ptr[d] # old
  <2>1. ASSUME NEW d \in Clients, Filling(d) PROVE ptr[d] # old
    BY <1>6, <2>1 DEF PlaceOfTraces, Cached
  <2>2. ASSUME NEW d \in Clients, pc[d] = "holding" PROVE ptr[d] # old
    BY <1>7, <2>2 DEF Holders
  <2>3. QED
    BY <2>1, <2>2 DEF Settled
<1>9. ASSUME NEW t \in SetIds, NEW v \in Ways, ~(t = s /\ v = w)
      PROVE  /\ traces'[t][v] = traces[t][v] /\ refcount'[t][v] = refcount[t][v]
             /\ traces[t][v] # a
             /\ traces[t][v] # NULL => traces[t][v] # old /\ heap'[traces[t][v]] = heap[traces[t][v]]
  <2>1. traces'[t][v] = traces[t][v] /\ refcount'[t][v] = refcount[t][v]
    BY <1>2, <1>9 DEF TypeOK
  <2>2. traces[t][v] # NULL => traces[t][v] # old
    BY <1>6, <1>9, SlotUnique
  <2>3. QED
    BY <1>2, <1>5, <1>6, <2>1, <2>2 DEF TypeOK, Cached
<1>10. traces'[s][w] = a /\ refcount'[s][w] = 1
  BY <1>2, <1>4 DEF TypeOK
<1>11. \A x \in Addrs : heap'[x] = IF x = old THEN FREE ELSE heap[x]
  BY <1>2, <1>6
<1>12. TypeOK'
  BY TypeStep DEF Next, GetStep
<1>13. LocksHeld'
  <2>1. \A d \in Clients \ {c} : HasSetLock(d) => MySet(d) # s
    BY <1>1, <1>3 DEF LocksHeld, HasSetLock
  <2>2. \A d \in Clients : HasSetLock(d)' => d # c /\ HasSetLock(d)
    BY <1>3 DEF TypeOK, HasSetLock, Filling
  <2>3. \A d \in Clients : HasCacheLock(d)' => d # c /\ HasCacheLock(d)
    BY <1>3 DEF TypeOK, HasCacheLock
  <2>4. QED
    BY <1>3, <2>1, <2>2, <2>3 DEF TypeOK, LocksHeld, MySet
<1>14. NoDangling'
  <2>1. ASSUME NEW d \in Clients, Settled(d)' PROVE heap'[ptr'[d]] = idx'[d]
    <3>1. Settled(d)
      BY <1>3, <2>1 DEF TypeOK, Settled, Filling
    <3>2. ptr[d] \in Addrs /\ heap[ptr[d]] = idx[d]
      BY <3>1 DEF Settled, PlaceOfTraces, NoDangling
    <3>3. QED
      BY <1>3, <1>8, <1>11, <3>1, <3>2
  <2>2. ASSUME NEW t \in SetIds, NEW v \in Ways, traces'[t][v] # NULL
        PROVE  heap'[traces'[t][v]] \in Indices /\ SetOf(heap'[traces'[t][v]]) = t
    <3>1. CASE t = s /\ v = w
      <4>1. heap[a] = idx[c]
        BY <1>3, <1>4 DEF NoDangling
      <4>2. QED
        BY <1>1, <1>7, <1>10, <1>11, <3>1, <4>1 DEF TypeOK, MySet
    <3>2. CASE ~(t = s /\ v = w)
      BY <1>9, <2>2, <3>2 DEF NoDangling, Occupied
    <3>3. QED
      BY <3>1, <3>2
  <2>3. QED
    BY <2>1, <2>2 DEF NoDangling, Occupied, Settled
<1>15. SlotsDistinct'
  <2>1. ASSUME NEW t \in SetIds, NEW v \in Ways, NEW u \in Ways,
               traces'[t][v] = traces'[t][u], traces'[t][v] # NULL
        PROVE  v = u
    BY <1>9, <1>10, <2>1 DEF SlotsDistinct, Occupied
  <2>2. QED
    BY <2>1 DEF SlotsDistinct, Occupied
<1>16. PlaceOfTraces'
  <2>1. ASSUME NEW d \in Clients, Filling(d)' PROVE ptr'[d] \in Addrs /\ ~Cached(ptr[d])'
    <3>1. d # c /\ Filling(d)
      BY <1>3, <2>1 DEF TypeOK, Filling
    <3>2. ptr[d] \in Addrs /\ ~Cached(ptr[d]) /\ ptr[d] # a
      BY <1>5, <3>1 DEF PlaceOfTraces, Settled
    <3>3. QED
      BY <1>3, <1>9, <1>10, <3>2 DEF Cached
  <2>2. ASSUME NEW d \in Clients, pc'[d] = "holding"
        PROVE  ptr'[d] \in Addrs /\ \E v \in Ways : traces'[MySet(d)'][v] = ptr'[d]
    <3>1. CASE d = c
      BY <1>1, <1>3, <1>4, <1>10, <3>1 DEF MySet
    <3>2. CASE d # c
      <4>1. pc[d] = "holding"
        BY <1>3, <2>2, <3>2 DEF TypeOK
      <4>2. PICK v \in Ways : ptr[d] \in Addrs /\ traces[MySet(d)][v] = ptr[d]
        BY <4>1 DEF PlaceOfTraces
      <4>3. MySet(d) \in SetIds /\ MySet(d)' = MySet(d)
        BY <1>3, SetOfType DEF TypeOK, MySet
      <4>4. traces'[MySet(d)][v] = traces[MySet(d)][v]
        BY <1>6, <1>8, <1>9, <4>1, <4>2, <4>3 DEF Settled
      <4>5. QED
        BY <1>3, <4>2, <4>3, <4>4
    <3>3. QED
      BY <3>1, <3>2
  <2>3. QED
    BY <1>3, <2>1, <2>2 DEF PlaceOfTraces
<1>17. MissStands'
  BY <1>3, <1>11 DEF TypeOK, MissStands, FREE, Indices
<1>18. Initialising'
  <2>1. s \in initialized
    BY <1>1, <1>3 DEF Initialising, InSet, HasSetLock
  <2>2. \A t \in SetIds \ {s} : Occupied(t)' = Occupied(t)
    BY <1>9 DEF Occupied
  <2>3. \A d \in Clients : InSet(d)' => InSet(d)
    BY <1>3 DEF TypeOK, InSet, HasSetLock, Filling
  <2>4. \A d \in Clients : pc'[d] = "lookup_nested" => pc[d] = "lookup_nested" /\ d # c /\ MySet(d) # s
    BY <1>1, <1>3 DEF TypeOK, Initialising, InSet, HasSetLock
  <2>5. QED
    BY <1>3, <2>1, <2>2, <2>3, <2>4, SetOfType DEF TypeOK, Initialising, MySet
<1>19. RefcountExact'
  <2>. DEFINE After(x) == {d \in Clients : pc'[d] = "holding" /\ ptr'[d] = x}
  <2>1. After(a) = {c}
    BY <1>3, <1>4, <1>5 DEF TypeOK, Settled
  <2>2. \A x : x # a => After(x) = Holders(x)
    BY <1>3, <1>4 DEF TypeOK, Holders
  <2>3. Cardinality(After(a)) = 1
    BY <2>1, FS_Singleton
  <2>. HIDE DEF After
  <2>4. ASSUME NEW t \in SetIds, NEW v \in Ways, traces'[t][v] # NULL
        PROVE  refcount'[t][v] = Cardinality(After(traces'[t][v]))
    <3>1. CASE t = s /\ v = w
      BY <1>10, <2>3, <3>1
    <3>2. CASE ~(t = s /\ v = w)
      BY <1>9, <2>2, <2>4, <3>2 DEF RefcountExact, Occupied
    <3>3. QED
      BY <3>1, <3>2
  <2>5. QED
    BY <2>4 DEF RefcountExact, Occupied, Holders, After
<1>20. OneTracePerIndex'
  BY <1>11 DEF TypeOK, OneTracePerIndex
<1>21. NoLeak'
  <2>1. ASSUME NEW x \in Addrs, heap'[x] # FREE
        PROVE  Cached(x)' \/ \E d \in Clients : Filling(d)' /\ ptr'[d] = x
    <3>1. heap[x] # FREE /\ x # old
      BY <1>11, <2>1
    <3>2. CASE Cached(x)
      BY <1>6, <1>9, <3>1, <3>2 DEF Cached
    <3>3. CASE \E d \in Clients : Filling(d) /\ ptr[d] = x
      <4>1. PICK d \in Clients : Filling(d) /\ ptr[d] = x
        BY <3>3
      <4>2. CASE d = c
        BY <1>4, <1>10, <4>1, <4>2 DEF Cached
      <4>3. CASE d # c
        BY <1>3, <4>1, <4>3 DEF TypeOK, Filling
      <4>4. QED
        BY <4>2, <4>3
    <3>4. QED
      BY <3>1, <3>2, <3>3 DEF NoLeak
  <2>2. ~Closed'
    BY <1>3, SizesAssumption DEF Closed, Closing, NotClosing
  <2>3. QED
    BY <2>1, <2>2 DEF NoLeak
<1>22. Closing'
  BY <1>3 DEF TypeOK, Closing
<1>23. QED
  BY <1>12, <1>13, <1>14, <1>15, <1>16, <1>17, <1>18, <1>19, <1>20, <1>21, <1>22

\* The trace a client holds is found by tc_deref, and it is this very trace.
LEMMA DerefFinds ==
    ASSUME IndInv, NEW c \in Clients, Deref(c)
    PROVE  \E s \in SetIds, w \in Ways :
              /\ s = MySet(c)
              /\ traces[s][w] = ptr[c] /\ ptr[c] \in Addrs
              /\ refcount' = [refcount EXCEPT ![s][w] = (@ - 1) % RefMod]
              /\ heap' = heap
<1>. USE DEF IndInv
<1>1. PICK s \in SetIds : s = MySet(c)
  BY SetOfType DEF TypeOK, MySet
<1>2. pc[c] = "holding" /\ ptr[c] \in Addrs /\ heap[ptr[c]] = idx[c]
  BY DEF Deref, PlaceOfTraces, NoDangling
<1>3. PICK w \in Ways : traces[s][w] = ptr[c]
  BY <1>1, <1>2 DEF PlaceOfTraces
<1>4. WaysWith(s, heap[ptr[c]]) = {w}
  <2>1. w \in WaysWith(s, heap[ptr[c]])
    BY <1>2, <1>3, NamesAssumption DEF WaysWith, Occupied
  <2>2. ASSUME NEW v \in WaysWith(s, heap[ptr[c]]) PROVE v = w
    <3>1. v \in Ways /\ traces[s][v] \in Addrs /\ heap[traces[s][v]] = heap[ptr[c]]
      BY DEF TypeOK, WaysWith, Occupied
    <3>2. heap[ptr[c]] # FREE
      BY <1>2 DEF TypeOK, FREE, Indices
    <3>3. traces[s][v] = traces[s][w]
      BY <1>2, <1>3, <3>1, <3>2 DEF OneTracePerIndex
    <3>4. QED
      BY <1>2, <1>3, <3>1, <3>3, NamesAssumption, SlotUnique
  <2>3. QED
    BY <2>1, <2>2
<1>5. w <= w
  BY DEF Ways
<1>6. (CHOOSE x \in {w} : \A v \in {w} : x <= v) = w
  BY <1>5
<1>7. s \in initialized
  BY <1>1, <1>2 DEF Initialising, InSet
<1>8. QED
  BY <1>1, <1>2, <1>3, <1>4, <1>6, <1>7 DEF Deref

\* A holder gives its trace back.
LEMMA DerefInd == ASSUME Cohesive, IndInv, NEW c \in Clients, Deref(c) PROVE IndInv'
<1>. USE DEF IndInv, Goto, setVars
<1>1. PICK s \in SetIds, w \in Ways :
          /\ s = MySet(c)
          /\ traces[s][w] = ptr[c] /\ ptr[c] \in Addrs
          /\ refcount' = [refcount EXCEPT ![s][w] = (@ - 1) % RefMod]
          /\ heap' = heap
  BY DerefFinds
<1>2. /\ pc[c] = "holding"
      /\ pc' = [pc EXCEPT ![c] = "idle"]
      /\ ptr' = [ptr EXCEPT ![c] = NULL]
      /\ UNCHANGED <<idx, cacheLock, setLock, initialized, traces, closeAt>>
  BY DEF Deref
<1>3. PICK a \in Addrs : a = ptr[c] /\ a # NULL
  BY <1>1, NamesAssumption
<1>4. TypeOK'
  BY TypeStep DEF Next
<1>5. LocksHeld'
  BY <1>2 DEF TypeOK, LocksHeld, HasSetLock, HasCacheLock, Filling, MySet
<1>6. NoDangling'
  BY <1>1, <1>2 DEF TypeOK, NoDangling, Filling, Occupied
<1>7. SlotsDistinct'
  BY <1>2 DEF SlotsDistinct, Occupied
<1>8. PlaceOfTraces'
  BY <1>2 DEF TypeOK, PlaceOfTraces, Filling, Cached, MySet
<1>9. MissStands'
  BY <1>1, <1>2 DEF TypeOK, MissStands
<1>10. Initialising'
  BY <1>2 DEF TypeOK, Initialising, InSet, HasSetLock, Filling, Occupied, MySet
<1>11. RefcountExact'
  <2>. DEFINE After(x) == {d \in Clients : pc'[d] = "holding" /\ ptr'[d] = x}
  <2>1. c \in Holders(a)
    BY <1>2, <1>3 DEF Holders
  <2>2. After(a) = Holders(a) \ {c}
    BY <1>2 DEF TypeOK, Holders
  <2>3. \A x : x # a => After(x) = Holders(x)
    BY <1>2, <1>3 DEF TypeOK, Holders
  <2>4. Cardinality(After(a)) = Cardinality(Holders(a)) - 1
    BY <2>1, <2>2, HoldersFinite, FS_RemoveElement
  <2>5. Cardinality(After(a)) \in Nat
    BY <2>2, HoldersFinite, FS_Subset, FS_CardinalityType
  <2>. HIDE DEF After
  <2>6. refcount[s][w] = Cardinality(Holders(a))
    BY <1>1, <1>3 DEF RefcountExact, Occupied
  <2>7. refcount'[s][w] = Cardinality(After(a))
    <3>1. refcount'[s][w] = (refcount[s][w] - 1) % RefMod
      BY <1>1 DEF TypeOK
    <3>2. refcount[s][w] - 1 \in 0 .. RefMod - 1
      BY <2>4, <2>5, <2>6, HoldersFinite, RefModAssumption
    <3>3. RefMod \in Nat \ {0}
      BY RefModAssumption, FS_CardinalityType
    <3>4. QED
      BY <2>4, <2>6, <3>1, <3>2, <3>3, ModSmall
  <2>8. ASSUME NEW t \in SetIds, NEW v \in Ways, traces[t][v] # NULL
        PROVE  refcount'[t][v] = Cardinality(After(traces[t][v]))
    <3>1. CASE t = s /\ v = w
      BY <1>1, <1>3, <2>7, <3>1
    <3>2. CASE ~(t = s /\ v = w)
      <4>1. traces[t][v] # a
        BY <1>1, <1>3, <2>8, <3>2, SlotUnique
      <4>2. refcount'[t][v] = refcount[t][v]
        BY <1>1, <3>2 DEF TypeOK
      <4>3. QED
        BY <2>3, <2>8, <4>1, <4>2 DEF RefcountExact, Occupied
    <3>3. QED
      BY <3>1, <3>2
  <2>9. QED
    BY <1>2, <2>8 DEF RefcountExact, Occupied, Holders, After
<1>12. OneTracePerIndex'
  BY <1>1 DEF OneTracePerIndex
<1>13. NoLeak'
  <2>1. \A x : Cached(x) => Cached(x)'
    BY <1>2 DEF Cached
  <2>2. \A d \in Clients : Filling(d) => Filling(d)' /\ ptr'[d] = ptr[d]
    BY <1>2 DEF TypeOK, Filling
  <2>3. QED
    BY <1>1, <1>2, <2>1, <2>2 DEF NoLeak, Closed
<1>14. Closing'
  BY <1>2 DEF TypeOK, Closing
<1>15. QED
  BY <1>4, <1>5, <1>6, <1>7, <1>8, <1>9, <1>10, <1>11, <1>12, <1>13, <1>14

\* Closing begins when nobody uses the cache,
LEMMA CloseBeginInd == ASSUME IndInv, CloseBegin PROVE IndInv'
<1>. USE DEF IndInv, CloseBegin, clientVars, setVars
<1>1. TypeOK'
  BY TypeStep DEF Next, Close
<1>2. LocksHeld' /\ NoDangling' /\ SlotsDistinct' /\ PlaceOfTraces' /\ MissStands' /\ Initialising'
  BY DEF LocksHeld, HasSetLock, HasCacheLock, Filling, MySet, NoDangling, Occupied, SlotsDistinct,
         PlaceOfTraces, Cached, MissStands, Initialising, InSet
<1>3. RefcountExact' /\ OneTracePerIndex'
  BY DEF RefcountExact, Holders, Occupied, OneTracePerIndex
<1>4. NoLeak'
  BY SizesAssumption DEF NoLeak, Cached, Filling, Closed
<1>5. Closing'
  BY DEF Closing, SetIds
<1>6. QED
  BY <1>1, <1>2, <1>3, <1>4, <1>5

\* and frees set after set.
LEMMA CloseSetInd == ASSUME IndInv, CloseSet PROVE IndInv'
<1>. USE DEF IndInv, clientVars
<1>1. PICK n \in SetIds : n = closeAt
  BY DEF CloseSet
<1>2. /\ heap' = [a \in Addrs |-> IF \E w \in Ways : traces[n][w] = a THEN FREE ELSE heap[a]]
      /\ traces' = [traces EXCEPT ![n] = [w \in Ways |-> NULL]]
      /\ closeAt' = n + 1
      /\ UNCHANGED <<pc, idx, ptr, cacheLock, setLock, initialized, refcount>>
  BY <1>1 DEF CloseSet
<1>3. \A c \in Clients : pc[c] = "idle"
  BY <1>1 DEF Closing, NotClosing, SetIds
<1>4. Occupied(n)' = {} /\ \A t \in SetIds \ {n} : traces'[t] = traces[t] /\ Occupied(t)' = Occupied(t)
  BY <1>2 DEF TypeOK, Occupied
<1>5. ASSUME NEW t \in SetIds \ {n}, NEW w \in Occupied(t)
      PROVE  heap'[traces[t][w]] = heap[traces[t][w]]
  <2>1. \A v \in Ways : traces[n][v] # traces[t][w]
    BY SlotUnique DEF Occupied
  <2>2. QED
    BY <1>2, <2>1 DEF TypeOK, Occupied
<1>6. TypeOK'
  BY TypeStep DEF Next, Close
<1>7. LocksHeld' /\ PlaceOfTraces' /\ MissStands'
  BY <1>2, <1>3 DEF LocksHeld, HasSetLock, HasCacheLock, Filling, PlaceOfTraces, MissStands
<1>8. NoDangling'
  BY <1>2, <1>3, <1>4, <1>5 DEF NoDangling, Filling
<1>9. SlotsDistinct'
  BY <1>4 DEF SlotsDistinct
<1>10. Initialising'
  BY <1>2, <1>3, <1>4 DEF Initialising, InSet, HasSetLock, Filling
<1>11. RefcountExact'
  <2>. DEFINE After(x) == {d \in Clients : pc'[d] = "holding" /\ ptr'[d] = x}
  <2>1. \A x : After(x) = Holders(x)
    BY <1>2 DEF Holders
  <2>. HIDE DEF After
  <2>2. ASSUME NEW t \in SetIds \ {n}, NEW w \in Occupied(t)
        PROVE  refcount'[t][w] = Cardinality(After(traces'[t][w]))
    BY <1>2, <1>4, <2>1 DEF RefcountExact
  <2>3. QED
    BY <1>4, <2>2 DEF RefcountExact, Holders, After
<1>12. OneTracePerIndex'
  BY <1>2 DEF TypeOK, OneTracePerIndex
<1>13. ASSUME NEW a \in Addrs, heap'[a] # FREE
       PROVE  \E t \in SetIds \ {n}, w \in Ways : traces[t][w] = a
  BY <1>2, <1>3, <1>13 DEF NoLeak, Cached, Filling
<1>14. Closing'
  BY <1>1, <1>2, <1>3, <1>4 DEF Closing, NotClosing, SetIds
<1>15. NoLeak'
  <2>1. \A a \in Addrs : heap'[a] # FREE => Cached(a)'
    BY <1>4, <1>13 DEF Cached
  <2>2. ASSUME Closed', NEW a \in Addrs PROVE heap'[a] = FREE
    <3>1. \A t \in SetIds : Occupied(t)' = {}
      BY <1>14, <2>2, SizesAssumption DEF Closing, Closed, NotClosing, SetIds
    <3>2. \A t \in SetIds \ {n}, w \in Ways : traces[t][w] = NULL
      BY <1>4, <3>1 DEF Occupied
    <3>3. QED
      BY <1>13, <3>2, NamesAssumption
  <2>3. QED
    BY <2>1, <2>2 DEF NoLeak
<1>16. QED
  BY <1>6, <1>7, <1>8, <1>9, <1>10, <1>11, <1>12, <1>14, <1>15

\* A step that changes nothing.
LEMMA StutterInd == ASSUME IndInv, UNCHANGED vars PROVE IndInv'
<1>. USE DEF IndInv, vars, clientVars, setVars
<1>1. TypeOK'
  BY TypeStep
<1>2. LocksHeld' /\ NoDangling' /\ SlotsDistinct' /\ PlaceOfTraces' /\ MissStands' /\ Initialising'
  BY DEF LocksHeld, HasSetLock, HasCacheLock, Filling, MySet, NoDangling, Occupied, SlotsDistinct,
         PlaceOfTraces, Cached, MissStands, Initialising, InSet
<1>3. RefcountExact' /\ OneTracePerIndex' /\ NoLeak' /\ Closing'
  BY DEF RefcountExact, Holders, Occupied, OneTracePerIndex, NoLeak, Cached, Filling, Closed, Closing
<1>4. QED
  BY <1>1, <1>2, <1>3

-----------------------------------------------------------------------------
(* The theorems *)

\* Every variable stays in its type whatever the sizes, the faults and the kind
\* of cache: the ages and reference counts stay in their 8 bits, and no way
\* holds anything but a trace or NULL.
THEOREM TypeCorrect == Spec => []TypeOK
<1>1. QED
  BY TypeInit, TypeStep, PTL DEF Spec

\* The inductive invariant of cohesive caches.
THEOREM Inductive == ASSUME Cohesive PROVE Spec => []IndInv
<1>1. ASSUME IndInv, [Next]_vars PROVE IndInv'
  <2>1. ASSUME NEW c \in Clients, Get(c) \/ GetStep(c) \/ Deref(c) PROVE IndInv'
    BY <1>1, <2>1, GetInd, LookupEnterInd, LookupLeaveInd, LookupInitInd, LookupInitFailsInd,
       LookupNestedInd, ScanHitInd, ScanMissInd, AllocInd, AllocFailsInd, FillInd, DropInd,
       StoreEnterInd, StoreLeaveInd, PlaceInd, DerefInd DEF GetStep
  <2>2. CASE Close
    BY <1>1, <2>2, CloseBeginInd, CloseSetInd DEF Close
  <2>3. CASE UNCHANGED vars
    BY <1>1, <2>3, StutterInd
  <2>4. QED
    BY <1>1, <2>1, <2>2, <2>3 DEF Next, Terminated
<1>2. QED
  BY <1>1, InitInd, PTL DEF Spec

\* With any number of threads, sets and ways, and whichever of the failures
\* happen: no thread and no set ever points to freed memory or to the trace of
\* another index, the reference counts are exact, an index has one trace, and
\* what is allocated is reachable until tc_free frees it.
THEOREM CacheSafe ==
    ASSUME Cohesive
    PROVE  Spec => [](NoDangling /\ RefcountExact /\ OneTracePerIndex /\ NoLeak)
<1>1. IndInv => NoDangling /\ RefcountExact /\ OneTracePerIndex /\ NoLeak
  BY DEF IndInv
<1>2. QED
  BY <1>1, Inductive, PTL

\* The reference count of a way is the number of threads that hold its trace: none is
\* released early, none stays pinned.
THEOREM RefcountsExact == ASSUME Cohesive PROVE Spec => []RefcountExact
  BY CacheSafe, PTL

\* Cohesion: all threads that ask for an index share one trace of it.
THEOREM Cohesion == ASSUME Cohesive PROVE Spec => []OneTracePerIndex
  BY CacheSafe, PTL

\* What is allocated can be reached by a thread or in a set, and nothing is left after
\* tc_free, whatever fails.
THEOREM NothingLeaks == ASSUME Cohesive PROVE Spec => []NoLeak
  BY CacheSafe, PTL

\* A filled trace finds no slot only when at least NWays other threads hold traces
\* of its set: the ways are all referenced, each by a thread of its own, for two
\* ways do not have the same trace.
THEOREM WaysSuffice == ASSUME Cohesive PROVE Spec => []EnoughWays
<1>1. ASSUME IndInv PROVE EnoughWays
  <2>. USE DEF IndInv
  <2>. SUFFICES ASSUME NEW c \in Clients, pc[c] = "place", Candidates(MySet(c)) = {}
                PROVE  Cardinality({d \in Clients \ {c} :
                           pc[d] = "holding" /\ MySet(d) = MySet(c)}) >= NWays
    BY DEF EnoughWays
  <2>1. PICK s \in SetIds : s = MySet(c)
    BY <1>1, SetOfType DEF TypeOK, MySet
  <2>2. \A w \in Ways : traces[s][w] # NULL /\ refcount[s][w] # 0
    BY <2>1 DEF Candidates, Occupied
  <2>3. \A w \in Ways : Holders(traces[s][w]) # {}
    BY <1>1, <2>2, FS_EmptySet DEF RefcountExact, Occupied
  <2>. DEFINE holder == [w \in Ways |-> CHOOSE d \in Clients : d \in Holders(traces[s][w])]
              others == {d \in Clients \ {c} : pc[d] = "holding" /\ MySet(d) = MySet(c)}
  <2>4. \A w \in Ways : holder[w] \in Holders(traces[s][w])
    BY <2>3 DEF Holders
  <2>5. ASSUME NEW w \in Ways PROVE holder[w] \in others /\ ptr[holder[w]] = traces[s][w]
    <3>1. PICK d \in Clients : d = holder[w] /\ pc[d] = "holding" /\ ptr[d] = traces[s][w]
      BY <2>4 DEF Holders
    <3>2. heap[ptr[d]] = idx[d] /\ SetOf(heap[traces[s][w]]) = s
      BY <1>1, <2>2, <3>1 DEF NoDangling, Occupied
    <3>3. MySet(d) = s
      BY <3>1, <3>2 DEF MySet
    <3>4. QED
      BY <2>1, <3>1, <3>3
  <2>6. IsFiniteSet(Ways) /\ Cardinality(Ways) = NWays
    BY NWaysAssumption, FS_Interval DEF Ways
  <2>7. IsFiniteSet(others) /\ Cardinality(others) \in Nat
    BY RefModAssumption, FS_Subset, FS_CardinalityType
  <2>8. holder \in [Ways -> others]
    BY <2>5
  <2>9. SUFFICES ASSUME Cardinality(others) < NWays PROVE FALSE
    BY <2>7, NWaysAssumption
  <2>. HIDE DEF holder, others
  <2>10. PICK v \in Ways, w \in Ways : v # w /\ holder[v] = holder[w]
    BY <2>6, <2>7, <2>8, <2>9, FS_PigeonHole
  <2>11. traces[s][v] = traces[s][w]
    BY <2>5, <2>10
  <2>12. QED
    BY <1>1, <2>2, <2>10, <2>11, SlotUnique
<1>2. QED
  BY <1>1, Inductive, PTL

-----------------------------------------------------------------------------
(* The ranks that order a shelf *)


\* Ages that tell the members of W apart.
Apart(W, age) ==
    /\ IsFiniteSet(W)
    /\ \A w \in W : age[w] \in Int
    /\ \A v, w \in W : age[v] = age[w] => v = w

\* The ranks of the members of W are the numbers from 0, in the order of the ages.
LEMMA Ranks ==
    ASSUME NEW W, NEW age, Apart(W, age)
    PROVE  /\ Cardinality(W) \in Nat
           /\ \A w \in W : Rank(W, age, w) \in 0 .. Cardinality(W) - 1
           /\ \A v, w \in W : age[v] < age[w] => Rank(W, age, v) < Rank(W, age, w)
           /\ \A v, w \in W : Rank(W, age, v) = Rank(W, age, w) => v = w
           /\ \A k \in 1 .. Cardinality(W) : \E w \in W : Rank(W, age, w) = k - 1
<1>. DEFINE n == Cardinality(W)
            R(w) == Rank(W, age, w)
            place == [w \in W |-> R(w) + 1]
<1>1. IsFiniteSet(W) /\ n \in Nat
  BY FS_CardinalityType DEF Apart
<1>2. ASSUME NEW w \in W PROVE R(w) \in 0 .. n - 1
  <2>1. Ahead(W, age, w) \subseteq W \ {w}
    BY DEF Apart, Ahead
  <2>2. IsFiniteSet(W \ {w}) /\ Cardinality(W \ {w}) = n - 1
    BY <1>1, FS_RemoveElement
  <2>3. IsFiniteSet(Ahead(W, age, w)) /\ R(w) <= n - 1
    BY <2>1, <2>2, FS_Subset DEF Rank
  <2>4. R(w) \in Nat
    BY <2>3, FS_CardinalityType DEF Rank
  <2>5. QED
    BY <1>1, <2>3, <2>4
<1>3. ASSUME NEW v \in W, NEW w \in W, age[v] < age[w] PROVE R(v) < R(w)
  <2>1. /\ Ahead(W, age, v) \subseteq Ahead(W, age, w)
        /\ v \in Ahead(W, age, w) /\ v \notin Ahead(W, age, v)
    BY <1>3 DEF Apart, Ahead
  <2>2. IsFiniteSet(Ahead(W, age, w))
    BY <1>1, FS_Subset DEF Ahead
  <2>3. R(v) <= R(w) /\ (R(w) = R(v) => Ahead(W, age, w) = Ahead(W, age, v))
    BY <2>1, <2>2, FS_Subset DEF Rank
  <2>4. R(v) # R(w)
    BY <2>1, <2>3, Zenon
  <2>5. R(v) \in Nat /\ R(w) \in Nat
    BY <1>2
  <2>6. QED
    BY <2>3, <2>4, <2>5
<1>4. ASSUME NEW v \in W, NEW w \in W, R(v) = R(w) PROVE v = w
  <2>1. age[v] \in Int /\ age[w] \in Int /\ (age[v] = age[w] => v = w)
    BY DEF Apart
  <2>2. R(v) \in Nat /\ R(w) \in Nat
    BY <1>2
  <2>3. ~(age[v] < age[w]) /\ ~(age[w] < age[v])
    BY <1>3, <1>4, <2>2
  <2>4. QED
    BY <2>1, <2>3
<1>. HIDE DEF R
<1>5. place \in Injection(W, 1 .. n)
  <2>1. place \in [W -> 1 .. n]
    BY <1>1, <1>2
  <2>2. ASSUME NEW v \in W, NEW w \in W, place[v] = place[w] PROVE v = w
    <3>1. R(v) \in Int /\ R(w) \in Int /\ R(v) + 1 = R(w) + 1
      BY <1>2, <2>2
    <3>2. QED
      BY <1>4, <3>1
  <2>3. QED
    BY <2>1, <2>2 DEF Injection, IsInjective
<1>6. place \in Surjection(W, 1 .. n)
  <2>1. IsFiniteSet(1 .. n) /\ Cardinality(1 .. n) = n
    BY <1>1, FS_Interval
  <2>2. QED
    BY <1>5, <2>1, FS_Injection
<1>7. ASSUME NEW k \in 1 .. n PROVE \E w \in W : R(w) = k - 1
  <2>1. PICK w \in W : place[w] = k
    BY <1>6 DEF Surjection
  <2>2. R(w) \in Int /\ R(w) + 1 = k
    BY <1>2, <2>1
  <2>3. QED
    BY <2>2
<1>8. QED
  BY <1>1, <1>2, <1>3, <1>4, <1>7 DEF R

\* The member with k members ahead of it is at place k + 1.
LEMMA RankedIs ==
    ASSUME NEW W, NEW age, NEW f, Apart(W, age)
    PROVE  /\ Cardinality(W) \in Nat
           /\ DOMAIN Ranked(W, age, f) = 1 .. Cardinality(W)
           /\ Len(Ranked(W, age, f)) = Cardinality(W)
           /\ \A w \in W : /\ Rank(W, age, w) + 1 \in 1 .. Cardinality(W)
                           /\ Ranked(W, age, f)[Rank(W, age, w) + 1] = f[w]
<1>. DEFINE n == Cardinality(W)
            R(w) == Rank(W, age, w)
            at == [k \in 1 .. n |-> CHOOSE w \in W : R(w) = k - 1]
<1>1. /\ n \in Nat
      /\ \A w \in W : R(w) \in 0 .. n - 1
      /\ \A v, w \in W : R(v) = R(w) => v = w
      /\ \A k \in 1 .. n : \E w \in W : R(w) = k - 1
  BY Ranks
<1>2. Ranked(W, age, f) = [k \in 1 .. n |-> f[at[k]]]
  BY DEF Ranked, Rank
<1>. HIDE DEF R
<1>3. ASSUME NEW w \in W PROVE R(w) + 1 \in 1 .. n /\ at[R(w) + 1] = w
  <2>1. R(w) + 1 \in 1 .. n /\ R(w) = (R(w) + 1) - 1
    BY <1>1
  <2>2. at[R(w) + 1] \in W /\ R(at[R(w) + 1]) = (R(w) + 1) - 1
    BY <2>1, Zenon
  <2>3. QED
    BY <1>1, <2>1, <2>2, Zenon
<1>. HIDE DEF at
<1>4. Len(Ranked(W, age, f)) = n
  BY <1>1, <1>2
<1>5. QED
  BY <1>1, <1>2, <1>3, <1>4 DEF R

\* A sequence that has every member of W at the place of its rank is Ranked.
LEMMA RankedBy ==
    ASSUME NEW W, NEW age, NEW f, Apart(W, age), NEW T, NEW q \in Seq(T),
           Len(q) = Cardinality(W),
           \A w \in W : q[Rank(W, age, w) + 1] = f[w]
    PROVE  q = Ranked(W, age, f)
<1>. DEFINE n == Cardinality(W)
            r == Ranked(W, age, f)
<1>1. DOMAIN q = 1 .. n /\ q = [k \in 1 .. n |-> q[k]]
  OBVIOUS
<1>2. r = [k \in 1 .. n |-> r[k]]
  BY DEF Ranked
<1>3. ASSUME NEW k \in 1 .. n PROVE q[k] = r[k]
  <2>1. PICK w \in W : Rank(W, age, w) = k - 1
    BY Ranks
  <2>2. Rank(W, age, w) + 1 = k
    BY <2>1
  <2>3. r[Rank(W, age, w) + 1] = f[w]
    BY RankedIs
  <2>4. QED
    BY <2>2, <2>3
<1>. HIDE DEF r
<1>4. QED
  BY <1>1, <1>2, <1>3 DEF r

\* It has what f says of the members of W.
LEMMA RankedType ==
    ASSUME NEW W, NEW age, NEW f, Apart(W, age), NEW T, \A w \in W : f[w] \in T
    PROVE  Ranked(W, age, f) \in Seq(T)
<1>1. ASSUME NEW k \in 1 .. Cardinality(W) PROVE Ranked(W, age, f)[k] \in T
  <2>1. PICK w \in W : Rank(W, age, w) = k - 1
    BY Ranks
  <2>2. Rank(W, age, w) + 1 = k
    BY <2>1
  <2>3. QED
    BY <2>2, RankedIs
<1>2. Cardinality(W) \in Nat
  BY RankedIs
<1>3. Ranked(W, age, f) = [k \in 1 .. Cardinality(W) |-> Ranked(W, age, f)[k]]
  BY DEF Ranked
<1>4. QED
  BY <1>1, <1>2, <1>3

\* Only the ages and the values of its members count.
LEMMA RankedSame ==
    ASSUME NEW W, NEW age, NEW f, NEW g, Apart(W, age), \A w \in W : f[w] = g[w]
    PROVE  Ranked(W, age, f) = Ranked(W, age, g)
<1>. DEFINE T == {f[w] : w \in W}
<1>1. Ranked(W, age, f) \in Seq(T)
  BY RankedType
<1>2. Len(Ranked(W, age, f)) = Cardinality(W) /\ \A w \in W : Ranked(W, age, f)[Rank(W, age, w) + 1] = g[w]
  BY RankedIs
<1>. HIDE DEF T
<1>3. QED
  BY <1>1, <1>2, RankedBy

\* A new value for one member is a new value at its place.
LEMMA RankedUpdate ==
    ASSUME NEW W, NEW age, NEW f, NEW g, NEW w \in W, Apart(W, age),
           \A v \in W \ {w} : f[v] = g[v]
    PROVE  Ranked(W, age, g) = ReplaceAt(Ranked(W, age, f), Rank(W, age, w) + 1, g[w])
<1>. DEFINE T == {f[v] : v \in W} \union {g[w]}
            r == Ranked(W, age, f)
            at == Rank(W, age, w) + 1
            q == [r EXCEPT ![at] = g[w]]
<1>1. r \in Seq(T) /\ g[w] \in T
  BY RankedType
<1>2. /\ Cardinality(W) \in Nat /\ Len(r) = Cardinality(W)
      /\ \A v \in W : Rank(W, age, v) + 1 \in 1 .. Cardinality(W) /\ r[Rank(W, age, v) + 1] = f[v]
  BY RankedIs
<1>3. \A v \in W : Rank(W, age, v) \in Int /\ (Rank(W, age, v) = Rank(W, age, w) => v = w)
  BY Ranks
<1>. HIDE DEF T, r
<1>4. at \in 1 .. Len(r)
  BY <1>2
<1>5. q \in Seq(T) /\ Len(q) = Cardinality(W)
  BY <1>1, <1>2, <1>4
<1>6. ASSUME NEW v \in W PROVE q[Rank(W, age, v) + 1] = g[v]
  <2>1. CASE v = w
    BY <1>1, <1>4, <2>1
  <2>2. CASE v # w
    <3>1. Rank(W, age, v) + 1 # at
      BY <1>3, <2>2
    <3>2. QED
      BY <1>1, <1>2, <2>2, <3>1
  <2>3. QED
    BY <2>1, <2>2
<1>. HIDE DEF q
<1>7. q = Ranked(W, age, g)
  BY <1>5, <1>6, RankedBy
<1>8. QED
  BY <1>7 DEF q, r, ReplaceAt

\* RemoveAt takes one element out and keeps the others in order.
LEMMA RemoveAtIs ==
    ASSUME NEW T, NEW s \in Seq(T), NEW i \in 1 .. Len(s)
    PROVE  /\ RemoveAt(s, i) \in Seq(T)
           /\ Len(RemoveAt(s, i)) = Len(s) - 1
           /\ \A k \in 1 .. Len(s) - 1 : RemoveAt(s, i)[k] = IF k < i THEN s[k] ELSE s[k + 1]
<1>. DEFINE a == SubSeq(s, 1, i - 1)
            b == SubSeq(s, i + 1, Len(s))
<1>1. a \in Seq(T) /\ Len(a) = i - 1 /\ \A k \in 1 .. i - 1 : a[k] = s[k]
  OBVIOUS
<1>2. b \in Seq(T) /\ Len(b) = Len(s) - i /\ \A k \in 1 .. Len(s) - i : b[k] = s[i + k]
  OBVIOUS
<1>3. RemoveAt(s, i) = a \o b
  BY DEF RemoveAt
<1>. HIDE DEF a, b
<1>4. a \o b \in Seq(T) /\ Len(a \o b) = Len(a) + Len(b)
  <2>1. a \in Seq(T) /\ b \in Seq(T)
    BY <1>1, <1>2, Zenon
  <2>2. QED
    BY <2>1
<1>n. Len(s) \in Nat /\ i \in 1 .. Len(s) /\ Len(a \o b) = Len(s) - 1
  BY <1>1, <1>2, <1>4
<1>5. ASSUME NEW k \in 1 .. Len(s) - 1 PROVE (a \o b)[k] = IF k < i THEN s[k] ELSE s[k + 1]
  <2>1. CASE k < i
    BY <1>1, <1>2, <2>1
  <2>2. CASE k >= i
    <3>1. (a \o b)[k] = b[k - (i - 1)] /\ k - (i - 1) \in 1 .. Len(s) - i
      BY <1>1, <1>2, <2>2
    <3>2. b[k - (i - 1)] = s[i + (k - (i - 1))] /\ i + (k - (i - 1)) = k + 1
      BY <1>2, <3>1
    <3>3. QED
      BY <2>2, <3>1, <3>2
  <2>3. k < i \/ k >= i
    BY <1>n
  <2>4. QED
    BY <2>1, <2>2, <2>3
<1>6. QED
  BY <1>3, <1>4, <1>n, <1>5

\* w becomes the first of W and of itself; the others keep their order and values.
ToFront(W, w, age, f, age2, f2) ==
    /\ Apart(W, age)
    /\ age2[w] \in Int
    /\ \A v \in W \ {w} : age2[v] \in Int /\ age2[w] < age2[v] /\ f2[v] = f[v]
    /\ \A u, v \in W \ {w} : age2[u] < age2[v] <=> age[u] < age[v]

\* Then its rank is 0, and whoever was ahead of it falls one place back.
LEMMA FrontRanks ==
    ASSUME NEW W, NEW w, NEW age, NEW f, NEW age2, NEW f2, ToFront(W, w, age, f, age2, f2)
    PROVE  /\ Apart(W \union {w}, age2)
           /\ Rank(W \union {w}, age2, w) = 0
           /\ \A v \in W \ {w} :
                Rank(W \union {w}, age2, v) =
                    IF w \in W /\ age[w] < age[v] THEN Rank(W, age, v) ELSE Rank(W, age, v) + 1
<1>. DEFINE V == W \union {w}
<1>1. IsFiniteSet(W) /\ IsFiniteSet(V)
  BY FS_AddElement DEF ToFront, Apart
<1>2. \A v \in V : age2[v] \in Int
  BY DEF ToFront
<1>3. ASSUME NEW u \in V, NEW v \in V, age2[u] = age2[v] PROVE u = v
  <2>1. CASE u \in W \ {w} /\ v \in W \ {w}
    <3>1. ~(age[u] < age[v]) /\ ~(age[v] < age[u])
      BY <1>2, <1>3, <2>1 DEF ToFront
    <3>2. QED
      BY <2>1, <3>1 DEF ToFront, Apart
  <2>2. CASE u = w \/ v = w
    BY <1>2, <1>3, <2>2 DEF ToFront
  <2>3. QED
    BY <2>1, <2>2
<1>4. Apart(V, age2)
  BY <1>1, <1>2, <1>3 DEF Apart
<1>5. Rank(V, age2, w) = 0
  <2>1. Ahead(V, age2, w) = {}
    BY <1>2 DEF Ahead, ToFront
  <2>2. QED
    BY <2>1, FS_EmptySet DEF Rank
<1>6. ASSUME NEW v \in W \ {w}
      PROVE  Rank(V, age2, v) =
                IF w \in W /\ age[w] < age[v] THEN Rank(W, age, v) ELSE Rank(W, age, v) + 1
  <2>1. Ahead(V, age2, v) = Ahead(W, age, v) \union {w}
    BY DEF Ahead, ToFront
  <2>2. IsFiniteSet(Ahead(W, age, v)) /\ (w \in Ahead(W, age, v) <=> w \in W /\ age[w] < age[v])
    BY <1>1, FS_Subset DEF Ahead
  <2>3. QED
    BY <2>1, <2>2, FS_AddElement DEF Rank
<1>7. QED
  BY <1>4, <1>5, <1>6

\* A newcomer stands before the whole sequence.
LEMMA FrontNew ==
    ASSUME NEW W, NEW w, NEW age, NEW f, NEW age2, NEW f2, ToFront(W, w, age, f, age2, f2),
           w \notin W
    PROVE  Ranked(W \union {w}, age2, f2) = Cons(f2[w], Ranked(W, age, f))
<1>. DEFINE V == W \union {w}
            T == {f[v] : v \in W} \union {f2[w]}
            r == Ranked(W, age, f)
            q == <<f2[w]>> \o r
<1>1. Apart(W, age) /\ IsFiniteSet(W) /\ \A v \in W : f2[v] = f[v]
  BY DEF ToFront, Apart
<1>2. /\ Apart(V, age2) /\ Rank(V, age2, w) = 0
      /\ \A v \in W : Rank(V, age2, v) = Rank(W, age, v) + 1
  BY FrontRanks
<1>3. Cardinality(V) = Cardinality(W) + 1
  BY <1>1, FS_AddElement
<1>4. r \in Seq(T)
  BY <1>1, RankedType
<1>5. /\ Cardinality(W) \in Nat /\ Len(r) = Cardinality(W)
      /\ \A v \in W : Rank(W, age, v) + 1 \in 1 .. Cardinality(W) /\ r[Rank(W, age, v) + 1] = f[v]
  BY <1>1, RankedIs
<1>6. f2[w] \in T
  OBVIOUS
<1>. HIDE DEF r, T
<1>7. /\ q \in Seq(T) /\ Len(q) = Len(r) + 1 /\ q[1] = f2[w]
      /\ \A k \in 1 .. Len(r) : q[k + 1] = r[k]
  <2>1. <<f2[w]>> \in Seq(T) /\ Len(<<f2[w]>>) = 1
    BY <1>6
  <2>2. Len(r) \in Nat
    BY <1>4
  <2>3. QED
    BY <1>4, <2>1, <2>2, ConcatProperties
<1>. HIDE DEF q
<1>8. ASSUME NEW v \in V PROVE q[Rank(V, age2, v) + 1] = f2[v]
  <2>1. CASE v = w
    BY <1>2, <1>7, <2>1
  <2>2. CASE v \in W
    <3>1. Rank(V, age2, v) + 1 = (Rank(W, age, v) + 1) + 1
      BY <1>2, <2>2
    <3>2. q[(Rank(W, age, v) + 1) + 1] = f[v]
      BY <1>5, <1>7, <2>2
    <3>3. QED
      BY <1>1, <2>2, <3>1, <3>2
  <2>3. QED
    BY <2>1, <2>2
<1>9. Len(q) = Cardinality(V)
  BY <1>3, <1>5, <1>7
<1>10. q = Ranked(V, age2, f2)
  <2>. HIDE DEF V
  <2>1. QED
    BY <1>2, <1>7, <1>8, <1>9, RankedBy
<1>11. QED
  BY <1>10 DEF q, r, Cons

\* A member leaves its place for the first.
LEMMA FrontAgain ==
    ASSUME NEW W, NEW w, NEW age, NEW f, NEW age2, NEW f2, ToFront(W, w, age, f, age2, f2),
           w \in W
    PROVE  Ranked(W, age2, f2) = Cons(f2[w], RemoveAt(Ranked(W, age, f), Rank(W, age, w) + 1))
<1>. DEFINE T == {f[v] : v \in W} \union {f2[w]}
            r == Ranked(W, age, f)
            at == Rank(W, age, w) + 1
            rest == RemoveAt(r, at)
            q == <<f2[w]>> \o rest
<1>w. W \union {w} = W
  OBVIOUS
<1>1. Apart(W, age) /\ \A v \in W \ {w} : f2[v] = f[v]
  BY DEF ToFront
<1>2. /\ Apart(W, age2) /\ Rank(W, age2, w) = 0
      /\ \A v \in W \ {w} : Rank(W, age2, v) =
            IF age[w] < age[v] THEN Rank(W, age, v) ELSE Rank(W, age, v) + 1
  BY <1>w, FrontRanks
<1>3. r \in Seq(T) /\ f2[w] \in T
  BY <1>1, RankedType
<1>4. /\ Cardinality(W) \in Nat /\ Len(r) = Cardinality(W)
      /\ \A v \in W : Rank(W, age, v) + 1 \in 1 .. Cardinality(W) /\ r[Rank(W, age, v) + 1] = f[v]
  BY <1>1, RankedIs
<1>5. \A v \in W : /\ Rank(W, age, v) \in 0 .. Cardinality(W) - 1
                   /\ age[v] \in Int
                   /\ age[w] < age[v] => Rank(W, age, w) < Rank(W, age, v)
                   /\ age[v] < age[w] => Rank(W, age, v) < Rank(W, age, w)
                   /\ age[v] = age[w] => v = w
  BY <1>1, Ranks DEF Apart
<1>. HIDE DEF r, T
<1>6. /\ rest \in Seq(T) /\ Len(rest) = Len(r) - 1
      /\ \A k \in 1 .. Len(r) - 1 : rest[k] = IF k < at THEN r[k] ELSE r[k + 1]
  BY <1>3, <1>4, RemoveAtIs
<1>. HIDE DEF rest
<1>7. /\ q \in Seq(T) /\ Len(q) = Len(rest) + 1 /\ q[1] = f2[w]
      /\ \A k \in 1 .. Len(rest) : q[k + 1] = rest[k]
  <2>1. <<f2[w]>> \in Seq(T) /\ Len(<<f2[w]>>) = 1
    BY <1>3
  <2>2. Len(rest) \in Nat
    BY <1>6
  <2>3. QED
    BY <1>6, <2>1, <2>2, ConcatProperties
<1>. HIDE DEF q
<1>8. ASSUME NEW v \in W \ {w} PROVE q[Rank(W, age2, v) + 1] = f2[v]
  <2>. DEFINE k == Rank(W, age2, v)
              m == Rank(W, age, v)
  <2>1. /\ m \in 0 .. Cardinality(W) - 1 /\ Rank(W, age, w) \in 0 .. Cardinality(W) - 1
        /\ r[m + 1] = f[v] /\ Cardinality(W) \in Nat
    BY <1>4, <1>5
  <2>2. CASE age[w] < age[v]
    <3>1. k = m /\ Rank(W, age, w) < m
      BY <1>2, <1>5, <2>2
    <3>2. k \in 1 .. Len(r) - 1 /\ ~(k < at)
      BY <1>4, <2>1, <3>1
    <3>3. q[k + 1] = r[k + 1]
      BY <1>6, <1>7, <3>2
    <3>4. QED
      BY <1>1, <2>1, <3>1, <3>3
  <2>3. CASE ~(age[w] < age[v])
    <3>1. k = m + 1 /\ m < Rank(W, age, w)
      BY <1>2, <1>5, <2>3
    <3>2. k \in 1 .. Len(r) - 1 /\ k < at
      BY <1>4, <2>1, <3>1
    <3>3. q[k + 1] = r[k]
      BY <1>6, <1>7, <3>2
    <3>4. QED
      BY <1>1, <2>1, <3>1, <3>3
  <2>4. QED
    BY <2>2, <2>3
<1>9. q[Rank(W, age2, w) + 1] = f2[w]
  BY <1>2, <1>7
<1>10. Len(q) = Cardinality(W)
  BY <1>4, <1>6, <1>7
<1>11. q = Ranked(W, age2, f2)
  BY <1>2, <1>7, <1>8, <1>9, <1>10, RankedBy
<1>12. QED
  BY <1>11 DEF q, rest, r, Cons

-----------------------------------------------------------------------------
(* TraceCache implements SharedCache *)

\* A hit makes its way the youngest and keeps the order of the others.
LEMMA HitToFront ==
    ASSUME NEW W \in SUBSET Ways, NEW age \in [Ways -> Ages], Apart(W, age), NEW w \in W,
           NEW f, NEW f2, \A v \in W \ {w} : f2[v] = f[v]
    PROVE  ToFront(W, w, age, f, UpdateLru(age, w, TRUE), f2)
<1>. DEFINE age2 == UpdateLru(age, w, TRUE)
<1>1. ASSUME NEW v \in W \ {w}
      PROVE  /\ age2[v] = IF age[v] > age[w] THEN age[v] ELSE age[v] + 1
             /\ age[v] # age[w] /\ age[v] \in Nat /\ age[w] \in Nat
  <2>1. age[v] \in 0 .. AgeMod - 1 /\ age[w] \in 0 .. AgeMod - 1 /\ age[v] # age[w]
    BY DEF Apart, Ages
  <2>2. age2[v] = IF age[v] >= age[w] THEN age[v] ELSE (age[v] + 1) % AgeMod
    BY DEF UpdateLru
  <2>3. age[v] < age[w] => (age[v] + 1) % AgeMod = age[v] + 1
    <3>. HAVE age[v] < age[w]
    <3>1. age[v] + 1 \in 0 .. AgeMod - 1 /\ AgeMod \in Nat \ {0}
      BY <2>1, AgeModAssumption, NWaysAssumption
    <3>2. QED
      BY <3>1, ModSmall
  <2>4. age[v] >= age[w] => age2[v] = age[v]
    BY <2>2
  <2>5. age[v] < age[w] => age2[v] = age[v] + 1
    <3>. HAVE age[v] < age[w]
    <3>1. ~(age[v] >= age[w])
      BY <2>1
    <3>2. QED
      BY <2>2, <2>3, <3>1, Zenon
  <2>. HIDE DEF age2
  <2>6. QED
    BY <2>1, <2>4, <2>5
<1>2. age2[w] = 0
  BY DEF UpdateLru
<1>. HIDE DEF age2
<1>3. \A v \in W \ {w} : age2[v] \in Int /\ age2[w] < age2[v] /\ f2[v] = f[v]
  BY <1>1, <1>2
<1>4. \A u, v \in W \ {w} : age2[u] < age2[v] <=> age[u] < age[v]
  BY <1>1
<1>5. age2[w] \in Int
  BY <1>2
<1>6. ToFront(W, w, age, f, age2, f2)
  BY <1>3, <1>4, <1>5, Zenon DEF ToFront
<1>7. QED
  BY <1>6 DEF age2

\* So does a store, as long as no age wraps.
LEMMA StoreToFront ==
    ASSUME NEW W \in SUBSET Ways, NEW age \in [Ways -> Ages], Apart(W, age), NEW w \in Ways,
           NEW f, NEW f2, \A v \in W \ {w} : f2[v] = f[v],
           \A v \in W : age[v] < AgeMod - 1
    PROVE  ToFront(W, w, age, f, UpdateLru(age, w, FALSE), f2)
<1>. DEFINE age2 == UpdateLru(age, w, FALSE)
<1>1. ASSUME NEW v \in W \ {w} PROVE age2[v] = age[v] + 1 /\ age[v] \in Nat
  <2>1. age[v] \in 0 .. AgeMod - 1 /\ age[v] < AgeMod - 1
    BY DEF Ages
  <2>2. age2[v] = (age[v] + 1) % AgeMod
    BY DEF UpdateLru
  <2>3. age[v] + 1 \in 0 .. AgeMod - 1 /\ AgeMod \in Nat \ {0}
    BY <2>1, AgeModAssumption, NWaysAssumption
  <2>4. (age[v] + 1) % AgeMod = age[v] + 1
    BY <2>3, ModSmall
  <2>5. age2[v] = age[v] + 1
    BY <2>2, <2>4, Zenon
  <2>6. age[v] \in Nat
    BY <2>1
  <2>7. QED
    BY <2>5, <2>6
<1>2. age2[w] = 0
  BY DEF UpdateLru
<1>. HIDE DEF age2
<1>3. \A v \in W \ {w} : age2[v] \in Int /\ age2[w] < age2[v] /\ f2[v] = f[v]
  BY <1>1, <1>2
<1>4. \A u, v \in W \ {w} : age2[u] < age2[v] <=> age[u] < age[v]
  BY <1>1
<1>5. age2[w] \in Int
  BY <1>2
<1>6. ToFront(W, w, age, f, age2, f2)
  BY <1>3, <1>4, <1>5, Zenon DEF ToFront
<1>7. QED
  BY <1>6 DEF age2

\* The ages tell the traces of a set apart.
AgesDistinct == \A s \in SetIds : Apart(Occupied(s), lru[s])

\* A set has finitely many traces.
LEMMA OccupiedFinite == ASSUME NEW s \in SetIds PROVE IsFiniteSet(Occupied(s)) /\ Occupied(s) \subseteq Ways
<1>1. IsFiniteSet(Ways)
  BY NWaysAssumption, FS_Interval DEF Ways
<1>2. QED
  BY <1>1, FS_Subset DEF Occupied

\* A set whose ways, counts and ages stay, and whose traces stay in memory, keeps its shelf.
LEMMA ShelfKept ==
    ASSUME NEW s \in SetIds, Apart(Occupied(s), lru[s]),
           traces'[s] = traces[s], lru'[s] = lru[s], refcount'[s] = refcount[s],
           \A w \in Occupied(s) : heap'[traces[s][w]] = heap[traces[s][w]]
    PROVE  Apart(Occupied(s), lru[s])' /\ Shelves'[s] = Shelves[s]
<1>1. Occupied(s)' = Occupied(s)
  BY DEF Occupied
<1>2. Apart(Occupied(s)', lru'[s])
  BY <1>1
<1>3. \A w \in Occupied(s) : Entries(s)'[w] = Entries(s)[w]
  BY DEF Entries, Occupied
<1>4. Ranked(Occupied(s), lru[s], Entries(s)) = Ranked(Occupied(s), lru[s], Entries(s)')
  BY <1>3, RankedSame
<1>5. Shelves[s] = Ranked(Occupied(s), lru[s], Entries(s))
  BY DEF Shelves
<1>6. Shelves'[s] = Ranked(Occupied(s)', lru'[s], Entries(s)')
  BY DEF Shelves
<1>7. QED
  BY <1>1, <1>2, <1>4, <1>5, <1>6 DEF Apart

\* When every set keeps its shelf, nothing changes.
LEMMA ShelvesUnchanged ==
    ASSUME \A s \in SetIds : Apart(Occupied(s), lru[s])' /\ Shelves'[s] = Shelves[s]
    PROVE  AgesDistinct' /\ UNCHANGED Shelves
<1>1. AgesDistinct'
  BY DEF AgesDistinct
<1>2. Shelves = [s \in SetIds |-> Shelves[s]] /\ Shelves' = [s \in SetIds |-> Shelves'[s]]
  BY DEF Shelves
<1>3. QED
  BY <1>1, <1>2

\* A step of the atomic cache, or none.
AbstractStep == [Abstract!Next]_(Abstract!vars)

\* The steps that nobody but their thread sees.
LEMMA HiddenStep ==
    ASSUME IndInv, AgesDistinct,
           UNCHANGED <<traces, refcount, lru>>,
           \A s \in SetIds : \A w \in Occupied(s) : heap'[traces[s][w]] = heap[traces[s][w]],
           \A c \in Clients : (pc'[c] = "holding" <=> pc[c] = "holding")
                              /\ (pc[c] = "holding" => idx'[c] = idx[c]),
           closeAt' > 0 <=> closeAt > 0
    PROVE  AgesDistinct' /\ AbstractStep
<1>1. AgesDistinct' /\ UNCHANGED Shelves
  BY ShelfKept, ShelvesUnchanged DEF AgesDistinct
<1>2. UNCHANGED Loans
  BY DEF Loans
<1>3. UNCHANGED (closeAt > 0)
  OBVIOUS
<1>4. QED
  BY <1>1, <1>2, <1>3 DEF AbstractStep, Abstract!vars

\* Nobody sees a thread before it has its trace, nor what it does after a failure.
LEMMA QuietIsHidden ==
    ASSUME Cohesive, IndInv, AgesDistinct, NEW c \in Clients,
           \/ Get(c) \/ LookupEnter(c) \/ LookupLeave(c) \/ LookupInitFails(c)
           \/ LookupNested(c) \/ ScanMiss(c) \/ AllocFails(c) \/ Fill(c)
           \/ StoreEnter(c) \/ StoreLeave(c)
    PROVE  AgesDistinct' /\ AbstractStep
<1>1. UNCHANGED <<traces, refcount, lru, heap, closeAt>>
  BY DEF Get, LookupEnter, LookupLeave, LookupInitFails, LookupNested, ScanMiss, AllocFails,
         Fill, StoreEnter, StoreLeave, setVars
<1>2. \A d \in Clients : (pc'[d] = "holding" <=> pc[d] = "holding")
                         /\ (pc[d] = "holding" => idx'[d] = idx[d])
  BY DEF IndInv, TypeOK, Get, LookupEnter, LookupLeave, LookupInitFails, LookupNested, ScanMiss,
         AllocFails, Fill, StoreEnter, StoreLeave, Goto
<1>3. QED
  BY <1>1, <1>2, HiddenStep

\* A set gets its first ages while it is empty.
LEMMA LookupInitIsHidden ==
    ASSUME IndInv, AgesDistinct, NEW c \in Clients, LookupInit(c)
    PROVE  AgesDistinct' /\ AbstractStep
<1>1. PICK s \in SetIds : s = MySet(c)
  BY SetOfType DEF IndInv, TypeOK, MySet
<1>2. /\ UNCHANGED <<traces, refcount, heap, closeAt, idx>>
      /\ lru' = [lru EXCEPT ![s] = FreshAges]
      /\ pc[c] = "lookup" /\ pc' = [pc EXCEPT ![c] = "lookup_nested"]
  BY <1>1 DEF LookupInit, Goto
<1>3. Occupied(s) = {}
  BY <1>1 DEF IndInv, Initialising, LookupInit
<1>4. ASSUME NEW t \in SetIds PROVE Apart(Occupied(t), lru[t])' /\ Shelves'[t] = Shelves[t]
  <2>1. CASE t = s
    <3>1. Occupied(t)' = {}
      BY <1>2, <1>3, <2>1 DEF Occupied
    <3>2. Apart({}, lru'[t])
      BY FS_EmptySet DEF Apart
    <3>3. \A age, f, age2, f2 : Ranked({}, age, f) = Ranked({}, age2, f2)
      BY FS_EmptySet DEF Ranked
    <3>4. Shelves[t] = Ranked({}, lru[t], Entries(t))
      BY <1>3, <2>1 DEF Shelves
    <3>5. Shelves'[t] = Ranked({}, lru'[t], Entries(t)')
      BY <3>1 DEF Shelves
    <3>6. QED
      BY <3>1, <3>2, <3>3, <3>4, <3>5
  <2>2. CASE t # s
    <3>1. lru'[t] = lru[t]
      BY <1>2, <2>2 DEF IndInv, TypeOK
    <3>2. QED
      BY <1>2, <3>1, ShelfKept DEF AgesDistinct
  <2>3. QED
    BY <2>1, <2>2
<1>5. AgesDistinct' /\ UNCHANGED Shelves
  BY <1>4, ShelvesUnchanged
<1>6. UNCHANGED Loans
  BY <1>2 DEF Loans, IndInv, TypeOK
<1>7. UNCHANGED (closeAt > 0)
  BY <1>2
<1>8. QED
  BY <1>5, <1>6, <1>7 DEF AbstractStep, Abstract!vars

\* The memory of a trace that is in no set comes
LEMMA AllocIsHidden ==
    ASSUME IndInv, AgesDistinct, NEW c \in Clients, Alloc(c)
    PROVE  AgesDistinct' /\ AbstractStep
<1>1. PICK a \in Addrs : heap[a] = FREE /\ heap' = [heap EXCEPT ![a] = idx[c]]
  BY DEF Alloc
<1>2. /\ UNCHANGED <<traces, refcount, lru, idx, closeAt>>
      /\ pc[c] = "calloc" /\ pc' = [pc EXCEPT ![c] = "fill"]
  BY DEF Alloc, Goto, setVars
<1>3. ASSUME NEW s \in SetIds, NEW w \in Occupied(s) PROVE heap'[traces[s][w]] = heap[traces[s][w]]
  <2>1. heap[traces[s][w]] \in Indices
    BY DEF IndInv, NoDangling
  <2>2. traces[s][w] # a
    BY <1>1, <2>1 DEF FREE, Indices
  <2>3. QED
    BY <1>1, <2>2 DEF IndInv, TypeOK
<1>4. \A d \in Clients : pc'[d] = "holding" <=> pc[d] = "holding"
  BY <1>2 DEF IndInv, TypeOK
<1>5. QED
  BY <1>2, <1>3, <1>4, HiddenStep

\* and goes.
LEMMA DropIsHidden ==
    ASSUME IndInv, AgesDistinct, NEW c \in Clients, FillFails(c) \/ PlaceFails(c)
    PROVE  AgesDistinct' /\ AbstractStep
<1>1. /\ Filling(c)
      /\ heap' = [heap EXCEPT ![ptr[c]] = FREE]
      /\ UNCHANGED <<traces, refcount, lru, idx, closeAt>>
      /\ pc' = [pc EXCEPT ![c] = "idle"]
  BY DEF FillFails, PlaceFails, MayPlace, Filling, Drop, Goto, setVars
<1>2. ASSUME NEW s \in SetIds, NEW w \in Occupied(s) PROVE heap'[traces[s][w]] = heap[traces[s][w]]
  <2>1. traces[s][w] # ptr[c]
    BY <1>1 DEF IndInv, PlaceOfTraces, Cached, Occupied
  <2>2. traces[s][w] \in Addrs
    BY DEF IndInv, TypeOK, Occupied
  <2>3. QED
    BY <1>1, <2>1, <2>2 DEF IndInv, TypeOK
<1>3. \A d \in Clients : pc'[d] = "holding" <=> pc[d] = "holding"
  BY <1>1 DEF IndInv, TypeOK, Filling
<1>4. QED
  BY <1>1, <1>2, <1>3, HiddenStep

\* tc_free begins.
LEMMA CloseBeginIsHidden ==
    ASSUME IndInv, AgesDistinct, CloseBegin
    PROVE  AgesDistinct' /\ AbstractStep
<1>1. UNCHANGED <<pc, idx, traces, refcount, lru, heap>> /\ closeAt = NotClosing /\ closeAt' = 0
  BY DEF CloseBegin, clientVars, setVars
<1>2. closeAt' > 0 <=> closeAt > 0
  BY <1>1 DEF NotClosing
<1>3. QED
  BY <1>1, <1>2, HiddenStep

\* A step that changes nothing.
LEMMA StutterIsHidden ==
    ASSUME IndInv, AgesDistinct, UNCHANGED vars
    PROVE  AgesDistinct' /\ AbstractStep
<1>1. UNCHANGED <<pc, idx, traces, refcount, lru, heap, closeAt>>
  BY DEF vars, clientVars, setVars
<1>2. QED
  BY <1>1, HiddenStep

\* What tc_free takes away is empty afterwards.
LEMMA CloseSetEmpties ==
    ASSUME IndInv, AgesDistinct, CloseSet
    PROVE  AgesDistinct' /\ AbstractStep
<1>1. PICK n \in SetIds : n = closeAt
  BY DEF CloseSet
<1>2. /\ heap' = [a \in Addrs |-> IF \E w \in Ways : traces[n][w] = a THEN FREE ELSE heap[a]]
      /\ traces' = [traces EXCEPT ![n] = [w \in Ways |-> NULL]]
      /\ closeAt' = n + 1
      /\ UNCHANGED <<pc, idx, refcount, lru>>
  BY <1>1 DEF CloseSet, clientVars
<1>3. \A c \in Clients : pc[c] = "idle"
  BY <1>1 DEF IndInv, Closing, NotClosing, SetIds
<1>4. ASSUME NEW t \in SetIds \ {n} PROVE Apart(Occupied(t), lru[t])' /\ Shelves'[t] = Shelves[t]
  <2>1. traces'[t] = traces[t]
    BY <1>2 DEF IndInv, TypeOK
  <2>2. ASSUME NEW w \in Occupied(t) PROVE heap'[traces[t][w]] = heap[traces[t][w]]
    <3>1. \A v \in Ways : traces[n][v] # traces[t][w]
      BY SlotUnique DEF Occupied
    <3>2. traces[t][w] \in Addrs
      BY DEF IndInv, TypeOK, Occupied
    <3>3. QED
      BY <1>2, <3>1, <3>2
  <2>3. QED
    BY <1>2, <2>1, <2>2, ShelfKept DEF AgesDistinct
<1>5. Apart(Occupied(n), lru[n])' /\ Shelves'[n] = <<>>
  <2>1. Occupied(n)' = {}
    BY <1>2 DEF IndInv, TypeOK, Occupied
  <2>2. Apart({}, lru'[n])
    BY FS_EmptySet DEF Apart
  <2>3. \A age, f : Ranked({}, age, f) = <<>>
    BY FS_EmptySet DEF Ranked
  <2>4. Shelves'[n] = Ranked({}, lru'[n], Entries(n)')
    BY <2>1 DEF Shelves
  <2>5. QED
    BY <2>1, <2>2, <2>3, <2>4
<1>6. AgesDistinct'
  BY <1>4, <1>5 DEF AgesDistinct
<1>7. Shelves' = [Shelves EXCEPT ![n] = <<>>]
  <2>1. Shelves = [s \in SetIds |-> Shelves[s]] /\ Shelves' = [s \in SetIds |-> Shelves'[s]]
    BY DEF Shelves
  <2>2. \A t \in SetIds : Shelves'[t] = IF t = n THEN <<>> ELSE Shelves[t]
    BY <1>4, <1>5
  <2>3. QED
    BY <2>1, <2>2
<1>8. UNCHANGED Loans /\ \A c \in Clients : Loans[c] = FREE
  BY <1>2, <1>3 DEF Loans
<1>9. (closeAt > 0)' = TRUE
  BY <1>2 DEF SetIds
<1>10. Abstract!Empty(n)
  BY <1>7, <1>8, <1>9 DEF Abstract!Empty
<1>11. QED
  BY <1>6, <1>10 DEF AbstractStep, Abstract!Next, Abstract!SetIds, SetIds

\* A new shelf in one place.
LEMMA ShelvesExcept ==
    ASSUME NEW s \in SetIds, NEW q, Apart(Occupied(s), lru[s])', Shelves'[s] = q,
           \A t \in SetIds \ {s} : Apart(Occupied(t), lru[t])' /\ Shelves'[t] = Shelves[t]
    PROVE  AgesDistinct' /\ Shelves' = [Shelves EXCEPT ![s] = q]
<1>1. AgesDistinct'
  BY DEF AgesDistinct
<1>2. Shelves = [t \in SetIds |-> Shelves[t]] /\ Shelves' = [t \in SetIds |-> Shelves'[t]]
  BY DEF Shelves
<1>3. QED
  BY <1>1, <1>2

\* The place of a way on the shelf of its set, and what is there.
LEMMA OnShelf ==
    ASSUME AgesDistinct, NEW s \in SetIds
    PROVE  /\ Shelves[s] = Ranked(Occupied(s), lru[s], Entries(s))
           /\ Cardinality(Occupied(s)) \in Nat
           /\ DOMAIN Shelves[s] = 1 .. Cardinality(Occupied(s))
           /\ Len(Shelves[s]) = Cardinality(Occupied(s))
           /\ \A w \in Occupied(s) :
                /\ Rank(Occupied(s), lru[s], w) \in Nat
                /\ Rank(Occupied(s), lru[s], w) + 1 \in DOMAIN Shelves[s]
                /\ Shelves[s][Rank(Occupied(s), lru[s], w) + 1] =
                        [index |-> heap[traces[s][w]], refs |-> refcount[s][w]]
           /\ \A k \in DOMAIN Shelves[s] :
                \E w \in Occupied(s) : k = Rank(Occupied(s), lru[s], w) + 1
<1>. DEFINE W == Occupied(s)
            R(w) == Rank(W, lru[s], w)
<1>1. Apart(W, lru[s])
  BY DEF AgesDistinct
<1>2. Shelves[s] = Ranked(W, lru[s], Entries(s))
  BY DEF Shelves
<1>3. /\ Cardinality(W) \in Nat
      /\ DOMAIN Shelves[s] = 1 .. Cardinality(W) /\ Len(Shelves[s]) = Cardinality(W)
      /\ \A w \in W : R(w) + 1 \in 1 .. Cardinality(W) /\ Shelves[s][R(w) + 1] = Entries(s)[w]
  BY <1>1, <1>2, RankedIs
<1>4. /\ \A w \in W : R(w) \in Nat
      /\ \A k \in 1 .. Cardinality(W) : \E w \in W : R(w) = k - 1
  BY <1>1, <1>3, Ranks
<1>5. \A w \in W : Entries(s)[w] = [index |-> heap[traces[s][w]], refs |-> refcount[s][w]]
  BY DEF Entries, Occupied
<1>. HIDE DEF R
<1>6. ASSUME NEW k \in 1 .. Cardinality(W) PROVE \E w \in W : k = R(w) + 1
  <2>1. PICK w \in W : R(w) = k - 1
    BY <1>4
  <2>2. k = R(w) + 1
    BY <2>1
  <2>3. QED
    BY <2>2
<1>7. QED
  BY <1>2, <1>3, <1>4, <1>5, <1>6 DEF R

\* A hit is a hit of the atomic cache, in the step that takes the reference.
LEMMA ScanHitBorrows ==
    ASSUME Cohesive, IndInv, AgesDistinct, NEW c \in Clients, ScanHit(c)
    PROVE  AgesDistinct' /\ AbstractStep
<1>1. PICK s \in SetIds : s = MySet(c)
  BY SetOfType DEF IndInv, TypeOK, MySet
<1>2. PICK w \in Occupied(s) :
          /\ heap[traces[s][w]] = idx[c]
          /\ lru' = [lru EXCEPT ![s] = UpdateLru(@, w, TRUE)]
          /\ refcount' = [refcount EXCEPT ![s][w] = (@ + 1) % RefMod]
          /\ ptr' = [ptr EXCEPT ![c] = traces[s][w]]
  BY <1>1 DEF ScanHit, Hit, WaysWith
<1>3. /\ pc[c] = "scan"
      /\ pc' = [pc EXCEPT ![c] = "holding"]
      /\ UNCHANGED <<idx, traces, heap, closeAt>>
  BY DEF ScanHit, Goto
<1>4. w \in Ways /\ traces[s][w] \in Addrs /\ Occupied(s)' = Occupied(s)
  BY <1>2, <1>3 DEF Occupied, IndInv, TypeOK
<1>5. refcount'[s][w] = refcount[s][w] + 1
  <2>. DEFINE H == Holders(traces[s][w])
  <2>1. refcount[s][w] = Cardinality(H)
    BY <1>2 DEF IndInv, RefcountExact
  <2>2. c \notin H /\ H \union {c} \subseteq Clients
    BY <1>3 DEF Holders
  <2>3. Cardinality(H \union {c}) = Cardinality(H) + 1
    BY <2>2, HoldersFinite, FS_AddElement
  <2>4. Cardinality(H \union {c}) <= Cardinality(Clients)
    BY <2>2, RefModAssumption, FS_Subset
  <2>5. Cardinality(H) \in Nat /\ Cardinality(Clients) \in Nat
    BY HoldersFinite, RefModAssumption, FS_CardinalityType
  <2>. HIDE DEF H
  <2>6. refcount[s][w] + 1 \in 0 .. RefMod - 1 /\ RefMod \in Nat \ {0}
    BY <2>1, <2>3, <2>4, <2>5, RefModAssumption
  <2>7. (refcount[s][w] + 1) % RefMod = refcount[s][w] + 1
    BY <2>6, ModSmall
  <2>8. refcount'[s][w] = (refcount[s][w] + 1) % RefMod
    BY <1>2, <1>4 DEF IndInv, TypeOK
  <2>9. QED
    BY <2>7, <2>8
<1>6. \A v \in Ways \ {w} : refcount'[s][v] = refcount[s][v]
  BY <1>2 DEF IndInv, TypeOK
<1>. DEFINE W == Occupied(s)
            age == lru[s]
            at == Rank(W, age, w) + 1
            entry == [index |-> idx[c], refs |-> Shelves[s][at].refs + 1]
<1>7. lru'[s] = UpdateLru(age, w, TRUE)
  BY <1>2 DEF IndInv, TypeOK
<1>8. ToFront(W, w, age, Entries(s), lru'[s], Entries(s)')
  <2>1. \A v \in W \ {w} : Entries(s)'[v] = Entries(s)[v]
    BY <1>3, <1>6 DEF Entries, Occupied
  <2>2. age \in [Ways -> Ages] /\ Apart(W, age) /\ W \in SUBSET Ways
    BY OccupiedFinite DEF IndInv, TypeOK, AgesDistinct
  <2>3. QED
    BY <1>7, <2>1, <2>2, HitToFront
<1>a. at \in DOMAIN Shelves[s] /\ Shelves[s][at] = [index |-> heap[traces[s][w]], refs |-> refcount[s][w]]
  BY OnShelf
<1>9. Entries(s)'[w] = entry
  <2>1. Shelves[s][at].refs = refcount[s][w]
    BY <1>a
  <2>2. Entries(s)'[w] = [index |-> heap'[traces'[s][w]], refs |-> refcount'[s][w]]
    BY <1>4 DEF Entries
  <2>3. heap'[traces'[s][w]] = idx[c]
    BY <1>2, <1>3
  <2>. HIDE DEF at
  <2>4. QED
    BY <1>5, <2>1, <2>2, <2>3
<1>10. Apart(W, lru'[s]) /\ Ranked(W, lru'[s], Entries(s)') = Cons(Entries(s)'[w], RemoveAt(Shelves[s], at))
  <2>1. W \union {w} = W
    OBVIOUS
  <2>2. Shelves[s] = Ranked(W, age, Entries(s))
    BY OnShelf
  <2>3. Apart(W \union {w}, lru'[s])
    BY <1>8, FrontRanks
  <2>4. Ranked(W, lru'[s], Entries(s)') = Cons(Entries(s)'[w], RemoveAt(Ranked(W, age, Entries(s)), at))
    BY <1>8, FrontAgain
  <2>5. QED
    BY <2>1, <2>2, <2>3, <2>4
<1>11. Apart(Occupied(s), lru[s])' /\ Shelves'[s] = <<entry>> \o RemoveAt(Shelves[s], at)
  <2>1. Shelves'[s] = Ranked(W, lru'[s], Entries(s)')
    BY <1>4 DEF Shelves
  <2>2. QED
    BY <1>4, <1>9, <1>10, <2>1 DEF Cons
<1>12. ASSUME NEW t \in SetIds \ {s} PROVE Apart(Occupied(t), lru[t])' /\ Shelves'[t] = Shelves[t]
  <2>1. lru'[t] = lru[t] /\ refcount'[t] = refcount[t]
    BY <1>2 DEF IndInv, TypeOK
  <2>2. QED
    BY <1>3, <2>1, ShelfKept DEF AgesDistinct
<1>13. AgesDistinct' /\ Shelves' = [Shelves EXCEPT ![s] = <<entry>> \o RemoveAt(Shelves[s], at)]
  <2>. HIDE DEF entry, at
  <2>1. QED
    BY <1>11, <1>12, ShelvesExcept
<1>14. Loans[c] = FREE /\ Loans' = [Loans EXCEPT ![c] = idx[c]]
  <2>1. Loans[c] = FREE
    BY <1>3 DEF Loans
  <2>2. \A d \in Clients : Loans'[d] = IF d = c THEN idx[c] ELSE Loans[d]
    BY <1>3 DEF Loans, IndInv, TypeOK
  <2>3. Loans = [d \in Clients |-> Loans[d]] /\ Loans' = [d \in Clients |-> Loans'[d]]
    BY DEF Loans
  <2>4. QED
    BY <2>1, <2>2, <2>3
<1>15. ~(closeAt > 0) /\ (closeAt > 0)' = (closeAt > 0)
  <2>1. closeAt = NotClosing
    BY <1>3 DEF IndInv, Closing
  <2>2. QED
    BY <1>3, <2>1 DEF NotClosing
<1>16. Abstract!BorrowHit(c, idx[c])
  <2>1. Abstract!SetOf(idx[c]) = s
    BY <1>1 DEF MySet, SetOf, Abstract!SetOf
  <2>2. at \in DOMAIN Shelves[s] /\ Shelves[s][at].index = idx[c]
    BY <1>2, <1>a
  <2>3. entry.index = idx[c]
    OBVIOUS
  <2>4. Abstract!Lend(c, s, RemoveAt(Shelves[s], at), entry)
    <3>. HIDE DEF entry, at
    <3>1. QED
      BY <1>13, <1>14, <1>15, <2>3 DEF Abstract!Lend
  <2>. HIDE DEF at
  <2>5. \E k \in DOMAIN Shelves[s] :
            /\ Shelves[s][k].index = idx[c]
            /\ Abstract!Lend(c, s, RemoveAt(Shelves[s], k),
                             [index |-> idx[c], refs |-> Shelves[s][k].refs + 1])
    BY <2>2, <2>4
  <2>6. QED
    BY <2>1, <2>5 DEF Abstract!BorrowHit, Abstract!RemoveAt, RemoveAt
<1>17. idx[c] \in Abstract!Indices
  BY DEF IndInv, TypeOK, Indices, Abstract!Indices
<1>18. QED
  BY <1>13, <1>14, <1>15, <1>16, <1>17 DEF AbstractStep, Abstract!Next

\* tc_deref gives back what its client has on loan.
LEMMA DerefReturns ==
    ASSUME Cohesive, IndInv, AgesDistinct, NEW c \in Clients, Deref(c)
    PROVE  AgesDistinct' /\ AbstractStep
<1>1. PICK s \in SetIds, w \in Ways :
          /\ s = MySet(c)
          /\ traces[s][w] = ptr[c] /\ ptr[c] \in Addrs
          /\ refcount' = [refcount EXCEPT ![s][w] = (@ - 1) % RefMod]
          /\ heap' = heap
  BY DerefFinds
<1>2. /\ pc[c] = "holding"
      /\ pc' = [pc EXCEPT ![c] = "idle"]
      /\ UNCHANGED <<idx, traces, lru, closeAt>>
  BY DEF Deref, Goto
<1>3. w \in Occupied(s) /\ heap[traces[s][w]] = idx[c] /\ Occupied(s)' = Occupied(s)
  BY <1>1, <1>2, NamesAssumption DEF Occupied, IndInv, NoDangling
<1>4. refcount'[s][w] = refcount[s][w] - 1
  <2>. DEFINE H == Holders(traces[s][w])
  <2>1. refcount[s][w] = Cardinality(H)
    BY <1>3 DEF IndInv, RefcountExact
  <2>2. c \in H
    BY <1>1, <1>2 DEF Holders
  <2>3. Cardinality(H) \in Nat /\ Cardinality(H) # 0 /\ Cardinality(H) < RefMod
    BY <2>2, HoldersFinite, FS_EmptySet
  <2>. HIDE DEF H
  <2>4. refcount[s][w] - 1 \in 0 .. RefMod - 1 /\ RefMod \in Nat \ {0}
    BY <2>1, <2>3, RefModAssumption
  <2>5. (refcount[s][w] - 1) % RefMod = refcount[s][w] - 1
    BY <2>4, ModSmall
  <2>6. refcount'[s][w] = (refcount[s][w] - 1) % RefMod
    BY <1>1 DEF IndInv, TypeOK
  <2>7. QED
    BY <2>5, <2>6
<1>5. \A v \in Ways \ {w} : refcount'[s][v] = refcount[s][v]
  BY <1>1 DEF IndInv, TypeOK
<1>. DEFINE W == Occupied(s)
            age == lru[s]
            at == Rank(W, age, w) + 1
            q == [Shelves[s] EXCEPT ![at].refs = @ - 1]
<1>6. at \in DOMAIN Shelves[s] /\ Shelves[s][at] = [index |-> heap[traces[s][w]], refs |-> refcount[s][w]]
  BY <1>3, OnShelf
<1>7. Entries(s)'[w] = [Shelves[s][at] EXCEPT !.refs = @ - 1]
  <2>1. Entries(s)'[w] = [index |-> heap'[traces'[s][w]], refs |-> refcount'[s][w]]
    BY DEF Entries
  <2>2. heap'[traces'[s][w]] = heap[traces[s][w]]
    BY <1>1, <1>2
  <2>. HIDE DEF at
  <2>3. QED
    BY <1>4, <1>6, <2>1, <2>2
<1>8. Apart(Occupied(s), lru[s])' /\ Shelves'[s] = q
  <2>1. Apart(W, age)
    BY DEF AgesDistinct
  <2>2. \A v \in W \ {w} : Entries(s)[v] = Entries(s)'[v]
    BY <1>1, <1>2, <1>5 DEF Entries, Occupied
  <2>3. Ranked(W, age, Entries(s)') = ReplaceAt(Ranked(W, age, Entries(s)), at, Entries(s)'[w])
    BY <1>3, <2>1, <2>2, RankedUpdate
  <2>4. Shelves'[s] = Ranked(W, age, Entries(s)')
    BY <1>2, <1>3 DEF Shelves
  <2>5. Shelves[s] = Ranked(W, age, Entries(s))
    BY OnShelf
  <2>. HIDE DEF at
  <2>6. Shelves'[s] = [Shelves[s] EXCEPT ![at] = [Shelves[s][at] EXCEPT !.refs = @ - 1]]
    BY <1>7, <2>3, <2>4, <2>5, Zenon DEF ReplaceAt
  <2>7. QED
    BY <1>2, <1>3, <2>1, <2>6 DEF Apart
<1>9. ASSUME NEW t \in SetIds \ {s} PROVE Apart(Occupied(t), lru[t])' /\ Shelves'[t] = Shelves[t]
  <2>1. lru'[t] = lru[t] /\ refcount'[t] = refcount[t]
    BY <1>1, <1>2 DEF IndInv, TypeOK
  <2>2. QED
    BY <1>1, <1>2, <2>1, ShelfKept DEF AgesDistinct
<1>10. AgesDistinct' /\ Shelves' = [Shelves EXCEPT ![s] = q]
  <2>. HIDE DEF q
  <2>1. QED
    BY <1>8, <1>9, ShelvesExcept
<1>11. Loans[c] = idx[c] /\ idx[c] # FREE /\ Loans' = [Loans EXCEPT ![c] = FREE]
  <2>1. Loans[c] = idx[c] /\ idx[c] # FREE
    BY <1>2 DEF Loans, IndInv, TypeOK, Indices, FREE
  <2>2. \A d \in Clients : Loans'[d] = IF d = c THEN FREE ELSE Loans[d]
    BY <1>2 DEF Loans, IndInv, TypeOK
  <2>3. Loans = [d \in Clients |-> Loans[d]] /\ Loans' = [d \in Clients |-> Loans'[d]]
    BY DEF Loans
  <2>4. QED
    BY <2>1, <2>2, <2>3
<1>12. (closeAt > 0)' = (closeAt > 0)
  BY <1>2
<1>13. Abstract!Return(c)
  <2>1. Abstract!SetOf(Loans[c]) = s
    BY <1>1, <1>11 DEF MySet, SetOf, Abstract!SetOf
  <2>2. Shelves[s][at].index = Loans[c]
    BY <1>3, <1>6, <1>11
  <2>3. Shelves' = [Shelves EXCEPT ![s][at].refs = @ - 1]
    BY <1>10
  <2>. HIDE DEF at
  <2>4. QED
    BY <1>6, <1>11, <1>12, <2>1, <2>2, <2>3 DEF Abstract!Return
<1>14. QED
  BY <1>10, <1>11, <1>13 DEF AbstractStep, Abstract!Next

\* What a store does, with its way named.
LEMMA PlaceStores ==
    ASSUME Cohesive, IndInv, NEW c \in Clients, Place(c)
    PROVE  \E s \in SetIds, w \in Ways :
              /\ s = MySet(c) /\ w \in Highest(lru[s], Candidates(s))
              /\ ptr[c] \in Addrs /\ ptr[c] # traces[s][w]
              /\ heap[ptr[c]] = idx[c] /\ heap'[ptr[c]] = idx[c]
              /\ \A t \in SetIds : \A v \in Occupied(t) :
                    heap[traces[t][v]] # idx[c]
                    /\ (~(t = s /\ v = w) => heap'[traces[t][v]] = heap[traces[t][v]])
              /\ traces' = [traces EXCEPT ![s][w] = ptr[c]]
              /\ refcount' = [refcount EXCEPT ![s][w] = 1]
              /\ lru' = [lru EXCEPT ![s] = UpdateLru(@, w, FALSE)]
<1>1. PICK s \in SetIds : s = MySet(c)
  BY SetOfType DEF IndInv, TypeOK, MySet
<1>2. PICK w \in Highest(lru[s], Candidates(s)) :
          /\ heap' = [a \in Addrs |-> IF a = traces[s][w] THEN FREE ELSE heap[a]]
          /\ traces' = [traces EXCEPT ![s][w] = ptr[c]]
          /\ refcount' = [refcount EXCEPT ![s][w] = 1]
          /\ lru' = [lru EXCEPT ![s] = UpdateLru(@, w, FALSE)]
  BY <1>1, ZenonT(60) DEF Place
<1>3. w \in Ways
  BY DEF Highest, Candidates
<1>4. pc[c] = "place" /\ Filling(c)
  BY DEF Place, MayPlace, Filling
<1>5. ptr[c] \in Addrs /\ ~Cached(ptr[c])
  BY <1>4, PrivateTrace
<1>6. ptr[c] # traces[s][w] /\ heap[ptr[c]] = idx[c] /\ heap'[ptr[c]] = idx[c]
  <2>1. ptr[c] # traces[s][w]
    BY <1>3, <1>5 DEF Cached
  <2>2. heap[ptr[c]] = idx[c]
    BY <1>4 DEF IndInv, NoDangling
  <2>3. QED
    BY <1>2, <1>5, <2>1, <2>2
<1>7. ASSUME NEW t \in SetIds, NEW v \in Occupied(t)
      PROVE  /\ heap[traces[t][v]] # idx[c]
             /\ ~(t = s /\ v = w) => heap'[traces[t][v]] = heap[traces[t][v]]
  <2>1. v \in Ways /\ traces[t][v] # NULL /\ traces[t][v] \in Addrs
    BY DEF Occupied, IndInv, TypeOK
  <2>2. heap[traces[t][v]] # idx[c]
    <3>1. traces[t][v] # ptr[c]
      BY <1>5, <2>1 DEF Cached
    <3>2. heap[ptr[c]] # FREE
      BY <1>6 DEF IndInv, TypeOK, Indices, FREE
    <3>3. QED
      BY <1>5, <1>6, <2>1, <3>1, <3>2 DEF IndInv, OneTracePerIndex
  <2>3. ASSUME ~(t = s /\ v = w) PROVE heap'[traces[t][v]] = heap[traces[t][v]]
    <3>1. traces[t][v] # traces[s][w]
      BY <1>3, <2>1, <2>3, SlotUnique
    <3>2. QED
      BY <1>2, <2>1, <3>1
  <2>4. QED
    BY <2>2, <2>3
<1>8. QED
  BY <1>1, <1>2, <1>3, <1>5, <1>6, <1>7

\* A store is a miss of the atomic cache: it takes a free place, or that of the last
\* trace nobody holds.
LEMMA PlaceBorrows ==
    ASSUME Cohesive, IndInv, AgesDistinct, AgesLow, NEW c \in Clients, Place(c)
    PROVE  AgesDistinct' /\ AbstractStep
<1>1. PICK s \in SetIds, w \in Ways :
              /\ s = MySet(c) /\ w \in Highest(lru[s], Candidates(s))
              /\ ptr[c] \in Addrs /\ ptr[c] # traces[s][w]
              /\ heap[ptr[c]] = idx[c] /\ heap'[ptr[c]] = idx[c]
              /\ \A t \in SetIds : \A v \in Occupied(t) :
                    heap[traces[t][v]] # idx[c]
                    /\ (~(t = s /\ v = w) => heap'[traces[t][v]] = heap[traces[t][v]])
              /\ traces' = [traces EXCEPT ![s][w] = ptr[c]]
              /\ refcount' = [refcount EXCEPT ![s][w] = 1]
              /\ lru' = [lru EXCEPT ![s] = UpdateLru(@, w, FALSE)]
  BY PlaceStores
<1>2. /\ pc[c] = "place"
      /\ pc' = [pc EXCEPT ![c] = "holding"]
      /\ UNCHANGED <<idx, closeAt>>
  BY DEF Place, MayPlace, Goto
<1>. DEFINE W == Occupied(s)
            age == lru[s]
            at == Rank(W, age, w) + 1
            entry == [index |-> idx[c], refs |-> 1]
<1>3. traces'[s][w] = ptr[c] /\ refcount'[s][w] = 1 /\ lru'[s] = UpdateLru(age, w, FALSE)
  BY <1>1 DEF IndInv, TypeOK
<1>4. \A v \in Ways \ {w} : traces'[s][v] = traces[s][v] /\ refcount'[s][v] = refcount[s][v]
  BY <1>1 DEF IndInv, TypeOK
<1>5. Occupied(s)' = W \union {w}
  BY <1>1, <1>3, <1>4, NamesAssumption DEF Occupied
<1>6. Entries(s)'[w] = entry
  <2>1. Entries(s)'[w] = [index |-> heap'[traces'[s][w]], refs |-> refcount'[s][w]]
    BY DEF Entries
  <2>2. QED
    BY <1>1, <1>3, <2>1
<1>7. ToFront(W, w, age, Entries(s), lru'[s], Entries(s)')
  <2>1. \A v \in W \ {w} : Entries(s)'[v] = Entries(s)[v]
    BY <1>1, <1>4 DEF Entries, Occupied
  <2>2. age \in [Ways -> Ages] /\ Apart(W, age) /\ W \in SUBSET Ways
    BY OccupiedFinite DEF IndInv, TypeOK, AgesDistinct
  <2>3. \A v \in W : age[v] < AgeMod - 1
    BY DEF AgesLow
  <2>4. QED
    BY <1>3, <2>1, <2>2, <2>3, StoreToFront
<1>8. Apart(Occupied(s), lru[s])' /\ Shelves'[s] = Ranked(W \union {w}, lru'[s], Entries(s)')
  <2>1. Apart(W \union {w}, lru'[s])
    BY <1>7, FrontRanks
  <2>2. Shelves'[s] = Ranked(Occupied(s)', lru'[s], Entries(s)')
    BY DEF Shelves
  <2>3. QED
    BY <1>5, <2>1, <2>2
<1>9. ASSUME NEW t \in SetIds \ {s} PROVE Apart(Occupied(t), lru[t])' /\ Shelves'[t] = Shelves[t]
  <2>1. traces'[t] = traces[t] /\ lru'[t] = lru[t] /\ refcount'[t] = refcount[t]
    BY <1>1 DEF IndInv, TypeOK
  <2>2. \A v \in Occupied(t) : heap'[traces[t][v]] = heap[traces[t][v]]
    BY <1>1
  <2>3. QED
    BY <2>1, <2>2, ShelfKept DEF AgesDistinct
<1>10. ASSUME NEW q, Shelves'[s] = q PROVE AgesDistinct' /\ Shelves' = [Shelves EXCEPT ![s] = q]
  BY <1>8, <1>9, <1>10, ShelvesExcept
<1>11. Loans[c] = FREE /\ Loans' = [Loans EXCEPT ![c] = idx[c]]
  <2>1. Loans[c] = FREE
    BY <1>2 DEF Loans
  <2>2. \A d \in Clients : Loans'[d] = IF d = c THEN idx[c] ELSE Loans[d]
    BY <1>2 DEF Loans, IndInv, TypeOK
  <2>3. Loans = [d \in Clients |-> Loans[d]] /\ Loans' = [d \in Clients |-> Loans'[d]]
    BY DEF Loans
  <2>4. QED
    BY <2>1, <2>2, <2>3
<1>12. ~(closeAt > 0) /\ (closeAt > 0)' = (closeAt > 0)
  <2>1. closeAt = NotClosing
    BY <1>2 DEF IndInv, Closing
  <2>2. QED
    BY <1>2, <2>1 DEF NotClosing
<1>13. Abstract!SetOf(idx[c]) = s
  BY <1>1 DEF MySet, SetOf, Abstract!SetOf
<1>14. Abstract!Missing(idx[c])
  <2>1. ASSUME NEW k \in DOMAIN Shelves[s] PROVE Shelves[s][k].index # idx[c]
    <3>1. PICK v \in W : k = Rank(W, age, v) + 1
      BY OnShelf
    <3>2. Shelves[s][k] = [index |-> heap[traces[s][v]], refs |-> refcount[s][v]]
      BY <3>1, OnShelf
    <3>3. QED
      BY <1>1, <3>2
  <2>2. QED
    BY <1>13, <2>1 DEF Abstract!Missing
<1>15. Cardinality(Ways) = NWays /\ IsFiniteSet(Ways) /\ W \subseteq Ways
  BY NWaysAssumption, FS_Interval DEF Ways, Occupied
<1>16. AgesDistinct' /\ (Abstract!BorrowNew(c, idx[c]) \/ Abstract!BorrowEvict(c, idx[c]))
  <2>1. CASE W # Ways
    <3>1. w \notin W
      BY <1>1, <2>1 DEF Highest, Candidates
    <3>2. Shelves'[s] = <<entry>> \o Shelves[s]
      <4>1. Ranked(W \union {w}, lru'[s], Entries(s)') = Cons(Entries(s)'[w], Ranked(W, age, Entries(s)))
        BY <1>7, <3>1, FrontNew
      <4>2. QED
        BY <1>6, <1>8, <4>1, OnShelf DEF Cons
    <3>3. Len(Shelves[s]) < NWays
      <4>1. Cardinality(W) <= NWays /\ Cardinality(W) # NWays
        BY <1>15, <2>1, FS_Subset
      <4>2. Len(Shelves[s]) = Cardinality(W) /\ Cardinality(W) \in Nat
        BY OnShelf
      <4>3. QED
        BY <4>1, <4>2, NWaysAssumption
    <3>4. AgesDistinct' /\ Shelves' = [Shelves EXCEPT ![s] = <<entry>> \o Shelves[s]]
      BY <1>10, <3>2
    <3>5. entry.index = idx[c]
      OBVIOUS
    <3>6. Abstract!Lend(c, s, Shelves[s], entry)
      <4>. HIDE DEF entry
      <4>1. QED
        BY <1>11, <1>12, <3>4, <3>5 DEF Abstract!Lend
    <3>7. Abstract!BorrowNew(c, idx[c])
      BY <1>13, <1>14, <3>3, <3>6 DEF Abstract!BorrowNew
    <3>8. QED
      BY <3>4, <3>7
  <2>2. CASE W = Ways
    <3>1. w \in W /\ refcount[s][w] = 0 /\ W \union {w} = W
      BY <1>1, <2>2 DEF Highest, Candidates
    <3>2. Shelves'[s] = <<entry>> \o RemoveAt(Shelves[s], at)
      <4>1. Ranked(W, lru'[s], Entries(s)') = Cons(Entries(s)'[w], RemoveAt(Ranked(W, age, Entries(s)), at))
        BY <1>7, <3>1, FrontAgain
      <4>2. Shelves[s] = Ranked(W, age, Entries(s))
        BY OnShelf
      <4>3. QED
        BY <1>6, <1>8, <3>1, <4>1, <4>2 DEF Cons
    <3>3. Len(Shelves[s]) = NWays
      BY <1>15, <2>2, OnShelf
    <3>4. AgesDistinct' /\ Shelves' = [Shelves EXCEPT ![s] = <<entry>> \o RemoveAt(Shelves[s], at)]
      BY <1>10, <3>2
    <3>5. entry.index = idx[c]
      OBVIOUS
    <3>6. Abstract!Lend(c, s, RemoveAt(Shelves[s], at), entry)
      <4>. HIDE DEF entry, at
      <4>1. QED
        BY <1>11, <1>12, <3>4, <3>5 DEF Abstract!Lend
    <3>7. at \in Abstract!Spare(s)
      <4>1. at \in DOMAIN Shelves[s] /\ Shelves[s][at] = [index |-> heap[traces[s][w]], refs |-> refcount[s][w]]
        BY <3>1, OnShelf
      <4>. HIDE DEF at
      <4>2. QED
        BY <3>1, <4>1 DEF Abstract!Spare
    <3>8. ASSUME NEW j \in Abstract!Spare(s) PROVE j <= at
      <4>1. j \in DOMAIN Shelves[s] /\ Shelves[s][j].refs = 0
        BY DEF Abstract!Spare
      <4>2. PICK v \in W : j = Rank(W, age, v) + 1
        BY <4>1, OnShelf
      <4>3. refcount[s][v] = 0
        <5>1. Shelves[s][j] = [index |-> heap[traces[s][v]], refs |-> refcount[s][v]]
          BY <4>2, OnShelf
        <5>2. QED
          BY <4>1, <5>1
      <4>4. v \in Candidates(s)
        BY <2>2, <4>3 DEF Candidates
      <4>5. v = w \/ age[w] > age[v] \/ age[w] = age[v]
        BY <1>1, <4>4 DEF Highest
      <4>6. Apart(W, age)
        BY DEF AgesDistinct
      <4>7. v = w \/ Rank(W, age, v) < Rank(W, age, w)
        <5>1. v = w \/ age[v] < age[w]
          BY <3>1, <4>5, <4>6 DEF Apart
        <5>2. QED
          BY <3>1, <4>6, <5>1, Ranks
      <4>8. Rank(W, age, v) \in Nat /\ Rank(W, age, w) \in Nat
        BY <3>1, OnShelf
      <4>9. QED
        BY <4>2, <4>7, <4>8
    <3>9. Abstract!BorrowEvict(c, idx[c])
      <4>. HIDE DEF at
      <4>1. QED
        BY <1>13, <1>14, <3>3, <3>6, <3>7, <3>8 DEF Abstract!BorrowEvict, Abstract!RemoveAt, RemoveAt
    <3>10. QED
      BY <3>4, <3>9
  <2>3. QED
    BY <2>1, <2>2
<1>17. idx[c] \in Abstract!Indices
  BY DEF IndInv, TypeOK, Indices, Abstract!Indices
<1>18. QED
  BY <1>11, <1>12, <1>16, <1>17 DEF AbstractStep, Abstract!Next

\* Nothing is on the shelf or on loan in the beginning.
LEMMA InitImplements == Init => AgesDistinct /\ Abstract!Init
<1>. SUFFICES ASSUME Init PROVE AgesDistinct /\ Abstract!Init
  OBVIOUS
<1>1. \A s \in SetIds : Occupied(s) = {}
  BY DEF Init, Occupied
<1>2. AgesDistinct
  BY <1>1, FS_EmptySet DEF AgesDistinct, Apart
<1>3. \A age, f : Ranked({}, age, f) = <<>>
  BY FS_EmptySet DEF Ranked
<1>4. Shelves = [s \in SetIds |-> <<>>]
  BY <1>1, <1>3 DEF Shelves
<1>5. Loans = [c \in Clients |-> FREE]
  BY DEF Init, Loans
<1>6. (closeAt > 0) = FALSE
  BY DEF Init, NotClosing
<1>7. QED
  BY <1>2, <1>4, <1>5, <1>6 DEF Abstract!Init, Abstract!SetIds, SetIds

\* The threads of a cohesive cache, with their locks, their memory and whatever
\* fails, cannot be told from an atomic reference-counted LRU cache, for any
\* number of threads, sets and ways, as long as no age wraps.
THEOREM Implements == ASSUME Cohesive PROVE Spec /\ []AgesLow => ImplementsSharedCache
<1>1. ASSUME IndInv, AgesDistinct, AgesLow, [Next]_vars
      PROVE  AgesDistinct' /\ AbstractStep
  <2>1. ASSUME NEW c \in Clients, Get(c) \/ GetStep(c) \/ Deref(c)
        PROVE  AgesDistinct' /\ AbstractStep
    BY <1>1, <2>1, QuietIsHidden, LookupInitIsHidden, AllocIsHidden, DropIsHidden, ScanHitBorrows,
       PlaceBorrows, DerefReturns DEF GetStep
  <2>2. CASE Close
    BY <1>1, <2>2, CloseBeginIsHidden, CloseSetEmpties DEF Close
  <2>3. CASE UNCHANGED vars
    BY <1>1, <2>3, StutterIsHidden
  <2>4. QED
    BY <1>1, <2>1, <2>2, <2>3 DEF Next, Terminated
<1>2. QED
  BY <1>1, InitImplements, Inductive, PTL DEF Spec, ImplementsSharedCache, Abstract!Spec, AbstractStep

=============================================================================
