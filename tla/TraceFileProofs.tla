--------------------------- MODULE TraceFileProofs ---------------------------
(***************************************************************************)
(* Reads of a trace file find the traces its header announces and return    *)
(* the one they were asked for, and the header announces every trace whose  *)
(* write succeeded and none that is not in the file: for every number of    *)
(* readers and traces, every layout and size of the records, with every     *)
(* failure and a crash at any step.                                         *)
(***************************************************************************)
EXTENDS TraceFile, SequenceTheorems, WellFoundedInduction, TLAPS

Kinds == {"size", "samples"} \union {Fields[f] : f \in DOMAIN Fields}
Cell == [kind : Kinds, of : Nat]

Types ==
    /\ kind \in Backends
    /\ mode \in {"none", "creating", "write", "closing", "down", "read", "failed"}
    /\ cells \in Seq(Cell) /\ todo \in Seq(Cell)
    /\ numWritten \in 0 .. N /\ committed \in 0 .. N /\ position \in Nat /\ cursor \in Nat
    /\ lock \in 0 .. 1
    /\ pc \in [Threads -> {"idle", "want", "seek", "get", "writing", "done", "failed", "stopped"}]
    /\ want \in [Threads -> 0 .. N - 1]
    /\ got \in [Threads -> Seq(Cell)]
    /\ faults \in 0 .. MaxFaults

\* Who is where in the life of the file.
Modes ==
    /\ mode \in {"none", "creating"} => position = 0 /\ cells = <<>> /\ numWritten = 0
    /\ mode \in {"none", "creating", "write"} => numTraces = Unknown
    /\ mode \notin {"write", "read"} => \A t \in Threads : pc[t] \in {"idle", "stopped"}
    /\ mode # "write" => pc[Writer] \in {"idle", "stopped"}
    /\ pc[Writer] \in {"idle", "want", "writing", "stopped"}

\* The header, or what was read from it, announces what was written, or nothing.
Announced(n) == n \in {Absent, Unknown} \/ n \in 0 .. numWritten

Counted ==
    /\ committed <= numWritten
    /\ Announced(header) /\ Announced(numTraces)
    /\ pc[Writer] \in {"want", "writing"} => want[Writer] = numWritten

\* The file is the beginning of the file that holds all traces.
CellsTrue ==
    \A i \in 0 .. N - 1 : \A f \in 1 .. Len(Record(i)) :
        Place(i) + f <= Len(cells) => cells[Place(i) + f] = Record(i)[f]

\* What was written is there, and the rest of a record goes right behind.
Grown ==
    /\ Place(numWritten) <= Len(cells)
    /\ mode = "write" /\ pc[Writer] \in {"idle", "want"} => Len(cells) = Place(numWritten)
    /\ pc[Writer] = "writing" =>
          /\ cursor = Len(cells) + 1
          /\ Len(cells) + Len(todo) = Place(numWritten) + Len(Record(numWritten))
          /\ \A f \in 1 .. Len(todo) :
                todo[f] = Record(numWritten)[Len(cells) - Place(numWritten) + f]

Holding(t) == pc[t] \in {"seek", "get", "writing"}

\* One thread at a time is at the FILE.
Exclusive ==
    /\ \A t \in Threads : Holding(t) => lock = 0
    /\ \A t, u \in Threads : Holding(t) /\ Holding(u) => t = u

\* Where the size in front of record i stands.
Gap(i) == ZtrsPlace[i] + (IF i = 0 THEN 1 ELSE 0)

\* The cursor is at the record of a trs that is read, and in a ztrs where position says.
CursorTrue ==
    /\ \A r \in Threads : pc[r] = "get" => kind = "trs" /\ cursor = TrsOffset(want[r])
    /\ \A r \in Threads : pc[r] = "seek" => kind = "ztrs"
    /\ kind = "ztrs" /\ ~disturbed /\ (lock = 1 \/ \E r \in Threads : pc[r] = "seek") =>
          position \in 0 .. N /\ cursor = Gap(position)

\* What was read, unless an access to a ztrs failed, and who could not read.
GotTrue ==
    \A r \in Readers : pc[r] = "done" /\ (kind = "trs" \/ ~disturbed) => got[r] = Body(want[r])

FailedDisturbed == \A r \in Readers : pc[r] = "failed" => disturbed

\* What was committed is announced; who stopped may have written one trace more.
Durable ==
    /\ committed > 0 => header \in committed .. numWritten
    /\ mode = "write" /\ pc[Writer] # "stopped" => committed = numWritten
    /\ mode = "closing" => numTraces = committed
    /\ mode = "read" => numTraces = header

\* Nobody walks past the traces that were written, but in a file whose header says nothing.
Reach ==
    mode # "read" \/ header # Unknown =>
        /\ position <= numWritten
        /\ \A r \in Readers : pc[r] \notin {"idle", "stopped"} => want[r] < numWritten

IndInv ==
    /\ Types
    /\ Modes
    /\ Counted
    /\ CellsTrue
    /\ Grown
    /\ Exclusive
    /\ CursorTrue
    /\ GotTrue
    /\ FailedDisturbed
    /\ Durable
    /\ Reach

-----------------------------------------------------------------------------
(* Records and their places *)

\* A nonempty set of naturals has a least element.
LEMMA LeastNat ==
    ASSUME NEW S \in SUBSET Nat, S # {}
    PROVE  \E m \in S : \A k \in Nat : k < m => k \notin S
<1>1. PICK m \in S : \A k \in S : ~ (<<k, m>> \in OpToRel(<, Nat))
  BY NatLessThanWellFounded, WFMin
<1>2. \A k, n \in Nat : <<k, n>> \in OpToRel(<, Nat) <=> k < n
  BY DEF OpToRel
<1>3. \A k \in S : ~ (k < m)
  BY <1>1, <1>2, Zenon
<1>4. QED
  BY <1>3

F == Len(Fields)
Traces == 0 .. N - 1

LEMMA Constants ==
    /\ F \in Nat /\ DOMAIN Fields = 1 .. F
    /\ N \in Nat \ {0} /\ MaxFaults \in Nat
    /\ \A i \in Traces : i \in Nat /\ Packed[i] \in Nat \ {0}
BY FieldsAssumption, SizeAssumption, PackedAssumption, LenProperties DEF F, Traces

LEMMA SizeCellType == ASSUME NEW n \in Nat PROVE SizeCell(n) \in Cell
BY DEF SizeCell, Cell, Kinds

LEMMA FieldCellsType ==
    ASSUME NEW i \in Nat
    PROVE  FieldCells(i) \in Seq(Cell) /\ Len(FieldCells(i)) = F
<1>1. \A f \in 1 .. F : [kind |-> Fields[f], of |-> i] \in Cell
  BY Constants DEF Cell, Kinds
<1>2. FieldCells(i) \in [1 .. F -> Cell]
  BY <1>1, Constants DEF FieldCells
<1>3. QED
  BY <1>2, Constants

LEMMA SampleCellsType ==
    ASSUME NEW i \in Nat, NEW n \in Nat
    PROVE  SampleCells(i, n) \in Seq(Cell) /\ Len(SampleCells(i, n)) = n
<1>1. [kind |-> "samples", of |-> i] \in Cell
  BY DEF Cell, Kinds
<1>2. SampleCells(i, n) \in [1 .. n -> Cell]
  BY <1>1 DEF SampleCells
<1>3. QED
  BY <1>2

\* The two parts of a concatenation.
LEMMA ConcatAt ==
    ASSUME NEW s \in Seq(Cell), NEW t \in Seq(Cell)
    PROVE  /\ s \o t \in Seq(Cell) /\ Len(s \o t) = Len(s) + Len(t)
           /\ \A n \in 1 .. Len(s) : (s \o t)[n] = s[n]
           /\ \A n \in 1 .. Len(t) : (s \o t)[Len(s) + n] = t[n]
OBVIOUS

\* What a read returns is as long as it reads.
LEMMA BodyType ==
    ASSUME NEW i \in Traces
    PROVE  /\ TrsBody(i) \in Seq(Cell) /\ Len(TrsBody(i)) = F + 1
           /\ ZtrsBody(i) \in Seq(Cell) /\ Len(ZtrsBody(i)) = F + Packed[i]
<1>1. i \in Nat /\ 1 \in Nat /\ Packed[i] \in Nat
  BY Constants
<1>2. FieldCells(i) \in Seq(Cell) /\ Len(FieldCells(i)) = F
  BY <1>1, FieldCellsType
<1>3. /\ SampleCells(i, 1) \in Seq(Cell) /\ Len(SampleCells(i, 1)) = 1
      /\ SampleCells(i, Packed[i]) \in Seq(Cell) /\ Len(SampleCells(i, Packed[i])) = Packed[i]
  BY <1>1, SampleCellsType
<1>4. ASSUME NEW n \in Nat, SampleCells(i, n) \in Seq(Cell), Len(SampleCells(i, n)) = n
      PROVE  /\ FieldCells(i) \o SampleCells(i, n) \in Seq(Cell)
             /\ Len(FieldCells(i) \o SampleCells(i, n)) = F + n
  <2> DEFINE a == FieldCells(i)
             b == SampleCells(i, n)
  <2>1. a \in Seq(Cell) /\ b \in Seq(Cell) /\ Len(a) = F /\ Len(b) = n
    BY <1>2, <1>4
  <2> HIDE DEF a, b
  <2>2. a \o b \in Seq(Cell) /\ Len(a \o b) = Len(a) + Len(b)
    BY <2>1, ConcatAt
  <2>3. a \o b \in Seq(Cell) /\ Len(a \o b) = F + n
    BY <2>1, <2>2
  <2>4. QED
    BY <2>3 DEF a, b
<1>6. QED
  BY <1>1, <1>3, <1>4 DEF TrsBody, ZtrsBody

Head0(i) == IF i = 0 THEN 1 ELSE 0

\* A record of a ztrs: its body between two sizes, with one more before the first.
LEMMA ZtrsRecordParts ==
    ASSUME NEW i \in Traces
    PROVE  /\ ZtrsRecord(i) \in Seq(Cell)
           /\ Len(ZtrsRecord(i)) = Head0(i) + F + Packed[i] + 2
           /\ ZtrsRecord(i)[Head0(i) + 1] = SizeCell(Packed[i])
           /\ \A b \in 1 .. F + Packed[i] : ZtrsRecord(i)[Head0(i) + 1 + b] = ZtrsBody(i)[b]
           /\ ZtrsRecord(i)[Head0(i) + F + Packed[i] + 2] = SizeCell(Packed[i])
<1> DEFINE a == IF i = 0 THEN <<SizeCell(Huge)>> ELSE <<>>
           b == <<SizeCell(Packed[i])>>
           c == ZtrsBody(i)
<1>1. a \in Seq(Cell) /\ Len(a) = Head0(i)
  BY SizeCellType DEF Head0, Huge
<1>2. b \in Seq(Cell) /\ Len(b) = 1 /\ b[1] = SizeCell(Packed[i])
  BY SizeCellType, Constants
<1>3. c \in Seq(Cell) /\ Len(c) = F + Packed[i]
  BY BodyType
<1>n. Head0(i) \in Nat /\ F \in Nat /\ Packed[i] \in Nat
  BY Constants DEF Head0
<1>4. ZtrsRecord(i) = ((a \o b) \o c) \o b
  BY DEF ZtrsRecord
<1> HIDE DEF a, b, c
<1>5. /\ a \o b \in Seq(Cell) /\ Len(a \o b) = Head0(i) + 1
      /\ (a \o b)[Head0(i) + 1] = SizeCell(Packed[i])
  <2>1. /\ a \o b \in Seq(Cell) /\ Len(a \o b) = Len(a) + Len(b)
        /\ \A n \in 1 .. Len(b) : (a \o b)[Len(a) + n] = b[n]
    BY <1>1, <1>2, ConcatAt
  <2>2. QED
    BY <1>1, <1>2, <1>n, <2>1
<1>6. /\ (a \o b) \o c \in Seq(Cell) /\ Len((a \o b) \o c) = Head0(i) + 1 + F + Packed[i]
      /\ ((a \o b) \o c)[Head0(i) + 1] = SizeCell(Packed[i])
      /\ \A n \in 1 .. F + Packed[i] : ((a \o b) \o c)[Head0(i) + 1 + n] = c[n]
  <2> DEFINE d == a \o b
  <2> HIDE DEF d
  <2>1. d \in Seq(Cell) /\ Len(d) = Head0(i) + 1 /\ d[Head0(i) + 1] = SizeCell(Packed[i])
    BY <1>5 DEF d
  <2>2. /\ d \o c \in Seq(Cell) /\ Len(d \o c) = Len(d) + Len(c)
        /\ \A n \in 1 .. Len(d) : (d \o c)[n] = d[n]
        /\ \A n \in 1 .. Len(c) : (d \o c)[Len(d) + n] = c[n]
    BY <1>3, <2>1, ConcatAt
  <2>3. (d \o c)[Head0(i) + 1] = SizeCell(Packed[i])
    <3>1. Head0(i) + 1 \in 1 .. Len(d)
      BY <1>n, <2>1
    <3>2. QED
      BY <2>1, <2>2, <3>1, Zenon
  <2>4. \A n \in 1 .. F + Packed[i] : (d \o c)[Head0(i) + 1 + n] = c[n]
    BY <1>3, <2>1, <2>2, Zenon
  <2>5. Len(d \o c) = Head0(i) + 1 + F + Packed[i]
    BY <1>3, <1>n, <2>1, <2>2
  <2>6. QED
    BY <2>2, <2>3, <2>4, <2>5, Zenon DEF d
<1>7. /\ ZtrsRecord(i) \in Seq(Cell)
      /\ Len(ZtrsRecord(i)) = Head0(i) + F + Packed[i] + 2
      /\ ZtrsRecord(i)[Head0(i) + 1] = SizeCell(Packed[i])
      /\ \A n \in 1 .. F + Packed[i] : ZtrsRecord(i)[Head0(i) + 1 + n] = c[n]
      /\ ZtrsRecord(i)[Head0(i) + F + Packed[i] + 2] = SizeCell(Packed[i])
  <2> DEFINE d == (a \o b) \o c
  <2> HIDE DEF d
  <2>1. /\ d \in Seq(Cell) /\ Len(d) = Head0(i) + 1 + F + Packed[i]
        /\ d[Head0(i) + 1] = SizeCell(Packed[i])
        /\ \A n \in 1 .. F + Packed[i] : d[Head0(i) + 1 + n] = c[n]
    BY <1>6 DEF d
  <2>2. /\ d \o b \in Seq(Cell) /\ Len(d \o b) = Len(d) + Len(b)
        /\ \A n \in 1 .. Len(d) : (d \o b)[n] = d[n]
        /\ \A n \in 1 .. Len(b) : (d \o b)[Len(d) + n] = b[n]
    BY <1>2, <2>1, ConcatAt
  <2>3. ZtrsRecord(i) = d \o b
    BY <1>4 DEF d
  <2>4. \A n \in 1 .. Head0(i) + 1 + F + Packed[i] : (d \o b)[n] = d[n]
    BY <2>1, <2>2, Zenon
  <2>5. (d \o b)[Head0(i) + 1] = SizeCell(Packed[i])
    <3>1. Head0(i) + 1 \in 1 .. Head0(i) + 1 + F + Packed[i]
      BY <1>n
    <3>2. QED
      BY <2>1, <2>4, <3>1, Zenon
  <2>6. ASSUME NEW n \in 1 .. F + Packed[i] PROVE (d \o b)[Head0(i) + 1 + n] = c[n]
    <3>1. Head0(i) + 1 + n \in 1 .. Head0(i) + 1 + F + Packed[i]
      BY <1>n
    <3>2. QED
      BY <2>1, <2>4, <3>1, Zenon
  <2>7. (d \o b)[Head0(i) + F + Packed[i] + 2] = SizeCell(Packed[i])
    <3>1. 1 \in 1 .. Len(b) /\ Len(d) + 1 = Head0(i) + F + Packed[i] + 2
      BY <1>2, <1>n, <2>1
    <3>2. (d \o b)[Len(d) + 1] = b[1]
      BY <2>2, <3>1, Zenon
    <3>3. QED
      BY <1>2, <3>1, <3>2, Zenon
  <2>8. Len(d \o b) = Head0(i) + F + Packed[i] + 2
    BY <1>2, <1>n, <2>1, <2>2
  <2>9. QED
    BY <2>2, <2>3, <2>5, <2>6, <2>7, <2>8, Zenon
<1>8. QED
  BY <1>7 DEF c

\* The recursive function is defined: it grows by one place at a time.
LEMMA ZtrsPlaceDefined ==
    ZtrsPlace = [i \in 0 .. N |-> IF i = 0 THEN 0 ELSE ZtrsPlace[i - 1] + Len(ZtrsRecord(i - 1))]
<1> DEFINE Chain(f, n) == f = [i \in 0 .. n |-> IF i = 0 THEN 0 ELSE f[i - 1] + Len(ZtrsRecord(i - 1))]
           Bad == {n \in Nat : ~ \E f : Chain(f, n)}
<1>1. Bad = {}
  <2>1. ASSUME NEW m \in Nat, m \in Bad, \A k \in Nat : k < m => k \notin Bad PROVE FALSE
    <3>1. CASE m = 0
      <4>1. [i \in 0 .. 0 |-> 0] =
               [i \in 0 .. 0 |-> IF i = 0 THEN 0
                                 ELSE [j \in 0 .. 0 |-> 0][i - 1] + Len(ZtrsRecord(i - 1))]
        OBVIOUS
      <4>2. Chain([i \in 0 .. 0 |-> 0], m)
        BY <3>1, <4>1
      <4>3. QED
        BY <2>1, <4>2, Zenon
    <3>2. CASE m # 0
      <4>0. m - 1 \in Nat /\ m - 1 < m
        BY <2>1, <3>2
      <4>1. m - 1 \in Nat /\ m - 1 < m /\ m - 1 \notin Bad
        BY <2>1, <4>0, Zenon
      <4>2. PICK f : Chain(f, m - 1)
        BY <4>1, Zenon
      <4> DEFINE v == f[m - 1] + Len(ZtrsRecord(m - 1))
                 g == [i \in 0 .. m |-> IF i = m THEN v ELSE f[i]]
      <4>3. \A i \in 0 .. m - 1 : f[i] = IF i = 0 THEN 0 ELSE f[i - 1] + Len(ZtrsRecord(i - 1))
        BY <4>2, Zenon
      <4>4. ASSUME NEW i \in 0 .. m
            PROVE  g[i] = IF i = 0 THEN 0 ELSE g[i - 1] + Len(ZtrsRecord(i - 1))
        <5>1. CASE i = m
          BY <3>2, <5>1
        <5>2. CASE i # m
          <6>1. i \in 0 .. m - 1 /\ (i # 0 => i - 1 \in 0 .. m - 1 /\ i - 1 # m)
            BY <5>2
          <6>2. QED
            BY <4>3, <5>2, <6>1
        <5>3. QED
          BY <5>1, <5>2
      <4>5. Chain(g, m)
        BY <4>4, Zenon
      <4>6. QED
        BY <2>1, <4>5, Zenon
    <3>3. QED
      BY <3>1, <3>2
  <2>2. Bad \in SUBSET Nat
    OBVIOUS
  <2> HIDE DEF Bad
  <2>3. QED
    BY <2>1, <2>2, LeastNat
<1>2. \E f : Chain(f, N)
  BY <1>1, Constants
<1>3. QED
  BY <1>2, Zenon DEF ZtrsPlace

\* The places of a ztrs, one by one.
LEMMA ZtrsPlaceNext ==
    /\ ZtrsPlace[0] = 0
    /\ \A i \in Traces : ZtrsPlace[i + 1] = ZtrsPlace[i] + Len(ZtrsRecord(i))
<1>1. 0 \in 0 .. N /\ \A i \in Traces : i + 1 \in 0 .. N /\ i + 1 # 0 /\ (i + 1) - 1 = i
  BY Constants DEF Traces
<1>2. \A i \in 0 .. N : ZtrsPlace[i] = IF i = 0 THEN 0 ELSE ZtrsPlace[i - 1] + Len(ZtrsRecord(i - 1))
  BY ZtrsPlaceDefined, Zenon
<1>3. QED
  BY <1>1, <1>2

\* An induction: they are naturals, and what ends at one is no further than the next ones.
LEMMA ZtrsPlaceOrder ==
    \A j \in 0 .. N : /\ ZtrsPlace[j] \in Nat
                      /\ \A i \in Traces : i < j => ZtrsPlace[i] + Len(ZtrsRecord(i)) <= ZtrsPlace[j]
<1> DEFINE Good(j) == /\ ZtrsPlace[j] \in Nat
                      /\ \A i \in Traces : i < j => ZtrsPlace[i] + Len(ZtrsRecord(i)) <= ZtrsPlace[j]
           Bad == {j \in 0 .. N : ~Good(j)}
<1>1. ASSUME NEW m \in Bad, \A k \in Nat : k < m => k \notin Bad PROVE FALSE
  <2>0. m \in 0 .. N /\ ~Good(m)
    OBVIOUS
  <2>1. CASE m = 0
    <3>1. \A i \in Traces : ~(i < 0)
      BY Constants
    <3>2. Good(m)
      BY <2>1, <3>1, ZtrsPlaceNext
    <3>3. QED
      BY <2>0, <3>2
  <2>2. CASE m # 0
    <3>1. m - 1 \in Traces /\ m - 1 \in Nat /\ m - 1 \in 0 .. N /\ m - 1 < m /\ (m - 1) + 1 = m
      BY <2>0, <2>2, Constants DEF Traces
    <3>2. Good(m - 1)
      BY <1>1, <3>1
    <3>3. Len(ZtrsRecord(m - 1)) \in Nat
      BY <3>1, ZtrsRecordParts, LenProperties
    <3>4. ZtrsPlace[m] = ZtrsPlace[m - 1] + Len(ZtrsRecord(m - 1))
      <4>1. ZtrsPlace[(m - 1) + 1] = ZtrsPlace[m - 1] + Len(ZtrsRecord(m - 1))
        BY <3>1, ZtrsPlaceNext, Zenon
      <4>2. QED
        BY <3>1, <4>1, Zenon
    <3>5. \A i \in Traces : i < m => i < m - 1 \/ i = m - 1
      BY <2>0, Constants DEF Traces
    <3>6. \A i \in Traces : Len(ZtrsRecord(i)) \in Nat
      BY ZtrsRecordParts, LenProperties
    <3>7. ASSUME NEW i \in Traces, i < m PROVE ZtrsPlace[i] + Len(ZtrsRecord(i)) <= ZtrsPlace[m]
      <4>1. CASE i = m - 1
        BY <3>2, <3>3, <3>4, <4>1
      <4>2. CASE i < m - 1
        <5>1. ZtrsPlace[i] + Len(ZtrsRecord(i)) <= ZtrsPlace[m - 1]
          BY <3>2, <4>2
        <5>2. ZtrsPlace[i] \in Nat
          <6>1. i \in Nat /\ i \in 0 .. N /\ i < m
            BY <3>7, Constants DEF Traces
          <6>2. QED
            BY <1>1, <6>1
        <5>3. QED
          BY <3>2, <3>3, <3>4, <3>6, <5>1, <5>2
      <4>3. QED
        BY <3>5, <3>7, <4>1, <4>2
    <3>8. QED
      BY <2>0, <3>2, <3>3, <3>4, <3>7
  <2>3. QED
    BY <2>1, <2>2
<1>2. Bad \in SUBSET Nat
  OBVIOUS
<1>3. Bad = {}
  <2> HIDE DEF Bad
  <2>1. QED
    BY <1>1, <1>2, LeastNat
<1>4. QED
  BY <1>3

\* The places of both kinds of file.
LEMMA Places ==
    ASSUME kind \in Backends
    PROVE  /\ \A i \in Traces : Record(i) \in Seq(Cell) /\ Len(Record(i)) \in Nat \ {0}
           /\ \A i \in 0 .. N : Place(i) \in Nat
           /\ Place(0) = 0
           /\ \A i \in Traces : Place(i + 1) = Place(i) + Len(Record(i))
           /\ \A i \in Traces, j \in 0 .. N : i < j => Place(i) + Len(Record(i)) <= Place(j)
<1>1. CASE kind = "trs"
  <2>1. \A i \in Int : Place(i) = i * (F + 1)
    BY <1>1, Constants DEF Place, TrsOffset, F
  <2>2. \A i \in Traces : Record(i) \in Seq(Cell) /\ Len(Record(i)) = F + 1
    BY <1>1, BodyType DEF Record
  <2>3. ASSUME NEW i \in Traces, NEW j \in 0 .. N, i < j
        PROVE  i * (F + 1) + (F + 1) <= j * (F + 1)
    <3>1. PICK d \in Nat : j = i + 1 + d
      <4>1. j - i - 1 \in Nat /\ j = i + 1 + (j - i - 1)
        BY <2>3, Constants DEF Traces
      <4>2. QED
        BY <4>1
    <3>2. d * (F + 1) \in Nat /\ i \in Nat
      BY Constants
    <3>3. j * (F + 1) = i * (F + 1) + (F + 1) + d * (F + 1)
      BY <3>1, <3>2, Constants
    <3>4. i * (F + 1) \in Nat
      BY <3>2, Constants
    <3>5. QED
      BY <3>2, <3>3, <3>4, Constants
  <2>4. \A i \in Nat : i * (F + 1) \in Nat /\ (i + 1) * (F + 1) = i * (F + 1) + (F + 1)
    BY Constants
  <2>5. 0 * (F + 1) = 0
    BY Constants
  <2>6. 0 .. N \subseteq Nat /\ Traces \subseteq Nat /\ 0 \in Int /\ \A i \in Nat : i + 1 \in Int
    BY Constants DEF Traces
  <2>7. \A i \in 0 .. N : Place(i) \in Nat
    BY <2>1, <2>4, <2>6
  <2>8. \A i \in Traces : Place(i + 1) = Place(i) + Len(Record(i))
    BY <2>1, <2>2, <2>4, <2>6, SMTT(20)
  <2>9. \A i \in Traces, j \in 0 .. N : i < j => Place(i) + Len(Record(i)) <= Place(j)
    BY <2>1, <2>2, <2>3, <2>6
  <2>10. QED
    BY <2>1, <2>2, <2>5, <2>6, <2>7, <2>8, <2>9, Constants
<1>2. CASE kind = "ztrs"
  <2>1. \A i : Place(i) = ZtrsPlace[i] /\ Record(i) = ZtrsRecord(i)
    BY <1>2 DEF Place, Record
  <2>2. \A i \in Traces : ZtrsRecord(i) \in Seq(Cell) /\ Len(ZtrsRecord(i)) \in Nat \ {0}
    <3>1. \A i \in Traces : Head0(i) + F + Packed[i] + 2 \in Nat \ {0}
      BY Constants DEF Head0
    <3>2. QED
      BY <3>1, ZtrsRecordParts
  <2>3. QED
    BY <2>1, <2>2, ZtrsPlaceNext, ZtrsPlaceOrder, Zenon
<1>3. QED
  BY <1>1, <1>2 DEF Backends

\* A cell has one place only.
LEMMA OnePlace ==
    ASSUME kind \in Backends, NEW i \in Traces, NEW j \in Traces,
           NEW f \in 1 .. Len(Record(i)), NEW g \in 1 .. Len(Record(j)),
           Place(i) + f = Place(j) + g
    PROVE  i = j /\ f = g
<1>0. i \in 0 .. N /\ j \in 0 .. N /\ i \in Nat /\ j \in Nat
  BY Constants DEF Traces
<1>1. /\ Place(i) \in Nat /\ Place(j) \in Nat /\ Len(Record(i)) \in Nat /\ Len(Record(j)) \in Nat
      /\ i < j => Place(i) + Len(Record(i)) <= Place(j)
      /\ j < i => Place(j) + Len(Record(j)) <= Place(i)
      /\ i \in Nat /\ j \in Nat
  BY <1>0, Places
<1>2. QED
  BY <1>1

\* The chain of a ztrs, step by step, as far as it is in the file.
LEMMA ChainCells ==
    ASSUME Types, CellsTrue, kind = "ztrs", NEW p \in Traces
    PROVE  /\ Gap(p) \in Nat \ {0}
           /\ Gap(p + 1) = Gap(p) + 2 + F + Packed[p]
           /\ Gap(p) + 1 <= Len(cells) => cells[Gap(p) + 1] = SizeCell(Packed[p])
           /\ \A b \in 1 .. F + Packed[p] :
                 Gap(p) + 1 + b <= Len(cells) => cells[Gap(p) + 1 + b] = ZtrsBody(p)[b]
           /\ Gap(p + 1) <= Len(cells) => cells[Gap(p + 1)] = SizeCell(Packed[p])
<1> DEFINE l == F + Packed[p]
           h == Head0(p)
<1>n. /\ h \in Nat /\ l \in Nat /\ F \in Nat /\ Packed[p] \in Nat /\ p \in Nat /\ p \in 0 .. N
      /\ p + 1 \in 0 .. N /\ p + 1 # 0
      /\ l = F + Packed[p] /\ h = Head0(p) /\ (p = 0 => h = 1)
  BY Constants DEF Head0, Traces
<1> HIDE DEF l, h
<1>0. Len(ZtrsRecord(p)) = h + l + 2
  <2>1. Len(ZtrsRecord(p)) = Head0(p) + F + Packed[p] + 2
    BY ZtrsRecordParts
  <2>2. PICK q \in Nat, f \in Nat : q = Packed[p] /\ f = F
    BY <1>n
  <2>3. l = f + q /\ Len(ZtrsRecord(p)) = h + f + q + 2
    BY <1>n, <2>1, <2>2, Zenon
  <2>4. h + f + q + 2 = h + l + 2
    BY <1>n, <2>2, <2>3
  <2>5. QED
    BY <2>3, <2>4, Zenon
<1>1. /\ ZtrsPlace[p] \in Nat /\ ZtrsPlace[p + 1] = ZtrsPlace[p] + Len(ZtrsRecord(p))
      /\ Len(ZtrsRecord(p)) = h + l + 2
  BY <1>0, <1>n, ZtrsPlaceNext, ZtrsPlaceOrder, Zenon
<1>a. h \in Nat /\ l \in Nat /\ F \in Nat /\ Packed[p] \in Nat /\ l = F + Packed[p]
  BY <1>n
<1>b. ZtrsPlace[p] \in Nat
  BY <1>1
<1>2. Gap(p) = ZtrsPlace[p] + h /\ Gap(p + 1) = ZtrsPlace[p] + h + l + 2
  <2>1. Gap(p) = ZtrsPlace[p] + h
    BY <1>n DEF Gap, Head0
  <2>2. Gap(p + 1) = ZtrsPlace[p + 1] + 0
    BY <1>n DEF Gap
  <2>3. ZtrsPlace[p + 1] = ZtrsPlace[p] + (h + l + 2)
    BY <1>1
  <2>4. QED
    <3>1. PICK z \in Nat, y \in {ZtrsPlace[p + 1]} : z = ZtrsPlace[p]
      BY <1>b
    <3>2. y = z + (h + l + 2) /\ Gap(p) = z + h /\ Gap(p + 1) = y + 0 /\ y = ZtrsPlace[p + 1]
      BY <2>1, <2>2, <2>3, <3>1, Zenon
    <3>3. y + 0 = z + h + l + 2
      BY <1>a, <3>1, <3>2
    <3>4. QED
      BY <3>1, <3>2, <3>3, Zenon
<1>3. Gap(p) \in Nat \ {0}
  <2>1. CASE p = 0
    BY <1>n, <1>1, <1>2, <2>1, SMTT(20)
  <2>2. CASE p # 0
    <3>1. 0 \in Traces /\ 0 < p
      BY <1>n, <2>2, Constants DEF Traces
    <3>2. ZtrsPlace[0] + Len(ZtrsRecord(0)) <= ZtrsPlace[p]
      BY <1>n, <3>1, ZtrsPlaceOrder
    <3>3. Len(ZtrsRecord(0)) \in Nat \ {0}
      BY <3>1, ZtrsRecordParts, Constants DEF Head0
    <3>4. QED
      <4>1. ZtrsPlace[0] = 0
        BY ZtrsPlaceNext
      <4>2. Len(ZtrsRecord(0)) >= 1 /\ Len(ZtrsRecord(0)) \in Nat
        BY <3>3
      <4>3. ZtrsPlace[p] >= 1
        BY <1>b, <3>2, <4>1, <4>2
      <4>4. QED
        BY <1>a, <1>b, <1>2, <4>3
  <2>3. QED
    BY <2>1, <2>2
<1>4. ASSUME NEW f \in 1 .. h + l + 2, ZtrsPlace[p] + f <= Len(cells)
      PROVE  cells[ZtrsPlace[p] + f] = ZtrsRecord(p)[f]
  BY <1>1, <1>4 DEF CellsTrue, Place, Record, Traces
<1>5. Gap(p) + 1 <= Len(cells) => cells[Gap(p) + 1] = SizeCell(Packed[p])
  <2>1. h + 1 \in 1 .. h + l + 2 /\ Gap(p) + 1 = ZtrsPlace[p] + (h + 1)
    BY <1>a, <1>b, <1>2
  <2>2. ZtrsRecord(p)[h + 1] = SizeCell(Packed[p])
    BY <1>n, ZtrsRecordParts
  <2>3. QED
    BY <1>4, <2>1, <2>2
<1>6. ASSUME NEW b \in 1 .. l, Gap(p) + 1 + b <= Len(cells)
      PROVE  cells[Gap(p) + 1 + b] = ZtrsBody(p)[b]
  <2>1. h + 1 + b \in 1 .. h + l + 2 /\ Gap(p) + 1 + b = ZtrsPlace[p] + (h + 1 + b)
    BY <1>a, <1>b, <1>2
  <2>2. ZtrsRecord(p)[h + 1 + b] = ZtrsBody(p)[b]
    BY <1>n, ZtrsRecordParts
  <2>3. QED
    BY <1>4, <1>6, <2>1, <2>2
<1>7. Gap(p + 1) <= Len(cells) => cells[Gap(p + 1)] = SizeCell(Packed[p])
  <2>1. h + l + 2 \in 1 .. h + l + 2 /\ Gap(p + 1) = ZtrsPlace[p] + (h + l + 2)
    BY <1>a, <1>b, <1>2
  <2>2. ZtrsRecord(p)[h + F + Packed[p] + 2] = SizeCell(Packed[p]) /\ h + F + Packed[p] + 2 = h + l + 2
    <3>1. ZtrsRecord(p)[Head0(p) + F + Packed[p] + 2] = SizeCell(Packed[p])
      BY ZtrsRecordParts
    <3>2. h + F + Packed[p] + 2 = h + l + 2
      BY <1>a
    <3>3. QED
      BY <1>n, <3>1, <3>2, Zenon
  <2>3. QED
    BY <1>4, <2>1, <2>2
<1>8. Gap(p + 1) = Gap(p) + 2 + F + Packed[p]
  BY <1>a, <1>b, <1>2
<1>9. QED
  BY <1>n, <1>3, <1>5, <1>6, <1>7, <1>8, Zenon

\* A cell that is a size gives this size, any other gives some natural.
LEMMA SizesRead ==
    ASSUME Types, NEW c \in Nat
    PROVE  /\ SizesAt(c) \subseteq Nat
           /\ \A n : c \in 1 .. Len(cells) /\ cells[c] = SizeCell(n) => SizesAt(c) = {n}
           /\ SizesAt(c) # {} => c \in 1 .. Len(cells)
<1>1. c \in 1 .. Len(cells) => cells[c] \in Cell
  BY ElementOfSeq DEF Types
<1>2. DOMAIN Packed = Traces
  BY PackedAssumption DEF Traces
<1>3. QED
  BY <1>1, <1>2, Constants DEF SizesAt, SizeCell, Cell

-----------------------------------------------------------------------------
(* Steps *)

\* The kind of the file stays, and with it the records and their places.
LEMMA KindKept ==
    ASSUME [Next]_vars
    PROVE  /\ kind' = kind
           /\ \A i : Record(i)' = Record(i) /\ Place(i)' = Place(i) /\ Body(i)' = Body(i)
<1>1. kind' = kind
  BY DEF Next, Create, Created, CreateFails, Crash, Open, AskWrite, Write, StartWrite, WriteCell,
         FinishWrite, StartWriteFails, WriteCellFails, FinishWriteFails, AskRead, Access, StartRead,
         SeekBack, SeekForward, ReadTrs, ReadZtrs, ReadFails, ReadUnallocated,
         Return, AskClose, Close, vars
<1>2. QED
  BY <1>1 DEF Record, Place, Body

AtFile(r) ==
    SeekBack(r) \/ SeekForward(r) \/ ReadTrs(r) \/ ReadZtrs(r) \/ ReadFails(r) \/ ReadUnallocated(r)

Reader(r) == AskRead(r) \/ StartRead(r) \/ AtFile(r) \/ Return(r)

LEMMA StepCases ==
    ASSUME [Next]_vars
    PROVE  \/ Create \/ Created \/ CreateFails \/ Crash \/ Open
           \/ AskWrite \/ StartWrite \/ WriteCell \/ FinishWrite
           \/ StartWriteFails \/ WriteCellFails \/ FinishWriteFails
           \/ \E r \in Readers : Reader(r)
           \/ AskClose \/ Close \/ UNCHANGED vars
BY DEF Next, Write, Access, Reader, AtFile

LEMMA ReadersAre == \A r \in Readers : r \in Threads /\ r # Writer
BY ThreadsAssumption DEF Threads

LEMMA WriterIs == Writer \in Threads
BY DEF Threads

\* A reader changes nothing but its own state, and the cursor and the lock when it may.
LEMMA ReaderStep ==
    ASSUME Types, Modes, Exclusive, NEW r \in Readers, Reader(r)
    PROVE  /\ UNCHANGED <<kind, mode, fileVars, counts, todo>>
           /\ \A t \in Threads \ {r} : pc'[t] = pc[t] /\ want'[t] = want[t] /\ got'[t] = got[t]
           /\ pc'[r] \in {"idle", "want", "seek", "get", "done", "failed"}
           /\ mode \in {"write", "read"}
           /\ pc[Writer] = "writing" => UNCHANGED <<cursor, lock>>
           /\ pc'[Writer] = pc[Writer] /\ want'[Writer] = want[Writer]
<1>r. r \in Threads /\ r # Writer /\ Writer \in Threads
  BY ReadersAre, WriterIs
<1>1. UNCHANGED <<kind, mode, fileVars, counts, todo>>
  BY DEF Reader, AtFile, AskRead, StartRead, SeekBack, SeekForward, ReadTrs, ReadZtrs, ReadFails,
         ReadUnallocated, Return
<1>2. /\ \A t \in Threads \ {r} : pc'[t] = pc[t] /\ want'[t] = want[t] /\ got'[t] = got[t]
      /\ pc'[r] \in {"idle", "want", "seek", "get", "done", "failed"}
  BY <1>r DEF Types, Reader, AtFile, AskRead, StartRead, SeekBack, SeekForward, ReadTrs, ReadZtrs, ReadFails,
              ReadUnallocated, Return, Read, MoveTo, threadVars
<1>3. mode \in {"write", "read"}
  <2>1. CASE AskRead(r)
    BY <2>1 DEF AskRead
  <2>2. CASE ~AskRead(r)
    BY <1>r, <2>2 DEF Modes, Reader, AtFile, StartRead, SeekBack, SeekForward, ReadTrs, ReadZtrs,
                ReadFails, ReadUnallocated, Return
  <2>3. QED
    BY <2>1, <2>2
<1>4. ASSUME pc[Writer] = "writing" PROVE UNCHANGED <<cursor, lock>>
  <2>1. CASE AskRead(r) \/ Return(r)
    BY <2>1 DEF AskRead, Return, walk
  <2>2. CASE StartRead(r)
    BY <1>r, <1>4, <2>2 DEF StartRead, Exclusive, Holding
  <2>3. CASE AtFile(r)
    <3>1. Holding(r) /\ Holding(Writer)
      BY <1>4, <2>3 DEF AtFile, SeekBack, SeekForward, ReadTrs, ReadZtrs, ReadFails, ReadUnallocated, Holding
    <3>2. QED
      BY <1>r, <3>1 DEF Exclusive
  <2>4. QED
    BY <2>1, <2>2, <2>3 DEF Reader
<1>5. QED
  BY <1>r, <1>1, <1>2, <1>3, <1>4

\* What the process does as a whole.
LEMMA TypesStep == IndInv /\ [Next]_vars => Types'
<1> SUFFICES ASSUME IndInv, [Next]_vars PROVE Types'
  OBVIOUS
<1>0. Types /\ Modes /\ Counted /\ Grown /\ Exclusive
  BY DEF IndInv
<1>w. Writer \in Threads
  BY WriterIs
<1>n. F \in Nat /\ N \in Nat \ {0} /\ MaxFaults \in Nat /\ \A i \in Traces : i \in Nat /\ Packed[i] \in Nat \ {0}
  BY Constants
<1>1. CASE Create \/ Created \/ CreateFails \/ Crash \/ Open \/ AskClose \/ Close
  <2>1. /\ UNCHANGED <<kind, cells, numWritten, committed, want, got>>
        /\ mode' \in {"creating", "write", "closing", "down", "read", "failed"}
        /\ position' = position \/ position' = 0
        /\ cursor' = cursor \/ cursor' = 1
        /\ lock' = lock \/ lock' = 1
        /\ todo' = todo \/ todo' = <<>>
        /\ faults' = faults \/ Fault
        /\ pc' = pc \/ pc' = [t \in Threads |-> "idle"]
    BY <1>1 DEF Create, Created, CreateFails, Crash, Open, AskClose, Close, ReadHeaders,
       AtStart, fileVars, counts, walk, threadVars
  <2>2. faults' \in 0 .. MaxFaults
    BY <1>0, <1>n, <2>1 DEF Types, Fault
  <2>3. pc' \in [Threads -> {"idle", "want", "seek", "get", "writing", "done", "failed", "stopped"}]
    BY <1>0, <2>1 DEF Types
  <2>4. todo' \in Seq(Cell)
    BY <1>0, <2>1, EmptySeq, Zenon DEF Types
  <2>5. QED
    BY <1>0, <2>1, <2>2, <2>3, <2>4 DEF Types
<1>2. CASE AskWrite
  <2>1. numWritten \in 0 .. N - 1
    BY <1>0, <1>2, <1>n DEF Types, AskWrite
  <2>2. QED
    BY <1>0, <1>2, <1>w, <2>1 DEF Types, AskWrite, MoveTo, fileVars, counts, walk
<1>3. CASE StartWrite
  <2>1. want[Writer] \in Traces
    BY <1>0, <1>w DEF Types, Traces
  <2>2. Record(want[Writer]) \in Seq(Cell)
    BY <1>0, <2>1, Places DEF Types
  <2>3. TrsOffset(want[Writer]) \in Nat /\ Len(cells) + 1 \in Nat
    <3>1. \A i \in Nat : 1 + i * (F + 1) \in Nat
      BY <1>n
    <3>2. want[Writer] \in Nat /\ Len(cells) \in Nat
      BY <1>0, <1>n, <2>1, LenProperties DEF Types
    <3>3. QED
      BY <3>1, <3>2 DEF TrsOffset, F
  <2>4. cursor' \in Nat
    BY <1>3, <2>3 DEF StartWrite
  <2>5. QED
    BY <1>0, <1>3, <1>w, <2>2, <2>4 DEF Types, StartWrite, MoveTo, fileVars, counts
<1>4. CASE WriteCell
  <2>1. todo # <<>> /\ cursor = Len(cells) + 1 /\ todo' = Tail(todo) /\ cursor' = cursor + 1
    BY <1>0, <1>4 DEF WriteCell, Grown
  <2>2. Head(todo) \in Cell /\ Tail(todo) \in Seq(Cell)
    BY <1>0, <2>1, HeadTailProperties DEF Types
  <2>3. cells' = Append(cells, Head(todo))
    BY <1>0, <1>4, <2>1, LenProperties DEF WriteCell, Put, Types
  <2>4. cells' \in Seq(Cell)
    BY <1>0, <2>2, <2>3 DEF Types
  <2>5. QED
    BY <1>0, <1>4, <2>1, <2>2, <2>4 DEF Types, WriteCell, counts, threadVars
<1>5. CASE FinishWrite \/ FinishWriteFails
  <2>1. numWritten + 1 \in 0 .. N /\ committed + 1 \in 0 .. N
    BY <1>0, <1>5, <1>n, <1>w DEF Types, Counted, FinishWrite, FinishWriteFails
  <2>2. position' \in Nat
    BY <1>0, <1>5 DEF Types, FinishWrite, FinishWriteFails, ResetPosition
  <2>3. faults' \in 0 .. MaxFaults
    BY <1>0, <1>5, <1>n DEF Types, FinishWrite, FinishWriteFails, Fault
  <2>4. pc' \in [Threads -> {"idle", "want", "seek", "get", "writing", "done", "failed", "stopped"}]
    BY <1>0, <1>5, <1>w DEF Types, FinishWrite, FinishWriteFails, MoveTo
  <2>5. /\ UNCHANGED <<kind, mode, cells, want, got, todo>>
        /\ numWritten' = numWritten + 1 /\ (committed' = committed \/ committed' = committed + 1)
        /\ cursor' \in {0, 1} /\ lock' = 1
    BY <1>5 DEF FinishWrite, FinishWriteFails
  <2>6. QED
    BY <1>0, <2>1, <2>2, <2>3, <2>4, <2>5 DEF Types
<1>6. CASE StartWriteFails \/ WriteCellFails
  <2>1. faults' \in 0 .. MaxFaults
    BY <1>0, <1>6, <1>n DEF Types, StartWriteFails, WriteCellFails, Fault
  <2>2. pc' \in [Threads -> {"idle", "want", "seek", "get", "writing", "done", "failed", "stopped"}]
    BY <1>0, <1>6, <1>w DEF Types, StartWriteFails, WriteCellFails, MoveTo
  <2>3. /\ UNCHANGED <<kind, mode, fileVars, counts, walk, want, got>>
        /\ todo' = todo \/ todo' = <<>>
        /\ lock' = lock \/ lock' = 1
    BY <1>6 DEF StartWriteFails, WriteCellFails
  <2>4. todo' \in Seq(Cell)
    BY <1>0, <2>3, EmptySeq, Zenon DEF Types
  <2>5. QED
    BY <1>0, <2>1, <2>2, <2>3, <2>4 DEF Types, fileVars, counts, walk
<1>7. ASSUME NEW r \in Readers, Reader(r) PROVE Types'
  <2>r. r \in Threads
    BY ReadersAre
  <2>1. CASE AskRead(r)
    BY <1>0, <2>1, <2>r DEF Types, AskRead, MoveTo, fileVars, counts, walk
  <2>2. CASE StartRead(r)
    <3>1. TrsOffset(want[r]) \in Nat
      <4>1. \A i \in Nat : 1 + i * (F + 1) \in Nat
        BY <1>n
      <4>2. want[r] \in Nat
        BY <1>0, <1>n, <2>r DEF Types
      <4>3. QED
        BY <4>1, <4>2 DEF TrsOffset, F
    <3>2. QED
      BY <1>0, <2>2, <2>r, <3>1 DEF Types, StartRead, MoveTo, fileVars, counts
  <2>3. CASE SeekBack(r) \/ SeekForward(r)
    <3>1. cursor \in Nat /\ position \in Nat /\ want[r] \in Nat
      BY <1>0, <2>r, <1>n DEF Types
    <3>2. SizesAt(cursor) \subseteq Nat /\ SizesAt(cursor + 1) \subseteq Nat
      BY <1>0, <3>1, SizesRead
    <3>3. cursor' \in Nat /\ position' \in Nat
      <4>1. CASE SeekBack(r)
        <5>1. want[r] < position /\ position' = position - 1
          BY <4>1 DEF SeekBack
        <5>2. PICK last \in SizesAt(cursor) : /\ cursor + 1 - (F + 3 + last) > 0
                                             /\ cursor' = cursor + 1 - (F + 3 + last)
          BY <4>1 DEF SeekBack, BackStep, F
        <5>3. last \in Nat /\ F \in Nat
          BY <1>n, <3>2, <5>2
        <5>4. QED
          BY <3>1, <5>1, <5>2, <5>3
      <4>2. CASE SeekForward(r)
        <5>1. position' = position + 1
          BY <4>2 DEF SeekForward
        <5>2. PICK this \in SizesAt(cursor + 1) : cursor' = cursor + 2 + F + this
          BY <4>2 DEF SeekForward, F
        <5>3. this \in Nat /\ F \in Nat
          BY <1>n, <3>2, <5>2
        <5>4. QED
          BY <3>1, <5>1, <5>2, <5>3
      <4>3. QED
        BY <2>3, <4>1, <4>2
    <3>4. QED
      BY <1>0, <2>3, <3>3 DEF Types, SeekBack, SeekForward, fileVars, counts, threadVars
  <2>4. CASE ReadTrs(r) \/ ReadZtrs(r)
    <3>1. cursor \in Nat /\ position \in Nat
      BY <1>0 DEF Types
    <3>2. SizesAt(cursor + 1) \subseteq Nat
      BY <1>0, <3>1, SizesRead
    <3>3. PICK from \in Nat, n \in Nat : Read(r, from, n)
      <4>1. CASE ReadTrs(r)
        BY <1>n, <3>1, <4>1 DEF ReadTrs, F
      <4>2. CASE ReadZtrs(r)
        <5>1. PICK this \in SizesAt(cursor + 1) : Read(r, cursor + 2, Len(Fields) + this)
          BY <4>2 DEF ReadZtrs
        <5>2. QED
          BY <1>n, <3>1, <3>2, <5>1 DEF F
      <4>3. QED
        BY <2>4, <4>1, <4>2
    <3>4. SubSeq(cells, from, from + n - 1) \in Seq(Cell)
      <4>1. from >= 1 /\ from + n - 1 <= Len(cells)
        BY <3>3 DEF Read
      <4>2. \A c \in from .. from + n - 1 : cells[c] \in Cell
        BY <1>0, <4>1, LenProperties DEF Types
      <4>3. QED
        BY <4>2, SubSeqProperties
    <3>5. got' \in [Threads -> Seq(Cell)] /\ cursor' \in Nat /\ lock' \in 0 .. 1
      BY <1>0, <2>r, <3>3, <3>4 DEF Types, Read
    <3>6. position' \in Nat
      BY <2>4, <3>1 DEF ReadTrs, ReadZtrs, Following
    <3>7. pc' \in [Threads -> {"idle", "want", "seek", "get", "writing", "done", "failed", "stopped"}]
      BY <1>0, <2>4, <2>r DEF Types, ReadTrs, ReadZtrs, MoveTo
    <3>8. QED
      BY <1>0, <2>4, <3>5, <3>6, <3>7 DEF Types, ReadTrs, ReadZtrs, fileVars, counts
  <2>5. CASE ReadFails(r)
    <3>1. cursor' \in Nat
      BY <1>0, <1>n, <2>5 DEF Types, ReadFails, F
    <3>2. faults' \in 0 .. MaxFaults
      BY <1>0, <1>n, <2>5 DEF Types, ReadFails, Fault
    <3>3. QED
      BY <1>0, <2>5, <2>r, <3>1, <3>2 DEF Types, ReadFails, Unlock, MoveTo, fileVars, counts
  <2>6. CASE Return(r)
    BY <1>0, <2>6, <2>r DEF Types, Return, MoveTo, fileVars, counts, walk
  <2>7. CASE ReadUnallocated(r)
    <3>1. cursor' \in Nat /\ faults' \in 0 .. MaxFaults
      BY <1>0, <1>n, <2>7 DEF Types, ReadUnallocated, Fault
    <3>2. QED
      BY <1>0, <2>7, <2>r, <3>1 DEF Types, ReadUnallocated, Unlock, MoveTo, fileVars, counts
  <2>8. QED
    BY <1>7, <2>1, <2>2, <2>3, <2>4, <2>5, <2>6, <2>7 DEF Reader, AtFile
<1>8. CASE UNCHANGED vars
  BY <1>0, <1>8 DEF Types, vars, fileVars, counts, walk, threadVars
<1>9. QED
  BY <1>1, <1>2, <1>3, <1>4, <1>5, <1>6, <1>7, <1>8, StepCases

LEMMA ModesStep == IndInv /\ [Next]_vars => Modes'
<1> SUFFICES ASSUME IndInv, [Next]_vars PROVE Modes'
  OBVIOUS
<1>0. Types /\ Modes /\ Exclusive
  BY DEF IndInv
<1>w. Writer \in Threads
  BY WriterIs
<1>1. CASE Create \/ Created \/ CreateFails
  <2>1. /\ UNCHANGED <<pc, position, cells, numWritten, numTraces>>
        /\ mode \in {"none", "creating"} /\ mode' \in {"creating", "write", "down"}
    BY <1>1 DEF Create, Created, CreateFails, fileVars, counts, walk, threadVars
  <2>2. QED
    BY <1>0, <1>w, <2>1 DEF Modes
<1>2. CASE Crash \/ Open
  <2>1. pc' = [t \in Threads |-> "idle"] /\ mode' \in {"down", "failed", "read"}
    BY <1>2 DEF Crash, Open, ReadHeaders
  <2>2. QED
    BY <1>w, <2>1 DEF Modes
<1>3. CASE AskClose \/ Close
  <2>1. /\ UNCHANGED pc /\ mode' \in {"closing", "down"}
        /\ mode = "write" => pc[Writer] \in {"idle", "stopped"} /\ \A r \in Readers : pc[r] = "idle"
        /\ mode \in {"write", "closing"}
    BY <1>3 DEF AskClose, Close, threadVars
  <2>2. \A t \in Threads : pc[t] \in {"idle", "stopped"}
    BY <1>0, <2>1 DEF Modes, Threads
  <2>3. QED
    BY <1>w, <2>1, <2>2 DEF Modes
<1>4. CASE AskWrite \/ StartWrite \/ WriteCell \/ FinishWrite \/ StartWriteFails \/ WriteCellFails \/ FinishWriteFails
  <2>1. /\ UNCHANGED <<mode, numTraces>>
        /\ \A t \in Threads \ {Writer} : pc'[t] = pc[t]
        /\ pc'[Writer] \in {"idle", "want", "writing", "stopped"}
    BY <1>0, <1>4, <1>w DEF Types, AskWrite, StartWrite, WriteCell, FinishWrite, StartWriteFails, WriteCellFails,
       FinishWriteFails, MoveTo, counts, threadVars
  <2>2. mode = "write"
    <3>1. CASE AskWrite
      BY <3>1 DEF AskWrite
    <3>2. CASE ~AskWrite
      BY <1>0, <1>4, <3>2 DEF Modes, StartWrite, WriteCell, FinishWrite, StartWriteFails, WriteCellFails,
         FinishWriteFails
    <3>3. QED
      BY <3>1, <3>2
  <2>3. QED
    BY <1>0, <2>1, <2>2 DEF Modes
<1>5. ASSUME NEW r \in Readers, Reader(r) PROVE Modes'
  BY <1>0, <1>5, <1>w, ReaderStep DEF Modes, counts, fileVars
<1>6. CASE UNCHANGED vars
  BY <1>0, <1>6 DEF Modes, vars, fileVars, counts, walk, threadVars
<1>7. QED
  BY <1>1, <1>2, <1>3, <1>4, <1>5, <1>6, StepCases

LEMMA CountedStep == IndInv /\ [Next]_vars => Counted'
<1> SUFFICES ASSUME IndInv, [Next]_vars PROVE Counted'
  OBVIOUS
<1>0. Types /\ Modes /\ Counted /\ Exclusive
  BY DEF IndInv
<1>w. Writer \in Threads
  BY WriterIs
<1>n. numWritten \in Nat /\ committed \in Nat
  BY <1>0, Constants DEF Types
<1>1. ASSUME numWritten' = numWritten PROVE \A n : Announced(n) => Announced(n)'
  BY <1>1 DEF Announced, Absent, Unknown
<1>2. CASE Create \/ Created \/ CreateFails \/ Crash \/ Open \/ AskClose \/ Close
  <2>1. (UNCHANGED <<numWritten, committed>> /\ pc'[Writer] \notin {"want", "writing"}) \/ Crash
    BY <1>0, <1>2, <1>w DEF Modes, Create, Created, CreateFails, Open, AskClose, Close, counts, threadVars
  <2>2. UNCHANGED <<numWritten, committed>> /\ pc'[Writer] \notin {"want", "writing"}
    BY <1>w, <2>1 DEF Crash, counts
  <2>3. Announced(committed)
    BY <1>0, <1>n DEF Announced, Counted
  <2>4. /\ header' = header \/ header' = numTraces
        /\ numTraces' = numTraces \/ numTraces' = header \/ numTraces' = committed
    BY <1>2 DEF Create, Created, CreateFails, Crash, Open, AskClose, Close, WriteDefaultHeaders, ReadHeaders,
                counts, fileVars
  <2>5. Announced(header') /\ Announced(numTraces')
    BY <1>0, <2>3, <2>4 DEF Counted
  <2>6. QED
    BY <1>0, <1>1, <2>2, <2>5 DEF Counted, Announced
<1>3. CASE AskWrite
  <2>1. pc' = [pc EXCEPT ![Writer] = "want"] /\ want' = [want EXCEPT ![Writer] = numWritten]
        /\ UNCHANGED <<fileVars, counts>>
    BY <1>3 DEF AskWrite, MoveTo
  <2>2. want'[Writer] = numWritten
    BY <1>0, <1>w, <2>1 DEF Types
  <2>3. QED
    BY <1>0, <2>1, <2>2 DEF Counted, Announced, fileVars, counts
<1>4. CASE StartWrite \/ WriteCell \/ StartWriteFails \/ WriteCellFails
  <2>1. /\ UNCHANGED <<header, numTraces, numWritten, committed, want>>
        /\ pc[Writer] \in {"want", "writing"}
    BY <1>4 DEF StartWrite, WriteCell, StartWriteFails, WriteCellFails, fileVars, counts, threadVars
  <2>2. QED
    BY <1>0, <2>1 DEF Counted, Announced
<1>5. CASE FinishWrite \/ FinishWriteFails
  <2>1. /\ numWritten' = numWritten + 1 /\ (committed' = committed \/ committed' = committed + 1)
        /\ header' = header \/ header' = FinalCount
        /\ numTraces' = numTraces
        /\ pc'[Writer] \in {"idle", "stopped"} /\ pc[Writer] = "writing"
    BY <1>0, <1>5, <1>w DEF Types, FinishWrite, FinishWriteFails, MoveTo
  <2>2. numTraces = Unknown /\ FinalCount = numWritten + 1
    BY <1>0, <2>1 DEF Modes, FinalCount
  <2>3. Announced(header)' /\ Announced(numTraces)'
    BY <1>0, <1>n, <2>1, <2>2 DEF Counted, Announced
  <2>4. QED
    BY <1>0, <1>n, <2>1, <2>3 DEF Counted
<1>6. ASSUME NEW r \in Readers, Reader(r) PROVE Counted'
  BY <1>0, <1>6, ReaderStep DEF Counted, Announced, fileVars, counts
<1>7. CASE UNCHANGED vars
  BY <1>0, <1>7 DEF Counted, Announced, vars, fileVars, counts, threadVars
<1>8. QED
  BY <1>2, <1>3, <1>4, <1>5, <1>6, <1>7, StepCases

\* A write puts the next cell of the record behind the last one.
LEMMA WriteCellStep ==
    ASSUME Types, Grown, Counted, WriteCell
    PROVE  /\ numWritten \in Traces
           /\ cells' = Append(cells, todo[1])
           /\ Len(cells') = Len(cells) + 1 /\ Len(cells) \in Nat
           /\ \A c \in 1 .. Len(cells) : cells'[c] = cells[c]
           /\ cells'[Len(cells) + 1] = Record(numWritten)[Len(cells) - Place(numWritten) + 1]
           /\ Len(cells) - Place(numWritten) + 1 \in 1 .. Len(Record(numWritten))
           /\ Place(numWritten) \in Nat
           /\ cursor' = Len(cells') + 1
           /\ todo' = Tail(todo) /\ Len(todo') = Len(todo) - 1 /\ Len(todo) \in Nat \ {0}
           /\ \A f \in 1 .. Len(todo') : todo'[f] = todo[f + 1]
<1>1. /\ pc[Writer] = "writing" /\ todo # <<>> /\ cells' = Put(Head(todo)) /\ cursor' = cursor + 1
      /\ todo' = Tail(todo)
  BY DEF WriteCell
<1>2. /\ cursor = Len(cells) + 1
      /\ Len(cells) + Len(todo) = Place(numWritten) + Len(Record(numWritten))
      /\ \A f \in 1 .. Len(todo) :
                todo[f] = Record(numWritten)[Len(cells) - Place(numWritten) + f]
      /\ Place(numWritten) <= Len(cells)
  BY <1>1 DEF Grown
<1>3. numWritten \in Traces /\ numWritten \in 0 .. N
  BY <1>1, WriterIs DEF Counted, Types, Traces
<1>4. Place(numWritten) \in Nat /\ Len(Record(numWritten)) \in Nat /\ Len(cells) \in Nat
  BY <1>3, Places, LenProperties DEF Types
<1>5. cells' = Append(cells, Head(todo))
  BY <1>1, <1>2, <1>4 DEF Put
<1>6. /\ Len(todo) \in Nat \ {0} /\ Head(todo) \in Cell /\ Len(Tail(todo)) = Len(todo) - 1
      /\ \A f \in 1 .. Len(Tail(todo)) : Tail(todo)[f] = todo[f + 1]
  BY <1>1, EmptySeq, HeadTailProperties DEF Types
<1>7. Head(todo) = todo[1]
  OBVIOUS
<1>8. cells \in Seq(Cell)
  BY DEF Types
<1>9. /\ Len(cells') = Len(cells) + 1
      /\ \A c \in 1 .. Len(cells) : cells'[c] = cells[c]
      /\ cells'[Len(cells) + 1] = todo[1]
  BY <1>5, <1>6, <1>7, <1>8
<1>10. todo[1] = Record(numWritten)[Len(cells) - Place(numWritten) + 1]
  <2>1. 1 \in 1 .. Len(todo)
    BY <1>6
  <2>2. QED
    BY <1>2, <2>1
<1>11. Len(cells) - Place(numWritten) + 1 \in 1 .. Len(Record(numWritten))
  BY <1>2, <1>4, <1>6
<1>12. QED
  BY <1>1, <1>2, <1>3, <1>4, <1>5, <1>6, <1>7, <1>9, <1>10, <1>11

LEMMA CellsStep == IndInv /\ [Next]_vars => CellsTrue'
<1> SUFFICES ASSUME IndInv, [Next]_vars PROVE CellsTrue'
  OBVIOUS
<1>0. Types /\ Modes /\ Counted /\ CellsTrue /\ Grown /\ Exclusive
  BY DEF IndInv
<1>k. \A i : Record(i)' = Record(i) /\ Place(i)' = Place(i)
  BY KindKept
<1>1. CASE WriteCell
  <2> SUFFICES ASSUME NEW i \in Traces, NEW f \in 1 .. Len(Record(i)), Place(i) + f <= Len(cells')
               PROVE  cells'[Place(i) + f] = Record(i)[f]
    BY <1>k DEF CellsTrue, Traces
  <2>1. /\ numWritten \in Traces /\ Len(cells') = Len(cells) + 1 /\ Len(cells) \in Nat
        /\ \A c \in 1 .. Len(cells) : cells'[c] = cells[c]
        /\ cells'[Len(cells) + 1] = Record(numWritten)[Len(cells) - Place(numWritten) + 1]
        /\ Len(cells) - Place(numWritten) + 1 \in 1 .. Len(Record(numWritten))
        /\ Place(numWritten) \in Nat
    BY <1>0, <1>1, WriteCellStep
  <2>2. Place(i) \in Nat /\ f \in Nat \ {0}
    <3>1. i \in 0 .. N
      BY Constants DEF Traces
    <3>2. QED
      BY <1>0, <3>1, Places DEF Types
  <2>3. CASE Place(i) + f <= Len(cells)
    <3>1. Place(i) + f \in 1 .. Len(cells)
      BY <2>1, <2>2, <2>3
    <3>2. QED
      BY <1>0, <2>1, <2>3, <3>1 DEF CellsTrue, Traces
  <2>4. CASE Place(i) + f = Len(cells) + 1
    <3>1. Place(i) + f = Place(numWritten) + (Len(cells) - Place(numWritten) + 1)
      BY <2>1, <2>4
    <3>2. i = numWritten /\ f = Len(cells) - Place(numWritten) + 1
      BY <1>0, <2>1, <3>1, OnePlace DEF Types
    <3>3. QED
      BY <2>1, <2>4, <3>2
  <2>5. QED
    BY <2>1, <2>2, <2>3, <2>4
<1>2. CASE cells' = cells
  BY <1>0, <1>2, <1>k DEF CellsTrue
<1>3. cells' = cells \/ WriteCell
  <2>1. CASE \E r \in Readers : Reader(r)
    BY <1>0, <2>1, ReaderStep DEF fileVars
  <2>2. CASE ~\E r \in Readers : Reader(r)
    BY <2>2, StepCases DEF Create, Created, CreateFails, Crash, Open, AskWrite, StartWrite, FinishWrite,
       StartWriteFails, WriteCellFails, FinishWriteFails, AskClose, Close, vars, fileVars
  <2>3. QED
    BY <2>1, <2>2
<1>4. QED
  BY <1>1, <1>2, <1>3

\* Nobody is at the FILE when the process opens, closes or dies.
LEMMA ProcessAlone ==
    ASSUME Types, Modes, Create \/ Created \/ CreateFails \/ Crash \/ Open \/ AskClose \/ Close
    PROVE  \A t \in Threads : pc'[t] \in {"idle", "stopped"}
<1>1. CASE Crash \/ Open
  BY <1>1 DEF Crash, Open
<1>2. CASE AskClose
  BY <1>2 DEF AskClose, threadVars, Threads
<1>3. CASE Create \/ Created \/ CreateFails \/ Close
  <2>1. UNCHANGED pc /\ mode \in {"none", "creating", "closing"}
    BY <1>3 DEF Create, Created, CreateFails, Close, threadVars
  <2>2. QED
    BY <2>1 DEF Modes
<1>4. QED
  BY <1>1, <1>2, <1>3

LEMMA GrownStep == IndInv /\ [Next]_vars => Grown'
<1> SUFFICES ASSUME IndInv, [Next]_vars PROVE Grown'
  OBVIOUS
<1>0. Types /\ Modes /\ Counted /\ Grown /\ Exclusive
  BY DEF IndInv
<1>w. Writer \in Threads
  BY WriterIs
<1>k. \A i : Record(i)' = Record(i) /\ Place(i)' = Place(i)
  BY KindKept
<1>n. numWritten \in 0 .. N /\ Place(numWritten) \in Nat /\ Len(cells) \in Nat /\ Place(0) = 0
  BY <1>0, Places, LenProperties DEF Types
<1>1. CASE Create \/ Created \/ CreateFails
  <2>1. /\ UNCHANGED <<pc, cells, numWritten>>
        /\ mode \in {"none", "creating"}
    BY <1>1 DEF Create, Created, CreateFails, fileVars, counts, threadVars
  <2>2. cells = <<>> /\ numWritten = 0 /\ pc[Writer] # "writing"
    BY <1>0, <1>w, <2>1 DEF Modes
  <2>3. Len(cells) = 0 /\ Place(numWritten) = 0 /\ pc'[Writer] # "writing"
    BY <1>n, <2>1, <2>2
  <2>4. Place(numWritten)' = Place(numWritten)
    BY <1>k, <2>1
  <2>5. QED
    BY <2>1, <2>3, <2>4 DEF Grown
<1>2. CASE Crash \/ Open \/ AskClose \/ Close
  <2>1. UNCHANGED <<cells, numWritten>> /\ mode' # "write"
    BY <1>2 DEF Crash, Open, ReadHeaders, AskClose, Close, fileVars, counts
  <2>2. pc'[Writer] # "writing"
    BY <1>0, <1>2, <1>w, ProcessAlone
  <2>3. Place(numWritten)' = Place(numWritten)
    BY <1>k, <2>1
  <2>4. QED
    BY <1>0, <2>1, <2>2, <2>3 DEF Grown
<1>3. CASE AskWrite \/ StartWriteFails \/ WriteCellFails
  <2>1. /\ UNCHANGED <<mode, cells, numWritten>>
        /\ (pc'[Writer] = "want" /\ pc[Writer] = "idle") \/ pc'[Writer] = "stopped"
    BY <1>0, <1>3, <1>w DEF Types, AskWrite, StartWriteFails, WriteCellFails, MoveTo, fileVars, counts
  <2>2. Place(numWritten)' = Place(numWritten)
    BY <1>k, <2>1
  <2>3. QED
    BY <1>0, <2>1, <2>2 DEF Grown
<1>4. CASE StartWrite
  <2>1. /\ UNCHANGED <<mode, cells, numWritten>>
        /\ pc' = [pc EXCEPT ![Writer] = "writing"] /\ pc[Writer] = "want"
        /\ cursor' = IF kind = "trs" THEN TrsOffset(want[Writer]) ELSE Len(cells) + 1
        /\ todo' = Record(want[Writer])
    BY <1>4 DEF StartWrite, MoveTo, fileVars, counts
  <2>2. mode = "write" /\ want[Writer] = numWritten
    BY <1>0, <2>1 DEF Modes, Counted
  <2>3. Len(cells) = Place(numWritten) /\ pc'[Writer] = "writing"
    BY <1>0, <1>w, <2>1, <2>2 DEF Grown, Types
  <2>4. TrsOffset(numWritten) \in Nat
    <3>1. \A i \in Nat : 1 + i * (F + 1) \in Nat
      BY Constants
    <3>2. QED
      BY <1>n, <3>1, Constants DEF TrsOffset, F
  <2>5. kind = "trs" => TrsOffset(numWritten) = Place(numWritten) + 1
    BY <2>4 DEF Place
  <2>6. cursor' = Len(cells) + 1
    BY <2>1, <2>2, <2>3, <2>5
  <2>7. numWritten \in Traces
    BY <1>0, <1>w, <2>2 DEF Types, Traces
  <2>8. Len(Record(numWritten)) \in Nat
    BY <1>0, <2>7, Places DEF Types
  <2>9. Place(numWritten)' = Place(numWritten) /\ Record(numWritten)' = Record(numWritten)
    BY <1>k, <2>1
  <2>10. Len(cells) + Len(todo') = Place(numWritten) + Len(Record(numWritten))
    BY <2>1, <2>2, <2>3
  <2>11. \A f \in 1 .. Len(todo') : todo'[f] = Record(numWritten)[Len(cells) - Place(numWritten) + f]
    BY <1>n, <2>1, <2>2, <2>3, <2>8
  <2>12. QED
    BY <1>0, <2>1, <2>3, <2>6, <2>9, <2>10, <2>11 DEF Grown
<1>5. CASE WriteCell
  <2>1. /\ numWritten \in Traces /\ Len(cells') = Len(cells) + 1
        /\ cursor' = Len(cells') + 1
        /\ Len(todo') = Len(todo) - 1 /\ Len(todo) \in Nat \ {0}
        /\ \A f \in 1 .. Len(todo') : todo'[f] = todo[f + 1]
    BY <1>0, <1>5, WriteCellStep
  <2>2. UNCHANGED <<mode, numWritten, pc>> /\ pc[Writer] = "writing"
    BY <1>5 DEF WriteCell, counts, threadVars
  <2>3. Len(Record(numWritten)) \in Nat
    BY <1>0, <2>1, Places DEF Types
  <2>4. /\ Len(cells) + Len(todo) = Place(numWritten) + Len(Record(numWritten))
        /\ \A f \in 1 .. Len(todo) : todo[f] = Record(numWritten)[Len(cells) - Place(numWritten) + f]
        /\ Place(numWritten) <= Len(cells)
    BY <1>0, <2>2 DEF Grown
  <2>5. Place(numWritten)' = Place(numWritten) /\ Record(numWritten)' = Record(numWritten)
    BY <1>k, <2>2
  <2>6. Len(cells') + Len(todo') = Place(numWritten) + Len(Record(numWritten)) /\ Place(numWritten) <= Len(cells')
    BY <1>n, <2>1, <2>3, <2>4
  <2>7. ASSUME NEW f \in 1 .. Len(todo')
        PROVE  todo'[f] = Record(numWritten)[Len(cells') - Place(numWritten) + f]
    <3>1. f + 1 \in 1 .. Len(todo) /\ Len(cells') - Place(numWritten) + f = Len(cells) - Place(numWritten) + (f + 1)
      BY <1>n, <2>1
    <3>2. QED
      BY <2>1, <2>4, <3>1
  <2>8. QED
    BY <2>1, <2>2, <2>5, <2>6, <2>7 DEF Grown
<1>6. CASE FinishWrite \/ FinishWriteFails
  <2>1. /\ UNCHANGED <<mode, cells>> /\ numWritten' = numWritten + 1 /\ todo = <<>>
        /\ pc[Writer] = "writing" /\ pc'[Writer] \in {"idle", "stopped"}
    BY <1>0, <1>6, <1>w DEF Types, FinishWrite, FinishWriteFails, MoveTo
  <2>2. Len(cells) + 0 = Place(numWritten) + Len(Record(numWritten))
    BY <1>0, <2>1 DEF Grown
  <2>3. numWritten \in Traces
    BY <1>0, <1>w, <2>1 DEF Types, Traces, Counted
  <2>4. Place(numWritten + 1) = Len(cells)
    BY <1>0, <1>n, <2>2, <2>3, Places DEF Types
  <2>5. Place(numWritten)' = Len(cells)
    BY <1>k, <2>1, <2>4
  <2>6. QED
    BY <1>n, <2>1, <2>5 DEF Grown
<1>7. ASSUME NEW r \in Readers, Reader(r) PROVE Grown'
  <2>1. /\ UNCHANGED <<mode, cells, numWritten, todo>> /\ pc'[Writer] = pc[Writer]
        /\ pc[Writer] = "writing" => UNCHANGED cursor
    BY <1>0, <1>7, ReaderStep DEF fileVars, counts
  <2>2. Place(numWritten)' = Place(numWritten) /\ Record(numWritten)' = Record(numWritten)
    BY <1>k, <2>1
  <2>3. QED
    BY <1>0, <2>1, <2>2 DEF Grown
<1>8. CASE UNCHANGED vars
  <2>1. UNCHANGED <<mode, cells, numWritten, todo, pc, cursor>>
    BY <1>8 DEF vars, fileVars, counts, walk, threadVars
  <2>2. Place(numWritten)' = Place(numWritten) /\ Record(numWritten)' = Record(numWritten)
    BY <1>k, <2>1
  <2>3. QED
    BY <1>0, <2>1, <2>2 DEF Grown
<1>9. QED
  BY <1>1, <1>2, <1>3, <1>4, <1>5, <1>6, <1>7, <1>8, StepCases

LEMMA ExclusiveStep == IndInv /\ [Next]_vars => Exclusive'
<1> SUFFICES ASSUME IndInv, [Next]_vars PROVE Exclusive'
  OBVIOUS
<1>0. Types /\ Modes /\ Exclusive
  BY DEF IndInv
<1>1. ASSUME \A t \in Threads : Holding(t)' => Holding(t), lock' = lock PROVE Exclusive'
  BY <1>0, <1>1 DEF Exclusive
<1>2. ASSUME NEW t \in Threads, lock = 1, lock' = 0, \A u \in Threads \ {t} : pc'[u] = pc[u] PROVE Exclusive'
  <2>1. \A u \in Threads : ~Holding(u)
    BY <1>0, <1>2 DEF Exclusive
  <2>2. \A u \in Threads : Holding(u)' => u = t
    BY <1>2, <2>1 DEF Holding
  <2>3. QED
    BY <1>2, <2>2 DEF Exclusive
<1>3. ASSUME NEW t \in Threads, Holding(t), ~Holding(t)', \A u \in Threads \ {t} : pc'[u] = pc[u] PROVE Exclusive'
  <2>1. \A u \in Threads : ~Holding(u)'
    BY <1>0, <1>3 DEF Exclusive, Holding
  <2>2. QED
    BY <2>1 DEF Exclusive
<1>4. CASE Create \/ Created \/ CreateFails \/ Crash \/ Open \/ AskClose \/ Close
  BY <1>0, <1>4, ProcessAlone DEF Exclusive, Holding
<1>w. Writer \in Threads
  BY WriterIs
<1>5. CASE AskWrite \/ StartWriteFails \/ WriteCell
  <2>1. lock' = lock /\ \A t \in Threads : pc'[t] \in {"want", "stopped"} \/ pc'[t] = pc[t]
    BY <1>0, <1>5, <1>w DEF Types, AskWrite, StartWriteFails, WriteCell, MoveTo, threadVars
  <2>2. QED
    BY <1>1, <2>1 DEF Holding
<1>6. CASE StartWrite
  BY <1>0, <1>2, <1>6, <1>w DEF Types, StartWrite, MoveTo
<1>7. CASE FinishWrite \/ FinishWriteFails \/ WriteCellFails
  <2>1. /\ pc[Writer] = "writing" /\ pc'[Writer] \in {"idle", "stopped"}
        /\ \A u \in Threads \ {Writer} : pc'[u] = pc[u]
    BY <1>0, <1>7, <1>w DEF Types, FinishWrite, FinishWriteFails, WriteCellFails, MoveTo
  <2>2. QED
    BY <1>3, <1>w, <2>1 DEF Holding
<1>8. ASSUME NEW r \in Readers, Reader(r) PROVE Exclusive'
  <2>r. r \in Threads
    BY ReadersAre
  <2>0. \A t \in Threads \ {r} : pc'[t] = pc[t]
    BY <1>0, <1>8, ReaderStep
  <2>1. CASE AskRead(r) \/ Return(r) \/ SeekBack(r) \/ SeekForward(r)
    <3>1. lock' = lock /\ (pc'[r] \in {"want", "idle"} \/ pc'[r] = pc[r])
      BY <1>0, <2>1, <2>r DEF Types, AskRead, Return, SeekBack, SeekForward, MoveTo, threadVars
    <3>2. QED
      BY <1>1, <2>0, <3>1 DEF Holding
  <2>2. CASE StartRead(r)
    BY <1>2, <2>0, <2>2, <2>r DEF StartRead
  <2>3. CASE ReadTrs(r) \/ ReadZtrs(r) \/ ReadFails(r) \/ ReadUnallocated(r)
    <3>1. pc[r] \in {"get", "seek"} /\ pc'[r] \in {"done", "failed"}
      BY <1>0, <2>3, <2>r DEF Types, ReadTrs, ReadZtrs, ReadFails, ReadUnallocated, MoveTo
    <3>2. QED
      BY <1>3, <2>0, <2>r, <3>1 DEF Holding
  <2>4. QED
    BY <1>8, <2>1, <2>2, <2>3 DEF Reader, AtFile
<1>9. CASE UNCHANGED vars
  BY <1>1, <1>9 DEF vars, threadVars, Holding
<1>10. QED
  BY <1>4, <1>5, <1>6, <1>7, <1>8, <1>9, StepCases

-----------------------------------------------------------------------------
(* Reading *)

\* A record that is in the file is found at its place.
LEMMA RecordRead ==
    ASSUME Types, CellsTrue, NEW i \in Traces, Place(i) + Len(Record(i)) <= Len(cells)
    PROVE  SubSeq(cells, Place(i) + 1, Place(i) + Len(Record(i))) = Record(i)
<1> DEFINE l == Len(Record(i))
           q == Place(i)
           s == SubSeq(cells, q + 1, q + l)
<1>1. Record(i) \in Seq(Cell) /\ l \in Nat /\ q \in Nat
  <2>1. i \in 0 .. N
    BY Constants DEF Traces
  <2>2. QED
    BY <2>1, Places DEF Types
<1>2. \A f \in 1 .. l : cells[q + f] = Record(i)[f]
  BY <1>1 DEF CellsTrue, Traces
<1>3. \A c \in q + 1 .. q + l : cells[c] \in Cell
  BY <1>1, LenProperties DEF Types
<1> HIDE DEF l, q
<1>4. s \in Seq(Cell) /\ Len(s) = l /\ \A f \in 1 .. l : s[f] = cells[q + f]
  <2>1. /\ SubSeq(cells, q + 1, q + l) \in Seq(Cell)
        /\ Len(SubSeq(cells, q + 1, q + l)) = IF q + 1 <= q + l THEN (q + l) - (q + 1) + 1 ELSE 0
        /\ \A f \in 1 .. (q + l) - (q + 1) + 1 :
              SubSeq(cells, q + 1, q + l)[f] = cells[(q + 1) + f - 1]
    <3>1. q + 1 \in Int /\ q + l \in Int
      BY <1>1
    <3>2. QED
      BY <1>3, <3>1, SubSeqProperties
  <2>2. (q + l) - (q + 1) + 1 = l /\ (IF q + 1 <= q + l THEN (q + l) - (q + 1) + 1 ELSE 0) = l
        /\ \A f \in 1 .. l : (q + 1) + f - 1 = q + f
    BY <1>1
  <2>3. QED
    BY <2>1, <2>2
<1> HIDE DEF s
<1>5. s = Record(i)
  BY <1>1, <1>2, <1>4, SeqEqual DEF l
<1>6. QED
  BY <1>5 DEF s, l, q

\* A read from the right place of a trs returns the trace.
LEMMA TrsReadTrue ==
    ASSUME Types, CellsTrue, kind = "trs", NEW r \in Threads, NEW i \in Traces, cursor = TrsOffset(i),
           Read(r, cursor, Len(Fields) + 1)
    PROVE  got'[r] = TrsBody(i)
<1>1. /\ Record(i) = TrsBody(i) /\ Len(Record(i)) = F + 1
  BY BodyType DEF Record
<1>2. i \in 0 .. N /\ Place(i) \in Nat /\ TrsOffset(i) = Place(i) + 1
  <2>1. \A n \in Nat : 1 + n * (F + 1) \in Nat
    BY Constants
  <2>2. i \in Nat /\ i \in 0 .. N
    BY Constants DEF Traces
  <2>3. TrsOffset(i) \in Nat
    BY <2>1, <2>2 DEF TrsOffset, F
  <2>4. Place(i) \in Nat
    BY <2>2, Places DEF Types
  <2>5. QED
    BY <2>2, <2>3, <2>4 DEF Place
<1>3. F \in Nat
  BY Constants
<1>4. cursor = Place(i) + 1 /\ cursor + (Len(Fields) + 1) - 1 = Place(i) + Len(Record(i))
  BY <1>1, <1>2, <1>3 DEF F
<1>5. /\ cursor + (Len(Fields) + 1) - 1 <= Len(cells)
      /\ got'[r] = SubSeq(cells, cursor, cursor + (Len(Fields) + 1) - 1)
  BY DEF Read, Types
<1>6. got'[r] = SubSeq(cells, Place(i) + 1, Place(i) + Len(Record(i)))
  BY <1>4, <1>5, Zenon
<1>7. Place(i) + Len(Record(i)) <= Len(cells)
  BY <1>4, <1>5, Zenon
<1>8. QED
  BY <1>1, <1>6, <1>7, RecordRead

\* What is in the file where a piece was put is that piece.
LEMMA PieceRead ==
    ASSUME Types, NEW q \in Nat \ {0}, NEW body \in Seq(Cell), q + Len(body) - 1 <= Len(cells),
           \A b \in 1 .. Len(body) : cells[q + b - 1] = body[b]
    PROVE  SubSeq(cells, q, q + Len(body) - 1) = body
<1> DEFINE l == Len(body)
           s == SubSeq(cells, q, q + l - 1)
<1>1. l \in Nat /\ q + l - 1 <= Len(cells) /\ Len(cells) \in Nat
  BY LenProperties DEF Types
<1> HIDE DEF l
<1>2. \A c \in q .. q + l - 1 : cells[c] \in Cell
  <2>1. \A c \in q .. q + l - 1 : c \in 1 .. Len(cells)
    BY <1>1
  <2>2. QED
    BY <2>1, ElementOfSeq DEF Types
<1>3. /\ SubSeq(cells, q, q + l - 1) \in Seq(Cell)
      /\ Len(SubSeq(cells, q, q + l - 1)) = IF q <= q + l - 1 THEN (q + l - 1) - q + 1 ELSE 0
      /\ \A b \in 1 .. (q + l - 1) - q + 1 : SubSeq(cells, q, q + l - 1)[b] = cells[q + b - 1]
  <2>1. q \in Int /\ q + l - 1 \in Int
    BY <1>1
  <2>2. QED
    BY <1>2, <2>1, SubSeqProperties
<1>4. (q + l - 1) - q + 1 = l /\ (IF q <= q + l - 1 THEN (q + l - 1) - q + 1 ELSE 0) = l
  BY <1>1
<1>5. s \in Seq(Cell) /\ Len(s) = l /\ \A b \in 1 .. l : s[b] = cells[q + b - 1]
  BY <1>3, <1>4, Zenon
<1> HIDE DEF s
<1>6. s = body
  BY <1>5, SeqEqual DEF l
<1>7. QED
  BY <1>6 DEF s, l

\* The cells of the record of a ztrs that a read fetches, and where it leaves the cursor.
LEMMA ZtrsPiece ==
    ASSUME Types, CellsTrue, kind = "ztrs", NEW i \in Traces, NEW c \in Nat, c = Gap(i),
           NEW n \in SizesAt(c + 1)
    PROVE  /\ n = Packed[i] /\ c # 0
           /\ c + 2 + (F + n) = Gap(i + 1)
           /\ c + 2 + (F + n) - 1 <= Len(cells) =>
                 SubSeq(cells, c + 2, c + 2 + (F + n) - 1) = ZtrsBody(i)
<1>1. /\ c \in Nat \ {0} /\ Gap(i + 1) = c + 2 + F + Packed[i]
      /\ c + 1 <= Len(cells) => cells[c + 1] = SizeCell(Packed[i])
      /\ \A b \in 1 .. F + Packed[i] : c + 1 + b <= Len(cells) => cells[c + 1 + b] = ZtrsBody(i)[b]
  BY ChainCells
<1>2. F \in Nat /\ Packed[i] \in Nat /\ Len(cells) \in Nat
  BY Constants, LenProperties DEF Types
<1>3. n = Packed[i]
  <2>1. c + 1 \in Nat
    BY <1>1
  <2>2. c + 1 \in 1 .. Len(cells)
    BY <2>1, SizesRead
  <2>3. cells[c + 1] = SizeCell(Packed[i])
    BY <1>1, <1>2, <2>2
  <2>4. SizesAt(c + 1) = {Packed[i]}
    BY <2>1, <2>2, <2>3, SizesRead
  <2>5. QED
    BY <2>4
<1>a. PICK p \in Nat, f \in Nat, g \in {Gap(i + 1)} : p = Packed[i] /\ f = F
  BY <1>2
<1>b. g = c + 2 + f + p
  BY <1>1, <1>a, Zenon
<1>4. c + 2 + (F + n) = Gap(i + 1)
  <2>1. c + 2 + (f + p) = g
    BY <1>b
  <2>2. QED
    BY <1>3, <1>a, <2>1, Zenon
<1>5. ASSUME c + 2 + (F + n) - 1 <= Len(cells)
      PROVE  SubSeq(cells, c + 2, c + 2 + (F + n) - 1) = ZtrsBody(i)
  <2>1. ZtrsBody(i) \in Seq(Cell) /\ Len(ZtrsBody(i)) = F + n
    BY <1>3, BodyType
  <2>2. c + 2 \in Nat \ {0}
    BY <1>1
  <2>3. ASSUME NEW b \in 1 .. F + n PROVE cells[(c + 2) + b - 1] = ZtrsBody(i)[b]
    <3>0. b \in 1 .. f + p /\ c + 2 + (f + p) - 1 <= Len(cells)
      BY <1>3, <1>5, <1>a, Zenon
    <3>1. (c + 2) + b - 1 = c + 1 + b /\ c + 1 + b <= Len(cells)
      BY <1>2, <3>0, SMTT(20)
    <3>2. cells[c + 1 + b] = ZtrsBody(i)[b]
      BY <1>1, <1>3, <3>1, Zenon
    <3>3. QED
      BY <3>1, <3>2, Zenon
  <2>4. QED
    BY <1>5, <2>1, <2>2, <2>3, PieceRead
<1>6. QED
  BY <1>1, <1>3, <1>4, <1>5

\* A read from the right place of a ztrs returns the trace, and moves to the next place.
LEMMA ZtrsReadTrue ==
    ASSUME Types, CellsTrue, kind = "ztrs", NEW r \in Threads, NEW i \in Traces, cursor = Gap(i),
           NEW this \in SizesAt(cursor + 1), Read(r, cursor + 2, Len(Fields) + this)
    PROVE  got'[r] = ZtrsBody(i) /\ cursor' = Gap(i + 1)
<1>1. PICK c \in Nat : c = cursor
  BY DEF Types
<1>2. PICK l : l = F + this
  OBVIOUS
<1>3. c = Gap(i) /\ this \in SizesAt(c + 1)
  BY <1>1, Zenon
<1>4. /\ c + 2 + l = Gap(i + 1)
      /\ c + 2 + l - 1 <= Len(cells) => SubSeq(cells, c + 2, c + 2 + l - 1) = ZtrsBody(i)
  BY <1>2, <1>3, ZtrsPiece
<1>5. Read(r, c + 2, l)
  BY <1>1, <1>2, Zenon DEF F
<1>6. /\ c + 2 + l - 1 <= Len(cells)
      /\ got'[r] = SubSeq(cells, c + 2, c + 2 + l - 1)
      /\ cursor' = c + 2 + l
  BY <1>5 DEF Read, Types
<1>7. QED
  BY <1>4, <1>6, Zenon

LEMMA GotStep == IndInv /\ [Next]_vars => GotTrue'
<1> SUFFICES ASSUME IndInv, [Next]_vars PROVE GotTrue'
  OBVIOUS
<1>0. Types /\ Modes /\ CellsTrue /\ Exclusive /\ CursorTrue /\ GotTrue
  BY DEF IndInv
<1>k. kind' = kind /\ \A i : Body(i)' = Body(i)
  BY KindKept
<1>w. Writer \in Threads
  BY WriterIs
<1>1. ASSUME NEW t \in Readers, pc'[t] = "done" => pc[t] = "done" /\ want'[t] = want[t] /\ got'[t] = got[t],
             ~disturbed' => ~disturbed
      PROVE  pc'[t] = "done" /\ (kind' = "trs" \/ ~disturbed') => got'[t] = Body(want[t])'
  <2> SUFFICES ASSUME pc'[t] = "done", kind' = "trs" \/ ~disturbed' PROVE got'[t] = Body(want[t])'
    OBVIOUS
  <2>1. got[t] = Body(want[t])
    BY <1>0, <1>1, <1>k DEF GotTrue
  <2>2. Body(want[t])' = Body(want[t])
    BY <1>1, <1>k
  <2>3. QED
    BY <1>1, <2>1, <2>2
<1>2. CASE Create \/ Created \/ CreateFails \/ Crash \/ Open \/ AskClose \/ Close
  BY <1>0, <1>2, ProcessAlone, ReadersAre DEF GotTrue
<1>3. CASE AskWrite \/ StartWrite \/ WriteCell \/ FinishWrite \/ StartWriteFails \/ WriteCellFails \/ FinishWriteFails
  <2>1. \A t \in Threads \ {Writer} : pc'[t] = pc[t] /\ want'[t] = want[t] /\ got'[t] = got[t]
    BY <1>0, <1>3, <1>w DEF Types, AskWrite, StartWrite, WriteCell, FinishWrite, StartWriteFails, WriteCellFails,
       FinishWriteFails, MoveTo, threadVars
  <2>2. ~disturbed' => ~disturbed
    BY <1>3, Zenon DEF AskWrite, StartWrite, WriteCell, FinishWrite, StartWriteFails, WriteCellFails, FinishWriteFails
  <2>3. QED
    BY <1>1, <2>1, <2>2, ReadersAre DEF GotTrue
<1>4. ASSUME NEW r \in Readers, Reader(r) PROVE GotTrue'
  <2>r. r \in Threads
    BY ReadersAre
  <2>0. \A t \in Threads \ {r} : pc'[t] = pc[t] /\ want'[t] = want[t] /\ got'[t] = got[t]
    BY <1>0, <1>4, ReaderStep
  <2>d. ~disturbed' => ~disturbed
    BY <1>4, Zenon DEF Reader, AtFile, AskRead, StartRead, SeekBack, SeekForward, ReadTrs, ReadZtrs, ReadFails,
       ReadUnallocated, Return
  <2>1. ASSUME NEW t \in Readers, t # r
        PROVE  pc'[t] = "done" /\ (kind' = "trs" \/ ~disturbed') => got'[t] = Body(want[t])'
    BY <1>1, <2>0, <2>1, <2>d, ReadersAre
  <2>2. CASE ReadTrs(r)
    <3>1. pc[r] = "get" /\ Read(r, cursor, Len(Fields) + 1) /\ want' = want
      BY <2>2 DEF ReadTrs
    <3>2. kind = "trs" /\ cursor = TrsOffset(want[r])
      BY <1>0, <2>r, <3>1 DEF CursorTrue
    <3>3. want[r] \in Traces
      BY <1>0, <2>r DEF Types, Traces
    <3>4. got'[r] = TrsBody(want[r])
      BY <1>0, <2>r, <3>1, <3>2, <3>3, TrsReadTrue
    <3>5. Body(want[r])' = TrsBody(want[r])
      BY <1>k, <3>1, <3>2 DEF Body
    <3>6. QED
      BY <2>1, <3>4, <3>5 DEF GotTrue
  <2>3. CASE ReadZtrs(r)
    <3> SUFFICES ASSUME kind' = "trs" \/ ~disturbed' PROVE got'[r] = Body(want[r])'
      BY <2>1 DEF GotTrue
    <3>1. pc[r] = "seek" /\ want[r] = position /\ want' = want
      BY <2>3 DEF ReadZtrs
    <3>2. PICK this \in SizesAt(cursor + 1) : Read(r, cursor + 2, Len(Fields) + this)
      BY <2>3 DEF ReadZtrs
    <3>3. kind = "ztrs"
      BY <1>0, <2>r, <3>1 DEF CursorTrue
    <3>4. ~disturbed
      BY <1>k, <2>d, <3>3
    <3>5. cursor = Gap(want[r])
      BY <1>0, <2>r, <3>1, <3>3, <3>4 DEF CursorTrue
    <3>6. want[r] \in Traces
      BY <1>0, <2>r DEF Types, Traces
    <3>7. got'[r] = ZtrsBody(want[r])
      BY <1>0, <2>r, <3>2, <3>3, <3>5, <3>6, ZtrsReadTrue
    <3>8. Body(want[r])' = ZtrsBody(want[r])
      BY <1>k, <3>1, <3>3 DEF Body
    <3>9. QED
      BY <3>7, <3>8
  <2>4. CASE AskRead(r) \/ StartRead(r) \/ SeekBack(r) \/ SeekForward(r) \/ ReadFails(r) \/ Return(r)
    <3>1. pc'[r] # "done"
      BY <1>0, <2>4, <2>r DEF Types, AskRead, StartRead, SeekBack, SeekForward, ReadFails, Return, MoveTo, threadVars
    <3>2. QED
      BY <2>1, <3>1 DEF GotTrue
  <2>5. CASE ReadUnallocated(r)
    <3>1. pc[r] = "seek" /\ disturbed' = TRUE
      BY <2>5 DEF ReadUnallocated
    <3>2. kind = "ztrs"
      BY <1>0, <2>r, <3>1 DEF CursorTrue
    <3>3. ~(kind' = "trs" \/ ~disturbed')
      BY <1>k, <3>1, <3>2
    <3>4. QED
      BY <3>3 DEF GotTrue
  <2>6. QED
    BY <1>4, <2>2, <2>3, <2>4, <2>5 DEF Reader, AtFile
<1>5. CASE UNCHANGED vars
  <2>1. UNCHANGED <<pc, want, got>>
    BY <1>5 DEF vars, threadVars
  <2>2. ~disturbed' => ~disturbed
    BY <1>5, Zenon DEF vars
  <2>3. QED
    BY <1>1, <2>1, <2>2 DEF GotTrue
<1>6. QED
  BY <1>2, <1>3, <1>4, <1>5, StepCases

-----------------------------------------------------------------------------
(* The walk along the chain *)

\* The size behind a record leads back to the one in front of it.
LEMMA StepBack ==
    ASSUME Types, CellsTrue, kind = "ztrs", NEW p \in Traces, NEW c \in Nat, c = Gap(p + 1),
           NEW n \in SizesAt(c)
    PROVE  c + 1 - (BackStep + n) = Gap(p)
<1>1. /\ Gap(p) \in Nat /\ Gap(p + 1) = Gap(p) + 2 + F + Packed[p]
      /\ c <= Len(cells) => cells[c] = SizeCell(Packed[p])
  BY ChainCells
<1>2. F \in Nat /\ Packed[p] \in Nat
  BY Constants
<1>3. n = Packed[p]
  <2>1. c \in 1 .. Len(cells)
    BY SizesRead
  <2>2. SizesAt(c) = {Packed[p]}
    BY <1>1, <2>1, SizesRead
  <2>3. QED
    BY <2>2
<1>4. PICK g \in Nat, f \in Nat, m \in Nat : g = Gap(p) /\ f = F /\ m = Packed[p]
  BY <1>1, <1>2
<1>5. c = g + 2 + f + m /\ BackStep + n = f + 3 + m
  BY <1>1, <1>3, <1>4, Zenon DEF BackStep, F
<1>6. c + 1 - (f + 3 + m) = g
  BY <1>5
<1>7. QED
  BY <1>4, <1>5, <1>6, Zenon

\* The size in front of a record leads to the one in front of the next.
LEMMA StepForward ==
    ASSUME Types, CellsTrue, kind = "ztrs", NEW p \in Traces, NEW c \in Nat, c = Gap(p),
           NEW n \in SizesAt(c + 1)
    PROVE  c + 2 + Len(Fields) + n = Gap(p + 1)
<1>1. n = Packed[p] /\ c + 2 + (F + n) = Gap(p + 1)
  BY ZtrsPiece
<1>2. PICK f \in Nat, m \in Nat : f = F /\ m = n
  BY <1>1, Constants
<1>3. c + 2 + (f + m) = c + 2 + f + m
  BY <1>2
<1>4. QED
  BY <1>1, <1>2, <1>3, Zenon DEF F

LEMMA CursorStep == IndInv /\ [Next]_vars => CursorTrue'
<1> SUFFICES ASSUME IndInv, [Next]_vars PROVE CursorTrue'
  OBVIOUS
<1>0. Types /\ Modes /\ Counted /\ CellsTrue /\ Exclusive /\ CursorTrue
  BY DEF IndInv
<1>w. Writer \in Threads
  BY WriterIs
<1>k. kind' = kind
  BY KindKept
<1>n. N \in Nat /\ 0 \in 0 .. N /\ Gap(0) = 1
  BY Constants, ZtrsPlaceNext DEF Gap
<1>g. Gap(position)' = Gap(position')
  BY DEF Gap
<1> DEFINE AtPlace == position \in 0 .. N /\ cursor = Gap(position)
           Seeks == \E r \in Threads : pc[r] = "seek"
           Gets == \A r \in Threads : pc[r] = "get" => kind = "trs" /\ cursor = TrsOffset(want[r])
           Kind == \A r \in Threads : pc[r] = "seek" => kind = "ztrs"
\* What nobody at the FILE needs.
<1>1. ASSUME \A t \in Threads : pc'[t] \notin {"get", "seek"},
             kind = "ztrs" /\ ~disturbed' /\ lock' = 1 => AtPlace'
      PROVE  CursorTrue'
  <2>1. Gets' /\ Kind' /\ ~Seeks'
    BY <1>1
  <2>2. QED
    BY <1>1, <1>k, <2>1, Zenon DEF CursorTrue
\* Who does not move the cursor.
<1>2. ASSUME UNCHANGED <<walk, want>>, lock' = 1 => lock = 1, ~disturbed' => ~disturbed,
             \A t \in Threads : pc'[t] \in {"get", "seek"} => pc'[t] = pc[t]
      PROVE  CursorTrue'
  <2>1. UNCHANGED <<position, cursor>>
    BY <1>2 DEF walk
  <2>2. Gets' /\ Kind' /\ (Seeks' => Seeks)
    BY <1>0, <1>2, <1>k, <2>1 DEF CursorTrue, TrsOffset
  <2>3. AtPlace => AtPlace'
    BY <2>1, <1>g
  <2>4. kind = "ztrs" /\ ~disturbed /\ (lock = 1 \/ Seeks) => AtPlace
    BY <1>0, Zenon DEF CursorTrue
  <2>5. kind' = "ztrs" /\ ~disturbed' /\ (lock' = 1 \/ Seeks') => AtPlace'
    BY <1>2, <1>k, <2>2, <2>3, <2>4, Zenon
  <2>6. QED
    BY <2>2, <2>5, Zenon DEF CursorTrue
<1>3. CASE Create \/ CreateFails \/ Crash \/ AskClose \/ Close
  <2>1. UNCHANGED <<walk, want, lock, disturbed>>
    BY <1>3 DEF Create, CreateFails, Crash, AskClose, Close, threadVars
  <2>2. \A t \in Threads : pc'[t] \in {"idle", "stopped"}
    BY <1>0, <1>3, ProcessAlone
  <2>3. ~disturbed' => ~disturbed
    BY <2>1, Zenon
  <2>4. QED
    BY <1>2, <2>1, <2>2, <2>3
<1>4. CASE Created \/ Open
  <2>1. cursor' = 1 /\ position' = 0
    BY <1>0, <1>4 DEF Modes, Created, Open, AtStart
  <2>2. \A t \in Threads : pc'[t] \in {"idle", "stopped"}
    BY <1>0, <1>4, ProcessAlone
  <2>3. AtPlace'
    BY <1>g, <1>n, <2>1
  <2>4. QED
    BY <1>1, <2>2, <2>3
<1>5. CASE AskWrite \/ StartWriteFails
  <2>1. /\ UNCHANGED <<walk, lock, disturbed>>
        /\ \A t \in Threads \ {Writer} : pc'[t] = pc[t] /\ want'[t] = want[t]
        /\ pc'[Writer] \in {"want", "stopped"}
    BY <1>0, <1>5, <1>w DEF Types, AskWrite, StartWriteFails, MoveTo
  <2>2. UNCHANGED <<position, cursor>>
    BY <2>1 DEF walk
  <2>3. Gets' /\ Kind' /\ (Seeks' => Seeks)
    BY <1>0, <1>k, <2>1, <2>2 DEF CursorTrue, TrsOffset
  <2>4. AtPlace => AtPlace'
    BY <2>2, <1>g
  <2>5. kind = "ztrs" /\ ~disturbed /\ (lock = 1 \/ Seeks) => AtPlace
    BY <1>0, Zenon DEF CursorTrue
  <2>6. kind' = "ztrs" /\ ~disturbed' /\ (lock' = 1 \/ Seeks') => AtPlace'
    BY <1>k, <2>1, <2>3, <2>4, <2>5, Zenon
  <2>7. QED
    BY <2>3, <2>6, Zenon DEF CursorTrue
\* While the writer is at the FILE no reader is, and afterwards the headers have been written.
<1>6. CASE StartWrite
  <2>1. lock = 1 /\ lock' = 0 /\ pc' = [pc EXCEPT ![Writer] = "writing"]
    BY <1>6 DEF StartWrite, MoveTo
  <2>2. \A t \in Threads : pc[t] \notin {"get", "seek"}
    BY <1>0, <2>1 DEF Exclusive, Holding
  <2>3. \A t \in Threads : pc'[t] \notin {"get", "seek"}
    BY <1>0, <1>w, <2>1, <2>2 DEF Types
  <2>4. QED
    BY <1>1, <2>1, <2>3
<1>7. CASE WriteCell \/ WriteCellFails \/ FinishWrite \/ FinishWriteFails
  <2>1. pc[Writer] = "writing" /\ (pc' = pc \/ \E w \in {"idle", "stopped"} : pc' = [pc EXCEPT ![Writer] = w])
    BY <1>7 DEF WriteCell, WriteCellFails, FinishWrite, FinishWriteFails, MoveTo, threadVars
  <2>2. lock = 0 /\ \A t \in Threads : pc[t] \notin {"get", "seek"}
    BY <1>0, <1>w, <2>1 DEF Exclusive, Holding
  <2>3. \A t \in Threads : pc'[t] \notin {"get", "seek"}
    BY <1>0, <1>w, <2>1, <2>2 DEF Types
  <2>4. CASE WriteCell
    <3>1. lock' = 0
      BY <2>2, <2>4 DEF WriteCell
    <3>2. QED
      BY <1>1, <2>3, <3>1
  <2>5. CASE WriteCellFails \/ FinishWriteFails
    <3>1. disturbed'
      BY <2>5, Zenon DEF WriteCellFails, FinishWriteFails
    <3>2. QED
      BY <1>1, <2>3, <3>1, Zenon
  <2>6. CASE FinishWrite
    <3>1. cursor' = 1 /\ (kind = "ztrs" => position' = 0)
      BY <2>6 DEF FinishWrite, ResetPosition
    <3>2. kind = "ztrs" => AtPlace'
      BY <1>g, <1>n, <3>1
    <3>3. QED
      BY <1>1, <2>3, <3>2
  <2>7. QED
    BY <1>7, <2>4, <2>5, <2>6
<1>8. ASSUME NEW r \in Readers, Reader(r) PROVE CursorTrue'
  <2>r. r \in Threads
    BY ReadersAre
  <2>0. \A t \in Threads \ {r} : pc'[t] = pc[t] /\ want'[t] = want[t] /\ got'[t] = got[t]
    BY <1>0, <1>8, ReaderStep
  <2>c. kind = "ztrs" /\ ~disturbed /\ (lock = 1 \/ Seeks) => AtPlace
    BY <1>0, Zenon DEF CursorTrue
  <2>1. CASE AskRead(r) \/ Return(r)
    <3>1. UNCHANGED <<walk, lock, disturbed>> /\ pc'[r] \in {"want", "idle"}
      BY <1>0, <2>1, <2>r DEF Types, AskRead, Return, MoveTo
    <3>2. UNCHANGED <<position, cursor>>
      BY <3>1 DEF walk
    <3>3. Gets' /\ Kind' /\ (Seeks' => Seeks)
      BY <1>0, <1>k, <2>0, <3>1, <3>2 DEF CursorTrue, TrsOffset
    <3>4. AtPlace => AtPlace'
      BY <3>2, <1>g
    <3>5. kind' = "ztrs" /\ ~disturbed' /\ (lock' = 1 \/ Seeks') => AtPlace'
      BY <1>k, <2>c, <3>1, <3>3, <3>4, Zenon
    <3>6. QED
      BY <3>3, <3>5, Zenon DEF CursorTrue
  <2>2. CASE StartRead(r)
    <3>1. /\ lock = 1 /\ UNCHANGED <<position, want, disturbed>>
          /\ pc'[r] = IF kind = "trs" THEN "get" ELSE "seek"
          /\ cursor' = IF kind = "trs" THEN TrsOffset(want[r]) ELSE cursor
      BY <1>0, <2>2, <2>r DEF Types, StartRead, MoveTo
    <3>2. \A t \in Threads : pc[t] \notin {"get", "seek"}
      BY <1>0, <3>1 DEF Exclusive, Holding
    <3>3. \A t \in Threads \ {r} : pc'[t] \notin {"get", "seek"}
      BY <2>0, <3>2
    <3>4. kind \in {"trs", "ztrs"}
      BY <1>0 DEF Types, Backends
    <3>5. Gets' /\ Kind'
      BY <1>k, <3>1, <3>3, <3>4 DEF TrsOffset
    <3>6. kind = "ztrs" /\ AtPlace => AtPlace'
      BY <1>g, <3>1
    <3>7. kind' = "ztrs" /\ ~disturbed' /\ (lock' = 1 \/ Seeks') => AtPlace'
      BY <1>k, <2>c, <3>1, <3>6, Zenon
    <3>8. QED
      BY <3>5, <3>7, Zenon DEF CursorTrue
  <2>3. CASE AtFile(r)
    <3>1. pc[r] \in {"get", "seek"}
      BY <2>3 DEF AtFile, SeekBack, SeekForward, ReadTrs, ReadZtrs, ReadFails, ReadUnallocated
    <3>2. \A t \in Threads \ {r} : pc'[t] \notin {"get", "seek"}
      BY <1>0, <2>0, <2>r, <3>1 DEF Exclusive, Holding
    <3>3. CASE ReadFails(r) \/ ReadUnallocated(r)
      <4>1. disturbed' /\ pc'[r] \in {"failed", "done"}
        BY <1>0, <2>r, <3>3, Zenon DEF Types, ReadFails, ReadUnallocated, MoveTo
      <4>2. \A t \in Threads : pc'[t] \notin {"get", "seek"}
        BY <3>2, <4>1
      <4>3. QED
        BY <1>1, <4>1, <4>2, Zenon
    <3>4. CASE ReadTrs(r)
      <4>1. pc[r] = "get" /\ pc'[r] = "done"
        BY <1>0, <2>r, <3>4 DEF Types, ReadTrs, MoveTo
      <4>2. kind = "trs"
        BY <1>0, <2>r, <4>1 DEF CursorTrue
      <4>3. \A t \in Threads : pc'[t] \notin {"get", "seek"}
        BY <3>2, <4>1
      <4>4. QED
        BY <1>1, <4>2, <4>3
    <3>5. CASE ReadZtrs(r)
      <4>1. /\ pc[r] = "seek" /\ want[r] = position /\ position' = position + 1
            /\ pc'[r] \in {"done", "failed"}
        BY <1>0, <2>r, <3>5 DEF Types, ReadZtrs, MoveTo, Following
      <4>2. PICK this \in SizesAt(cursor + 1) : Read(r, cursor + 2, Len(Fields) + this)
        BY <3>5 DEF ReadZtrs
      <4>3. kind = "ztrs" /\ Seeks /\ position \in Traces
        BY <1>0, <2>r, <4>1 DEF CursorTrue, Types, Traces
      <4>4. UNCHANGED disturbed
        BY <3>5 DEF ReadZtrs
      <4>5. ASSUME AtPlace PROVE AtPlace'
        <5>1. cursor' = Gap(position + 1)
          BY <1>0, <2>r, <4>2, <4>3, <4>5, ZtrsReadTrue
        <5>2. position + 1 \in 0 .. N
          BY <1>n, <4>3 DEF Traces
        <5>3. QED
          BY <1>g, <4>1, <5>1, <5>2
      <4>6. \A t \in Threads : pc'[t] \notin {"get", "seek"}
        BY <3>2, <4>1
      <4>7. kind = "ztrs" /\ ~disturbed' /\ lock' = 1 => AtPlace'
        BY <2>c, <4>3, <4>4, <4>5, Zenon
      <4>8. QED
        BY <1>1, <4>6, <4>7
    <3>6. CASE SeekBack(r) \/ SeekForward(r)
      <4>1. pc[r] = "seek" /\ pc' = pc /\ UNCHANGED disturbed
        BY <3>6 DEF SeekBack, SeekForward, threadVars
      <4>2. kind = "ztrs" /\ Seeks
        BY <1>0, <2>r, <4>1 DEF CursorTrue
      <4>3. Gets' /\ Kind'
        BY <1>k, <3>2, <4>1, <4>2
      <4>4. position \in Nat /\ cursor \in Nat /\ want[r] \in 0 .. N - 1
        BY <1>0, <2>r DEF Types
      <4>5. ASSUME AtPlace PROVE AtPlace'
        <5>1. PICK c \in Nat, p \in Nat : c = cursor /\ p = position
          BY <4>4
        <5>2. p \in 0 .. N /\ c = Gap(p)
          BY <4>5, <5>1, Zenon
        <5>3. CASE SeekBack(r)
          <6>1. PICK last \in SizesAt(c) : cursor' = c + 1 - (BackStep + last)
            BY <5>1, <5>3, Zenon DEF SeekBack
          <6>2. want[r] < p /\ position' = p - 1
            BY <5>1, <5>3 DEF SeekBack
          <6>3. p - 1 \in Traces /\ (p - 1) + 1 = p /\ p - 1 \in 0 .. N
            BY <1>n, <4>4, <5>2, <6>2 DEF Traces
          <6>4. cursor' = Gap(p - 1)
            BY <1>0, <4>2, <5>2, <6>1, <6>3, StepBack
          <6>5. QED
            BY <1>g, <6>2, <6>3, <6>4
        <5>4. CASE SeekForward(r)
          <6>1. PICK this \in SizesAt(c + 1) : cursor' = c + 2 + Len(Fields) + this
            BY <5>1, <5>4, Zenon DEF SeekForward
          <6>2. want[r] > p /\ position' = p + 1
            BY <5>1, <5>4 DEF SeekForward
          <6>3. p \in Traces /\ p + 1 \in 0 .. N
            BY <1>n, <4>4, <5>2, <6>2 DEF Traces
          <6>4. cursor' = Gap(p + 1)
            BY <1>0, <4>2, <5>2, <6>1, <6>3, StepForward
          <6>5. QED
            BY <1>g, <6>2, <6>3, <6>4
        <5>5. QED
          BY <3>6, <5>3, <5>4
      <4>6. kind' = "ztrs" /\ ~disturbed' /\ (lock' = 1 \/ Seeks') => AtPlace'
        BY <2>c, <4>1, <4>2, <4>5, Zenon
      <4>7. QED
        BY <4>3, <4>6, Zenon DEF CursorTrue
    <3>7. QED
      BY <2>3, <3>3, <3>4, <3>5, <3>6 DEF AtFile
  <2>4. QED
    BY <1>8, <2>1, <2>2, <2>3 DEF Reader
<1>9. CASE UNCHANGED vars
  <2>1. UNCHANGED <<walk, want, lock, disturbed, pc>>
    BY <1>9 DEF vars, threadVars
  <2>2. ~disturbed' => ~disturbed
    BY <2>1, Zenon
  <2>3. QED
    BY <1>2, <2>1, <2>2
<1>10. QED
  BY <1>3, <1>4, <1>5, <1>6, <1>7, <1>8, <1>9, StepCases

-----------------------------------------------------------------------------
(* Who fails, what survives the process, and how far the traces asked for go. *)

\* The samples of a record that was read whole are inflated.
LEMMA BodyInflates == ASSUME NEW i \in Traces PROVE Inflates(ZtrsBody(i))
<1> DEFINE a == FieldCells(i)
           b == SampleCells(i, Packed[i])
           s == SubSeq(a \o b, F + 1, F + Packed[i])
<1>1. F \in Nat /\ i \in Nat /\ Packed[i] \in Nat \ {0}
  BY Constants
<1>2. a \in Seq(Cell) /\ Len(a) = F /\ b \in Seq(Cell) /\ Len(b) = Packed[i]
  BY <1>1, FieldCellsType, SampleCellsType
<1>3. PICK m \in Nat : m = Packed[i]
  BY <1>1
<1> HIDE DEF a, b
<1>4. /\ a \o b \in Seq(Cell) /\ Len(a \o b) = F + m
      /\ \A n \in 1 .. m : (a \o b)[F + n] = b[n]
  <2>1. /\ a \o b \in Seq(Cell) /\ Len(a \o b) = Len(a) + Len(b)
        /\ \A n \in 1 .. Len(b) : (a \o b)[Len(a) + n] = b[n]
    BY <1>2, ConcatAt
  <2>2. Len(a) = F /\ Len(b) = m
    BY <1>2, <1>3
  <2>3. QED
    BY <2>1, <2>2, Zenon
<1>5. \A c \in F + 1 .. F + m : (a \o b)[c] \in Cell
  <2>1. \A c \in F + 1 .. F + m : c \in 1 .. F + m
    BY <1>1, <1>3
  <2>2. QED
    BY <1>4, <2>1, ElementOfSeq
<1>6. s \in Seq(Cell) /\ Len(s) = m /\ \A n \in 1 .. m : s[n] = b[n]
  <2>1. F + 1 \in Int /\ F + m \in Int
    BY <1>1
  <2>2. /\ SubSeq(a \o b, F + 1, F + m) \in Seq(Cell)
        /\ Len(SubSeq(a \o b, F + 1, F + m)) = IF F + 1 <= F + m THEN (F + m) - (F + 1) + 1 ELSE 0
        /\ \A n \in 1 .. (F + m) - (F + 1) + 1 : SubSeq(a \o b, F + 1, F + m)[n] = (a \o b)[(F + 1) + n - 1]
    <3>1. PICK d : d = a \o b
      OBVIOUS
    <3>2. \A c \in F + 1 .. F + m : d[c] \in Cell
      BY <1>5, <3>1
    <3>3. /\ SubSeq(d, F + 1, F + m) \in Seq(Cell)
          /\ Len(SubSeq(d, F + 1, F + m)) = IF F + 1 <= F + m THEN (F + m) - (F + 1) + 1 ELSE 0
          /\ \A n \in 1 .. (F + m) - (F + 1) + 1 : SubSeq(d, F + 1, F + m)[n] = d[(F + 1) + n - 1]
      BY <2>1, <3>2, SubSeqProperties
    <3>4. QED
      BY <3>1, <3>3, Zenon
  <2>3. (F + m) - (F + 1) + 1 = m /\ (IF F + 1 <= F + m THEN (F + m) - (F + 1) + 1 ELSE 0) = m
        /\ \A n \in 1 .. m : (F + 1) + n - 1 = F + n
    BY <1>1
  <2>4. s = SubSeq(a \o b, F + 1, F + m)
    BY <1>3
  <2>5. QED
    BY <1>4, <2>2, <2>3, <2>4, Zenon
<1> HIDE DEF s
<1>7. s = b
  BY <1>2, <1>3, <1>6, SeqEqual
<1>8. ZtrsBody(i) = a \o b /\ Len(ZtrsBody(i)) = F + Packed[i]
  BY BodyType DEF a, b, ZtrsBody
<1>9. SubSeq(ZtrsBody(i), Len(Fields) + 1, Len(ZtrsBody(i))) = SampleCells(i, Packed[i])
  BY <1>7, <1>8, Zenon DEF s, b, F
<1>10. i \in DOMAIN Packed
  BY PackedAssumption DEF Traces
<1>11. QED
  BY <1>9, <1>10 DEF Inflates

\* A reader that succeeds leaves what disturbs as it is; one that fails disturbs.
LEMMA FailedStep == IndInv /\ [Next]_vars => FailedDisturbed'
<1> SUFFICES ASSUME IndInv, [Next]_vars PROVE FailedDisturbed'
  OBVIOUS
<1>0. Types /\ Modes /\ CellsTrue /\ Exclusive /\ CursorTrue /\ FailedDisturbed
  BY DEF IndInv
<1>w. Writer \in Threads
  BY WriterIs
<1>1. CASE Create \/ Created \/ CreateFails \/ Crash \/ Open \/ AskClose \/ Close
  BY <1>0, <1>1, ProcessAlone, ReadersAre DEF FailedDisturbed
<1>2. CASE AskWrite \/ StartWrite \/ WriteCell \/ FinishWrite \/ StartWriteFails \/ WriteCellFails \/ FinishWriteFails
  <2>1. \A t \in Threads \ {Writer} : pc'[t] = pc[t]
    BY <1>0, <1>2, <1>w DEF Types, AskWrite, StartWrite, WriteCell, FinishWrite, StartWriteFails, WriteCellFails,
       FinishWriteFails, MoveTo, threadVars
  <2>2. disturbed => disturbed'
    BY <1>2, Zenon DEF AskWrite, StartWrite, WriteCell, FinishWrite, StartWriteFails, WriteCellFails, FinishWriteFails
  <2>3. QED
    BY <1>0, <2>1, <2>2, ReadersAre DEF FailedDisturbed
<1>3. ASSUME NEW r \in Readers, Reader(r) PROVE FailedDisturbed'
  <2>r. r \in Threads
    BY ReadersAre
  <2>1. \A t \in Threads \ {r} : pc'[t] = pc[t]
    BY <1>0, <1>3, ReaderStep
  <2>2. disturbed => disturbed'
    BY <1>3, Zenon DEF Reader, AtFile, AskRead, StartRead, SeekBack, SeekForward, ReadTrs, ReadZtrs, ReadFails,
       ReadUnallocated, Return
  <2>3. pc'[r] = "failed" => disturbed'
    <3>1. CASE ReadFails(r) \/ ReadUnallocated(r)
      BY <3>1, Zenon DEF ReadFails, ReadUnallocated
    <3>2. CASE ReadZtrs(r)
      <4> SUFFICES ASSUME ~disturbed PROVE pc'[r] # "failed"
        BY <2>2
      <4>1. pc[r] = "seek" /\ want[r] = position /\ MoveTo(r, IF Inflates(got'[r]) THEN "done" ELSE "failed")
        BY <3>2 DEF ReadZtrs
      <4>2. PICK this \in SizesAt(cursor + 1) : Read(r, cursor + 2, Len(Fields) + this)
        BY <3>2 DEF ReadZtrs
      <4>3. kind = "ztrs" /\ cursor = Gap(want[r])
        BY <1>0, <2>r, <4>1 DEF CursorTrue
      <4>4. want[r] \in Traces
        BY <1>0, <2>r DEF Types, Traces
      <4>5. got'[r] = ZtrsBody(want[r])
        BY <1>0, <2>r, <4>2, <4>3, <4>4, ZtrsReadTrue
      <4>6. MoveTo(r, "done")
        BY <4>1, <4>4, <4>5, BodyInflates
      <4>7. QED
        BY <1>0, <2>r, <4>6 DEF Types, MoveTo
    <3>3. CASE AskRead(r) \/ StartRead(r) \/ SeekBack(r) \/ SeekForward(r) \/ ReadTrs(r) \/ Return(r)
      <4>1. pc'[r] # "failed"
        BY <1>0, <3>3, <2>r DEF Types, AskRead, StartRead, SeekBack, SeekForward, ReadTrs, Return, MoveTo, threadVars
      <4>2. QED
        BY <4>1
    <3>4. QED
      BY <1>3, <3>1, <3>2, <3>3 DEF Reader, AtFile
  <2>4. QED
    BY <1>0, <2>1, <2>2, <2>3, ReadersAre DEF FailedDisturbed
<1>4. CASE UNCHANGED vars
  <2>1. pc' = pc /\ (disturbed => disturbed')
    BY <1>4, Zenon DEF vars, threadVars
  <2>2. QED
    BY <1>0, <2>1 DEF FailedDisturbed
<1>5. QED
  BY <1>1, <1>2, <1>3, <1>4, StepCases

LEMMA DurableStep == IndInv /\ [Next]_vars => Durable'
<1> SUFFICES ASSUME IndInv, [Next]_vars PROVE Durable'
  OBVIOUS
<1>0. Types /\ Modes /\ Counted /\ Exclusive /\ Durable
  BY DEF IndInv
<1>w. Writer \in Threads
  BY WriterIs
<1>n. numWritten \in Nat /\ committed \in Nat /\ N \in Nat
  BY <1>0, Constants DEF Types
<1>1. CASE Create \/ Created \/ CreateFails
  <2>1. /\ UNCHANGED <<numWritten, committed>> /\ numWritten = 0
        /\ mode' \in {"creating", "write", "down"}
    BY <1>0, <1>1 DEF Modes, Create, Created, CreateFails, counts
  <2>2. committed = 0
    BY <1>0, <1>n, <2>1 DEF Counted
  <2>3. QED
    BY <2>1, <2>2 DEF Durable
<1>2. CASE Crash \/ Open
  <2>1. /\ UNCHANGED <<header, numWritten, committed>>
        /\ mode' \in {"down", "failed", "read"}
        /\ mode' = "read" => numTraces' = header
    BY <1>2 DEF Crash, Open, ReadHeaders, fileVars, counts
  <2>2. QED
    BY <1>0, <2>1 DEF Durable
<1>3. CASE AskClose
  <2>1. /\ UNCHANGED <<header, numWritten, committed>> /\ mode' = "closing" /\ numTraces' = committed
    BY <1>3 DEF AskClose, fileVars
  <2>2. QED
    BY <1>0, <2>1 DEF Durable
<1>4. CASE Close
  <2>1. /\ UNCHANGED <<numWritten, committed>> /\ mode = "closing" /\ mode' = "down"
        /\ header' \in {header, numTraces}
    BY <1>4 DEF Close, counts
  <2>2. numTraces = committed /\ committed <= numWritten
    BY <1>0, <2>1 DEF Durable, Counted
  <2>3. QED
    BY <1>0, <1>n, <2>1, <2>2 DEF Durable
<1>5. CASE AskWrite \/ StartWrite \/ WriteCell \/ StartWriteFails \/ WriteCellFails
  <2>1. /\ UNCHANGED <<mode, header, numTraces, numWritten, committed>>
        /\ pc[Writer] # "stopped"
    BY <1>5 DEF AskWrite, StartWrite, WriteCell, StartWriteFails, WriteCellFails, fileVars, counts
  <2>2. QED
    BY <1>0, <2>1 DEF Durable
<1>6. CASE FinishWrite \/ FinishWriteFails
  <2>1. /\ numWritten' = numWritten + 1 /\ pc[Writer] = "writing" /\ UNCHANGED <<mode, numTraces>>
        /\ \/ committed' = committed + 1 /\ header' = FinalCount
           \/ committed' = committed /\ header' \in {header, FinalCount} /\ MoveTo(Writer, "stopped")
    BY <1>6 DEF FinishWrite, FinishWriteFails
  <2>2. mode = "write" /\ numTraces = Unknown /\ FinalCount = numWritten + 1
    BY <1>0, <2>1 DEF Modes, FinalCount
  <2>3. committed = numWritten
    BY <1>0, <2>1, <2>2 DEF Durable
  <2>4. MoveTo(Writer, "stopped") => pc'[Writer] = "stopped"
    BY <1>0, <1>w DEF Types, MoveTo
  <2>5. committed' > 0 => header' \in committed' .. numWritten'
    BY <1>0, <1>n, <2>1, <2>2, <2>3 DEF Durable
  <2>6. QED
    BY <2>1, <2>2, <2>3, <2>4, <2>5 DEF Durable
<1>7. ASSUME NEW r \in Readers, Reader(r) PROVE Durable'
  BY <1>0, <1>7, ReaderStep DEF Durable, fileVars, counts
<1>8. CASE UNCHANGED vars
  BY <1>0, <1>8 DEF Durable, vars, fileVars, counts, threadVars
<1>9. QED
  BY <1>1, <1>2, <1>3, <1>4, <1>5, <1>6, <1>7, <1>8, StepCases

\* A reader asks for what was written, and the walk stops at what it asks for.
LEMMA ReachStep == IndInv /\ [Next]_vars => Reach'
<1> SUFFICES ASSUME IndInv, [Next]_vars PROVE Reach'
  OBVIOUS
<1>0. Types /\ Modes /\ Counted /\ Exclusive /\ Durable /\ Reach
  BY DEF IndInv
<1>w. Writer \in Threads
  BY WriterIs
<1>n. numWritten \in Nat /\ position \in Nat /\ committed \in Nat
  BY <1>0, Constants DEF Types
<1>1. CASE Create \/ Created \/ CreateFails \/ Crash \/ Open \/ AskClose \/ Close
  <2>1. \A t \in Readers : pc'[t] \in {"idle", "stopped"}
    BY <1>0, <1>1, ProcessAlone, ReadersAre
  <2>2. CASE Open
    BY <1>n, <2>1, <2>2 DEF Open, AtStart, Reach
  <2>3. CASE ~Open
    <3>1. mode # "read" /\ UNCHANGED <<position, numWritten>>
      BY <1>1, <2>3 DEF Create, Created, CreateFails, Crash, AskClose, Close, walk, counts
    <3>2. QED
      BY <1>0, <2>1, <3>1 DEF Reach
  <2>4. QED
    BY <2>2, <2>3
<1>2. CASE AskWrite \/ StartWrite \/ WriteCell \/ FinishWrite \/ StartWriteFails \/ WriteCellFails \/ FinishWriteFails
  <2>1. /\ mode = "write" /\ mode' = mode
        /\ position' \in {position, 0} /\ numWritten' \in {numWritten, numWritten + 1}
    <3>1. UNCHANGED mode
      BY <1>2 DEF AskWrite, StartWrite, WriteCell, FinishWrite, StartWriteFails, WriteCellFails, FinishWriteFails
    <3>2. position' \in {position, 0}
      BY <1>2 DEF AskWrite, StartWrite, WriteCell, FinishWrite, StartWriteFails, WriteCellFails, FinishWriteFails,
         ResetPosition, walk
    <3>3. numWritten' \in {numWritten, numWritten + 1}
      BY <1>2 DEF AskWrite, StartWrite, WriteCell, FinishWrite, StartWriteFails, WriteCellFails, FinishWriteFails, counts
    <3>4. mode = "write"
      BY <1>0, <1>2 DEF Modes, AskWrite, StartWrite, WriteCell, FinishWrite, StartWriteFails, WriteCellFails,
         FinishWriteFails
    <3>5. QED
      BY <3>1, <3>2, <3>3, <3>4
  <2>2. \A t \in Readers : pc'[t] = pc[t] /\ want'[t] = want[t]
    <3>1. \A t \in Threads \ {Writer} : pc'[t] = pc[t] /\ want'[t] = want[t]
      BY <1>0, <1>2, <1>w DEF Types, AskWrite, StartWrite, WriteCell, FinishWrite, StartWriteFails, WriteCellFails,
         FinishWriteFails, MoveTo, threadVars
    <3>2. QED
      BY <3>1, ReadersAre
  <2>3. \A t \in Readers : want[t] \in Nat
    BY <1>0, ReadersAre, Constants DEF Types
  <2>4. position' <= numWritten' /\ \A m \in Nat : m < numWritten => m < numWritten'
    BY <1>0, <1>n, <2>1 DEF Reach
  <2>5. QED
    BY <1>0, <2>1, <2>2, <2>3, <2>4 DEF Reach
<1>3. ASSUME NEW r \in Readers, Reader(r) PROVE Reach'
  <2> SUFFICES ASSUME mode' # "read" \/ header' # Unknown
               PROVE  /\ position' <= numWritten'
                      /\ \A t \in Readers : pc'[t] \notin {"idle", "stopped"} => want'[t] < numWritten'
    BY DEF Reach
  <2>r. r \in Threads /\ want[r] \in Nat
    BY <1>0, ReadersAre, Constants DEF Types
  <2>1. /\ UNCHANGED <<mode, header, numTraces, numWritten, committed>>
        /\ \A t \in Threads \ {r} : pc'[t] = pc[t] /\ want'[t] = want[t]
        /\ mode \in {"write", "read"}
    BY <1>0, <1>3, ReaderStep DEF fileVars, counts
  <2>2. /\ position <= numWritten
        /\ \A t \in Readers : pc[t] \notin {"idle", "stopped"} => want[t] < numWritten
    BY <1>0, <2>1 DEF Reach
  <2>3. CASE AskRead(r)
    <3>1. PICK i \in 0 .. N - 1 : i < Readable /\ want' = [want EXCEPT ![r] = i]
      BY <2>3 DEF AskRead
    <3>2. Readable <= numWritten
      <4>1. CASE mode = "write"
        BY <1>0, <1>n, <4>1 DEF Readable, Counted
      <4>2. CASE mode = "read"
        <5>1. Readable = header /\ header # Unknown
          BY <1>0, <2>1, <4>2 DEF Readable, Durable
        <5>2. QED
          BY <1>0, <1>n, <5>1 DEF Counted, Announced, Absent
      <4>3. QED
        BY <2>1, <4>1, <4>2
    <3>3. Readable \in Int
      BY <1>0, <1>n DEF Readable, Counted, Announced, Absent, Unknown
    <3>4. want'[r] < numWritten
      BY <1>0, <1>n, <2>r, <3>1, <3>2, <3>3 DEF Types
    <3>5. position' = position
      BY <2>3 DEF AskRead, walk
    <3>6. QED
      BY <2>1, <2>2, <3>4, <3>5, ReadersAre
  <2>4. CASE ~AskRead(r)
    <3>1. want' = want /\ pc[r] \notin {"idle", "stopped"}
      BY <1>3, <2>4 DEF Reader, AtFile, StartRead, SeekBack, SeekForward, ReadTrs, ReadZtrs, ReadFails,
         ReadUnallocated, Return, threadVars
    <3>2. want[r] < numWritten
      BY <2>2, <3>1
    <3>3. position' <= numWritten
      <4>1. CASE SeekBack(r)
        <5>1. position' = position - 1
          BY <4>1 DEF SeekBack
        <5>2. QED
          BY <1>n, <2>2, <5>1
      <4>2. CASE SeekForward(r) \/ ReadZtrs(r)
        <5>1. position' = position + 1 /\ want[r] >= position
          BY <1>n, <2>r, <4>2 DEF SeekForward, ReadZtrs, Following
        <5>2. QED
          BY <1>n, <2>r, <3>2, <5>1
      <4>3. CASE StartRead(r) \/ ReadTrs(r) \/ ReadFails(r) \/ ReadUnallocated(r) \/ Return(r)
        BY <2>2, <4>3 DEF StartRead, ReadTrs, ReadFails, ReadUnallocated, Return, walk
      <4>4. QED
        BY <1>3, <2>4, <4>1, <4>2, <4>3 DEF Reader, AtFile
    <3>4. \A t \in Readers : pc'[t] \notin {"idle", "stopped"} => want[t] < numWritten
      BY <2>1, <2>2, <3>2, ReadersAre
    <3>5. QED
      BY <2>1, <3>1, <3>3, <3>4
  <2>5. QED
    BY <2>3, <2>4
<1>4. CASE UNCHANGED vars
  BY <1>0, <1>4 DEF Reach, vars, fileVars, counts, walk, threadVars
<1>5. QED
  BY <1>1, <1>2, <1>3, <1>4, StepCases

-----------------------------------------------------------------------------
(* Nobody runs out of a file in which its trace is announced. *)

\* The gaps in front of what was written, and the one behind it, are in the file.
LEMMA GapsThere ==
    ASSUME IndInv, kind = "ztrs", numWritten > 0, NEW p \in 0 .. numWritten
    PROVE  Gap(p) \in 1 .. Len(cells)
<1>0. Types /\ Grown
  BY DEF IndInv
<1>n. numWritten \in 0 .. N /\ N \in Nat /\ Len(cells) \in Nat
  BY <1>0, Constants, LenProperties DEF Types
<1>1. ZtrsPlace[numWritten] <= Len(cells) /\ \A q \in 0 .. N : ZtrsPlace[q] \in Nat
  BY <1>0, ZtrsPlaceOrder DEF Grown, Place
<1>2. \A q \in Traces, j \in 0 .. N : q < j => ZtrsPlace[q] + Len(ZtrsRecord(q)) <= ZtrsPlace[j]
  BY ZtrsPlaceOrder
<1>3. 0 \in Traces /\ ZtrsPlace[0] = 0
  BY <1>n, ZtrsPlaceNext DEF Traces
<1>4. Len(ZtrsRecord(0)) \in Nat \ {0}
  BY <1>3, ZtrsRecordParts, Constants DEF Head0
<1>5. \A j \in 1 .. N : ZtrsPlace[j] >= 1
  <2> SUFFICES ASSUME NEW j \in 1 .. N PROVE ZtrsPlace[j] >= 1
    OBVIOUS
  <2>1. j \in 0 .. N /\ 0 < j
    OBVIOUS
  <2>2. ZtrsPlace[0] + Len(ZtrsRecord(0)) <= ZtrsPlace[j] /\ ZtrsPlace[j] \in Nat
    BY <1>1, <1>2, <1>3, <2>1
  <2>3. QED
    BY <1>3, <1>4, <2>2
<1>6. CASE p = 0
  <2>1. Gap(p) = 1
    BY <1>3, <1>6 DEF Gap
  <2>2. ZtrsPlace[numWritten] >= 1 /\ ZtrsPlace[numWritten] \in Nat
    BY <1>1, <1>5, <1>n
  <2>3. QED
    BY <1>1, <1>n, <2>1, <2>2
<1>7. CASE p # 0
  <2>1. p \in 1 .. N /\ p \in 0 .. N
    BY <1>7, <1>n
  <2>2. Gap(p) = ZtrsPlace[p] /\ ZtrsPlace[p] >= 1 /\ ZtrsPlace[p] \in Nat
    BY <1>1, <1>5, <1>7, <2>1 DEF Gap
  <2>3. ZtrsPlace[p] <= ZtrsPlace[numWritten]
    <3>1. CASE p = numWritten
      BY <2>2, <3>1
    <3>2. CASE p # numWritten
      <4>1. p \in Traces /\ p < numWritten
        BY <1>n, <3>2 DEF Traces
      <4>2. ZtrsPlace[p] + Len(ZtrsRecord(p)) <= ZtrsPlace[numWritten] /\ Len(ZtrsRecord(p)) \in Nat
        BY <1>2, <1>n, <4>1, ZtrsRecordParts, LenProperties
      <4>3. QED
        BY <1>1, <1>n, <2>2, <4>2
    <3>3. QED
      BY <3>1, <3>2
  <2>4. ZtrsPlace[numWritten] \in Nat
    BY <1>1, <1>n
  <2>5. QED
    BY <1>1, <1>n, <2>2, <2>3, <2>4
<1>8. QED
  BY <1>6, <1>7

\* The record of a trace that is written is in the file.
LEMMA RecordThere ==
    ASSUME IndInv, NEW i \in Traces, i < numWritten
    PROVE  Place(i) + Len(Record(i)) <= Len(cells)
<1>0. Types /\ Grown
  BY DEF IndInv
<1>1. numWritten \in 0 .. N /\ i \in 0 .. N
  BY <1>0, Constants DEF Types, Traces
<1>2. /\ Place(i) + Len(Record(i)) <= Place(numWritten)
      /\ Place(i) \in Nat /\ Len(Record(i)) \in Nat /\ Place(numWritten) \in Nat
  BY <1>0, <1>1, Places DEF Types
<1>3. Place(numWritten) <= Len(cells) /\ Len(cells) \in Nat
  BY <1>0, LenProperties DEF Grown, Types
<1>4. QED
  BY <1>2, <1>3

\* A read of a trs ends where the record does.
LEMMA TrsWithin ==
    ASSUME IndInv, NEW r \in Readers, pc[r] = "get", want[r] < numWritten
    PROVE  cursor + Len(Fields) <= Len(cells)
<1>0. Types /\ CursorTrue /\ r \in Threads
  BY ReadersAre DEF IndInv
<1>1. kind = "trs" /\ cursor = TrsOffset(want[r]) /\ want[r] \in Traces
  BY <1>0 DEF CursorTrue, Types, Traces
<1>2. Len(Record(want[r])) = F + 1
  BY <1>1, BodyType DEF Record
<1>3. Place(want[r]) + Len(Record(want[r])) <= Len(cells)
  BY <1>1, RecordThere
<1>4. PICK w \in Nat, f \in Nat, c \in Nat : w = want[r] /\ f = F /\ c = cursor
  BY <1>0, <1>1, Constants DEF Types
<1>5. c = 1 + w * (f + 1) /\ 1 + w * (f + 1) - 1 + (f + 1) <= Len(cells)
  <2>1. TrsOffset(want[r]) = 1 + w * (f + 1)
    BY <1>4, Zenon DEF TrsOffset, F
  <2>2. Place(want[r]) = TrsOffset(want[r]) - 1
    BY <1>1 DEF Place
  <2>3. Place(want[r]) = 1 + w * (f + 1) - 1 /\ Len(Record(want[r])) = f + 1
    <3>1. Len(Record(want[r])) = f + 1
      BY <1>2, <1>4, Zenon
    <3>2. Place(want[r]) = 1 + w * (f + 1) - 1
      BY <1>1, <2>1, SMT DEF Place
    <3>3. QED
      BY <3>1, <3>2
  <2>p. want[r] \in 0 .. N
    BY <1>1, Constants DEF Traces
  <2>q. Place(want[r]) \in Nat /\ Len(Record(want[r])) \in Nat
    BY <1>0, <2>p, Places DEF Types
  <2>4. PICK q \in Nat, k \in Nat : q = Place(want[r]) /\ k = Len(Record(want[r]))
    BY <2>q, Zenon
  <2>5. q = 1 + w * (f + 1) - 1 /\ k = f + 1
    BY <2>3, <2>4, Zenon
  <2>6. q + k <= Len(cells)
    BY <1>3, <2>4, Zenon
  <2>7. 1 + w * (f + 1) - 1 + (f + 1) <= Len(cells)
    BY <2>5, <2>6, Zenon
  <2>8. c = 1 + w * (f + 1)
    BY <1>1, <1>4, <2>1, Zenon
  <2>9. QED
    BY <2>7, <2>8
<1>6. w * (f + 1) \in Nat /\ Len(cells) \in Nat
  BY <1>0, <1>4, LenProperties DEF Types
<1>7. c + f <= Len(cells)
  BY <1>4, <1>5, <1>6
<1>8. QED
  BY <1>4, <1>7, Zenon DEF F

\* So does each step of the walk along a ztrs, as long as position is right.
LEMMA WalkWithin ==
    ASSUME IndInv, NEW r \in Readers, pc[r] = "seek", ~disturbed, want[r] < numWritten, Announces(want[r])
    PROVE  /\ SizesAt(cursor) # {}
           /\ want[r] < position => \E n \in SizesAt(cursor) : cursor + 1 - (BackStep + n) > 0
           /\ want[r] >= position => SizesAt(cursor + 1) # {}
           /\ want[r] = position =>
                 \A n \in SizesAt(cursor + 1) : cursor + 1 + Len(Fields) + n <= Len(cells)
<1>0. Types /\ CursorTrue /\ CellsTrue /\ Reach /\ r \in Threads
  BY ReadersAre DEF IndInv
<1>1. kind = "ztrs" /\ position \in 0 .. N /\ cursor = Gap(position) /\ want[r] \in Traces
  BY <1>0 DEF CursorTrue, Types, Traces
<1>2. position <= numWritten
  <2>1. header \in 0 .. N
    BY DEF Announces
  <2>2. header # Unknown
    BY <2>1, UnknownAssumption, Constants DEF Unknown
  <2>3. QED
    BY <1>0, <2>2, Zenon DEF Reach
<1>3. /\ numWritten \in Nat /\ numWritten \in 0 .. N /\ numWritten > 0
      /\ position \in 0 .. numWritten /\ want[r] \in Nat /\ N \in Nat
  BY <1>0, <1>1, <1>2, Constants DEF Types, Traces
<1>4. cursor \in 1 .. Len(cells) /\ cursor \in Nat /\ Len(cells) \in Nat
  BY <1>0, <1>1, <1>3, GapsThere, LenProperties DEF Types
<1>5. cells[cursor] \in Cell
  BY <1>0, <1>4, ElementOfSeq DEF Types
<1>6. SizesAt(cursor) # {}
  <2>1. 0 \in DOMAIN Packed
    BY <1>3, PackedAssumption, SizeAssumption
  <2>2. QED
    BY <1>4, <2>1 DEF SizesAt
<1>7. ASSUME want[r] < position
      PROVE  \E n \in SizesAt(cursor) : cursor + 1 - (BackStep + n) > 0
  <2>1. position - 1 \in Traces /\ position = (position - 1) + 1
    BY <1>1, <1>3, <1>7 DEF Traces
  <2>2. PICK n \in SizesAt(cursor) : TRUE
    BY <1>6
  <2>3. PICK c \in Nat, p \in Traces : c = cursor /\ p = position - 1
    BY <1>4, <2>1
  <2>4. c = Gap(p + 1) /\ n \in SizesAt(c)
    BY <1>1, <2>1, <2>2, <2>3, Zenon
  <2>5. c + 1 - (BackStep + n) = Gap(p)
    BY <1>0, <1>1, <2>4, StepBack
  <2>6. Gap(p) \in Nat \ {0}
    BY <1>0, <1>1, ChainCells
  <2>7. c + 1 - (BackStep + n) > 0
    BY <2>5, <2>6
  <2>8. QED
    BY <2>2, <2>3, <2>7, Zenon
<1>8. ASSUME want[r] >= position
      PROVE  /\ SizesAt(cursor + 1) # {}
             /\ \A n \in SizesAt(cursor + 1) : cursor + 1 + Len(Fields) + n <= Len(cells)
  <2>1. position \in Traces /\ position + 1 \in 0 .. numWritten
    BY <1>1, <1>3, <1>8 DEF Traces
  <2>2. Gap(position + 1) \in 1 .. Len(cells)
    BY <1>1, <1>3, <2>1, GapsThere
  <2>3. Gap(position + 1) = Gap(position) + 2 + F + Packed[position]
    BY <1>0, <1>1, <2>1, ChainCells
  <2>a. F \in Nat /\ Packed[position] \in Nat
    BY <2>1, Constants
  <2>b. Gap(position + 1) \in Nat
    BY <1>4, <2>2
  <2>4. PICK c \in Nat, f \in Nat, m \in Nat, g \in Nat :
           c = cursor /\ f = F /\ m = Packed[position] /\ g = Gap(position + 1)
    BY <1>4, <2>a, <2>b, Zenon
  <2>5. g = c + 2 + f + m /\ g <= Len(cells)
    <3>a. Gap(position) = c
      BY <1>1, <2>4, Zenon
    <3>b. Gap(position + 1) = c + 2 + f + m
      BY <2>3, <2>4, <3>a, Zenon
    <3>1. g = c + 2 + f + m
      BY <2>4, <3>b, Zenon
    <3>2. QED
      BY <2>2, <2>4, <3>1
  <2>6. c + 1 \in 1 .. Len(cells)
    BY <1>4, <2>4, <2>5
  <2>7. SizesAt(c + 1) # {}
    <3>1. 0 \in DOMAIN Packed
      BY <1>3, PackedAssumption, SizeAssumption
    <3>2. QED
      BY <2>6, <3>1 DEF SizesAt
  <2>8. ASSUME NEW n \in SizesAt(c + 1) PROVE c + 1 + f + n <= Len(cells)
    <3>1. n = Packed[position]
      BY <1>0, <1>1, <2>1, <2>4, <2>8, ZtrsPiece
    <3>2. n = m
      BY <2>4, <3>1, Zenon
    <3>3. QED
      BY <1>4, <2>4, <2>5, <3>2
  <2>9. QED
    BY <2>4, <2>7, <2>8, Zenon DEF F
<1>9. want[r] = position => want[r] >= position
  BY <1>3
<1>10. QED
  BY <1>6, <1>7, <1>8, <1>9

LEMMA NeverRunsOut ==
    ASSUME IndInv, NEW r \in Readers, kind = "trs" \/ ~disturbed, Announces(want[r])
    PROVE  ~RunsOut(r)
<1>0. Types /\ Counted /\ CursorTrue /\ Reach /\ r \in Threads
  BY ReadersAre DEF IndInv
<1>1. want[r] < numWritten
  <2>0. header \in 0 .. N
    BY DEF Announces
  <2>u. header # Unknown /\ header # Absent
    BY <2>0, UnknownAssumption, Constants DEF Unknown, Absent
  <2>a. header \in 0 .. numWritten
    BY <1>0, <2>u, Zenon DEF Counted, Announced
  <2>1. header <= numWritten /\ header \in Int
    BY <1>0, <2>a DEF Types
  <2>2. want[r] \in Int /\ numWritten \in Int
    BY <1>0, Constants DEF Types
  <2>3. QED
    BY <2>1, <2>2 DEF Announces
<1>2. CASE pc[r] = "get"
  <2>1. cursor + Len(Fields) <= Len(cells)
    BY <1>1, <1>2, TrsWithin
  <2>2. cursor + Len(Fields) \in Nat /\ Len(cells) \in Nat
    BY <1>0, Constants, LenProperties DEF Types, F
  <2>3. ~(cursor + Len(Fields) > Len(cells))
    BY <2>1, <2>2
  <2>4. QED
    BY <1>2, <2>3 DEF RunsOut
<1>3. CASE pc[r] = "seek"
  <2>0. ~disturbed
    BY <1>0, <1>3 DEF CursorTrue
  <2>1. /\ SizesAt(cursor) # {}
        /\ want[r] < position => \E n \in SizesAt(cursor) : cursor + 1 - (BackStep + n) > 0
        /\ want[r] >= position => SizesAt(cursor + 1) # {}
        /\ want[r] = position =>
              \A n \in SizesAt(cursor + 1) : cursor + 1 + Len(Fields) + n <= Len(cells)
    BY <1>1, <1>3, <2>0, WalkWithin
  <2>2. cursor \in Nat /\ Len(Fields) \in Nat /\ Len(cells) \in Nat /\ BackStep \in Nat
    BY <1>0, Constants, LenProperties DEF Types, F, BackStep
  <2>3. SizesAt(cursor) \subseteq Nat /\ SizesAt(cursor + 1) \subseteq Nat
    BY <1>0, <2>2, SizesRead
  <2>4. /\ \A n \in SizesAt(cursor) : cursor + 1 - (BackStep + n) > 0 <=> ~(cursor + 1 - (BackStep + n) <= 0)
        /\ \A n \in SizesAt(cursor + 1) :
              cursor + 1 + Len(Fields) + n <= Len(cells) <=> ~(cursor + 1 + Len(Fields) + n > Len(cells))
    BY <2>2, <2>3
  <2>5. QED
    BY <1>3, <2>1, <2>4, Zenon DEF RunsOut
<1>4. QED
  BY <1>2, <1>3 DEF RunsOut

-----------------------------------------------------------------------------
(* The theorems *)

LEMMA Initially == Init => IndInv
<1> SUFFICES ASSUME Init PROVE IndInv
  OBVIOUS
<1>1. /\ kind \in Backends /\ mode = "none" /\ header = Absent /\ cells = <<>> /\ todo = <<>>
      /\ numTraces = Unknown /\ numWritten = 0 /\ committed = 0 /\ position = 0 /\ cursor = 1
      /\ lock = 1 /\ faults = 0
      /\ pc = [t \in Threads |-> "idle"] /\ want = [t \in Threads |-> 0] /\ got = [t \in Threads |-> <<>>]
  BY DEF Init, AtStart
<1>n. N \in Nat \ {0} /\ MaxFaults \in Nat /\ 0 \in 0 .. N /\ 0 \in 0 .. N - 1 /\ 0 \in 0 .. MaxFaults
  BY Constants
<1>2. Types
  <2>1. <<>> \in Seq(Cell)
    OBVIOUS
  <2>2. QED
    BY <1>1, <1>n, <2>1 DEF Types
<1>w. Writer \in Threads
  BY WriterIs
<1>3. Modes
  BY <1>1, <1>w DEF Modes
<1>4. Counted
  BY <1>1, <1>w DEF Counted, Announced
<1>5. CellsTrue
  <2>1. Len(cells) = 0
    BY <1>1
  <2>2. ASSUME NEW i \in Traces, NEW f \in 1 .. Len(Record(i)) PROVE ~(Place(i) + f <= Len(cells))
    <3>1. i \in 0 .. N
      BY Constants DEF Traces
    <3>2. Place(i) \in Nat /\ Len(Record(i)) \in Nat
      BY <1>1, <3>1, Places
    <3>3. QED
      BY <2>1, <3>2
  <2>3. QED
    BY <2>2 DEF CellsTrue, Traces
<1>6. Grown
  <2>1. Place(numWritten) = 0 /\ Len(cells) = 0
    BY <1>1, Places
  <2>2. QED
    BY <1>1, <1>w, <2>1 DEF Grown
<1>7. \A t \in Threads : pc[t] = "idle"
  BY <1>1
<1>8. Exclusive
  BY <1>7 DEF Exclusive, Holding
<1>9. CursorTrue
  BY <1>1, <1>7, <1>n, ZtrsPlaceNext DEF CursorTrue, Gap
<1>10. GotTrue /\ FailedDisturbed
  BY <1>7, ReadersAre DEF GotTrue, FailedDisturbed
<1>11. Durable
  BY <1>1, <1>n DEF Durable
<1>12. Reach
  BY <1>1, <1>7, ReadersAre DEF Reach
<1>13. QED
  BY <1>2, <1>3, <1>4, <1>5, <1>6, <1>8, <1>9, <1>10, <1>11, <1>12 DEF IndInv

LEMMA Preserved == IndInv /\ [Next]_vars => IndInv'
BY TypesStep, ModesStep, CountedStep, CellsStep, GrownStep, ExclusiveStep, CursorStep, GotStep,
   FailedStep, DurableStep, ReachStep DEF IndInv

\* What holds at every step of an access, by any thread, to a file of either kind.
THEOREM Inductive == Spec => []IndInv
BY Initially, Preserved, PTL DEF Spec

\* Every variable keeps its type.
THEOREM TypeCorrect == Spec => []TypeOK
<1>1. IndInv => TypeOK
  <2> SUFFICES ASSUME IndInv PROVE TypeOK
    OBVIOUS
  <2>0. Types /\ Counted
    BY DEF IndInv
  <2>1. header \in Int /\ numTraces \in Int
    BY <2>0 DEF Counted, Announced, Absent, Unknown, Types
  <2>2. \A c \in 1 .. Len(cells) : cells[c] \in Cell
    BY <2>0, ElementOfSeq DEF Types
  <2>3. \A c \in 1 .. Len(cells) : cells[c].kind \in Kinds
    BY <2>2 DEF Cell
  <2>4. QED
    BY <2>0, <2>1, <2>3 DEF Types, TypeOK, Kinds
<1>2. QED
  BY <1>1, Inductive, PTL

\* However the readers and the writer take turns at the FILE, and whatever order the traces
\* are asked for in, a read of a trace that the header announces is not cut short by the end
\* of the file, and a read that succeeds returns the trace it was asked for.
THEOREM ReadsTrue == Spec => []ReadsReturnTheTrace
<1>1. IndInv => ReadsReturnTheTrace
  BY NeverRunsOut, Zenon DEF IndInv, GotTrue, FailedDisturbed, ReadsReturnTheTrace
<1>2. QED
  BY <1>1, Inductive, PTL

\* Whenever the process dies, the traces whose write succeeded are announced by the header,
\* and those that it announces are all in the file.
THEOREM HeaderTrue == Spec => []HeaderFaithful
<1>1. ASSUME IndInv, NEW i \in 0 .. N - 1, i < committed
      PROVE  Announces(i)
  <2>0. Types /\ Durable
    BY <1>1 DEF IndInv
  <2>1. committed \in 0 .. N /\ numWritten \in 0 .. N /\ N \in Nat
    BY <2>0, Constants DEF Types
  <2>2. header \in committed .. numWritten
    BY <1>1, <2>0, <2>1 DEF Durable
  <2>3. QED
    BY <1>1, <2>1, <2>2 DEF Announces
<1>2. ASSUME IndInv, NEW i \in 0 .. N - 1, Announces(i)
      PROVE  /\ Place(i) + Len(Record(i)) <= Len(cells)
             /\ SubSeq(cells, Place(i) + 1, Place(i) + Len(Record(i))) = Record(i)
  <2>0. Types /\ Counted /\ CellsTrue
    BY <1>2 DEF IndInv
  <2>1. i \in Traces /\ i < numWritten
    <3>1. header \in 0 .. N /\ i < header
      BY <1>2 DEF Announces
    <3>2. header # Unknown /\ header # Absent
      BY <3>1, UnknownAssumption, Constants DEF Unknown, Absent
    <3>3. header \in 0 .. numWritten
      BY <2>0, <3>2, Zenon DEF Counted, Announced
    <3>4. QED
      BY <2>0, <3>1, <3>3 DEF Types, Traces
  <2>2. Place(i) + Len(Record(i)) <= Len(cells)
    BY <1>2, <2>1, RecordThere
  <2>3. QED
    BY <2>0, <2>1, <2>2, RecordRead
<1>3. IndInv => HeaderFaithful
  BY <1>1, <1>2, Zenon DEF HeaderFaithful
<1>4. QED
  BY <1>3, Inductive, PTL

=============================================================================
