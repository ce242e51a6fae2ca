-------------------------- MODULE VisualizeProofs --------------------------
(***************************************************************************)
(* A drawing shows each trace of its block once, and unless two threads     *)
(* fetch one trace at once nothing is drawn too early and nobody touches an *)
(* entry that was freed: for every number of threads and traces and every   *)
(* layout, with every failure.                                              *)
(***************************************************************************)
EXTENDS Visualize, FunctionTheorems, FiniteSetTheorems, WellFoundedInduction, TLAPS

-----------------------------------------------------------------------------
(* The inductive invariant *)

\* A slot is empty or holds its own trace of the block.
SlotsTrue == \A b \in DOMAIN entries : \A s \in Slots : entries[b].slots[s] \in {None, b + s}

Cells == (0 .. layout.rows - 1) \X (0 .. layout.cols - 1) \X (0 .. layout.plots - 1)

\* What was drawn: in each cell the trace of the block that the layout puts there.
DrawnTrue ==
    \/ drawing = Nothing
    \/ /\ drawing.base \in Nat
       /\ drawing.shown = [cell \in Cells |-> drawing.base + Plotted[cell]]

\* Who works has an index and its entry; who counts has filled the slot.
Works(g) == pc[g] \in {"filling", "counting"}

Working ==
    \A g \in Getters :
        /\ pc[g] = "idle" => idx[g] = None
        /\ Works(g) => idx[g] # None /\ Has(Base(idx[g]))
        /\ pc[g] = "counting" => entries[Base(idx[g])].slots[idx[g] % Size] # None

Occupied(b) == {s \in Slots : entries[b].slots[s] # None}
Counting(b) == {g \in Getters : pc[g] = "counting" /\ At(g, b)}

\* As long as no trace is fetched by two at once: an empty slot is filled by one thread, each
\* filled slot is counted or about to be, and each full entry was signalled and not yet drawn.
Separate == \A g, h \in Getters : idx[g] = idx[h] /\ idx[g] # None => g = h
Vacant == \A g \in Getters : pc[g] = "filling" => entries[Base(idx[g])].slots[idx[g] % Size] = None
Counted == \A b \in DOMAIN entries : entries[b].count + Cardinality(Counting(b)) = Cardinality(Occupied(b))
Signalled == ~Ended => signals = Cardinality(Full)
Undoubled == ~doubled => Separate /\ Vacant /\ Counted /\ Signalled

IndInv == TypeOK /\ SlotsTrue /\ DrawnTrue /\ Working /\ Undoubled /\ OnlyDoublingBreaks

-----------------------------------------------------------------------------
(* Numbers of two and of three digits *)

LEMMA Monotone == \A a, x, y \in Nat : x < y => a * x + a <= a * y
<1>1. ASSUME NEW a \in Nat, NEW x \in Nat, NEW y \in Nat, x < y PROVE a * x + a <= a * y
  <2>1. PICK d \in Nat : y = x + 1 + d
    <3>1. y - x - 1 \in Nat /\ y = x + 1 + (y - x - 1)
      BY <1>1
    <3>2. QED
      BY <3>1
  <2>2. a * d \in Nat /\ a * x \in Nat
    OBVIOUS
  <2>3. a * (x + 1 + d) = a * x + a + a * d
    OBVIOUS
  <2>4. QED
    BY <2>1, <2>2, <2>3
<1>2. QED
  BY <1>1

\* Two digits: the value is below the product of the bases.
LEMMA TwoDigits ==
    ASSUME NEW a \in Nat \ {0}, NEW b \in Nat \ {0}, NEW x \in 0 .. a - 1, NEW y \in 0 .. b - 1
    PROVE  x + a * y \in 0 .. a * b - 1
<1>1. a * y + a <= a * b
  BY Monotone
<1>2. a * y \in Nat /\ a * b \in Nat
  OBVIOUS
<1>3. QED
  BY <1>1, <1>2

\* ... which are those of one number only,
LEMMA TwoDigitsDiffer ==
    ASSUME NEW a \in Nat \ {0}, NEW x \in 0 .. a - 1, NEW y \in Nat, NEW v \in 0 .. a - 1, NEW w \in Nat,
           x + a * y = v + a * w
    PROVE  x = v /\ y = w
<1>1. a * y \in Nat /\ a * w \in Nat
  OBVIOUS
<1>2. ~(y < w)
  <2>1. ASSUME y < w PROVE FALSE
    <3>1. a * y + a <= a * w
      BY <2>1, Monotone
    <3>2. QED
      BY <1>1, <3>1
  <2>2. QED
    BY <2>1
<1>3. ~(w < y)
  <2>1. ASSUME w < y PROVE FALSE
    <3>1. a * w + a <= a * y
      BY <2>1, Monotone
    <3>2. QED
      BY <1>1, <3>1
  <2>2. QED
    BY <2>1
<1>4. y = w
  BY <1>2, <1>3
<1>5. x = v
  BY <1>1, <1>4
<1>6. QED
  BY <1>4, <1>5

\* ... and each number below the product has two.
LEMMA TwoDigitsExist ==
    ASSUME NEW a \in Nat \ {0}, NEW b \in Nat \ {0}, NEW n \in 0 .. a * b - 1
    PROVE  \E x \in 0 .. a - 1, y \in 0 .. b - 1 : n = x + a * y
<1>1. PICK q \in Nat, r \in 0 .. a - 1 : n = r + a * q
  <2>1. n \div a \in Nat /\ n % a \in 0 .. a - 1 /\ n = (n % a) + a * (n \div a)
    OBVIOUS
  <2>2. QED
    BY <2>1
<1>2. q < b
  <2>1. ASSUME b <= q PROVE FALSE
    <3>1. a * b <= a * q
      <4>1. b < q => a * b + a <= a * q
        BY Monotone
      <4>2. a * b \in Nat /\ a * q \in Nat
        OBVIOUS
      <4>3. CASE b = q
        BY <4>2, <4>3
      <4>4. CASE b # q
        BY <2>1, <4>1, <4>2, <4>4
      <4>5. QED
        BY <4>3, <4>4
    <3>2. a * b \in Nat /\ a * q \in Nat
      OBVIOUS
    <3>3. QED
      BY <1>1, <3>1, <3>2
  <2>2. QED
    BY <2>1
<1>3. q \in 0 .. b - 1
  BY <1>2
<1>4. QED
  BY <1>1, <1>3, Zenon

\* The same of three digits.
Digits(a, b, x, y, z) == x + a * y + a * b * z

LEMMA ThreeDigits ==
    ASSUME NEW a \in Nat \ {0}, NEW b \in Nat \ {0}, NEW c \in Nat \ {0}
    PROVE  /\ \A x \in 0 .. a - 1, y \in 0 .. b - 1, z \in 0 .. c - 1 :
                Digits(a, b, x, y, z) \in 0 .. a * b * c - 1
           /\ \A x, u \in 0 .. a - 1, y, v \in 0 .. b - 1, z, w \in 0 .. c - 1 :
                Digits(a, b, x, y, z) = Digits(a, b, u, v, w) => x = u /\ y = v /\ z = w
           /\ \A n \in 0 .. a * b * c - 1 :
                \E x \in 0 .. a - 1, y \in 0 .. b - 1, z \in 0 .. c - 1 : n = Digits(a, b, x, y, z)
<1>1. /\ b * c \in Nat \ {0} /\ a * b * c = a * (b * c)
      /\ \A y, z \in Nat : y + b * z \in Nat /\ a * (y + b * z) = a * y + a * b * z
  <2>1. b * c \in Nat \ {0}
    OBVIOUS
  <2>2. a * b * c = a * (b * c)
    OBVIOUS
  <2>3. \A y, z \in Nat : y + b * z \in Nat /\ a * (y + b * z) = a * y + a * b * z
    OBVIOUS
  <2>4. QED
    BY <2>1, <2>2, <2>3
<1>2. ASSUME NEW x \in 0 .. a - 1, NEW y \in 0 .. b - 1, NEW z \in 0 .. c - 1
      PROVE  Digits(a, b, x, y, z) = x + a * (y + b * z)
  <2>1. x \in Nat /\ y \in Nat /\ z \in Nat
    OBVIOUS
  <2>2. a * y \in Nat /\ a * b * z \in Nat /\ a * (y + b * z) = a * y + a * b * z
    BY <1>1, <2>1
  <2>3. QED
    BY <2>1, <2>2 DEF Digits
<1>3. ASSUME NEW x \in 0 .. a - 1, NEW y \in 0 .. b - 1, NEW z \in 0 .. c - 1
      PROVE  Digits(a, b, x, y, z) \in 0 .. a * b * c - 1
  <2>1. y + b * z \in 0 .. b * c - 1
    BY TwoDigits
  <2>2. PICK m \in 0 .. b * c - 1 : m = y + b * z
    BY <2>1
  <2>3. x + a * m \in 0 .. a * (b * c) - 1
    BY <1>1, TwoDigits
  <2>4. QED
    BY <1>1, <1>2, <2>2, <2>3
<1>4. \A x, u \in 0 .. a - 1, y, v \in 0 .. b - 1, z, w \in 0 .. c - 1 :
        Digits(a, b, x, y, z) = Digits(a, b, u, v, w) => x = u /\ y = v /\ z = w
  <2> TAKE x, u \in 0 .. a - 1, y, v \in 0 .. b - 1, z, w \in 0 .. c - 1
  <2> HAVE Digits(a, b, x, y, z) = Digits(a, b, u, v, w)
  <2>1. y + b * z \in Nat /\ v + b * w \in Nat /\ z \in Nat /\ w \in Nat
    BY <1>1
  <2>2. PICK m \in Nat, n \in Nat : m = y + b * z /\ n = v + b * w
    BY <2>1
  <2>3. x + a * m = u + a * n
    <3>1. Digits(a, b, x, y, z) = x + a * m /\ Digits(a, b, u, v, w) = u + a * n
      BY <1>2, <2>2, Zenon
    <3>2. QED
      BY <3>1, Zenon
  <2>4. x = u /\ m = n
    BY <2>3, TwoDigitsDiffer
  <2>5. y + b * z = v + b * w
    BY <2>2, <2>4
  <2>6. y = v /\ z = w
    BY <2>1, <2>5, TwoDigitsDiffer
  <2>7. QED
    BY <2>4, <2>6
<1>5. ASSUME NEW n \in 0 .. a * b * c - 1
      PROVE  \E x \in 0 .. a - 1, y \in 0 .. b - 1, z \in 0 .. c - 1 : n = Digits(a, b, x, y, z)
  <2>1. PICK x \in 0 .. a - 1, m \in 0 .. b * c - 1 : n = x + a * m
    <3>1. PICK d \in Nat \ {0} : d = b * c
      BY <1>1
    <3>2. n \in 0 .. a * d - 1
      BY <1>1, <3>1
    <3>3. \E x \in 0 .. a - 1, m \in 0 .. d - 1 : n = x + a * m
      BY <3>2, TwoDigitsExist
    <3>4. QED
      BY <3>1, <3>3
  <2>2. PICK y \in 0 .. b - 1, z \in 0 .. c - 1 : m = y + b * z
    BY TwoDigitsExist
  <2>3. n = Digits(a, b, x, y, z)
    BY <1>2, <2>1, <2>2, Zenon
  <2>4. QED
    BY <2>3
<1>6. \A x \in 0 .. a - 1, y \in 0 .. b - 1, z \in 0 .. c - 1 :
        Digits(a, b, x, y, z) \in 0 .. a * b * c - 1
  BY <1>3, Zenon
<1>7. \A n \in 0 .. a * b * c - 1 :
        \E x \in 0 .. a - 1, y \in 0 .. b - 1, z \in 0 .. c - 1 : n = Digits(a, b, x, y, z)
  BY <1>5, Zenon
<1>8. QED
  BY <1>4, <1>6, <1>7, Zenon

-----------------------------------------------------------------------------
(* The layout of a drawing *)

\* Three digits tell the things of S apart, and take every value.
ToldApart(S, x, y, z) == \A s, t \in S : x[s] = x[t] /\ y[s] = y[t] /\ z[s] = z[t] => s = t

AllValues(S, a, b, c, x, y, z) ==
    \A u \in 0 .. a - 1, v \in 0 .. b - 1, w \in 0 .. c - 1 :
        \E s \in S : x[s] = u /\ y[s] = v /\ z[s] = w

Spelled(S, a, b, c, x, y, z) ==
    /\ x \in [S -> 0 .. a - 1] /\ y \in [S -> 0 .. b - 1] /\ z \in [S -> 0 .. c - 1]
    /\ ToldApart(S, x, y, z) /\ AllValues(S, a, b, c, x, y, z)

Numbers(S, a, b, x, y, z) == [s \in S |-> Digits(a, b, x[s], y[s], z[s])]

\* Numbered by such digits each has its own number, and each number its own thing.
LEMMA Numbering ==
    ASSUME NEW a \in Nat \ {0}, NEW b \in Nat \ {0}, NEW c \in Nat \ {0}, NEW S,
           NEW x, NEW y, NEW z, Spelled(S, a, b, c, x, y, z)
    PROVE  Numbers(S, a, b, x, y, z) \in Bijection(S, 0 .. a * b * c - 1)
<1> DEFINE N == a * b * c
           f == Numbers(S, a, b, x, y, z)
<1>1. \A u \in 0 .. a - 1, v \in 0 .. b - 1, w \in 0 .. c - 1 : Digits(a, b, u, v, w) \in 0 .. N - 1
  BY ThreeDigits, Zenon
<1>2. \A u, l \in 0 .. a - 1, v, m \in 0 .. b - 1, w, n \in 0 .. c - 1 :
        Digits(a, b, u, v, w) = Digits(a, b, l, m, n) => u = l /\ v = m /\ w = n
  BY ThreeDigits, Zenon
<1>3. \A n \in 0 .. N - 1 :
        \E u \in 0 .. a - 1, v \in 0 .. b - 1, w \in 0 .. c - 1 : n = Digits(a, b, u, v, w)
  BY ThreeDigits, Zenon
<1> HIDE DEF N
<1>4. \A s \in S : x[s] \in 0 .. a - 1 /\ y[s] \in 0 .. b - 1 /\ z[s] \in 0 .. c - 1
  BY Zenon DEF Spelled
<1>5. f \in [S -> 0 .. N - 1]
  <2>1. \A s \in S : Digits(a, b, x[s], y[s], z[s]) \in 0 .. N - 1
    BY <1>1, <1>4, Zenon
  <2>2. QED
    BY <2>1, Zenon DEF Numbers
<1>6. \A s \in S : f[s] = Digits(a, b, x[s], y[s], z[s])
  BY Zenon DEF Numbers
<1> HIDE DEF f
<1>7. ASSUME NEW s \in S, NEW t \in S, f[s] = f[t] PROVE s = t
  <2>1. PICK u \in 0 .. a - 1, l \in 0 .. a - 1 : u = x[s] /\ l = x[t]
    BY <1>4, Zenon
  <2>2. PICK v \in 0 .. b - 1, m \in 0 .. b - 1 : v = y[s] /\ m = y[t]
    BY <1>4, Zenon
  <2>3. PICK w \in 0 .. c - 1, n \in 0 .. c - 1 : w = z[s] /\ n = z[t]
    BY <1>4, Zenon
  <2>4. Digits(a, b, u, v, w) = Digits(a, b, l, m, n)
    BY <1>6, <1>7, <2>1, <2>2, <2>3, Zenon
  <2>5. u = l /\ v = m /\ w = n
    BY <1>2, <2>4
  <2>6. x[s] = x[t] /\ y[s] = y[t] /\ z[s] = z[t]
    BY <2>1, <2>2, <2>3, <2>5, Zenon
  <2>7. QED
    BY <2>6, Zenon DEF Spelled, ToldApart
<1>8. ASSUME NEW n \in 0 .. N - 1 PROVE \E s \in S : f[s] = n
  <2>1. PICK u \in 0 .. a - 1, v \in 0 .. b - 1, w \in 0 .. c - 1 : n = Digits(a, b, u, v, w)
    BY <1>3, Zenon
  <2>2. \E s \in S : x[s] = u /\ y[s] = v /\ z[s] = w
    BY DEF Spelled, AllValues
  <2>3. PICK s \in S : x[s] = u /\ y[s] = v /\ z[s] = w
    BY <2>2, Zenon
  <2>4. QED
    BY <1>6, <2>1, <2>3, Zenon
<1>9. f \in Bijection(S, 0 .. N - 1)
  BY <1>5, <1>7, <1>8, Zenon DEF Bijection, Injection, Surjection, IsInjective
<1>10. QED
  BY <1>9, Zenon DEF N, f

\* Each cell of a drawing has its own trace of the block, and shows one of the block even where
\* two cells overlap.
THEOREM PlottedIs ==
    ASSUME layout \in Layouts
    PROVE  /\ \A cell \in Cells : Plotted[cell] \in Slots
           /\ ~Overlapping => Plotted \in Bijection(Cells, Slots)
<1>1. PICK i \in Nat \ {0}, j \in Nat \ {0}, k \in Nat \ {0} :
        i = layout.rows /\ j = layout.cols /\ k = layout.plots
  BY LayoutsAssumption
<1>2. layout.order \in Orders
  BY LayoutsAssumption
<1>3. Slots = 0 .. i * j * k - 1
  BY <1>1, Zenon DEF Slots, Size
<1>4. Cells = (0 .. i - 1) \X (0 .. j - 1) \X (0 .. k - 1)
  BY <1>1, Zenon DEF Cells
<1> DEFINE Row == [cell \in Cells |-> cell[1]]
           Col == [cell \in Cells |-> cell[2]]
           Plot == [cell \in Cells |-> cell[3]]
<1>5. /\ Row \in [Cells -> 0 .. i - 1] /\ Col \in [Cells -> 0 .. j - 1] /\ Plot \in [Cells -> 0 .. k - 1]
  BY <1>4
<1>6. ASSUME NEW s \in Cells, NEW t \in Cells, Row[s] = Row[t], Col[s] = Col[t], Plot[s] = Plot[t]
      PROVE  s = t
  BY <1>4, <1>6
<1>7. ASSUME NEW u \in 0 .. i - 1, NEW v \in 0 .. j - 1, NEW w \in 0 .. k - 1
      PROVE  \E s \in Cells : Row[s] = u /\ Col[s] = v /\ Plot[s] = w
  <2>1. <<u, v, w>> \in Cells
    BY <1>4
  <2>2. QED
    BY <2>1
<1>8. \A s \in Cells : /\ Row[s] \in Nat /\ Col[s] \in Nat /\ Plot[s] \in Nat
                       /\ Plotted[s] = PlotIndices(Row[s], Col[s], Plot[s])
  <2>1. Plotted = [cell \in Cells |-> PlotIndices(cell[1], cell[2], cell[3])]
    BY Zenon DEF Plotted, Cells
  <2>2. \A s \in Cells : Plotted[s] = PlotIndices(Row[s], Col[s], Plot[s])
    BY <2>1, Zenon
  <2>3. \A s \in Cells : Row[s] \in Nat /\ Col[s] \in Nat /\ Plot[s] \in Nat
    BY <1>5
  <2>4. QED
    BY <2>2, <2>3, Zenon
<1>9. Plotted = [s \in Cells |-> Plotted[s]]
  BY Zenon DEF Plotted, Cells
<1> HIDE DEF Row, Col, Plot
<1> DEFINE Goal == Plotted \in Bijection(Cells, Slots)
<1>10. ASSUME layout.order = <<"plots", "rows">> PROVE Goal
  <2>1. \A r, c, p \in Nat : PlotIndices(r, c, p) = Digits(k, j, p, c, r)
    <3>1. \A r, c, p : PlotIndices(r, c, p) = r * (j * k) + c * k + p
      BY <1>1, <1>10 DEF PlotIndices
    <3>2. \A r, c, p \in Nat : r * (j * k) + c * k + p = Digits(k, j, p, c, r)
      BY DEF Digits
    <3>3. QED
      BY <3>1, <3>2, Zenon
  <2>2. Plotted = [s \in Cells |-> Digits(k, j, Plot[s], Col[s], Row[s])]
    <3>1. ASSUME NEW s \in Cells PROVE Plotted[s] = Digits(k, j, Plot[s], Col[s], Row[s])
      <4>1. Row[s] \in Nat /\ Col[s] \in Nat /\ Plot[s] \in Nat
        BY <1>8, Zenon
      <4>2. PlotIndices(Row[s], Col[s], Plot[s]) = Digits(k, j, Plot[s], Col[s], Row[s])
        BY <2>1, <4>1, Zenon
      <4>3. QED
        BY <1>8, <4>2, Zenon
    <3>2. QED
      BY <1>9, <3>1, Zenon
  <2>3. k * j * i = i * j * k
    OBVIOUS
  <2>4. Spelled(Cells, k, j, i, Plot, Col, Row)
    <3>1. ToldApart(Cells, Plot, Col, Row)
      BY <1>6 DEF ToldApart
    <3>2. AllValues(Cells, k, j, i, Plot, Col, Row)
      BY <1>7 DEF AllValues
    <3>3. QED
      BY <1>5, <3>1, <3>2, Zenon DEF Spelled
  <2>5. Plotted \in Bijection(Cells, 0 .. k * j * i - 1)
    <3>1. Numbers(Cells, k, j, Plot, Col, Row) \in Bijection(Cells, 0 .. k * j * i - 1)
      BY <2>4, Numbering, Zenon
    <3>2. QED
      BY <3>1, <2>2, Zenon DEF Numbers
  <2>6. QED
    BY <1>3, <2>3, <2>5, Zenon
<1>11. ASSUME layout.order = <<"plots", "cols">> PROVE Goal
  <2>1. \A r, c, p \in Nat : PlotIndices(r, c, p) = Digits(k, i, p, r, c)
    <3>1. \A r, c, p : PlotIndices(r, c, p) = c * (i * k) + r * k + p
      BY <1>1, <1>11 DEF PlotIndices
    <3>2. \A r, c, p \in Nat : c * (i * k) + r * k + p = Digits(k, i, p, r, c)
      BY DEF Digits
    <3>3. QED
      BY <3>1, <3>2, Zenon
  <2>2. Plotted = [s \in Cells |-> Digits(k, i, Plot[s], Row[s], Col[s])]
    <3>1. ASSUME NEW s \in Cells PROVE Plotted[s] = Digits(k, i, Plot[s], Row[s], Col[s])
      <4>1. Row[s] \in Nat /\ Col[s] \in Nat /\ Plot[s] \in Nat
        BY <1>8, Zenon
      <4>2. PlotIndices(Row[s], Col[s], Plot[s]) = Digits(k, i, Plot[s], Row[s], Col[s])
        BY <2>1, <4>1, Zenon
      <4>3. QED
        BY <1>8, <4>2, Zenon
    <3>2. QED
      BY <1>9, <3>1, Zenon
  <2>3. k * i * j = i * j * k
    OBVIOUS
  <2>4. Spelled(Cells, k, i, j, Plot, Row, Col)
    <3>1. ToldApart(Cells, Plot, Row, Col)
      BY <1>6 DEF ToldApart
    <3>2. AllValues(Cells, k, i, j, Plot, Row, Col)
      BY <1>7 DEF AllValues
    <3>3. QED
      BY <1>5, <3>1, <3>2, Zenon DEF Spelled
  <2>5. Plotted \in Bijection(Cells, 0 .. k * i * j - 1)
    <3>1. Numbers(Cells, k, i, Plot, Row, Col) \in Bijection(Cells, 0 .. k * i * j - 1)
      BY <2>4, Numbering, Zenon
    <3>2. QED
      BY <3>1, <2>2, Zenon DEF Numbers
  <2>6. QED
    BY <1>3, <2>3, <2>5, Zenon
<1>12. ASSUME layout.order = <<"rows", "plots">> PROVE Goal
  <2>1. \A r, c, p \in Nat : PlotIndices(r, c, p) = Digits(j, k, c, p, r)
    <3>1. \A r, c, p : PlotIndices(r, c, p) = r * (j * k) + c + j * p
      BY <1>1, <1>12 DEF PlotIndices
    <3>2. \A r, c, p \in Nat : r * (j * k) + c + j * p = Digits(j, k, c, p, r)
      BY DEF Digits
    <3>3. QED
      BY <3>1, <3>2, Zenon
  <2>2. Plotted = [s \in Cells |-> Digits(j, k, Col[s], Plot[s], Row[s])]
    <3>1. ASSUME NEW s \in Cells PROVE Plotted[s] = Digits(j, k, Col[s], Plot[s], Row[s])
      <4>1. Row[s] \in Nat /\ Col[s] \in Nat /\ Plot[s] \in Nat
        BY <1>8, Zenon
      <4>2. PlotIndices(Row[s], Col[s], Plot[s]) = Digits(j, k, Col[s], Plot[s], Row[s])
        BY <2>1, <4>1, Zenon
      <4>3. QED
        BY <1>8, <4>2, Zenon
    <3>2. QED
      BY <1>9, <3>1, Zenon
  <2>3. j * k * i = i * j * k
    OBVIOUS
  <2>4. Spelled(Cells, j, k, i, Col, Plot, Row)
    <3>1. ToldApart(Cells, Col, Plot, Row)
      BY <1>6 DEF ToldApart
    <3>2. AllValues(Cells, j, k, i, Col, Plot, Row)
      BY <1>7 DEF AllValues
    <3>3. QED
      BY <1>5, <3>1, <3>2, Zenon DEF Spelled
  <2>5. Plotted \in Bijection(Cells, 0 .. j * k * i - 1)
    <3>1. Numbers(Cells, j, k, Col, Plot, Row) \in Bijection(Cells, 0 .. j * k * i - 1)
      BY <2>4, Numbering, Zenon
    <3>2. QED
      BY <3>1, <2>2, Zenon DEF Numbers
  <2>6. QED
    BY <1>3, <2>3, <2>5, Zenon
<1>13. ASSUME layout.order = <<"cols", "rows">> PROVE Goal
  <2>1. \A r, c, p \in Nat : PlotIndices(r, c, p) = Digits(i, j, r, c, p)
    <3>1. \A r, c, p : PlotIndices(r, c, p) = c * i + r + i * j * p
      BY <1>1, <1>13 DEF PlotIndices
    <3>2. \A r, c, p \in Nat : c * i + r + i * j * p = Digits(i, j, r, c, p)
      BY DEF Digits
    <3>3. QED
      BY <3>1, <3>2, Zenon
  <2>2. Plotted = [s \in Cells |-> Digits(i, j, Row[s], Col[s], Plot[s])]
    <3>1. ASSUME NEW s \in Cells PROVE Plotted[s] = Digits(i, j, Row[s], Col[s], Plot[s])
      <4>1. Row[s] \in Nat /\ Col[s] \in Nat /\ Plot[s] \in Nat
        BY <1>8, Zenon
      <4>2. PlotIndices(Row[s], Col[s], Plot[s]) = Digits(i, j, Row[s], Col[s], Plot[s])
        BY <2>1, <4>1, Zenon
      <4>3. QED
        BY <1>8, <4>2, Zenon
    <3>2. QED
      BY <1>9, <3>1, Zenon
  <2>3. i * j * k = i * j * k
    OBVIOUS
  <2>4. Spelled(Cells, i, j, k, Row, Col, Plot)
    <3>1. ToldApart(Cells, Row, Col, Plot)
      BY <1>6 DEF ToldApart
    <3>2. AllValues(Cells, i, j, k, Row, Col, Plot)
      BY <1>7 DEF AllValues
    <3>3. QED
      BY <1>5, <3>1, <3>2, Zenon DEF Spelled
  <2>5. Plotted \in Bijection(Cells, 0 .. i * j * k - 1)
    <3>1. Numbers(Cells, i, j, Row, Col, Plot) \in Bijection(Cells, 0 .. i * j * k - 1)
      BY <2>4, Numbering, Zenon
    <3>2. QED
      BY <3>1, <2>2, Zenon DEF Numbers
  <2>6. QED
    BY <1>3, <2>3, <2>5, Zenon
<1>14. ASSUME layout.order = <<"cols", "plots">> PROVE Goal
  <2>1. \A r, c, p \in Nat : PlotIndices(r, c, p) = Digits(i, k, r, p, c)
    <3>1. \A r, c, p : PlotIndices(r, c, p) = c * (i * k) + r + i * p
      BY <1>1, <1>14 DEF PlotIndices
    <3>2. \A r, c, p \in Nat : c * (i * k) + r + i * p = Digits(i, k, r, p, c)
      BY DEF Digits
    <3>3. QED
      BY <3>1, <3>2, Zenon
  <2>2. Plotted = [s \in Cells |-> Digits(i, k, Row[s], Plot[s], Col[s])]
    <3>1. ASSUME NEW s \in Cells PROVE Plotted[s] = Digits(i, k, Row[s], Plot[s], Col[s])
      <4>1. Row[s] \in Nat /\ Col[s] \in Nat /\ Plot[s] \in Nat
        BY <1>8, Zenon
      <4>2. PlotIndices(Row[s], Col[s], Plot[s]) = Digits(i, k, Row[s], Plot[s], Col[s])
        BY <2>1, <4>1, Zenon
      <4>3. QED
        BY <1>8, <4>2, Zenon
    <3>2. QED
      BY <1>9, <3>1, Zenon
  <2>3. i * k * j = i * j * k
    OBVIOUS
  <2>4. Spelled(Cells, i, k, j, Row, Plot, Col)
    <3>1. ToldApart(Cells, Row, Plot, Col)
      BY <1>6 DEF ToldApart
    <3>2. AllValues(Cells, i, k, j, Row, Plot, Col)
      BY <1>7 DEF AllValues
    <3>3. QED
      BY <1>5, <3>1, <3>2, Zenon DEF Spelled
  <2>5. Plotted \in Bijection(Cells, 0 .. i * k * j - 1)
    <3>1. Numbers(Cells, i, k, Row, Plot, Col) \in Bijection(Cells, 0 .. i * k * j - 1)
      BY <2>4, Numbering, Zenon
    <3>2. QED
      BY <3>1, <2>2, Zenon DEF Numbers
  <2>6. QED
    BY <1>3, <2>3, <2>5, Zenon
<1>15. ASSUME layout.order = <<"rows", "cols">>, ~Overlapping PROVE Goal
  <2>1. i = 1 \/ j = 1
    BY <1>1, <1>15 DEF Overlapping
  <2>2. \A r, c, p : PlotIndices(r, c, p) = r + c + i * j * p
    BY <1>1, <1>15 DEF PlotIndices
  <2>3. ASSUME NEW s \in Cells PROVE Plotted[s] = Digits(i, j, Row[s], Col[s], Plot[s])
    <3>1. PICK r \in 0 .. i - 1, c \in 0 .. j - 1, p \in Nat : r = Row[s] /\ c = Col[s] /\ p = Plot[s]
      BY <1>5, <1>8
    <3>2. r + c + i * j * p = Digits(i, j, r, c, p)
      BY <2>1 DEF Digits
    <3>3. QED
      BY <1>8, <2>2, <3>1, <3>2, Zenon
  <2>4. Plotted = [s \in Cells |-> Digits(i, j, Row[s], Col[s], Plot[s])]
    BY <1>9, <2>3, Zenon
  <2>5. Spelled(Cells, i, j, k, Row, Col, Plot)
    <3>1. ToldApart(Cells, Row, Col, Plot)
      BY <1>6 DEF ToldApart
    <3>2. AllValues(Cells, i, j, k, Row, Col, Plot)
      BY <1>7 DEF AllValues
    <3>3. QED
      BY <1>5, <3>1, <3>2, Zenon DEF Spelled
  <2>6. Plotted \in Bijection(Cells, 0 .. i * j * k - 1)
    <3>1. Numbers(Cells, i, j, Row, Col, Plot) \in Bijection(Cells, 0 .. i * j * k - 1)
      BY <2>5, Numbering, Zenon
    <3>2. QED
      BY <3>1, <2>4, Zenon DEF Numbers
  <2>7. QED
    BY <1>3, <2>6, Zenon
<1>16. ASSUME layout.order = <<"rows", "cols">>, NEW s \in Cells PROVE Plotted[s] \in Slots
  <2>1. \A r, c, p : PlotIndices(r, c, p) = r + c + i * j * p
    BY <1>1, <1>16 DEF PlotIndices
  <2>2. PICK r \in 0 .. i - 1, c \in 0 .. j - 1, p \in 0 .. k - 1 : r = Row[s] /\ c = Col[s] /\ p = Plot[s]
    BY <1>5
  <2>3. r + c \in 0 .. i * j - 1
    <3>1. PICK m \in Nat, n \in Nat : i = m + 1 /\ j = n + 1
      <4>1. i - 1 \in Nat /\ j - 1 \in Nat /\ i = (i - 1) + 1 /\ j = (j - 1) + 1
        OBVIOUS
      <4>2. QED
        BY <4>1
    <3>2. r + c \in Nat /\ r + c <= m + n
      BY <3>1
    <3>3. (m + 1) * (n + 1) = m * n + m + n + 1 /\ m * n \in Nat
      OBVIOUS
    <3>4. QED
      BY <3>1, <3>2, <3>3
  <2>4. PICK a \in Nat \ {0} : a = i * j
    OBVIOUS
  <2>5. PICK x \in 0 .. a - 1 : x = r + c
    BY <2>3, <2>4
  <2>6. x + a * p \in 0 .. a * k - 1
    BY TwoDigits
  <2>7. Plotted[s] = x + a * p
    BY <1>8, <2>1, <2>2, <2>4, <2>5, Zenon
  <2>8. QED
    BY <1>3, <2>4, <2>6, <2>7, Zenon
<1>17. layout.order # <<"rows", "cols">> => Goal
  <2> HIDE DEF Goal
  <2>1. QED
    BY <1>2, <1>10, <1>11, <1>12, <1>13, <1>14 DEF Orders
<1>18. Goal => \A cell \in Cells : Plotted[cell] \in Slots
  BY Zenon DEF Bijection, Injection
<1>19. QED
  BY <1>15, <1>16, <1>17, <1>18, Zenon

-----------------------------------------------------------------------------
(* Indices, entries and what is counted *)

\* An index is the base of its entry and its slot in there.
LEMMA IndexParts ==
    ASSUME layout \in Layouts
    PROVE  /\ Size \in Nat \ {0} /\ Slots = 0 .. Size - 1
           /\ \A i \in Nat : /\ Base(i) \in 0 .. i /\ Base(Base(i)) = Base(i)
                             /\ i % Size \in Slots /\ i = Base(i) + (i % Size)
<1>1. Size \in Nat \ {0}
  <2>1. PICK i \in Nat \ {0}, j \in Nat \ {0}, k \in Nat \ {0} :
          i = layout.rows /\ j = layout.cols /\ k = layout.plots
    BY LayoutsAssumption
  <2>2. i * j * k \in Nat \ {0}
    <3>1. i * j \in Nat \ {0}
      OBVIOUS
    <3>2. QED
      BY <3>1
  <2>3. QED
    BY <2>1, <2>2, Zenon DEF Size
<1>2. PICK n \in Nat \ {0} : n = Size
  BY <1>1
<1>3. ASSUME NEW i \in Nat
      PROVE  /\ n * (i \div n) \in 0 .. i /\ n * ((n * (i \div n)) \div n) = n * (i \div n)
             /\ i % n \in 0 .. n - 1 /\ i = n * (i \div n) + (i % n)
  <2>1. PICK q \in Nat, r \in 0 .. n - 1 : q = i \div n /\ r = i % n /\ i = n * q + r
    <3>1. i \div n \in Nat /\ i % n \in 0 .. n - 1 /\ i = n * (i \div n) + (i % n)
      OBVIOUS
    <3>2. QED
      BY <3>1, Zenon
  <2>2. n * q \in Nat
    OBVIOUS
  <2>3. PICK m \in Nat : m = n * q
    BY <2>2
  <2>4. PICK p \in Nat, d \in 0 .. n - 1 : p = m \div n /\ m = n * p + d
    <3>1. m \div n \in Nat /\ m % n \in 0 .. n - 1 /\ m = n * (m \div n) + (m % n)
      OBVIOUS
    <3>2. QED
      BY <3>1, Zenon
  <2>5. 0 \in 0 .. n - 1 /\ n * p \in Nat /\ 0 + n * q = d + n * p
    BY <2>2, <2>3, <2>4
  <2>6. q = p
    BY <2>5, TwoDigitsDiffer
  <2>7. QED
    BY <2>1, <2>2, <2>3, <2>4, <2>6
<1>4. \A i : Base(i) = n * (i \div n)
  BY <1>2, Zenon DEF Base
<1>5. Slots = 0 .. n - 1
  BY <1>2, Zenon DEF Slots
<1>6. QED
  BY <1>1, <1>2, <1>3, <1>4, <1>5, Zenon

\* A layout is chosen once.
LEMMA SameLayout ==
    ASSUME layout' = layout
    PROVE  /\ Size' = Size /\ Slots' = Slots /\ Cells' = Cells /\ Plotted' = Plotted
           /\ Overlapping' = Overlapping
           /\ \A i : Base(i)' = Base(i)
<1>1. Size' = Size
  BY Zenon DEF Size
<1>2. Slots' = Slots /\ \A i : Base(i)' = Base(i)
  BY <1>1, Zenon DEF Slots, Base
<1>3. Cells' = Cells /\ Overlapping' = Overlapping
  BY Zenon DEF Cells, Overlapping
<1>4. Plotted' = Plotted
  BY DEF Plotted, PlotIndices
<1>5. QED
  BY <1>1, <1>2, <1>3, <1>4

\* There are finitely many of everything that is counted.
LEMMA Finite ==
    ASSUME TypeOK
    PROVE  /\ IsFiniteSet(DOMAIN entries) /\ IsFiniteSet(Full) /\ Full \subseteq Nat
           /\ IsFiniteSet(Slots) /\ Cardinality(Slots) = Size
           /\ \A b : /\ IsFiniteSet(Counting(b)) /\ Cardinality(Counting(b)) \in Nat
                     /\ IsFiniteSet(Occupied(b)) /\ Cardinality(Occupied(b)) \in 0 .. Size
<1>1. Size \in Nat \ {0} /\ Slots = 0 .. Size - 1
  BY IndexParts DEF TypeOK
<1>2. IsFiniteSet(Slots) /\ Cardinality(Slots) = Size
  BY <1>1, FS_Interval
<1>3. DOMAIN entries \subseteq 0 .. NTraces - 1
  BY DEF TypeOK
<1>4. IsFiniteSet(DOMAIN entries)
  <2>1. NTraces - 1 \in Int
    BY BoundsAssumption
  <2>2. IsFiniteSet(0 .. NTraces - 1)
    BY <2>1, FS_Interval
  <2>3. QED
    BY <1>3, <2>2, FS_Subset
<1>5. Full \subseteq DOMAIN entries
  BY Zenon DEF Full
<1>6. IsFiniteSet(Full) /\ Full \subseteq Nat
  BY <1>3, <1>4, <1>5, FS_Subset
<1>7. ASSUME NEW b
      PROVE  /\ IsFiniteSet(Counting(b)) /\ Cardinality(Counting(b)) \in Nat
             /\ IsFiniteSet(Occupied(b)) /\ Cardinality(Occupied(b)) \in 0 .. Size
  <2>1. Counting(b) \subseteq Getters
    BY Zenon DEF Counting
  <2>2. IsFiniteSet(Counting(b))
    BY <2>1, GettersAssumption, FS_Subset
  <2>3. Occupied(b) \subseteq Slots
    BY Zenon DEF Occupied
  <2>4. IsFiniteSet(Occupied(b)) /\ Cardinality(Occupied(b)) <= Size
    BY <1>2, <2>3, FS_Subset
  <2>5. Cardinality(Counting(b)) \in Nat /\ Cardinality(Occupied(b)) \in Nat
    BY <2>2, <2>4, FS_CardinalityType
  <2>6. QED
    BY <1>1, <2>2, <2>4, <2>5
<1>8. QED
  BY <1>2, <1>4, <1>6, <1>7, Zenon

\* The first full entry: a set of naturals has a least element.
LEMMA FirstFull ==
    ASSUME TypeOK, Full # {}
    PROVE  Min(Full) \in Full
<1>1. Full \subseteq Nat
  BY Finite
<1>2. PICK m \in Full : \A k \in Full : ~ (<<k, m>> \in OpToRel(<, Nat))
  BY <1>1, NatLessThanWellFounded, WFMin
<1>3. \A k, n \in Nat : <<k, n>> \in OpToRel(<, Nat) <=> k < n
  BY DEF OpToRel
<1>4. \A k \in Full : m <= k
  <2>1. ASSUME NEW k \in Full PROVE m <= k
    <3>1. k \in Nat /\ m \in Nat
      BY <1>1
    <3>2. ~ (k < m)
      BY <1>2, <1>3, <3>1, Zenon
    <3>3. QED
      BY <3>1, <3>2
  <2>2. QED
    BY <2>1
<1>5. QED
  BY <1>4, Zenon DEF Min

\* Of an entry that is full each slot is filled, and nobody works on it.
LEMMA FullMeans ==
    ASSUME IndInv, ~doubled, NEW b \in Full
    PROVE  /\ \A s \in Slots : entries[b].slots[s] # None
           /\ \A g \in Getters : ~At(g, b)
<1>1. b \in DOMAIN entries /\ entries[b].count = Size
  BY Zenon DEF Full
<1>2. TypeOK /\ Working /\ Vacant /\ Counted
  BY Zenon DEF IndInv, Undoubled
<1>3. Size \in Nat \ {0} /\ Cardinality(Slots) = Size /\ IsFiniteSet(Slots)
  BY <1>2, Finite, IndexParts DEF TypeOK
<1>4. Cardinality(Counting(b)) = 0 /\ Cardinality(Occupied(b)) = Size
  <2>1. Size + Cardinality(Counting(b)) = Cardinality(Occupied(b))
    BY <1>1, <1>2, Zenon DEF Counted
  <2>2. Cardinality(Counting(b)) \in Nat /\ Cardinality(Occupied(b)) \in 0 .. Size
    BY <1>2, Finite
  <2>3. QED
    BY <1>3, <2>1, <2>2
<1>5. Counting(b) = {}
  BY <1>2, <1>4, Finite, FS_EmptySet
<1>6. Occupied(b) = Slots
  <2>1. Occupied(b) \subseteq Slots
    BY Zenon DEF Occupied
  <2>2. QED
    BY <1>3, <1>4, <2>1, FS_Subset
<1>7. \A s \in Slots : entries[b].slots[s] # None
  BY <1>6, Zenon DEF Occupied
<1>8. ASSUME NEW g \in Getters, At(g, b) PROVE FALSE
  <2>1. idx[g] # None /\ Base(idx[g]) = b
    BY <1>8, Zenon DEF At
  <2>2. pc[g] # "idle"
    BY <1>2, <2>1, Zenon DEF Working
  <2>3. pc[g] # "wild"
    BY Zenon DEF IndInv, OnlyDoublingBreaks
  <2>4. pc[g] # "counting"
    BY <1>5, <1>8, Zenon DEF Counting
  <2>5. pc[g] = "filling"
    BY <1>2, <2>2, <2>3, <2>4 DEF TypeOK
  <2>6. idx[g] \in Nat
    BY <1>2, <2>1, BoundsAssumption DEF TypeOK
  <2>7. idx[g] % Size \in Slots
    BY <1>2, <2>6, IndexParts DEF TypeOK
  <2>8. QED
    BY <1>2, <1>7, <2>1, <2>5, <2>7, Zenon DEF Vacant
<1>9. QED
  BY <1>7, <1>8, Zenon

-----------------------------------------------------------------------------
(* What the actions keep *)

\* Who works has an index, its place in the entry, and the entry.
LEMMA Worker ==
    ASSUME IndInv, NEW g \in Getters, Works(g)
    PROVE  /\ idx[g] \in 0 .. NTraces - 1 /\ idx[g] \in Nat
           /\ Base(idx[g]) \in DOMAIN entries /\ At(g, Base(idx[g]))
           /\ idx[g] % Size \in Slots /\ idx[g] = Base(idx[g]) + (idx[g] % Size)
           /\ entries[Base(idx[g])] \in [count : Nat, slots : [Slots -> Nat \cup {None}]]
<1>1. TypeOK /\ idx[g] # None /\ Has(Base(idx[g]))
  BY Zenon DEF IndInv, Working
<1>2. idx[g] \in 0 .. NTraces - 1 /\ idx[g] \in Nat
  BY <1>1, BoundsAssumption DEF TypeOK
<1>3. idx[g] % Size \in Slots /\ idx[g] = Base(idx[g]) + (idx[g] % Size)
  BY <1>1, <1>2, IndexParts, Zenon DEF TypeOK
<1>4. Base(idx[g]) \in DOMAIN entries /\ At(g, Base(idx[g]))
  BY <1>1, Zenon DEF Has, At
<1>5. entries[Base(idx[g])] \in [count : Nat, slots : [Slots -> Nat \cup {None}]]
  BY <1>1, <1>4, Zenon DEF TypeOK
<1>6. QED
  BY <1>2, <1>3, <1>4, <1>5, Zenon

\* The history of the drawing stays true while nothing is drawn.
LEMMA DrawingKept ==
    ASSUME DrawnTrue, layout' = layout, drawing' = drawing
    PROVE  DrawnTrue'
<1>1. Cells' = Cells /\ Plotted' = Plotted
  BY SameLayout
<1>2. QED
  BY <1>1 DEF DrawnTrue, Nothing

\* Steps that touch neither entries nor who works on them.
LEMMA UnmovedKeeps ==
    ASSUME IndInv, TypeOK',
           UNCHANGED <<layout, entries, pc, idx, drawing, doubled, signals>>,
           unstarted => unstarted',
           Ended => Ended', Ended' => Ended \/ unstarted'
    PROVE  IndInv'
<1>1. TypeOK /\ SlotsTrue /\ DrawnTrue /\ Working /\ Undoubled /\ OnlyDoublingBreaks
  BY Zenon DEF IndInv
<1>2. /\ Size' = Size /\ Slots' = Slots /\ \A i : Base(i)' = Base(i)
      /\ entries' = entries /\ pc' = pc /\ idx' = idx /\ doubled' = doubled /\ signals' = signals
  BY SameLayout
<1>3. SlotsTrue' /\ (doubled' <=> doubled)
  <2>1. SlotsTrue'
    BY <1>1, <1>2, Zenon DEF SlotsTrue
  <2>2. doubled' <=> doubled
    BY <1>2
  <2>3. QED
    BY <2>1, <2>2
<1>4. DrawnTrue'
  BY <1>1, DrawingKept
<1>5. Working'
  BY <1>1, <1>2, Zenon DEF Working, Works, Has, Base
<1>6. OnlyDoublingBreaks'
  <2>1. ASSUME Ended' PROVE doubled' \/ unstarted'
    <3>1. CASE Ended
      BY <1>1, <1>3, <3>1, Zenon DEF OnlyDoublingBreaks
    <3>2. CASE ~Ended
      BY <2>1, <3>2, Zenon
    <3>3. QED
      BY <3>1, <3>2, Zenon
  <2>2. (\E g \in Getters : pc'[g] = "wild") => doubled'
    BY <1>1, <1>2, <1>3, Zenon DEF OnlyDoublingBreaks
  <2>3. QED
    BY <2>1, <2>2, Zenon DEF OnlyDoublingBreaks
<1>7. Undoubled'
  <2>1. Separate' <=> Separate
    BY <1>2, Zenon DEF Separate
  <2>2. Vacant' <=> Vacant
    BY <1>2, Zenon DEF Vacant, Base
  <2>3. Counted' <=> Counted
    <3>1. \A b : Counting(b)' = Counting(b) /\ Occupied(b)' = Occupied(b)
      <4>1. \A b : Counting(b)' = Counting(b)
        BY <1>2, Zenon DEF Counting, At, Base
      <4>2. \A b : Occupied(b)' = Occupied(b)
        BY <1>2, Zenon DEF Occupied
      <4>3. QED
        BY <4>1, <4>2, Zenon
    <3>2. QED
      BY <1>2, <3>1, Zenon DEF Counted
  <2>4. Full' = Full
    BY <1>2, Zenon DEF Full
  <2>5. Signalled => Signalled'
    <3>1. ~Ended' => ~Ended
      BY Zenon
    <3>2. QED
      BY <1>2, <2>4, <3>1, Zenon DEF Signalled
  <2>6. ~doubled' => ~doubled
    BY <1>3, Zenon
  <2>7. QED
    BY <1>1, <2>1, <2>2, <2>3, <2>5, <2>6, Zenon DEF Undoubled
<1>8. QED
  BY <1>1, <1>3, <1>4, <1>5, <1>6, <1>7, Zenon DEF IndInv

\* A new entry is empty; who gets the missing trace is the only one to do so, or doubles.
LEMMA GetMissingKeeps ==
    ASSUME IndInv, NEW g \in Getters, NEW i \in 0 .. NTraces - 1, GetMissing(g, i)
    PROVE  IndInv'
<1>1. TypeOK /\ SlotsTrue /\ DrawnTrue /\ Working /\ Undoubled /\ OnlyDoublingBreaks
  BY Zenon DEF IndInv
<1>2. /\ layout' = layout /\ drawing' = drawing /\ status' = status /\ signals' = signals
      /\ displayed' = displayed /\ close' = close /\ leaked' = leaked /\ faults' = faults
      /\ unstarted' = unstarted /\ gets' = gets + 1 /\ gets < MaxGets
      /\ pc[g] = "idle" /\ ~Filled(i)
      /\ doubled' = (doubled \/ \E h \in Getters : idx[h] = i)
      /\ idx' = [idx EXCEPT ![g] = i] /\ pc' = [pc EXCEPT ![g] = "filling"]
      /\ entries' = [b \in DOMAIN entries \cup {Base(i)} |-> IF Has(b) THEN entries[b] ELSE NewEntry]
  BY Zenon DEF GetMissing, Asks
<1>3. /\ Size' = Size /\ Slots' = Slots /\ \A j : Base(j)' = Base(j)
  BY <1>2, SameLayout
<1>4. Size \in Nat \ {0} /\ i \in Nat /\ Base(i) \in 0 .. i /\ Base(Base(i)) = Base(i) /\ i % Size \in Slots
  BY <1>1, IndexParts, BoundsAssumption DEF TypeOK
<1>5. /\ DOMAIN entries' = DOMAIN entries \cup {Base(i)}
      /\ \A b \in DOMAIN entries : entries'[b] = entries[b]
      /\ Base(i) \notin DOMAIN entries => entries'[Base(i)] = NewEntry
  BY <1>2, Zenon DEF Has
<1>6. /\ NewEntry \in [count : Nat, slots : [Slots -> Nat \cup {None}]]
      /\ NewEntry.count = 0 /\ \A s \in Slots : NewEntry.slots[s] = None
  BY DEF NewEntry
<1>7. /\ idx'[g] = i /\ pc'[g] = "filling"
      /\ \A h \in Getters : h # g => idx'[h] = idx[h] /\ pc'[h] = pc[h]
  BY <1>1, <1>2, Zenon DEF TypeOK
<1>8. TypeOK'
  <2>1. \A b \in DOMAIN entries' : /\ b \in 0 .. NTraces - 1 /\ Base(b) = b
                                   /\ entries'[b] \in [count : Nat, slots : [Slots -> Nat \cup {None}]]
    <3>1. Base(i) \in 0 .. NTraces - 1
      BY <1>4, BoundsAssumption
    <3>2. QED
      BY <1>1, <1>4, <1>5, <1>6, <3>1, Zenon DEF TypeOK
  <2>2. \A b \in DOMAIN entries' : /\ b \in 0 .. NTraces - 1 /\ Base(b)' = b
                                   /\ entries'[b] \in [count : Nat, slots : [Slots' -> Nat \cup {None}]]
    BY <1>3, <2>1, Zenon
  <2>3. pc' \in [Getters -> {"idle", "filling", "counting", "wild"}]
    BY <1>1, <1>2 DEF TypeOK
  <2>4. idx' \in [Getters -> 0 .. NTraces - 1 \cup {None}]
    BY <1>1, <1>2 DEF TypeOK
  <2>5. gets' \in 0 .. MaxGets
    BY <1>1, <1>2, BoundsAssumption DEF TypeOK
  <2>6. doubled' \in BOOLEAN
    BY <1>2, Zenon
  <2>7. QED
    BY <1>1, <1>2, <2>2, <2>3, <2>4, <2>5, <2>6, Zenon DEF TypeOK, Base
<1>9. SlotsTrue'
  BY <1>1, <1>3, <1>5, <1>6, Zenon DEF SlotsTrue
<1>10. DrawnTrue'
  BY <1>1, <1>2, DrawingKept
<1>11. Working'
  <2>1. ASSUME NEW h \in Getters
        PROVE  /\ pc'[h] = "idle" => idx'[h] = None
               /\ Works(h)' => idx'[h] # None /\ Base(idx'[h]) \in DOMAIN entries'
               /\ pc'[h] = "counting" => entries'[Base(idx'[h])].slots[idx'[h] % Size] # None
    <3>1. CASE h = g
      <4>1. i # None
        BY <1>4 DEF None
      <4>2. QED
        BY <1>5, <1>7, <3>1, <4>1, Zenon
    <3>2. CASE h # g
      <4>1. idx'[h] = idx[h] /\ pc'[h] = pc[h]
        BY <1>7, <3>2
      <4>2. /\ pc[h] = "idle" => idx[h] = None
            /\ Works(h) => idx[h] # None /\ Base(idx[h]) \in DOMAIN entries
            /\ pc[h] = "counting" => entries[Base(idx[h])].slots[idx[h] % Size] # None
        BY <1>1, Zenon DEF Working, Has
      <4>3. Works(h)' <=> Works(h)
        BY <4>1, Zenon DEF Works
      <4>4. pc[h] = "counting" => Works(h)
        BY Zenon DEF Works
      <4>5. Base(idx[h]) \in DOMAIN entries =>
              /\ Base(idx[h]) \in DOMAIN entries'
              /\ entries'[Base(idx[h])] = entries[Base(idx[h])]
        BY <1>5, Zenon
      <4>6. QED
        BY <4>1, <4>2, <4>3, <4>4, <4>5, Zenon
    <3>3. QED
      BY <3>1, <3>2
  <2>2. QED
    BY <1>3, <2>1, Zenon DEF Working, Has, Base
<1>12. Undoubled'
  <2>0. SUFFICES ASSUME ~doubled' PROVE (Separate /\ Vacant /\ Counted /\ Signalled)'
    BY Zenon DEF Undoubled
  <2>1. ~doubled /\ \A h \in Getters : idx[h] # i
    BY <1>2, <2>0, Zenon
  <2>2. Separate /\ Vacant /\ Counted /\ Signalled
    BY <1>1, <2>1, Zenon DEF Undoubled
  <2>3. Separate'
    BY <1>7, <2>1, <2>2, Zenon DEF Separate
  <2>4. Vacant'
    <3>1. ASSUME NEW h \in Getters, pc'[h] = "filling"
          PROVE  entries'[Base(idx'[h])].slots[idx'[h] % Size] = None
      <4>1. CASE h = g
        <5>1. CASE Base(i) \in DOMAIN entries
          <6>1. entries[Base(i)].slots[i % Size] = None
            BY <1>2, <5>1, Zenon DEF Filled, Has
          <6>2. QED
            BY <1>5, <1>7, <4>1, <5>1, <6>1, Zenon
        <5>2. CASE Base(i) \notin DOMAIN entries
          BY <1>4, <1>5, <1>6, <1>7, <4>1, <5>2, Zenon
        <5>3. QED
          BY <5>1, <5>2
      <4>2. CASE h # g
        <5>1. idx'[h] = idx[h] /\ pc[h] = "filling"
          BY <1>7, <3>1, <4>2, Zenon
        <5>2. Works(h)
          BY <5>1, Zenon DEF Works
        <5>3. Base(idx[h]) \in DOMAIN entries
          BY <5>2, Worker
        <5>4. QED
          BY <1>5, <2>2, <5>1, <5>3, Zenon DEF Vacant
      <4>3. QED
        BY <4>1, <4>2
    <3>2. QED
      BY <1>3, <3>1, Zenon DEF Vacant, Base
  <2>5. \A b : Counting(b)' = Counting(b)
    <3>1. \A b : \A h \in Getters : pc'[h] = "counting" /\ idx'[h] # None /\ Base(idx'[h]) = b
                                      <=> pc[h] = "counting" /\ idx[h] # None /\ Base(idx[h]) = b
      <4>1. pc[g] # "counting" /\ pc'[g] # "counting"
        BY <1>2, <1>7
      <4>2. QED
        BY <1>7, <4>1, Zenon
    <3>2. QED
      BY <1>3, <3>1, Zenon DEF Counting, At, Base
  <2>6. Counted'
    <3>1. ASSUME NEW b \in DOMAIN entries
          PROVE  (entries[b].count)' + Cardinality(Counting(b)') = Cardinality(Occupied(b)')
      <4>1. Occupied(b)' = Occupied(b)
        BY <1>3, <1>5, Zenon DEF Occupied
      <4>2. QED
        BY <1>5, <2>2, <2>5, <4>1, Zenon DEF Counted
    <3>2. ASSUME Base(i) \notin DOMAIN entries
          PROVE  (entries[Base(i)].count)' + Cardinality(Counting(Base(i))') = Cardinality(Occupied(Base(i))')
      <4>1. Occupied(Base(i))' = {}
        BY <1>3, <1>5, <1>6, <3>2, Zenon DEF Occupied, Base
      <4>2. Counting(Base(i)) = {}
        <5>1. ASSUME NEW h \in Counting(Base(i)) PROVE FALSE
          <6>1. h \in Getters /\ Works(h) /\ Base(idx[h]) = Base(i)
            BY Zenon DEF Counting, At, Works
          <6>2. QED
            BY <3>2, <6>1, Worker, Zenon
        <5>2. QED
          BY <5>1
      <4>3. entries'[Base(i)].count = 0
        BY <1>5, <1>6, <3>2
      <4>4. (entries[Base(i)].count)' = 0 /\ Cardinality(Counting(Base(i))') = 0 /\ Cardinality(Occupied(Base(i))') = 0
        <5>1. Base(i)' = Base(i)
          BY <1>3
        <5>2. Counting(Base(i))' = {}
          BY <2>5, <4>2, <5>1, Zenon DEF Counting
        <5>3. QED
          BY <4>1, <4>3, <5>1, <5>2, FS_EmptySet, Zenon
      <4>5. QED
        BY <4>4
    <3>3. QED
      BY <1>3, <1>5, <3>1, <3>2, Zenon DEF Counted
  <2>7. Full' = Full
    <3>1. Base(i) \notin DOMAIN entries => entries'[Base(i)].count # Size
      BY <1>4, <1>5, <1>6
    <3>2. QED
      BY <1>3, <1>5, <3>1, Zenon DEF Full
  <2>8. Signalled'
    BY <1>2, <2>2, <2>7, Zenon DEF Signalled, Ended
  <2>9. QED
    BY <2>3, <2>4, <2>6, <2>8
<1>13. OnlyDoublingBreaks'
  <2>1. \A h \in Getters : pc'[h] = "wild" => pc[h] = "wild"
    BY <1>7, Zenon
  <2>2. QED
    BY <1>1, <1>2, <2>1, Zenon DEF OnlyDoublingBreaks, Ended
<1>14. QED
  BY <1>8, <1>9, <1>10, <1>11, <1>12, <1>13, Zenon DEF IndInv

\* A filled slot is counted by who filled it.
LEMMA FillKeeps ==
    ASSUME IndInv, NEW g \in Getters, Fill(g)
    PROVE  IndInv'
<1>1. TypeOK /\ SlotsTrue /\ DrawnTrue /\ Working /\ Undoubled /\ OnlyDoublingBreaks
  BY Zenon DEF IndInv
<1>2. /\ layout' = layout /\ drawing' = drawing /\ status' = status /\ signals' = signals
      /\ displayed' = displayed /\ close' = close /\ leaked' = leaked /\ faults' = faults
      /\ unstarted' = unstarted /\ gets' = gets /\ doubled' = doubled
      /\ pc[g] = "filling" /\ pc' = [pc EXCEPT ![g] = "counting"]
      /\ idx' = [idx EXCEPT ![g] = idx[g]]
      /\ entries' = [entries EXCEPT ![Base(idx[g])].slots[idx[g] % Size] = idx[g]]
  BY DEF Fill, Moves
<1>3. /\ Size' = Size /\ Slots' = Slots /\ \A j : Base(j)' = Base(j)
  BY <1>2, SameLayout
<1>4. Works(g)
  BY <1>2, Zenon DEF Works
<1>5. PICK i \in 0 .. NTraces - 1, b \in DOMAIN entries, s \in Slots :
        i = idx[g] /\ b = Base(i) /\ s = i % Size /\ i = b + s /\ i \in Nat
  BY <1>4, Worker, Zenon
<1>6. idx' = idx /\ pc'[g] = "counting" /\ \A h \in Getters : h # g => pc'[h] = pc[h]
  BY <1>1, <1>2 DEF TypeOK
<1>7. /\ entries[b] \in [count : Nat, slots : [Slots -> Nat \cup {None}]]
      /\ entries' = [entries EXCEPT ![b].slots[s] = i]
  <2>1. entries[b] \in [count : Nat, slots : [Slots -> Nat \cup {None}]]
    BY <1>1, Zenon DEF TypeOK
  <2>2. QED
    BY <1>2, <1>5, <2>1, Zenon
<1>8. /\ DOMAIN entries' = DOMAIN entries /\ \A c \in DOMAIN entries : c # b => entries'[c] = entries[c]
      /\ entries'[b] \in [count : Nat, slots : [Slots -> Nat \cup {None}]]
      /\ entries'[b].count = entries[b].count /\ entries'[b].slots[s] = i
      /\ \A q \in Slots : q # s => entries'[b].slots[q] = entries[b].slots[q]
  BY <1>5, <1>7
<1>9. i # None
  BY <1>5 DEF None
<1>10. TypeOK'
  <2>1. \A c \in DOMAIN entries' : /\ c \in 0 .. NTraces - 1 /\ Base(c) = c
                                   /\ entries'[c] \in [count : Nat, slots : [Slots -> Nat \cup {None}]]
    BY <1>1, <1>8, Zenon DEF TypeOK
  <2>2. \A c \in DOMAIN entries' : /\ c \in 0 .. NTraces - 1 /\ Base(c)' = c
                                   /\ entries'[c] \in [count : Nat, slots : [Slots' -> Nat \cup {None}]]
    BY <1>3, <2>1, Zenon
  <2>3. pc' \in [Getters -> {"idle", "filling", "counting", "wild"}]
    BY <1>1, <1>2 DEF TypeOK
  <2>4. QED
    BY <1>1, <1>2, <1>6, <2>2, <2>3, Zenon DEF TypeOK, Base
<1>11. SlotsTrue'
  <2>1. ASSUME NEW c \in DOMAIN entries, NEW q \in Slots PROVE entries'[c].slots[q] \in {None, c + q}
    <3>1. entries[c].slots[q] \in {None, c + q}
      BY <1>1, Zenon DEF SlotsTrue
    <3>2. QED
      BY <1>5, <1>8, <3>1
  <2>2. QED
    BY <1>3, <1>8, <2>1, Zenon DEF SlotsTrue
<1>12. DrawnTrue'
  BY <1>1, <1>2, DrawingKept
\* Nothing that was filled is emptied.
<1>13. \A c \in DOMAIN entries, q \in Slots : entries[c].slots[q] # None => entries'[c].slots[q] # None
  BY <1>8, <1>9, Zenon
<1>14. Working'
  <2>1. ASSUME NEW h \in Getters
        PROVE  /\ pc'[h] = "idle" => idx[h] = None
               /\ Works(h)' => idx[h] # None /\ Base(idx[h]) \in DOMAIN entries
               /\ pc'[h] = "counting" => entries'[Base(idx[h])].slots[idx[h] % Size] # None
    <3>1. CASE h = g
      BY <1>5, <1>6, <1>8, <1>9, <3>1, Zenon
    <3>2. CASE h # g
      <4>1. pc'[h] = pc[h] /\ (Works(h)' <=> Works(h))
        BY <1>6, <3>2, Zenon DEF Works
      <4>2. /\ pc[h] = "idle" => idx[h] = None
            /\ Works(h) => idx[h] # None /\ Base(idx[h]) \in DOMAIN entries
            /\ pc[h] = "counting" => entries[Base(idx[h])].slots[idx[h] % Size] # None
        BY <1>1, Zenon DEF Working, Has
      <4>3. pc[h] = "counting" => Base(idx[h]) \in DOMAIN entries /\ idx[h] % Size \in Slots
        <5>1. pc[h] = "counting" => Works(h)
          BY Zenon DEF Works
        <5>2. QED
          BY <5>1, Worker, Zenon
      <4>4. QED
        BY <1>13, <4>1, <4>2, <4>3, Zenon
    <3>3. QED
      BY <3>1, <3>2
  <2>2. QED
    BY <1>3, <1>6, <1>8, <2>1, Zenon DEF Working, Has, Base
<1>15. Undoubled'
  <2>0. SUFFICES ASSUME ~doubled' PROVE (Separate /\ Vacant /\ Counted /\ Signalled)'
    BY Zenon DEF Undoubled
  <2>1. ~doubled
    BY <1>2, <2>0
  <2>2. Separate /\ Vacant /\ Counted /\ Signalled
    BY <1>1, <2>1, Zenon DEF Undoubled
  <2>3. Separate'
    BY <1>6, <2>2, Zenon DEF Separate
  <2>4. Vacant'
    <3>1. ASSUME NEW h \in Getters, pc'[h] = "filling"
          PROVE  entries'[Base(idx[h])].slots[idx[h] % Size] = None
      <4>1. h # g /\ pc[h] = "filling"
        BY <1>6, <3>1
      <4>2. Works(h)
        BY <4>1, Zenon DEF Works
      <4>3. PICK j \in 0 .. NTraces - 1, c \in DOMAIN entries, q \in Slots :
              j = idx[h] /\ c = Base(j) /\ q = j % Size /\ j = c + q
        BY <4>2, Worker, Zenon
      <4>4. entries[c].slots[q] = None
        BY <2>2, <4>1, <4>3, Zenon DEF Vacant
      <4>5. j # i
        <5>1. j # None
          BY <4>3, BoundsAssumption DEF None
        <5>2. QED
          BY <1>5, <2>2, <4>1, <4>3, <5>1, Zenon DEF Separate
      <4>6. c # b \/ q # s
        BY <1>5, <4>3, <4>5, Zenon
      <4>7. QED
        BY <1>8, <4>3, <4>4, <4>6, Zenon
    <3>2. QED
      BY <1>3, <1>6, <3>1, Zenon DEF Vacant, Base
  <2>5. \A c : c # b => Counting(c)' = Counting(c)
    <3>1. \A c : c # b => \A h \in Getters : pc'[h] = "counting" /\ idx[h] # None /\ Base(idx[h]) = c
                                      <=> pc[h] = "counting" /\ idx[h] # None /\ Base(idx[h]) = c
      BY <1>5, <1>6, Zenon
    <3>2. QED
      BY <1>3, <1>6, <3>1, Zenon DEF Counting, At, Base
  <2>6. Counting(b)' = Counting(b) \cup {g} /\ g \notin Counting(b)
    <3>1. \A h \in Getters : pc'[h] = "counting" /\ idx[h] # None /\ Base(idx[h]) = b
                                <=> h = g \/ (pc[h] = "counting" /\ idx[h] # None /\ Base(idx[h]) = b)
      BY <1>5, <1>6, <1>9, Zenon
    <3>2. g \notin Counting(b)
      BY <1>2, Zenon DEF Counting
    <3>3. \A h \in Getters : h \in Counting(b)' <=> h = g \/ h \in Counting(b)
      BY <1>3, <1>6, <3>1, Zenon DEF Counting, At, Base
    <3>4. Counting(b)' \subseteq Getters /\ Counting(b) \subseteq Getters
      BY Zenon DEF Counting
    <3>5. QED
      BY <3>2, <3>3, <3>4
  <2>7. Occupied(b)' = Occupied(b) \cup {s} /\ s \notin Occupied(b)
    <3>1. entries[b].slots[s] = None
      BY <1>2, <1>5, <2>2, Zenon DEF Vacant
    <3>2. \A q \in Slots : q \in Occupied(b)' <=> q = s \/ q \in Occupied(b)
      BY <1>3, <1>8, <1>9, Zenon DEF Occupied
    <3>3. Occupied(b)' \subseteq Slots /\ Occupied(b) \subseteq Slots /\ s \notin Occupied(b)
      BY <1>3, <3>1, Zenon DEF Occupied
    <3>4. QED
      BY <3>2, <3>3
  <2>8. Counted'
    <3>1. ASSUME NEW c \in DOMAIN entries
          PROVE  (entries[c].count)' + Cardinality(Counting(c)') = Cardinality(Occupied(c)')
      <4>1. entries[c].count + Cardinality(Counting(c)) = Cardinality(Occupied(c))
        BY <2>2, Zenon DEF Counted
      <4>2. CASE c # b
        <5>1. Occupied(c)' = Occupied(c)
          BY <1>3, <1>8, <4>2, Zenon DEF Occupied
        <5>2. QED
          BY <1>8, <2>5, <4>1, <4>2, <5>1, Zenon
      <4>3. CASE c = b
        <5>1. /\ Cardinality(Counting(b)') = Cardinality(Counting(b)) + 1
              /\ Cardinality(Occupied(b)') = Cardinality(Occupied(b)) + 1
          BY <1>1, <2>6, <2>7, Finite, FS_AddElement, Zenon
        <5>2. /\ Cardinality(Counting(b)) \in Nat /\ Cardinality(Occupied(b)) \in Nat
              /\ entries[b].count \in Nat
          BY <1>1, <1>7, Finite, FS_CardinalityType
        <5>3. QED
          BY <1>8, <4>1, <4>3, <5>1, <5>2
      <4>4. QED
        BY <4>2, <4>3
    <3>2. QED
      BY <1>8, <3>1, Zenon DEF Counted
  <2>9. Full' = Full
    BY <1>3, <1>8, Zenon DEF Full
  <2>10. Signalled'
    BY <1>2, <2>2, <2>9, Zenon DEF Signalled, Ended
  <2>11. QED
    BY <2>3, <2>4, <2>8, <2>10
<1>16. OnlyDoublingBreaks'
  <2>1. \A h \in Getters : pc'[h] = "wild" => pc[h] = "wild"
    BY <1>6
  <2>2. doubled' <=> doubled
    BY <1>2
  <2>3. QED
    BY <1>1, <1>2, <2>1, <2>2, Zenon DEF OnlyDoublingBreaks, Ended
<1>17. QED
  BY <1>10, <1>11, <1>12, <1>14, <1>15, <1>16, Zenon DEF IndInv

\* A failed fetch leaves the slot empty and the entry as it is.
LEMMA FillFailsKeeps ==
    ASSUME IndInv, NEW g \in Getters, FillFails(g)
    PROVE  IndInv'
<1>1. TypeOK /\ SlotsTrue /\ DrawnTrue /\ Working /\ Undoubled /\ OnlyDoublingBreaks
  BY Zenon DEF IndInv
<1>2. /\ layout' = layout /\ drawing' = drawing /\ status' = status /\ signals' = signals
      /\ displayed' = displayed /\ close' = close /\ leaked' = leaked /\ entries' = entries
      /\ unstarted' = unstarted /\ gets' = gets /\ doubled' = doubled
      /\ faults < MaxFaults /\ faults' = faults + 1
      /\ pc[g] = "filling" /\ pc' = [pc EXCEPT ![g] = "idle"] /\ idx' = [idx EXCEPT ![g] = None]
  BY DEF FillFails, Moves, Fault
<1>3. /\ Size' = Size /\ Slots' = Slots /\ \A j : Base(j)' = Base(j)
  BY <1>2, SameLayout
<1>4. /\ idx'[g] = None /\ pc'[g] = "idle"
      /\ \A h \in Getters : h # g => idx'[h] = idx[h] /\ pc'[h] = pc[h]
  BY <1>1, <1>2 DEF TypeOK
<1>5. TypeOK'
  <2>1. pc' \in [Getters -> {"idle", "filling", "counting", "wild"}]
    BY <1>1, <1>2 DEF TypeOK
  <2>2. idx' \in [Getters -> 0 .. NTraces - 1 \cup {None}]
    BY <1>1, <1>2 DEF TypeOK
  <2>3. faults' \in 0 .. MaxFaults
    BY <1>1, <1>2, BoundsAssumption DEF TypeOK
  <2>4. QED
    BY <1>1, <1>2, <1>3, <2>1, <2>2, <2>3, Zenon DEF TypeOK, Base
<1>6. SlotsTrue'
  BY <1>1, <1>2, <1>3, Zenon DEF SlotsTrue
<1>7. DrawnTrue'
  BY <1>1, <1>2, DrawingKept
<1>8. Working'
  BY <1>1, <1>2, <1>3, <1>4 DEF Working, Works, Has, Base
<1>9. Undoubled'
  <2>0. SUFFICES ASSUME ~doubled' PROVE (Separate /\ Vacant /\ Counted /\ Signalled)'
    BY Zenon DEF Undoubled
  <2>1. ~doubled
    BY <1>2, <2>0
  <2>2. Separate /\ Vacant /\ Counted /\ Signalled
    BY <1>1, <2>1, Zenon DEF Undoubled
  <2>3. Separate'
    BY <1>4, <2>2, Zenon DEF Separate
  <2>4. Vacant'
    <3>1. ASSUME NEW h \in Getters, pc'[h] = "filling"
          PROVE  entries[Base(idx'[h])].slots[idx'[h] % Size] = None
      <4>1. h # g
        BY <1>4, <3>1
      <4>2. QED
        BY <1>4, <2>2, <3>1, <4>1, Zenon DEF Vacant
    <3>2. QED
      BY <1>2, <1>3, <3>1, Zenon DEF Vacant, Base
  <2>5. \A c : Counting(c)' = Counting(c)
    <3>1. \A c : \A h \in Getters : pc'[h] = "counting" /\ idx'[h] # None /\ Base(idx'[h]) = c
                                      <=> pc[h] = "counting" /\ idx[h] # None /\ Base(idx[h]) = c
      <4>1. pc[g] # "counting" /\ pc'[g] # "counting"
        BY <1>2, <1>4
      <4>2. QED
        BY <1>4, <4>1, Zenon
    <3>2. QED
      BY <1>3, <3>1, Zenon DEF Counting, At, Base
  <2>6. Counted'
    BY <1>2, <1>3, <2>2, <2>5, Zenon DEF Counted, Occupied
  <2>7. Signalled'
    BY <1>2, <1>3, <2>2, Zenon DEF Signalled, Full, Ended
  <2>8. QED
    BY <2>3, <2>4, <2>6, <2>7
<1>10. OnlyDoublingBreaks'
  <2>1. \A h \in Getters : pc'[h] = "wild" => pc[h] = "wild"
    BY <1>4
  <2>2. doubled' <=> doubled
    BY <1>2
  <2>3. QED
    BY <1>1, <1>2, <2>1, <2>2, Zenon DEF OnlyDoublingBreaks, Ended
<1>11. QED
  BY <1>5, <1>6, <1>7, <1>8, <1>9, <1>10, Zenon DEF IndInv

\* Who counts the last trace of an entry signals it, once.
LEMMA CountKeeps ==
    ASSUME IndInv, NEW g \in Getters, Count(g)
    PROVE  IndInv'
<1>1. TypeOK /\ SlotsTrue /\ DrawnTrue /\ Working /\ Undoubled /\ OnlyDoublingBreaks
  BY Zenon DEF IndInv
<1>2. /\ layout' = layout /\ drawing' = drawing /\ status' = status /\ close' = close
      /\ unstarted' = unstarted /\ gets' = gets /\ doubled' = doubled
      /\ pc[g] = "counting" /\ pc' = [pc EXCEPT ![g] = "idle"] /\ idx' = [idx EXCEPT ![g] = None]
      /\ entries' = [entries EXCEPT ![Base(idx[g])].count = @ + 1]
      /\ leaked' \in BOOLEAN /\ faults' \in 0 .. MaxFaults
  <2>1. /\ layout' = layout /\ drawing' = drawing /\ status' = status /\ close' = close
        /\ unstarted' = unstarted /\ gets' = gets /\ doubled' = doubled
        /\ pc[g] = "counting" /\ pc' = [pc EXCEPT ![g] = "idle"] /\ idx' = [idx EXCEPT ![g] = None]
    BY DEF Count, Moves
  <2>2. entries' = [entries EXCEPT ![Base(idx[g])].count = @ + 1]
    BY Zenon DEF Count
  <2>3. (leaked' = leaked /\ faults' = faults) \/ (faults < MaxFaults /\ faults' = faults + 1 /\ leaked' = TRUE)
    BY DEF Count, Copy, Fault
  <2>4. leaked' \in BOOLEAN
    BY <1>1, <2>3 DEF TypeOK
  <2>5. faults' \in 0 .. MaxFaults
    BY <1>1, <2>3, BoundsAssumption DEF TypeOK
  <2>6. QED
    BY <2>1, <2>2, <2>4, <2>5
<1>3. /\ Size' = Size /\ Slots' = Slots /\ \A j : Base(j)' = Base(j)
  BY <1>2, SameLayout
<1>4. /\ idx'[g] = None /\ pc'[g] = "idle"
      /\ \A h \in Getters : h # g => idx'[h] = idx[h] /\ pc'[h] = pc[h]
  BY <1>1, <1>2 DEF TypeOK
<1>5. Works(g)
  BY <1>2, Zenon DEF Works
<1>6. PICK b \in DOMAIN entries : b = Base(idx[g]) /\ At(g, b)
  BY <1>5, Worker, Zenon
<1>7. /\ entries[b] \in [count : Nat, slots : [Slots -> Nat \cup {None}]]
      /\ entries' = [entries EXCEPT ![b].count = @ + 1]
      /\ Completes(g) <=> entries[b].count + 1 = Size
  BY <1>1, <1>2, <1>6, Zenon DEF TypeOK, Completes
<1>8. /\ DOMAIN entries' = DOMAIN entries /\ \A c \in DOMAIN entries : c # b => entries'[c] = entries[c]
      /\ entries'[b] \in [count : Nat, slots : [Slots -> Nat \cup {None}]]
      /\ entries'[b].count = entries[b].count + 1 /\ entries'[b].slots = entries[b].slots
  BY <1>7
<1>9. /\ displayed' \in {b, displayed}
      /\ signals' = IF Completes(g) /\ status # "failed" THEN signals + 1 ELSE signals
  BY <1>6 DEF Count
<1>10. TypeOK'
  <2>1. \A c \in DOMAIN entries' : /\ c \in 0 .. NTraces - 1 /\ Base(c) = c
                                   /\ entries'[c] \in [count : Nat, slots : [Slots -> Nat \cup {None}]]
    BY <1>1, <1>8, Zenon DEF TypeOK
  <2>2. \A c \in DOMAIN entries' : /\ c \in 0 .. NTraces - 1 /\ Base(c)' = c
                                   /\ entries'[c] \in [count : Nat, slots : [Slots' -> Nat \cup {None}]]
    BY <1>3, <2>1, Zenon
  <2>3. pc' \in [Getters -> {"idle", "filling", "counting", "wild"}]
    BY <1>1, <1>2 DEF TypeOK
  <2>4. idx' \in [Getters -> 0 .. NTraces - 1 \cup {None}]
    BY <1>1, <1>2 DEF TypeOK
  <2>5. displayed' \in Nat \cup {None}
    <3>1. b \in Nat
      BY <1>1, BoundsAssumption DEF TypeOK
    <3>2. QED
      BY <1>1, <1>9, <3>1 DEF TypeOK
  <2>6. signals' \in Nat
    BY <1>1, <1>9 DEF TypeOK
  <2>7. QED
    BY <1>1, <1>2, <2>2, <2>3, <2>4, <2>5, <2>6, Zenon DEF TypeOK, Base
<1>11. \A c \in DOMAIN entries : entries'[c].slots = entries[c].slots
  BY <1>8, Zenon
<1>12. SlotsTrue'
  BY <1>1, <1>3, <1>8, <1>11, Zenon DEF SlotsTrue
<1>13. DrawnTrue'
  BY <1>1, <1>2, DrawingKept
<1>14. Working'
  <2>1. ASSUME NEW h \in Getters
        PROVE  /\ pc'[h] = "idle" => idx'[h] = None
               /\ Works(h)' => idx'[h] # None /\ Base(idx'[h]) \in DOMAIN entries
               /\ pc'[h] = "counting" => entries'[Base(idx'[h])].slots[idx'[h] % Size] # None
    <3>1. CASE h = g
      BY <1>4, <3>1 DEF Works
    <3>2. CASE h # g
      <4>1. idx'[h] = idx[h] /\ pc'[h] = pc[h] /\ (Works(h)' <=> Works(h))
        BY <1>4, <3>2, Zenon DEF Works
      <4>2. /\ pc[h] = "idle" => idx[h] = None
            /\ Works(h) => idx[h] # None /\ Base(idx[h]) \in DOMAIN entries
            /\ pc[h] = "counting" => entries[Base(idx[h])].slots[idx[h] % Size] # None
        BY <1>1, Zenon DEF Working, Has
      <4>3. pc[h] = "counting" => Works(h)
        BY Zenon DEF Works
      <4>4. QED
        BY <1>11, <4>1, <4>2, <4>3, Zenon
    <3>3. QED
      BY <3>1, <3>2
  <2>2. QED
    BY <1>3, <1>8, <2>1, Zenon DEF Working, Has, Base
<1>15. Undoubled'
  <2>0. SUFFICES ASSUME ~doubled' PROVE (Separate /\ Vacant /\ Counted /\ Signalled)'
    BY Zenon DEF Undoubled
  <2>1. ~doubled
    BY <1>2, <2>0
  <2>2. Separate /\ Vacant /\ Counted /\ Signalled
    BY <1>1, <2>1, Zenon DEF Undoubled
  <2>3. Separate'
    BY <1>4, <2>2, Zenon DEF Separate
  <2>4. Vacant'
    <3>1. ASSUME NEW h \in Getters, pc'[h] = "filling"
          PROVE  entries'[Base(idx'[h])].slots[idx'[h] % Size] = None
      <4>1. h # g /\ idx'[h] = idx[h] /\ pc[h] = "filling"
        BY <1>4, <3>1
      <4>2. Works(h)
        BY <4>1, Zenon DEF Works
      <4>3. Base(idx[h]) \in DOMAIN entries
        BY <4>2, Worker
      <4>4. QED
        BY <1>11, <2>2, <4>1, <4>3, Zenon DEF Vacant
    <3>2. QED
      BY <1>3, <3>1, Zenon DEF Vacant, Base
  <2>5. \A c : c # b => Counting(c)' = Counting(c)
    <3>1. \A c : c # b => \A h \in Getters : pc'[h] = "counting" /\ idx'[h] # None /\ Base(idx'[h]) = c
                                      <=> pc[h] = "counting" /\ idx[h] # None /\ Base(idx[h]) = c
      <4>1. pc'[g] # "counting"
        BY <1>4
      <4>2. QED
        BY <1>4, <1>6, <4>1, Zenon
    <3>2. QED
      BY <1>3, <3>1, Zenon DEF Counting, At, Base
  <2>6. Counting(b)' = Counting(b) \ {g} /\ g \in Counting(b)
    <3>1. \A h \in Getters : h # g =>
            (pc'[h] = "counting" /\ idx'[h] # None /\ Base(idx'[h]) = b
               <=> pc[h] = "counting" /\ idx[h] # None /\ Base(idx[h]) = b)
      BY <1>4, Zenon
    <3>2. g \in Counting(b)
      BY <1>2, <1>6, Zenon DEF Counting
    <3>3. \A h \in Getters : h # g => (h \in Counting(b)' <=> h \in Counting(b))
      BY <1>3, <3>1, Zenon DEF Counting, At, Base
    <3>4. g \notin Counting(b)'
      BY <1>4 DEF Counting
    <3>5. Counting(b)' \subseteq Getters /\ Counting(b) \subseteq Getters
      BY Zenon DEF Counting
    <3>6. QED
      BY <3>2, <3>3, <3>4, <3>5
  <2>7. \A c \in DOMAIN entries : Occupied(c)' = Occupied(c)
    BY <1>3, <1>11, Zenon DEF Occupied
  <2>8. Cardinality(Counting(b)') = Cardinality(Counting(b)) - 1
    BY <1>1, <2>6, Finite, FS_RemoveElement, Zenon
  <2>9. PICK k \in Nat, m \in Nat, n \in Nat :
          /\ k = entries[b].count /\ m = Cardinality(Counting(b)) /\ n = Cardinality(Occupied(b))
          /\ n <= Size /\ m # 0
    <3>1. Cardinality(Counting(b)) # 0
      BY <1>1, <2>6, Finite, FS_EmptySet
    <3>2. Cardinality(Occupied(b)) \in Nat /\ Cardinality(Occupied(b)) <= Size
      <4>1. Size \in Nat
        BY <1>1, IndexParts DEF TypeOK
      <4>2. QED
        BY <1>1, <4>1, Finite
    <3>3. Cardinality(Counting(b)) \in Nat /\ entries[b].count \in Nat
      BY <1>1, <1>7, Finite
    <3>4. QED
      BY <3>1, <3>2, <3>3
  <2>10. k + m = n
    BY <2>2, <2>9, Zenon DEF Counted
  <2>11. Counted'
    <3>1. ASSUME NEW c \in DOMAIN entries
          PROVE  (entries[c].count)' + Cardinality(Counting(c)') = Cardinality(Occupied(c)')
      <4>1. CASE c # b
        BY <1>8, <2>2, <2>5, <2>7, <4>1, Zenon DEF Counted
      <4>2. CASE c = b
        <5>1. (k + 1) + (m - 1) = n
          BY <2>10
        <5>2. QED
          BY <1>8, <2>7, <2>8, <2>9, <4>2, <5>1, Zenon
      <4>3. QED
        BY <4>1, <4>2
    <3>2. QED
      BY <1>8, <3>1, Zenon DEF Counted
  <2>12. b \notin Full
    <3>1. k # Size
      <4>1. Size \in Nat
        BY <1>1, IndexParts DEF TypeOK
      <4>2. QED
        BY <2>9, <2>10, <4>1
    <3>2. QED
      BY <2>9, <3>1, Zenon DEF Full
  <2>13. Signalled'
    <3>0. SUFFICES ASSUME ~Ended' PROVE signals' = Cardinality(Full')
      BY Zenon DEF Signalled
    <3>e. ~Ended /\ status # "failed"
      BY <1>2, <3>0 DEF Ended
    <3>1. status # "failed" /\ signals = Cardinality(Full)
      BY <2>2, <3>e, Zenon DEF Signalled
    <3>2. CASE Completes(g)
      <4>1. Full' = Full \cup {b}
        BY <1>3, <1>7, <1>8, <3>2, Zenon DEF Full
      <4>2. Cardinality(Full \cup {b}) = Cardinality(Full) + 1
        BY <1>1, <2>12, Finite, FS_AddElement, Zenon
      <4>3. QED
        BY <1>9, <3>1, <3>2, <4>1, <4>2, Zenon
    <3>3. CASE ~Completes(g)
      <4>1. Full' = Full
        BY <1>3, <1>7, <1>8, <2>12, <3>3, Zenon DEF Full
      <4>2. QED
        BY <1>9, <3>1, <3>3, <4>1, Zenon
    <3>4. QED
      BY <3>2, <3>3
  <2>14. QED
    BY <2>3, <2>4, <2>11, <2>13
<1>16. OnlyDoublingBreaks'
  <2>1. \A h \in Getters : pc'[h] = "wild" => pc[h] = "wild"
    BY <1>4
  <2>2. doubled' <=> doubled
    BY <1>2
  <2>3. QED
    BY <1>1, <1>2, <2>1, <2>2, Zenon DEF OnlyDoublingBreaks, Ended
<1>17. QED
  BY <1>10, <1>12, <1>13, <1>14, <1>15, <1>16, Zenon DEF IndInv

\* Without an entry that is full, or with one that lacks a trace, the draw thread gives up; so it
\* does only after a doubling.
LEMMA GivesUpDoubled ==
    ASSUME IndInv, status = "drawing", signals > 0,
           \/ Full = {}
           \/ \E b \in Full : \E cell \in DOMAIN Plotted : entries[b].slots[Plotted[cell]] = None
    PROVE  doubled
<1>1. TypeOK /\ Undoubled
  BY Zenon DEF IndInv
<1>2. SUFFICES ASSUME ~doubled PROVE FALSE
  OBVIOUS
<1>3. CASE Full = {}
  <2>1. signals = Cardinality(Full)
    BY <1>1, <1>2 DEF Undoubled, Signalled, Ended
  <2>2. QED
    BY <1>3, <2>1, FS_EmptySet
<1>4. ASSUME NEW b \in Full, NEW cell \in DOMAIN Plotted, entries[b].slots[Plotted[cell]] = None PROVE FALSE
  <2>1. cell \in Cells
    BY Zenon DEF Plotted, Cells
  <2>2. Plotted[cell] \in Slots
    BY <1>1, <2>1, PlottedIs, Zenon DEF TypeOK
  <2>3. QED
    BY <1>2, <1>4, <2>2, FullMeans, Zenon
<1>5. QED
  BY <1>3, <1>4

\* The entry that is drawn, or given up, is the first full one.
LEMMA DrawKeeps ==
    ASSUME IndInv, Draw
    PROVE  IndInv'
<1>1. TypeOK /\ SlotsTrue /\ DrawnTrue /\ Working /\ Undoubled /\ OnlyDoublingBreaks
  BY Zenon DEF IndInv
<1>2. /\ layout' = layout /\ displayed' = displayed /\ close' = close /\ gets' = gets
      /\ doubled' = doubled /\ leaked' = leaked /\ faults' = faults /\ unstarted' = unstarted
      /\ status = "drawing" /\ signals > 0 /\ signals' = signals - 1
  BY DEF Draw, unchangedByDraw
<1>3. /\ Size' = Size /\ Slots' = Slots /\ \A j : Base(j)' = Base(j)
  BY <1>2, SameLayout
<1>4. signals' \in Nat /\ (doubled' <=> doubled)
  BY <1>1, <1>2 DEF TypeOK
<1>5. CASE Full = {}
  <2>1. /\ status' = "ending" /\ entries' = entries /\ drawing' = drawing /\ pc' = pc /\ idx' = idx
    BY <1>5 DEF Draw, GiveUp
  <2>2. doubled'
    BY <1>2, <1>4, <1>5, GivesUpDoubled
  <2>3. TypeOK'
    BY <1>1, <1>2, <1>3, <1>4, <2>1, Zenon DEF TypeOK, Base
  <2>4. SlotsTrue'
    BY <1>1, <1>3, <2>1, Zenon DEF SlotsTrue
  <2>5. DrawnTrue'
    BY <1>1, <1>2, <2>1, DrawingKept
  <2>6. Working'
    BY <1>1, <1>3, <2>1, Zenon DEF Working, Works, Has, Base
  <2>7. Undoubled' /\ OnlyDoublingBreaks'
    BY <2>2, Zenon DEF Undoubled, OnlyDoublingBreaks
  <2>8. QED
    BY <2>3, <2>4, <2>5, <2>6, <2>7, Zenon DEF IndInv
<1>6. CASE Full # {}
  <2>1. PICK b \in Full : b = Min(Full)
    BY <1>1, <1>6, FirstFull
  <2>2. DrawEntry(b)
    BY <1>6, <2>1 DEF Draw
  <2>3. b \in DOMAIN entries /\ b \in Nat
    BY <1>1, BoundsAssumption DEF TypeOK, Full
  <2>4. entries' = Restrict(entries, DOMAIN entries \ {b}) /\ status' \in {status, "ending"}
    BY <2>2 DEF DrawEntry, GiveUpOn, Show, Remove
  <2>5. /\ DOMAIN entries' = DOMAIN entries \ {b}
        /\ \A c \in DOMAIN entries' : c \in DOMAIN entries /\ entries'[c] = entries[c]
    BY <2>4, Zenon DEF Restrict
  <2>6. SlotsTrue'
    BY <1>1, <1>3, <2>5, Zenon DEF SlotsTrue
  <2>7. \A c \in DOMAIN entries' : /\ c \in 0 .. NTraces - 1 /\ Base(c)' = c
                                   /\ entries'[c] \in [count : Nat, slots : [Slots' -> Nat \cup {None}]]
    BY <1>1, <1>3, <2>5, Zenon DEF TypeOK
  <2>8. CASE \E cell \in DOMAIN Plotted : entries[b].slots[Plotted[cell]] = None
    <3>1. /\ status' = "ending" /\ drawing' = drawing
          /\ pc' = [g \in Getters |-> IF At(g, b) THEN "idle" ELSE pc[g]]
          /\ idx' = [g \in Getters |-> IF At(g, b) THEN None ELSE idx[g]]
      BY <2>2, <2>8, Zenon DEF DrawEntry, GiveUpOn
    <3>2. doubled'
      BY <1>2, <1>4, <2>8, GivesUpDoubled
    <3>3. TypeOK'
      <4>1. pc' \in [Getters -> {"idle", "filling", "counting", "wild"}]
        BY <1>1, <3>1 DEF TypeOK
      <4>2. idx' \in [Getters -> 0 .. NTraces - 1 \cup {None}]
        BY <1>1, <3>1 DEF TypeOK
      <4>3. QED
        BY <1>1, <1>2, <1>4, <2>7, <3>1, <4>1, <4>2, Zenon DEF TypeOK, Base
    <3>4. DrawnTrue'
      BY <1>1, <1>2, <3>1, DrawingKept
    <3>5. Working'
      <4>1. ASSUME NEW h \in Getters
            PROVE  /\ pc'[h] = "idle" => idx'[h] = None
                   /\ Works(h)' => idx'[h] # None /\ Base(idx'[h]) \in DOMAIN entries'
                   /\ pc'[h] = "counting" => entries'[Base(idx'[h])].slots[idx'[h] % Size] # None
        <5>1. CASE At(h, b)
          <6>1. pc'[h] = "idle" /\ idx'[h] = None
            BY <3>1, <5>1, Zenon
          <6>2. QED
            BY <6>1 DEF Works
        <5>2. CASE ~At(h, b)
          <6>1. pc'[h] = pc[h] /\ idx'[h] = idx[h] /\ (Works(h)' <=> Works(h))
            BY <3>1, <5>2, Zenon DEF Works
          <6>2. /\ pc[h] = "idle" => idx[h] = None
                /\ Works(h) => idx[h] # None /\ Base(idx[h]) \in DOMAIN entries
                /\ pc[h] = "counting" => entries[Base(idx[h])].slots[idx[h] % Size] # None
            BY <1>1, Zenon DEF Working, Has
          <6>3. Works(h) => Base(idx[h]) \in DOMAIN entries'
            BY <2>5, <5>2, <6>2, Zenon DEF At
          <6>4. pc[h] = "counting" => Works(h)
            BY Zenon DEF Works
          <6>5. QED
            BY <2>5, <6>1, <6>2, <6>3, <6>4, Zenon
        <5>3. QED
          BY <5>1, <5>2
      <4>2. QED
        BY <1>3, <4>1, Zenon DEF Working, Has, Base
    <3>6. Undoubled' /\ OnlyDoublingBreaks'
      BY <3>2, Zenon DEF Undoubled, OnlyDoublingBreaks
    <3>7. QED
      BY <2>6, <3>3, <3>4, <3>5, <3>6, Zenon DEF IndInv
  <2>9. CASE ~ \E cell \in DOMAIN Plotted : entries[b].slots[Plotted[cell]] = None
    <3>1. /\ status' = status /\ idx' = idx
          /\ drawing' = [base |-> b, shown |-> [cell \in DOMAIN Plotted |-> entries[b].slots[Plotted[cell]]]]
          /\ pc' = [g \in Getters |-> IF At(g, b) THEN "wild" ELSE pc[g]]
      BY <2>2, <2>9, Zenon DEF DrawEntry, Show
    <3>2. TypeOK'
      <4>1. pc' \in [Getters -> {"idle", "filling", "counting", "wild"}]
        BY <1>1, <3>1 DEF TypeOK
      <4>2. QED
        BY <1>1, <1>2, <1>4, <2>7, <3>1, <4>1, Zenon DEF TypeOK, Base
    <3>3. DrawnTrue'
      <4>1. DOMAIN Plotted = Cells
        BY Zenon DEF Plotted, Cells
      <4>2. ASSUME NEW cell \in Cells PROVE entries[b].slots[Plotted[cell]] = b + Plotted[cell]
        <5>1. Plotted[cell] \in Slots
          BY <1>1, PlottedIs, Zenon DEF TypeOK
        <5>2. entries[b].slots[Plotted[cell]] \in {None, b + Plotted[cell]}
          BY <1>1, <2>3, <5>1, Zenon DEF SlotsTrue
        <5>3. QED
          BY <2>9, <4>1, <5>2, Zenon
      <4>3. drawing'.base = b /\ drawing'.shown = [cell \in Cells |-> b + Plotted[cell]]
        BY <3>1, <4>1, <4>2, Zenon
      <4>4. Cells' = Cells /\ Plotted' = Plotted
        BY <1>2, SameLayout
      <4>5. QED
        BY <2>3, <4>3, <4>4, Zenon DEF DrawnTrue
    <3>4. ASSUME NEW h \in Getters, ~At(h, b)
          PROVE  pc'[h] = pc[h] /\ (Works(h)' <=> Works(h))
      BY <3>1, <3>4, Zenon DEF Works
    <3>5. Working'
      <4>1. ASSUME NEW h \in Getters
            PROVE  /\ pc'[h] = "idle" => idx[h] = None
                   /\ Works(h)' => idx[h] # None /\ Base(idx[h]) \in DOMAIN entries'
                   /\ pc'[h] = "counting" => entries'[Base(idx[h])].slots[idx[h] % Size] # None
        <5>1. CASE At(h, b)
          <6>1. pc'[h] = "wild"
            BY <3>1, <5>1, Zenon
          <6>2. QED
            BY <6>1 DEF Works
        <5>2. CASE ~At(h, b)
          <6>1. /\ pc[h] = "idle" => idx[h] = None
                /\ Works(h) => idx[h] # None /\ Base(idx[h]) \in DOMAIN entries
                /\ pc[h] = "counting" => entries[Base(idx[h])].slots[idx[h] % Size] # None
            BY <1>1, Zenon DEF Working, Has
          <6>2. Works(h) => Base(idx[h]) \in DOMAIN entries'
            BY <2>5, <5>2, <6>1, Zenon DEF At
          <6>3. pc[h] = "counting" => Works(h)
            BY Zenon DEF Works
          <6>4. QED
            BY <2>5, <3>4, <5>2, <6>1, <6>2, <6>3, Zenon
        <5>3. QED
          BY <5>1, <5>2
      <4>2. QED
        BY <1>3, <3>1, <4>1, Zenon DEF Working, Has, Base
    <3>6. ~doubled => \A h \in Getters : pc'[h] = pc[h]
      BY <3>4, FullMeans, Zenon
    <3>7. Undoubled'
      <4>0. SUFFICES ASSUME ~doubled' PROVE (Separate /\ Vacant /\ Counted /\ Signalled)'
        BY Zenon DEF Undoubled
      <4>1. ~doubled /\ \A h \in Getters : pc'[h] = pc[h]
        BY <1>4, <3>6, <4>0, Zenon
      <4>2. Separate /\ Vacant /\ Counted /\ Signalled
        BY <1>1, <4>1, Zenon DEF Undoubled
      <4>3. Separate'
        BY <3>1, <4>2, Zenon DEF Separate
      <4>4. Vacant'
        <5>1. ASSUME NEW h \in Getters, pc'[h] = "filling"
              PROVE  entries'[Base(idx[h])].slots[idx[h] % Size] = None
          <6>1. pc[h] = "filling" /\ Works(h) /\ Works(h)'
            BY <4>1, <5>1, Zenon DEF Works
          <6>2. Base(idx[h]) \in DOMAIN entries'
            BY <1>3, <3>1, <3>5, <6>1, Zenon DEF Working, Has, Base
          <6>3. QED
            BY <2>5, <4>2, <6>1, <6>2, Zenon DEF Vacant
        <5>2. QED
          BY <1>3, <3>1, <5>1, Zenon DEF Vacant, Base
      <4>5. Counted'
        <5>1. \A c : Counting(c)' = Counting(c)
          BY <1>3, <3>1, <4>1, Zenon DEF Counting, At, Base
        <5>2. \A c \in DOMAIN entries' : Occupied(c)' = Occupied(c)
          BY <1>3, <2>5, Zenon DEF Occupied
        <5>3. QED
          BY <2>5, <4>2, <5>1, <5>2, Zenon DEF Counted
      <4>6. Full' = Full \ {b}
        BY <1>3, <2>5, Zenon DEF Full
      <4>7. Cardinality(Full \ {b}) = Cardinality(Full) - 1
        BY <1>1, Finite, FS_RemoveElement, Zenon
      <4>8. Signalled'
        BY <1>2, <3>1, <4>2, <4>6, <4>7, Zenon DEF Signalled, Ended
      <4>9. QED
        BY <4>3, <4>4, <4>5, <4>8
    <3>8. OnlyDoublingBreaks'
      <4>1. (\E h \in Getters : pc'[h] = "wild") => doubled
        BY <1>1, <3>6, Zenon DEF OnlyDoublingBreaks
      <4>2. ~Ended'
        BY <1>2, <3>1 DEF Ended
      <4>3. QED
        BY <1>4, <4>1, <4>2, Zenon DEF OnlyDoublingBreaks
    <3>9. QED
      BY <2>6, <3>2, <3>3, <3>5, <3>7, <3>8, Zenon DEF IndInv
  <2>10. QED
    BY <2>8, <2>9
<1>7. QED
  BY <1>5, <1>6

-----------------------------------------------------------------------------
(* The theorems *)

LEMMA Initially == Init => IndInv
<1> SUFFICES ASSUME Init PROVE IndInv
  OBVIOUS
<1>1. /\ layout \in Layouts /\ entries = <<>> /\ displayed = None /\ signals = 0
      /\ leaked = FALSE /\ status = "starting" /\ close = "open"
      /\ pc = [g \in Getters |-> "idle"] /\ idx = [g \in Getters |-> None]
      /\ gets = 0 /\ faults = 0 /\ drawing = Nothing /\ doubled = FALSE /\ unstarted = FALSE
  BY Zenon DEF Init
<1>2. DOMAIN entries = {}
  BY <1>1
<1>3. TypeOK
  <2>1. pc \in [Getters -> {"idle", "filling", "counting", "wild"}] /\ idx \in [Getters -> 0 .. NTraces - 1 \cup {None}]
    BY <1>1
  <2>2. signals \in Nat /\ gets \in 0 .. MaxGets /\ faults \in 0 .. MaxFaults
    BY <1>1, BoundsAssumption
  <2>3. \A b \in DOMAIN entries : FALSE
    BY <1>2
  <2>4. QED
    BY <1>1, <2>1, <2>2, <2>3, Zenon DEF TypeOK
<1>4. SlotsTrue /\ DrawnTrue /\ Working /\ OnlyDoublingBreaks
  BY <1>1, <1>2 DEF SlotsTrue, DrawnTrue, Working, Works, OnlyDoublingBreaks, Ended
<1>5. Separate /\ Vacant /\ Counted
  BY <1>1, <1>2 DEF Separate, Vacant, Counted
<1>6. Signalled
  <2>1. Full = {}
    BY <1>2 DEF Full
  <2>2. QED
    BY <1>1, <2>1, FS_EmptySet DEF Signalled
<1>7. QED
  BY <1>3, <1>4, <1>5, <1>6 DEF IndInv, Undoubled

\* A get that fetches nothing, the start of gnuplot and the end leave the entries alone.
LEMMA OthersKeep ==
    ASSUME IndInv,
           \/ \E g \in Getters : \E i \in 0 .. NTraces - 1 : GetPresent(g, i) \/ GetThrough(g, i)
           \/ DrawStarts \/ DrawFailsToStart \/ DrawEnds \/ Exit \/ Joined \/ UNCHANGED vars
    PROVE  IndInv'
<1>1. TypeOK
  BY Zenon DEF IndInv
<1> DEFINE Still == /\ layout' = layout /\ entries' = entries /\ pc' = pc /\ idx' = idx
                    /\ drawing' = drawing /\ doubled' = doubled /\ signals' = signals
                    /\ displayed' = displayed
           Ending == (Ended => Ended') /\ (Ended' => Ended \/ unstarted')
           Typed == /\ leaked' \in BOOLEAN /\ faults' \in 0 .. MaxFaults /\ gets' \in 0 .. MaxGets
                    /\ unstarted' \in BOOLEAN /\ status' \in {"starting", "drawing", "ending", "failed"}
                    /\ close' \in {"open", "joining", "done"}
           Result == Still /\ Typed /\ (unstarted => unstarted') /\ Ending
<1>2. ASSUME NEW g \in Getters, NEW i \in 0 .. NTraces - 1, GetPresent(g, i) \/ GetThrough(g, i) PROVE Result
  <2>1. Still /\ status' = status /\ close' = close /\ unstarted' = unstarted /\ gets' = gets + 1 /\ gets < MaxGets
    BY <1>2 DEF GetPresent, GetThrough, Asks
  <2>2. (leaked' = leaked /\ faults' = faults) \/ (faults < MaxFaults /\ faults' = faults + 1 /\ leaked' = TRUE)
    BY <1>2 DEF GetPresent, GetThrough, Copy, Fault
  <2>3. leaked' \in BOOLEAN /\ faults' \in 0 .. MaxFaults /\ gets' \in 0 .. MaxGets
    <3>1. leaked' \in BOOLEAN
      BY <1>1, <2>2 DEF TypeOK
    <3>2. faults' \in 0 .. MaxFaults
      BY <1>1, <2>2, BoundsAssumption DEF TypeOK
    <3>3. gets' \in 0 .. MaxGets
      BY <1>1, <2>1, BoundsAssumption DEF TypeOK
    <3>4. QED
      BY <3>1, <3>2, <3>3
  <2>4. QED
    BY <1>1, <2>1, <2>3 DEF TypeOK, Ended
<1>3. ASSUME DrawStarts \/ DrawEnds PROVE Result
  BY <1>1, <1>3 DEF DrawStarts, DrawEnds, unchangedByDraw, TypeOK, Ended
<1>4. ASSUME DrawFailsToStart PROVE Result
  <2>1. faults' \in 0 .. MaxFaults
    BY <1>1, <1>4, BoundsAssumption DEF DrawFailsToStart, Fault, TypeOK
  <2>2. QED
    BY <1>1, <1>4, <2>1 DEF DrawFailsToStart, unchangedByDraw, TypeOK, Ended
<1>5. ASSUME Exit \/ Joined \/ UNCHANGED vars PROVE Result
  BY <1>1, <1>5 DEF Exit, Joined, unchangedByExit, vars, history, TypeOK, Ended
<1> HIDE DEF Result
<1>6. Result
  BY <1>2, <1>3, <1>4, <1>5, Zenon
<1>7. Still /\ Typed /\ (unstarted => unstarted') /\ Ending
  BY <1>6, Zenon DEF Result
<1>8. TypeOK'
  <2>1. Slots' = Slots /\ \A j : Base(j)' = Base(j)
    BY <1>7, SameLayout
  <2>2. QED
    BY <1>1, <1>7, <2>1, Zenon DEF TypeOK, Base
<1>9. QED
  BY <1>7, <1>8, UnmovedKeeps

\* The invariant is inductive.
THEOREM Inductive == Spec => []IndInv
<1>1. ASSUME IndInv, [Next]_vars PROVE IndInv'
  <2>1. ASSUME NEW g \in Getters, Get(g) PROVE IndInv'
    <3>1. PICK i \in 0 .. NTraces - 1 : GetPresent(g, i) \/ GetThrough(g, i) \/ GetMissing(g, i)
      BY <2>1, Zenon DEF Get
    <3>2. QED
      BY <1>1, <3>1, OthersKeep, GetMissingKeeps, Zenon
  <2>2. ASSUME NEW g \in Getters, Fill(g) \/ FillFails(g) \/ Count(g) PROVE IndInv'
    BY <1>1, <2>2, FillKeeps, FillFailsKeeps, CountKeeps, Zenon
  <2>3. ASSUME Draw PROVE IndInv'
    BY <1>1, <2>3, DrawKeeps, Zenon
  <2>4. ASSUME DrawStarts \/ DrawFailsToStart \/ DrawEnds \/ Exit \/ Joined \/ UNCHANGED vars PROVE IndInv'
    BY <1>1, <2>4, OthersKeep, Zenon
  <2>5. QED
    BY <1>1, <2>1, <2>2, <2>3, <2>4, Zenon DEF Next
<1>2. QED
  BY Initially, <1>1, PTL DEF Spec

\* Every variable keeps its type, whatever the threads and the draw thread do.
THEOREM TypeCorrect == Spec => []TypeOK
<1>1. IndInv => TypeOK
  BY Zenon DEF IndInv
<1>2. QED
  BY <1>1, Inductive, PTL

\* A drawing shows each trace of its block, and each once, in every layout of plot_indices that
\* does not draw two traces as one, even where threads filled a slot twice.
THEOREM DrawsWhole == Spec => []DrawnIsWhole
<1>1. ASSUME IndInv PROVE DrawnIsWhole
  <2>1. SUFFICES ASSUME drawing # Nothing, ~Overlapping
                 PROVE  /\ Range(drawing.shown) = drawing.base .. drawing.base + Size - 1
                        /\ Cardinality(DOMAIN drawing.shown) = Size
    BY Zenon DEF DrawnIsWhole
  <2>2. TypeOK /\ layout \in Layouts
    BY <1>1, Zenon DEF IndInv, TypeOK
  <2>3. PICK b \in Nat : b = drawing.base /\ drawing.shown = [cell \in Cells |-> b + Plotted[cell]]
    BY <1>1, <2>1, Zenon DEF IndInv, DrawnTrue
  <2>4. Plotted \in Bijection(Cells, Slots)
    BY <2>1, <2>2, PlottedIs, Zenon
  <2>5. Size \in Nat \ {0} /\ Slots = 0 .. Size - 1
    BY <2>2, IndexParts
  <2>6. /\ \A cell \in Cells : Plotted[cell] \in Slots
        /\ \A s \in Slots : \E cell \in Cells : Plotted[cell] = s
    BY <2>4, Zenon DEF Bijection, Injection, Surjection
  <2>7. Range(drawing.shown) = {b + Plotted[cell] : cell \in Cells}
    BY <2>3, Zenon DEF Range
  <2>8. ASSUME NEW n \in b .. b + Size - 1 PROVE n \in {b + Plotted[cell] : cell \in Cells}
    <3>1. n - b \in Slots
      BY <2>5
    <3>2. PICK cell \in Cells : Plotted[cell] = n - b
      BY <2>6, <3>1, Zenon
    <3>3. n = b + Plotted[cell]
      BY <3>2
    <3>4. QED
      BY <3>3, Zenon
  <2>9. ASSUME NEW cell \in Cells PROVE b + Plotted[cell] \in b .. b + Size - 1
    <3>1. PICK s \in Slots : s = Plotted[cell]
      BY <2>6, Zenon
    <3>2. b + s \in b .. b + Size - 1
      BY <2>5
    <3>3. QED
      BY <3>1, <3>2, Zenon
  <2>10. Range(drawing.shown) = b .. b + Size - 1
    BY <2>7, <2>8, <2>9
  <2>11. Cardinality(DOMAIN drawing.shown) = Size
    <3>1. DOMAIN drawing.shown = Cells
      BY <2>3, Zenon
    <3>2. IsFiniteSet(Slots) /\ Cardinality(Slots) = Size
      BY <2>2, Finite
    <3>3. ExistsBijection(Slots, Cells)
      <4>1. ExistsBijection(Cells, Slots)
        BY <2>4, Zenon DEF ExistsBijection
      <4>2. QED
        BY <4>1, Fun_ExistsBijSymmetric
    <3>4. QED
      BY <3>1, <3>2, <3>3, FS_Bijection
  <2>12. QED
    BY <2>3, <2>10, <2>11
<1>2. QED
  BY <1>1, Inductive, PTL

\* The draw thread gives up, and a thread works on an entry that was freed, only after two threads
\* fetched one trace at once, or when gnuplot did not start.
THEOREM BreaksByDoublingOnly == Spec => []OnlyDoublingBreaks
<1>1. IndInv => OnlyDoublingBreaks
  BY Zenon DEF IndInv
<1>2. QED
  BY <1>1, Inductive, PTL

=============================================================================
