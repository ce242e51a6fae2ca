----------------------------- MODULE ResultBoard -----------------------------
(***************************************************************************)
(* What a wait for results promises to who asks for them, with no lock, no  *)
(* list of requests and no reference counts: a result is put on a board     *)
(* once, where it stays until the place is needed for another and nobody    *)
(* reads it.  Who asks reads it from the board, or hears that it was missed *)
(* or is overdue.                                                           *)
(***************************************************************************)
EXTENDS Integers, FiniteSets

CONSTANTS Getters, NTraces,
          NShelves, Width,  \* the board: result k stands on shelf k % NShelves
          Patience,         \* how far results may come ahead of one that is awaited
          MayFail,          \* the failures there are
          NONE              \* no index

VARIABLES want,     \* per getter: the result it asks for, or NONE
          reading,  \* per getter: the result it reads, or NONE
          asked,    \* the index asked for next
          board,    \* the results to be had
          over,     \* those that were put on the board, or had no room there
          stuck     \* a failure has closed the board

vars == <<want, reading, asked, board, over, stuck>>

Indices == 0 .. NTraces - 1

Init ==
    /\ want = [g \in Getters |-> NONE]
    /\ reading = [g \in Getters |-> NONE]
    /\ asked = 0
    /\ board = {}
    /\ over = {}
    /\ stuck = FALSE

Shelf(k) == {j \in board : j % NShelves = k % NShelves}
Full(k) == Cardinality(Shelf(k)) = Width
Unread(j) == \A g \in Getters : reading[g] # j

\* One result goes for another only where there is no room, and nobody reads it.
Publish(k) ==
    /\ ~stuck
    /\ k \notin over
    /\ \/ ~Full(k) /\ board' = board \union {k}
       \/ Full(k) /\ \E j \in Shelf(k) : Unread(j) /\ board' = (board \ {j}) \union {k}
    /\ over' = over \union {k}
    /\ UNCHANGED <<want, reading, asked, stuck>>

\* A result is lost when there is no memory for it, or all that could go for it are read.
Lose(k) ==
    /\ k \notin over
    /\ "alloc" \in MayFail \/ (Full(k) /\ \A j \in Shelf(k) : ~Unread(j))
    /\ over' = over \union {k}
    /\ UNCHANGED <<want, reading, asked, board, stuck>>

Ask(g) ==
    /\ want[g] = NONE /\ reading[g] = NONE
    /\ asked \in Indices
    /\ want' = [want EXCEPT ![g] = asked]
    /\ asked' = asked + 1
    /\ UNCHANGED <<reading, board, over, stuck>>

Find(g) ==
    /\ ~stuck
    /\ want[g] \in board
    /\ reading' = [reading EXCEPT ![g] = want[g]]
    /\ want' = [want EXCEPT ![g] = NONE]
    /\ UNCHANGED <<asked, board, over, stuck>>

\* What a getter reads is on the board until it has done.
Leave(g) ==
    /\ reading[g] \in board
    /\ reading' = [reading EXCEPT ![g] = NONE]
    /\ UNCHANGED <<want, asked, board, over, stuck>>

\* The result came and went, or others came that are too far ahead.
Miss(g) ==
    /\ ~stuck
    /\ want[g] # NONE /\ want[g] \notin board
    /\ want[g] \in over \/ \E k \in over : want[g] < k - Patience
    /\ want' = [want EXCEPT ![g] = NONE]
    /\ UNCHANGED <<reading, asked, board, over, stuck>>

\* One request may fail for want of memory: it is the last that is answered.
Break(g) ==
    /\ "alloc" \in MayFail
    /\ ~stuck
    /\ want[g] # NONE /\ want[g] \notin board
    /\ want' = [want EXCEPT ![g] = NONE]
    /\ stuck' = TRUE
    /\ UNCHANGED <<reading, asked, board, over>>

Next ==
    \/ \E k \in Indices : Publish(k) \/ Lose(k)
    \/ \E g \in Getters : Ask(g) \/ Find(g) \/ Leave(g) \/ Miss(g) \/ Break(g)

Spec == Init /\ [][Next]_vars

=============================================================================
