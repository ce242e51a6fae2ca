---------------------------- MODULE SharedCache ----------------------------
(***************************************************************************)
(* What a trace cache promises to the threads that share it, with no locks, *)
(* no memory and no ages: an atomic, reference-counted LRU cache in NSets   *)
(* sets.  An index is in a set at most once; a trace on loan stays; the     *)
(* victim of a miss is the least recently used trace that is not on loan.   *)
(***************************************************************************)
EXTENDS Integers, Sequences, SequencesExt

CONSTANTS Clients, NTraces, NSets, NWays, NONE

VARIABLES shelf,    \* per set, its traces as [index, refs], last used first
          loan,     \* the index each client has on loan, or NONE
          closed

vars == <<shelf, loan, closed>>

Indices == 0 .. NTraces - 1
SetIds == 0 .. NSets - 1
SetOf(i) == i % NSets

Init ==
    /\ shelf = [s \in SetIds |-> <<>>]
    /\ loan = [c \in Clients |-> NONE]
    /\ closed = FALSE

\* The places of the traces that nobody has on loan.
Spare(s) == {k \in DOMAIN shelf[s] : shelf[s][k].refs = 0}

Lend(c, s, rest, entry) ==
    /\ shelf' = [shelf EXCEPT ![s] = <<entry>> \o rest]
    /\ loan' = [loan EXCEPT ![c] = entry.index]
    /\ UNCHANGED closed

\* The trace is there: one more reference, and it is now the last used.
BorrowHit(c, i) == \E k \in DOMAIN shelf[SetOf(i)] :
    LET s == SetOf(i) IN
    /\ shelf[s][k].index = i
    /\ Lend(c, s, RemoveAt(shelf[s], k),
            [index |-> i, refs |-> shelf[s][k].refs + 1])

Missing(i) == \A k \in DOMAIN shelf[SetOf(i)] : shelf[SetOf(i)][k].index # i

\* The trace is not there and the set has room.
BorrowNew(c, i) ==
    /\ Missing(i)
    /\ Len(shelf[SetOf(i)]) < NWays
    /\ Lend(c, SetOf(i), shelf[SetOf(i)], [index |-> i, refs |-> 1])

\* The set is full: the last of the traces nobody has on loan makes room.
BorrowEvict(c, i) ==
    LET s == SetOf(i) IN
    /\ Missing(i)
    /\ Len(shelf[s]) = NWays
    /\ \E k \in Spare(s) :
        /\ \A j \in Spare(s) : j <= k
        /\ Lend(c, s, RemoveAt(shelf[s], k), [index |-> i, refs |-> 1])

Return(c) == \E k \in DOMAIN shelf[SetOf(loan[c])] :
    LET s == SetOf(loan[c]) IN
    /\ shelf[s][k].index = loan[c]
    /\ shelf' = [shelf EXCEPT ![s][k].refs = @ - 1]
    /\ loan' = [loan EXCEPT ![c] = NONE]
    /\ UNCHANGED closed

\* The sets are emptied one after the other once nothing is on loan.
Empty(s) ==
    /\ \A c \in Clients : loan[c] = NONE
    /\ shelf' = [shelf EXCEPT ![s] = <<>>]
    /\ closed' = TRUE
    /\ UNCHANGED loan

Next ==
    \/ \E c \in Clients :
        \/ ~closed /\ loan[c] = NONE /\ \E i \in Indices :
                BorrowHit(c, i) \/ BorrowNew(c, i) \/ BorrowEvict(c, i)
        \/ loan[c] # NONE /\ Return(c)
    \/ \E s \in SetIds : Empty(s)

Spec == Init /\ [][Next]_vars

=============================================================================
