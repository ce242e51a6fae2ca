-------------------------- MODULE WaitOnRefinement --------------------------
(***************************************************************************)
(* WaitOn, with its cache, the list of requests and the reference that is   *)
(* given back without the lock, implements ResultBoard.                     *)
(***************************************************************************)
EXTENDS WaitOn

Wants == [g \in Getters |-> IF gpc[g] \in {"search", "waiting", "woken"} THEN gidx[g] ELSE Empty]

\* Who failed to copy has never done reading.
Reading == [g \in Getters |-> IF gpc[g] \in {"copy", "pinned"} THEN gidx[g] ELSE Empty]

Abstract == INSTANCE ResultBoard WITH
    NShelves <- NSets, Width <- NWays, Patience <- BufTraces, MayFail <- Faults, NONE <- Empty,
    want <- Wants, reading <- Reading, board <- Buffered, stuck <- leaked

\* In whatever order results are pushed and asked for, and whatever fails: each step of a
\* producer or a getter is one that a board could make on which each result is put once, from
\* which nothing goes that is read or has room, and which answers "missed" only for a result
\* that was there or is overdue.
ImplementsResultBoard == Abstract!Spec

=============================================================================
