------------------------- MODULE SaveQueueRefinement -------------------------
(***************************************************************************)
(* SaveQueue, with its queue, its commit thread and the counters that are   *)
(* read without a lock, implements CommitLog.                               *)
(***************************************************************************)
EXTENDS SaveQueue

\* An index that is no index.
NoIndex == -1

Wants == [g \in Getters |-> IF gpc[g] \in {"idle", "failed", "dropped"} THEN NoIndex ELSE gidx[g]]

\* A trace on its way to the file is with the getter that took it, in the queue, or in the batch.
\* One whose getter had no memory for it stays on its way.
InHand == {gprev[g] : g \in At({"taken", "dropped"})}
OnTheWay == Valid \intersect (InHand \union pending \union batch)

Alone == \A g, h \in pool : g = h

Abstract == INSTANCE CommitLog WITH
    MayFail <- Faults, NONE <- NoIndex, Open <- Unknown,
    want <- Wants, next <- nextPrev, held <- OnTheWay, log <- file, length <- numTraces,
    ended <- seen, alone <- Alone, dead <- Failed

\* Whatever the threads of the render and the commit thread do at the same time, and
\* whatever fails: each of their steps is one that a log could make into which each trace
\* goes once, and from which a getter is answered when its trace is there or never comes.
ImplementsCommitLog == Abstract!Spec

-----------------------------------------------------------------------------
(* What the proof needs to know beside the inductive invariant. *)

\* Sentinels come from threads that have run past the end of the previous set.
EndReached == sentinels > 0 \/ batchSentinels > 0 \/ seen => nextPrev > NPrev

=============================================================================
