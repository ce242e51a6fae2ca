------------------------- MODULE RenderPoolRefinement -------------------------
(***************************************************************************)
(* RenderPool, with its semaphores and the arguments that the controller    *)
(* and the workers read and write without a lock, implements WorkerPool.    *)
(***************************************************************************)
EXTENDS RenderPool

\* An index that is no index.
NoJob == -1

Present == {w \in Workers : wpc[w] \notin {"exited", "absent"}}

Jobs == [w \in Workers |-> IF HasIndex(w) THEN index[w] ELSE NoJob]

Asked == {k \in Indices : calls[k] > 0}

Broken == {w \in Workers : code[w] = Error}

Outcome ==
    IF ctl = "finished" THEN IF ret = 0 THEN "ok" ELSE "error"
    ELSE IF ret = 0 THEN "open" ELSE "failing"

Abstract == INSTANCE WorkerPool WITH
    NONE <- NoJob, present <- Present, job <- Jobs, asked <- Asked, broken <- Broken,
    outcome <- Outcome

\* Whatever the controller and the workers do to each other's arguments, and whatever fails:
\* each of their steps is one that a pool could make which gives every index to one worker
\* that is free, or is invisible to who looks at the pool.
ImplementsWorkerPool == Abstract!Spec

-----------------------------------------------------------------------------
(* What the proof needs to know beside IndInv. *)

\* Who works for an index is marked busy; who is marked dead is on its way out.
Marked == \A w \in Workers :
    /\ wpc[w] \in {"get", "got"} => code[w] = Busy
    /\ code[w] = Error => wpc[w] \in {"dying", "exited"}
    /\ wpc[w] = "dying" => code[w] = Error

\* Only a render that stops its workers has failed; one that stops them for any other
\* reason meets none that works.
Settled ==
    /\ ret = Error => ctl \in {"kill", "join", "finished"}
    /\ ctl \in {"kill", "join", "finished"} /\ ret = 0 => \A w \in Workers :
          /\ wpc[w] \notin {"get", "got"}
          /\ ts[w] => wpc[w] # "woken" /\ signal[w] = 0

=============================================================================
