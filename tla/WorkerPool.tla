------------------------------ MODULE WorkerPool ------------------------------
(***************************************************************************)
(* What a render promises to who waits for it, with no semaphores and no    *)
(* shared arguments: the indices are given to workers one by one and in     *)
(* order, each to one worker that has no other; who has one asks for it     *)
(* once.  The render ends when all its workers have left, well when all     *)
(* indices were asked for and otherwise only because something failed.      *)
(***************************************************************************)
EXTENDS Integers

CONSTANTS Workers, NTraces, NONE

VARIABLES present,  \* the workers that may still touch what they share
          job,      \* per worker: the index it has to ask for, or NONE
          next,     \* the index to be given next
          asked,    \* the indices asked for
          broken,   \* the workers whose request failed
          outcome   \* "open", "failing", "ok" or "error"

vars == <<present, job, next, asked, broken, outcome>>

Indices == 0 .. NTraces - 1

Init ==
    /\ present = {}
    /\ job = [w \in Workers |-> NONE]
    /\ next = 0
    /\ asked = {}
    /\ broken = {}
    /\ outcome = "open"

\* Workers come before the first index is given.
Join(w) ==
    /\ outcome = "open" /\ next = 0
    /\ present' = present \union {w}
    /\ UNCHANGED <<job, next, asked, broken, outcome>>

Give(w) ==
    /\ outcome = "open"
    /\ next < NTraces
    /\ job[w] = NONE /\ w \notin broken
    /\ job' = [job EXCEPT ![w] = next]
    /\ next' = next + 1
    /\ UNCHANGED <<present, asked, broken, outcome>>

Ask(w) ==
    /\ w \in present
    /\ job[w] # NONE
    /\ asked' = asked \union {job[w]}
    /\ job' = [job EXCEPT ![w] = NONE]
    /\ broken' \in {broken, broken \union {w}}
    /\ UNCHANGED <<present, next, outcome>>

Leave(w) ==
    /\ job[w] = NONE
    /\ present' = present \ {w}
    /\ UNCHANGED <<job, next, asked, broken, outcome>>

\* A failure is seen: nothing is given any more.
Fail ==
    /\ outcome = "open"
    /\ broken # {}
    /\ outcome' = "failing"
    /\ UNCHANGED <<present, job, next, asked, broken>>

\* A failing render lets a worker go without its request, and it may count as one that failed.
Dismiss(w) ==
    /\ outcome = "failing"
    /\ job' = [job EXCEPT ![w] = NONE]
    /\ broken' \in {broken, broken \union {w}}
    /\ UNCHANGED <<present, next, asked, outcome>>

\* Only a render that could not even start fails without a worker that did.
End ==
    /\ present = {}
    /\ \/ outcome = "open" /\ asked = Indices /\ outcome' = "ok"
       \/ outcome = "open" /\ next = 0 /\ outcome' = "error"
       \/ outcome = "failing" /\ outcome' = "error"
    /\ UNCHANGED <<present, job, next, asked, broken>>

Next ==
    \/ \E w \in Workers : Join(w) \/ Give(w) \/ Ask(w) \/ Leave(w) \/ Dismiss(w)
    \/ Fail \/ End

Spec == Init /\ [][Next]_vars

=============================================================================
