------------------------------ MODULE CommitLog ------------------------------
(***************************************************************************)
(* What a saved set promises to the threads that ask it for traces, with no *)
(* queue, no counters and no second thread: each usable trace of the set    *)
(* before is taken once and goes once into a log, in order when one thread  *)
(* asks.  The length of the log is announced when the set before is used    *)
(* up, and is then final.  A request ends when its trace is in the log or   *)
(* is known not to come.                                                    *)
(***************************************************************************)
EXTENDS Integers, Sequences

CONSTANTS Getters, NPrev, Valid,
          MayFail,    \* the failures there are: of the set before, of memory, of the log
          NONE, Open  \* no index; the length there is before one is announced

VARIABLES want,     \* per getter: the index whose trace it asks for, or NONE
          asked,    \* the index the next request is for
          next,     \* the trace of the set before that is taken next
          held,     \* the usable traces that were taken and are not in the log
          log,
          length,   \* the announced length of the log, or Open
          ended,    \* it was announced
          alone,    \* one thread asks
          dead      \* the log has failed

vars == <<want, asked, next, held, log, length, ended, alone, dead>>

Init ==
    /\ want = [g \in Getters |-> NONE]
    /\ asked = 0
    /\ next = 0
    /\ held = {}
    /\ log = <<>>
    /\ length = Open
    /\ ended = FALSE
    /\ alone \in BOOLEAN
    /\ dead = FALSE

Ask(g) ==
    /\ want[g] = NONE
    /\ asked < length
    /\ want' = [want EXCEPT ![g] = asked]
    /\ asked' = asked + 1
    /\ UNCHANGED <<next, held, log, length, ended, alone, dead>>

\* Traces are taken, in order, while somebody asks for one that is not in the log yet.
Take ==
    /\ \E g \in Getters : want[g] # NONE
    /\ next' = next + 1
    /\ held' = held \union ({next} \intersect Valid)
    /\ UNCHANGED <<want, asked, log, length, ended, alone, dead>>

\* After the end was announced nothing is written.
Write ==
    /\ ~ended /\ ~dead
    /\ \E p \in held :
        /\ alone => \A q \in held : p <= q
        /\ log' = Append(log, p)
        /\ held' = held \ {p}
    /\ UNCHANGED <<want, asked, next, length, ended, alone, dead>>

Announce ==
    /\ next > NPrev /\ ~dead
    /\ alone => held = {}
    /\ length' = Len(log)
    /\ ended' = TRUE
    /\ UNCHANGED <<want, asked, next, held, log, alone, dead>>

\* The log fails in a write, or when a trace is left after the end was announced.
Die ==
    /\ "write" \in MayFail \/ (ended /\ held # {})
    /\ dead' = TRUE
    /\ UNCHANGED <<want, asked, next, held, log, length, ended, alone>>

Answer(g) ==
    /\ want[g] # NONE
    /\ want[g] < length => want[g] < Len(log)
    /\ want' = [want EXCEPT ![g] = NONE]
    /\ UNCHANGED <<asked, next, held, log, length, ended, alone, dead>>

\* Who finds that the log has failed may drop a trace that was on its way to it.
GiveUp(g) ==
    /\ want[g] # NONE
    /\ want[g] >= length \/ dead \/ MayFail \intersect {"get", "memory"} # {}
    /\ want' = [want EXCEPT ![g] = NONE]
    /\ held' = held \/ (dead /\ \E p \in held : held' = held \ {p})
    /\ UNCHANGED <<asked, next, log, length, ended, alone, dead>>

\* Closing a log that has failed announces a length of its own.
Close ==
    /\ dead
    /\ \A g \in Getters : want[g] = NONE
    /\ length' \in Nat
    /\ UNCHANGED <<want, asked, next, held, log, ended, alone, dead>>

Next ==
    \/ \E g \in Getters : Ask(g) \/ Answer(g) \/ GiveUp(g)
    \/ Take \/ Write \/ Announce \/ Die \/ Close

Spec == Init /\ [][Next]_vars

=============================================================================
