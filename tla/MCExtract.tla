----------------------------- MODULE MCExtract -----------------------------
(* Values for Extract: five runs of four to six samples in a trace of 32. *)
EXTENDS Extract

Strong == 3
Weak == 1

\* The correlation is h[k] where run k starts and 0 elsewhere, but for one ghost.
Scene(start, d, h, ghost) ==
    LET s[k \in 1 .. 5] == IF k = 1 THEN start ELSE s[k - 1] + d[k - 1]
        at(i) == {k \in 1 .. 5 : s[k] = i}
    IN  [starts |-> s,
         pearson |-> [i \in Samples |->
            IF at(i) # {} THEN h[CHOOSE k \in at(i) : TRUE]
            ELSE IF ghost.run # 0 /\ i = s[ghost.run] + ghost.at THEN ghost.value ELSE 0]]

Distances ==
    {<<5, 5, 5, 5>>, <<6, 6, 6, 6>>, <<6, 6, 6, 5>>, <<4, 6, 5, 5>>, <<5, 6, 6, 4>>, <<4, 4, 6, 6>>, <<5, 5, 4, 4>>}

NoGhost == [run |-> 0, at |-> 0, value |-> 0]

Ghosts == {NoGhost} \cup [run : {1, 3}, at : {2}, value : {Strong}] \cup [run : {2}, at : {1}, value : {-4}]

\* A start at 3 is one sample from where timings are expected.
MCScenes ==
    {Scene(2, d, h, g) : d \in Distances, h \in [1 .. 5 -> {0, Weak, Strong}], g \in Ghosts}
        \cup {Scene(3, <<5, 6, 4, 5>>, h, NoGhost) : h \in [1 .. 5 -> {0, Weak, Strong}]}

\* References with evenly spaced runs, also at a distance of six, and with others.
MCReferences ==
    {Scene(2, d, [k \in 1 .. 5 |-> Strong], NoGhost).pearson :
        d \in {<<5, 5, 5, 5>>, <<4, 5, 6, 5>>, <<6, 6, 6, 6>>, <<9, 5, 9, 5>>}}

=============================================================================
