----------------------------- MODULE LruPolicy -----------------------------
(***************************************************************************)
(* The replacement policy of one cache set (lib/trace/cache.c): every way   *)
(* has an 8-bit age, 0 for the way used last.                               *)
(***************************************************************************)
EXTENDS Integers

CONSTANTS NWays,    \* ways of a set, the cache's nways
          AgeMod    \* the ages are uint8_t: 2^8 in the program

ASSUME NWaysAssumption == NWays \in Nat \ {0}
ASSUME AgeModAssumption == AgeMod \in Nat /\ NWays <= AgeMod

Ways == 0 .. NWays - 1

Ages == 0 .. AgeMod - 1

\* The ages a set starts with: way 0 is the oldest and is filled first.
FreshAges == [w \in Ways |-> NWays - w - 1]

\* MUTANT: a hit does not make the way the youngest: first in, first out.
MutUpdateLru(ages, way, hit) ==
    [w \in Ways |-> IF w = way /\ ~hit THEN 0
                    ELSE IF hit THEN ages[w]
                    ELSE (ages[w] + 1) % AgeMod]

\* A hit ages only the ways used more recently than the one that is hit; a
\* store ages every other way, and the addition wraps as uint8_t does.
UpdateLru(ages, way, hit) ==
    [w \in Ways |-> IF w = way THEN 0
                    ELSE IF hit /\ ages[w] >= ages[way] THEN ages[w]
                    ELSE (ages[w] + 1) % AgeMod]

\* The scan `lru[i] > highest_lru` for ascending i picks, among the ways W,
\* the first of those with the highest age.
Highest(ages, W) ==
    {w \in W : \A v \in W \ {w} :
        ages[w] > ages[v] \/ (ages[w] = ages[v] /\ w < v)}

=============================================================================
