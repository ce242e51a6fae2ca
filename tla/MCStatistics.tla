---------------------------- MODULE MCStatistics ----------------------------
(* Values for Statistics: every kind of accumulator, two arrays of shapes    *)
(* that are kept as they are and the other way round, and with more          *)
(* covariances than lanes; patterns for data of the inputs' length, and of   *)
(* another, which is refused.                                                *)
EXTENDS Statistics

Shape(k, m, n, requested) == [kind |-> k, dim0 |-> m, dim1 |-> n, requested |-> requested]

AllOfOne == Sums \cup Extremes

MCAccumulators ==
    {Shape("single", 1, 0, AllOfOne), Shape("single", 1, 0, {"dev", "min"}),
     Shape("dual", 1, 1, AllOfOne \cup {"pearson"}), Shape("dual", 1, 1, {"maxabs"}),
     Shape("array", 5, 0, AllOfOne), Shape("pattern", 3, 6, {}), Shape("pattern", 3, 5, {})}
    \cup {Shape("dual_array", m, n, Sums \cup {"pearson", "max"}) : m, n \in 1 .. 3}

MCInputs ==
    {<<6, -12, 0, 6, 18, 0>>, <<-18, 6, 12, -6, 0, 6>>, <<0, 0, -6, 12, 6, -6>>, <<12, 18, 6, 0, -12, 24>>}

MCPattern == <<6, -6, 12>>

=============================================================================
