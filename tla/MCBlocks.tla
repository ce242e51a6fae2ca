------------------------------ MODULE MCBlocks ------------------------------
(* Values for Blocks: six traces, three keys, one trace without data,
   one in which the pattern search fails. *)
EXTENDS Blocks

Of(key, value, splits) == [data |-> key # "none", key |-> key, value |-> value, splits |-> splits]

MCSource ==
    <<Of("k", 2, <<"ok", "ok">>), Of("l", 5, <<"error">>), Of("k", 3, <<"ok", "short">>),
      Of("none", 4, <<>>), Of("m", 6, <<>>), Of("k", 1, <<"ok">>)>>

Consumer(ops, alongs, stats, bare) == [op : ops, along : alongs, stat : stats, bare : {bare}]

\* A reduction along numbers is used where every trace has samples, a selection
\* where the greatest is wanted (see the README for why).
MCConsumers ==
    Consumer({"reduce"}, {"num"}, {"avg"}, {})
        \cup Consumer({"reduce"}, {"data"}, {"avg"}, {4})
        \cup Consumer({"extract"}, {"num"}, {"avg"}, {4})
        \cup Consumer({"select"}, {"num", "data"}, {"max"}, {4})
        \cup Consumer({"sort"}, {"num", "data"}, {"max", "min"}, {4})

=============================================================================
