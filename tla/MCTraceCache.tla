---------------------------- MODULE MCTraceCache ----------------------------
EXTENDS TraceCacheRefinement, TLC

\* Clients and addresses are interchangeable: no definition orders them.
Symmetry == Permutations(Clients) \union Permutations(Addrs)

=============================================================================
