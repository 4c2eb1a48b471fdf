--------------------------- MODULE MCIndexThreads ---------------------------
(* IndexThreads for TLC: threads of one kind are interchangeable.          *)
EXTENDS IndexThreads, TLC

Interchangeable == Permutations(Refreshers) \cup Permutations(Threads \ Refreshers)
=============================================================================
