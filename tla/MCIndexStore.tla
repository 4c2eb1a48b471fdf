--------------------------- MODULE MCIndexStore ---------------------------
(* IndexStore on small instances: files and processes are interchangeable. *)
EXTENDS IndexStore, TLC

Interchangeable == Permutations(Files) \cup Permutations(Procs)
=============================================================================
