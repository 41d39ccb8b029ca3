---- MODULE MCMetadataStore ----
(***************************************************************************)
(* Small instances of the store, with its contract and its history: two    *)
(* executor threads and the loop.                                          *)
(***************************************************************************)
EXTENDS StoreRefinement, StoreHistory

Symmetry == Permutations(Threads) \cup Permutations(Keys)
====
