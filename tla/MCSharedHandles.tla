----------------------------- MODULE MCSharedHandles -----------------------------
(* Symmetry for SharedHandles: all its constants are interchangeable identities. *)
EXTENDS SharedHandles, TLC

Symmetry ==
  Permutations(Threads) \cup Permutations(Cells) \cup Permutations(Texts)
  \cup Permutations(Atoms) \cup Permutations(Copies) \cup Permutations(Records)
===================================================================================
