----------------------------- MODULE MCForeignScopes -----------------------------
(* ForeignScopes for TLC: handles and engines are interchangeable. *)
EXTENDS ForeignScopes, TLC

Symmetry == Permutations(ScopeIds) \cup Permutations(Engines) \cup Permutations(TermIds)
==================================================================================
