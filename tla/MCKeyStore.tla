----------------------------- MODULE MCKeyStore -----------------------------
(* TLC instances of KeyStore. *)
EXTENDS KeyStore, TLC

\* Calls of one kind are interchangeable.
Symmetry == Permutations(Savers) \cup Permutations(Loaders)
=============================================================================
