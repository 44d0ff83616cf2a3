--------------------------- MODULE MCSm2KeyStore ----------------------------
(* TLC instances of Sm2KeyStore. *)
EXTENDS Sm2KeyStore, TLC

\* Calls of one kind are interchangeable.
Symmetry == Permutations(Savers) \cup Permutations(Loaders)
=============================================================================
