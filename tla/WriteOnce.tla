----------------------------- MODULE WriteOnce ------------------------------
(***************************************************************************)
(* What a key store promises: one key is stored, at most once and for      *)
(* good, and from then on whoever reads the store is given that key.       *)
(***************************************************************************)
CONSTANTS Keys, Readers, NoKey

VARIABLES
    stored,     \* the key reported as stored
    given       \* the key each reader was given

vars == <<stored, given>>

Init == /\ stored = NoKey
        /\ given = [r \in Readers |-> NoKey]

Store(k) == /\ stored = NoKey
            /\ stored' = k
            /\ UNCHANGED given

\* A key that is being stored may be given already, but never instead of the
\* one that is stored.
Give(r, k) == /\ given[r] = NoKey
              /\ stored # NoKey => k = stored
              /\ given' = [given EXCEPT ![r] = k]
              /\ UNCHANGED stored

Next == \/ \E k \in Keys : Store(k)
        \/ \E r \in Readers, k \in Keys : Give(r, k)

Spec == Init /\ [][Next]_vars
=============================================================================
