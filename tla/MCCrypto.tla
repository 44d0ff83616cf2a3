------------------------------ MODULE MCCrypto -------------------------------
(***************************************************************************)
(* The library's three cryptographic interfaces in one small instance: the *)
(* key and signature objects (CompositeKey), the Composite signatures      *)
(* (CompositeSig) and ML-KEM (MlKem).  They share no state, so it is       *)
(* enough that each moves while the other two are where they begin.        *)
(***************************************************************************)
EXTENDS CompositeKey, CompositeSig, MlKem

\* Public keys whose halves belong to different pairs.
MCForeignKeys == {[sm2 |-> 1, dil |-> 2], [sm2 |-> 2, dil |-> 1]}

\* Contexts up to one byte over the limit.
MCContexts == {<<>>, <<1>>, <<1, 0>>}

\* The digest and the context are digits, the key is the lowest one.
MCSm2Scalar(key, m_prime) ==
    1 + key + 2 * Number(2, 1, SubSeq(m_prime, 4, Len(m_prime)))

CryptoInit == Init /\ SigInit /\ KemInit

CryptoNext ==
    \/ SigInit /\ KemInit /\ Next /\ UNCHANGED <<sigVars, kemVars>>
    \/ Init /\ KemInit /\ SigNext /\ UNCHANGED <<vars, kemVars>>
    \/ Init /\ SigInit /\ KemNext /\ UNCHANGED <<vars, sigVars>>

CryptoSpec == CryptoInit /\ [][CryptoNext]_<<vars, sigVars, kemVars>>
=============================================================================
