----------------------------- MODULE MlKemProof -------------------------------
(***************************************************************************)
(* Proofs about MlKem, for any bounds on key pairs and encapsulations.     *)
(* What carries the argument is that every exit of a call, the failing     *)
(* ones included, leaves its buffers in one of two states: cleansed and    *)
(* reported as failed, or filled and reported as done.                     *)
(***************************************************************************)
EXTENDS MlKem, TLAPS

USE KemAssumption

\* The contents of a secret buffer: the constructors, and what tells them apart.
LEMMA SecretFacts ==
    /\ Zero \in Secrets /\ Zero.is = "zero"
    /\ \A k \in 0..MaxKeys, n \in 0..MaxCiphertexts :
         /\ Shared(k, n) \in Secrets /\ Shared(k, n).is = "shared"
         /\ Rejected(k, n) \in Secrets /\ Rejected(k, n).is = "rejected"
<1>1. Zero \in Secrets /\ Zero.is = "zero"
  BY DEF Secrets, Zero
<1>2. ASSUME NEW k \in 0..MaxKeys, NEW n \in 0..MaxCiphertexts
      PROVE  Shared(k, n) \in Secrets /\ Shared(k, n).is = "shared"
  BY DEF Secrets, Shared
<1>3. ASSUME NEW k \in 0..MaxKeys, NEW n \in 0..MaxCiphertexts
      PROVE  Rejected(k, n) \in Secrets /\ Rejected(k, n).is = "rejected"
  BY DEF Secrets, Rejected
<1> QED
  BY <1>1, <1>2, <1>3

\* What the calls and the transport make of a ciphertext buffer.
LEMMA CiphertextFacts ==
    /\ NoCiphertext \in Ciphertexts
    /\ \A k \in 0..MaxKeys, n \in 0..MaxCiphertexts :
         [key |-> k, nonce |-> n, intact |-> TRUE, len |-> "full"] \in Ciphertexts
    /\ \A c \in Ciphertexts :
         /\ c.key \in 0..MaxKeys /\ c.nonce \in 0..MaxCiphertexts
         /\ [c EXCEPT !.len = "none"] \in Ciphertexts
         /\ [c EXCEPT !.len = "short"] \in Ciphertexts
         /\ [c EXCEPT !.intact = FALSE] \in Ciphertexts
<1>1. NoCiphertext \in Ciphertexts
  BY DEF Ciphertexts, NoCiphertext
<1>2. ASSUME NEW k \in 0..MaxKeys, NEW n \in 0..MaxCiphertexts
      PROVE  [key |-> k, nonce |-> n, intact |-> TRUE, len |-> "full"] \in Ciphertexts
  BY DEF Ciphertexts
<1>3. ASSUME NEW c \in Ciphertexts
      PROVE  /\ c.key \in 0..MaxKeys /\ c.nonce \in 0..MaxCiphertexts
             /\ [c EXCEPT !.len = "none"] \in Ciphertexts
             /\ [c EXCEPT !.len = "short"] \in Ciphertexts
             /\ [c EXCEPT !.intact = FALSE] \in Ciphertexts
  BY DEF Ciphertexts
<1> QED
  BY <1>1, <1>2, <1>3

\* A failing call reports the secret it cleansed.
Cleansed(side) == secret[side] = Zero /\ ~okay[side]

\* What every call leaves: the server's secret is cleansed or one that was
\* encapsulated, the client's is cleansed or reported, and a verdict is about
\* the two secrets as they are.
ExchangeInv ==
    /\ Cleansed("server") \/ (okay["server"] /\ secret["server"].is = "shared")
    /\ Cleansed("client") \/ okay["client"]
    /\ match => /\ okay["server"]
                /\ secret["server"] = secret["client"]

IInv == KemTypeOK /\ BlocksMatchKeypair /\ ExchangeInv /\ DecapsulationKeysWiped

LEMMA InitInv == KemInit => IInv
<1> SUFFICES ASSUME KemInit
             PROVE  IInv
  OBVIOUS
<1>1. KemTypeOK
  <2>1. secret \in [Sides -> Secrets]
    BY SecretFacts DEF KemInit
  <2>2. okay \in [Sides -> BOOLEAN] /\ match \in BOOLEAN
    BY Zenon DEF KemInit
  <2> QED
    BY <2>1, <2>2, CiphertextFacts DEF KemInit, KemTypeOK
<1>2. ExchangeInv
  BY Zenon DEF KemInit, ExchangeInv, Cleansed, Sides
<1> QED
  BY <1>1, <1>2 DEF KemInit, IInv, BlocksMatchKeypair, DecapsulationKeysWiped

\* One call, whatever its outcome, keeps the invariant.
LEMMA StepInv == IInv /\ [KemNext]_kemVars => IInv'
<1> SUFFICES ASSUME IInv, [KemNext]_kemVars
             PROVE  IInv'
  OBVIOUS
<1> USE DEF IInv, KemTypeOK, BlocksMatchKeypair, ExchangeInv, Cleansed, Sides, KEYPAIR_BLOCKS,
            DecapsulationKeysWiped, OQS_MEM_cleanse
<1>1. CASE mlkem768_keygen
  <2>1. freed' \subseteq KeyBuffers /\ "dk" \notin freed'
    BY <1>1 DEF mlkem768_keygen, FreeKeys, OQS_KEM_keypair_fails, KeyBuffers
  <2>2. /\ UNCHANGED <<ciphertext, sent, secret, okay, match>>
        /\ \/ keypair = 0 /\ pairs < MaxKeys /\ pairs' = pairs + 1
              /\ keypair' = pairs + 1 /\ buffers' = buffers + KEYPAIR_BLOCKS
           \/ UNCHANGED <<keypair, pairs, buffers>>
    BY <1>1 DEF mlkem768_keygen
  <2>3. keypair' \in 0..MaxKeys /\ pairs' \in 0..MaxKeys /\ buffers' \in Nat /\ BlocksMatchKeypair'
    BY <2>2
  <2> QED BY <2>1, <2>2, <2>3
<1>2. CASE mlkem_keypair_cleanup
  BY <1>2 DEF mlkem_keypair_cleanup, FreeKeys, KeyBuffers
<1>3. CASE EncapsFails
  <2>1. ciphertext' \in Ciphertexts
    BY <1>3, CiphertextFacts DEF EncapsFails
  <2> QED
    BY <1>3, <2>1, SecretFacts DEF EncapsFails
<1>4. CASE mlkem768_encaps /\ ~EncapsFails
  <2>1. /\ sent + 1 \in 0..MaxCiphertexts
        /\ sent' = sent + 1
        /\ ciphertext' = [key |-> keypair, nonce |-> sent + 1, intact |-> TRUE, len |-> "full"]
        /\ secret' = [secret EXCEPT !["server"] = Shared(keypair, sent + 1)]
    BY <1>4 DEF mlkem768_encaps
  <2>2. ciphertext' \in Ciphertexts
    BY <2>1, CiphertextFacts
  <2>3. secret' \in [Sides -> Secrets] /\ secret'["server"].is = "shared"
    BY <2>1, SecretFacts
  <2> QED
    BY <1>4, <2>1, <2>2, <2>3 DEF mlkem768_encaps
<1>5. CASE Transport
  <2>1. ciphertext' \in Ciphertexts
    BY <1>5, CiphertextFacts DEF Transport
  <2> QED
    BY <1>5, <2>1 DEF Transport
<1>6. CASE DecapsFails
  BY <1>6, SecretFacts DEF DecapsFails
<1>7. CASE mlkem768_decaps /\ ~DecapsFails
  <2>1. OQS_KEM_decaps \in Secrets
    BY SecretFacts, CiphertextFacts DEF OQS_KEM_decaps
  <2> QED
    BY <1>7, <2>1 DEF mlkem768_decaps
<1>8. ASSUME NEW side \in Sides, mlkem_shared_secret_cleanup(side)
      PROVE  IInv'
  BY <1>8, SecretFacts DEF mlkem_shared_secret_cleanup
<1>9. CASE Compare
  BY <1>9 DEF Compare
<1>10. CASE UNCHANGED kemVars
  BY <1>10 DEF kemVars
<1> QED
  BY <1>1, <1>2, <1>3, <1>4, <1>5, <1>6, <1>7, <1>8, <1>9, <1>10 DEF KemNext

LEMMA Invariant == KemSpec => []IInv
  BY InitInv, StepInv, PTL DEF KemSpec

\* mlkem.c never leaks a key pair's buffers nor frees them twice, and no buffer
\* shows a secret whose call did not succeed: for any sequence of the calls.
THEOREM KemCorrect == KemSpec => []KemInv
<1>1. IInv => KemInv
  BY DEF IInv, KemInv, ExchangeInv, Cleansed, SecretNeedsSuccess, Sides
<1> QED
  BY <1>1, Invariant, PTL

\* Secrets found equal by tools/mlkem_demo.c come from one encapsulation,
\* whatever happened to the ciphertext, to the key pair and to the calls.
THEOREM MatchIsOneExchange == KemSpec => []MatchMeansOneExchange
<1>1. IInv => MatchMeansOneExchange
  BY DEF IInv, ExchangeInv, Cleansed, MatchMeansOneExchange, KemTypeOK, Sides
<1> QED
  BY <1>1, Invariant, PTL
=============================================================================
