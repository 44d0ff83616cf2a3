------------------------------- MODULE MlKem ---------------------------------
(***************************************************************************)
(* src/mlkem.c, the ML-KEM-768 wrapper, under a caller like                *)
(* tools/mlkem_demo.c that may also call again, out of order or with the   *)
(* wrong arguments.  The provider (liboqs) is external: any call of it may *)
(* fail, and a failing one may have written to its outputs.  Decapsulation *)
(* of a ciphertext that does not fit the key succeeds, with a secret that  *)
(* nobody else has (implicit rejection, FIPS 203).                         *)
(***************************************************************************)
EXTENDS Integers, FiniteSets

CONSTANTS MaxKeys, MaxCiphertexts   \* bounds on key pairs and encapsulations

ASSUME KemAssumption == MaxKeys \in Nat /\ MaxCiphertexts \in Nat

VARIABLES
    keypair,    \* the caller's MLKEM_KEYPAIR: its key pair, or 0
    pairs,      \* key pairs generated
    buffers,    \* buffers for keys in use: two to a key pair
    freed,      \* the keys whose bytes are left in memory that was freed
    ciphertext, \* the caller's buffer and its length (0, full, or cut short)
    sent,       \* encapsulations made
    secret,     \* both shared secret buffers
    okay,       \* what the last call that fills each buffer returned
    match       \* the secrets were found equal

kemVars == <<keypair, pairs, buffers, freed, ciphertext, sent, secret, okay, match>>

Sides == {"server", "client"}
KEYPAIR_BLOCKS == 2
KeyBuffers == {"ek", "dk"}

\* Contents of a secret buffer: zeroes, what a failing provider left there, a
\* shared secret (of an encapsulation to a key), or a rejection's.
Zero == [is |-> "zero", key |-> 0, nonce |-> 0]
Garbage == [is |-> "garbage", key |-> 0, nonce |-> 0]
Shared(key, nonce) == [is |-> "shared", key |-> key, nonce |-> nonce]
Rejected(key, nonce) == [is |-> "rejected", key |-> key, nonce |-> nonce]

Secrets == [is : {"zero", "garbage", "shared", "rejected"},
            key : 0..MaxKeys, nonce : 0..MaxCiphertexts]

NoCiphertext == [key |-> 0, nonce |-> 0, intact |-> FALSE, len |-> "none"]
Ciphertexts == [key : 0..MaxKeys, nonce : 0..MaxCiphertexts,
                intact : BOOLEAN, len : {"none", "full", "short"}]

KemTypeOK ==
    /\ keypair \in 0..MaxKeys /\ pairs \in 0..MaxKeys
    /\ buffers \in Nat
    /\ freed \subseteq KeyBuffers
    /\ ciphertext \in Ciphertexts
    /\ sent \in 0..MaxCiphertexts
    /\ secret \in [Sides -> Secrets]
    /\ okay \in [Sides -> BOOLEAN]
    /\ match \in BOOLEAN

KemInit ==
    /\ keypair = 0 /\ pairs = 0 /\ buffers = 0 /\ freed = {}
    /\ ciphertext = NoCiphertext /\ sent = 0
    /\ secret = [side \in Sides |-> Zero]
    /\ okay = [side \in Sides |-> FALSE]
    /\ match = FALSE

-----------------------------------------------------------------------------

\* Where a call may fail: its arguments; mlkem768_new_checked, when the provider
\* has no FIPS 203 ML-KEM-768 of the expected lengths; the operation itself.
Faults == {"arguments", "new_checked", "operation"}

\* A failing call of the provider may have written any of its outputs.
OQS_KEM_keypair_fails == SUBSET KeyBuffers
OQS_KEM_fails(buffer) == {buffer, Garbage}

OQS_MEM_cleanse(buffer) == Zero

\* OQS_MEM_secure_free cleanses the decapsulation key, OQS_MEM_insecure_free
\* leaves what was written to the encapsulation key.
FreeKeys(written) == freed' = freed \cup (written \ {"dk"})

\* A structure in use is refused; what a failing call allocated (nothing, one
\* buffer or both) is freed, with what the provider wrote if it got to run.
mlkem768_keygen ==
    \/ /\ keypair = 0
       /\ pairs < MaxKeys
       /\ pairs' = pairs + 1
       /\ keypair' = pairs + 1
       /\ buffers' = buffers + KEYPAIR_BLOCKS
       /\ UNCHANGED <<freed, ciphertext, sent, secret, okay, match>>
    \/ /\ \E fault \in Faults, got \in 0..KEYPAIR_BLOCKS,
             written \in OQS_KEM_keypair_fails :
            /\ keypair # 0 => fault = "arguments"
            /\ fault # "operation" => got = 0
            /\ got < KEYPAIR_BLOCKS => written = {}
            /\ buffers' = (buffers + got) - got
            /\ FreeKeys(written)
       /\ UNCHANGED <<keypair, pairs, ciphertext, sent, secret, okay, match>>

\* Both keys freed, the structure reset.
mlkem_keypair_cleanup ==
    /\ keypair' = 0
    /\ buffers' = IF keypair = 0 THEN buffers ELSE buffers - KEYPAIR_BLOCKS
    /\ FreeKeys(IF keypair = 0 THEN {} ELSE KeyBuffers)
    /\ UNCHANGED <<pairs, ciphertext, sent, secret, okay, match>>

\* A failing encapsulation: the secret is cleansed before anything else, and
\* with the ciphertext once more when the provider ran; the length stays 0.
EncapsFails ==
    /\ \E fault \in Faults, left \in OQS_KEM_fails(Zero) :
         IF fault = "operation"
         THEN /\ ciphertext' = NoCiphertext
              /\ secret' = [secret EXCEPT !["server"] = OQS_MEM_cleanse(left)]
         ELSE /\ ciphertext' = [ciphertext EXCEPT !.len = "none"]
              /\ secret' = [secret EXCEPT !["server"] = OQS_MEM_cleanse(@)]
    /\ okay' = [okay EXCEPT !["server"] = FALSE]
    /\ match' = FALSE
    /\ UNCHANGED <<keypair, pairs, buffers, freed, sent>>

\* mlkem768_encaps to the key pair's public half.
mlkem768_encaps ==
    \/ /\ keypair # 0
       /\ sent < MaxCiphertexts
       /\ sent' = sent + 1
       /\ ciphertext' = [key |-> keypair, nonce |-> sent + 1, intact |-> TRUE,
                         len |-> "full"]
       /\ secret' = [secret EXCEPT !["server"] = Shared(keypair, sent + 1)]
       /\ okay' = [okay EXCEPT !["server"] = TRUE]
       /\ match' = FALSE
       /\ UNCHANGED <<keypair, pairs, buffers, freed>>
    \/ EncapsFails

\* The ciphertext on its way: altered, or cut short.
Transport ==
    /\ ciphertext.len # "none"
    /\ ciphertext' \in {[ciphertext EXCEPT !.intact = FALSE],
                        [ciphertext EXCEPT !.len = "short"]}
    /\ UNCHANGED <<keypair, pairs, buffers, freed, sent, secret, okay, match>>

\* Mutant: a failing provider's output is not cleansed.
DecapsFailsUncleansed ==
    /\ \E fault \in Faults, left \in OQS_KEM_fails(Zero) :
         secret' = [secret EXCEPT !["client"] = IF fault = "operation" THEN left
                                                ELSE OQS_MEM_cleanse(@)]
    /\ okay' = [okay EXCEPT !["client"] = FALSE]
    /\ match' = FALSE
    /\ UNCHANGED <<keypair, pairs, buffers, freed, ciphertext, sent>>

\* Wrong arguments, or a failing provider: the secret is cleansed either way.
DecapsFails ==
    /\ \E fault \in Faults, left \in OQS_KEM_fails(Zero) :
         secret' = [secret EXCEPT !["client"] =
                      OQS_MEM_cleanse(IF fault = "operation" THEN left ELSE @)]
    /\ okay' = [okay EXCEPT !["client"] = FALSE]
    /\ match' = FALSE
    /\ UNCHANGED <<keypair, pairs, buffers, freed, ciphertext, sent>>

\* The provider's decapsulation.
OQS_KEM_decaps ==
    IF ciphertext.intact /\ ciphertext.key = keypair
    THEN Shared(keypair, ciphertext.nonce) ELSE Rejected(keypair, ciphertext.nonce)

mlkem768_decaps ==
    \/ /\ keypair # 0 /\ ciphertext.len = "full"
       /\ secret' = [secret EXCEPT !["client"] = OQS_KEM_decaps]
       /\ okay' = [okay EXCEPT !["client"] = TRUE]
       /\ match' = FALSE
       /\ UNCHANGED <<keypair, pairs, buffers, freed, ciphertext, sent>>
    \/ DecapsFails

\* The caller is done with this secret, and its verdict with it.
mlkem_shared_secret_cleanup(side) ==
    /\ secret' = [secret EXCEPT ![side] = OQS_MEM_cleanse(@)]
    /\ okay' = [okay EXCEPT ![side] = FALSE]
    /\ match' = FALSE
    /\ UNCHANGED <<keypair, pairs, buffers, freed, ciphertext, sent>>

\* Mutant: the buffers are compared whatever the calls returned.
CompareAnyway ==
    /\ match' = (secret["server"] = secret["client"])
    /\ UNCHANGED <<keypair, pairs, buffers, freed, ciphertext, sent, secret, okay>>

\* tools/mlkem_demo.c: compared only when both calls succeeded.
Compare ==
    /\ okay["server"] /\ okay["client"]
    /\ match' = (secret["server"] = secret["client"])
    /\ UNCHANGED <<keypair, pairs, buffers, freed, ciphertext, sent, secret, okay>>

KemNext ==
    \/ mlkem768_keygen \/ mlkem_keypair_cleanup
    \/ mlkem768_encaps \/ Transport \/ mlkem768_decaps
    \/ \E side \in Sides : mlkem_shared_secret_cleanup(side)
    \/ Compare

KemSpec == KemInit /\ [][KemNext]_kemVars

-----------------------------------------------------------------------------
(* Properties *)

\* The buffers in use are those of the caller's key pair: no sequence of
\* keygen, failing or not, and cleanup leaks or frees twice.
BlocksMatchKeypair == buffers = IF keypair = 0 THEN 0 ELSE KEYPAIR_BLOCKS

\* A secret buffer holds something only while the last call that fills it
\* succeeded; it never shows an earlier secret or a failing provider's output.
SecretNeedsSuccess == \A side \in Sides : secret[side] # Zero => okay[side]

\* No decapsulation key, whole or half written, is left in freed memory: not
\* by the cleanup and not by a keygen whose provider call failed.
DecapsulationKeysWiped == "dk" \notin freed

\* Buffers and secrets are what the last calls left, between any two calls.
KemInv ==
    KemTypeOK /\ BlocksMatchKeypair /\ SecretNeedsSuccess /\ DecapsulationKeysWiped

\* Equal secrets come from one encapsulation to one key.  Both calls succeeding
\* is not enough: an altered ciphertext, or one for another key, decapsulates.
MatchMeansOneExchange ==
    match => /\ secret["server"] = secret["client"]
             /\ secret["server"].is = "shared"

=============================================================================
