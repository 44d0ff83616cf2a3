---------------------------- MODULE CompositeKey -----------------------------
(***************************************************************************)
(* src/composite_key.c and src/hybrid_sign.c: the lifetime of Composite    *)
(* key objects and of component signatures.  The private and the public    *)
(* object of a new key pair share one reference-counted EVP_PKEY; a parsed *)
(* public key has an EVP_PKEY of its own; signing and verifying borrow the *)
(* caller's.  Every library call may fail, and the caller calls on.        *)
(*                                                                         *)
(* A key pair is named by the EVP_PKEY it was generated in; 0 is NULL, and *)
(* the content of a cleared buffer.                                        *)
(***************************************************************************)
EXTENDS Integers, FiniteSets

CONSTANTS
    PrivateKeys, PublicKeys,    \* the caller's HYBRID_PRIVATE_KEYs, ..PUBLIC_KEYs
    Messages,
    MaxObjects,     \* bound on the EVP_PKEYs ever made
    ForeignKeys     \* serialized keys made elsewhere of halves of these pairs

ASSUME ObjectsAssumption ==
    /\ IsFiniteSet(PrivateKeys) /\ IsFiniteSet(PublicKeys)
    /\ MaxObjects \in Nat
    /\ ForeignKeys \subseteq [sm2 : 1..MaxObjects, dil : 1..MaxObjects]

VARIABLES
    made,       \* EVP_PKEYs made so far
    refs,       \* their reference counts
    pair,       \* the SM2 key pair in each
    priv,       \* the private key objects
    pub,        \* the public key objects
    blob,       \* a serialized public key the caller kept
    sig,        \* a HYBRID_SIGNATURE: its non-NULL fields, their key and message
    blocks,     \* memory blocks allocated for signatures
    asked,      \* what the last hybrid_sign was asked for
    ok          \* the last call succeeded

vars == <<made, refs, pair, priv, pub, blob, sig, blocks, asked, ok>>

Objects == 1..MaxObjects
Pointers == 0..MaxObjects
Empty == [sm2 |-> 0, dil |-> 0]
Fields == {"dil", "sm2"}
NoRequest == [key |-> Empty, message |-> "none"]
EmptySignature == [held |-> {}, of |-> NoRequest]

KeyObject == [sm2 : Pointers, dil : Pointers]
Requests == [key : KeyObject, message : Messages] \cup {NoRequest}

TypeOK ==
    /\ made \in Pointers
    /\ refs \in [Objects -> Nat]
    /\ pair \in [Objects -> Pointers]
    /\ priv \in [PrivateKeys -> KeyObject]
    /\ pub \in [PublicKeys -> KeyObject]
    /\ blob \in KeyObject
    /\ sig \in [held : SUBSET Fields, of : Requests]
    /\ blocks \in Nat
    /\ asked \in Requests
    /\ ok \in BOOLEAN

Init ==
    /\ made = 0
    /\ refs = [k \in Objects |-> 0]
    /\ pair = [k \in Objects |-> 0]
    /\ priv = [s \in PrivateKeys |-> Empty]
    /\ pub = [p \in PublicKeys |-> Empty]
    /\ blob = Empty
    /\ sig = EmptySignature /\ blocks = 0
    /\ asked = NoRequest
    /\ ok = TRUE

-----------------------------------------------------------------------------
(* References *)

EVP_PKEY_up_ref(counts, k) == [counts EXCEPT ![k] = @ + 1]

\* Freeing NULL does nothing.
EVP_PKEY_free(counts, k) == IF k = 0 THEN counts ELSE [counts EXCEPT ![k] = @ - 1]

\* A new EVP_PKEY holds one reference.
NewObject(counts) == [counts EXCEPT ![made + 1] = 1]

\* What an object's fields stand for.
KeyOf(object) == [sm2 |-> IF object.sm2 = 0 THEN 0 ELSE pair[object.sm2],
                  dil |-> object.dil]

-----------------------------------------------------------------------------
(* src/composite_key.c *)

hybrid_private_key_cleanup(s) ==
    /\ refs' = EVP_PKEY_free(refs, priv[s].sm2)
    /\ priv' = [priv EXCEPT ![s] = Empty]
    /\ ok' = TRUE
    /\ UNCHANGED <<made, pair, pub, blob, sig, blocks, asked>>

hybrid_public_key_cleanup(p) ==
    /\ refs' = EVP_PKEY_free(refs, pub[p].sm2)
    /\ pub' = [pub EXCEPT ![p] = Empty]
    /\ ok' = TRUE
    /\ UNCHANGED <<made, pair, priv, blob, sig, blocks, asked>>

\* Where generating a key pair may fail.
GenerateFaults == {"sm2", "up_ref", "dilithium"}

\* References after the error path: the staged objects are cleaned up, the
\* public one only when it already shares the EVP_PKEY.
GenerateUndone(fault) ==
    CASE fault = "sm2" -> refs
      [] fault = "up_ref" -> EVP_PKEY_free(NewObject(refs), made + 1)
      [] fault = "dilithium" ->
           EVP_PKEY_free(EVP_PKEY_free(EVP_PKEY_up_ref(NewObject(refs), made + 1),
                                       made + 1), made + 1)

\* Mutant: the caller's objects are cleaned up before anything is generated.
GenerateFailsAfterCleanup(s, p) ==
    /\ made < MaxObjects
    /\ \E fault \in GenerateFaults :
         /\ refs' = EVP_PKEY_free(EVP_PKEY_free(GenerateUndone(fault), priv[s].sm2),
                                  pub[p].sm2)
         /\ made' = IF fault = "sm2" THEN made ELSE made + 1
    /\ priv' = [priv EXCEPT ![s] = Empty]
    /\ pub' = [pub EXCEPT ![p] = Empty]
    /\ ok' = FALSE
    /\ UNCHANGED <<pair, blob, sig, blocks, asked>>

\* composite_key_generate, error path: the caller's objects are not touched.
GenerateFails(s, p) ==
    /\ made < MaxObjects
    /\ \E fault \in GenerateFaults :
         /\ refs' = GenerateUndone(fault)
         /\ made' = IF fault = "sm2" THEN made ELSE made + 1
    /\ ok' = FALSE
    /\ UNCHANGED <<pair, priv, pub, blob, sig, blocks, asked>>

\* Mutant: the two objects share the EVP_PKEY without a reference of its own.
GenerateNotCounted(s, p) ==
    LET k == made + 1
    IN /\ made < MaxObjects
       /\ refs' = EVP_PKEY_free(EVP_PKEY_free(NewObject(refs), priv[s].sm2), pub[p].sm2)
       /\ made' = k
       /\ pair' = [pair EXCEPT ![k] = k]
       /\ priv' = [priv EXCEPT ![s] = [sm2 |-> k, dil |-> k]]
       /\ pub' = [pub EXCEPT ![p] = [sm2 |-> k, dil |-> k]]
       /\ ok' = TRUE
       /\ UNCHANGED <<blob, sig, blocks, asked>>

\* composite_key_generate: both objects replaced, sharing the EVP_PKEY.
Generate(s, p) ==
    LET k == made + 1
        counts == EVP_PKEY_up_ref(NewObject(refs), k)
    IN /\ made < MaxObjects
       /\ refs' = EVP_PKEY_free(EVP_PKEY_free(counts, priv[s].sm2), pub[p].sm2)
       /\ made' = k
       /\ pair' = [pair EXCEPT ![k] = k]
       /\ priv' = [priv EXCEPT ![s] = [sm2 |-> k, dil |-> k]]
       /\ pub' = [pub EXCEPT ![p] = [sm2 |-> k, dil |-> k]]
       /\ ok' = TRUE
       /\ UNCHANGED <<blob, sig, blocks, asked>>

composite_key_generate(s, p) == Generate(s, p) \/ GenerateFails(s, p)

\* The caller keeps the bytes; a failing call returns none.
composite_serialize_public_key(p) ==
    /\ \/ /\ pub[p].sm2 # 0
          /\ blob' = KeyOf(pub[p])
          /\ ok' = TRUE
       \/ blob' = Empty /\ ok' = FALSE
    /\ UNCHANGED <<made, refs, pair, priv, pub, sig, blocks, asked>>

\* parse_sm2_public_key: fromdata makes an EVP_PKEY, freed again when the
\* point is not on the curve.
ParseFails(p) ==
    /\ \/ UNCHANGED <<made, refs>>
       \/ /\ made < MaxObjects
          /\ made' = made + 1
          /\ refs' = EVP_PKEY_free(NewObject(refs), made + 1)
    /\ ok' = FALSE
    /\ UNCHANGED <<pair, priv, pub, blob, sig, blocks, asked>>

\* The bytes there are to parse: those the caller kept, and those somebody
\* else put together, of halves that need not belong together.
Serialized == ({blob} \ {Empty})
              \cup {bytes \in ForeignKeys : bytes.sm2 <= made /\ bytes.dil <= made}

\* composite_parse_public_key: the caller's object gives up its reference.
Parse(p, bytes) ==
    LET k == made + 1
    IN /\ made < MaxObjects
       /\ refs' = EVP_PKEY_free(NewObject(refs), pub[p].sm2)
       /\ made' = k
       /\ pair' = [pair EXCEPT ![k] = bytes.sm2]
       /\ pub' = [pub EXCEPT ![p] = [sm2 |-> k, dil |-> bytes.dil]]
       /\ ok' = TRUE
       /\ UNCHANGED <<priv, blob, sig, blocks, asked>>

composite_parse_public_key(p) ==
    (\E bytes \in Serialized : Parse(p, bytes)) \/ ParseFails(p)

-----------------------------------------------------------------------------
(* src/hybrid_sign.c *)

\* The blocks left after a signature's fields were freed.
Freed(count, fields) == count - Cardinality(fields)

hybrid_signature_cleanup ==
    /\ blocks' = Freed(blocks, sig.held)
    /\ sig' = EmptySignature
    /\ ok' = TRUE
    /\ UNCHANGED <<made, refs, pair, priv, pub, blob, asked>>

\* Mutant: a missing key is refused before the old signature is dropped.
SignFailsEarly(s, message) ==
    /\ asked' = [key |-> KeyOf(priv[s]), message |-> message]
    /\ \E got \in {{}, {"dil"}, {"sm2"}} :
         /\ (priv[s].sm2 = 0) => got = {}
         /\ IF priv[s].sm2 = 0 THEN UNCHANGED <<blocks, sig>>
            ELSE /\ blocks' = Freed(Freed(blocks, sig.held) + Cardinality(got), got)
                 /\ sig' = EmptySignature
    /\ ok' = FALSE
    /\ UNCHANGED <<made, refs, pair, priv, pub, blob>>

\* hybrid_sign: no key, composite_sign failed, or no memory for one field or
\* for both; what was allocated is freed.
SignFails(s, message) ==
    /\ asked' = [key |-> KeyOf(priv[s]), message |-> message]
    /\ \E got \in {{}, {"dil"}, {"sm2"}} :
         /\ (priv[s].sm2 = 0) => got = {}
         /\ blocks' = Freed(Freed(blocks, sig.held) + Cardinality(got), got)
    /\ sig' = EmptySignature
    /\ ok' = FALSE
    /\ UNCHANGED <<made, refs, pair, priv, pub, blob>>

Sign(s, message) ==
    /\ priv[s].sm2 # 0
    /\ asked' = [key |-> KeyOf(priv[s]), message |-> message]
    /\ blocks' = Freed(blocks, sig.held) + Cardinality(Fields)
    /\ sig' = [held |-> Fields, of |-> asked']
    /\ ok' = TRUE
    /\ UNCHANGED <<made, refs, pair, priv, pub, blob>>

hybrid_sign(s, message) == Sign(s, message) \/ SignFails(s, message)

\* Valid when both fields were made with this key for this message, and
\* nothing failed.
hybrid_verify(p, message) ==
    /\ \/ /\ pub[p].sm2 # 0
          /\ ok' = (sig = [held |-> Fields,
                           of |-> [key |-> KeyOf(pub[p]), message |-> message]])
       \/ ok' = FALSE
    /\ UNCHANGED <<made, refs, pair, priv, pub, blob, sig, blocks, asked>>

Next ==
    \/ \E s \in PrivateKeys : hybrid_private_key_cleanup(s)
    \/ \E p \in PublicKeys : \/ hybrid_public_key_cleanup(p)
                             \/ composite_serialize_public_key(p)
                             \/ composite_parse_public_key(p)
    \/ \E s \in PrivateKeys, p \in PublicKeys : composite_key_generate(s, p)
    \/ \E s \in PrivateKeys, message \in Messages : hybrid_sign(s, message)
    \/ \E p \in PublicKeys, message \in Messages : hybrid_verify(p, message)
    \/ hybrid_signature_cleanup

Spec == Init /\ [][Next]_vars

-----------------------------------------------------------------------------
(* Properties *)

\* Each EVP_PKEY has as many references as objects point to it: none is freed
\* under an object that still uses it, and none is leaked, whichever calls
\* failed on the way.
RefsMatchHolders ==
    \A k \in Objects :
        refs[k] = Cardinality({s \in PrivateKeys : priv[s].sm2 = k})
                  + Cardinality({p \in PublicKeys : pub[p].sm2 = k})

\* The fields of a signature are the only blocks allocated for signatures.
BlocksMatchFields == blocks = Cardinality(sig.held)

\* One key pair's halves, or the very mixture somebody else had put together.
Known(key) == key.sm2 = key.dil \/ key \in ForeignKeys

\* The halves of a private key come from one key pair; so do those of a public
\* key, unless it was received mixed: no sequence of sharing, replacing,
\* serializing and parsing pairs the halves of two keys.
KeysStayTogether ==
    /\ \A s \in PrivateKeys : KeyOf(priv[s]).sm2 = priv[s].dil
    /\ \A p \in PublicKeys : Known(KeyOf(pub[p]))
    /\ Known(blob)

\* No object points to an EVP_PKEY that was not made.
PointersMade ==
    /\ \A s \in PrivateKeys : priv[s].sm2 <= made
    /\ \A p \in PublicKeys : pub[p].sm2 <= made

\* Objects, references and memory fit together between any two calls.
ObjectInv ==
    /\ TypeOK /\ PointersMade
    /\ RefsMatchHolders /\ BlocksMatchFields /\ KeysStayTogether

\* What a caller finds in a HYBRID_SIGNATURE is what the last hybrid_sign was
\* asked for, never the result of an earlier call.
SignatureIsCurrent == sig.held # {} => sig.held = Fields /\ sig.of = asked

\* A call that fails leaves the caller's keys as they were.
FailureChangesNoKey ==
    [][~ok' => UNCHANGED <<priv, pub>> /\ \A k \in 1..made : refs'[k] = refs[k]]_vars

=============================================================================
