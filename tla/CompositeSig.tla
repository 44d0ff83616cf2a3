----------------------------- MODULE CompositeSig ----------------------------
(***************************************************************************)
(* src/composite_sig.c: the message both components sign, the encoding of  *)
(* a Composite signature, signing and verification.  Signers sign; what a  *)
(* verifier gets is put together from component signatures they made, in   *)
(* any encoding.                                                           *)
(*                                                                         *)
(* Bytes are numbers.  The component algorithms and SM3 are symbolic: the  *)
(* Dilithium signature, of fixed length, names its key, its message and    *)
(* the random choice made for it; the SM2 signature is a pair of integers  *)
(* that does so; the digest of a message is the message.  Two signings of  *)
(* one message may thus differ in both components.                         *)
(***************************************************************************)
EXTENDS Naturals, Sequences, SequencesExt, FiniteSetsExt

CONSTANTS
    Keys,               \* numbers that name them
    Digests,            \* numbers that are the messages and their SM3 digests
    Contexts,           \* byte strings offered as context
    Nonces,             \* what a component algorithm may choose at random
    Sm2Scalar(_, _),    \* the integer s of an SM2 key and a message
    COMPOSITE_MAX_CONTEXT_BYTES,    \* 255 in the code
    MaxSigned           \* bound on the signing calls

\* What the coding of the SM2 part tells apart, and what a length byte holds.
ASSUME SigAssumption ==
    /\ Keys \subseteq Nat /\ Digests \subseteq Nat /\ Nonces \subseteq Nat
    /\ Contexts \subseteq Seq(0..1)
    /\ COMPOSITE_MAX_CONTEXT_BYTES \in 0..255 /\ MaxSigned \in Nat

VARIABLES
    issued,     \* successful calls of composite_sign and what they returned
    last,       \* the last call of composite_sign, successful or not
    received,   \* the verification: its arguments
    result      \* and its COMPOSITE_VERIFY_RESULT

sigVars == <<issued, last, received, result>>

Nothing == <<>>

-----------------------------------------------------------------------------
(* The message *)

Prefix == <<5>>
Label == <<6>>

\* Prefix, label, the context behind one byte for its length, the digest.
composite_build_message(message, ctx) ==
    IF Len(ctx) > COMPOSITE_MAX_CONTEXT_BYTES THEN Nothing
    ELSE Prefix \o Label \o <<Len(ctx) % 256>> \o ctx \o <<message>>

\* SM2 signatures of two keys or of two messages differ.
SignedMessages ==
    {composite_build_message(message, ctx) : message \in Digests, ctx \in Contexts}
    \ {Nothing}
ASSUME ScalarAssumption ==
    \A key1, key2 \in Keys, m1, m2 \in SignedMessages :
        /\ Sm2Scalar(key1, m1) \in Nat \ {0}
        /\ Sm2Scalar(key1, m1) = Sm2Scalar(key2, m2) => key1 = key2 /\ m1 = m2

-----------------------------------------------------------------------------
(* The component algorithms *)

\* Room for every message, the key and the random choice.
DILITHIUM_SIGNATURE_BYTES == 6 + COMPOSITE_MAX_CONTEXT_BYTES

dilithium_sign(key, m_prime, nonce) ==
    <<key, nonce>> \o m_prime
    \o [i \in 1..(DILITHIUM_SIGNATURE_BYTES - 2 - Len(m_prime)) |-> 9]

dilithium_verify(key, m_prime, signature) ==
    \E nonce \in Nonces : signature = dilithium_sign(key, m_prime, nonce)

\* r is 127 or more, so that its encoding needs a zero byte for some choices.
hybrid_sm2_sign(key, m_prime, nonce) ==
    [r |-> 127 + nonce, s |-> Sm2Scalar(key, m_prime)]

hybrid_sm2_verify(key, m_prime, signature) ==
    \E nonce \in Nonces : signature = hybrid_sm2_sign(key, m_prime, nonce)

-----------------------------------------------------------------------------
(* SEQUENCE { INTEGER r, INTEGER s } *)

INTEGER == 2
SEQUENCE == 48

\* The numbers that the first digits stand for, most significant first, behind
\* one more; and all of them.
Numbers(base, first, digits) ==
    LET upTo[n \in 0..Len(digits)] ==
            IF n = 0 THEN first ELSE base * upTo[n - 1] + digits[n]
    IN upTo
Number(base, first, digits) == Numbers(base, first, digits)[Len(digits)]

\* A length byte, or the long form that DER forbids for it.
Header(tag, length, long) == IF long THEN <<tag, 129, length>> ELSE <<tag, length>>

Element(tag, content, long) == Header(tag, Len(content), long) \o content

\* The content of an INTEGER of one byte, without and with its sign byte.
IntegerContent(n) == IF n >= 128 THEN <<0, n>> ELSE <<n>>

\* A SEQUENCE of two INTEGERs with these contents, long forms where asked.
SignatureDer(rContent, sContent, longInner, longOuter) ==
    Element(SEQUENCE, Element(INTEGER, rContent, longInner)
                      \o Element(INTEGER, sContent, FALSE), longOuter)

i2d_ECDSA_SIG(sig) ==
    SignatureDer(IntegerContent(sig.r), IntegerContent(sig.s), FALSE, FALSE)

NoElement == [content |-> <<>>, rest |-> <<>>, ok |-> FALSE]

\* One element of this tag at the front, long length form accepted.
d2i_element(tag, bytes) ==
    LET long == Len(bytes) >= 3 /\ bytes[2] = 129
        head == IF long THEN 3 ELSE 2
    IN IF Len(bytes) < 2 \/ bytes[1] # tag THEN NoElement
       ELSE IF (~long /\ bytes[2] >= 128) \/ Len(bytes) < head + bytes[head]
            THEN NoElement
            ELSE [content |-> SubSeq(bytes, head + 1, head + bytes[head]),
                  rest |-> SubSeq(bytes, head + bytes[head] + 1, Len(bytes)),
                  ok |-> TRUE]

\* An INTEGER's content: not empty and no needless sign byte.  A negative one
\* is told by its sign.
IntegerOk(c) == Len(c) > 0 /\ (Len(c) > 1 => ~(c[1] = 0 /\ c[2] < 128))
Negative(c) == c[1] >= 128
Value(c) == Number(256, 0, c)

\* Decode; the value, what is left, and whether it decodes at all.
d2i_ECDSA_SIG(bytes) ==
    LET seq == d2i_element(SEQUENCE, bytes)
        r == d2i_element(INTEGER, seq.content)
        s == d2i_element(INTEGER, r.rest)
    IN IF /\ seq.ok /\ r.ok /\ s.ok /\ s.rest = <<>>
          /\ IntegerOk(r.content) /\ IntegerOk(s.content)
       THEN [ok |-> TRUE, r |-> r.content, s |-> s.content, rest |-> seq.rest]
       ELSE [ok |-> FALSE, r |-> <<>>, s |-> <<>>, rest |-> <<>>]

\* Mutant: whatever decodes to two positive integers is good.
sm2_signature_der_is_ber(der) ==
    LET sig == d2i_ECDSA_SIG(der)
    IN /\ sig.ok /\ sig.rest = <<>>
       /\ ~Negative(sig.r) /\ Value(sig.r) # 0
       /\ ~Negative(sig.s) /\ Value(sig.s) # 0

\* Mutant: only integers below 128 are taken for positive.
sm2_signature_der_is_small(der) ==
    LET sig == d2i_ECDSA_SIG(der)
    IN /\ sig.ok /\ sig.rest = <<>>
       /\ Value(sig.r) \in 1..127 /\ Value(sig.s) \in 1..127
       /\ SignatureDer(sig.r, sig.s, FALSE, FALSE) = der

\* Two positive integers, nothing behind them, encoded the one DER way.
sm2_signature_der_is_valid(der) ==
    LET sig == d2i_ECDSA_SIG(der)
    IN /\ sig.ok /\ sig.rest = <<>>
       /\ ~Negative(sig.r) /\ Value(sig.r) # 0
       /\ ~Negative(sig.s) /\ Value(sig.s) # 0
       /\ SignatureDer(sig.r, sig.s, FALSE, FALSE) = der

-----------------------------------------------------------------------------
(* The Composite signature *)

composite_serialize_signature(dilithium, sm2Der) ==
    IF /\ Len(dilithium) = DILITHIUM_SIGNATURE_BYTES
       /\ sm2_signature_der_is_valid(sm2Der)
    THEN dilithium \o sm2Der ELSE Nothing

\* The two components, or none.
composite_parse_signature(signature) ==
    LET der == SubSeq(signature, DILITHIUM_SIGNATURE_BYTES + 1, Len(signature))
    IN IF /\ Len(signature) > DILITHIUM_SIGNATURE_BYTES
          /\ sm2_signature_der_is_valid(der)
       THEN [dilithium |-> SubSeq(signature, 1, DILITHIUM_SIGNATURE_BYTES), sm2 |-> der]
       ELSE [dilithium |-> Nothing, sm2 |-> Nothing]

\* With no memory the message is not built or a component is not signed.
composite_sign(key, message, ctx, nonces, memory) ==
    LET m_prime == composite_build_message(message, ctx)
    IN IF ~memory \/ m_prime = Nothing THEN Nothing
       ELSE composite_serialize_signature(
                dilithium_sign(key, m_prime, nonces.dilithium),
                i2d_ECDSA_SIG(hybrid_sm2_sign(key, m_prime, nonces.sm2)))

Refused == [format_valid |-> FALSE, dilithium_valid |-> FALSE,
            sm2_valid |-> FALSE, composite_valid |-> FALSE]

\* What the two components say of a parsed signature.  Memory may last for
\* everything, for the message but not for SM2, or for neither.
Memory == {"all", "message", "none"}

ComponentResult(key, m_prime, parts, memory) ==
    LET sm2 == d2i_ECDSA_SIG(parts.sm2)
    IN [dilithium |-> dilithium_verify(key, m_prime, parts.dilithium),
        sm2 |-> /\ memory = "all"
                /\ hybrid_sm2_verify(key, m_prime, [r |-> Value(sm2.r), s |-> Value(sm2.s)])]

\* Mutant: one component is enough.
composite_verify_either(key, message, ctx, signature, memory) ==
    LET parts == composite_parse_signature(signature)
        m_prime == composite_build_message(message, ctx)
        valid == ComponentResult(key, m_prime, parts, memory)
    IN IF parts.sm2 = Nothing THEN Refused
       ELSE IF memory = "none" \/ m_prime = Nothing THEN [Refused EXCEPT !.format_valid = TRUE]
       ELSE [format_valid |-> TRUE, dilithium_valid |-> valid.dilithium,
             sm2_valid |-> valid.sm2, composite_valid |-> valid.dilithium \/ valid.sm2]

composite_verify_detailed(key, message, ctx, signature, memory) ==
    LET parts == composite_parse_signature(signature)
        m_prime == composite_build_message(message, ctx)
        valid == ComponentResult(key, m_prime, parts, memory)
    IN IF parts.sm2 = Nothing THEN Refused
       ELSE IF memory = "none" \/ m_prime = Nothing THEN [Refused EXCEPT !.format_valid = TRUE]
       ELSE [format_valid |-> TRUE, dilithium_valid |-> valid.dilithium,
             sm2_valid |-> valid.sm2, composite_valid |-> valid.dilithium /\ valid.sm2]

-----------------------------------------------------------------------------
(* Signers and a verifier *)

SigInit ==
    /\ issued = {} /\ last = Nothing
    /\ received = Nothing
    /\ result = Refused

SignCall(key, message, ctx) ==
    /\ Cardinality(issued) < MaxSigned
    /\ received = Nothing
    /\ \E memory \in BOOLEAN, nonces \in [dilithium : Nonces, sm2 : Nonces] :
         LET call == [key |-> key, message |-> message, ctx |-> ctx,
                      signature |-> composite_sign(key, message, ctx, nonces, memory)]
         IN /\ last' = <<[call |-> call, memory |-> memory]>>
            /\ issued' = IF call.signature = Nothing THEN issued ELSE issued \cup {call}
    /\ UNCHANGED <<received, result>>

\* The tails that carry the integers of an SM2 signature, or something close:
\* long length forms, needless sign bytes, wrong sign, zero, more or fewer bytes.
Tails(der) ==
    LET sig == d2i_ECDSA_SIG(der)
        contents == {sig.r, <<0>> \o sig.r, Tail(sig.r), <<0>>, <<>>}
    IN {SignatureDer(r, sig.s, inner, outer) :
            r \in contents, inner \in BOOLEAN, outer \in BOOLEAN}
       \cup {der \o <<0>>, Front(der), <<>>}

\* What may arrive: the Dilithium part of one signature, whole or one byte
\* short, and a tail made from the SM2 part of the same or another one.
Arriving ==
    LET parts == {composite_parse_signature(c.signature) : c \in issued}
    IN UNION {{Front(p.dilithium) \o q.sm2} \cup {p.dilithium \o t : t \in Tails(q.sm2)} :
                p \in parts, q \in parts}

VerifyCall(key, message, ctx) ==
    /\ received = Nothing
    /\ \E signature \in Arriving, memory \in Memory :
         /\ received' = <<[key |-> key, message |-> message, ctx |-> ctx,
                           signature |-> signature]>>
         /\ result' = composite_verify_detailed(key, message, ctx, signature, memory)
    /\ last' = Nothing
    /\ UNCHANGED issued

SigNext ==
    \E key \in Keys, message \in Digests, ctx \in Contexts :
        SignCall(key, message, ctx) \/ VerifyCall(key, message, ctx)

SigSpec == SigInit /\ [][SigNext]_sigVars

-----------------------------------------------------------------------------
(* Properties *)

\* The signing calls with the arguments of the verification.
SameArguments(got) ==
    {c \in issued : c.key = got.key /\ c.message = got.message /\ c.ctx = got.ctx}
MadeParts(calls) == {composite_parse_signature(c.signature) : c \in calls}

\* composite_verify_detailed needs both signers: signing calls for this key, this
\* message and this context, which a longer one with the same beginning is not,
\* made each of the two components.  Two signings of the same arguments may have
\* made one each; a component of any other call is refused.
VerifiedMeansSigned ==
    result.composite_valid =>
        LET got == composite_parse_signature(received[1].signature)
            made == MadeParts(SameArguments(received[1]))
        IN /\ \E p \in made : p.dilithium = got.dilithium
           /\ \E q \in made : d2i_ECDSA_SIG(q.sm2) = d2i_ECDSA_SIG(got.sm2)

\* Each component has one encoding: composite_verify_detailed accepts nothing but
\* component bytes that composite_sign returned for these arguments, however the
\* SM2 part might be encoded otherwise.
OneEncoding ==
    result.composite_valid =>
        LET made == MadeParts(SameArguments(received[1]))
        IN \E p, q \in made : received[1].signature = p.dilithium \o q.sm2

\* composite_sign fails for want of memory or a context over the limit and for
\* nothing else; what it returns is well formed and valid for its arguments.
SignedVerifies ==
    last # Nothing =>
        LET c == last[1].call
        IN IF last[1].memory /\ Len(c.ctx) <= COMPOSITE_MAX_CONTEXT_BYTES
           THEN composite_verify_detailed(c.key, c.message, c.ctx, c.signature, "all")
                    = [format_valid |-> TRUE, dilithium_valid |-> TRUE,
                       sm2_valid |-> TRUE, composite_valid |-> TRUE]
           ELSE c.signature = Nothing

=============================================================================
