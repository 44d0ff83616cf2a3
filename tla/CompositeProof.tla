---------------------------- MODULE CompositeProof ----------------------------
(***************************************************************************)
(* Proofs about CompositeSig and CompositeKey.                             *)
(*                                                                         *)
(* Signatures, for any sets of keys, messages and contexts of those kinds  *)
(* and any limit on contexts that its length byte holds: the decoder reads *)
(* what the encoder wrote, in every length form; of the tails around an    *)
(* SM2 signature the DER check lets one through; and each component names  *)
(* the key, the message and the whole context.                             *)
(*                                                                         *)
(* Key objects, for any finite sets of them, any messages and any number   *)
(* of EVP_PKEYs: the argument is a count.  Each call changes the reference *)
(* count of an EVP_PKEY by as much as it changes the number of objects     *)
(* that point to it.                                                       *)
(***************************************************************************)
EXTENDS CompositeKey, CompositeSig, FiniteSetTheorems, SequenceTheorems,
        WellFoundedInduction, TLAPS

-----------------------------------------------------------------------------
(* Composite signatures: the numbers *)

\* Every nonempty set of naturals has a least element.
LEMMA LeastElement ==
    ASSUME NEW T, T \subseteq Nat, T # {}
    PROVE  \E x \in T : \A y \in T : ~ (y < x)
<1>1. PICK x \in T : \A y \in T : ~ (<<y, x>> \in OpToRel(<, Nat))
  BY NatLessThanWellFounded, WFMin, Zenon
<1>2. \A y \in T : y < x => <<y, x>> \in OpToRel(<, Nat)
  BY DEF OpToRel
<1> QED BY <1>1, <1>2

\* Numbers computes what its recursive definition says.
NumberOf(base, first, digits, g, n) ==
    IF n = 0 THEN first ELSE base * g[n - 1] + digits[n]

AreNumbers(g, base, first, digits, most) ==
    g = [n \in 0..most |-> NumberOf(base, first, digits, g, n)]

LEMMA NumbersExist ==
    ASSUME NEW base, NEW first, NEW digits, NEW most \in Nat
    PROVE  \E g : AreNumbers(g, base, first, digits, most)
<1> DEFINE F(g, n) == NumberOf(base, first, digits, g, n)
           P(k) == \E g : g = [n \in 0..k |-> F(g, n)]
           T == {k \in Nat : ~ P(k)}
<1>1. P(0)
  <2> DEFINE g == [n \in 0..0 |-> first]
  <2>1. g = [n \in 0..0 |-> F(g, n)]
    BY DEF NumberOf
  <2> QED BY <2>1
<1>2. ASSUME NEW k \in Nat, P(k) PROVE P(k + 1)
  <2>1. PICK g : g = [n \in 0..k |-> F(g, n)]
    BY <1>2
  <2> DEFINE h == [n \in 0..(k + 1) |-> IF n = k + 1 THEN F(g, n) ELSE g[n]]
  <2>2. \A n \in 0..(k + 1) : n # 0 => n - 1 \in 0..k /\ h[n - 1] = g[n - 1]
    OBVIOUS
  <2>3. \A n \in 0..(k + 1) : F(g, n) = F(h, n)
    BY <2>2 DEF NumberOf
  <2> HIDE DEF F
  <2>4. \A n \in 0..(k + 1) : h[n] = F(g, n)
    BY <2>1
  <2>5. h = [n \in 0..(k + 1) |-> F(h, n)]
    BY <2>3, <2>4
  <2> QED BY <2>5
<1> HIDE DEF P
<1>3. T = {}
  <2> SUFFICES ASSUME T # {} PROVE FALSE
    OBVIOUS
  <2>1. PICK x \in T : \A y \in T : ~ (y < x)
    BY LeastElement
  <2>2. x # 0
    BY <1>1
  <2>3. x - 1 \in Nat /\ ~ (x - 1 \in T)
    BY <2>1, <2>2
  <2>4. P(x - 1 + 1)
    BY <2>3, <1>2
  <2>5. x - 1 + 1 = x
    BY <2>1
  <2> QED BY <2>1, <2>4, <2>5
<1>4. P(most)
  BY <1>3
<1> QED BY <1>4 DEF P, AreNumbers

Recurses(g, base, first, digits) ==
    \A n \in 0..Len(digits) :
        g[n] = IF n = 0 THEN first ELSE base * g[n - 1] + digits[n]

LEMMA NumbersRecurse ==
    ASSUME NEW base, NEW first, NEW digits \in Seq(Nat)
    PROVE  Recurses(Numbers(base, first, digits), base, first, digits)
<1> DEFINE Q(g) == AreNumbers(g, base, first, digits, Len(digits))
<1>1. Numbers(base, first, digits) = CHOOSE g : Q(g)
  BY DEF Numbers, NumberOf, AreNumbers
<1>2. \E g : Q(g)
  <2>1. Len(digits) \in Nat
    OBVIOUS
  <2> QED BY <2>1, NumbersExist
<1>3. Q(Numbers(base, first, digits))
  BY <1>1, <1>2
<1>4. PICK g : g = Numbers(base, first, digits)
  OBVIOUS
<1>5. g = [n \in 0..Len(digits) |-> NumberOf(base, first, digits, g, n)]
  BY <1>3, <1>4 DEF AreNumbers
<1>6. \A n \in 0..Len(digits) : g[n] = NumberOf(base, first, digits, g, n)
  BY <1>5
<1> QED BY <1>4, <1>6 DEF NumberOf, Recurses

\* The contents of short INTEGERs.
LEMMA ShortValues ==
    ASSUME NEW a \in Nat
    PROVE  Value(<<a>>) = a /\ Value(<<0, a>>) = a
<1>1. Value(<<a>>) = a
  <2> DEFINE g == Numbers(256, 0, <<a>>)
  <2>1. <<a>> \in Seq(Nat) /\ Len(<<a>>) = 1
    OBVIOUS
  <2>2. \A n \in 0..1 : g[n] = IF n = 0 THEN 0 ELSE 256 * g[n - 1] + <<a>>[n]
    <3>1. Recurses(g, 256, 0, <<a>>)
      BY <2>1, NumbersRecurse, ZenonT(60)
    <3> QED BY <2>1, <3>1 DEF Recurses
  <2> HIDE DEF g
  <2>3. g[0] = 0 /\ g[1] = 256 * g[0] + a
    BY <2>2
  <2> QED BY <2>1, <2>3 DEF Value, Number, g
<1>2. Value(<<0, a>>) = a
  <2> DEFINE g == Numbers(256, 0, <<0, a>>)
  <2>1. <<0, a>> \in Seq(Nat) /\ Len(<<0, a>>) = 2
    OBVIOUS
  <2>2. \A n \in 0..2 : g[n] = IF n = 0 THEN 0 ELSE 256 * g[n - 1] + <<0, a>>[n]
    <3>1. Recurses(g, 256, 0, <<0, a>>)
      BY <2>1, NumbersRecurse, ZenonT(60)
    <3> QED BY <2>1, <3>1 DEF Recurses
  <2> HIDE DEF g
  <2>3. g[0] = 0 /\ g[1] = 256 * g[0] + 0 /\ g[2] = 256 * g[1] + a
    BY <2>2
  <2> QED BY <2>1, <2>3 DEF Value, Number, g
<1> QED BY <1>1, <1>2

-----------------------------------------------------------------------------
(* Composite signatures: their encoding *)

\* The elements of two sequences of numbers put together, and a part of one.
IsJoin(all, front, back) ==
    /\ all \in Seq(Nat) /\ Len(all) = Len(front) + Len(back)
    /\ \A i \in 1..Len(front) : all[i] = front[i]
    /\ \A i \in 1..Len(back) : all[i + Len(front)] = back[i]

LEMMA Joined ==
    \A front, back \in Seq(Nat) : IsJoin(front \o back, front, back)
<1> SUFFICES ASSUME NEW front \in Seq(Nat), NEW back \in Seq(Nat),
                    NEW all, all = front \o back
             PROVE  IsJoin(all, front, back)
  OBVIOUS
<1>1. /\ all \in Seq(Nat) /\ Len(all) = Len(front) + Len(back)
      /\ \A i \in 1..(Len(front) + Len(back)) :
            all[i] = IF i <= Len(front) THEN front[i] ELSE back[i - Len(front)]
  BY ConcatProperties
<1>2. Len(front) \in Nat /\ Len(back) \in Nat
  OBVIOUS
<1>3. ASSUME NEW i \in 1..Len(back)
      PROVE  all[i + Len(front)] = back[i]
  <2>1. /\ i + Len(front) \in 1..(Len(front) + Len(back))
        /\ ~ (i + Len(front) <= Len(front))
    BY <1>2
  <2>2. i + Len(front) - Len(front) = i
    BY <1>2
  <2>3. all[i + Len(front)] = back[i + Len(front) - Len(front)]
    BY <1>1, <2>1
  <2> QED BY <2>2, <2>3
<1> QED BY <1>1, <1>2, <1>3 DEF IsJoin

IsPart(part, all, before) ==
    /\ before + Len(part) <= Len(all)
    /\ \A i \in 1..Len(part) : part[i] = all[before + i]

LEMMA Cut ==
    ASSUME NEW all \in Seq(Nat), NEW part \in Seq(Nat), NEW before \in Nat,
           IsPart(part, all, before)
    PROVE  SubSeq(all, before + 1, before + Len(part)) = part
<1> DEFINE cut == SubSeq(all, before + 1, before + Len(part))
<1>1. Len(part) \in Nat /\ Len(all) \in Nat /\ before + Len(part) <= Len(all)
  BY DEF IsPart
<1>2. \A i \in (before + 1)..(before + Len(part)) : all[i] \in Nat
  BY <1>1
<1>3. PICK m \in Int, n \in Int : m = before + 1 /\ n = before + Len(part)
  BY <1>1
<1>4. /\ SubSeq(all, m, n) \in Seq(Nat)
      /\ Len(SubSeq(all, m, n)) = IF m <= n THEN n - m + 1 ELSE 0
      /\ \A i \in 1..(n - m + 1) : SubSeq(all, m, n)[i] = all[m + i - 1]
  BY <1>2, <1>3, SubSeqProperties
<1>5. cut \in Seq(Nat) /\ Len(cut) = Len(part) /\ n - m + 1 = Len(part)
  BY <1>1, <1>3, <1>4
<1>6. ASSUME NEW i \in 1..Len(part)
      PROVE  cut[i] = part[i]
  <2>1. cut[i] = all[m + i - 1] /\ m + i - 1 = before + i
    BY <1>3, <1>4, <1>5
  <2> QED BY <2>1 DEF IsPart
<1> HIDE DEF cut
<1>7. cut = part
  BY <1>5, <1>6, SeqEqual
<1> QED BY <1>7 DEF cut

\* Cutting what was put together.
LEMMA CutJoined ==
    ASSUME NEW front \in Seq(Nat), NEW back \in Seq(Nat), NEW all, all = front \o back
    PROVE  /\ SubSeq(all, 1, Len(front)) = front
           /\ SubSeq(all, Len(front) + 1, Len(all)) = back
<1>1. IsJoin(all, front, back)
  BY Joined
<1>2. all \in Seq(Nat) /\ Len(all) = Len(front) + Len(back) /\ Len(front) \in Nat
  BY <1>1 DEF IsJoin
<1>3. IsPart(front, all, 0)
  BY <1>1 DEF IsJoin, IsPart
<1>4. IsPart(back, all, Len(front))
  <2>1. \A i \in 1..Len(back) : all[i + Len(front)] = back[i] /\ i + Len(front) = Len(front) + i
    BY <1>1, <1>2 DEF IsJoin
  <2> QED BY <1>2, <2>1 DEF IsPart
<1>5. SubSeq(all, 0 + 1, 0 + Len(front)) = front
  BY <1>2, <1>3, Cut
<1>6. SubSeq(all, Len(front) + 1, Len(front) + Len(back)) = back
  BY <1>2, <1>4, Cut
<1>7. 0 + 1 = 1 /\ 0 + Len(front) = Len(front)
  BY <1>2
<1> QED BY <1>2, <1>5, <1>6, <1>7

\* An element that is read: its content and what follows it.
Read(content, back) == [content |-> content, rest |-> back, ok |-> TRUE]

IsHeader(header, tag, length, long) ==
    /\ header \in Seq(Nat) /\ Len(header) = IF long THEN 3 ELSE 2
    /\ header[1] = tag /\ header[2] = IF long THEN 129 ELSE length
    /\ long => header[3] = length

LEMMA HeaderFacts ==
    ASSUME NEW tag \in Nat, NEW length \in Nat, NEW long \in BOOLEAN
    PROVE  IsHeader(Header(tag, length, long), tag, length, long)
BY DEF Header, IsHeader

IsElement(e, tag, content, long) ==
    /\ e \in Seq(Nat) /\ Len(e) = Len(content) + IF long THEN 3 ELSE 2
    /\ ~long => e[1] = tag /\ e[2] = Len(content)
    /\ \A back \in Seq(Nat) : d2i_element(tag, e \o back) = Read(content, back)

\* d2i_element reads back what Element wrote, in the short and in the long
\* form, and stops where the next element begins.
LEMMA ElementRead ==
    ASSUME NEW tag \in Nat, NEW content \in Seq(Nat), Len(content) < 128,
           NEW long \in BOOLEAN
    PROVE  IsElement(Element(tag, content, long), tag, content, long)
<1> SUFFICES ASSUME NEW back \in Seq(Nat), NEW e, e = Element(tag, content, long)
             PROVE  /\ e \in Seq(Nat) /\ Len(e) = Len(content) + IF long THEN 3 ELSE 2
                    /\ ~long => e[1] = tag /\ e[2] = Len(content)
                    /\ d2i_element(tag, e \o back) = Read(content, back)
  <2>1. <<>> \in Seq(Nat)
    OBVIOUS
  <2> QED BY <2>1 DEF IsElement
<1>1. PICK header : header = Header(tag, Len(content), long)
  OBVIOUS
<1>2. PICK h \in Nat : h = IF long THEN 3 ELSE 2
  OBVIOUS
<1>3. Len(content) \in Nat /\ Len(back) \in Nat
  OBVIOUS
<1>4. /\ header \in Seq(Nat) /\ Len(header) = h
      /\ header[1] = tag /\ header[2] = IF long THEN 129 ELSE Len(content)
      /\ long => header[3] = Len(content)
  <2>1. IsHeader(header, tag, Len(content), long)
    BY <1>1, <1>3, HeaderFacts
  <2> QED BY <1>2, <2>1 DEF IsHeader
<1>5. PICK element : element = header \o content
  OBVIOUS
<1>6. Element(tag, content, long) = element
  BY <1>1, <1>5 DEF Element
<1>7. IsJoin(element, header, content)
  BY <1>4, <1>5, Joined
<1>8. /\ element \in Seq(Nat) /\ Len(element) = h + Len(content)
      /\ \A i \in 1..h : element[i] = header[i]
      /\ \A i \in 1..Len(content) : element[i + h] = content[i]
  BY <1>4, <1>7 DEF IsJoin
<1>9. PICK bytes : bytes = element \o back
  OBVIOUS
<1>10. IsJoin(bytes, element, back)
  BY <1>8, <1>9, Joined
<1>11. /\ bytes \in Seq(Nat) /\ Len(bytes) = h + Len(content) + Len(back)
       /\ \A i \in 1..(h + Len(content)) : bytes[i] = element[i]
  BY <1>8, <1>10 DEF IsJoin
<1>12. /\ bytes[1] = tag /\ bytes[2] = (IF long THEN 129 ELSE Len(content))
       /\ bytes[h] = Len(content)
  <2>1. 1 \in 1..h /\ 2 \in 1..h /\ h \in 1..h /\ 1..h \subseteq 1..(h + Len(content))
    BY <1>2, <1>3
  <2>2. \A i \in 1..h : bytes[i] = header[i]
    BY <1>8, <1>11, <2>1
  <2>3. header[h] = Len(content)
    BY <1>2, <1>4
  <2> QED BY <1>4, <2>1, <2>2, <2>3
<1>13. IsPart(content, bytes, h)
  <2>1. ASSUME NEW i \in 1..Len(content)
        PROVE  content[i] = bytes[h + i]
    <3>1. h + i \in 1..(h + Len(content)) /\ h + i = i + h
      BY <1>3
    <3> QED BY <1>8, <1>11, <3>1
  <2>2. h + Len(content) =< Len(bytes)
    <3>1. Len(content) \in Nat /\ Len(back) \in Nat
      OBVIOUS
    <3> QED BY <1>11, <3>1
  <2> QED BY <2>1, <2>2, Zenon DEF IsPart
<1>14. SubSeq(bytes, h + 1, h + Len(content)) = content
  BY <1>11, <1>13, Cut
<1>15. SubSeq(bytes, Len(element) + 1, Len(bytes)) = back
  BY <1>8, <1>9, CutJoined
<1>16. Len(element) = h + Len(content)
  BY <1>8
<1>17. (Len(bytes) >= 3 /\ bytes[2] = 129) <=> long
  <2>1. CASE long
    BY <1>2, <1>3, <1>11, <1>12, <2>1
  <2>2. CASE ~long
    <3>1. bytes[2] = Len(content)
      BY <1>12, <2>2
    <3>2. PICK n \in 0..127 : n = Len(content)
      <4>1. \A n \in Nat : n < 128 => n \in 0..127
        OBVIOUS
      <4> QED BY <1>3, <4>1, Zenon
    <3>3. n # 129
      OBVIOUS
    <3>4. bytes[2] # 129
      BY <3>1, <3>2, <3>3
    <3> QED BY <2>2, <3>4
  <2> QED BY <2>1, <2>2
<1>18. ~ (Len(bytes) < 2 \/ bytes[1] # tag)
  BY <1>2, <1>3, <1>11, <1>12
<1>19. ~ ((~long /\ bytes[2] >= 128) \/ Len(bytes) < h + Len(content))
  BY <1>3, <1>11, <1>12
<1>20. d2i_element(tag, bytes)
         = [content |-> SubSeq(bytes, h + 1, h + Len(content)),
            rest |-> SubSeq(bytes, h + Len(content) + 1, Len(bytes)), ok |-> TRUE]
  BY <1>2, <1>12, <1>17, <1>18, <1>19 DEF d2i_element
<1>21. d2i_element(tag, bytes) = Read(content, back)
  BY <1>14, <1>15, <1>16, <1>20 DEF Read
<1>22. ~long => element[1] = tag /\ element[2] = Len(content)
  BY <1>2, <1>4, <1>8
<1>23. Len(element) = Len(content) + IF long THEN 3 ELSE 2
  BY <1>2, <1>3, <1>8
<1>24. e = element
  BY <1>6
<1> QED BY <1>8, <1>9, <1>21, <1>22, <1>23, <1>24

\* Bytes that end before the element does.
LEMMA ElementShort ==
    ASSUME NEW bytes \in Seq(Nat), NEW tag, Len(bytes) < 2 \/
               (Len(bytes) >= 2 /\ bytes[2] < 128 /\ Len(bytes) < 2 + bytes[2])
    PROVE  d2i_element(tag, bytes) = NoElement
<1>1. CASE Len(bytes) < 2
  BY <1>1 DEF d2i_element
<1>2. CASE Len(bytes) >= 2 /\ bytes[2] < 128 /\ Len(bytes) < 2 + bytes[2]
  <2>1. 2 \in 1..Len(bytes) /\ bytes[2] \in Nat
    BY <1>2
  <2>2. bytes[2] # 129 /\ ~ (bytes[2] >= 128)
    BY <1>2, <2>1
  <2> QED BY <1>2, <2>1, <2>2 DEF d2i_element
<1> QED BY <1>1, <1>2

\* What the decoder makes of the encoding of two INTEGERs.
Decoded(r, s, back) ==
    IF IntegerOk(r) /\ IntegerOk(s) THEN [ok |-> TRUE, r |-> r, s |-> s, rest |-> back]
    ELSE [ok |-> FALSE, r |-> <<>>, s |-> <<>>, rest |-> <<>>]

\* A DER encoding that may be cut short or lengthened.
IsDer(der, r, s, outer) ==
    /\ der \in Seq(Nat) /\ Len(der) \in 6..120
    /\ ~outer => der[1] = SEQUENCE /\ der[2] = Len(der) - 2
    /\ ~outer => der[2] # SEQUENCE
    /\ \A back \in Seq(Nat) : d2i_ECDSA_SIG(der \o back) = Decoded(r, s, back)

\* d2i_ECDSA_SIG reads the contents that SignatureDer wrote, whatever the
\* length forms, and leaves what follows.
LEMMA DerRead ==
    ASSUME NEW r \in Seq(Nat), NEW s \in Seq(Nat), Len(r) <= 3, Len(s) <= 2,
           NEW inner \in BOOLEAN, NEW outer \in BOOLEAN
    PROVE  IsDer(SignatureDer(r, s, inner, outer), r, s, outer)
<1>1. PICK re, se : re = Element(INTEGER, r, inner) /\ se = Element(INTEGER, s, FALSE)
  OBVIOUS
<1>2. INTEGER \in Nat /\ SEQUENCE \in Nat /\ Len(r) \in Nat /\ Len(s) \in Nat
  BY DEF INTEGER, SEQUENCE
<1>3. /\ re \in Seq(Nat) /\ Len(re) = Len(r) + IF inner THEN 3 ELSE 2
      /\ \A back \in Seq(Nat) : d2i_element(INTEGER, re \o back) = Read(r, back)
  <2>1. Len(r) < 128
    BY <1>2
  <2>2. IsElement(re, INTEGER, r, inner)
    BY <1>1, <1>2, <2>1, ElementRead
  <2> QED BY <2>2 DEF IsElement
<1>4. /\ se \in Seq(Nat) /\ Len(se) = Len(s) + 2
      /\ \A back \in Seq(Nat) : d2i_element(INTEGER, se \o back) = Read(s, back)
  <2>1. Len(s) < 128
    BY <1>2
  <2>2. IsElement(se, INTEGER, s, FALSE)
    BY <1>1, <1>2, <2>1, ElementRead
  <2> QED BY <2>2 DEF IsElement
<1>5. PICK body : body = re \o se
  OBVIOUS
<1>6. body \in Seq(Nat) /\ Len(body) = Len(re) + Len(se)
  <2>1. IsJoin(body, re, se)
    BY <1>3, <1>4, <1>5, Joined
  <2> QED BY <2>1 DEF IsJoin
<1>7. Len(body) \in Nat /\ Len(body) >= 4 /\ Len(body) <= 10
  <2>1. PICK i \in 2..3 : i = IF inner THEN 3 ELSE 2
    OBVIOUS
  <2>2. Len(body) = Len(r) + i + (Len(s) + 2)
    BY <1>3, <1>4, <1>6, <2>1
  <2>3. PICK n \in 0..3, k \in 0..2 : n = Len(r) /\ k = Len(s)
    <3>1. \A n \in Nat : (n <= 3 => n \in 0..3) /\ (n <= 2 => n \in 0..2)
      OBVIOUS
    <3> QED BY <1>2, <3>1, Zenon
  <2>4. n + i + (k + 2) \in Nat /\ n + i + (k + 2) >= 4 /\ n + i + (k + 2) <= 10
    OBVIOUS
  <2>5. Len(body) = n + i + (k + 2)
    BY <2>2, <2>3
  <2> QED BY <2>4, <2>5
<1>8. PICK der : der = Element(SEQUENCE, body, outer)
  OBVIOUS
<1>9. der = SignatureDer(r, s, inner, outer)
  BY <1>1, <1>5, <1>8 DEF SignatureDer
<1>10. /\ der \in Seq(Nat) /\ Len(der) = Len(body) + IF outer THEN 3 ELSE 2
       /\ ~outer => der[1] = SEQUENCE /\ der[2] = Len(body)
       /\ \A back \in Seq(Nat) : d2i_element(SEQUENCE, der \o back) = Read(body, back)
  <2>1. Len(body) < 128
    BY <1>7
  <2>2. IsElement(der, SEQUENCE, body, outer)
    BY <1>2, <1>6, <1>8, <2>1, ElementRead
  <2> QED BY <2>2 DEF IsElement
<1>11. ASSUME NEW back \in Seq(Nat)
       PROVE  d2i_ECDSA_SIG(der \o back) = Decoded(r, s, back)
  <2>1. d2i_element(SEQUENCE, der \o back) = Read(body, back)
    BY <1>10
  <2>2. d2i_element(INTEGER, body) = Read(r, se)
    BY <1>3, <1>4, <1>5
  <2>3. d2i_element(INTEGER, se) = Read(s, <<>>)
    <3>1. <<>> \in Seq(Nat) /\ se \o <<>> = se
      BY <1>4, ConcatEmptySeq
    <3> QED BY <1>4, <3>1
  <2>4. /\ Read(body, back).content = body /\ Read(body, back).rest = back /\ Read(body, back).ok
        /\ Read(r, se).content = r /\ Read(r, se).rest = se /\ Read(r, se).ok
        /\ Read(s, <<>>).content = s /\ Read(s, <<>>).rest = <<>> /\ Read(s, <<>>).ok
    BY DEF Read
  <2> QED BY <2>1, <2>2, <2>3, <2>4 DEF d2i_ECDSA_SIG, Decoded
<1>12. ~outer => der[2] # SEQUENCE
  BY <1>7, <1>10 DEF SEQUENCE
<1>13. Len(der) \in 6..120 /\ Len(der) - 2 = (IF outer THEN Len(body) + 1 ELSE Len(body))
  <2>1. PICK n \in 4..10 : n = Len(body)
    <3>1. \A n \in Nat : n >= 4 /\ n <= 10 => n \in 4..10
      OBVIOUS
    <3> QED BY <1>7, <3>1, Zenon
  <2>2. n + 3 \in 6..120 /\ n + 2 \in 6..120 /\ n + 3 - 2 = n + 1 /\ n + 2 - 2 = n
    OBVIOUS
  <2>3. CASE outer
    BY <1>10, <2>1, <2>2, <2>3
  <2>4. CASE ~outer
    BY <1>10, <2>1, <2>2, <2>4
  <2> QED BY <2>3, <2>4
<1> QED BY <1>9, <1>10, <1>11, <1>12, <1>13 DEF IsDer

\* The content that an integer gets is the one that decodes to it.
IsContent(c, n) ==
    /\ c \in Seq(Nat) /\ Len(c) \in 1..2
    /\ IntegerOk(c) /\ ~Negative(c) /\ Value(c) = n

LEMMA ContentGood ==
    ASSUME NEW n \in Nat
    PROVE  IsContent(IntegerContent(n), n)
<1>1. PICK c : c = IntegerContent(n)
  OBVIOUS
<1>2. CASE n >= 128
  <2>1. c = <<0, n>>
    BY <1>1, <1>2 DEF IntegerContent
  <2>2. c \in Seq(Nat) /\ Len(c) = 2 /\ c[1] = 0 /\ c[2] = n
    BY <2>1
  <2>3. IntegerOk(c) /\ ~Negative(c)
    BY <1>2, <2>2 DEF IntegerOk, Negative
  <2>4. Value(c) = n
    BY <2>1, ShortValues
  <2>5. Len(c) \in 1..2
    BY <2>2
  <2> QED BY <1>1, <2>2, <2>3, <2>4, <2>5 DEF IsContent
<1>3. CASE ~ (n >= 128)
  <2>1. c = <<n>>
    BY <1>1, <1>3 DEF IntegerContent
  <2>2. c \in Seq(Nat) /\ Len(c) = 1 /\ c[1] = n
    BY <2>1
  <2>3. IntegerOk(c) /\ ~Negative(c)
    BY <1>3, <2>2 DEF IntegerOk, Negative
  <2>4. Value(c) = n
    BY <2>1, ShortValues
  <2>5. Len(c) \in 1..2
    BY <2>2
  <2> QED BY <1>1, <2>2, <2>3, <2>4, <2>5 DEF IsContent
<1> QED BY <1>2, <1>3

IsShort(c, most) == c \in Seq(Nat) /\ Len(c) <= most

LEMMA ContentShort ==
    ASSUME NEW n \in Nat
    PROVE  IsShort(IntegerContent(n), 2) /\ IsShort(IntegerContent(n), 3)
<1>1. PICK c : c = IntegerContent(n)
  OBVIOUS
<1>2. IsContent(c, n)
  BY <1>1, ContentGood
<1>3. c \in Seq(Nat) /\ Len(c) \in 1..2
  BY <1>2 DEF IsContent
<1>4. PICK k \in 1..2 : k = Len(c)
  BY <1>3
<1>5. k <= 2 /\ k <= 3
  OBVIOUS
<1> QED BY <1>1, <1>3, <1>4, <1>5 DEF IsShort

\* The contents that a tail may carry.
Contents(c) == {c, <<0>> \o c, Tail(c), <<0>>, <<>>}

LEMMA LongerContent ==
    ASSUME NEW c \in Seq(Nat), Len(c) \in 1..2, NEW x, x = << 0 >> \o c
    PROVE  x \in Seq(Nat) /\ Len(x) = 1 + Len(c) /\ x[1] = 0 /\ x[2] = c[1]
<1>1. <<0>> \in Seq(Nat) /\ Len(<<0>>) = 1 /\ <<0>>[1] = 0
  OBVIOUS
<1>2. IsJoin(x, <<0>>, c)
  BY <1>1, Joined
<1>3. /\ x \in Seq(Nat) /\ Len(x) = 1 + Len(c) /\ x[1] = 0
      /\ \A i \in 1..Len(c) : x[i + 1] = c[i]
  BY <1>1, <1>2 DEF IsJoin
<1>4. 1 \in 1..Len(c) /\ 1 + 1 = 2
  OBVIOUS
<1> QED BY <1>3, <1>4

LEMMA ShorterContent ==
    ASSUME NEW c \in Seq(Nat), Len(c) \in 1..2, NEW x, x = Tail(c)
    PROVE  x \in Seq(Nat) /\ Len(x) = Len(c) - 1 /\ (Len(c) = 2 => x[1] = c[2])
<1>1. c # <<>>
  BY EmptySeq
<1>2. /\ x \in Seq(Nat) /\ Len(x) = Len(c) - 1
      /\ \A i \in 1..Len(x) : x[i] = c[i + 1]
  BY <1>1, HeadTailProperties
<1>3. Len(c) = 2 => 1 \in 1..Len(x) /\ 1 + 1 = 2
  <2>1. Len(x) = Len(c) - 1
    BY <1>2
  <2> QED BY <2>1
<1> QED BY <1>2, <1>3

LEMMA ContentsShort ==
    ASSUME NEW n \in Nat, NEW r \in Contents(IntegerContent(n))
    PROVE  r \in Seq(Nat) /\ Len(r) <= 3
<1>1. PICK c : c = IntegerContent(n)
  OBVIOUS
<1>2. c \in Seq(Nat) /\ Len(c) \in 1..2
  BY <1>1, ContentGood DEF IsContent
<1>3. PICK x, y : x = <<0>> \o c /\ y = Tail(c)
  OBVIOUS
<1>4. x \in Seq(Nat) /\ Len(x) = 1 + Len(c)
  BY <1>2, <1>3, LongerContent
<1>5. y \in Seq(Nat) /\ Len(y) = Len(c) - 1
  BY <1>2, <1>3, ShorterContent
<1>6. r \in {c, x, y, <<0>>, <<>>}
  BY <1>1, <1>3 DEF Contents
<1>7. <<0>> \in Seq(Nat) /\ Len(<<0>>) = 1 /\ <<>> \in Seq(Nat) /\ Len(<<>>) = 0
  OBVIOUS
<1>8. PICK k \in 1..2 : k = Len(c)
  BY <1>2
<1>9. k <= 3 /\ 1 + k <= 3 /\ k - 1 <= 3 /\ 1 <= 3 /\ 0 <= 3
  OBVIOUS
<1>10. /\ Len(c) <= 3 /\ Len(x) <= 3 /\ Len(y) <= 3
       /\ Len(<<0>>) <= 3 /\ Len(<<>>) <= 3
  BY <1>4, <1>5, <1>7, <1>8, <1>9
<1> QED BY <1>2, <1>4, <1>5, <1>6, <1>7, <1>10

\* Only the one that was encoded is an INTEGER above zero.
LEMMA ContentsRight ==
    ASSUME NEW n \in Nat, NEW r \in Contents(IntegerContent(n)),
           IntegerOk(r), ~Negative(r), Value(r) # 0
    PROVE  r = IntegerContent(n)
<1>1. PICK c : c = IntegerContent(n)
  OBVIOUS
<1>2. c \in Seq(Nat) /\ Len(c) \in 1..2 /\ ~Negative(c)
  BY <1>1, ContentGood DEF IsContent
<1>3. PICK x, y : x = <<0>> \o c /\ y = Tail(c)
  OBVIOUS
<1>4. r \in {c, x, y, <<0>>, <<>>}
  BY <1>1, <1>3 DEF Contents
<1>5. r # <<>>
  <2>1. Len(<<>>) = 0
    OBVIOUS
  <2> QED BY <2>1 DEF IntegerOk
<1>6. r # <<0>>
  BY ShortValues
<1>7. r # x
  <2>1. Len(x) > 1 /\ x[1] = 0 /\ x[2] = c[1]
    BY <1>2, <1>3, LongerContent
  <2>2. c[1] \in Nat /\ ~ (c[1] >= 128)
    BY <1>2 DEF Negative
  <2>3. x[2] < 128
    BY <2>1, <2>2
  <2> QED BY <2>1, <2>3 DEF IntegerOk
<1>8. r # y
  <2>1. Len(y) = Len(c) - 1 /\ (Len(c) = 2 => y[1] = c[2])
    BY <1>2, <1>3, ShorterContent
  <2>2. CASE n >= 128
    <3>1. c = <<0, n>>
      BY <1>1, <2>2 DEF IntegerContent
    <3>2. Len(c) = 2 /\ c[2] = n
      BY <3>1
    <3> QED BY <2>1, <2>2, <3>2 DEF Negative
  <2>3. CASE ~ (n >= 128)
    <3>1. c = <<n>>
      BY <1>1, <2>3 DEF IntegerContent
    <3>2. Len(c) = 1
      BY <3>1
    <3>3. Len(y) = 0
      BY <2>1, <3>2
    <3> QED BY <3>3 DEF IntegerOk
  <2> QED BY <2>2, <2>3
<1> QED BY <1>1, <1>4, <1>5, <1>6, <1>7, <1>8

\* What the check of the SM2 part says of an encoding, long or short.
LEMMA ValidDer ==
    ASSUME NEW r \in Seq(Nat), NEW s \in Seq(Nat), Len(r) <= 3, Len(s) <= 2,
           NEW inner \in BOOLEAN, NEW outer \in BOOLEAN,
           NEW der, der = SignatureDer(r, s, inner, outer)
    PROVE  /\ d2i_ECDSA_SIG(der) = Decoded(r, s, <<>>)
           /\ sm2_signature_der_is_valid(der)
                <=> /\ IntegerOk(r) /\ ~Negative(r) /\ Value(r) # 0
                    /\ IntegerOk(s) /\ ~Negative(s) /\ Value(s) # 0
                    /\ SignatureDer(r, s, FALSE, FALSE) = der
<1>1. IsDer(der, r, s, outer)
  BY DerRead
<1>2. der \in Seq(Nat) /\ <<>> \in Seq(Nat)
  BY <1>1 DEF IsDer
<1>3. der \o <<>> = der
  BY <1>2, ConcatEmptySeq
<1>4. d2i_ECDSA_SIG(der) = Decoded(r, s, <<>>)
  BY <1>1, <1>2, <1>3 DEF IsDer
<1>5. CASE IntegerOk(r) /\ IntegerOk(s)
  <2>1. d2i_ECDSA_SIG(der) = [ok |-> TRUE, r |-> r, s |-> s, rest |-> <<>>]
    BY <1>4, <1>5 DEF Decoded
  <2>2. /\ d2i_ECDSA_SIG(der).ok /\ d2i_ECDSA_SIG(der).rest = <<>>
        /\ d2i_ECDSA_SIG(der).r = r /\ d2i_ECDSA_SIG(der).s = s
    BY <2>1
  <2> QED BY <1>4, <1>5, <2>2 DEF sm2_signature_der_is_valid
<1>6. CASE ~ (IntegerOk(r) /\ IntegerOk(s))
  <2>1. ~ d2i_ECDSA_SIG(der).ok
    BY <1>4, <1>6 DEF Decoded
  <2> QED BY <1>4, <1>6, <2>1 DEF sm2_signature_der_is_valid
<1> QED BY <1>5, <1>6

\* Bytes that do not begin with a whole SEQUENCE do not decode.
LEMMA NoSequence ==
    ASSUME NEW bytes, d2i_element(SEQUENCE, bytes) = NoElement
    PROVE  ~ sm2_signature_der_is_valid(bytes)
<1>1. ~ d2i_element(SEQUENCE, bytes).ok
  BY DEF NoElement
<1>2. ~ d2i_ECDSA_SIG(bytes).ok
  BY <1>1 DEF d2i_ECDSA_SIG
<1> QED BY <1>2 DEF sm2_signature_der_is_valid

LEMMA EmptyInvalid ==
    ~ sm2_signature_der_is_valid(<<>>)
<1>1. PICK bytes : bytes = <<>>
  OBVIOUS
<1>2. Len(bytes) = 0
  BY <1>1
<1>3. Len(bytes) < 2
  BY <1>2
<1>4. d2i_element(SEQUENCE, bytes) = NoElement
  BY <1>3, Zenon DEF d2i_element
<1> QED BY <1>1, <1>4, NoSequence

LEMMA FrontBytes ==
    ASSUME NEW all \in Seq(Nat), Len(all) >= 3
    PROVE  Front(all) \in Seq(Nat) /\ Len(Front(all)) = Len(all) - 1 /\ Front(all)[2] = all[2]
<1>1. PICK m \in Int, n \in Int : m = 1 /\ n = Len(all) - 1
  OBVIOUS
<1>2. \A i \in m..n : all[i] \in Nat
  BY <1>1
<1>3. /\ SubSeq(all, m, n) \in Seq(Nat)
      /\ Len(SubSeq(all, m, n)) = IF m <= n THEN n - m + 1 ELSE 0
      /\ \A i \in 1..(n - m + 1) : SubSeq(all, m, n)[i] = all[m + i - 1]
  BY <1>2, SubSeqProperties
<1>4. PICK f : f = Front(all)
  OBVIOUS
<1>5. f = SubSeq(all, m, n)
  BY <1>1, <1>4 DEF Front
<1>6. Len(f) = Len(all) - 1
  BY <1>1, <1>3, <1>5
<1>7. 2 \in 1..(n - m + 1) /\ m + 2 - 1 = 2
  BY <1>1
<1>8. f[2] = all[2]
  BY <1>3, <1>5, <1>7
<1> QED BY <1>3, <1>4, <1>5, <1>6, <1>8

\* One byte more, one less at either end, or none at all.
LEMMA InvalidDer ==
    ASSUME NEW r \in Seq(Nat), NEW s \in Seq(Nat), Len(r) <= 3, Len(s) <= 2,
           NEW der, der = SignatureDer(r, s, FALSE, FALSE)
    PROVE  /\ ~ sm2_signature_der_is_valid(der \o <<0>>)
           /\ ~ sm2_signature_der_is_valid(Front(der))
           /\ ~ sm2_signature_der_is_valid(Tail(der))
           /\ ~ sm2_signature_der_is_valid(<<>>)
<1>1. IsDer(der, r, s, FALSE)
  BY DerRead
<1>2. /\ der \in Seq(Nat) /\ Len(der) \in 6..120
      /\ der[1] = SEQUENCE /\ der[2] = Len(der) - 2 /\ der[2] # SEQUENCE
  BY <1>1 DEF IsDer
<1>3. PICK n \in 6..120 : n = Len(der)
  BY <1>2
<1>4. ~ sm2_signature_der_is_valid(der \o <<0>>)
  <2>1. <<0>> \in Seq(Nat) /\ <<0>> # <<>>
    OBVIOUS
  <2>2. d2i_ECDSA_SIG(der \o <<0>>) = Decoded(r, s, <<0>>)
    BY <1>1, <2>1 DEF IsDer
  <2>3. ~ (d2i_ECDSA_SIG(der \o <<0>>).ok /\ d2i_ECDSA_SIG(der \o <<0>>).rest = <<>>)
    <3>1. CASE IntegerOk(r) /\ IntegerOk(s)
      <4>1. Decoded(r, s, <<0>>).rest = <<0>>
        BY <3>1 DEF Decoded
      <4> QED BY <2>1, <2>2, <4>1
    <3>2. CASE ~ (IntegerOk(r) /\ IntegerOk(s))
      <4>1. ~ Decoded(r, s, <<0>>).ok
        BY <3>2 DEF Decoded
      <4> QED BY <2>2, <4>1
    <3> QED BY <3>1, <3>2
  <2> QED BY <2>3 DEF sm2_signature_der_is_valid
<1>5. ~ sm2_signature_der_is_valid(Front(der))
  <2>1. PICK f : f = Front(der)
    OBVIOUS
  <2>2. f \in Seq(Nat) /\ Len(f) = n - 1 /\ f[2] = n - 2
    <3>1. n >= 3
      OBVIOUS
    <3> QED BY <1>2, <1>3, <2>1, <3>1, FrontBytes
  <2>3. n - 1 >= 2 /\ n - 2 < 128 /\ n - 1 < 2 + (n - 2)
    OBVIOUS
  <2>4. d2i_element(SEQUENCE, f) = NoElement
    <3>1. Len(f) >= 2 /\ f[2] < 128 /\ Len(f) < 2 + f[2]
      BY <2>2, <2>3
    <3> QED BY <2>2, <3>1, ElementShort
  <2> QED BY <2>1, <2>4, NoSequence
<1>6. ~ sm2_signature_der_is_valid(Tail(der))
  <2>1. PICK f : f = Tail(der)
    OBVIOUS
  <2>2. f[1] = der[2]
    <3>1. der # <<>>
      <4>1. Len(<<>>) = 0 /\ n # 0
        OBVIOUS
      <4> QED BY <1>3, <4>1
    <3>2. Len(f) = Len(der) - 1 /\ \A i \in 1..Len(f) : f[i] = der[i + 1]
      BY <1>2, <2>1, <3>1, HeadTailProperties
    <3>3. 1 \in 1..(n - 1) /\ 1 + 1 = 2
      OBVIOUS
    <3> QED BY <1>3, <3>2, <3>3
  <2>3. d2i_element(SEQUENCE, f) = NoElement
    BY <1>2, <2>2 DEF d2i_element
  <2> QED BY <2>1, <2>3, NoSequence
<1>7. ~ sm2_signature_der_is_valid(<<>>)
  BY EmptyInvalid
<1> QED BY <1>4, <1>5, <1>6, <1>7

-----------------------------------------------------------------------------
(* Composite signatures: what names a call *)

\* The message that both components sign, byte by byte.
IsMessage(m, message, ctx) ==
    /\ m \in Seq(Nat) /\ Len(m) = Len(ctx) + 4
    /\ m[3] = Len(ctx)
    /\ \A i \in 1..Len(ctx) : m[i + 3] = ctx[i]
    /\ m[Len(ctx) + 4] = message

Allowed(message, ctx) ==
    message \in Digests /\ ctx \in Contexts /\ Len(ctx) <= COMPOSITE_MAX_CONTEXT_BYTES

LEMMA AllowedTypes ==
    ASSUME NEW message, NEW ctx, Allowed(message, ctx)
    PROVE  /\ message \in Nat /\ ctx \in Seq(Nat) /\ Len(ctx) \in Nat
           /\ Len(ctx) <= 255 /\ COMPOSITE_MAX_CONTEXT_BYTES \in Nat
<1>1. ctx \in Seq(0..1)
  BY SigAssumption DEF Allowed
<1>2. ctx \in Seq(Nat)
  BY <1>1
<1> QED BY <1>2, SigAssumption DEF Allowed

LEMMA KeysAreNumbers == Keys \subseteq Nat /\ Nonces \subseteq Nat
BY SigAssumption

LEMMA MessageBytes ==
    ASSUME NEW message, NEW ctx, Allowed(message, ctx)
    PROVE  /\ IsMessage(composite_build_message(message, ctx), message, ctx)
           /\ composite_build_message(message, ctx) # Nothing
<1>1. /\ message \in Nat /\ ctx \in Seq(Nat) /\ Len(ctx) \in Nat
      /\ Len(ctx) <= 255 /\ COMPOSITE_MAX_CONTEXT_BYTES \in Nat
  BY AllowedTypes
<1>2. Len(ctx) % 256 = Len(ctx)
  BY <1>1
<1>3. PICK start : start = <<5>> \o <<6>> \o <<Len(ctx)>>
  OBVIOUS
<1>4. start \in Seq(Nat) /\ Len(start) = 3 /\ start[3] = Len(ctx)
  BY <1>1, <1>3
<1>5. PICK most : most = start \o ctx
  OBVIOUS
<1>6. IsJoin(most, start, ctx)
  BY <1>1, <1>4, <1>5, Joined
<1>7. PICK m : m = most \o <<message>>
  OBVIOUS
<1>8. most \in Seq(Nat) /\ <<message>> \in Seq(Nat) /\ Len(<<message>>) = 1
  BY <1>1, <1>6 DEF IsJoin
<1>9. IsJoin(m, most, <<message>>)
  BY <1>7, <1>8, Joined
<1>10. composite_build_message(message, ctx) = m
  <2>1. ~ (Len(ctx) > COMPOSITE_MAX_CONTEXT_BYTES)
    BY <1>1 DEF Allowed
  <2> QED BY <1>2, <1>3, <1>5, <1>7, <2>1 DEF composite_build_message, Prefix, Label
<1>11. /\ most \in Seq(Nat) /\ Len(most) = 3 + Len(ctx)
       /\ \A i \in 1..3 : most[i] = start[i]
       /\ \A i \in 1..Len(ctx) : most[i + 3] = ctx[i]
  BY <1>4, <1>6 DEF IsJoin
<1>12. /\ m \in Seq(Nat) /\ Len(m) = Len(most) + 1
       /\ \A i \in 1..Len(most) : m[i] = most[i]
       /\ m[1 + Len(most)] = message
  BY <1>8, <1>9 DEF IsJoin
<1>13. 1 + Len(most) = Len(ctx) + 4 /\ Len(m) = Len(ctx) + 4
  BY <1>1, <1>11, <1>12
<1>14. ASSUME NEW i \in 1..Len(ctx)
       PROVE  m[i + 3] = ctx[i]
  <2>1. i + 3 \in 1..Len(most)
    <3>1. Len(ctx) \in Nat /\ Len(most) = 3 + Len(ctx)
      BY <1>1, <1>11
    <3> QED BY <3>1
  <2> QED BY <1>11, <1>12, <2>1
<1>15. m[3] = Len(ctx)
  <2>1. 3 \in 1..Len(most) /\ 3 \in 1..3
    <3>1. Len(ctx) \in Nat /\ Len(most) = 3 + Len(ctx)
      BY <1>1, <1>11
    <3> QED BY <3>1
  <2> QED BY <1>4, <1>11, <1>12, <2>1
<1>16. IsMessage(m, message, ctx)
  BY <1>12, <1>13, <1>14, <1>15 DEF IsMessage
<1>17. m # <<>>
  BY <1>1, <1>13
<1> QED BY <1>10, <1>16, <1>17 DEF Nothing

\* It names the message and the whole context.
LEMMA MessageNames ==
    ASSUME NEW message, NEW ctx, Allowed(message, ctx),
           NEW message2, NEW ctx2, Allowed(message2, ctx2), NEW m,
           IsMessage(m, message, ctx), IsMessage(m, message2, ctx2)
    PROVE  message = message2 /\ ctx = ctx2
<1>1. ctx \in Seq(Nat) /\ ctx2 \in Seq(Nat)
  BY AllowedTypes
<1>2. Len(ctx) = Len(ctx2)
  BY DEF IsMessage
<1>3. message = message2
  BY <1>2 DEF IsMessage
<1>4. \A i \in 1..Len(ctx) : ctx[i] = ctx2[i]
  BY <1>2 DEF IsMessage
<1>5. ctx = ctx2
  BY <1>1, <1>2, <1>4, SeqEqual
<1> QED BY <1>3, <1>5

\* The Dilithium part, byte by byte.
IsDilithium(d, key, message, ctx) ==
    /\ d \in Seq(Nat) /\ Len(d) = DILITHIUM_SIGNATURE_BYTES
    /\ d[1] = key /\ d[5] = Len(ctx)
    /\ \A i \in 1..Len(ctx) : d[i + 5] = ctx[i]
    /\ d[Len(ctx) + 6] = message

DilithiumPart(key, message, ctx, nonce) ==
    dilithium_sign(key, composite_build_message(message, ctx), nonce)

LEMMA DilithiumBytes ==
    ASSUME NEW key \in Keys, NEW nonce \in Nonces, NEW message, NEW ctx, Allowed(message, ctx)
    PROVE  IsDilithium(DilithiumPart(key, message, ctx, nonce), key, message, ctx)
<1>1. /\ message \in Nat /\ ctx \in Seq(Nat) /\ Len(ctx) \in Nat
      /\ COMPOSITE_MAX_CONTEXT_BYTES \in Nat
  BY AllowedTypes
<1>2. key \in Nat /\ nonce \in Nat
  BY KeysAreNumbers
<1>3. PICK m : m = composite_build_message(message, ctx)
  OBVIOUS
<1>4. IsMessage(m, message, ctx)
  BY <1>3, MessageBytes
<1>5. m \in Seq(Nat) /\ Len(m) = Len(ctx) + 4
  BY <1>4 DEF IsMessage
<1>6. PICK most : most = <<key, nonce>> \o m
  OBVIOUS
<1>7. <<key, nonce>> \in Seq(Nat) /\ Len(<<key, nonce>>) = 2 /\ <<key, nonce>>[1] = key
  BY <1>2
<1>8. IsJoin(most, <<key, nonce>>, m)
  BY <1>5, <1>6, <1>7, Joined
<1>9. /\ most \in Seq(Nat) /\ Len(most) = 2 + Len(m)
      /\ most[1] = key
      /\ \A i \in 1..Len(m) : most[i + 2] = m[i]
  BY <1>7, <1>8 DEF IsJoin
<1>10. PICK room \in Nat : room = DILITHIUM_SIGNATURE_BYTES - 2 - Len(m)
  <2>1. Len(ctx) <= COMPOSITE_MAX_CONTEXT_BYTES
    BY DEF Allowed
  <2>2. DILITHIUM_SIGNATURE_BYTES - 2 - Len(m) \in Nat
    BY <1>1, <1>5, <2>1 DEF DILITHIUM_SIGNATURE_BYTES
  <2> QED BY <2>2
<1>11. PICK fill : fill = [i \in 1..room |-> 9]
  OBVIOUS
<1>12. fill \in Seq(Nat) /\ Len(fill) = room
  BY <1>11
<1>13. PICK d : d = most \o fill
  OBVIOUS
<1>14. d = DilithiumPart(key, message, ctx, nonce)
  BY <1>3, <1>6, <1>10, <1>11, <1>13 DEF DilithiumPart, dilithium_sign
<1>15. IsJoin(d, most, fill)
  BY <1>9, <1>12, <1>13, Joined
<1>16. /\ d \in Seq(Nat) /\ Len(d) = Len(most) + room
       /\ \A i \in 1..Len(most) : d[i] = most[i]
  BY <1>12, <1>15 DEF IsJoin
<1>17. Len(d) = DILITHIUM_SIGNATURE_BYTES /\ Len(most) = Len(ctx) + 6
  BY <1>1, <1>5, <1>9, <1>10, <1>16 DEF DILITHIUM_SIGNATURE_BYTES
<1>18. \A i \in 1..Len(m) : i + 2 \in 1..Len(most)
  BY <1>1, <1>5, <1>9
<1>19. \A i \in 1..Len(m) : d[i + 2] = m[i]
  BY <1>9, <1>16, <1>18
<1>20. d[1] = key
  BY <1>1, <1>9, <1>16, <1>17
<1>21. d[5] = Len(ctx)
  <2>1. 3 \in 1..Len(m) /\ 3 + 2 = 5
    BY <1>1, <1>5
  <2> QED BY <1>4, <1>19, <2>1 DEF IsMessage
<1>22. d[Len(ctx) + 6] = message
  <2>1. Len(ctx) + 4 \in 1..Len(m) /\ (Len(ctx) + 4) + 2 = Len(ctx) + 6
    BY <1>1, <1>5
  <2> QED BY <1>4, <1>19, <2>1 DEF IsMessage
<1>23. ASSUME NEW i \in 1..Len(ctx)
       PROVE  d[i + 5] = ctx[i]
  <2>1. i + 3 \in 1..Len(m) /\ (i + 3) + 2 = i + 5
    BY <1>1, <1>5
  <2> QED BY <1>4, <1>19, <2>1 DEF IsMessage
<1> QED BY <1>14, <1>16, <1>17, <1>20, <1>21, <1>22, <1>23 DEF IsDilithium

\* It names the call: the key, the message and the whole context.
LEMMA DilithiumNames ==
    ASSUME NEW key, NEW message, NEW ctx, Allowed(message, ctx),
           NEW key2, NEW message2, NEW ctx2, Allowed(message2, ctx2), NEW d,
           IsDilithium(d, key, message, ctx), IsDilithium(d, key2, message2, ctx2)
    PROVE  key = key2 /\ message = message2 /\ ctx = ctx2
<1>1. ctx \in Seq(Nat) /\ ctx2 \in Seq(Nat)
  BY AllowedTypes
<1>2. Len(ctx) = Len(ctx2) /\ key = key2
  BY DEF IsDilithium
<1>3. message = message2
  BY <1>2 DEF IsDilithium
<1>4. \A i \in 1..Len(ctx) : ctx[i] = ctx2[i]
  BY <1>2 DEF IsDilithium
<1>5. ctx = ctx2
  BY <1>1, <1>2, <1>4, SeqEqual
<1> QED BY <1>2, <1>3, <1>5

\* The SM2 part.
Sm2Number(key, message, ctx) == Sm2Scalar(key, composite_build_message(message, ctx))

LEMMA Sm2Numbers ==
    ASSUME NEW key \in Keys, NEW message, NEW ctx, Allowed(message, ctx), NEW nonce \in Nonces
    PROVE  /\ hybrid_sm2_sign(key, composite_build_message(message, ctx), nonce)
                = [r |-> 127 + nonce, s |-> Sm2Number(key, message, ctx)]
           /\ 127 + nonce \in Nat \ {0} /\ Sm2Number(key, message, ctx) \in Nat \ {0}
<1>1. PICK m : m = composite_build_message(message, ctx)
  OBVIOUS
<1>2. m \in SignedMessages
  BY <1>1, MessageBytes DEF SignedMessages, Allowed
<1>3. Sm2Scalar(key, m) \in Nat \ {0}
  BY <1>2, ScalarAssumption
<1>4. 127 + nonce \in Nat \ {0}
  BY KeysAreNumbers
<1> QED BY <1>1, <1>3, <1>4 DEF Sm2Number, hybrid_sm2_sign

\* Its second number names the call.
LEMMA Sm2Names ==
    ASSUME NEW key \in Keys, NEW message, NEW ctx, Allowed(message, ctx),
           NEW key2 \in Keys, NEW message2, NEW ctx2, Allowed(message2, ctx2),
           Sm2Number(key, message, ctx) = Sm2Number(key2, message2, ctx2)
    PROVE  key = key2 /\ message = message2 /\ ctx = ctx2
<1>1. PICK m, m2 : /\ m = composite_build_message(message, ctx)
                   /\ m2 = composite_build_message(message2, ctx2)
  OBVIOUS
<1>2. m \in SignedMessages /\ m2 \in SignedMessages
  BY <1>1, MessageBytes DEF SignedMessages, Allowed
<1>3. key = key2 /\ m = m2
  BY <1>1, <1>2, ScalarAssumption DEF Sm2Number
<1>4. IsMessage(m, message, ctx) /\ IsMessage(m, message2, ctx2)
  BY <1>1, <1>3, MessageBytes
<1> QED BY <1>3, <1>4, MessageNames

Sm2Part(key, message, ctx, nonce) ==
    SignatureDer(IntegerContent(127 + nonce), IntegerContent(Sm2Number(key, message, ctx)),
                 FALSE, FALSE)

IsSm2(der, key, message, ctx, nonce) ==
    /\ der \in Seq(Nat) /\ Len(der) > 0 /\ sm2_signature_der_is_valid(der)
    /\ der = i2d_ECDSA_SIG(hybrid_sm2_sign(key, composite_build_message(message, ctx), nonce))
    /\ d2i_ECDSA_SIG(der).r = IntegerContent(127 + nonce)
    /\ d2i_ECDSA_SIG(der).s = IntegerContent(Sm2Number(key, message, ctx))

LEMMA Sm2Bytes ==
    ASSUME NEW key \in Keys, NEW message, NEW ctx, Allowed(message, ctx), NEW nonce \in Nonces
    PROVE  IsSm2(Sm2Part(key, message, ctx, nonce), key, message, ctx, nonce)
<1>1. PICK a \in Nat \ {0}, b \in Nat \ {0} :
        a = 127 + nonce /\ b = Sm2Number(key, message, ctx)
  BY Sm2Numbers
<1>2. PICK r, s : r = IntegerContent(a) /\ s = IntegerContent(b)
  OBVIOUS
<1>3. IsContent(r, a) /\ IsContent(s, b)
  BY <1>2, ContentGood
<1>4. /\ r \in Seq(Nat) /\ Len(r) <= 3 /\ IntegerOk(r) /\ ~Negative(r) /\ Value(r) # 0
      /\ s \in Seq(Nat) /\ Len(s) <= 2 /\ IntegerOk(s) /\ ~Negative(s) /\ Value(s) # 0
  <2>1. r \in Seq(Nat) /\ Len(r) <= 3 /\ s \in Seq(Nat) /\ Len(s) <= 2
    BY <1>2, ContentShort DEF IsShort
  <2> QED BY <1>1, <1>3, <2>1 DEF IsContent
<1>5. PICK der : der = SignatureDer(r, s, FALSE, FALSE)
  OBVIOUS
<1>6. d2i_ECDSA_SIG(der) = Decoded(r, s, <<>>) /\ sm2_signature_der_is_valid(der)
  BY <1>4, <1>5, ValidDer
<1>7. IsDer(der, r, s, FALSE)
  BY <1>4, <1>5, DerRead
<1>8. der \in Seq(Nat) /\ Len(der) > 0
  BY <1>7 DEF IsDer
<1>9. d2i_ECDSA_SIG(der).r = r /\ d2i_ECDSA_SIG(der).s = s
  BY <1>4, <1>6 DEF Decoded
<1>10. der = Sm2Part(key, message, ctx, nonce)
  BY <1>1, <1>2, <1>5 DEF Sm2Part
<1>11. der = i2d_ECDSA_SIG(hybrid_sm2_sign(key, composite_build_message(message, ctx), nonce))
  <2>1. PICK pairOf : pairOf = hybrid_sm2_sign(key, composite_build_message(message, ctx), nonce)
    OBVIOUS
  <2>2. pairOf.r = a /\ pairOf.s = b
    BY <1>1, <2>1, Sm2Numbers
  <2> QED BY <1>2, <1>5, <2>1, <2>2 DEF i2d_ECDSA_SIG
<1> QED BY <1>1, <1>2, <1>6, <1>8, <1>9, <1>10, <1>11 DEF IsSm2

-----------------------------------------------------------------------------
(* Composite signatures: the whole signature *)

NoParts == [dilithium |-> Nothing, sm2 |-> Nothing]
Parts(d, der) == [dilithium |-> d, sm2 |-> der]

LEMMA BytesNat ==
    DILITHIUM_SIGNATURE_BYTES \in Nat /\ DILITHIUM_SIGNATURE_BYTES > 0
BY SigAssumption DEF DILITHIUM_SIGNATURE_BYTES

\* composite_parse_signature takes apart what was put together.
LEMMA Parsing ==
    ASSUME NEW d \in Seq(Nat), Len(d) = DILITHIUM_SIGNATURE_BYTES, NEW der \in Seq(Nat)
    PROVE  composite_parse_signature(d \o der)
             = IF sm2_signature_der_is_valid(der) THEN Parts(d, der) ELSE NoParts
<1>1. PICK all : all = d \o der
  OBVIOUS
<1>2. IsJoin(all, d, der)
  BY <1>1, Joined
<1>3. Len(all) = DILITHIUM_SIGNATURE_BYTES + Len(der) /\ Len(der) \in Nat
  BY <1>2 DEF IsJoin
<1>4. /\ SubSeq(all, 1, DILITHIUM_SIGNATURE_BYTES) = d
      /\ SubSeq(all, DILITHIUM_SIGNATURE_BYTES + 1, Len(all)) = der
  BY <1>1, CutJoined, SMTT(40)
<1>5. CASE sm2_signature_der_is_valid(der)
  <2>1. Len(der) # 0
    BY <1>5, EmptyInvalid, EmptySeq
  <2>2. Len(all) > DILITHIUM_SIGNATURE_BYTES
    BY <1>3, <2>1, BytesNat
  <2> QED BY <1>1, <1>4, <1>5, <2>2 DEF composite_parse_signature, Parts
<1>6. CASE ~ sm2_signature_der_is_valid(der)
  BY <1>1, <1>4, <1>6 DEF composite_parse_signature, NoParts
<1> QED BY <1>5, <1>6

\* A byte missing from the Dilithium part leaves the tail without its first.
LEMMA ParsingShort ==
    ASSUME NEW d \in Seq(Nat), Len(d) = DILITHIUM_SIGNATURE_BYTES,
           NEW der \in Seq(Nat), Len(der) > 0, ~ sm2_signature_der_is_valid(Tail(der))
    PROVE  composite_parse_signature(Front(d) \o der) = NoParts
<1>1. PICK front : front = Front(d)
  OBVIOUS
<1>2. front \in Seq(Nat) /\ Len(front) = DILITHIUM_SIGNATURE_BYTES - 1
  BY <1>1, BytesNat DEF Front
<1>3. PICK tail : tail = Tail(der)
  OBVIOUS
<1>4. /\ tail \in Seq(Nat) /\ Len(tail) = Len(der) - 1 /\ Len(der) \in Nat
      /\ \A i \in 1..Len(tail) : tail[i] = der[i + 1]
  BY <1>3
<1>5. PICK all : all = front \o der
  OBVIOUS
<1>6. IsJoin(all, front, der)
  BY <1>2, <1>5, Joined
<1>7. /\ all \in Seq(Nat) /\ Len(all) = DILITHIUM_SIGNATURE_BYTES + Len(tail)
      /\ \A i \in 1..Len(der) : all[i + Len(front)] = der[i]
  BY <1>2, <1>4, <1>6, BytesNat DEF IsJoin
<1>8. IsPart(tail, all, DILITHIUM_SIGNATURE_BYTES)
  <2>1. ASSUME NEW i \in 1..Len(tail)
        PROVE  tail[i] = all[DILITHIUM_SIGNATURE_BYTES + i]
    <3>1. i + 1 \in 1..Len(der) /\ (i + 1) + Len(front) = DILITHIUM_SIGNATURE_BYTES + i
      BY <1>2, <1>4, BytesNat
    <3> QED BY <1>4, <1>7, <3>1
  <2>2. DILITHIUM_SIGNATURE_BYTES + Len(tail) <= Len(all)
    BY <1>4, <1>7, BytesNat
  <2> QED BY <2>1, <2>2 DEF IsPart
<1>9. SubSeq(all, DILITHIUM_SIGNATURE_BYTES + 1, Len(all)) = tail
  <2>1. SubSeq(all, DILITHIUM_SIGNATURE_BYTES + 1, DILITHIUM_SIGNATURE_BYTES + Len(tail)) = tail
    BY <1>4, <1>7, <1>8, BytesNat, Cut
  <2> QED BY <1>7, <2>1
<1> QED BY <1>1, <1>3, <1>5, <1>9 DEF composite_parse_signature, NoParts

SignedBytes(key, message, ctx, dn, sn) ==
    DilithiumPart(key, message, ctx, dn) \o Sm2Part(key, message, ctx, sn)

LEMMA SignedParts ==
    ASSUME NEW key \in Keys, NEW message, NEW ctx, Allowed(message, ctx),
           NEW dn \in Nonces, NEW sn \in Nonces
    PROVE  composite_parse_signature(SignedBytes(key, message, ctx, dn, sn))
             = Parts(DilithiumPart(key, message, ctx, dn), Sm2Part(key, message, ctx, sn))
<1>1. PICK d, der : d = DilithiumPart(key, message, ctx, dn) /\ der = Sm2Part(key, message, ctx, sn)
  OBVIOUS
<1>2. IsDilithium(d, key, message, ctx) /\ IsSm2(der, key, message, ctx, sn)
  BY <1>1, DilithiumBytes, Sm2Bytes
<1>3. /\ d \in Seq(Nat) /\ Len(d) = DILITHIUM_SIGNATURE_BYTES
      /\ der \in Seq(Nat) /\ sm2_signature_der_is_valid(der)
  BY <1>2 DEF IsDilithium, IsSm2
<1>4. composite_parse_signature(d \o der) = Parts(d, der)
  BY <1>3, Parsing
<1> QED BY <1>1, <1>4 DEF SignedBytes

\* With memory and a context within the limit composite_sign returns it.
LEMMA SignReturns ==
    ASSUME NEW key \in Keys, NEW message, NEW ctx, Allowed(message, ctx),
           NEW dn \in Nonces, NEW sn \in Nonces
    PROVE  composite_sign(key, message, ctx, [dilithium |-> dn, sm2 |-> sn], TRUE)
             = SignedBytes(key, message, ctx, dn, sn)
<1>1. PICK d, der : d = DilithiumPart(key, message, ctx, dn) /\ der = Sm2Part(key, message, ctx, sn)
  OBVIOUS
<1>2. IsDilithium(d, key, message, ctx) /\ IsSm2(der, key, message, ctx, sn)
  BY <1>1, DilithiumBytes, Sm2Bytes
<1>3. Len(d) = DILITHIUM_SIGNATURE_BYTES /\ sm2_signature_der_is_valid(der)
  BY <1>2 DEF IsDilithium, IsSm2
<1>4. composite_serialize_signature(d, der) = d \o der
  BY <1>3 DEF composite_serialize_signature
<1>5. PICK m : m = composite_build_message(message, ctx)
  OBVIOUS
<1>6. m # Nothing
  BY <1>5, MessageBytes
<1>7. d = dilithium_sign(key, m, dn) /\ der = i2d_ECDSA_SIG(hybrid_sm2_sign(key, m, sn))
  BY <1>1, <1>2, <1>5 DEF DilithiumPart, IsSm2
<1> QED BY <1>1, <1>4, <1>5, <1>6, <1>7 DEF composite_sign, SignedBytes

LEMMA SignRefused ==
    ASSUME NEW key, NEW message, NEW ctx \in Contexts, NEW nonces, NEW memory \in BOOLEAN,
           ~memory \/ ~(Len(ctx) <= COMPOSITE_MAX_CONTEXT_BYTES)
    PROVE  composite_sign(key, message, ctx, nonces, memory) = Nothing
<1>1. Len(ctx) \in Nat /\ COMPOSITE_MAX_CONTEXT_BYTES \in Nat
  BY SigAssumption
<1>2. CASE ~memory
  BY <1>2 DEF composite_sign
<1>3. CASE ~(Len(ctx) <= COMPOSITE_MAX_CONTEXT_BYTES)
  <2>1. Len(ctx) > COMPOSITE_MAX_CONTEXT_BYTES
    BY <1>1, <1>3
  <2>2. composite_build_message(message, ctx) = Nothing
    BY <2>1 DEF composite_build_message
  <2> QED BY <2>2 DEF composite_sign
<1> QED BY <1>2, <1>3

Accepted == [format_valid |-> TRUE, dilithium_valid |-> TRUE,
             sm2_valid |-> TRUE, composite_valid |-> TRUE]

\* composite_verify_detailed accepts what composite_sign returned.
LEMMA SignedAccepted ==
    ASSUME NEW key \in Keys, NEW message, NEW ctx, Allowed(message, ctx),
           NEW dn \in Nonces, NEW sn \in Nonces
    PROVE  composite_verify_detailed(key, message, ctx, SignedBytes(key, message, ctx, dn, sn),
                                     "all") = Accepted
<1>1. PICK d, der : d = DilithiumPart(key, message, ctx, dn) /\ der = Sm2Part(key, message, ctx, sn)
  OBVIOUS
<1>2. IsSm2(der, key, message, ctx, sn)
  BY <1>1, Sm2Bytes
<1>3. composite_parse_signature(SignedBytes(key, message, ctx, dn, sn)) = Parts(d, der)
  BY <1>1, SignedParts
<1>4. PICK m : m = composite_build_message(message, ctx)
  OBVIOUS
<1>5. m # Nothing
  BY <1>4, MessageBytes
<1>6. PICK a \in Nat, b \in Nat :
        a = 127 + sn /\ b = Sm2Number(key, message, ctx)
  BY Sm2Numbers
<1>7. d2i_ECDSA_SIG(der).r = IntegerContent(a) /\ d2i_ECDSA_SIG(der).s = IntegerContent(b)
  BY <1>2, <1>6 DEF IsSm2
<1>8. Value(IntegerContent(a)) = a /\ Value(IntegerContent(b)) = b
  BY ContentGood DEF IsContent
<1>9. hybrid_sm2_sign(key, m, sn) = [r |-> a, s |-> b]
  BY <1>4, <1>6, Sm2Numbers
<1>10. dilithium_verify(key, m, d)
  BY <1>1, <1>4 DEF dilithium_verify, DilithiumPart
<1>11. hybrid_sm2_verify(key, m, [r |-> Value(d2i_ECDSA_SIG(der).r),
                                  s |-> Value(d2i_ECDSA_SIG(der).s)])
  BY <1>7, <1>8, <1>9 DEF hybrid_sm2_verify
<1>12. Parts(d, der).dilithium = d /\ Parts(d, der).sm2 = der
  BY DEF Parts
<1>13. der # Nothing
  <2>1. Len(der) > 0 /\ Len(<<>>) = 0
    BY <1>2 DEF IsSm2
  <2> QED BY <2>1 DEF Nothing
<1> HIDE DEF Parts
<1>14. ComponentResult(key, m, Parts(d, der), "all").dilithium = TRUE
  BY <1>10, <1>12 DEF ComponentResult, dilithium_verify
<1>15. ComponentResult(key, m, Parts(d, der), "all").sm2 = TRUE
  BY <1>11, <1>12 DEF ComponentResult, hybrid_sm2_verify
<1> QED BY <1>3, <1>4, <1>5, <1>12, <1>13, <1>14, <1>15 DEF composite_verify_detailed, Accepted

\* What an accepted signature must be.
PartsVerify(key, m, parts) ==
    /\ parts.sm2 # Nothing /\ m # Nothing
    /\ \E dn \in Nonces : parts.dilithium = dilithium_sign(key, m, dn)
    /\ \E sn \in Nonces :
         [r |-> Value(d2i_ECDSA_SIG(parts.sm2).r), s |-> Value(d2i_ECDSA_SIG(parts.sm2).s)]
            = hybrid_sm2_sign(key, m, sn)

LEMMA AcceptedParts ==
    ASSUME NEW key, NEW message, NEW ctx, NEW signature, NEW memory,
           composite_verify_detailed(key, message, ctx, signature, memory).composite_valid
    PROVE  PartsVerify(key, composite_build_message(message, ctx),
                       composite_parse_signature(signature))
<1>1. ~ Refused.composite_valid /\ ~ [Refused EXCEPT !.format_valid = TRUE].composite_valid
  BY DEF Refused
<1>2. PICK parts, m : /\ parts = composite_parse_signature(signature)
                      /\ m = composite_build_message(message, ctx)
  OBVIOUS
<1>3. parts.sm2 # Nothing /\ m # Nothing
  BY <1>1, <1>2 DEF composite_verify_detailed
<1>4. /\ ComponentResult(key, m, parts, memory).dilithium
      /\ ComponentResult(key, m, parts, memory).sm2
  BY <1>1, <1>2, <1>3 DEF composite_verify_detailed
<1>5. \E dn \in Nonces : parts.dilithium = dilithium_sign(key, m, dn)
  BY <1>4 DEF ComponentResult, dilithium_verify
<1>6. \E sn \in Nonces :
         [r |-> Value(d2i_ECDSA_SIG(parts.sm2).r), s |-> Value(d2i_ECDSA_SIG(parts.sm2).s)]
            = hybrid_sm2_sign(key, m, sn)
  BY <1>4 DEF ComponentResult, hybrid_sm2_verify
<1> QED BY <1>2, <1>3, <1>5, <1>6 DEF PartsVerify

\* A tail that the check lets through is the SM2 part it was made from.
LEMMA ValidTail ==
    ASSUME NEW key \in Keys, NEW message, NEW ctx, Allowed(message, ctx),
           NEW nonce \in Nonces,
           NEW t \in Tails(Sm2Part(key, message, ctx, nonce)), sm2_signature_der_is_valid(t)
    PROVE  t = Sm2Part(key, message, ctx, nonce)
<1>1. PICK a \in Nat \ {0}, b \in Nat \ {0} :
        a = 127 + nonce /\ b = Sm2Number(key, message, ctx)
  BY Sm2Numbers
<1>2. PICK c, s : c = IntegerContent(a) /\ s = IntegerContent(b)
  OBVIOUS
<1>3. /\ c \in Seq(Nat) /\ Len(c) <= 3 /\ s \in Seq(Nat) /\ Len(s) <= 2
  BY <1>2, ContentShort DEF IsShort
<1>4. PICK der : der = Sm2Part(key, message, ctx, nonce)
  OBVIOUS
<1>5. der = SignatureDer(c, s, FALSE, FALSE)
  BY <1>1, <1>2, <1>4 DEF Sm2Part
<1>6. d2i_ECDSA_SIG(der).r = c /\ d2i_ECDSA_SIG(der).s = s
  BY <1>1, <1>2, <1>4, Sm2Bytes DEF IsSm2
<1>7. t # der \o <<0>> /\ t # Front(der) /\ t # <<>>
  BY <1>3, <1>5, InvalidDer
<1>8. PICK r \in Contents(c), inner \in BOOLEAN, outer \in BOOLEAN :
        t = SignatureDer(r, s, inner, outer)
  BY <1>4, <1>6, <1>7 DEF Tails, Contents
<1>9. r \in Seq(Nat) /\ Len(r) <= 3
  BY <1>2, <1>8, ContentsShort
<1>10. /\ IntegerOk(r) /\ ~Negative(r) /\ Value(r) # 0
       /\ SignatureDer(r, s, FALSE, FALSE) = t
  BY <1>3, <1>8, <1>9, ValidDer
<1>11. r = c
  BY <1>2, <1>8, <1>10, ContentsRight
<1> QED BY <1>4, <1>5, <1>10, <1>11

LEMMA TailBytes ==
    ASSUME NEW key \in Keys, NEW message, NEW ctx, Allowed(message, ctx),
           NEW nonce \in Nonces,
           NEW t \in Tails(Sm2Part(key, message, ctx, nonce))
    PROVE  t \in Seq(Nat)
<1>1. PICK a \in Nat \ {0}, b \in Nat \ {0} :
        a = 127 + nonce /\ b = Sm2Number(key, message, ctx)
  BY Sm2Numbers
<1>2. PICK c, s : c = IntegerContent(a) /\ s = IntegerContent(b)
  OBVIOUS
<1>3. s \in Seq(Nat) /\ Len(s) <= 2
  BY <1>2, ContentShort DEF IsShort
<1>4. PICK der : der = Sm2Part(key, message, ctx, nonce)
  OBVIOUS
<1>5. IsSm2(der, key, message, ctx, nonce)
  BY <1>4, Sm2Bytes
<1>6. d2i_ECDSA_SIG(der).r = c /\ d2i_ECDSA_SIG(der).s = s
  BY <1>1, <1>2, <1>5 DEF IsSm2
<1>7. der \in Seq(Nat) /\ Len(der) > 0
  BY <1>5 DEF IsSm2
<1>8. CASE t \in {der \o <<0>>, Front(der), <<>>}
  <2>1. Front(der) \in Seq(Nat)
    BY <1>7 DEF Front
  <2>2. der \o <<0>> \in Seq(Nat)
    <3>1. <<0>> \in Seq(Nat)
      OBVIOUS
    <3> QED BY <1>7, <3>1, ConcatProperties
  <2>3. <<>> \in Seq(Nat)
    OBVIOUS
  <2> QED BY <1>8, <2>1, <2>2, <2>3
<1>9. CASE ~ (t \in {der \o <<0>>, Front(der), <<>>})
  <2>1. PICK r \in Contents(c), inner \in BOOLEAN, outer \in BOOLEAN :
          t = SignatureDer(r, s, inner, outer)
    BY <1>4, <1>6, <1>9 DEF Tails, Contents
  <2>2. r \in Seq(Nat) /\ Len(r) <= 3
    BY <1>2, <2>1, ContentsShort
  <2>3. IsDer(t, r, s, outer)
    BY <1>3, <2>1, <2>2, DerRead
  <2> QED BY <2>3 DEF IsDer
<1> QED BY <1>8, <1>9

PutTogether(signature, d, der) ==
    signature = Front(d) \o der \/ \E t \in Tails(der) : signature = d \o t

Accepts(key, message, ctx, signature, memory) ==
    composite_verify_detailed(key, message, ctx, signature, memory).composite_valid

Argument(key, message, ctx) == <<key, message, ctx>>
DilithiumMade(d, key, message, ctx) ==
    /\ key \in Keys /\ Allowed(message, ctx)
    /\ \E nonce \in Nonces : d = DilithiumPart(key, message, ctx, nonce)
Sm2Made(der, key, message, ctx) ==
    /\ key \in Keys /\ Allowed(message, ctx)
    /\ \E nonce \in Nonces : der = Sm2Part(key, message, ctx, nonce)
WholeParts(signature, d, der) ==
    signature = d \o der /\ composite_parse_signature(signature) = Parts(d, der)

\* Whatever is put together from the parts of two signatures, when it is
\* accepted both were made for its arguments and the parts are as they were.
LEMMA AcceptedIsSigned ==
    ASSUME NEW key \in Keys, NEW message \in Digests, NEW ctx \in Contexts, NEW memory,
           NEW key1, NEW message1, NEW ctx1, NEW key2, NEW message2, NEW ctx2,
           NEW d, DilithiumMade(d, key1, message1, ctx1),
           NEW der, Sm2Made(der, key2, message2, ctx2), NEW signature,
           PutTogether(signature, d, der), Accepts(key, message, ctx, signature, memory)
    PROVE  /\ Argument(key, message, ctx) = Argument(key1, message1, ctx1)
           /\ Argument(key, message, ctx) = Argument(key2, message2, ctx2)
           /\ WholeParts(signature, d, der)
<1>. key1 \in Keys /\ Allowed(message1, ctx1) /\ key2 \in Keys /\ Allowed(message2, ctx2)
  BY DEF DilithiumMade, Sm2Made
<1>. PICK dn \in Nonces : d = DilithiumPart(key1, message1, ctx1, dn)
  BY DEF DilithiumMade
<1>. PICK sn \in Nonces : der = Sm2Part(key2, message2, ctx2, sn)
  BY DEF Sm2Made
<1>1. PICK m, parts : /\ m = composite_build_message(message, ctx)
                      /\ parts = composite_parse_signature(signature)
  OBVIOUS
<1>2. PartsVerify(key, m, parts)
  BY <1>1, AcceptedParts DEF Accepts
<1>17. /\ parts.sm2 # Nothing /\ m # Nothing
       /\ \E n \in Nonces : parts.dilithium = dilithium_sign(key, m, n)
  BY <1>2 DEF PartsVerify
<1>18. PICK sn2 \in Nonces :
        [r |-> Value(d2i_ECDSA_SIG(parts.sm2).r), s |-> Value(d2i_ECDSA_SIG(parts.sm2).s)]
            = hybrid_sm2_sign(key, m, sn2)
  BY <1>2 DEF PartsVerify
<1>3. Allowed(message, ctx)
  <2>1. Len(ctx) \in Nat /\ COMPOSITE_MAX_CONTEXT_BYTES \in Nat
    BY SigAssumption
  <2>2. ~ (Len(ctx) > COMPOSITE_MAX_CONTEXT_BYTES)
    BY <1>1, <1>17 DEF composite_build_message
  <2> QED BY <2>1, <2>2 DEF Allowed
<1>4. IsDilithium(d, key1, message1, ctx1) /\ IsSm2(der, key2, message2, ctx2, sn)
  BY DilithiumBytes, Sm2Bytes
<1>5. d \in Seq(Nat) /\ Len(d) = DILITHIUM_SIGNATURE_BYTES /\ der \in Seq(Nat) /\ Len(der) > 0
  BY <1>4 DEF IsDilithium, IsSm2
<1>6. NoParts.sm2 = Nothing
  BY DEF NoParts
<1>7. signature # Front(d) \o der
  <2>1. ~ sm2_signature_der_is_valid(Tail(der))
    <3>1. PICK a \in Nat, b \in Nat : a = 127 + sn /\ b = Sm2Number(key2, message2, ctx2)
      BY Sm2Numbers
    <3>2. PICK r, s : r = IntegerContent(a) /\ s = IntegerContent(b)
      OBVIOUS
    <3>3. r \in Seq(Nat) /\ Len(r) <= 3 /\ s \in Seq(Nat) /\ Len(s) <= 2
      BY <3>2, ContentShort DEF IsShort
    <3>4. der = SignatureDer(r, s, FALSE, FALSE)
      BY <3>1, <3>2 DEF Sm2Part
    <3> QED BY <3>3, <3>4, InvalidDer
  <2> QED BY <1>1, <1>17, <1>5, <1>6, <2>1, ParsingShort
<1>8. PICK t \in Tails(der) : signature = d \o t
  BY <1>7 DEF PutTogether
<1>9. t \in Seq(Nat)
  BY <1>8, TailBytes
<1>10. sm2_signature_der_is_valid(t) /\ parts = Parts(d, t)
  BY <1>1, <1>17, <1>5, <1>6, <1>8, <1>9, Parsing
<1>11. t = der
  BY <1>8, <1>10, ValidTail
<1>12. parts.dilithium = d /\ parts.sm2 = der
  BY <1>10, <1>11 DEF Parts
<1>13. PICK dn2 \in Nonces : d = DilithiumPart(key, message, ctx, dn2)
  BY <1>1, <1>17, <1>12 DEF DilithiumPart
<1>14. IsDilithium(d, key, message, ctx)
  BY <1>3, <1>13, DilithiumBytes
<1>15. key = key1 /\ message = message1 /\ ctx = ctx1
  BY <1>3, <1>4, <1>14, DilithiumNames
<1>16. key = key2 /\ message = message2 /\ ctx = ctx2
  <2>1. PICK a \in Nat, b \in Nat, a2 \in Nat, b2 \in Nat :
          /\ a = 127 + sn2 /\ b = Sm2Number(key, message, ctx)
          /\ a2 = 127 + sn /\ b2 = Sm2Number(key2, message2, ctx2)
    BY <1>3, Sm2Numbers
  <2>2. /\ d2i_ECDSA_SIG(der).r = IntegerContent(a2)
        /\ d2i_ECDSA_SIG(der).s = IntegerContent(b2)
    BY <1>4, <2>1 DEF IsSm2
  <2>3. Value(IntegerContent(a2)) = a2 /\ Value(IntegerContent(b2)) = b2
    BY ContentGood DEF IsContent
  <2>4. hybrid_sm2_sign(key, m, sn2) = [r |-> a, s |-> b]
    BY <1>1, <1>3, <2>1, Sm2Numbers
  <2>5. [r |-> a2, s |-> b2] = [r |-> a, s |-> b]
    BY <1>18, <1>12, <2>2, <2>3, <2>4
  <2>6. b2 = b
    BY <2>5
  <2>7. Sm2Number(key, message, ctx) = Sm2Number(key2, message2, ctx2)
    BY <2>1, <2>6
  <2> QED BY <1>3, <2>7, Sm2Names
<1> QED BY <1>1, <1>8, <1>10, <1>11, <1>15, <1>16 DEF Argument, WholeParts

-----------------------------------------------------------------------------
(* Composite signatures: the invariant *)

\* Every call that succeeded has returned what its arguments and its random
\* choices make of it.
Call(key, message, ctx, dn, sn) ==
    [key |-> key, message |-> message, ctx |-> ctx,
     signature |-> SignedBytes(key, message, ctx, dn, sn)]

IsIssued(c, key, message, ctx, dn, sn) ==
    Allowed(message, ctx) /\ c = Call(key, message, ctx, dn, sn)

IssuedRight ==
    \A c \in issued :
        \E key \in Keys, message \in Digests, ctx \in Contexts, dn \in Nonces, sn \in Nonces :
            IsIssued(c, key, message, ctx, dn, sn)

SigInv == IssuedRight /\ VerifiedMeansSigned /\ OneEncoding /\ SignedVerifies

LEMMA SigInvInit ==
    SigInit => SigInv
BY DEF SigInit, SigInv, IssuedRight, VerifiedMeansSigned, OneEncoding, SignedVerifies, Refused

\* More calls make more parts.
LEMMA PartsMonotone ==
    ASSUME NEW calls, NEW more, calls \subseteq more
    PROVE  MadeParts(calls) \subseteq MadeParts(more)
BY DEF MadeParts

\* The step of one signing call, with the call it records.
SignsWith(key, message, ctx, nonces, memory, call) ==
    /\ call = [key |-> key, message |-> message, ctx |-> ctx,
               signature |-> composite_sign(key, message, ctx, nonces, memory)]
    /\ last' = <<[call |-> call, memory |-> memory]>>
    /\ issued' = IF call.signature = Nothing THEN issued ELSE issued \cup {call}

LEMMA SignCallKeeps ==
    ASSUME SigInv, NEW key \in Keys, NEW message \in Digests, NEW ctx \in Contexts,
           SignCall(key, message, ctx)
    PROVE  SigInv'
<1>1. PICK memory \in BOOLEAN, nonces \in [dilithium : Nonces, sm2 : Nonces] :
        \E call : SignsWith(key, message, ctx, nonces, memory, call)
  BY DEF SignCall, SignsWith
<1>2. PICK call :
        /\ call = [key |-> key, message |-> message, ctx |-> ctx,
                   signature |-> composite_sign(key, message, ctx, nonces, memory)]
        /\ last' = <<[call |-> call, memory |-> memory]>>
        /\ issued' = IF call.signature = Nothing THEN issued ELSE issued \cup {call}
  BY <1>1 DEF SignsWith
<1>3. /\ call.key = key /\ call.message = message /\ call.ctx = ctx
      /\ call.signature = composite_sign(key, message, ctx, nonces, memory)
      /\ last'[1].call = call /\ last'[1].memory = memory
  BY <1>2
<1>4. received = Nothing /\ received' = received /\ result' = result /\ issued \subseteq issued'
  BY <1>2 DEF SignCall
<1>5. OneEncoding' /\ VerifiedMeansSigned'
  <2> SUFFICES ASSUME result.composite_valid
               PROVE  OneEncoding' /\ VerifiedMeansSigned'
    BY <1>4 DEF OneEncoding, VerifiedMeansSigned
  <2>1. PICK got : got = received[1]
    OBVIOUS
  <2>2. PICK before : before = MadeParts(SameArguments(got))
    OBVIOUS
  <2>3. PICK after : after = MadeParts(SameArguments(got))'
    OBVIOUS
  <2>4. before \subseteq after
    <3>1. SameArguments(got) \subseteq SameArguments(got)'
      BY <1>4 DEF SameArguments
    <3>2. MadeParts(SameArguments(got))' = MadeParts(SameArguments(got)')
      BY DEF MadeParts
    <3> QED BY <2>2, <2>3, <3>1, <3>2, PartsMonotone
  <2>5. \E p, q \in before : got.signature = p.dilithium \o q.sm2
    BY <2>1, <2>2 DEF SigInv, OneEncoding
  <2>6. /\ \E p \in before : p.dilithium = composite_parse_signature(got.signature).dilithium
        /\ \E q \in before : d2i_ECDSA_SIG(q.sm2)
                = d2i_ECDSA_SIG(composite_parse_signature(got.signature).sm2)
    BY <2>1, <2>2 DEF SigInv, VerifiedMeansSigned
  <2>7. received'[1] = got
    BY <1>4, <2>1
  <2>8. MadeParts(SameArguments(received[1]))' = after
    BY <2>3, <2>7 DEF MadeParts, SameArguments
  <2>9. OneEncoding'
    BY <2>4, <2>5, <2>7, <2>8 DEF OneEncoding
  <2>10. VerifiedMeansSigned'
    BY <2>4, <2>6, <2>7, <2>8 DEF VerifiedMeansSigned
  <2> QED BY <2>9, <2>10
<1>6. CASE memory /\ Len(ctx) <= COMPOSITE_MAX_CONTEXT_BYTES
  <2>1. Allowed(message, ctx) /\ memory = TRUE
    BY <1>6 DEF Allowed
  <2> DEFINE dn == nonces.dilithium
             sn == nonces.sm2
  <2>2. dn \in Nonces /\ sn \in Nonces /\ nonces = [dilithium |-> dn, sm2 |-> sn]
    OBVIOUS
  <2> HIDE DEF dn, sn
  <2>3. call.signature = SignedBytes(key, message, ctx, dn, sn)
    <3>1. call.signature
            = composite_sign(key, message, ctx, [dilithium |-> dn, sm2 |-> sn], TRUE)
      BY <1>3, <2>1, <2>2
    <3> QED BY <2>1, <2>2, <3>1, SignReturns, ZenonT(60)
  <2>4. IsIssued(call, key, message, ctx, dn, sn)
    BY <1>2, <1>3, <2>1, <2>3 DEF Call, IsIssued
  <2>5. IssuedRight'
    <3>1. \A c \in issued' : c \in issued \/ c = call
      BY <1>2
    <3> QED BY <2>2, <2>4, <3>1 DEF SigInv, IssuedRight
  <2>6. composite_verify_detailed(call.key, call.message, call.ctx, call.signature, "all")
          = Accepted
    <3>1. composite_verify_detailed(key, message, ctx,
                                    SignedBytes(key, message, ctx, dn, sn), "all") = Accepted
      BY <2>1, <2>2, SignedAccepted
    <3> QED BY <1>3, <2>3, <3>1
  <2>7. SignedVerifies'
    BY <1>3, <1>6, <2>6 DEF SignedVerifies, Accepted
  <2> QED BY <1>5, <2>5, <2>7 DEF SigInv
<1>7. CASE ~ (memory /\ Len(ctx) <= COMPOSITE_MAX_CONTEXT_BYTES)
  <2>1. call.signature = Nothing
    BY <1>3, <1>7, SignRefused
  <2>2. IssuedRight'
    BY <1>2, <2>1 DEF SigInv, IssuedRight
  <2>3. SignedVerifies'
    BY <1>3, <1>7, <2>1 DEF SignedVerifies
  <2> QED BY <1>5, <2>2, <2>3 DEF SigInv
<1> QED BY <1>6, <1>7

\* What a call that was issued contributes.
LEMMA IssuedFacts ==
    ASSUME NEW c, NEW key \in Keys, NEW message, NEW ctx, NEW dn \in Nonces, NEW sn \in Nonces,
           IsIssued(c, key, message, ctx, dn, sn)
    PROVE  /\ c.key = key /\ c.message = message /\ c.ctx = ctx
           /\ composite_parse_signature(c.signature).dilithium
                = DilithiumPart(key, message, ctx, dn)
           /\ composite_parse_signature(c.signature).sm2 = Sm2Part(key, message, ctx, sn)
<1>1. /\ c.key = key /\ c.message = message /\ c.ctx = ctx
      /\ c.signature = SignedBytes(key, message, ctx, dn, sn)
  BY DEF IsIssued, Call
<1>2. composite_parse_signature(c.signature)
        = Parts(DilithiumPart(key, message, ctx, dn), Sm2Part(key, message, ctx, sn))
  BY <1>1, SignedParts DEF IsIssued
<1> QED BY <1>1, <1>2 DEF Parts

LEMMA VerifyCallKeeps ==
    ASSUME SigInv, NEW key \in Keys, NEW message \in Digests, NEW ctx \in Contexts,
           VerifyCall(key, message, ctx)
    PROVE  SigInv'
<1>1. PICK signature \in Arriving, memory \in Memory :
        /\ received' = <<[key |-> key, message |-> message, ctx |-> ctx,
                          signature |-> signature]>>
        /\ result' = composite_verify_detailed(key, message, ctx, signature, memory)
  BY DEF VerifyCall
<1>2. last' = Nothing /\ issued' = issued
  BY DEF VerifyCall
<1>3. IssuedRight' /\ SignedVerifies'
  BY <1>2 DEF SigInv, IssuedRight, SignedVerifies
<1>4. ASSUME result'.composite_valid
      PROVE  OneEncoding' /\ VerifiedMeansSigned'
  <2> DEFINE parts == {composite_parse_signature(c.signature) : c \in issued}
             From(p, q) == {Front(p.dilithium) \o q.sm2}
                           \cup {p.dilithium \o t : t \in Tails(q.sm2)}
  <2>1. PICK p \in parts, q \in parts : signature \in From(p, q)
    <3>1. Arriving = UNION {From(p, q) : p \in parts, q \in parts}
      BY DEF Arriving
    <3> HIDE DEF From, parts
    <3> QED BY <3>1
  <2>2. PICK c1 \in issued : p = composite_parse_signature(c1.signature)
    BY <2>1
  <2>3. PICK c2 \in issued : q = composite_parse_signature(c2.signature)
    BY <2>1
  <2>4. PICK key1 \in Keys, message1 \in Digests, ctx1 \in Contexts,
             dn1 \in Nonces, sn1 \in Nonces : IsIssued(c1, key1, message1, ctx1, dn1, sn1)
    BY <2>2 DEF SigInv, IssuedRight
  <2>5. PICK key2 \in Keys, message2 \in Digests, ctx2 \in Contexts,
             dn2 \in Nonces, sn2 \in Nonces : IsIssued(c2, key2, message2, ctx2, dn2, sn2)
    BY <2>3 DEF SigInv, IssuedRight
  <2>6. PICK d, der : /\ d = DilithiumPart(key1, message1, ctx1, dn1)
                      /\ der = Sm2Part(key2, message2, ctx2, sn2)
    OBVIOUS
  <2>7. c1.key = key1 /\ c1.message = message1 /\ c1.ctx = ctx1 /\ p.dilithium = d
    BY <2>2, <2>4, <2>6, IssuedFacts
  <2>8. c2.key = key2 /\ c2.message = message2 /\ c2.ctx = ctx2 /\ q.sm2 = der
    BY <2>3, <2>5, <2>6, IssuedFacts
  <2>9. PutTogether(signature, d, der)
    BY <2>1, <2>7, <2>8 DEF PutTogether
  <2>10. Accepts(key, message, ctx, signature, memory)
    BY <1>1, <1>4 DEF Accepts
  <2>11. Allowed(message1, ctx1) /\ Allowed(message2, ctx2)
    BY <2>4, <2>5 DEF IsIssued
  <2>12. /\ key = key1 /\ message = message1 /\ ctx = ctx1
         /\ key = key2 /\ message = message2 /\ ctx = ctx2
         /\ signature = d \o der
         /\ composite_parse_signature(signature) = Parts(d, der)
    <3> HIDE DEF parts, From
    <3>1. /\ Argument(key, message, ctx) = Argument(key1, message1, ctx1)
          /\ Argument(key, message, ctx) = Argument(key2, message2, ctx2)
          /\ WholeParts(signature, d, der)
      <4>1. DilithiumMade(d, key1, message1, ctx1) /\ Sm2Made(der, key2, message2, ctx2)
        BY <2>6, <2>11 DEF DilithiumMade, Sm2Made
      <4> QED BY <2>9, <2>10, <4>1, AcceptedIsSigned, Zenon
    <3> QED BY <3>1 DEF Argument, WholeParts
  <2>13. PICK got : got = received'[1]
    OBVIOUS
  <2>14. /\ got.key = key /\ got.message = message /\ got.ctx = ctx
         /\ got.signature = signature
    BY <1>1, <2>13
  <2>15. c1 \in SameArguments(got) /\ c2 \in SameArguments(got)
    BY <2>2, <2>3, <2>7, <2>8, <2>12, <2>14 DEF SameArguments
  <2>16. PICK usable : usable = MadeParts(SameArguments(got))
    OBVIOUS
  <2>17. p \in usable /\ q \in usable
    BY <2>2, <2>3, <2>15, <2>16 DEF MadeParts
  <2>18. MadeParts(SameArguments(received[1]))' = usable
    BY <1>2, <2>13, <2>16 DEF MadeParts, SameArguments
  <2>19. /\ p.dilithium = composite_parse_signature(got.signature).dilithium
         /\ q.sm2 = composite_parse_signature(got.signature).sm2
    BY <2>7, <2>8, <2>12, <2>14 DEF Parts
  <2> HIDE DEF parts, From
  <2>20. OneEncoding'
    <3>1. got.signature = p.dilithium \o q.sm2
      BY <2>7, <2>8, <2>12, <2>14
    <3> QED BY <2>13, <2>17, <2>18, <3>1 DEF OneEncoding
  <2>21. VerifiedMeansSigned'
    BY <2>13, <2>17, <2>18, <2>19 DEF VerifiedMeansSigned
  <2> QED BY <2>20, <2>21
<1>5. OneEncoding' /\ VerifiedMeansSigned'
  BY <1>4 DEF OneEncoding, VerifiedMeansSigned
<1> QED BY <1>3, <1>5 DEF SigInv

LEMMA SigInvInductive ==
    SigInv /\ [SigNext]_sigVars => SigInv'
<1> SUFFICES ASSUME SigInv, [SigNext]_sigVars
             PROVE  SigInv'
  OBVIOUS
<1>1. CASE SigNext
  <2>1. PICK key \in Keys, message \in Digests, ctx \in Contexts :
          SignCall(key, message, ctx) \/ VerifyCall(key, message, ctx)
    BY <1>1 DEF SigNext
  <2> QED BY <2>1, SignCallKeeps, VerifyCallKeeps
<1>2. CASE UNCHANGED sigVars
  BY <1>2 DEF sigVars, SigInv, IssuedRight, OneEncoding, VerifiedMeansSigned,
             SignedVerifies, SameArguments, MadeParts
<1> QED BY <1>1, <1>2

LEMMA SigInvHolds ==
    SigSpec => []SigInv
BY SigInvInit, SigInvInductive, PTL DEF SigSpec

\* Each component has one encoding: whatever is put together from the parts of
\* signatures that were made, composite_verify_detailed accepts only component
\* bytes that composite_sign returned for its arguments.
THEOREM OneEncodingHolds ==
    SigSpec => []OneEncoding
<1>1. SigInv => OneEncoding
  BY DEF SigInv
<1> QED BY <1>1, SigInvHolds, PTL

\* Signing calls for this key, this message and this context made each of the
\* two components of what composite_verify_detailed accepts, with any random
\* choices of theirs.
THEOREM VerifiedWasSigned ==
    SigSpec => []VerifiedMeansSigned
<1>1. SigInv => VerifiedMeansSigned
  BY DEF SigInv
<1> QED BY <1>1, SigInvHolds, PTL

\* composite_sign fails for want of memory or for a context over the limit and
\* for nothing else, and composite_verify_detailed accepts what it returns.
THEOREM SigningWorks ==
    SigSpec => []SignedVerifies
<1>1. SigInv => SignedVerifies
  BY DEF SigInv
<1> QED BY <1>1, SigInvHolds, PTL

-----------------------------------------------------------------------------
(* Key objects: counting those that point to an EVP_PKEY *)

USE ObjectsAssumption

\* The objects of S that point to the EVP_PKEY k.
Holders(f, S, k) == {x \in S : f[x].sm2 = k}
Count(f, S, k) == Cardinality(Holders(f, S, k))

\* The objects after x was replaced.
Put(f, x, v) == [f EXCEPT ![x] = v]

\* What a pointer j adds to the count of the EVP_PKEY k.
Delta(j, k) == IF j = k THEN 1 ELSE 0

LEMMA DeltaIsNat ==
    ASSUME NEW j, NEW k
    PROVE  Delta(j, k) \in Nat
BY DEF Delta

LEMMA CountIsNat ==
    ASSUME NEW S, IsFiniteSet(S), NEW f, NEW k
    PROVE  IsFiniteSet(Holders(f, S, k)) /\ Count(f, S, k) \in Nat
<1>1. Holders(f, S, k) \in SUBSET S
  BY DEF Holders
<1>2. IsFiniteSet(Holders(f, S, k))
  BY <1>1, FS_Subset
<1> QED
  BY <1>2, FS_CardinalityType DEF Count

\* Replacing one object moves one holder from the old EVP_PKEY to the new.
LEMMA CountUpdate ==
    ASSUME NEW S, IsFiniteSet(S), NEW f \in [S -> KeyObject],
           NEW x \in S, NEW v \in KeyObject, NEW k \in Pointers
    PROVE  Count(Put(f, x, v), S, k)
             = Count(f, S, k) - Delta(f[x].sm2, k) + Delta(v.sm2, k)
<1> DEFINE g == Put(f, x, v)
           A == Holders(f, S, k)
           B == Holders(g, S, k)
<1>1. IsFiniteSet(A) /\ IsFiniteSet(B) /\ Cardinality(A) \in Nat /\ Cardinality(B) \in Nat
  BY CountIsNat DEF Count
<1>2. A \ {x} = B \ {x}
  BY DEF Holders, Put
<1>3. (x \in A <=> f[x].sm2 = k) /\ (x \in B <=> v.sm2 = k)
  BY DEF Holders, Put
<1> HIDE DEF A, B
<1>4. Cardinality(A \ {x}) = IF x \in A THEN Cardinality(A) - 1 ELSE Cardinality(A)
  BY <1>1, FS_RemoveElement, Zenon
<1>5. Cardinality(B \ {x}) = IF x \in B THEN Cardinality(B) - 1 ELSE Cardinality(B)
  BY <1>1, FS_RemoveElement, Zenon
<1>6. (IF x \in A THEN Cardinality(A) - 1 ELSE Cardinality(A))
        = IF x \in B THEN Cardinality(B) - 1 ELSE Cardinality(B)
  BY <1>2, <1>4, <1>5, Zenon
<1>7. Delta(f[x].sm2, k) = (IF x \in A THEN 1 ELSE 0)
  BY <1>3, Zenon DEF Delta
<1>8. Delta(v.sm2, k) = (IF x \in B THEN 1 ELSE 0)
  BY <1>3, Zenon DEF Delta
<1>9. Cardinality(B) = Cardinality(A) - Delta(f[x].sm2, k) + Delta(v.sm2, k)
  BY <1>1, <1>6, <1>7, <1>8
<1> QED
  BY <1>9 DEF A, B, Count

\* EVP_PKEY_free takes one reference from the object it is given, if any.
LEMMA FreeFacts ==
    ASSUME NEW counts \in [Objects -> Int], NEW j \in Pointers
    PROVE  /\ EVP_PKEY_free(counts, j) \in [Objects -> Int]
           /\ \A k \in Objects : EVP_PKEY_free(counts, j)[k] = counts[k] - Delta(j, k)
BY DEF EVP_PKEY_free, Objects, Pointers, Delta

\* What the invariant says of the references, in terms of Count.
Counted(r, f, g) ==
    \A k \in Objects : r[k] = Count(f, PrivateKeys, k) + Count(g, PublicKeys, k)

LEMMA RefsCounted == RefsMatchHolders <=> Counted(refs, priv, pub)
BY DEF RefsMatchHolders, Counted, Count, Holders

\* Nobody points to an EVP_PKEY that is not made yet, and it has no reference.
LEMMA UnmadeIsFree ==
    ASSUME TypeOK, PointersMade, RefsMatchHolders, made < MaxObjects
    PROVE  /\ made + 1 \in Objects
           /\ refs[made + 1] = 0
           /\ \A s \in PrivateKeys : priv[s].sm2 # made + 1
           /\ \A p \in PublicKeys : pub[p].sm2 # made + 1
<1>1. made + 1 \in Objects /\ made \in Nat
  BY DEF TypeOK, Objects, Pointers
<1>2. \A s \in PrivateKeys : priv[s].sm2 # made + 1
  BY <1>1 DEF TypeOK, PointersMade, KeyObject, Pointers
<1>3. \A p \in PublicKeys : pub[p].sm2 # made + 1
  BY <1>1 DEF TypeOK, PointersMade, KeyObject, Pointers
<1>4. Holders(priv, PrivateKeys, made + 1) = {} /\ Holders(pub, PublicKeys, made + 1) = {}
  BY <1>2, <1>3 DEF Holders
<1>5. Count(priv, PrivateKeys, made + 1) = 0 /\ Count(pub, PublicKeys, made + 1) = 0
  BY <1>4, FS_EmptySet DEF Count
<1>6. refs[made + 1] = 0
  BY <1>1, <1>5, RefsCounted DEF Counted
<1> QED
  BY <1>1, <1>2, <1>3, <1>6

\* The references of an EVP_PKEY that was made and given up again.
LEMMA NewThenFreed ==
    ASSUME TypeOK, PointersMade, RefsMatchHolders, made < MaxObjects
    PROVE  /\ EVP_PKEY_free(NewObject(refs), made + 1) = refs
           /\ EVP_PKEY_free(EVP_PKEY_free(
                  EVP_PKEY_up_ref(NewObject(refs), made + 1), made + 1), made + 1) = refs
<1>1. made + 1 \in Objects /\ made + 1 # 0 /\ refs[made + 1] = 0 /\ refs \in [Objects -> Nat]
  BY UnmadeIsFree DEF TypeOK, Objects, Pointers
<1>2. refs = [refs EXCEPT ![made + 1] = 0]
  BY <1>1
<1>3. EVP_PKEY_free(NewObject(refs), made + 1) = [refs EXCEPT ![made + 1] = 0]
  BY <1>1 DEF EVP_PKEY_free, NewObject
<1>4. EVP_PKEY_up_ref(NewObject(refs), made + 1) = [refs EXCEPT ![made + 1] = 2]
  BY <1>1 DEF EVP_PKEY_up_ref, NewObject
<1>5. EVP_PKEY_free([refs EXCEPT ![made + 1] = 2], made + 1) = [refs EXCEPT ![made + 1] = 1]
  BY <1>1 DEF EVP_PKEY_free
<1>6. EVP_PKEY_free([refs EXCEPT ![made + 1] = 1], made + 1) = [refs EXCEPT ![made + 1] = 0]
  BY <1>1 DEF EVP_PKEY_free
<1> QED
  BY <1>2, <1>3, <1>4, <1>5, <1>6

\* Every error path of composite_key_generate gives back what it took.
LEMMA UndoneLeavesRefs ==
    ASSUME TypeOK, PointersMade, RefsMatchHolders, made < MaxObjects,
           NEW fault \in GenerateFaults
    PROVE  GenerateUndone(fault) = refs
BY NewThenFreed DEF GenerateUndone, GenerateFaults

\* The fields of a signature are few enough to be counted.
LEMMA FieldsFacts ==
    ASSUME NEW fields \in SUBSET Fields
    PROVE  Cardinality(fields) \in Nat
<1>1. IsFiniteSet({}) /\ IsFiniteSet({} \cup {"dil"})
  BY FS_EmptySet, FS_AddElement
<1>2. IsFiniteSet(({} \cup {"dil"}) \cup {"sm2"})
  BY <1>1, FS_AddElement
<1>3. ({} \cup {"dil"}) \cup {"sm2"} = Fields
  BY DEF Fields
<1> QED
  BY <1>2, <1>3, FS_Subset, FS_CardinalityType

LEMMA KeyOfType ==
    ASSUME TypeOK, NEW object \in KeyObject
    PROVE  KeyOf(object) \in KeyObject
BY DEF TypeOK, KeyOf, KeyObject, Objects, Pointers

-----------------------------------------------------------------------------
(* The references, call by call: an object gives up the reference it had,  *)
(* and takes one on what it points to now.                                 *)

LEMMA PrivateReplaced ==
    ASSUME TypeOK, RefsMatchHolders, NEW s \in PrivateKeys, NEW v \in KeyObject,
           NEW k \in Objects
    PROVE  Count(Put(priv, s, v), PrivateKeys, k) + Count(pub, PublicKeys, k)
             = refs[k] - Delta(priv[s].sm2, k) + Delta(v.sm2, k)
<1>0. /\ priv \in [PrivateKeys -> KeyObject] /\ pub \in [PublicKeys -> KeyObject]
      /\ IsFiniteSet(PrivateKeys) /\ IsFiniteSet(PublicKeys) /\ k \in Pointers
  BY DEF TypeOK, Objects, Pointers
<1>1. Count(Put(priv, s, v), PrivateKeys, k)
        = Count(priv, PrivateKeys, k) - Delta(priv[s].sm2, k) + Delta(v.sm2, k)
  BY <1>0, CountUpdate
<1>2. refs[k] = Count(priv, PrivateKeys, k) + Count(pub, PublicKeys, k)
  BY RefsCounted DEF Counted
<1>3. Count(priv, PrivateKeys, k) \in Nat /\ Count(pub, PublicKeys, k) \in Nat
  BY CountIsNat
<1> QED
  BY <1>1, <1>2, <1>3 DEF Delta

LEMMA PublicReplaced ==
    ASSUME TypeOK, RefsMatchHolders, NEW p \in PublicKeys, NEW v \in KeyObject,
           NEW k \in Objects
    PROVE  Count(priv, PrivateKeys, k) + Count(Put(pub, p, v), PublicKeys, k)
             = refs[k] - Delta(pub[p].sm2, k) + Delta(v.sm2, k)
<1>0. /\ priv \in [PrivateKeys -> KeyObject] /\ pub \in [PublicKeys -> KeyObject]
      /\ IsFiniteSet(PrivateKeys) /\ IsFiniteSet(PublicKeys) /\ k \in Pointers
  BY DEF TypeOK, Objects, Pointers
<1>1. Count(Put(pub, p, v), PublicKeys, k)
        = Count(pub, PublicKeys, k) - Delta(pub[p].sm2, k) + Delta(v.sm2, k)
  BY <1>0, CountUpdate
<1>2. refs[k] = Count(priv, PrivateKeys, k) + Count(pub, PublicKeys, k)
  BY RefsCounted DEF Counted
<1>3. Count(priv, PrivateKeys, k) \in Nat /\ Count(pub, PublicKeys, k) \in Nat
  BY CountIsNat
<1> QED
  BY <1>1, <1>2, <1>3 DEF Delta

LEMMA BothReplaced ==
    ASSUME TypeOK, RefsMatchHolders, NEW s \in PrivateKeys, NEW p \in PublicKeys,
           NEW v \in KeyObject, NEW k \in Objects
    PROVE  Count(Put(priv, s, v), PrivateKeys, k)
             + Count(Put(pub, p, v), PublicKeys, k)
             = refs[k] - Delta(priv[s].sm2, k) - Delta(pub[p].sm2, k)
                 + Delta(v.sm2, k) + Delta(v.sm2, k)
<1>0. /\ priv \in [PrivateKeys -> KeyObject] /\ pub \in [PublicKeys -> KeyObject]
      /\ IsFiniteSet(PrivateKeys) /\ IsFiniteSet(PublicKeys) /\ k \in Pointers
  BY DEF TypeOK, Objects, Pointers
<1>1. Count(Put(priv, s, v), PrivateKeys, k)
        = Count(priv, PrivateKeys, k) - Delta(priv[s].sm2, k) + Delta(v.sm2, k)
  BY <1>0, CountUpdate
<1>2. Count(Put(pub, p, v), PublicKeys, k)
        = Count(pub, PublicKeys, k) - Delta(pub[p].sm2, k) + Delta(v.sm2, k)
  BY <1>0, CountUpdate
<1>3. refs[k] = Count(priv, PrivateKeys, k) + Count(pub, PublicKeys, k)
  BY RefsCounted DEF Counted
<1>4. Count(priv, PrivateKeys, k) \in Nat /\ Count(pub, PublicKeys, k) \in Nat
  BY CountIsNat
<1> QED
  BY <1>1, <1>2, <1>3, <1>4 DEF Delta

\* Reference counts that match the holders are counts.
LEMMA CountedIsNat ==
    ASSUME NEW r \in [Objects -> Int], NEW f, NEW g, Counted(r, f, g)
    PROVE  r \in [Objects -> Nat]
<1>1. \A k \in Objects : Count(f, PrivateKeys, k) \in Nat /\ Count(g, PublicKeys, k) \in Nat
  BY CountIsNat
<1> QED
  BY <1>1 DEF Counted

\* The references after a call that may replace objects.
LEMMA PrivateCleanupCounted ==
    ASSUME TypeOK, RefsMatchHolders, NEW s \in PrivateKeys, hybrid_private_key_cleanup(s)
    PROVE  refs' \in [Objects -> Nat] /\ Counted(refs', priv', pub')
<1>1. priv[s] \in KeyObject /\ priv[s].sm2 \in Pointers /\ Empty \in KeyObject
  BY DEF TypeOK, KeyObject, Empty, Pointers
<1>2. refs \in [Objects -> Int]
  BY DEF TypeOK
<1>3. /\ refs' \in [Objects -> Int]
      /\ \A k \in Objects : refs'[k] = refs[k] - Delta(priv[s].sm2, k)
  BY <1>1, <1>2, FreeFacts DEF hybrid_private_key_cleanup
<1>4. \A k \in Objects : Delta(Empty.sm2, k) = 0
  BY DEF Delta, Empty, Objects
<1>5. priv' = Put(priv, s, Empty) /\ pub' = pub
  BY DEF hybrid_private_key_cleanup, Put
<1>6. Counted(refs', priv', pub')
  BY <1>1, <1>2, <1>3, <1>4, <1>5, PrivateReplaced, DeltaIsNat DEF Counted
<1> QED
  BY <1>3, <1>6, CountedIsNat

LEMMA PublicCleanupCounted ==
    ASSUME TypeOK, RefsMatchHolders, NEW p \in PublicKeys, hybrid_public_key_cleanup(p)
    PROVE  refs' \in [Objects -> Nat] /\ Counted(refs', priv', pub')
<1>1. pub[p] \in KeyObject /\ pub[p].sm2 \in Pointers /\ Empty \in KeyObject
  BY DEF TypeOK, KeyObject, Empty, Pointers
<1>2. refs \in [Objects -> Int]
  BY DEF TypeOK
<1>3. /\ refs' \in [Objects -> Int]
      /\ \A k \in Objects : refs'[k] = refs[k] - Delta(pub[p].sm2, k)
  BY <1>1, <1>2, FreeFacts DEF hybrid_public_key_cleanup
<1>4. \A k \in Objects : Delta(Empty.sm2, k) = 0
  BY DEF Delta, Empty, Objects
<1>5. pub' = Put(pub, p, Empty) /\ priv' = priv
  BY DEF hybrid_public_key_cleanup, Put
<1>6. Counted(refs', priv', pub')
  BY <1>1, <1>2, <1>3, <1>4, <1>5, PublicReplaced, DeltaIsNat DEF Counted
<1> QED
  BY <1>3, <1>6, CountedIsNat

LEMMA ParseCounted ==
    ASSUME TypeOK, PointersMade, RefsMatchHolders, NEW p \in PublicKeys,
           NEW bytes \in KeyObject, Parse(p, bytes)
    PROVE  refs' \in [Objects -> Nat] /\ Counted(refs', priv', pub')
<1> DEFINE n == made + 1
           v == [sm2 |-> n, dil |-> bytes.dil]
<1>1. pub[p].sm2 \in Pointers /\ v \in KeyObject /\ v.sm2 = n
  BY DEF TypeOK, KeyObject, Pointers, Parse
<1>2. /\ n \in Objects /\ refs[n] = 0
  BY UnmadeIsFree DEF Parse
<1>3. /\ NewObject(refs) \in [Objects -> Int]
      /\ \A k \in Objects : NewObject(refs)[k] = refs[k] + Delta(n, k)
  BY <1>2 DEF TypeOK, NewObject, Delta
<1>4. /\ refs' \in [Objects -> Int]
      /\ \A k \in Objects : refs'[k] = NewObject(refs)[k] - Delta(pub[p].sm2, k)
  BY <1>1, <1>3, FreeFacts DEF Parse
<1>5. priv' = priv /\ pub' = Put(pub, p, v)
  BY DEF Parse, Put
<1>6. refs \in [Objects -> Nat]
  BY DEF TypeOK
<1> HIDE DEF n, v
<1>7. Counted(refs', priv', pub')
  BY <1>1, <1>3, <1>4, <1>5, <1>6, PublicReplaced, DeltaIsNat DEF Counted
<1> QED
  BY <1>4, <1>7, CountedIsNat

LEMMA GenerateCounted ==
    ASSUME TypeOK, PointersMade, RefsMatchHolders,
           NEW s \in PrivateKeys, NEW p \in PublicKeys, Generate(s, p)
    PROVE  refs' \in [Objects -> Nat] /\ Counted(refs', priv', pub')
<1> DEFINE n == made + 1
           v == [sm2 |-> n, dil |-> n]
           both == EVP_PKEY_up_ref(NewObject(refs), n)
           one == EVP_PKEY_free(both, priv[s].sm2)
<1>1. priv[s].sm2 \in Pointers /\ pub[p].sm2 \in Pointers /\ v \in KeyObject /\ v.sm2 = n
  BY DEF TypeOK, KeyObject, Pointers, Generate
<1>2. /\ n \in Objects /\ refs[n] = 0
  BY UnmadeIsFree DEF Generate
<1>3. /\ both \in [Objects -> Int]
      /\ \A k \in Objects : both[k] = refs[k] + Delta(n, k) + Delta(n, k)
  BY <1>2 DEF TypeOK, NewObject, EVP_PKEY_up_ref, Delta
<1>4. refs' = EVP_PKEY_free(one, pub[p].sm2)
  BY DEF Generate
<1>5. priv' = Put(priv, s, v) /\ pub' = Put(pub, p, v)
  BY DEF Generate, Put
<1>6. refs \in [Objects -> Nat]
  BY DEF TypeOK
<1> HIDE DEF n, v, both
<1>7. /\ one \in [Objects -> Int]
      /\ \A k \in Objects : one[k] = both[k] - Delta(priv[s].sm2, k)
  BY <1>1, <1>3, FreeFacts
<1> HIDE DEF one
<1>8. /\ refs' \in [Objects -> Int]
      /\ \A k \in Objects : refs'[k] = one[k] - Delta(pub[p].sm2, k)
  BY <1>1, <1>4, <1>7, FreeFacts
<1>9. Counted(refs', priv', pub')
  BY <1>1, <1>3, <1>5, <1>6, <1>7, <1>8, BothReplaced, DeltaIsNat DEF Counted
<1> QED
  BY <1>8, <1>9, CountedIsNat

-----------------------------------------------------------------------------
(* The inductive invariant, call by call. *)

IInv == ObjectInv /\ SignatureIsCurrent

\* Calls that leave every key object, and every reference, as it was.
KeysUnchanged ==
    /\ refs' = refs /\ pair' = pair /\ priv' = priv /\ pub' = pub
    /\ made' \in Pointers /\ made <= made'

LEMMA KeysUnchangedKeeps ==
    ASSUME ObjectInv, KeysUnchanged
    PROVE  /\ refs' \in [Objects -> Nat] /\ pair' \in [Objects -> Pointers]
           /\ priv' \in [PrivateKeys -> KeyObject] /\ pub' \in [PublicKeys -> KeyObject]
           /\ PointersMade' /\ RefsMatchHolders'
           /\ Known(blob)' => KeysStayTogether'
<1>1. PointersMade'
  BY DEF KeysUnchanged, ObjectInv, TypeOK, PointersMade, KeyObject, Pointers
<1>2. RefsMatchHolders'
  BY DEF KeysUnchanged, ObjectInv, RefsMatchHolders
<1>3. Known(blob)' => KeysStayTogether'
  BY DEF KeysUnchanged, ObjectInv, KeysStayTogether, KeyOf, Known
<1> QED
  BY <1>1, <1>2, <1>3 DEF KeysUnchanged, ObjectInv, TypeOK

\* Calls of hybrid_sign.c: only the signature and what was asked for change.
LEMMA SignatureCall ==
    ASSUME ObjectInv, UNCHANGED <<made, refs, pair, priv, pub, blob>>,
           sig' \in [held : SUBSET Fields, of : Requests], asked' \in Requests,
           ok' \in BOOLEAN, BlocksMatchFields'
    PROVE  ObjectInv'
<1>1. KeysUnchanged
  BY DEF KeysUnchanged, ObjectInv, TypeOK, Pointers
<1>2. Known(blob)' /\ blob' \in KeyObject
  BY DEF ObjectInv, TypeOK, KeysStayTogether, Known
<1>3. sig'.held \in SUBSET Fields
  OBVIOUS
<1>4. blocks' \in Nat
  BY <1>3, FieldsFacts DEF BlocksMatchFields
<1>5. TypeOK'
  BY <1>1, <1>2, <1>4, KeysUnchangedKeeps DEF TypeOK, KeysUnchanged
<1> QED
  BY <1>1, <1>2, <1>5, KeysUnchangedKeeps DEF ObjectInv

\* Calls of composite_key.c that leave the signature alone.
LEMMA KeyCall ==
    ASSUME ObjectInv, SignatureIsCurrent, UNCHANGED <<sig, blocks, asked>>
    PROVE  /\ SignatureIsCurrent' /\ BlocksMatchFields'
           /\ sig' \in [held : SUBSET Fields, of : Requests]
           /\ blocks' \in Nat /\ asked' \in Requests
BY DEF ObjectInv, TypeOK, SignatureIsCurrent, BlocksMatchFields

LEMMA InitInv == Init => IInv
<1> SUFFICES ASSUME Init
             PROVE  IInv
  OBVIOUS
<1>1. Empty \in KeyObject /\ Empty.sm2 = 0 /\ Empty.dil = 0
  BY DEF Empty, KeyObject, Pointers
<1>2. sig \in [held : SUBSET Fields, of : Requests] /\ sig.held = {} /\ asked \in Requests
  BY DEF Init, EmptySignature, Requests
<1>3. TypeOK
  BY <1>1, <1>2 DEF Init, TypeOK, Pointers
<1>4. PointersMade /\ KeysStayTogether
  BY <1>1 DEF Init, PointersMade, KeysStayTogether, KeyOf, Known
<1>5. \A k \in Objects : /\ Holders(priv, PrivateKeys, k) = {}
                         /\ Holders(pub, PublicKeys, k) = {}
  BY <1>1 DEF Init, Holders, Objects
<1>6. RefsMatchHolders
  BY <1>5, RefsCounted, FS_EmptySet DEF Init, Counted, Count
<1>7. BlocksMatchFields
  BY <1>2, FS_EmptySet DEF Init, BlocksMatchFields
<1> QED
  BY <1>2, <1>3, <1>4, <1>6, <1>7 DEF IInv, ObjectInv, SignatureIsCurrent

LEMMA PrivateCleanupKeeps ==
    ASSUME IInv, NEW s \in PrivateKeys, hybrid_private_key_cleanup(s)
    PROVE  IInv'
<1>1. Empty \in KeyObject /\ Empty.sm2 = 0 /\ Empty.dil = 0
  BY DEF Empty, KeyObject, Pointers
<1>2. refs' \in [Objects -> Nat] /\ RefsMatchHolders'
  BY PrivateCleanupCounted, RefsCounted DEF IInv, ObjectInv, RefsMatchHolders, Counted, Count, Holders
<1>3. TypeOK'
  BY <1>1, <1>2, KeyCall DEF IInv, ObjectInv, TypeOK, hybrid_private_key_cleanup
<1>4. PointersMade' /\ KeysStayTogether'
  BY <1>1 DEF IInv, ObjectInv, TypeOK, PointersMade, KeysStayTogether, KeyOf, Known, Pointers,
              hybrid_private_key_cleanup
<1> QED
  BY <1>2, <1>3, <1>4, KeyCall DEF IInv, ObjectInv, hybrid_private_key_cleanup

LEMMA PublicCleanupKeeps ==
    ASSUME IInv, NEW p \in PublicKeys, hybrid_public_key_cleanup(p)
    PROVE  IInv'
<1>1. Empty \in KeyObject /\ Empty.sm2 = 0 /\ Empty.dil = 0
  BY DEF Empty, KeyObject, Pointers
<1>2. refs' \in [Objects -> Nat] /\ RefsMatchHolders'
  BY PublicCleanupCounted DEF IInv, ObjectInv, RefsMatchHolders, Counted, Count, Holders
<1>3. TypeOK'
  BY <1>1, <1>2, KeyCall DEF IInv, ObjectInv, TypeOK, hybrid_public_key_cleanup
<1>4. PointersMade' /\ KeysStayTogether'
  BY <1>1 DEF IInv, ObjectInv, TypeOK, PointersMade, KeysStayTogether, KeyOf, Known, Pointers,
              hybrid_public_key_cleanup
<1> QED
  BY <1>2, <1>3, <1>4, KeyCall DEF IInv, ObjectInv, hybrid_public_key_cleanup

LEMMA GenerateKeeps ==
    ASSUME IInv, NEW s \in PrivateKeys, NEW p \in PublicKeys, Generate(s, p)
    PROVE  IInv'
<1> DEFINE n == made + 1
           v == [sm2 |-> n, dil |-> n]
<1>1. /\ n \in Objects /\ n \in Pointers /\ made' = n /\ made \in Nat
      /\ v \in KeyObject /\ v.sm2 = n /\ v.dil = n /\ n # 0
  BY DEF IInv, ObjectInv, TypeOK, Generate, Objects, Pointers, KeyObject
<1>2. refs' \in [Objects -> Nat] /\ RefsMatchHolders'
  BY GenerateCounted DEF IInv, ObjectInv, RefsMatchHolders, Counted, Count, Holders
<1>3. /\ pair' = [pair EXCEPT ![n] = n]
      /\ priv' = [priv EXCEPT ![s] = v] /\ pub' = [pub EXCEPT ![p] = v]
  BY DEF Generate
<1> HIDE DEF v
<1>4. TypeOK'
  BY <1>1, <1>2, <1>3, KeyCall DEF IInv, ObjectInv, TypeOK, Generate
<1>5. PointersMade'
  BY <1>1, <1>3 DEF IInv, ObjectInv, TypeOK, PointersMade, KeyObject, Pointers
<1>6. KeysStayTogether'
  <2>1. ASSUME NEW object \in KeyObject, object.sm2 <= made
        PROVE  KeyOf(object)' = KeyOf(object)
    BY <1>1, <1>3, <2>1, SMTT(30)
       DEF IInv, ObjectInv, TypeOK, KeyOf, KeyObject, Pointers, Objects
  <2>2. ASSUME NEW object \in KeyObject, object = v
        PROVE  KeyOf(object)'.sm2 = object.dil
    BY <1>1, <1>3, <2>2 DEF IInv, ObjectInv, TypeOK, KeyOf
  <2>3. ASSUME NEW t \in PrivateKeys
        PROVE  KeyOf(priv[t])'.sm2 = priv'[t].dil
    BY <1>1, <1>3, <2>1, <2>2 DEF IInv, ObjectInv, TypeOK, PointersMade, KeysStayTogether, KeyOf
  <2>4. ASSUME NEW q \in PublicKeys
        PROVE  Known(KeyOf(pub[q]))'
    <3>1. CASE q = p
      BY <1>1, <1>3, <2>2, <3>1 DEF IInv, ObjectInv, TypeOK, Known, KeyOf
    <3>2. CASE q # p
      BY <1>3, <2>1, <3>2 DEF IInv, ObjectInv, TypeOK, PointersMade, KeysStayTogether, Known
    <3> QED BY <3>1, <3>2
  <2> QED
    BY <2>3, <2>4 DEF KeysStayTogether, IInv, ObjectInv, Generate, Known
<1> QED
  BY <1>2, <1>4, <1>5, <1>6, KeyCall DEF IInv, ObjectInv, Generate

LEMMA ParseKeeps ==
    ASSUME IInv, NEW p \in PublicKeys, NEW bytes \in KeyObject, Known(bytes), Parse(p, bytes)
    PROVE  IInv'
<1> DEFINE n == made + 1
           v == [sm2 |-> n, dil |-> bytes.dil]
<1>1. /\ n \in Objects /\ n \in Pointers /\ made' = n /\ made \in Nat
      /\ v \in KeyObject /\ v.sm2 = n /\ v.dil = bytes.dil /\ n # 0
      /\ bytes.sm2 \in Pointers
  BY DEF IInv, ObjectInv, TypeOK, Parse, Objects, Pointers, KeyObject, KeysStayTogether
<1>2. refs' \in [Objects -> Nat] /\ RefsMatchHolders'
  BY ParseCounted DEF IInv, ObjectInv, RefsMatchHolders, Counted, Count, Holders
<1>3. /\ pair' = [pair EXCEPT ![n] = bytes.sm2]
      /\ priv' = priv /\ pub' = [pub EXCEPT ![p] = v]
  BY DEF Parse
<1> HIDE DEF v
<1>4. TypeOK'
  BY <1>1, <1>2, <1>3, KeyCall DEF IInv, ObjectInv, TypeOK, Parse
<1>5. PointersMade'
  BY <1>1, <1>3 DEF IInv, ObjectInv, TypeOK, PointersMade, KeyObject, Pointers
<1>6. KeysStayTogether'
  <2>1. ASSUME NEW object \in KeyObject, object.sm2 <= made
        PROVE  KeyOf(object)' = KeyOf(object)
    BY <1>1, <1>3, <2>1, SMTT(30)
       DEF IInv, ObjectInv, TypeOK, KeyOf, KeyObject, Pointers, Objects
  <2>2. ASSUME NEW object \in KeyObject, object = v
        PROVE  KeyOf(object)' = bytes
    BY <1>1, <1>3, <2>2 DEF IInv, ObjectInv, TypeOK, KeyOf, KeyObject
  <2>3. ASSUME NEW t \in PrivateKeys
        PROVE  KeyOf(priv[t])'.sm2 = priv'[t].dil
    BY <1>3, <2>1 DEF IInv, ObjectInv, TypeOK, PointersMade, KeysStayTogether
  <2>4. ASSUME NEW q \in PublicKeys
        PROVE  Known(KeyOf(pub[q]))'
    <3>1. CASE q = p
      BY <1>1, <1>3, <2>2, <3>1 DEF IInv, ObjectInv, TypeOK, Known
    <3>2. CASE q # p
      BY <1>3, <2>1, <3>2 DEF IInv, ObjectInv, TypeOK, PointersMade, KeysStayTogether, Known
    <3> QED BY <3>1, <3>2
  <2> QED
    BY <2>3, <2>4 DEF KeysStayTogether, IInv, ObjectInv, Parse, Known
<1> QED
  BY <1>2, <1>4, <1>5, <1>6, KeyCall DEF IInv, ObjectInv, Parse

\* Bytes that may be parsed are a key pair's, or a mixture received.
LEMMA SerializedKnown ==
    ASSUME IInv, NEW bytes \in Serialized
    PROVE  bytes \in KeyObject /\ Known(bytes)
BY ObjectsAssumption DEF IInv, ObjectInv, TypeOK, KeysStayTogether, Serialized, Known, KeyObject, Pointers

\* The error paths of composite_key.c: an EVP_PKEY may have come and gone.
LEMMA FailureLeavesKeys ==
    ASSUME IInv,
           \/ \E s \in PrivateKeys, p \in PublicKeys : GenerateFails(s, p)
           \/ \E p \in PublicKeys : ParseFails(p)
    PROVE  KeysUnchanged /\ blob' = blob /\ UNCHANGED <<sig, blocks, asked>> /\ ok' \in BOOLEAN
<1>1. made \in Pointers /\ (made < MaxObjects => made + 1 \in Pointers)
  BY DEF IInv, ObjectInv, TypeOK, Pointers
<1>2. ASSUME NEW s \in PrivateKeys, NEW p \in PublicKeys, GenerateFails(s, p)
      PROVE  KeysUnchanged
  BY <1>1, <1>2, UndoneLeavesRefs DEF IInv, ObjectInv, GenerateFails, KeysUnchanged, Pointers
<1>3. ASSUME NEW p \in PublicKeys, ParseFails(p)
      PROVE  KeysUnchanged
  BY <1>1, <1>3, NewThenFreed DEF IInv, ObjectInv, ParseFails, KeysUnchanged, Pointers
<1> QED
  BY <1>2, <1>3 DEF GenerateFails, ParseFails

LEMMA FailureKeeps ==
    ASSUME IInv,
           \/ \E s \in PrivateKeys, p \in PublicKeys : GenerateFails(s, p)
           \/ \E p \in PublicKeys : ParseFails(p)
    PROVE  IInv'
<1>1. KeysUnchanged /\ blob' = blob /\ UNCHANGED <<sig, blocks, asked>> /\ ok' \in BOOLEAN
  BY FailureLeavesKeys
<1>2. Known(blob)' /\ blob' \in KeyObject
  BY <1>1 DEF IInv, ObjectInv, TypeOK, KeysStayTogether, Known
<1>3. TypeOK'
  BY <1>1, <1>2, KeyCall, KeysUnchangedKeeps DEF IInv, TypeOK, KeysUnchanged
<1> QED
  BY <1>1, <1>2, <1>3, KeyCall, KeysUnchangedKeeps DEF IInv, ObjectInv

LEMMA SerializeKeeps ==
    ASSUME IInv, NEW p \in PublicKeys, composite_serialize_public_key(p)
    PROVE  IInv'
<1>1. KeysUnchanged /\ UNCHANGED <<sig, blocks, asked>>
  BY DEF KeysUnchanged, IInv, ObjectInv, TypeOK, Pointers, composite_serialize_public_key
<1>2. Empty \in KeyObject /\ Empty.sm2 = Empty.dil
  BY DEF Empty, KeyObject, Pointers
<1>3. KeyOf(pub[p]) \in KeyObject /\ Known(KeyOf(pub[p]))
  BY KeyOfType DEF IInv, ObjectInv, TypeOK, KeysStayTogether
<1>4. Known(blob)' /\ blob' \in KeyObject /\ ok' \in BOOLEAN
  BY <1>2, <1>3 DEF composite_serialize_public_key, Known
<1>5. TypeOK'
  BY <1>1, <1>4, KeyCall, KeysUnchangedKeeps DEF IInv, TypeOK, KeysUnchanged
<1> QED
  BY <1>1, <1>4, <1>5, KeyCall, KeysUnchangedKeeps DEF IInv, ObjectInv

\* What hybrid_sign and hybrid_signature_cleanup leave in a signature.
LEMMA SignatureFacts ==
    /\ EmptySignature \in [held : SUBSET Fields, of : Requests]
    /\ EmptySignature.held = {} /\ Cardinality({}) = 0
BY FS_EmptySet DEF EmptySignature, Requests

LEMMA SignFailsKeeps ==
    ASSUME IInv, NEW s \in PrivateKeys, NEW message \in Messages, SignFails(s, message)
    PROVE  IInv'
<1>1. asked' \in Requests
  BY KeyOfType DEF IInv, ObjectInv, TypeOK, SignFails, Requests
<1>2. sig.held \in SUBSET Fields /\ blocks = Cardinality(sig.held)
  BY DEF IInv, ObjectInv, TypeOK, BlocksMatchFields
<1>3. PICK got \in {{}, {"dil"}, {"sm2"}} :
         blocks' = Freed(Freed(blocks, sig.held) + Cardinality(got), got)
  BY DEF SignFails
<1>4. got \in SUBSET Fields
  BY DEF Fields
<1>5. Cardinality(sig.held) \in Nat /\ Cardinality(got) \in Nat
  BY <1>2, <1>4, FieldsFacts
<1>6. blocks' = 0
  BY <1>2, <1>3, <1>5 DEF Freed
<1>7. sig' = EmptySignature /\ ok' \in BOOLEAN
  BY DEF SignFails
<1>8. ObjectInv'
  BY <1>1, <1>6, <1>7, SignatureFacts, SignatureCall DEF IInv, SignFails, BlocksMatchFields
<1> QED
  BY <1>7, <1>8, SignatureFacts DEF IInv, SignatureIsCurrent

LEMMA SignKeeps ==
    ASSUME IInv, NEW s \in PrivateKeys, NEW message \in Messages, Sign(s, message)
    PROVE  IInv'
<1>1. asked' \in Requests
  BY KeyOfType DEF IInv, ObjectInv, TypeOK, Sign, Requests
<1>2. sig.held \in SUBSET Fields /\ blocks = Cardinality(sig.held)
  BY DEF IInv, ObjectInv, TypeOK, BlocksMatchFields
<1>3. Cardinality(sig.held) \in Nat /\ Cardinality(Fields) \in Nat
  BY <1>2, FieldsFacts
<1>4. blocks' = Cardinality(Fields)
  BY <1>2, <1>3 DEF Sign, Freed
<1>5. sig' = [held |-> Fields, of |-> asked'] /\ ok' \in BOOLEAN
  BY DEF Sign
<1>6. ObjectInv'
  BY <1>1, <1>4, <1>5, SignatureCall DEF IInv, Sign, BlocksMatchFields
<1> QED
  BY <1>5, <1>6 DEF IInv, SignatureIsCurrent

LEMMA SignatureCleanupKeeps ==
    ASSUME IInv, hybrid_signature_cleanup
    PROVE  IInv'
<1>1. sig.held \in SUBSET Fields /\ blocks = Cardinality(sig.held) /\ asked \in Requests
  BY DEF IInv, ObjectInv, TypeOK, BlocksMatchFields
<1>2. Cardinality(sig.held) \in Nat
  BY <1>1, FieldsFacts
<1>3. blocks' = 0
  BY <1>1, <1>2 DEF hybrid_signature_cleanup, Freed
<1>4. sig' = EmptySignature /\ ok' \in BOOLEAN
  BY DEF hybrid_signature_cleanup
<1>5. ObjectInv'
  BY <1>1, <1>3, <1>4, SignatureFacts, SignatureCall
     DEF IInv, hybrid_signature_cleanup, BlocksMatchFields
<1> QED
  BY <1>4, <1>5, SignatureFacts DEF IInv, SignatureIsCurrent

LEMMA VerifyKeeps ==
    ASSUME IInv, NEW p \in PublicKeys, NEW message \in Messages, hybrid_verify(p, message)
    PROVE  IInv'
<1>1. UNCHANGED <<made, refs, pair, priv, pub, blob, sig, blocks, asked>>
  BY DEF hybrid_verify
<1>2. ok' \in BOOLEAN
  BY Zenon DEF hybrid_verify
<1>3. sig' \in [held : SUBSET Fields, of : Requests] /\ asked' \in Requests
      /\ BlocksMatchFields'
  BY <1>1 DEF IInv, ObjectInv, TypeOK, BlocksMatchFields
<1>4. ObjectInv'
  BY <1>1, <1>2, <1>3, SignatureCall DEF IInv
<1> QED
  BY <1>1, <1>4 DEF IInv, SignatureIsCurrent

LEMMA StepInv == IInv /\ [Next]_vars => IInv'
<1> SUFFICES ASSUME IInv, [Next]_vars
             PROVE  IInv'
  OBVIOUS
<1>1. ASSUME NEW s \in PrivateKeys, hybrid_private_key_cleanup(s)
      PROVE  IInv'
  BY <1>1, PrivateCleanupKeeps
<1>2. ASSUME NEW p \in PublicKeys, hybrid_public_key_cleanup(p)
      PROVE  IInv'
  BY <1>2, PublicCleanupKeeps
<1>3. ASSUME NEW p \in PublicKeys, composite_serialize_public_key(p)
      PROVE  IInv'
  BY <1>3, SerializeKeeps
<1>4. ASSUME NEW p \in PublicKeys, composite_parse_public_key(p)
      PROVE  IInv'
  BY <1>4, ParseKeeps, SerializedKnown, FailureKeeps DEF composite_parse_public_key
<1>5. ASSUME NEW s \in PrivateKeys, NEW p \in PublicKeys, composite_key_generate(s, p)
      PROVE  IInv'
  BY <1>5, GenerateKeeps, FailureKeeps DEF composite_key_generate
<1>6. ASSUME NEW s \in PrivateKeys, NEW message \in Messages, hybrid_sign(s, message)
      PROVE  IInv'
  BY <1>6, SignKeeps, SignFailsKeeps DEF hybrid_sign
<1>7. ASSUME NEW p \in PublicKeys, NEW message \in Messages, hybrid_verify(p, message)
      PROVE  IInv'
  BY <1>7, VerifyKeeps
<1>8. CASE hybrid_signature_cleanup
  BY <1>8, SignatureCleanupKeeps
<1>9. CASE UNCHANGED vars
  BY <1>9 DEF vars, IInv, ObjectInv, TypeOK, PointersMade, RefsMatchHolders,
              BlocksMatchFields, KeysStayTogether, KeyOf, Known, SignatureIsCurrent
<1> QED
  BY <1>1, <1>2, <1>3, <1>4, <1>5, <1>6, <1>7, <1>8, <1>9 DEF Next

LEMMA Invariant == Spec => []IInv
BY InitInv, StepInv, PTL DEF Spec

-----------------------------------------------------------------------------
(* Theorems *)

\* Between any two calls each EVP_PKEY has exactly as many references as
\* objects point to it, each block allocated for a signature is a field of
\* one, and the halves of every key object belong together: composite_key.c
\* and hybrid_sign.c neither leak nor free too early on any error path.
THEOREM ObjectsCorrect == Spec => []ObjectInv
BY Invariant, PTL DEF IInv

\* A HYBRID_SIGNATURE is empty or what the last hybrid_sign was asked for,
\* because hybrid_sign cleans it up before it can fail.
THEOREM SignatureCurrent == Spec => []SignatureIsCurrent
BY Invariant, PTL DEF IInv

\* A call that fails leaves the caller's key objects, and the references of
\* every EVP_PKEY made before it, as they were: composite_key_generate and
\* composite_parse_public_key stage what they build.
THEOREM FailureKeepsKeys == Spec => FailureChangesNoKey
<1> DEFINE Quiet == ~ok' => UNCHANGED <<priv, pub>> /\ \A k \in 1..made : refs'[k] = refs[k]
<1>1. IInv /\ [Next]_vars => [Quiet]_vars
  <2> SUFFICES ASSUME IInv, Next, ~ok'
               PROVE  UNCHANGED <<priv, pub>> /\ refs' = refs
    BY DEF vars
  <2>1. ASSUME \/ \E s \in PrivateKeys, p \in PublicKeys : GenerateFails(s, p)
               \/ \E p \in PublicKeys : ParseFails(p)
        PROVE  UNCHANGED <<priv, pub>> /\ refs' = refs
    BY <2>1, FailureLeavesKeys DEF KeysUnchanged
  <2>2. ASSUME NEW s \in PrivateKeys, hybrid_private_key_cleanup(s)
        PROVE  FALSE
    BY <2>2 DEF hybrid_private_key_cleanup
  <2>3. ASSUME NEW p \in PublicKeys, hybrid_public_key_cleanup(p) \/ \E bytes \in Serialized : Parse(p, bytes)
        PROVE  FALSE
    BY <2>3 DEF hybrid_public_key_cleanup, Parse
  <2>4. ASSUME NEW s \in PrivateKeys, NEW p \in PublicKeys, Generate(s, p)
        PROVE  FALSE
    BY <2>4 DEF Generate
  <2>5. ASSUME NEW p \in PublicKeys, composite_serialize_public_key(p)
        PROVE  UNCHANGED <<priv, pub>> /\ refs' = refs
    BY <2>5 DEF composite_serialize_public_key
  <2>6. ASSUME NEW s \in PrivateKeys, NEW message \in Messages, hybrid_sign(s, message)
        PROVE  UNCHANGED <<priv, pub>> /\ refs' = refs
    BY <2>6 DEF hybrid_sign, Sign, SignFails
  <2>7. ASSUME NEW p \in PublicKeys, NEW message \in Messages, hybrid_verify(p, message)
        PROVE  UNCHANGED <<priv, pub>> /\ refs' = refs
    BY <2>7 DEF hybrid_verify
  <2>8. CASE hybrid_signature_cleanup
    BY <2>8 DEF hybrid_signature_cleanup
  <2> QED
    BY <2>1, <2>2, <2>3, <2>4, <2>5, <2>6, <2>7, <2>8
       DEF Next, composite_parse_public_key, composite_key_generate
<1> QED
  BY <1>1, Invariant, PTL DEF Spec, FailureChangesNoKey

=============================================================================
