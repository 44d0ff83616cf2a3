-------------------------- MODULE CaptureDemoProof --------------------------
(***************************************************************************)
(* Proofs about PqKex and CaptureDemo, for any number of KEMs and any      *)
(* hellos.  The argument: strict parsing is the inverse of the encoding,   *)
(* so the verdict on one extension is what its encoding says; parsing      *)
(* keeps a summary of the extensions behind it (Summary) from which the    *)
(* verdict on the hello follows.                                           *)
(***************************************************************************)
EXTENDS CaptureDemo, SequenceTheorems, WellFoundedInduction, TLAPS

-----------------------------------------------------------------------------
(* Encoding and parsing *)

Bytes == 0..255

\* The elements of two sequences of numbers put together.
IsJoin(all, front, back) ==
    /\ all \in Seq(Nat) /\ Len(all) = Len(front) + Len(back)
    /\ \A i \in 1..Len(front) : all[i] = front[i]
    /\ \A i \in 1..Len(back) : all[i + Len(front)] = back[i]

LEMMA Joined ==
    \A front, back \in Seq(Nat) : IsJoin(front \o back, front, back)
<1> SUFFICES ASSUME NEW front \in Seq(Nat), NEW back \in Seq(Nat),
                    NEW all, all = front \o back
             PROVE  IsJoin(all, front, back)
  OBVIOUS
<1>1. /\ all \in Seq(Nat) /\ Len(all) = Len(front) + Len(back)
      /\ \A i \in 1..(Len(front) + Len(back)) :
            all[i] = IF i <= Len(front) THEN front[i] ELSE back[i - Len(front)]
  BY ConcatProperties
<1>2. Len(front) \in Nat /\ Len(back) \in Nat
  OBVIOUS
<1>3. ASSUME NEW i \in 1..Len(back)
      PROVE  all[i + Len(front)] = back[i]
  <2>1. /\ i + Len(front) \in 1..(Len(front) + Len(back))
        /\ ~ (i + Len(front) <= Len(front))
    BY <1>2
  <2>2. i + Len(front) - Len(front) = i
    BY <1>2
  <2>3. all[i + Len(front)] = back[i + Len(front) - Len(front)]
    BY <1>1, <2>1
  <2> QED BY <2>2, <2>3
<1> QED BY <1>1, <1>2, <1>3 DEF IsJoin

\* Two bytes are a number below 2^16 and back.
Joins(n, hi, lo) == n = hi * 256 + lo
Splits(n, hi, lo) == hi = n \div 256 /\ lo = n % 256

LEMMA Uint16Facts ==
    /\ \A n \in Nat : /\ uint16_to_bytes(n)[1] = n \div 256
                      /\ uint16_to_bytes(n)[2] = n % 256
                      /\ uint16_to_bytes(n) \in Seq(Nat) /\ Len(uint16_to_bytes(n)) = 2
    /\ \A n, hi, lo \in Nat : Splits(n, hi, lo) => Joins(n, hi, lo)
    /\ \A n \in Nat, hi, lo \in Bytes : Joins(n, hi, lo) => Splits(n, hi, lo)
    /\ \A hi, lo \in Bytes : \E n \in Nat : Joins(n, hi, lo)
<1>1. ASSUME NEW n \in Nat
      PROVE  /\ uint16_to_bytes(n)[1] = n \div 256
             /\ uint16_to_bytes(n)[2] = n % 256
             /\ uint16_to_bytes(n) \in Seq(Nat) /\ Len(uint16_to_bytes(n)) = 2
  <2>1. n \div 256 \in Nat /\ n % 256 \in Nat
    OBVIOUS
  <2> QED BY <2>1 DEF uint16_to_bytes
<1>2. ASSUME NEW n \in Nat, NEW hi \in Nat, NEW lo \in Nat, Splits(n, hi, lo)
      PROVE  Joins(n, hi, lo)
  BY <1>2 DEF Splits, Joins
<1>3. ASSUME NEW n \in Nat, NEW hi \in Bytes, NEW lo \in Bytes, Joins(n, hi, lo)
      PROVE  Splits(n, hi, lo)
  BY <1>3 DEF Splits, Joins, Bytes
<1>4. ASSUME NEW hi \in Bytes, NEW lo \in Bytes
      PROVE  \E n \in Nat : Joins(n, hi, lo)
  BY DEF Joins, Bytes
<1> QED BY <1>1, <1>2, <1>3, <1>4

\* The bytes of an encoded list of n KEMs, one by one.
Encodes(data, n, kems) ==
    /\ data \in Seq(Nat) /\ Len(data) = 2 * n + 2
    /\ Splits(n * 2, data[1], data[2])
    /\ \A k \in 1..n : Splits(kems[k], data[2 * k + 1], data[2 * k + 2])

LEMMA EncodedBytes ==
    \A n \in Nat : \A kems \in [1..n -> Nat] :
        Encodes(tls_pqkex_ext_to_bytes(kems), n, kems)
<1> SUFFICES ASSUME NEW n \in Nat, NEW kems \in [1..n -> Nat],
                    NEW data, data = tls_pqkex_ext_to_bytes(kems)
             PROVE  Encodes(data, n, kems)
  OBVIOUS
<1> DEFINE front == uint16_to_bytes(n * 2)
           body == [i \in 1..(n * 2) |->
                       uint16_to_bytes(kems[(i + 1) \div 2])[IF i % 2 = 1 THEN 1 ELSE 2]]
<1>1. Len(kems) = n
  OBVIOUS
<1>2. data = front \o body
  BY <1>1 DEF tls_pqkex_ext_to_bytes
<1>3. /\ front \in Seq(Nat) /\ Len(front) = 2
      /\ front[1] = (n * 2) \div 256 /\ front[2] = (n * 2) % 256
  <2>1. PICK m \in Nat : m = n * 2
    OBVIOUS
  <2>2. /\ uint16_to_bytes(m) \in Seq(Nat) /\ Len(uint16_to_bytes(m)) = 2
        /\ uint16_to_bytes(m)[1] = m \div 256 /\ uint16_to_bytes(m)[2] = m % 256
    BY Uint16Facts, ZenonT(60)
  <2>3. front = uint16_to_bytes(m)
    BY <2>1
  <2> HIDE DEF front
  <2> QED BY <2>1, <2>2, <2>3
<1>4. \A i \in 1..(n * 2) : (i + 1) \div 2 \in 1..n
  OBVIOUS
<1>5. ASSUME NEW i \in 1..(n * 2)
      PROVE  body[i] = IF i % 2 = 1 THEN kems[(i + 1) \div 2] \div 256
                                    ELSE kems[(i + 1) \div 2] % 256
  <2>1. PICK kem \in Nat : kem = kems[(i + 1) \div 2]
    BY <1>4
  <2>2. body[i] = uint16_to_bytes(kem)[IF i % 2 = 1 THEN 1 ELSE 2]
    BY <2>1
  <2>3. body[i] = IF i % 2 = 1 THEN kem \div 256 ELSE kem % 256
    BY <2>2, Uint16Facts, ZenonT(60)
  <2> QED BY <2>1, <2>3
<1>6. body \in Seq(Nat) /\ Len(body) = n * 2
  <2>1. \A i \in 1..(n * 2) : body[i] \in Nat
    <3> SUFFICES ASSUME NEW i \in 1..(n * 2)
                 PROVE  body[i] \in Nat
      OBVIOUS
    <3>1. kems[(i + 1) \div 2] \in Nat
      BY <1>4
    <3>2. \A m \in Nat : m \div 256 \in Nat /\ m % 256 \in Nat
      OBVIOUS
    <3> QED BY <1>5, <3>1, <3>2
  <2>2. n * 2 \in Nat /\ body \in [1..(n * 2) -> Nat]
    BY <2>1
  <2> QED BY <2>2
<1> HIDE DEF front, body
<1>7. /\ data \in Seq(Nat) /\ Len(data) = 2 * n + 2
      /\ data[1] = front[1] /\ data[2] = front[2]
      /\ \A i \in 1..(n * 2) : data[i + 2] = body[i]
  <2>1. /\ data \in Seq(Nat) /\ Len(data) = Len(front) + Len(body)
        /\ \A i \in 1..Len(front) : data[i] = front[i]
        /\ \A i \in 1..Len(body) : data[i + Len(front)] = body[i]
    <3>1. IsJoin(data, front, body)
      BY <1>2, <1>3, <1>6, Joined
    <3> QED BY <3>1 DEF IsJoin
  <2> QED BY <1>3, <1>6, <2>1
<1>8. ASSUME NEW k \in 1..n
      PROVE  data[2 * k + 1] = kems[k] \div 256 /\ data[2 * k + 2] = kems[k] % 256
  <2>1. /\ 2 * k - 1 \in 1..(n * 2) /\ (2 * k - 1) % 2 = 1
        /\ 2 * k \in 1..(n * 2) /\ (2 * k) % 2 = 0
    OBVIOUS
  <2>2. (2 * k - 1 + 1) \div 2 = k /\ (2 * k + 1) \div 2 = k
    OBVIOUS
  <2>3. body[2 * k - 1] = kems[k] \div 256
    BY <1>5, <2>1, <2>2
  <2>4. body[2 * k] = kems[k] % 256
    BY <1>5, <2>1, <2>2
  <2>5. 2 * k - 1 + 2 = 2 * k + 1
    OBVIOUS
  <2>6. data[2 * k - 1 + 2] = body[2 * k - 1] /\ data[2 * k + 2] = body[2 * k]
    BY <1>7, <2>1
  <2> QED BY <2>3, <2>4, <2>5, <2>6
<1> QED BY <1>3, <1>7, <1>8 DEF Encodes, Splits

LEMMA ByteFacts ==
    /\ \A b \in Bytes : b \in Nat
    /\ \A data \in Seq(Bytes) : \A i \in 1..Len(data) : data[i] \in Bytes
<1>1. \A b \in Bytes : b \in Nat
  BY DEF Bytes
<1>2. \A data \in Seq(Bytes) : \A i \in 1..Len(data) : data[i] \in Bytes
  OBVIOUS
<1> QED BY <1>1, <1>2

\* The number at a place of the data.
LEMMA NumberAt ==
    ASSUME NEW data \in Seq(Bytes), NEW at \in Nat, at >= 1, at + 1 <= Len(data)
    PROVE  /\ uint16_from_bytes(data, at) \in Nat
           /\ Joins(uint16_from_bytes(data, at), data[at], data[at + 1])
<1>1. data[at] \in Bytes /\ data[at + 1] \in Bytes
  BY ByteFacts
<1>2. PICK n \in Nat : Joins(n, data[at], data[at + 1])
  BY <1>1, Uint16Facts, ZenonT(60)
<1>3. n = uint16_from_bytes(data, at)
  BY <1>2 DEF Joins, uint16_from_bytes
<1> QED BY <1>2, <1>3

LEMMA Halves ==
    ASSUME NEW l \in Nat, NEW n \in Nat, n = l \div 2, l % 2 = 0, l >= 2
    PROVE  l = n * 2 /\ n >= 1
OBVIOUS

\* What is known of data that tls_pqkex_from_bytes accepts.
AcceptedAs(data, n) ==
    /\ Len(data) = 2 * n + 2
    /\ Joins(n * 2, data[1], data[2])
    /\ tls_pqkex_from_bytes(data)
           = [i \in 1..n |-> uint16_from_bytes(data, 2 * i + 1)]

LEMMA AcceptedData ==
    ASSUME NEW data \in Seq(Bytes), tls_pqkex_from_bytes(data) # Malformed
    PROVE  \E n \in 1..TLS_PQKEX_MAX_KEMS : AcceptedAs(data, n)
<1>1. Len(data) >= 2
  BY DEF tls_pqkex_from_bytes
<1>2. PICK list_len \in Nat : /\ list_len = uint16_from_bytes(data, 1)
                              /\ Joins(list_len, data[1], data[2])
  <2>1. /\ uint16_from_bytes(data, 1) \in Nat
        /\ Joins(uint16_from_bytes(data, 1), data[1], data[1 + 1])
    BY <1>1, NumberAt
  <2> QED BY <2>1
<1>3. PICK n \in Nat : n = list_len \div 2
  OBVIOUS
<1>4. tls_pqkex_from_bytes(data)
          = IF /\ Len(data) >= 2
               /\ list_len = Len(data) - 2
               /\ list_len >= 2 /\ list_len % 2 = 0
               /\ n <= TLS_PQKEX_MAX_KEMS
            THEN [i \in 1..n |-> uint16_from_bytes(data, 2 * i + 1)]
            ELSE Malformed
  BY <1>2, <1>3 DEF tls_pqkex_from_bytes
<1>5. /\ list_len = Len(data) - 2 /\ list_len >= 2 /\ list_len % 2 = 0
      /\ n <= TLS_PQKEX_MAX_KEMS
      /\ tls_pqkex_from_bytes(data)
             = [i \in 1..n |-> uint16_from_bytes(data, 2 * i + 1)]
  BY <1>4
<1>6. list_len = n * 2 /\ n >= 1
  BY <1>3, <1>5, Halves
<1>7. n \in 1..TLS_PQKEX_MAX_KEMS /\ Len(data) = 2 * n + 2
  BY <1>5, <1>6, MaxKemsAssumption
<1> QED BY <1>2, <1>5, <1>6, <1>7 DEF AcceptedAs

\* The numbers in the places where a list of KEMs has its elements.
KemsIn(data) ==
    {uint16_from_bytes(data, 2 * k + 1) : k \in 1..((Len(data) - 2) \div 2)}

\* Strict parsing accepts nothing but encodings: what it returns encodes to
\* what it was given.
LEMMA ParsedIsEncoded ==
    ASSUME NEW data \in Seq(Bytes), NEW kems,
           kems = tls_pqkex_from_bytes(data), kems # Malformed
    PROVE  \E n \in 1..TLS_PQKEX_MAX_KEMS :
             /\ kems \in [1..n -> Nat] /\ kems \in [1..n -> KemsIn(data)]
             /\ data = tls_pqkex_ext_to_bytes(kems)
<1>1. PICK n \in 1..TLS_PQKEX_MAX_KEMS : AcceptedAs(data, n)
  BY AcceptedData
<1>2. /\ n \in Nat /\ Len(data) = 2 * n + 2 /\ Joins(n * 2, data[1], data[2])
      /\ kems = [i \in 1..n |-> uint16_from_bytes(data, 2 * i + 1)]
  BY <1>1 DEF AcceptedAs
<1>3. ASSUME NEW i \in 1..n
      PROVE  /\ kems[i] \in Nat /\ Joins(kems[i], data[2 * i + 1], data[2 * i + 2])
             /\ data[2 * i + 1] \in Bytes /\ data[2 * i + 2] \in Bytes
  <2>1. PICK at \in Nat : at = 2 * i + 1 /\ at >= 1 /\ at + 1 <= Len(data)
                          /\ at + 1 = 2 * i + 2
    BY <1>2
  <2>2. data[at] \in Bytes /\ data[at + 1] \in Bytes
    BY <2>1, ByteFacts
  <2>3. kems[i] = uint16_from_bytes(data, at)
    BY <1>2, <2>1
  <2>4. /\ uint16_from_bytes(data, at) \in Nat
        /\ Joins(uint16_from_bytes(data, at), data[at], data[at + 1])
    BY <2>1, NumberAt
  <2> QED BY <2>1, <2>2, <2>3, <2>4
<1>4. kems \in [1..n -> Nat]
  BY <1>2, <1>3
<1>5. kems \in [1..n -> KemsIn(data)]
  <2>1. (Len(data) - 2) \div 2 = n
    BY <1>2
  <2> QED BY <1>2, <2>1 DEF KemsIn
<1>6. PICK again : again = tls_pqkex_ext_to_bytes(kems)
  OBVIOUS
<1>7. Encodes(again, n, kems)
  BY <1>2, <1>4, <1>6, EncodedBytes
<1>8. again[1] = data[1] /\ again[2] = data[2]
  <2>1. 1 \in 1..Len(data) /\ 2 \in 1..Len(data)
    BY <1>2
  <2>2. data[1] \in Bytes /\ data[2] \in Bytes
    BY <2>1, ByteFacts
  <2>3. n * 2 \in Nat
    BY <1>2
  <2>4. Splits(n * 2, data[1], data[2])
    BY <1>2, <2>2, <2>3, Uint16Facts
  <2> QED BY <1>7, <2>4 DEF Encodes, Splits
<1>9. ASSUME NEW k \in 1..n
      PROVE  again[2 * k + 1] = data[2 * k + 1] /\ again[2 * k + 2] = data[2 * k + 2]
  <2>1. Splits(kems[k], data[2 * k + 1], data[2 * k + 2])
    BY <1>3, Uint16Facts
  <2>2. Splits(kems[k], again[2 * k + 1], again[2 * k + 2])
    BY <1>7 DEF Encodes
  <2> QED BY <2>1, <2>2 DEF Splits
<1>10. ASSUME NEW i \in 1..Len(data)
      PROVE  again[i] = data[i]
  <2>1. CASE i \in {1, 2}
    BY <1>8, <2>1
  <2>2. CASE i > 2 /\ i % 2 = 1
    <3>1. PICK k \in 1..n : i = 2 * k + 1
      <4>1. (i - 1) \div 2 \in 1..n /\ i = 2 * ((i - 1) \div 2) + 1
        BY <1>2, <2>2
      <4> QED BY <4>1
    <3> QED BY <1>9, <3>1
  <2>3. CASE i > 2 /\ i % 2 = 0
    <3>1. PICK k \in 1..n : i = 2 * k + 2
      <4>1. (i - 2) \div 2 \in 1..n /\ i = 2 * ((i - 2) \div 2) + 2
        BY <1>2, <2>3
      <4> QED BY <4>1
    <3> QED BY <1>9, <3>1
  <2> QED BY <2>1, <2>2, <2>3
<1>11. again = data
  <2>1. again \in Seq(Nat) /\ Len(again) = Len(data)
    BY <1>2, <1>7 DEF Encodes
  <2> QED BY <1>10, <2>1
<1> QED BY <1>4, <1>5, <1>6, <1>11

\* Every encoding of a list that is not too long is accepted, and read back.
LEMMA EncodedIsParsed ==
    ASSUME NEW data \in Seq(Bytes), NEW n \in 1..TLS_PQKEX_MAX_KEMS,
           NEW kems \in [1..n -> Nat], data = tls_pqkex_ext_to_bytes(kems)
    PROVE  tls_pqkex_from_bytes(data) = kems /\ kems # Malformed
<1>1. n \in Nat /\ n >= 1 /\ n <= TLS_PQKEX_MAX_KEMS
  BY MaxKemsAssumption
<1>2. Encodes(data, n, kems)
  BY <1>1, EncodedBytes
<1>3. Len(data) = 2 * n + 2 /\ n * 2 \in Nat
  BY <1>1, <1>2 DEF Encodes
<1>4. \A i \in 1..Len(data) : data[i] \in Nat
  BY ByteFacts
<1>5. uint16_from_bytes(data, 1) = n * 2
  <2>1. data[1] \in Nat /\ data[2] \in Nat
    BY <1>1, <1>3, <1>4
  <2>2. Joins(n * 2, data[1], data[2])
    BY <1>2, <1>3, <2>1, Uint16Facts, ZenonT(60) DEF Encodes
  <2> QED BY <2>2 DEF uint16_from_bytes, Joins
<1>6. ASSUME NEW k \in 1..n
      PROVE  uint16_from_bytes(data, 2 * k + 1) = kems[k]
  <2>1. 2 * k + 1 \in 1..Len(data) /\ 2 * k + 2 \in 1..Len(data) /\ 2 * k + 1 + 1 = 2 * k + 2
    BY <1>1, <1>3
  <2>2. data[2 * k + 1] \in Nat /\ data[2 * k + 2] \in Nat /\ kems[k] \in Nat
    BY <1>4, <2>1
  <2>3. Splits(kems[k], data[2 * k + 1], data[2 * k + 2])
    BY <1>2 DEF Encodes
  <2>4. Joins(kems[k], data[2 * k + 1], data[2 * k + 2])
    BY <2>2, <2>3, Uint16Facts
  <2> QED BY <2>1, <2>4 DEF uint16_from_bytes, Joins
<1>7. /\ Len(data) >= 2 /\ n * 2 = Len(data) - 2 /\ n * 2 >= 2 /\ (n * 2) % 2 = 0
      /\ (n * 2) \div 2 = n
  BY <1>1, <1>3
<1>8. tls_pqkex_from_bytes(data) = [i \in 1..n |-> uint16_from_bytes(data, 2 * i + 1)]
  BY <1>1, <1>5, <1>7 DEF tls_pqkex_from_bytes
<1>9. tls_pqkex_from_bytes(data) = kems
  BY <1>6, <1>8
<1>10. kems # Malformed
  BY <1>1 DEF Malformed
<1> QED BY <1>9, <1>10

\* Strict parsing and the encoding are inverse: tls_pqkex_from_bytes accepts the
\* encodings of lists of 1 to TLS_PQKEX_MAX_KEMS KEMs, returns what was encoded,
\* and accepts nothing else.
THEOREM StrictParsing ==
    ASSUME NEW data \in Seq(0..255), NEW kems
    PROVE  (kems = tls_pqkex_from_bytes(data) /\ kems # Malformed) <=>
             \E n \in 1..TLS_PQKEX_MAX_KEMS :
                kems \in [1..n -> Nat] /\ data = tls_pqkex_ext_to_bytes(kems)
<1>1. data \in Seq(Bytes)
  BY DEF Bytes
<1>2. ASSUME kems = tls_pqkex_from_bytes(data), kems # Malformed
      PROVE  \E n \in 1..TLS_PQKEX_MAX_KEMS :
                kems \in [1..n -> Nat] /\ data = tls_pqkex_ext_to_bytes(kems)
  BY <1>1, <1>2, ParsedIsEncoded
<1>3. ASSUME NEW n \in 1..TLS_PQKEX_MAX_KEMS, kems \in [1..n -> Nat],
             data = tls_pqkex_ext_to_bytes(kems)
      PROVE  kems = tls_pqkex_from_bytes(data) /\ kems # Malformed
  BY <1>1, <1>3, EncodedIsParsed
<1> QED BY <1>2, <1>3

-----------------------------------------------------------------------------
(* The verdict on one extension *)

\* Every nonempty set of naturals has a least element.
LEMMA LeastElement ==
    ASSUME NEW T, T \subseteq Nat, T # {}
    PROVE  \E x \in T : \A y \in T : x =< y
<1>1. PICK x \in T : \A y \in T : ~ (<<y, x>> \in OpToRel(<, Nat))
  BY NatLessThanWellFounded, WFMin, Zenon
<1>2. \A y \in T : y < x => <<y, x>> \in OpToRel(<, Nat)
  BY DEF OpToRel
<1>3. \A y \in T : ~ (y < x)
  BY <1>1, <1>2
<1> QED BY <1>3

Has768(kems) == TLS_PQKEX_KEM_MLKEM768 \in ToSet(kems)

\* ML-KEM-768 is selected wherever it stands in the client's list.
LEMMA SelectFacts ==
    ASSUME NEW n \in Nat, NEW kems \in [1..n -> Nat]
    PROVE  tls_pqkex_select_kem(kems, Kems)
               = IF Has768(kems) THEN TLS_PQKEX_KEM_MLKEM768 ELSE TLS_PQKEX_KEM_NONE
<1> DEFINE common == {i \in DOMAIN kems : kems[i] \in ToSet(Kems)}
<1>1. ToSet(Kems) = {TLS_PQKEX_KEM_MLKEM768}
  BY DEF ToSet, Kems
<1>2. common = {i \in 1..n : kems[i] = TLS_PQKEX_KEM_MLKEM768}
  BY <1>1
<1>3. Has768(kems) <=> common # {}
  BY <1>2 DEF Has768, ToSet
<1>4. ASSUME common # {}
      PROVE  kems[Min(common)] = TLS_PQKEX_KEM_MLKEM768
  <2>1. common \subseteq Nat
    BY <1>2
  <2>2. \E x \in common : \A y \in common : x =< y
    BY <1>4, <2>1, LeastElement
  <2>3. Min(common) \in common
    BY <2>2, Zenon DEF Min
  <2> QED BY <1>2, <2>3
<1>5. tls_pqkex_select_kem(kems, Kems)
          = IF common = {} THEN TLS_PQKEX_KEM_NONE ELSE kems[Min(common)]
  BY DEF tls_pqkex_select_kem
<1> HIDE DEF common
<1> QED BY <1>3, <1>4, <1>5

\* Well formed data, and well formed data that offers ML-KEM-768.
WellFormed(data) == tls_pqkex_from_bytes(data) # Malformed
Carries(data) == WellFormed(data) /\ Has768(tls_pqkex_from_bytes(data))

LEMMA SelectedMeansCarried ==
    ASSUME NEW data \in Seq(Bytes), WellFormed(data)
    PROVE  tls_pqkex_select_kem(tls_pqkex_from_bytes(data), Kems)
               = IF Carries(data) THEN TLS_PQKEX_KEM_MLKEM768 ELSE TLS_PQKEX_KEM_NONE
<1>1. PICK n \in 1..TLS_PQKEX_MAX_KEMS : tls_pqkex_from_bytes(data) \in [1..n -> Nat]
  BY ParsedIsEncoded DEF WellFormed
<1>2. n \in Nat
  OBVIOUS
<1> QED BY <1>1, <1>2, SelectFacts DEF Carries

\* The same said by the encoding, as Advertises does.
LEMMA CarriesMeansEncodes ==
    ASSUME NEW data \in Seq(Bytes)
    PROVE  Carries(data) <=>
             \E n \in 1..TLS_PQKEX_MAX_KEMS : \E kems \in [1..n -> KemsIn(data)] :
                data = tls_pqkex_ext_to_bytes(kems) /\ Has768(kems)
<1>1. ASSUME Carries(data)
      PROVE  \E n \in 1..TLS_PQKEX_MAX_KEMS : \E kems \in [1..n -> KemsIn(data)] :
                data = tls_pqkex_ext_to_bytes(kems) /\ Has768(kems)
  BY <1>1, ParsedIsEncoded DEF Carries, WellFormed
<1>2. ASSUME NEW n \in 1..TLS_PQKEX_MAX_KEMS, NEW kems \in [1..n -> KemsIn(data)],
             data = tls_pqkex_ext_to_bytes(kems), Has768(kems)
      PROVE  Carries(data)
  <2>1. KemsIn(data) \subseteq Nat
    <3> SUFFICES ASSUME NEW k \in 1..((Len(data) - 2) \div 2)
                 PROVE  uint16_from_bytes(data, 2 * k + 1) \in Nat
      BY DEF KemsIn
    <3>1. PICK at \in Nat : at = 2 * k + 1 /\ at >= 1 /\ at + 1 <= Len(data)
      OBVIOUS
    <3> QED BY <3>1, NumberAt
  <2>2. kems \in [1..n -> Nat]
    BY <2>1
  <2>3. tls_pqkex_from_bytes(data) = kems /\ kems # Malformed
    BY <1>2, <2>2, EncodedIsParsed
  <2> QED BY <1>2, <2>3 DEF Carries, WellFormed
<1> QED BY <1>1, <1>2

LEMMA ExtensionFacts ==
    \A ext \in Extension : ext.type \in {"known", "pqkex", "broken"} /\ ext.data \in Seq(Bytes)
BY DEF Extension, Bytes

\* The first k extensions could be told apart.
Unbroken(hello, k) == \A i \in 1..k : hello[i].type # "broken"

\* The hello advertises the capability: one PQKEX extension, which carries it.
LEMMA AdvertisesMeans ==
    ASSUME NEW hello \in Seq(Extension)
    PROVE  Advertises(hello) <=>
             /\ Unbroken(hello, Len(hello))
             /\ \E i \in DOMAIN hello : PqkexData(hello) = {i} /\ Carries(hello[i].data)
<1>1. ASSUME NEW i \in DOMAIN hello
      PROVE  Carries(hello[i].data) <=>
               \E n \in 1..TLS_PQKEX_MAX_KEMS :
                 \E kems \in [1..n -> KemsIn(hello[i].data)] :
                    hello[i].data = tls_pqkex_ext_to_bytes(kems) /\ Has768(kems)
  <2>1. hello[i].data \in Seq(Bytes)
    BY ExtensionFacts
  <2> QED BY <2>1, CarriesMeansEncodes
<1>2. Advertises(hello) <=>
        /\ \A i \in DOMAIN hello : hello[i].type # "broken"
        /\ \E i \in DOMAIN hello :
           /\ PqkexData(hello) = {i}
           /\ \E n \in 1..TLS_PQKEX_MAX_KEMS :
                \E kems \in [1..n -> KemsIn(hello[i].data)] :
                    hello[i].data = tls_pqkex_ext_to_bytes(kems) /\ Has768(kems)
  BY Zenon DEF Advertises, KemsIn, Has768
<1>3. (\A i \in DOMAIN hello : hello[i].type # "broken") <=> Unbroken(hello, Len(hello))
  <2>1. DOMAIN hello = 1..Len(hello)
    OBVIOUS
  <2> QED BY <2>1, Zenon DEF Unbroken
<1> QED BY <1>1, <1>2, <1>3, Zenon

-----------------------------------------------------------------------------
(* The verdict on a hello *)

\* The connection after a well formed extension.
Offered(data) ==
    [offered |-> TRUE,
     negotiated |-> Carries(data),
     selected |-> IF Carries(data) THEN TLS_PQKEX_KEM_MLKEM768 ELSE TLS_PQKEX_KEM_NONE,
     failed |-> FALSE]

\* What the handler does: a second extension or a malformed one fails.
LEMMA ProcessFacts ==
    ASSUME NEW data \in Seq(Bytes)
    PROVE  LET first == tlcp_process_client_pqkex(NewConnection, Kems, data)
           IN IF WellFormed(data) THEN first = Offered(data)
              ELSE first = [NewConnection EXCEPT !.failed = TRUE]
<1>1. CASE WellFormed(data)
  <2>1. PICK kem : kem = tls_pqkex_select_kem(tls_pqkex_from_bytes(data), Kems)
    OBVIOUS
  <2>2. kem = IF Carries(data) THEN TLS_PQKEX_KEM_MLKEM768 ELSE TLS_PQKEX_KEM_NONE
    BY <1>1, <2>1, SelectedMeansCarried
  <2>3. tlcp_process_client_pqkex(NewConnection, Kems, data)
            = [NewConnection EXCEPT !.offered = TRUE, !.selected = kem,
                                    !.negotiated = kem # TLS_PQKEX_KEM_NONE]
    BY <1>1, <2>1 DEF tlcp_process_client_pqkex, WellFormed, NewConnection
  <2>4. (kem # TLS_PQKEX_KEM_NONE) = Carries(data)
    BY <2>2 DEF TLS_PQKEX_KEM_NONE, TLS_PQKEX_KEM_MLKEM768, Carries
  <2> QED BY <1>1, <2>2, <2>3, <2>4 DEF NewConnection, Offered
<1>2. CASE ~WellFormed(data)
  BY <1>2 DEF tlcp_process_client_pqkex, WellFormed
<1> QED BY <1>1, <1>2

LEMMA ProcessAgain ==
    ASSUME NEW seen, NEW data
    PROVE  tlcp_process_client_pqkex(Offered(seen), Kems, data)
               = [Offered(seen) EXCEPT !.failed = TRUE]
BY DEF tlcp_process_client_pqkex, Offered

\* The connection after the first k extensions of a hello, none of which was
\* refused.
Untouched(hello, k, c) ==
    c = NewConnection /\ \A i \in 1..k : hello[i].type # "pqkex"
OnceAt(hello, k, c, i) ==
    /\ i \in 1..k /\ hello[i].type = "pqkex" /\ WellFormed(hello[i].data)
    /\ \A j \in 1..k : hello[j].type = "pqkex" => j = i
    /\ c = Offered(hello[i].data)
Summary(hello, k, c) ==
    /\ Unbroken(hello, k)
    /\ Untouched(hello, k, c) \/ \E i \in 1..k : OnceAt(hello, k, c, i)

Verdict(c) == c.offered /\ c.negotiated /\ c.selected = TLS_PQKEX_KEM_MLKEM768

ConnectionOK(c) ==
    /\ c.offered \in BOOLEAN /\ c.negotiated \in BOOLEAN /\ c.failed \in BOOLEAN
    /\ c.negotiated => c.offered /\ c.selected = TLS_PQKEX_KEM_MLKEM768

LEMMA ConnectionFacts ==
    /\ ConnectionOK(NewConnection) /\ ~NewConnection.failed /\ ~NewConnection.offered
    /\ \A data : /\ ConnectionOK(Offered(data)) /\ ~Offered(data).failed
                 /\ Offered(data).offered
                 /\ Verdict(Offered(data)) = Carries(data)
    /\ ~Verdict(NewConnection)
BY DEF ConnectionOK, NewConnection, Offered, Verdict, Carries, WellFormed, Has768

\* At the end of the hello the summary is the verdict.
LEMMA VerdictAtEnd ==
    ASSUME NEW hello \in Seq(Extension), NEW c, Summary(hello, Len(hello), c)
    PROVE  /\ Verdict(c) = Advertises(hello)
           /\ ConnectionOK(c) /\ ~c.failed
<1>3. Unbroken(hello, Len(hello))
  BY DEF Summary
<1>1. CASE Untouched(hello, Len(hello), c)
  <2>1. PqkexData(hello) = {}
    BY <1>1 DEF Untouched, PqkexData
  <2>2. ~Advertises(hello)
    BY <2>1, AdvertisesMeans
  <2>3. c = NewConnection
    BY <1>1 DEF Untouched
  <2>4. ~Verdict(c) /\ ConnectionOK(c) /\ ~c.failed
    BY <2>3, ConnectionFacts
  <2>5. Verdict(c) \in BOOLEAN /\ Advertises(hello) \in BOOLEAN
    BY DEF Verdict, Advertises
  <2> QED BY <2>2, <2>4, <2>5
<1>2. ASSUME NEW i \in 1..Len(hello), OnceAt(hello, Len(hello), c, i)
      PROVE  /\ Verdict(c) = Advertises(hello)
             /\ ConnectionOK(c) /\ ~c.failed
  <2>1. PqkexData(hello) = {i}
    BY <1>2 DEF OnceAt, PqkexData
  <2>2. Advertises(hello) <=> Carries(hello[i].data)
    <3>1. (\E j \in DOMAIN hello : PqkexData(hello) = {j} /\ Carries(hello[j].data))
            <=> Carries(hello[i].data)
      BY <2>1
    <3> QED BY <1>3, <3>1, AdvertisesMeans
  <2>3. c = Offered(hello[i].data)
    BY <1>2 DEF OnceAt
  <2>4. Verdict(c) = Carries(hello[i].data) /\ ConnectionOK(c) /\ ~c.failed
    BY <2>3, ConnectionFacts
  <2>5. Carries(hello[i].data) \in BOOLEAN /\ Advertises(hello) \in BOOLEAN
    BY DEF Carries, WellFormed, Advertises
  <2> QED BY <2>2, <2>4, <2>5
<1> QED BY <1>1, <1>2 DEF Summary

\* The first PQKEX extension of the hello is well formed: AlertNamesTheFault.
FirstWellFormed(hello) ==
    \E i \in PqkexData(hello) : /\ WellFormed(hello[i].data)
                                /\ \A j \in PqkexData(hello) : j >= i

\* What one more extension makes of the connection.
Processed(c, ext) ==
    IF ext.type = "pqkex" THEN tlcp_process_client_pqkex(c, Kems, ext.data) ELSE c

Refusal(hello, c) ==
    /\ c.failed = TRUE /\ ConnectionOK(c)
    /\ ~Advertises(hello)
    /\ c.offered <=> FirstWellFormed(hello)

\* The next extension is summarised too, or refused for what the hello has.
LEMMA NextExtension ==
    ASSUME NEW hello \in Seq(Extension), NEW k \in Nat, k < Len(hello),
           NEW c, Summary(hello, k, c), hello[k + 1].type # "broken"
    PROVE  LET next == Processed(c, hello[k + 1])
           IN \/ next.failed = FALSE /\ ConnectionOK(next) /\ Summary(hello, k + 1, next)
              \/ Refusal(hello, next)
<1> DEFINE ext == hello[k + 1]
           data == hello[k + 1].data
<1>1. k + 1 \in 1..Len(hello) /\ ext \in Extension /\ data \in Seq(Bytes)
  BY ExtensionFacts
<1>2. 1..(k + 1) = (1..k) \cup {k + 1} /\ 1..(k + 1) \subseteq DOMAIN hello
  OBVIOUS
<1>. Unbroken(hello, k + 1)
  BY <1>2 DEF Summary, Unbroken
<1>3. CASE ext.type # "pqkex"
  <2>1. Processed(c, ext) = c
    BY <1>3 DEF Processed
  <2>2. Summary(hello, k + 1, c)
    <3>1. CASE Untouched(hello, k, c)
      BY <1>2, <1>3, <3>1 DEF Untouched, Summary
    <3>2. ASSUME NEW i \in 1..k, OnceAt(hello, k, c, i)
          PROVE  OnceAt(hello, k + 1, c, i)
      BY <1>2, <1>3, <3>2 DEF OnceAt
    <3> QED BY <1>2, <3>1, <3>2 DEF Summary
  <2>3. c.failed = FALSE /\ ConnectionOK(c)
    BY ConnectionFacts DEF Summary, Untouched, OnceAt, ConnectionOK
  <2> QED BY <2>1, <2>2, <2>3
<1>4. CASE ext.type = "pqkex" /\ Untouched(hello, k, c) /\ WellFormed(data)
  <2>1. Processed(c, ext) = Offered(data)
    BY <1>1, <1>4, ProcessFacts DEF Processed, Untouched
  <2>2. OnceAt(hello, k + 1, Offered(data), k + 1)
    BY <1>2, <1>4 DEF OnceAt, Untouched
  <2>3. Offered(data).failed = FALSE /\ ConnectionOK(Offered(data))
    BY ConnectionFacts DEF ConnectionOK
  <2>4. Summary(hello, k + 1, Offered(data))
    BY <1>2, <2>2 DEF Summary
  <2> QED BY <2>1, <2>3, <2>4
<1>5. CASE ext.type = "pqkex" /\ Untouched(hello, k, c) /\ ~WellFormed(data)
  <2>1. Processed(c, ext) = [NewConnection EXCEPT !.failed = TRUE]
    BY <1>1, <1>5, ProcessFacts DEF Processed, Untouched
  <2>2. /\ Processed(c, ext).failed = TRUE /\ Processed(c, ext).offered = FALSE
        /\ Processed(c, ext).negotiated = FALSE
    BY <2>1 DEF NewConnection
  <2>3. k + 1 \in PqkexData(hello) /\ \A j \in PqkexData(hello) : j >= k + 1
    BY <1>1, <1>2, <1>5 DEF PqkexData, Untouched
  <2>4. ~FirstWellFormed(hello)
    <3> SUFFICES ASSUME NEW i \in PqkexData(hello), WellFormed(hello[i].data),
                        \A j \in PqkexData(hello) : j >= i
                 PROVE  FALSE
      BY DEF FirstWellFormed
    <3>1. i = k + 1
      BY <2>3 DEF PqkexData
    <3> QED BY <1>5, <3>1
  <2>5. ~Advertises(hello)
    <3> SUFFICES ASSUME NEW i \in DOMAIN hello, PqkexData(hello) = {i},
                        Carries(hello[i].data)
                 PROVE  FALSE
      BY AdvertisesMeans
    <3>1. i = k + 1
      BY <2>3
    <3> QED BY <1>5, <3>1 DEF Carries
  <2> QED BY <2>2, <2>4, <2>5 DEF Refusal, ConnectionOK
<1>6. ASSUME ext.type = "pqkex", NEW i \in 1..k, OnceAt(hello, k, c, i)
      PROVE  Refusal(hello, Processed(c, ext))
  <2>1. Processed(c, ext) = [Offered(hello[i].data) EXCEPT !.failed = TRUE]
    BY <1>6, ProcessAgain DEF Processed, OnceAt
  <2>2. /\ Processed(c, ext).failed = TRUE /\ Processed(c, ext).offered = TRUE
        /\ Processed(c, ext).negotiated = Carries(hello[i].data)
        /\ Processed(c, ext).selected = IF Carries(hello[i].data)
                                        THEN TLS_PQKEX_KEM_MLKEM768 ELSE TLS_PQKEX_KEM_NONE
    BY <2>1 DEF Offered
  <2>3. /\ k + 1 \in PqkexData(hello) /\ i \in PqkexData(hello) /\ i # k + 1
        /\ \A j \in PqkexData(hello) : j >= i
    <3>1. i \in DOMAIN hello /\ k + 1 \in DOMAIN hello /\ i # k + 1
      BY <1>1, <1>2
    <3>2. \A j \in PqkexData(hello) : j \in 1..k => j = i
      BY <1>6 DEF PqkexData, OnceAt
    <3>3. \A j \in PqkexData(hello) : j \in 1..k \/ j > k
      BY DEF PqkexData
    <3>4. \A j \in PqkexData(hello) : j >= i
      BY <3>2, <3>3 DEF PqkexData
    <3> QED BY <1>6, <3>1, <3>4 DEF PqkexData, OnceAt
  <2>4. FirstWellFormed(hello)
    BY <1>6, <2>3 DEF FirstWellFormed, OnceAt
  <2>5. ~Advertises(hello)
    BY <2>3, AdvertisesMeans
  <2>6. Carries(hello[i].data) \in BOOLEAN
    BY DEF Carries, WellFormed
  <2>7. ConnectionOK(Processed(c, ext))
    BY <2>2, <2>6 DEF ConnectionOK
  <2> QED BY <2>2, <2>4, <2>5, <2>7 DEF Refusal
<1> QED BY <1>3, <1>4, <1>5, <1>6 DEF Summary

-----------------------------------------------------------------------------
(* The inductive invariant *)

\* What a connection carries, and who is where.
WireInv ==
    /\ wire \in [Clients -> {Nothing, Eof, Invalid} \cup Seq(Extension)]
    /\ child \in {"none", "setup", "connect", "send"} => wire["child"] = Nothing
    /\ child = "success" => wire["child"] = DemoHello

Distinct(queue) == \A i, j \in 1..Len(queue) : queue[i] = queue[j] => i = j

BacklogInv ==
    /\ backlog \in Seq(Clients) /\ Distinct(backlog)
    /\ child \in {"none", "setup", "connect"} => "child" \notin ToSet(backlog)

ControlInv ==
    /\ receiver \in {"demo", "tlcp"}
    /\ parent \in {"setup", "listen", "fork", "accept", "recv", "parse", "wait",
                   "success", "failure"}
    /\ child \in {"none", "setup", "connect", "send", "success", "failure"}
    /\ peer \in Clients \cup {"none"}
    /\ parent \in {"setup", "listen", "fork"} => child = "none"
    /\ parent \in {"setup", "listen", "fork", "accept"} => peer = "none"
    /\ parent \in {"recv", "parse"} => peer # "none"
    /\ parent = "success" => child = "success" /\ serverOk = TRUE

\* While nothing has been parsed; while the hello is; when there is a verdict.
Fresh == rest = <<>> /\ conn = NewConnection /\ alert = "none" /\ serverOk = FALSE

ParsedSoFar(hello, left, c) ==
    /\ hello \in Seq(Extension) /\ left \in Seq(Extension)
    /\ Len(left) <= Len(hello)
    /\ \A i \in 1..Len(left) : left[i] = hello[Len(hello) - Len(left) + i]
    /\ Summary(hello, Len(hello) - Len(left), c)

Parsing ==
    ParsedSoFar(wire[peer], rest, conn) /\ alert = "none" /\ serverOk = FALSE

NotJudged ==
    /\ peer = "none" \/ wire[peer] \in {Eof, Invalid}
    /\ alert = "none" /\ serverOk = FALSE

Judged ==
    /\ peer # "none" /\ wire[peer] \in Seq(Extension)
    /\ serverOk = Advertises(wire[peer])
    /\ alert \in {"none", "decode_error", "illegal_parameter"}
    /\ alert # "none" => (alert = "illegal_parameter") = FirstWellFormed(wire[peer])

ParseInv ==
    /\ ConnectionOK(conn)
    /\ parent \in {"setup", "listen", "fork", "accept", "recv"} => Fresh
    /\ parent = "parse" => Parsing
    /\ parent \in {"wait", "success", "failure"} => NotJudged \/ Judged

DemoInv == WireInv /\ BacklogInv /\ ControlInv /\ ParseInv

LEMMA Retyped ==
    ASSUME NEW d \in Seq(Nat), NEW S, \A i \in 1..Len(d) : d[i] \in S
    PROVE  d \in Seq(S)
OBVIOUS

\* Nothing, end of file and a bad record are no hello, and the demo's is one.
LEMMA HelloFacts ==
    /\ Nothing \notin Seq(Extension) /\ Eof \notin Seq(Extension)
    /\ Invalid \notin Seq(Extension) /\ Nothing # Eof /\ Nothing # Invalid
    /\ DemoHello \in Seq(Extension)
    /\ StrangerHellos \subseteq Seq(Extension)
<1>1. Nothing \notin Seq(Extension)
  <2>1. Nothing[1].type = "nothing" /\ 1 \in 1..Len(Nothing)
    BY DEF Nothing
  <2> QED BY <2>1, ExtensionFacts
<1>2. Eof \notin Seq(Extension)
  <2>1. Eof[1].type = "eof" /\ 1 \in 1..Len(Eof)
    BY DEF Eof
  <2> QED BY <2>1, ExtensionFacts
<1>3. Nothing # Eof /\ Nothing # Invalid
  BY DEF Nothing, Eof, Invalid
<1>5. Invalid \notin Seq(Extension)
  <2>1. Invalid[1].type = "invalid" /\ 1 \in 1..Len(Invalid)
    BY DEF Invalid
  <2> QED BY <2>1, ExtensionFacts
<1>4. DemoHello \in Seq(Extension)
  <2>1. PICK data : data = tls_pqkex_ext_to_bytes(Kems)
    OBVIOUS
  <2>2. Kems \in [1..1 -> Nat] /\ Kems[1] = 1
    BY DEF Kems, TLS_PQKEX_KEM_MLKEM768
  <2>3. Encodes(data, 1, Kems)
    BY <2>1, <2>2, EncodedBytes
  <2>4. data \in Seq(Nat) /\ Len(data) = 4
    BY <2>3 DEF Encodes
  <2>5. data[1] \in 0..255 /\ data[2] \in 0..255
    BY <2>3 DEF Encodes, Splits
  <2>6. Splits(1, data[3], data[4])
    BY <2>2, <2>3 DEF Encodes
  <2>7. data[3] \in 0..255 /\ data[4] \in 0..255
    BY <2>6 DEF Splits
  <2>8. data \in Seq(0..255)
    <3>1. \A i \in 1..4 : data[i] \in 0..255
      BY <2>5, <2>7
    <3>2. \A i \in 1..Len(data) : data[i] \in 0..255
      BY <2>4, <3>1
    <3> QED BY <2>4, <3>2, Retyped
  <2>9. [type |-> "pqkex", data |-> data] \in Extension
    BY <2>8 DEF Extension
  <2>10. [type |-> "known", data |-> <<>>] \in Extension
    BY DEF Extension
  <2> QED BY <2>1, <2>9, <2>10 DEF DemoHello
<1> QED BY <1>1, <1>2, <1>3, <1>4, <1>5, StrangerAssumption

\* What was sent stays as it is.
WireKept == \A c \in Clients : wire[c] # Nothing => wire'[c] = wire[c]

LEMMA OthersMove ==
    ASSUME DemoInv, WireKept, UNCHANGED <<parent, peer, rest, conn, alert, serverOk>>
    PROVE  ParseInv'
<1> USE DEF DemoInv, ParseInv
<1>1. ConnectionOK(conn)' /\ (Fresh => Fresh')
  BY DEF ConnectionOK, Fresh
<1>2. ASSUME peer \in Clients, wire[peer] # Nothing
      PROVE  wire'[peer'] = wire[peer]
  BY <1>2 DEF WireKept
<1>3. parent = "parse" /\ Parsing => Parsing'
  BY <1>2, HelloFacts DEF Parsing, ParsedSoFar, ControlInv
<1>4. NotJudged => NotJudged'
  BY <1>2, HelloFacts DEF NotJudged, ControlInv
<1>5. Judged => Judged'
  BY <1>2, HelloFacts DEF Judged, ControlInv
<1> QED BY <1>1, <1>3, <1>4, <1>5

\* Steps of the parent that only move it on.
LEMMA ParentMoves ==
    ASSUME DemoInv, NEW step, ParentGoes(step)
    PROVE  WireInv' /\ BacklogInv' /\ ConnectionOK(conn)'
           /\ (Fresh => Fresh') /\ (NotJudged => NotJudged') /\ (Judged => Judged')
<1>1. UNCHANGED <<receiver, child, backlog, wire, peer, rest, conn, alert, serverOk>>
  BY DEF ParentGoes
<1>2. WireInv' /\ BacklogInv'
  BY <1>1 DEF DemoInv, WireInv, BacklogInv
<1>3. ConnectionOK(conn)'
  BY <1>1 DEF DemoInv, ParseInv, ConnectionOK
<1>4. (Fresh => Fresh') /\ (NotJudged => NotJudged')
  BY <1>1 DEF Fresh, NotJudged
<1>5. Judged => Judged'
  BY <1>1 DEF Judged
<1> QED BY <1>2, <1>3, <1>4, <1>5

\* Nothing was accepted yet, or only what is no hello.
LEMMA FreshIsNotJudged ==
    Fresh /\ (peer = "none" \/ wire[peer] \in {Eof, Invalid}) => NotJudged
BY DEF Fresh, NotJudged

\* Set-up, listening and fork, with their failures.
LEMMA StartSteps ==
    ASSUME DemoInv, SetUpParent \/ create_listener \/ Fork
    PROVE  DemoInv'
<1> USE DEF DemoInv
<1>1. ASSUME NEW step, ParentGoes(step),
             parent \in {"setup", "listen", "fork"},
             step \in {"listen", "fork", "failure"}
      PROVE  DemoInv'
  <2>1. /\ parent' = step /\ child = "none" /\ peer = "none"
        /\ UNCHANGED <<receiver, child, peer, serverOk>>
    BY <1>1 DEF ParentGoes, ControlInv
  <2>2. ControlInv'
    BY <1>1, <2>1 DEF ControlInv
  <2>3. Fresh /\ NotJudged
    BY <1>1, <2>1, FreshIsNotJudged DEF ParseInv
  <2>4. Fresh' /\ NotJudged' /\ WireInv' /\ BacklogInv' /\ ConnectionOK(conn)'
    BY <1>1, <2>3, ParentMoves
  <2> QED BY <1>1, <2>1, <2>2, <2>4 DEF ParseInv
<1>2. ASSUME parent = "fork", parent' = "accept", child' = "setup",
             UNCHANGED <<receiver, backlog, wire, peer, rest, conn, alert, serverOk>>
      PROVE  DemoInv'
  <2>1. child = "none" /\ peer = "none" /\ Fresh
    BY <1>2 DEF ControlInv, ParseInv
  <2>2. ControlInv'
    BY <1>2, <2>1 DEF ControlInv
  <2>3. WireInv' /\ BacklogInv'
    BY <1>2, <2>1 DEF WireInv, BacklogInv
  <2>4. Fresh' /\ ConnectionOK(conn)'
    BY <1>2, <2>1 DEF Fresh, ParseInv, ConnectionOK
  <2> QED BY <1>2, <2>2, <2>3, <2>4 DEF ParseInv
<1> QED BY <1>1, <1>2 DEF SetUpParent, create_listener, Fork

\* accept: the oldest connection, or none.
LEMMA AcceptStep ==
    ASSUME DemoInv, Accept
    PROVE  DemoInv'
<1> USE DEF DemoInv
<1>1. parent = "accept" /\ backlog # <<>> /\ peer = "none" /\ Fresh
  BY DEF Accept, ControlInv, ParseInv
<1>2. CASE ParentGoes("wait")
  <2>1. parent' = "wait" /\ UNCHANGED <<receiver, child, peer, serverOk>>
    BY <1>2 DEF ParentGoes
  <2>2. ControlInv'
    BY <1>1, <2>1 DEF ControlInv
  <2>3. NotJudged' /\ WireInv' /\ BacklogInv' /\ ConnectionOK(conn)'
    BY <1>1, <1>2, ParentMoves, FreshIsNotJudged
  <2> QED BY <2>1, <2>2, <2>3 DEF ParseInv
<1>3. ASSUME parent' = "recv", peer' = Head(backlog), backlog' = Tail(backlog),
             UNCHANGED <<receiver, child, wire, rest, conn, alert, serverOk>>
      PROVE  DemoInv'
  <2>1. /\ backlog' \in Seq(Clients) /\ Len(backlog') = Len(backlog) - 1
        /\ \A i \in 1..Len(backlog') : i + 1 \in 1..Len(backlog) /\ backlog'[i] = backlog[i + 1]
        /\ peer' \in Clients
    BY <1>1, <1>3 DEF BacklogInv
  <2>2. BacklogInv'
    <3>1. Distinct(backlog')
      <4> SUFFICES ASSUME NEW i \in 1..Len(backlog'), NEW j \in 1..Len(backlog'),
                          backlog'[i] = backlog'[j]
                   PROVE  i = j
        BY DEF Distinct
      <4>1. i + 1 = j + 1
        BY <2>1 DEF BacklogInv, Distinct
      <4>2. i \in Int /\ j \in Int
        OBVIOUS
      <4> QED BY <4>1, <4>2
    <3>2. ToSet(backlog') \subseteq ToSet(backlog)
      <4>1. DOMAIN backlog' = 1..Len(backlog') /\ DOMAIN backlog = 1..Len(backlog)
        BY <2>1 DEF BacklogInv
      <4> QED BY <2>1, <4>1 DEF ToSet
    <3> QED BY <1>3, <2>1, <3>1, <3>2 DEF BacklogInv
  <2>3. peer' # "none"
    BY <2>1 DEF Clients
  <2>4. ControlInv'
    BY <1>1, <1>3, <2>1, <2>3 DEF ControlInv
  <2>5. WireInv'
    BY <1>3 DEF WireInv
  <2>6. Fresh' /\ ConnectionOK(conn)'
    BY <1>1, <1>3 DEF Fresh, ParseInv, ConnectionOK
  <2> QED BY <1>3, <2>2, <2>4, <2>5, <2>6 DEF ParseInv
<1> QED BY <1>2, <1>3 DEF Accept

\* tls_recv_record: a hello to be parsed, or end of file.
LEMMA ReceiveStep ==
    ASSUME DemoInv, ReceiveRecord
    PROVE  DemoInv'
<1> USE DEF DemoInv
<1>1. parent = "recv" /\ wire[peer] # Nothing /\ peer \in Clients /\ peer # "none" /\ Fresh
  BY DEF ReceiveRecord, ControlInv, ParseInv
<1>2. CASE wire[peer] \in {Eof, Invalid}
  <2>1. ParentGoes("wait")
    BY <1>2 DEF ReceiveRecord
  <2>2. parent' = "wait" /\ UNCHANGED <<receiver, child, peer, serverOk>>
    BY <2>1 DEF ParentGoes
  <2>3. ControlInv'
    BY <1>1, <2>2 DEF ControlInv
  <2>4. NotJudged' /\ WireInv' /\ BacklogInv' /\ ConnectionOK(conn)'
    BY <1>1, <1>2, <2>1, ParentMoves, FreshIsNotJudged
  <2> QED BY <2>2, <2>3, <2>4 DEF ParseInv
<1>3. CASE wire[peer] \notin {Eof, Invalid}
  <2>1. /\ parent' = "parse" /\ rest' = wire[peer]
        /\ UNCHANGED <<receiver, child, backlog, wire, peer, conn, alert, serverOk>>
    BY <1>3 DEF ReceiveRecord
  <2>2. PICK hello : hello = wire[peer]
    OBVIOUS
  <2>3. hello \in Seq(Extension)
    BY <1>1, <1>3, <2>2 DEF WireInv
  <2>4. Len(hello) - Len(hello) = 0 /\ \A i \in 1..Len(hello) : 0 + i = i
    BY <2>3
  <2>5. Summary(hello, 0, NewConnection)
    BY DEF Summary, Untouched, Unbroken
  <2>6. ParsedSoFar(hello, hello, NewConnection)
    BY <2>3, <2>4, <2>5 DEF ParsedSoFar
  <2>7. Parsing'
    BY <1>1, <2>1, <2>2, <2>6 DEF Parsing, Fresh
  <2>8. ControlInv'
    BY <1>1, <2>1 DEF ControlInv
  <2>9. WireInv' /\ BacklogInv'
    BY <2>1 DEF WireInv, BacklogInv
  <2>10. ConnectionOK(conn)'
    BY <2>1 DEF ParseInv, ConnectionOK
  <2> QED BY <2>1, <2>7, <2>8, <2>9, <2>10 DEF ParseInv
<1> QED BY <1>2, <1>3

\* One extension further: the summary grows by one, or the hello is refused
\* and, by the TLCP server, answered with the alert that names the fault.
LEMMA ParseStep ==
    ASSUME DemoInv, ParseExtension
    PROVE  DemoInv'
<1> USE DEF DemoInv
<1>1. /\ parent = "parse" /\ rest # <<>> /\ peer \in Clients /\ peer # "none" /\ Parsing
      /\ UNCHANGED <<receiver, child, backlog, wire, peer, serverOk>>
  BY DEF ParseExtension, ControlInv, ParseInv
<1>2. PICK hello : hello = wire[peer]
  OBVIOUS
<1>3. PICK next : next = Processed(conn, Head(rest))
  OBVIOUS
<1>4. /\ conn' = next
      /\ rest' = IF next.failed THEN <<>> ELSE Tail(rest)
      /\ parent' = IF next.failed THEN "wait" ELSE "parse"
      /\ alert' = IF next.failed /\ receiver = "tlcp" THEN Alert(next) ELSE alert
  BY <1>3 DEF ParseExtension, Processed
<1>5. ParsedSoFar(hello, rest, conn) /\ alert = "none" /\ serverOk = FALSE
  BY <1>1, <1>2 DEF Parsing
<1>6. PICK k \in Nat : k = Len(hello) - Len(rest)
  BY <1>5 DEF ParsedSoFar
<1>7. /\ hello \in Seq(Extension) /\ rest \in Seq(Extension)
      /\ k < Len(hello) /\ Head(rest) = hello[k + 1] /\ Summary(hello, k, conn)
  BY <1>1, <1>5, <1>6 DEF ParsedSoFar
<1>12. hello[k + 1].type # "broken"
  BY <1>7 DEF ParseExtension
<1>8. \/ next.failed = FALSE /\ ConnectionOK(next) /\ Summary(hello, k + 1, next)
      \/ Refusal(hello, next)
  BY <1>3, <1>7, <1>12, NextExtension
<1>9. WireInv' /\ BacklogInv'
  BY <1>1 DEF WireInv, BacklogInv
<1>10. CASE next.failed = FALSE /\ ConnectionOK(next) /\ Summary(hello, k + 1, next)
  <2>1. conn' = next /\ rest' = Tail(rest) /\ parent' = "parse" /\ alert' = alert
    BY <1>4, <1>10
  <2>2. ParsedSoFar(hello, Tail(rest), next)
    <3>1. Tail(rest) \in Seq(Extension) /\ Len(Tail(rest)) = Len(rest) - 1
      BY <1>1, <1>7
    <3>2. Len(hello) - Len(Tail(rest)) = k + 1 /\ Len(Tail(rest)) <= Len(hello)
      BY <1>6, <1>7, <3>1
    <3>3. ASSUME NEW i \in 1..Len(Tail(rest))
          PROVE  Tail(rest)[i] = hello[k + 1 + i]
      <4>1. Tail(rest)[i] = rest[i + 1] /\ i + 1 \in 1..Len(rest)
        BY <1>1, <1>7, <3>1
      <4>2. rest[i + 1] = hello[Len(hello) - Len(rest) + (i + 1)]
        BY <1>5, <4>1 DEF ParsedSoFar
      <4>3. Len(hello) - Len(rest) + (i + 1) = k + 1 + i
        BY <1>6
      <4> QED BY <4>1, <4>2, <4>3
    <3> QED BY <1>7, <1>10, <3>1, <3>2, <3>3 DEF ParsedSoFar
  <2>3. Parsing'
    BY <1>1, <1>2, <1>5, <2>1, <2>2 DEF Parsing
  <2>4. ControlInv'
    BY <1>1, <2>1 DEF ControlInv
  <2>5. ConnectionOK(conn)'
    BY <1>10, <2>1 DEF ConnectionOK
  <2> QED BY <1>9, <2>1, <2>3, <2>4, <2>5 DEF ParseInv
<1>11. CASE Refusal(hello, next)
  <2>1. next.failed = TRUE /\ ConnectionOK(next) /\ ~Advertises(hello)
        /\ (next.offered <=> FirstWellFormed(hello))
    BY <1>11 DEF Refusal
  <2>2. /\ conn' = next /\ parent' = "wait"
        /\ alert' = IF receiver = "tlcp" THEN Alert(next) ELSE "none"
    BY <1>4, <1>5, <2>1
  <2>3. /\ alert' \in {"none", "decode_error", "illegal_parameter"}
        /\ alert' # "none" => (alert' = "illegal_parameter") = FirstWellFormed(hello)
    <3>1. FirstWellFormed(hello) \in BOOLEAN
      BY DEF FirstWellFormed
    <3>2. Alert(next) = IF FirstWellFormed(hello) THEN "illegal_parameter" ELSE "decode_error"
      BY <2>1 DEF Alert
    <3> QED BY <2>2, <3>1, <3>2
  <2>4. serverOk' = Advertises(hello)
    <3>1. Advertises(hello) \in BOOLEAN
      BY DEF Advertises
    <3> QED BY <1>1, <1>5, <2>1, <3>1
  <2>5. Judged'
    BY <1>1, <1>2, <1>7, <2>3, <2>4 DEF Judged
  <2>6. ControlInv'
    BY <1>1, <2>2 DEF ControlInv
  <2>7. ConnectionOK(conn)'
    BY <2>1, <2>2 DEF ConnectionOK
  <2> QED BY <1>9, <2>2, <2>5, <2>6, <2>7 DEF ParseInv
<1> QED BY <1>8, <1>10, <1>11

\* An extension that cannot be read: no hello with one advertises anything.
LEMMA MalformedStep ==
    ASSUME DemoInv, MalformedExtension
    PROVE  DemoInv'
<1> USE DEF DemoInv
<1>1. /\ parent = "parse" /\ rest # <<>> /\ Head(rest).type = "broken"
      /\ peer \in Clients /\ peer # "none" /\ Parsing
      /\ parent' = "wait"
      /\ UNCHANGED <<receiver, child, backlog, wire, peer, conn, alert, serverOk>>
  BY DEF MalformedExtension, ControlInv, ParseInv
<1>2. PICK hello : hello = wire[peer]
  OBVIOUS
<1>3. ParsedSoFar(hello, rest, conn) /\ alert = "none" /\ serverOk = FALSE
  BY <1>1, <1>2 DEF Parsing
<1>4. PICK k \in Nat : k = Len(hello) - Len(rest)
  BY <1>3 DEF ParsedSoFar
<1>5. /\ hello \in Seq(Extension) /\ k + 1 \in 1..Len(hello) /\ Head(rest) = hello[k + 1]
  BY <1>1, <1>3, <1>4 DEF ParsedSoFar
<1>6. ~Unbroken(hello, Len(hello))
  BY <1>1, <1>5 DEF Unbroken
<1>7. ~Advertises(hello)
  BY <1>5, <1>6, AdvertisesMeans
<1>8. serverOk' = Advertises(hello)
  <2>1. Advertises(hello) \in BOOLEAN
    BY DEF Advertises
  <2> QED BY <1>1, <1>3, <1>7, <2>1
<1>9. Judged'
  BY <1>1, <1>2, <1>3, <1>5, <1>8 DEF Judged
<1>10. ControlInv'
  BY <1>1 DEF ControlInv
<1>11. WireInv' /\ BacklogInv'
  BY <1>1 DEF WireInv, BacklogInv
<1>12. ConnectionOK(conn)'
  BY <1>1 DEF ParseInv, ConnectionOK
<1> QED BY <1>1, <1>9, <1>10, <1>11, <1>12 DEF ParseInv

\* The whole hello was parsed: the connection has the verdict.
LEMMA JudgeStep ==
    ASSUME DemoInv, JudgeHello
    PROVE  DemoInv'
<1> USE DEF DemoInv
<1>1. /\ parent = "parse" /\ rest = <<>> /\ peer \in Clients /\ peer # "none" /\ Parsing
      /\ serverOk' = Verdict(conn) /\ parent' = "wait"
      /\ UNCHANGED <<receiver, child, backlog, wire, peer, rest, conn, alert>>
  BY DEF JudgeHello, ControlInv, ParseInv, Selected, Verdict
<1>2. PICK hello : hello = wire[peer]
  OBVIOUS
<1>3. ParsedSoFar(hello, <<>>, conn) /\ alert = "none"
  BY <1>1, <1>2 DEF Parsing
<1>4. hello \in Seq(Extension) /\ Len(hello) - Len(<<>>) = Len(hello)
  BY <1>3 DEF ParsedSoFar
<1>5. Summary(hello, Len(hello), conn)
  BY <1>3, <1>4 DEF ParsedSoFar
<1>6. Verdict(conn) = Advertises(hello)
  BY <1>4, <1>5, VerdictAtEnd
<1>7. Judged'
  BY <1>1, <1>2, <1>3, <1>4, <1>6 DEF Judged
<1>8. ControlInv'
  BY <1>1 DEF ControlInv
<1>9. WireInv' /\ BacklogInv'
  BY <1>1 DEF WireInv, BacklogInv
<1>10. ConnectionOK(conn)'
  BY <1>1 DEF ParseInv, ConnectionOK
<1> QED BY <1>1, <1>7, <1>8, <1>9, <1>10 DEF ParseInv

\* waitpid and the verdict.
LEMMA WaitStep ==
    ASSUME DemoInv, Wait
    PROVE  DemoInv'
<1> USE DEF DemoInv
<1>1. PICK step \in {"success", "failure"} :
        /\ step = "success" => serverOk /\ child = "success"
        /\ parent = "wait" /\ ParentGoes(step)
  BY DEF Wait
<1>2. parent' = step /\ UNCHANGED <<receiver, child, peer, serverOk>>
  BY <1>1 DEF ParentGoes
<1>3. NotJudged \/ Judged
  BY <1>1 DEF ParseInv
<1>4. serverOk \in BOOLEAN
  BY <1>3 DEF NotJudged, Judged, Advertises
<1>5. ControlInv'
  BY <1>1, <1>2, <1>4 DEF ControlInv
<1>6. WireInv' /\ BacklogInv' /\ ConnectionOK(conn)' /\ (NotJudged' \/ Judged')
  BY <1>1, <1>3, ParentMoves
<1>7. parent' \in {"success", "failure"}
  BY <1>1, <1>2
<1> QED BY <1>5, <1>6, <1>7 DEF ParseInv

\* One more connection waits.
LEMMA Queued ==
    ASSUME NEW queue \in Seq(Clients), NEW client \in Clients, client \notin ToSet(queue),
           Distinct(queue), NEW longer, longer = Append(queue, client)
    PROVE  /\ longer \in Seq(Clients) /\ Distinct(longer)
           /\ ToSet(longer) = ToSet(queue) \cup {client}
<1>1. /\ longer \in Seq(Clients) /\ Len(longer) = Len(queue) + 1
      /\ \A i \in 1..Len(queue) : longer[i] = queue[i]
      /\ longer[Len(queue) + 1] = client
  OBVIOUS
<1>2. \A i \in 1..Len(queue) : queue[i] # client
  BY DEF ToSet
<1>3. Distinct(longer)
  <2> SUFFICES ASSUME NEW i \in 1..Len(longer), NEW j \in 1..Len(longer),
                      longer[i] = longer[j]
               PROVE  i = j
    BY DEF Distinct
  <2>1. /\ i \in 1..Len(queue) \/ i = Len(queue) + 1
        /\ j \in 1..Len(queue) \/ j = Len(queue) + 1
    BY <1>1
  <2> QED BY <1>1, <1>2, <2>1 DEF Distinct
<1>4. ToSet(longer) = ToSet(queue) \cup {client}
  <2>1. DOMAIN queue = 1..Len(queue) /\ DOMAIN longer = (1..Len(queue)) \cup {Len(queue) + 1}
    BY <1>1
  <2> QED BY <1>1, <2>1 DEF ToSet
<1> QED BY <1>1, <1>3, <1>4

\* The child: set-up, connect, and the hello or an end of file.
LEMMA ChildMoves ==
    ASSUME DemoInv, NEW step \in {"connect", "send", "success", "failure"},
           child \in {"setup", "connect", "send"}, ChildGoes(step),
           step \in {"connect", "send"} => child # "none"
    PROVE  ControlInv'
<1>1. child' = step /\ UNCHANGED <<receiver, parent, peer, serverOk>>
  BY DEF ChildGoes
<1> QED BY <1>1 DEF DemoInv, ControlInv, ChildOver

LEMMA ChildSteps ==
    ASSUME DemoInv, ChildStep
    PROVE  DemoInv'
<1> USE DEF DemoInv
<1>1. CASE SetUpChild
  <2>1. PICK step \in {"connect", "failure"} : child = "setup" /\ ChildGoes(step)
    BY <1>1 DEF SetUpChild
  <2>2. /\ child' = step /\ UNCHANGED <<backlog, wire>>
        /\ UNCHANGED <<parent, peer, rest, conn, alert, serverOk>>
    BY <1>1, <2>1 DEF SetUpChild, ChildGoes
  <2>3. ControlInv'
    BY <2>1, ChildMoves
  <2>4. WireInv' /\ BacklogInv' /\ WireKept
    BY <2>1, <2>2 DEF WireInv, BacklogInv, WireKept
  <2> QED BY <2>2, <2>3, <2>4, OthersMove
<1>2. CASE ConnectToLoopback
  <2>1. PICK step \in {"send", "failure"} : child = "connect" /\ ChildGoes(step)
    BY <1>2 DEF ConnectToLoopback
  <2>2. /\ child' = step /\ wire' = wire
        /\ UNCHANGED <<parent, peer, rest, conn, alert, serverOk>>
    BY <1>2, <2>1 DEF ConnectToLoopback, ChildGoes
  <2>3. ControlInv'
    BY <2>1, ChildMoves
  <2>4. WireInv' /\ WireKept
    BY <2>1, <2>2 DEF WireInv, WireKept
  <2>5. backlog' = backlog \/ backlog' = Append(backlog, "child")
    BY <1>2 DEF ConnectToLoopback
  <2>6. BacklogInv'
    BY <2>1, <2>2, <2>5, Queued DEF BacklogInv, Clients
  <2> QED BY <2>2, <2>3, <2>4, <2>6, OthersMove
<1>3. CASE SendClientHello
  <2>1. PICK step \in {"success", "failure"}, sent \in {DemoHello, Eof} :
          /\ child = "send" /\ ChildGoes(step)
          /\ wire' = [wire EXCEPT !["child"] = sent]
          /\ step = "success" => sent = DemoHello
    BY <1>3 DEF SendClientHello
  <2>2. /\ child' = step /\ backlog' = backlog
        /\ UNCHANGED <<parent, peer, rest, conn, alert, serverOk>>
    BY <1>3, <2>1 DEF SendClientHello, ChildGoes
  <2>3. ControlInv'
    BY <2>1, ChildMoves
  <2>4. WireInv'
    BY <2>1, <2>2, HelloFacts DEF WireInv, Clients
  <2>5. WireKept
    BY <2>1 DEF WireInv, WireKept
  <2>6. BacklogInv'
    BY <2>1, <2>2 DEF BacklogInv
  <2> QED BY <2>2, <2>3, <2>4, <2>5, <2>6, OthersMove
<1> QED BY <1>1, <1>2, <1>3 DEF ChildStep

\* A stranger connects and sends.
LEMMA StrangerSteps ==
    ASSUME DemoInv, StrangerConnects \/ StrangerSends
    PROVE  DemoInv'
<1> USE DEF DemoInv
<1>1. CASE StrangerConnects
  <2>1. /\ UNCHANGED <<receiver, parent, child, wire, peer, rest, conn, alert, serverOk>>
        /\ "stranger" \notin ToSet(backlog)
        /\ backlog' = Append(backlog, "stranger")
    BY <1>1 DEF StrangerConnects
  <2>2. ControlInv'
    BY <2>1 DEF ControlInv, ChildOver
  <2>3. WireInv' /\ WireKept
    BY <2>1 DEF WireInv, WireKept
  <2>4. BacklogInv'
    <3>1. "stranger" \in Clients /\ "stranger" # "child"
      BY DEF Clients
    <3>2. /\ backlog' \in Seq(Clients) /\ Distinct(backlog')
          /\ ToSet(backlog') = ToSet(backlog) \cup {"stranger"}
      BY <2>1, <3>1, Queued DEF BacklogInv
    <3> QED BY <2>1, <3>1, <3>2 DEF BacklogInv
  <2> QED BY <2>1, <2>2, <2>3, <2>4, OthersMove
<1>2. CASE StrangerSends
  <2>1. PICK hello \in StrangerHellos \cup {Eof, Invalid} :
          /\ wire["stranger"] = Nothing
          /\ wire' = [wire EXCEPT !["stranger"] = hello]
          /\ UNCHANGED <<receiver, parent, child, backlog, peer, rest, conn, alert, serverOk>>
    BY <1>2 DEF StrangerSends
  <2>2. hello \in {Nothing, Eof, Invalid} \cup Seq(Extension)
    BY HelloFacts
  <2>3. WireInv'
    BY <2>1, <2>2 DEF WireInv, Clients
  <2>4. WireKept
    BY <2>1 DEF WireInv, WireKept
  <2>5. ControlInv'
    BY <2>1 DEF ControlInv, ChildOver
  <2>6. BacklogInv'
    BY <2>1 DEF BacklogInv
  <2> QED BY <2>1, <2>3, <2>4, <2>5, <2>6, OthersMove
<1> QED BY <1>1, <1>2

LEMMA DemoInvariant == FairSpec => []DemoInv
<1>1. Init => DemoInv
  <2> SUFFICES ASSUME Init
               PROVE  DemoInv
    OBVIOUS
  <2>1. WireInv
    BY DEF Init, WireInv, Clients
  <2>2. BacklogInv
    BY DEF Init, BacklogInv, Distinct, ToSet
  <2>3. ControlInv
    BY DEF Init, ControlInv
  <2>4. Fresh /\ ConnectionOK(conn) /\ parent = "setup"
    BY ConnectionFacts DEF Init, Fresh
  <2> QED BY <2>1, <2>2, <2>3, <2>4 DEF DemoInv, ParseInv
<1>2. DemoInv /\ [Next]_vars => DemoInv'
  <2> SUFFICES ASSUME DemoInv, [Next]_vars
               PROVE  DemoInv'
    OBVIOUS
  <2>1. CASE ParentStep
    BY <2>1, StartSteps, AcceptStep, ReceiveStep, ParseStep, MalformedStep, JudgeStep,
       WaitStep
       DEF ParentStep
  <2>2. CASE UNCHANGED vars
    <3>1. UNCHANGED <<receiver, parent, child, backlog, wire, peer, rest, conn, alert, serverOk>>
      BY <2>2 DEF vars
    <3>2. WireInv' /\ BacklogInv' /\ WireKept
      BY <3>1 DEF DemoInv, WireInv, BacklogInv, WireKept
    <3>3. ControlInv'
      BY <3>1 DEF DemoInv, ControlInv, ChildOver
    <3> QED BY <3>1, <3>2, <3>3, OthersMove DEF DemoInv
  <2> QED BY <2>1, <2>2, ChildSteps, StrangerSteps DEF Next
<1> QED BY <1>1, <1>2, PTL DEF FairSpec, Spec

\* The demo's verdict is what the encoding of the hello says, whatever hello
\* arrives, and the TLCP server's alert names the fault.
THEOREM VerdictRight == FairSpec => []VerdictIsRight
<1>1. DemoInv => VerdictIsRight
  <2> SUFFICES ASSUME DemoInv
               PROVE  VerdictMatchesEncoding /\ AlertNamesTheFault
    BY DEF VerdictIsRight
  <2> USE DEF DemoInv
  <2>1. VerdictMatchesEncoding
    BY DEF VerdictMatchesEncoding, ParseInv, NotJudged, Judged
  <2>2. ASSUME alert # "none"
        PROVE  (alert = "illegal_parameter") = FirstWellFormed(wire[peer])
    BY <2>2 DEF ParseInv, Fresh, Parsing, NotJudged, Judged, ControlInv
  <2> QED BY <2>1, <2>2 DEF AlertNamesTheFault, FirstWellFormed, WellFormed
<1> QED BY <1>1, DemoInvariant, PTL

\* PASS is printed only when the child sent the demo's hello and exited well,
\* and the parent selected a hello with the capability, whoever sent that one.
THEOREM ProcessesEndTogether == FairSpec => []ProcessesInv
<1>1. DemoInv => ProcessesInv
  <2> SUFFICES ASSUME DemoInv
               PROVE  TypeOK /\ PassMeansBothSides
    BY DEF ProcessesInv
  <2> USE DEF DemoInv
  <2>1. backlog \in [1..Len(backlog) -> Clients] /\ Len(backlog) <= 2
    <3>1. ASSUME Len(backlog) > 2
          PROVE  FALSE
      <4>1. 1 \in 1..Len(backlog) /\ 2 \in 1..Len(backlog) /\ 3 \in 1..Len(backlog)
        BY <3>1 DEF BacklogInv
      <4>2. backlog[1] \in Clients /\ backlog[2] \in Clients /\ backlog[3] \in Clients
        BY <4>1 DEF BacklogInv
      <4>3. backlog[1] # backlog[2] /\ backlog[1] # backlog[3] /\ backlog[2] # backlog[3]
        BY <4>1 DEF BacklogInv, Distinct
      <4> QED BY <4>2, <4>3 DEF Clients
    <3> QED BY <3>1 DEF BacklogInv
  <2>2. wire \in [Clients -> Seq([type : {"nothing", "eof", "invalid",
                                         "known", "pqkex", "broken"},
                                 data : Seq(Nat)])]
    <3>1. PICK S : S = [type : {"nothing", "eof", "invalid", "known", "pqkex", "broken"},
                     data : Seq(Nat)]
      OBVIOUS
    <3>2. Nothing \in Seq(S) /\ Eof \in Seq(S) /\ Invalid \in Seq(S)
      BY <3>1 DEF Nothing, Eof, Invalid
    <3>3. Extension \subseteq S
      <4>1. Seq(Bytes) \subseteq Seq(Nat)
        BY ByteFacts
      <4>2. Extension = [type : {"known", "pqkex", "broken"}, data : Seq(Bytes)]
        BY DEF Extension, Bytes
      <4> QED BY <3>1, <4>1, <4>2
    <3>4. Seq(Extension) \subseteq Seq(S)
      BY <3>3
    <3> QED BY <3>1, <3>2, <3>4 DEF WireInv
  <2>3. /\ alert \in {"none", "decode_error", "illegal_parameter"}
        /\ serverOk \in BOOLEAN
    BY DEF ParseInv, Fresh, Parsing, NotJudged, Judged, ControlInv, Advertises
  <2>4. TypeOK
    BY <2>1, <2>2, <2>3 DEF TypeOK, ControlInv, ParseInv, ConnectionOK
  <2>5. PassMeansBothSides
    BY DEF PassMeansBothSides, ControlInv, WireInv, ParseInv, NotJudged, Judged
  <2> QED BY <2>4, <2>5
<1> QED BY <1>1, DemoInvariant, PTL

=============================================================================
