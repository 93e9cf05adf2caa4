------------------------ MODULE MessageFilter_proofs ------------------------
(***************************************************************************)
(* The bytes of a connection, for any number of values of a byte, any      *)
(* width of an int, any messages and batches of any size; where a batch is *)
(* larger than an int can count, what came before it.                      *)
(***************************************************************************)
EXTENDS MessageFilter, SequenceLemmas

Byte == 0 .. B - 1

----------------------------------------------------------------------------
(* The header.                                                             *)

LEMMA Modulus ==
  /\ B \in Nat /\ 0 < B /\ B < HeaderModulus /\ HeaderModulus \in Nat
  /\ 0 \in 0 .. HeaderModulus - 1
<1>1. B \in Nat /\ 1 < B
  BY FilterAssumption
<1>2. B * B \in Nat /\ B < B * B
  BY <1>1
<1> QED BY <1>1, <1>2 DEF HeaderModulus

\* Division, and what remains.
LEMMA Division ==
  ASSUME NEW n \in Nat, NEW b \in Nat, 0 < b
  PROVE  n \div b \in Nat /\ n % b \in 0 .. b - 1 /\ n = (n \div b) * b + (n % b)
<1>1. n \div b \in Nat
  OBVIOUS
<1>2. n % b \in 0 .. b - 1
  OBVIOUS
<1>3. n = (n \div b) * b + (n % b)
  OBVIOUS
<1> QED BY <1>1, <1>2, <1>3

LEMMA Quotient ==
  ASSUME NEW q \in Nat, NEW b \in Nat, 0 < b, NEW r \in 0 .. b - 1
  PROVE  (q * b + r) \div b = q /\ (q * b + r) % b = r
<1>1. (q * b + r) \div b = q
  OBVIOUS
<1>2. (q * b + r) % b = r
  OBVIOUS
<1> QED BY <1>1, <1>2

LEMMA Small ==
  ASSUME NEW n \in Nat, NEW b \in Nat, n < b
  PROVE  n % b = n
OBVIOUS

LEMMA Square ==
  ASSUME NEW q \in Nat, NEW b \in Nat, NEW r \in 0 .. b - 1, 0 < b
  PROVE  q * b + r \in 0 .. b * b - 1 <=> q \in 0 .. b - 1
<1>1. ASSUME q >= b PROVE q * b >= b * b
  BY <1>1
<1>2. ASSUME q < b PROVE (q + 1) * b <= b * b
  BY <1>2
<1>3. (q + 1) * b = q * b + b /\ q * b \in Nat /\ b * b \in Nat
  OBVIOUS
<1>4. CASE q >= b
  BY <1>1, <1>3, <1>4
<1>5. CASE q < b
  BY <1>2, <1>3, <1>5
<1> QED BY <1>4, <1>5

LEMMA HeaderBytes ==
  ASSUME NEW n \in Nat
  PROVE  encoded_header(n) \in Seq(Byte) /\ Len(encoded_header(n)) = 2
<1> DEFINE k == n % HeaderModulus
           q == k \div B
<1>1. k \in 0 .. B * B - 1 /\ k \in Nat
  BY Modulus, Division DEF HeaderModulus
<1>2. q \in Nat /\ k % B \in Byte /\ k = q * B + (k % B)
  BY <1>1, Division, Modulus DEF Byte
<1>3. q \in Byte
  BY <1>1, <1>2, Square, Modulus DEF Byte
<1>4. n % B \in Byte
  BY Division, Modulus DEF Byte
<1> HIDE DEF q
<1>5. encoded_header(n) = <<q, n % B>>
  BY DEF encoded_header, q
<1> QED BY <1>3, <1>4, <1>5

\* What the receiver reads out of two bytes is put back into the same two.
LEMMA HeaderDecoded ==
  ASSUME NEW b \in Seq(Byte), Len(b) = 2
  PROVE  /\ decoded_header(b) \in 0 .. HeaderModulus - 1
         /\ encoded_header(decoded_header(b)) = b
<1> DEFINE q == b[1]
           r == b[2]
           n == q * B + r
<1>1. b[1] \in Byte /\ b[2] \in Byte /\ b = <<q, r>>
  <2>1. q \in Byte /\ r \in Byte
    BY ElementOfSeq
  <2> HIDE DEF q, r
  <2>2. <<q, r>> \in Seq(Byte) /\ Len(<<q, r>>) = 2
    BY <2>1
  <2>3. \A i \in 1 .. 2 : b[i] = <<q, r>>[i]
    BY DEF q, r
  <2>4. b = <<q, r>>
    BY <2>2, <2>3, SeqEqual
  <2> QED BY <2>1, <2>4 DEF q, r
<1>2. q \in Nat /\ r \in 0 .. B - 1 /\ q \in 0 .. B - 1
  BY <1>1, Modulus DEF Byte
<1> HIDE DEF q, r
<1>3. n \in 0 .. HeaderModulus - 1
  BY <1>2, Square, Modulus DEF HeaderModulus
<1>4. n % HeaderModulus = n
  BY <1>3, Small, Modulus
<1>5. n \div B = q /\ n % B = r
  BY <1>2, Quotient, Modulus
<1> HIDE DEF n
<1>6. encoded_header(n) = <<q, r>>
  BY <1>4, <1>5 DEF encoded_header
<1>7. decoded_header(b) = n
  BY DEF decoded_header, n, q, r
<1> QED BY <1>1, <1>3, <1>6, <1>7 DEF q, r

\* A size that fits is read as it was written.
LEMMA HeaderRoundTrip ==
  ASSUME NEW n \in 0 .. HeaderModulus - 1
  PROVE  decoded_header(encoded_header(n)) = n
<1>1. n \in Nat /\ n % HeaderModulus = n
  BY Small, Modulus
<1>2. n = (n \div B) * B + (n % B)
  BY <1>1, Division, Modulus
<1> QED BY <1>1, <1>2 DEF decoded_header, encoded_header

----------------------------------------------------------------------------
(* Messages behind their headers.                                          *)

Bytes == Seq(Byte)

packet(message) == encoded_header(Len(message)) \o message

packets(messages) == [i \in DOMAIN messages |-> packet(messages[i])]

LEMMA PacketBytes ==
  ASSUME NEW m \in Bytes
  PROVE  packet(m) \in Bytes /\ Len(packet(m)) = 2 + Len(m) /\ Len(m) \in Nat
<1>1. Len(m) \in Nat
  BY LenProperties DEF Bytes
<1> DEFINE h == encoded_header(Len(m))
<1>2. h \in Seq(Byte) /\ Len(h) = 2 /\ packet(m) = h \o m
  BY <1>1, HeaderBytes DEF packet
<1> HIDE DEF h
<1>3. h \o m \in Seq(Byte)
  BY <1>2, ConcatProperties DEF Bytes
<1>4. Len(h \o m) = Len(h) + Len(m)
  BY <1>2, ConcatProperties DEF Bytes
<1> QED BY <1>1, <1>2, <1>3, <1>4 DEF Bytes

LEMMA PacketsOf ==
  ASSUME NEW ms \in Seq(Bytes)
  PROVE  /\ packets(ms) \in Seq(Bytes) /\ Len(packets(ms)) = Len(ms)
         /\ \A i \in 1 .. Len(ms) : packets(ms)[i] = packet(ms[i]) /\ ms[i] \in Bytes
         /\ encoded(ms) = FlattenSeq(packets(ms))
<1>1. /\ Len(ms) \in Nat /\ DOMAIN ms = 1 .. Len(ms)
      /\ \A i \in 1 .. Len(ms) : ms[i] \in Bytes
  BY LenProperties
<1>2. \A i \in 1 .. Len(ms) : packet(ms[i]) \in Bytes
  BY <1>1, PacketBytes
<1> DEFINE n == Len(ms)
           b == packets(ms)
<1>3. b \in [1 .. n -> Bytes] /\ \A i \in 1 .. n : b[i] = packet(ms[i])
  BY <1>1, <1>2 DEF packets
<1>4. encoded(ms) = FlattenSeq(b)
  BY DEF encoded, packets, packet
<1> HIDE DEF b
<1>5. b \in Seq(Bytes) /\ Len(b) = n
  BY <1>1, <1>3, SeqDef, LenProperties
<1>6. \A i \in 1 .. n : b[i] = packet(ms[i]) /\ ms[i] \in Bytes
  BY <1>1, <1>3
<1> QED BY <1>4, <1>5, <1>6 DEF b

LEMMA EncodedBytes ==
  ASSUME NEW ms \in Seq(Bytes)
  PROVE  encoded(ms) \in Bytes
<1>1. packets(ms) \in Seq(Seq(Byte)) /\ encoded(ms) = FlattenSeq(packets(ms))
  BY PacketsOf DEF Bytes
<1> QED BY <1>1, FlattenAppend, EmptySeq DEF Bytes

LEMMA EncodedNothing == encoded(<<>>) = <<>>
<1>1. <<>> \in Seq(Bytes) /\ Len(<<>>) = 0
  BY EmptySeq
<1>2. packets(<<>>) \in Seq(Bytes) /\ Len(packets(<<>>)) = 0
  BY <1>1, PacketsOf
<1>3. packets(<<>>) = <<>>
  BY <1>2, EmptySeq
<1> QED BY <1>1, <1>3, PacketsOf, FlattenNothing

LEMMA EncodedConcat ==
  ASSUME NEW a \in Seq(Bytes), NEW b \in Seq(Bytes)
  PROVE  encoded(a \o b) = encoded(a) \o encoded(b)
<1> DEFINE c == a \o b
           pa == packets(a)
           pb == packets(b)
           pc == packets(c)
<1>1. /\ c \in Seq(Bytes) /\ Len(c) = Len(a) + Len(b)
      /\ \A i \in 1 .. Len(a) + Len(b) : c[i] = IF i <= Len(a) THEN a[i] ELSE b[i - Len(a)]
      /\ Len(a) \in Nat /\ Len(b) \in Nat
  BY ConcatProperties, LenProperties
<1> HIDE DEF c
<1>2. /\ pa \in Seq(Bytes) /\ Len(pa) = Len(a)
      /\ \A i \in 1 .. Len(a) : pa[i] = packet(a[i])
      /\ encoded(a) = FlattenSeq(pa)
  BY PacketsOf
<1>3. /\ pb \in Seq(Bytes) /\ Len(pb) = Len(b)
      /\ \A i \in 1 .. Len(b) : pb[i] = packet(b[i])
      /\ encoded(b) = FlattenSeq(pb)
  BY PacketsOf
<1>4. /\ pc \in Seq(Bytes) /\ Len(pc) = Len(c)
      /\ \A i \in 1 .. Len(c) : pc[i] = packet(c[i])
      /\ encoded(c) = FlattenSeq(pc)
  BY <1>1, PacketsOf
<1> HIDE DEF pa, pb, pc
<1>5. /\ pa \o pb \in Seq(Bytes) /\ Len(pa \o pb) = Len(a) + Len(b)
      /\ \A i \in 1 .. Len(a) + Len(b) :
           (pa \o pb)[i] = IF i <= Len(a) THEN pa[i] ELSE pb[i - Len(a)]
  <2>1. pa \o pb \in Seq(Bytes)
    BY <1>2, <1>3, ConcatProperties
  <2>2. Len(pa \o pb) = Len(pa) + Len(pb)
    BY <1>2, <1>3, ConcatProperties
  <2>3. \A i \in 1 .. Len(pa) + Len(pb) :
          (pa \o pb)[i] = IF i <= Len(pa) THEN pa[i] ELSE pb[i - Len(pa)]
    BY <1>2, <1>3, ConcatProperties
  <2> QED BY <1>2, <1>3, <2>1, <2>2, <2>3
<1>6. \A i \in 1 .. Len(a) + Len(b) : pc[i] = (pa \o pb)[i]
  <2>1. SUFFICES ASSUME NEW i \in 1 .. Len(a) + Len(b) PROVE pc[i] = (pa \o pb)[i]
    OBVIOUS
  <2>2. CASE i <= Len(a)
    <3>1. i \in 1 .. Len(a)
      BY <1>1, <2>2
    <3>2. c[i] = a[i] /\ (pa \o pb)[i] = pa[i]
      BY <1>1, <1>5, <2>2
    <3> QED BY <1>1, <1>2, <1>4, <3>1, <3>2
  <2>3. CASE ~(i <= Len(a))
    <3>1. i - Len(a) \in 1 .. Len(b)
      BY <1>1, <2>3
    <3>2. c[i] = b[i - Len(a)] /\ (pa \o pb)[i] = pb[i - Len(a)]
      BY <1>1, <1>5, <2>3
    <3> QED BY <1>1, <1>3, <1>4, <3>1, <3>2
  <2> QED BY <2>2, <2>3
<1>7. pc = pa \o pb
  BY <1>1, <1>4, <1>5, <1>6, SeqEqual
<1>8. FlattenSeq(pa \o pb) = FlattenSeq(pa) \o FlattenSeq(pb)
  BY <1>2, <1>3, FlattenConcat DEF Bytes
<1> QED BY <1>2, <1>3, <1>4, <1>7, <1>8 DEF c

LEMMA EncodedOne ==
  ASSUME NEW m \in Bytes
  PROVE  encoded(<<m>>) = packet(m)
<1>1. <<m>> \in Seq(Bytes) /\ Len(<<m>>) = 1 /\ <<m>>[1] = m /\ packet(m) \in Bytes
  BY PacketBytes
<1> DEFINE l == <<m>>
           b == packets(l)
<1>0. l \in Seq(Bytes) /\ Len(l) = 1 /\ l[1] = m /\ 1 \in 1 .. 1
  BY <1>1
<1> HIDE DEF l
<1>2. b \in Seq(Bytes) /\ Len(b) = 1 /\ b[1] = packet(m) /\ encoded(l) = FlattenSeq(b)
  <2>1. b \in Seq(Bytes)
    BY <1>0, PacketsOf
  <2>2. Len(b) = Len(l)
    BY <1>0, PacketsOf
  <2>3. b[1] = packet(l[1])
    BY <1>0, PacketsOf
  <2>4. encoded(l) = FlattenSeq(b)
    BY <1>0, PacketsOf
  <2> QED BY <1>0, <2>1, <2>2, <2>3, <2>4
<1> HIDE DEF b
<1>3. b = Append(<<>>, packet(m))
  <2>1. Append(<<>>, packet(m)) = <<packet(m)>>
    OBVIOUS
  <2>2. <<packet(m)>> \in Seq(Bytes) /\ Len(<<packet(m)>>) = 1 /\ <<packet(m)>>[1] = packet(m)
    BY <1>1
  <2> QED BY <1>2, <2>1, <2>2, SeqEqual
<1>4. FlattenSeq(Append(<<>>, packet(m))) = FlattenSeq(<<>>) \o packet(m)
  BY <1>1, EmptySeq, FlattenAppend DEF Bytes
<1>5. <<>> \o packet(m) = packet(m)
  BY <1>1, ConcatEmptySeq DEF Bytes
<1> QED BY <1>2, <1>3, <1>4, <1>5, FlattenNothing DEF l

LEMMA EncodedAppend ==
  ASSUME NEW ms \in Seq(Bytes), NEW m \in Bytes
  PROVE  encoded(Append(ms, m)) = encoded(ms) \o packet(m)
<1>1. <<m>> \in Seq(Bytes) /\ Append(ms, m) = ms \o <<m>>
  BY AppendIsConcat
<1> QED BY <1>1, EncodedConcat, EncodedOne

\* What is narrowed on the way is narrowed in the end.
LEMMA Multiples == \A q, n, b \in Nat : 0 < b => (q * b + n) % b = n % b
<1> SUFFICES ASSUME NEW q \in Nat, NEW n \in Nat, NEW b \in Nat, 0 < b
             PROVE  (q * b + n) % b = n % b
  OBVIOUS
<1> DEFINE p == n \div b
           r == n % b
<1>1. p \in Nat /\ r \in 0 .. b - 1 /\ n = p * b + r
  BY Division
<1> HIDE DEF p, r
<1>2. q * b + n = (q + p) * b + r /\ q + p \in Nat
  BY <1>1
<1>3. ((q + p) * b + r) % b = r
  BY <1>1, <1>2, Quotient
<1> QED BY <1>2, <1>3 DEF r

LEMMA Congruent ==
  ASSUME NEW n \in Nat, NEW c \in Nat, NEW b \in Nat, 0 < b
  PROVE  ((n % b) + c) % b = (n + c) % b
<1> DEFINE q == n \div b
           r == n % b
<1>1. q \in Nat /\ r \in 0 .. b - 1 /\ n = q * b + r
  BY Division
<1> HIDE DEF q, r
<1>2. n + c = q * b + (r + c) /\ r + c \in Nat
  BY <1>1
<1>3. (q * b + (r + c)) % b = (r + c) % b
  <2> DEFINE m == r + c
  <2>1. q \in Nat /\ m \in Nat
    BY <1>1, <1>2
  <2> HIDE DEF m
  <2>2. (q * b + m) % b = m % b
    BY Zenon, <2>1, Multiples
  <2> QED BY <2>2 DEF m
<1>4. (n + c) % b = (r + c) % b
  BY Zenon, <1>2, <1>3
<1> QED BY Zenon, <1>4 DEF r

Half == IntMax + 1

LEMMA Halves == Half \in Nat /\ 0 < Half /\ IntMax \in Nat /\ (\A n \in Nat : n <= IntMax <=> n < Half)
BY FilterAssumption DEF Half

LEMMA NarrowIs == ASSUME NEW n \in Int PROVE narrow(n) = ((n + Half) % (2 * Half)) - Half
<1>1. n + IntMax + 1 = n + Half
  BY FilterAssumption DEF Half
<1>2. narrow(n) = ((n + IntMax + 1) % (2 * (IntMax + 1))) - (IntMax + 1)
  BY DEF narrow
<1> QED BY <1>1, <1>2, Zenon DEF Half

LEMMA NarrowedOnTheWay ==
  ASSUME NEW n \in Nat, NEW c \in Nat
  PROVE  narrow(narrow(n) + c) = narrow(n + c)
<1> DEFINE m == 2 * Half
           k == n + Half
           l == k % m
           w == l - Half
<1>1. Half \in Nat /\ m \in Nat /\ 0 < m /\ k \in Nat
  BY Halves
<1>2. narrow(n) = w /\ narrow(n + c) = ((n + c + Half) % m) - Half
  BY NarrowIs
<1>3. l \in Nat /\ (l + c) % m = (k + c) % m
  <2>1. l \in 0 .. m - 1
    <3> HIDE DEF k, m
    <3> QED BY <1>1, Division
  <2>2. (l + c) % m = (k + c) % m
    <3> HIDE DEF k, m
    <3> QED BY <1>1, Congruent
  <2>3. l \in Nat
    <3> HIDE DEF l, m
    <3> QED BY <1>1, <2>1
  <2> QED BY <2>2, <2>3, Zenon
<1>4. n + c + Half = k + c
  BY <1>1
<1> HIDE DEF l, m, k
<1>5. w + c \in Int /\ w + c + Half = l + c
  BY <1>1, <1>3
<1> HIDE DEF w
<1>6. narrow(w + c) = ((w + c + Half) % m) - Half
  BY <1>5, NarrowIs DEF m
<1> QED BY <1>2, <1>3, <1>4, <1>5, <1>6, Zenon

\* A sum that an int holds stays as it is, and no other grows.
LEMMA Narrowed ==
  ASSUME NEW n \in Nat
  PROVE  /\ narrow(n) \in Int /\ narrow(n) <= n
         /\ n <= IntMax => narrow(n) = n
<1> DEFINE m == 2 * Half
           k == n + Half
           l == k % m
           q == k \div m
           a == q * m
<1>1. Half \in Nat /\ k \in Nat /\ m \in Nat /\ 0 < m /\ (n <= IntMax => n < Half)
  BY Halves
<1>2. narrow(n) = l - Half
  BY NarrowIs
<1>3. q \in Nat /\ l \in 0 .. m - 1 /\ k = a + l
  <2> HIDE DEF k, m
  <2> QED BY <1>1, Division
<1>4. n < Half => l = k
  <2>1. n < Half => k < m
    BY <1>1
  <2> HIDE DEF k, m
  <2> QED BY <1>1, <2>1, Small
<1>5. a \in Nat
  <2> HIDE DEF q, m
  <2> QED BY <1>1, <1>3
<1>6. l \in Nat
  <2> HIDE DEF l, m
  <2> QED BY <1>1, <1>3
<1> HIDE DEF l, m, a, k
<1>7. l <= k
  BY <1>1, <1>3, <1>5, <1>6
<1>8. k = n + Half
  BY DEF k
<1> QED BY <1>1, <1>2, <1>4, <1>6, <1>7, <1>8

\* async_write is told the length of what the filter has written, as an int.
LEMMA WriteLength ==
  ASSUME NEW ms \in Seq(Bytes)
  PROVE  bytes_wanna_write(ms) = narrow(Len(encoded(ms)))
<1> DEFINE n == Len(ms)
           b == packets(ms)
           Sum(f) == [i \in 0 .. n |-> IF i = 0 THEN 0
                                      ELSE narrow(f[i - 1] + header_size + Len(ms[i]))]
           total == CHOOSE f : f = Sum(f)
<1>1. n \in Nat /\ b \in Seq(Bytes) /\ Len(b) = n /\ encoded(ms) = FlattenSeq(b)
  BY PacketsOf, LenProperties
<1>2. \A i \in 1 .. n : b[i] \in Bytes /\ Len(b[i]) = 2 + Len(ms[i]) /\ Len(ms[i]) \in Nat
  BY PacketsOf, PacketBytes
<1>3. bytes_wanna_write(ms) = total[n]
  BY DEF bytes_wanna_write
<1> HIDE DEF b
<1>4. PICK f \in [0 .. n -> Bytes] : Partial(b, f, n)
  BY <1>1, PartialExists DEF Bytes
<1>5. FlattenSeq(b) = f[n]
  BY <1>1, <1>4, FlattenIs DEF Bytes
<1> DEFINE g == [i \in 0 .. n |-> narrow(Len(f[i]))]
<1>6. \A i \in 1 .. n :
        narrow(Len(f[i])) = narrow(narrow(Len(f[i - 1])) + header_size + Len(ms[i]))
  <2>1. SUFFICES ASSUME NEW i \in 1 .. n
                 PROVE  narrow(Len(f[i]))
                          = narrow(narrow(Len(f[i - 1])) + header_size + Len(ms[i]))
    OBVIOUS
  <2> DEFINE p == f[i - 1]
             d == b[i]
             l == Len(ms[i])
  <2>2. i - 1 \in 0 .. n
    BY <1>1
  <2>3. p \in Bytes
    BY <1>4, <2>2
  <2>4. f[i] = p \o d
    BY <1>4 DEF Partial
  <2>5. d \in Bytes /\ Len(d) = 2 + l /\ l \in Nat
    BY <1>2
  <2> HIDE DEF p, d, l
  <2>6. Len(p \o d) = Len(p) + Len(d)
    BY <2>3, <2>5, ConcatProperties DEF Bytes
  <2>7. Len(p) \in Nat
    BY <2>3, LenProperties DEF Bytes
  <2> DEFINE k == Len(p)
             w == narrow(k)
  <2>8. Len(f[i]) = k + (2 + l) /\ k \in Nat /\ 2 + l \in Nat
    BY <2>4, <2>5, <2>6, <2>7
  <2>9. w \in Int
    BY <2>8, Narrowed
  <2> HIDE DEF k
  <2>10. narrow(w + (2 + l)) = narrow(k + (2 + l))
    BY <2>8, NarrowedOnTheWay
  <2> HIDE DEF w
  <2>11. w + header_size + l = w + (2 + l)
    BY <2>5, <2>9 DEF header_size
  <2> QED BY <2>8, <2>10, <2>11 DEF p, l, k, w
<1>7. narrow(Len(f[0])) = 0
  <2>1. Len(f[0]) = 0
    BY <1>4, EmptySeq DEF Partial
  <2>2. 0 \in Nat /\ 0 <= IntMax
    BY FilterAssumption
  <2> QED BY <2>1, <2>2, Narrowed
<1>8. g = Sum(g)
  <2>1. ASSUME NEW i \in 0 .. n
        PROVE  g[i] = IF i = 0 THEN 0 ELSE narrow(g[i - 1] + header_size + Len(ms[i]))
    <3>1. CASE i = 0
      BY <1>7, <3>1
    <3>2. CASE i # 0
      <4>1. i \in 1 .. n /\ i - 1 \in 0 .. n
        BY <1>1, <3>2
      <4>2. g[i] = narrow(Len(f[i])) /\ g[i - 1] = narrow(Len(f[i - 1]))
        BY <4>1
      <4> QED BY <1>6, <3>2, <4>1, <4>2
    <3> QED BY <3>1, <3>2
  <2> QED BY <2>1
<1>9. total = Sum(total)
  <2> HIDE DEF Sum, g
  <2> QED BY <1>8
<1> DEFINE K == {k \in 0 .. n : total[k] = g[k]}
<1> HIDE DEF n, total, g
<1>10. 0 \in K
  <2>1. 0 \in 0 .. n
    BY <1>1
  <2> QED BY <1>8, <1>9, <2>1
<1>11. ASSUME NEW k \in 0 .. n - 1, k \in K PROVE k + 1 \in K
  <2>1. k + 1 \in 0 .. n /\ k + 1 # 0 /\ (k + 1) - 1 = k
    BY <1>1
  <2>2. total[k + 1] = narrow(total[k] + header_size + Len(ms[k + 1]))
    BY <1>9, <2>1
  <2>3. g[k + 1] = narrow(g[k] + header_size + Len(ms[k + 1]))
    BY <1>8, <2>1
  <2> QED BY <1>11, <2>1, <2>2, <2>3
<1>12. n \in K
  <2>1. 0 .. n \subseteq K
    BY <1>1, <1>10, <1>11, UpTo
  <2> QED BY <1>1, <2>1
<1>13. g[n] = narrow(Len(f[n]))
  BY <1>1 DEF g
<1> QED BY <1>1, <1>3, <1>5, <1>12, <1>13

\* It is told no more than that, and just that of a batch an int can count.
LEMMA WriteBound ==
  ASSUME NEW ms \in Seq(Bytes)
  PROVE  /\ bytes_wanna_write(ms) \in Int /\ bytes_wanna_write(ms) <= Len(encoded(ms))
         /\ Countable(ms) => bytes_wanna_write(ms) = Len(encoded(ms))
<1> DEFINE n == Len(encoded(ms))
<1>1. n \in Nat /\ bytes_wanna_write(ms) = narrow(n)
  BY WriteLength, EncodedBytes, LenProperties DEF Bytes
<1>2. Countable(ms) => n <= IntMax
  BY DEF Countable
<1> HIDE DEF n
<1>3. narrow(n) \in Int /\ narrow(n) <= n /\ (n <= IntMax => narrow(n) = n)
  BY <1>1, Narrowed
<1> QED BY <1>1, <1>2, <1>3 DEF n

----------------------------------------------------------------------------
(* Types.                                                                  *)

BuffersOK ==
  /\ buffer_to_be_sent_ \in Bytes /\ buffer_sending_ \in Bytes
  /\ unsent \in Bytes /\ network \in Bytes /\ buffer_receiving_ \in Bytes

HeaderOK == header_ \in 0 .. HeaderModulus - 1 /\ header_read_ \in BOOLEAN

HistoryOK ==
  messages_received_ \in Seq(Bytes) /\ sent \in Seq(Payload) /\ intact \in 0 .. Len(sent)

CountersOK ==
  /\ broken \in BOOLEAN /\ terminated \in BOOLEAN
  /\ num_read_handlers_ \in {0, 1} /\ bytes_wanna_read \in Nat
  /\ num_write_handlers_ = (IF buffer_sending_ = <<>> THEN 0 ELSE 1)

LEMMA TypeParts == FilterTypeOK <=> BuffersOK /\ HeaderOK /\ HistoryOK /\ CountersOK
BY DEF FilterTypeOK, BuffersOK, HeaderOK, HistoryOK, CountersOK, Bytes, Byte

\* A read is asked for what the filter wants and no byte more has come; what
\* waits and what is on its way out waits for a write under way.
Reading == bytes_wanna_read = wanted /\ Len(buffer_receiving_) <= bytes_wanna_read
Writing == buffer_sending_ = <<>> => unsent = <<>> /\ buffer_to_be_sent_ = <<>>

\* The messages that have not lost a byte, and what follows their bytes.
whole == SubSeq(sent, 1, intact)

Conserved ==
  \E rest \in Bytes : flow = encoded(whole) \o rest /\ (intact = Len(sent) => rest = <<>>)

FilterInv ==
  /\ BuffersOK /\ HeaderOK /\ HistoryOK /\ CountersOK
  /\ Reading /\ Writing /\ Conserved

LEMMA Messages ==
  ASSUME NEW ms \in Seq(Payload)
  PROVE  ms \in Seq(Bytes)
<1>1. Payload \subseteq Bytes
  BY FilterAssumption DEF Bytes, Byte
<1> QED BY <1>1, SeqMonotonic

LEMMA WholeIs ==
  ASSUME HistoryOK
  PROVE  /\ sent \in Seq(Bytes) /\ whole \in Seq(Bytes) /\ encoded(whole) \in Bytes
         /\ intact \in Nat /\ Len(sent) \in Nat /\ intact <= Len(sent)
         /\ intact = Len(sent) => whole = sent
<1>1. sent \in Seq(Bytes) /\ intact \in Nat /\ Len(sent) \in Nat /\ intact <= Len(sent)
  BY Messages, LenProperties DEF HistoryOK
<1>2. whole \in Seq(Bytes)
  <2>1. 1 \in Int /\ intact \in Int /\ \A i \in 1 .. intact : sent[i] \in Bytes
    BY <1>1, ElementOfSeq
  <2> QED BY <2>1, SubSeqProperties DEF whole
<1>3. intact = Len(sent) => whole = sent
  BY <1>1, SubSeqFull DEF whole
<1> QED BY <1>1, <1>2, <1>3, EncodedBytes

LEMMA FilterInitially == Init => FilterInv
<1> SUFFICES ASSUME Init PROVE FilterInv
  OBVIOUS
<1>1. /\ <<>> \in Bytes /\ <<>> \in Seq(Bytes) /\ <<>> \in Seq(Payload) /\ Len(<<>>) = 0
      /\ <<>> \o <<>> = <<>>
  BY EmptySeq DEF Bytes
<1>2. BuffersOK /\ HistoryOK
  BY <1>1 DEF Init, BuffersOK, HistoryOK
<1>3. HeaderOK /\ CountersOK
  BY Modulus DEF Init, HeaderOK, CountersOK, header_size
<1>4. Reading /\ Writing
  BY <1>1 DEF Init, Reading, Writing, wanted, header_size
<1>5. Conserved
  <2>1. flow = <<>>
    BY <1>1, EncodedNothing DEF Init, flow
  <2>2. whole = sent /\ sent = <<>>
    BY <1>1, <1>2, WholeIs DEF Init
  <2>3. encoded(whole) = <<>>
    BY <2>2, EncodedNothing
  <2> QED BY <1>1, <2>1, <2>3 DEF Conserved
<1> QED BY <1>2, <1>3, <1>4, <1>5 DEF FilterInv

----------------------------------------------------------------------------
(* The steps.                                                              *)

LEMMA EncodedSome ==
  ASSUME NEW ms \in Seq(Bytes), ms # <<>>
  PROVE  encoded(ms) # <<>>
<1>1. PICK a \in Seq(Bytes), m \in Bytes : ms = Append(a, m)
  BY SequenceEmptyOrAppend
<1> DEFINE e == encoded(a)
           p == packet(m)
<1>2. encoded(ms) = e \o p /\ e \in Bytes
  BY <1>1, EncodedAppend, EncodedBytes
<1>3. p \in Bytes /\ Len(p) = 2 + Len(m) /\ Len(m) \in Nat
  BY PacketBytes
<1>4. p # <<>>
  BY <1>3, EmptySeq
<1> HIDE DEF e, p
<1> QED BY <1>2, <1>3, <1>4, ConcatEqualIffEmpty DEF Bytes

\* What has been read, but for the bytes of the message that is being read.
arrived == encoded(messages_received_)
held == IF header_read_ THEN encoded_header(header_) ELSE <<>>

LEMMA Places ==
  ASSUME FilterInv
  PROVE  /\ arrived \in Bytes /\ held \in Bytes
         /\ buffer_receiving_ \in Bytes /\ network \in Bytes
         /\ unsent \in Bytes /\ buffer_to_be_sent_ \in Bytes
         /\ flow
              = arrived \o held \o buffer_receiving_ \o network \o unsent \o buffer_to_be_sent_
<1>1. arrived \in Bytes
  BY EncodedBytes DEF FilterInv, HistoryOK, arrived
<1>2. held \in Bytes
  <2>1. header_ \in Nat
    BY Modulus DEF FilterInv, HeaderOK
  <2>2. encoded_header(header_) \in Bytes /\ <<>> \in Bytes
    BY <2>1, HeaderBytes, EmptySeq DEF Bytes
  <2> QED BY <2>2 DEF held
<1>4. BuffersOK
  BY DEF FilterInv
<1>5. /\ buffer_receiving_ \in Bytes /\ network \in Bytes
      /\ unsent \in Bytes /\ buffer_to_be_sent_ \in Bytes
  BY <1>4 DEF BuffersOK
<1>6. flow
        = arrived \o held \o buffer_receiving_ \o network \o unsent \o buffer_to_be_sent_
  BY DEF flow, arrived, held
<1> QED BY <1>1, <1>2, <1>5, <1>6

\* Bytes that go from place to place are those that were written.
LEMMA FlowStays ==
  ASSUME Conserved, flow' = flow, UNCHANGED <<sent, intact>>
  PROVE  Conserved'
BY DEF Conserved, whole

LEMMA Join ==
  ASSUME NEW a \in Bytes, NEW b \in Bytes
  PROVE  a \o b \in Bytes
BY ConcatProperties DEF Bytes

LEMMA Reassociate == \A a, b, c \in Bytes : (a \o b) \o c = a \o (b \o c)
BY Associative DEF Bytes

\* A batch whose bytes d follow what was written; all of them, or it is the end
\* of what is whole.
LEMMA BatchGiven ==
  ASSUME FilterInv, HistoryOK', NEW ms \in Seq(Payload), ms # <<>>, NEW d \in Bytes,
         flow' = flow \o d, sent' = sent \o ms,
         \/ intact' = intact
         \/ intact = Len(sent) /\ intact' = Len(sent') /\ d = encoded(ms)
  PROVE  Conserved'
<1> DEFINE e == encoded(whole)
<1>1. ms \in Seq(Bytes) /\ HistoryOK
  BY Messages DEF FilterInv
<1>2. /\ sent \in Seq(Bytes) /\ e \in Bytes /\ intact \in Nat /\ Len(sent) \in Nat
      /\ intact <= Len(sent) /\ intact \in 0 .. Len(sent) /\ (intact = Len(sent) => whole = sent)
  BY <1>1, WholeIs
<1>3. PICK rest \in Bytes : flow = e \o rest /\ (intact = Len(sent) => rest = <<>>)
  BY DEF FilterInv, Conserved
<1> HIDE DEF e
<1>4. rest \o d \in Bytes /\ flow' = e \o (rest \o d)
  <2>1. rest \o d \in Bytes
    BY <1>3, Join
  <2>2. (e \o rest) \o d = e \o (rest \o d)
    BY Zenon, <1>2, <1>3, Reassociate
  <2>3. flow' = (e \o rest) \o d
    BY Zenon, <1>3
  <2> QED BY Zenon, <2>1, <2>2, <2>3
<1>5. Len(ms) \in Nat \ {0} /\ Len(sent') = Len(sent) + Len(ms)
  BY <1>1, <1>2, EmptySeq, LenProperties, ConcatProperties
<1>6. CASE intact' = intact
  <2>1. intact' # Len(sent')
    BY <1>2, <1>5, <1>6
  <2>2. whole' = whole
    <3>1. SubSeq(sent \o ms, 1, intact) = SubSeq(sent, 1, intact)
      BY <1>1, <1>2, FrontOfConcat
    <3> QED BY <1>6, <3>1 DEF whole
  <2> QED BY <1>4, <2>1, <2>2 DEF Conserved, e
<1>7. CASE intact = Len(sent) /\ intact' = Len(sent') /\ d = encoded(ms)
  <2>1. whole' = sent' /\ whole = sent
    <3>1. sent' \in Seq(Bytes)
      BY <1>1, <1>2, ConcatProperties
    <3>2. SubSeq(sent', 1, Len(sent')) = sent'
      BY <3>1, SubSeqFull
    <3> QED BY <1>2, <1>7, <3>2 DEF whole
  <2>2. encoded(whole') = e \o d
    BY <1>1, <1>2, <1>7, <2>1, EncodedConcat DEF e
  <2>3. rest = <<>> /\ <<>> \o d = d /\ <<>> \in Bytes
    BY <1>3, <1>7, ConcatEmptySeq, EmptySeq DEF Bytes
  <2>4. e \o d \in Bytes /\ (e \o d) \o <<>> = e \o d
    <3>1. e \o d \in Bytes
      BY <1>2, Join
    <3> QED BY <3>1, ConcatEmptySeq DEF Bytes
  <2>5. flow' = encoded(whole') \o <<>>
    BY <1>4, <2>2, <2>3, <2>4
  <2> QED BY <2>3, <2>5 DEF Conserved
<1> QED BY <1>6, <1>7

LEMMA PostsKeeps ==
  ASSUME FilterInv, Posts
  PROVE  FilterInv'
<1>1. PICK ms \in BoundedSeq(Payload, MaxBatch) : ms # <<>> /\ post_message_list(ms)
  BY DEF Posts
<1>2. ms \in Seq(Payload) /\ ms \in Seq(Bytes)
  <2>1. ms \in Seq(Payload)
    <3>1. PICK m \in 0 .. MaxBatch : ms \in [1 .. m -> Payload]
      BY DEF BoundedSeq, SeqOf
    <3> QED BY <3>1, FilterAssumption, SeqDef
  <2> QED BY <2>1, Messages
<1> DEFINE e == encoded(ms)
           n == bytes_wanna_write(ms)
           before == arrived \o held \o buffer_receiving_ \o network
<1>3. e \in Bytes /\ e # <<>> /\ Len(e) \in Nat /\ n \in Int /\ n <= Len(e)
  <2>1. e \in Bytes /\ e # <<>>
    BY <1>1, <1>2, EncodedBytes, EncodedSome
  <2> QED BY <1>2, <2>1, WriteBound, LenProperties DEF Bytes
<1>4. /\ sent' = sent \o ms
      /\ UNCHANGED <<messages_received_, header_read_, header_, buffer_receiving_, network,
                     num_read_handlers_, bytes_wanna_read>>
      /\ intact' = intact \/ (intact = Len(sent) /\ intact' = Len(sent'))
  BY <1>1 DEF post_message_list, gives, filterVars, readVars
<1>5. HeaderOK' /\ HistoryOK' /\ Reading'
  <2>1. sent' \in Seq(Payload) /\ Len(sent') = Len(sent) + Len(ms)
    BY <1>2, <1>4, ConcatProperties DEF FilterInv, HistoryOK
  <2>2. Len(sent) \in Nat /\ Len(ms) \in Nat /\ intact \in 0 .. Len(sent)
    BY <1>2, LenProperties DEF FilterInv, HistoryOK
  <2>3. intact' \in 0 .. Len(sent')
    BY <1>4, <2>1, <2>2
  <2> QED BY <1>4, <2>1, <2>3 DEF FilterInv, HeaderOK, HistoryOK, Reading, wanted
<1>6. before \in Bytes
  <2>1. arrived \o held \in Bytes /\ buffer_receiving_ \in Bytes /\ network \in Bytes
    BY Places, Join
  <2>2. arrived \o held \o buffer_receiving_ \in Bytes
    BY <2>1, Join
  <2> QED BY <2>1, <2>2, Join
<1>7. flow = before \o unsent \o buffer_to_be_sent_
  BY Places
<1>8. flow' = before \o unsent' \o buffer_to_be_sent_'
  BY <1>4 DEF flow, arrived, held
<1>9. /\ buffer_to_be_sent_ \in Bytes /\ unsent \in Bytes /\ <<>> \in Bytes
      /\ broken \in BOOLEAN /\ terminated \in BOOLEAN
  BY EmptySeq DEF FilterInv, BuffersOK, CountersOK, Bytes
<1> DEFINE m == Len(buffer_to_be_sent_) + n
           fits == n # 0 /\ m >= 0
           queued == buffer_to_be_sent_ \o e
           stays == UNCHANGED <<buffer_to_be_sent_, buffer_sending_, num_write_handlers_, unsent>>
           idle == buffer_sending_ = <<>>
           goes == UNCHANGED <<terminated, broken>>
           put == /\ buffer_to_be_sent_' = queued
                  /\ UNCHANGED <<buffer_sending_, num_write_handlers_, unsent>>
           write == /\ buffer_to_be_sent_' = <<>> /\ buffer_sending_' = queued
                    /\ num_write_handlers_' = num_write_handlers_ + 1
                    /\ unsent' = SubSeq(queued, 1, n)
           ends == terminated' \in BOOLEAN /\ broken' = (broken \/ terminated')
<1>13. \/ n = 0 /\ gives(ms, FALSE) /\ stays /\ goes
       \/ m < 0 /\ gives(ms, FALSE) /\ ends /\ stays
       \/ fits /\ ~idle /\ put /\ goes
       \/ fits /\ idle /\ gives(ms, n = Len(queued)) /\ write /\ goes
  BY <1>1, Zenon DEF post_message_list
<1>14. m \in Int /\ (n = 0 => m >= 0)
  <2>1. Len(buffer_to_be_sent_) \in Nat
    BY <1>9, LenProperties DEF Bytes
  <2> HIDE DEF n
  <2> QED BY <1>3, <2>1
<1>15. fits => ~(n = 0) /\ ~(m < 0)
  <2> HIDE DEF m, n
  <2> QED BY <1>14
<1> HIDE DEF m, queued, stays, idle, goes, put, write, ends, n
<1>10. CASE n = 0 \/ m < 0
  <2>1. /\ UNCHANGED <<buffer_to_be_sent_, buffer_sending_, num_write_handlers_, unsent>>
        /\ intact' = intact
        /\ terminated' \in BOOLEAN
        /\ broken' \in BOOLEAN
    <3>1. ~fits
      BY <1>10, <1>14
    <3>2. stays /\ gives(ms, FALSE) /\ (goes \/ ends)
      BY <1>13, <3>1, Zenon
    <3>3. intact' = intact
      BY <3>2 DEF gives
    <3>4. terminated' \in BOOLEAN /\ broken' \in BOOLEAN
      BY <1>9, <3>2, Zenon DEF goes, ends
    <3> QED BY <3>2, <3>3, <3>4 DEF stays
  <2>2. BuffersOK' /\ CountersOK' /\ Writing'
    BY <1>4, <2>1 DEF FilterInv, BuffersOK, CountersOK, Writing
  <2>3. flow' = flow \o <<>>
    <3>1. flow' = flow /\ flow \in Bytes
      <4>1. before \o unsent \in Bytes
        BY <1>6, <1>9, Join
      <4> QED BY <1>7, <1>8, <1>9, <2>1, <4>1, Join
    <3> QED BY <3>1, ConcatEmptySeq DEF Bytes
  <2>4. Conserved'
    BY <1>1, <1>2, <1>4, <1>5, <1>9, <2>1, <2>3, BatchGiven
  <2> QED BY <1>5, <2>2, <2>4 DEF FilterInv
<1>11. CASE fits /\ ~idle
  <2>1. /\ buffer_to_be_sent_' = buffer_to_be_sent_ \o e
        /\ UNCHANGED <<buffer_sending_, num_write_handlers_, unsent, terminated, broken>>
    <3>1. put /\ goes
      BY <1>11, <1>13, <1>15, Zenon
    <3> QED BY <3>1 DEF put, goes, queued
  <2> HIDE DEF e, before
  <2>2. buffer_to_be_sent_' \in Bytes
    BY <1>3, <1>9, <2>1, Join
  <2>3. BuffersOK' /\ CountersOK' /\ Writing'
    BY <1>4, <1>9, <1>11, <2>1, <2>2 DEF FilterInv, BuffersOK, CountersOK, Writing, idle
  <2> DEFINE c == before \o unsent
  <2>4. c \in Bytes
    BY <1>6, <1>9, Join
  <2> HIDE DEF c
  <2>5. (c \o buffer_to_be_sent_) \o e = c \o (buffer_to_be_sent_ \o e)
    BY <1>3, <1>9, <2>4, Reassociate
  <2>6. flow' = flow \o e
    BY <1>7, <1>8, <2>1, <2>5 DEF c
  <2>7. Conserved'
    BY <1>1, <1>2, <1>3, <1>4, <1>5, <2>6, BatchGiven DEF e
  <2> QED BY <1>5, <2>3, <2>7 DEF FilterInv
<1>12. CASE fits /\ idle
  <2>1. unsent = <<>> /\ buffer_to_be_sent_ = <<>>
    BY <1>12 DEF FilterInv, Writing, idle
  <2>2. <<>> \o e = e /\ 0 < n
    <3>1. Len(<<>>) = 0
      BY EmptySeq
    <3>2. <<>> \o e = e
      BY <1>3, ConcatEmptySeq DEF Bytes
    <3> QED BY <1>3, <1>12, <2>1, <3>1, <3>2 DEF m
  <2> DEFINE d == SubSeq(e, 1, n)
  <2>3. /\ buffer_to_be_sent_' = <<>> /\ buffer_sending_' = e /\ unsent' = d
        /\ num_write_handlers_' = num_write_handlers_ + 1
        /\ UNCHANGED <<terminated, broken>>
        /\ gives(ms, n = Len(e))
    <3>1. gives(ms, n = Len(queued)) /\ write /\ goes
      BY <1>12, <1>13, <1>15, Zenon
    <3>2. queued = e
      BY <2>1, <2>2 DEF queued
    <3> QED BY <3>1, <3>2 DEF write, goes
  <2> HIDE DEF e, before
  <2>4. d \in Bytes /\ (n = Len(e) => d = e)
    <3>1. 1 \in Int /\ n \in Int /\ \A i \in 1 .. n : e[i] \in Byte
      BY <1>3, ElementOfSeq DEF Bytes
    <3>2. d \in Seq(Byte)
      BY <3>1, SubSeqProperties
    <3> QED BY <1>3, <3>2, SubSeqFull DEF Bytes
  <2>5. num_write_handlers_ = 0
    BY <1>12 DEF FilterInv, CountersOK, idle
  <2> HIDE DEF d
  <2>6. BuffersOK' /\ CountersOK' /\ Writing'
    BY <1>3, <1>4, <1>9, <2>3, <2>4, <2>5 DEF FilterInv, BuffersOK, CountersOK, Writing
  <2>7. flow = before /\ flow' = before \o d
    <3>1. before \o <<>> = before /\ before \o d \in Bytes
      BY <1>6, <2>4, Join, ConcatEmptySeq DEF Bytes
    <3>2. (before \o d) \o <<>> = before \o d
      BY <3>1, ConcatEmptySeq DEF Bytes
    <3> QED BY <1>7, <1>8, <2>1, <2>3, <3>1, <3>2
  <2>8. intact' = intact \/ (intact = Len(sent) /\ intact' = Len(sent') /\ d = e)
    BY <2>3, <2>4 DEF gives
  <2>9. Conserved'
    BY <1>1, <1>2, <1>4, <1>5, <2>4, <2>7, <2>8, BatchGiven DEF e
  <2> QED BY <1>5, <2>6, <2>9 DEF FilterInv
<1> QED BY <1>10, <1>11, <1>12, <1>14

LEMMA WritesKeep ==
  ASSUME FilterInv, hanlde_write
  PROVE  FilterInv'
<1>1. /\ num_write_handlers_ > 0 /\ unsent = <<>>
      /\ buffer_sending_' = buffer_to_be_sent_ /\ buffer_to_be_sent_' = <<>>
      /\ num_write_handlers_' = num_write_handlers_ - (IF buffer_to_be_sent_ = <<>> THEN 1 ELSE 0)
      /\ unsent' = buffer_to_be_sent_
      /\ UNCHANGED <<sent, intact, terminated, network, broken, header_, header_read_, messages_received_,
                     num_read_handlers_, bytes_wanna_read, buffer_receiving_>>
  BY DEF hanlde_write, historyVars, filterVars, readVars
<1>2. num_write_handlers_ = 1
  BY <1>1 DEF FilterInv, CountersOK
<1>3. HeaderOK' /\ HistoryOK' /\ Reading' /\ BuffersOK' /\ Writing' /\ CountersOK'
  <2>1. HeaderOK' /\ HistoryOK' /\ Reading'
    BY <1>1 DEF FilterInv, HeaderOK, HistoryOK, Reading, wanted
  <2>2. <<>> \in Bytes
    BY EmptySeq DEF Bytes
  <2>3. BuffersOK'
    BY <1>1, <2>2 DEF FilterInv, BuffersOK
  <2>4. Writing' /\ CountersOK'
    BY <1>1, <1>2 DEF FilterInv, Writing, CountersOK
  <2> QED BY <2>1, <2>3, <2>4
<1> DEFINE before == arrived \o held \o buffer_receiving_ \o network
<1>4. before \in Bytes
  BY Places, Join
<1>5. flow = before \o unsent \o buffer_to_be_sent_ /\ buffer_to_be_sent_ \in Bytes
  BY Places
<1>6. before' = before
  BY <1>1 DEF arrived, held
<1>7. flow' = before' \o unsent' \o buffer_to_be_sent_'
  BY DEF flow, arrived, held
<1> HIDE DEF before
<1>8. before \o <<>> = before /\ before \o buffer_to_be_sent_ \in Bytes
  BY <1>4, <1>5, Join, ConcatEmptySeq DEF Bytes
<1>9. (before \o buffer_to_be_sent_) \o <<>> = before \o buffer_to_be_sent_
  BY <1>8, ConcatEmptySeq DEF Bytes
<1>10. flow' = flow
  BY <1>1, <1>5, <1>6, <1>7, <1>8, <1>9
<1>11. Conserved'
  BY <1>1, <1>10, FlowStays DEF FilterInv
<1> QED BY <1>3, <1>11 DEF FilterInv

\* One byte, from the front of the one to the back of the other.
LEMMA MoveOne ==
  ASSUME NEW a \in Bytes, NEW b \in Bytes, b # <<>>
  PROVE  /\ Append(a, Head(b)) \in Bytes /\ Tail(b) \in Bytes
         /\ Append(a, Head(b)) \o Tail(b) = a \o b
         /\ Len(Append(a, Head(b))) = Len(a) + 1
<1> DEFINE x == Head(b)
           y == Tail(b)
           l == <<x>>
<1>1. x \in Byte /\ y \in Bytes
  BY HeadTailProperties DEF Bytes
<1>2. b = l \o y
  <2>1. 1 \in 1 .. Len(b) /\ Len(b) \in 1 .. Len(b)
    BY EmptySeq DEF Bytes
  <2>2. SubSeq(b, 1, Len(b)) = <<b[1]>> \o SubSeq(b, 1 + 1, Len(b))
    BY <2>1, SubSeqRecursiveFirst DEF Bytes
  <2>3. SubSeq(b, 1, Len(b)) = b
    BY SubSeqFull DEF Bytes
  <2>4. y = SubSeq(b, 2, Len(b)) /\ x = b[1]
    BY TailIsSubSeq DEF Bytes
  <2> QED BY <2>2, <2>3, <2>4
<1> HIDE DEF x, y
<1>3. Append(a, x) = a \o l /\ l \in Bytes
  BY <1>1, AppendIsConcat DEF Bytes
<1>4. Append(a, x) \in Bytes /\ Len(Append(a, x)) = Len(a) + 1
  BY <1>1, AppendProperties DEF Bytes
<1> HIDE DEF l
<1>5. (a \o l) \o y = a \o (l \o y)
  BY <1>1, <1>3, Reassociate
<1> QED BY <1>1, <1>2, <1>3, <1>4, <1>5 DEF x, y

LEMMA HandsOverKeeps ==
  ASSUME FilterInv, hand_over
  PROVE  FilterInv'
<1>1. /\ unsent # <<>> /\ network' = Append(network, Head(unsent)) /\ unsent' = Tail(unsent)
      /\ UNCHANGED <<buffer_to_be_sent_, buffer_sending_, num_write_handlers_, sent, intact, terminated, broken,
                     header_, header_read_, messages_received_,
                     num_read_handlers_, bytes_wanna_read, buffer_receiving_>>
  BY DEF hand_over, writeVars, historyVars, filterVars, readVars
<1>2. network \in Bytes /\ unsent \in Bytes
  BY DEF FilterInv, BuffersOK
<1>3. network' \in Bytes /\ unsent' \in Bytes /\ network' \o unsent' = network \o unsent
  BY <1>1, <1>2, MoveOne
<1>4. HeaderOK' /\ HistoryOK' /\ Reading' /\ CountersOK'
  BY <1>1 DEF FilterInv, HeaderOK, HistoryOK, Reading, wanted, CountersOK
<1>5. BuffersOK' /\ Writing'
  BY <1>1, <1>3 DEF FilterInv, BuffersOK, Writing
<1> DEFINE before == arrived \o held \o buffer_receiving_
<1>6. before \in Bytes
  BY Places, Join
<1>7. flow = before \o network \o unsent \o buffer_to_be_sent_
  BY Places
<1>8. before' = before
  BY <1>1 DEF arrived, held
<1>9. flow' = before' \o network' \o unsent' \o buffer_to_be_sent_'
  BY DEF flow, arrived, held
<1> HIDE DEF before
<1>10. (before \o network) \o unsent = before \o (network \o unsent)
  BY <1>2, <1>6, Reassociate
<1>11. (before \o network') \o unsent' = before \o (network' \o unsent')
  BY <1>3, <1>6, Reassociate
<1>12. flow' = flow
  BY <1>1, <1>3, <1>7, <1>8, <1>9, <1>10, <1>11
<1>13. Conserved'
  BY <1>1, <1>12, FlowStays DEF FilterInv
<1> QED BY <1>4, <1>5, <1>13 DEF FilterInv

LEMMA ArrivesKeeps ==
  ASSUME FilterInv, arrive
  PROVE  FilterInv'
<1>1. /\ Len(buffer_receiving_) < bytes_wanna_read /\ network # <<>>
      /\ buffer_receiving_' = Append(buffer_receiving_, Head(network))
      /\ network' = Tail(network)
      /\ UNCHANGED <<buffer_to_be_sent_, buffer_sending_, num_write_handlers_, sent, intact, terminated, broken,
                     unsent, header_, header_read_, messages_received_,
                     num_read_handlers_, bytes_wanna_read>>
  BY DEF arrive, writeVars, historyVars, filterVars, readVars
<1>2. network \in Bytes /\ buffer_receiving_ \in Bytes
  BY DEF FilterInv, BuffersOK
<1>3. /\ buffer_receiving_' \in Bytes /\ network' \in Bytes
      /\ buffer_receiving_' \o network' = buffer_receiving_ \o network
      /\ Len(buffer_receiving_') = Len(buffer_receiving_) + 1
  BY <1>1, <1>2, MoveOne
<1>4. HeaderOK' /\ HistoryOK' /\ CountersOK' /\ Writing'
  BY <1>1 DEF FilterInv, HeaderOK, HistoryOK, CountersOK, Writing
<1>5. BuffersOK'
  BY <1>1, <1>3 DEF FilterInv, BuffersOK
<1>6. Reading'
  <2>1. Len(buffer_receiving_) \in Nat /\ bytes_wanna_read \in Nat
    BY <1>2, LenProperties DEF FilterInv, CountersOK, Bytes
  <2>2. Len(buffer_receiving_') <= bytes_wanna_read
    BY <1>1, <1>3, <2>1
  <2> QED BY <1>1, <2>2 DEF FilterInv, Reading, wanted
<1> DEFINE before == arrived \o held
<1>7. before \in Bytes
  BY Places, Join
<1>8. flow = before \o buffer_receiving_ \o network \o unsent \o buffer_to_be_sent_
  BY Places
<1>9. before' = before
  BY <1>1 DEF arrived, held
<1>10. flow' = before' \o buffer_receiving_' \o network' \o unsent' \o buffer_to_be_sent_'
  BY DEF flow, arrived, held
<1> HIDE DEF before
<1>11. (before \o buffer_receiving_) \o network = before \o (buffer_receiving_ \o network)
  BY <1>2, <1>7, Reassociate
<1>12. (before \o buffer_receiving_') \o network' = before \o (buffer_receiving_' \o network')
  BY <1>3, <1>7, Reassociate
<1>13. flow' = flow
  BY <1>1, <1>3, <1>8, <1>9, <1>10, <1>11, <1>12
<1>14. Conserved'
  BY <1>1, <1>13, FlowStays DEF FilterInv
<1> QED BY <1>4, <1>5, <1>6, <1>14 DEF FilterInv

\* A header leaves the buffer as what it says, and says what it was.
LEMMA ReadsKeep ==
  ASSUME FilterInv, handle_read
  PROVE  FilterInv'
<1>1. /\ num_read_handlers_ > 0 /\ Len(buffer_receiving_) = bytes_wanna_read
      /\ read(buffer_receiving_)
      /\ buffer_receiving_' = <<>> /\ bytes_wanna_read' = wanted'
      /\ num_read_handlers_' = num_read_handlers_ - (IF bytes_wanna_read' = 0 THEN 1 ELSE 0)
      /\ UNCHANGED <<buffer_to_be_sent_, buffer_sending_, num_write_handlers_, sent, intact, terminated, broken,
                     unsent, network>>
  BY DEF handle_read, writeVars, historyVars
<1> DEFINE b == buffer_receiving_
<1>2. b \in Bytes /\ Len(b) = wanted /\ <<>> \in Bytes /\ Len(<<>>) = 0
  BY <1>1, EmptySeq DEF FilterInv, BuffersOK, Reading, Bytes
<1>3. BuffersOK' /\ Writing'
  BY <1>1, <1>2 DEF FilterInv, BuffersOK, Writing
<1>4. /\ HeaderOK' /\ messages_received_' \in Seq(Bytes)
      /\ arrived' \o held' = arrived \o held \o b /\ arrived' \in Bytes /\ held' \in Bytes
  <2>1. CASE ~header_read_
    <3>1. /\ header_' = decoded_header(b) /\ header_read_' = TRUE
          /\ messages_received_' = messages_received_
      BY <1>1, <2>1 DEF read
    <3>2. Len(b) = 2
      BY <1>2, <2>1 DEF wanted, header_size
    <3>3. header_' \in 0 .. HeaderModulus - 1 /\ encoded_header(header_') = b
      BY <1>2, <3>1, <3>2, HeaderDecoded DEF Bytes
    <3>4. arrived' = arrived /\ held' = b /\ held = <<>>
      BY <2>1, <3>1, <3>3 DEF arrived, held
    <3>5. arrived \in Bytes /\ arrived \o <<>> = arrived
      BY Places, ConcatEmptySeq DEF Bytes
    <3>6. HeaderOK' /\ messages_received_' \in Seq(Bytes)
      BY <3>1, <3>3 DEF FilterInv, HeaderOK, HistoryOK
    <3> QED BY <1>2, <3>4, <3>5, <3>6
  <2>2. CASE header_read_
    <3>1. /\ messages_received_' = Append(messages_received_, SubSeq(b, 1, header_))
          /\ header_read_' = FALSE /\ header_' = header_
      BY <1>1, <2>2 DEF read
    <3>2. Len(b) = header_
      BY <1>2, <2>2 DEF wanted
    <3>3. SubSeq(b, 1, header_) = b
      BY <1>2, <3>2, SubSeqFull DEF Bytes
    <3>4. messages_received_ \in Seq(Bytes)
      BY DEF FilterInv, HistoryOK
    <3>5. arrived' = arrived \o packet(b) /\ packet(b) = held \o b
      BY <1>2, <2>2, <3>1, <3>2, <3>3, <3>4, EncodedAppend DEF arrived, held, packet
    <3>6. held' = <<>> /\ arrived \in Bytes /\ held \in Bytes
      BY <3>1, Places DEF held
    <3>7. arrived \o (held \o b) = (arrived \o held) \o b
      BY <1>2, <3>6, Reassociate
    <3>8. arrived' \in Bytes /\ arrived' \o <<>> = arrived'
      <4>1. arrived' \in Bytes
        BY <1>2, <3>5, <3>6, <3>7, Join
      <4> QED BY <4>1, ConcatEmptySeq DEF Bytes
    <3>9. messages_received_' \in Seq(Bytes)
      BY <1>2, <3>1, <3>3, <3>4, AppendProperties
    <3>10. HeaderOK'
      BY <3>1 DEF FilterInv, HeaderOK
    <3> QED BY <1>2, <3>5, <3>6, <3>7, <3>8, <3>9, <3>10
  <2> QED BY <2>1, <2>2
<1>5. wanted' \in Nat
  BY <1>4, Modulus DEF HeaderOK, wanted, header_size
<1>6. Reading' /\ HistoryOK' /\ CountersOK'
  <2>1. Reading' /\ HistoryOK'
    BY <1>1, <1>2, <1>4, <1>5 DEF FilterInv, HistoryOK, Reading
  <2>2. num_read_handlers_ = 1
    BY <1>1 DEF FilterInv, CountersOK
  <2>3. CountersOK'
    BY <1>1, <1>5, <2>2 DEF FilterInv, CountersOK
  <2> QED BY <2>1, <2>3
<1>7. flow = arrived \o held \o b \o network \o unsent \o buffer_to_be_sent_
  BY Places
<1>8. flow' = arrived' \o held' \o b' \o network' \o unsent' \o buffer_to_be_sent_'
  BY DEF flow, arrived, held
<1>9. (arrived' \o held') \o <<>> = arrived' \o held'
  BY <1>4, Join, ConcatEmptySeq DEF Bytes
<1>10. flow' = flow
  BY <1>1, <1>4, <1>7, <1>8, <1>9
<1>11. Conserved'
  BY <1>1, <1>10, FlowStays DEF FilterInv
<1> QED BY <1>3, <1>4, <1>6, <1>11 DEF FilterInv

LEMMA FilterInductive == ASSUME FilterInv, [Next]_vars PROVE FilterInv'
<1>1. ASSUME \/ UNCHANGED vars \/ breaks \/ handle_read_fails
      PROVE  FilterInv'
  <2>1. UNCHANGED <<buffer_to_be_sent_, buffer_sending_, num_write_handlers_, sent, intact,
                    terminated, unsent, network, header_, header_read_, messages_received_, bytes_wanna_read,
                    buffer_receiving_>>
    BY <1>1 DEF vars, breaks, handle_read_fails, writeVars, historyVars, filterVars, readVars
  <2>2. broken' \in BOOLEAN /\ num_read_handlers_' \in {0, 1}
    <3>1. broken \in BOOLEAN /\ num_read_handlers_ \in {0, 1}
      BY DEF FilterInv, CountersOK
    <3>2. broken' = broken \/ broken' = TRUE
      BY <1>1 DEF vars, breaks, handle_read_fails
    <3>3. \/ num_read_handlers_' = num_read_handlers_
          \/ num_read_handlers_ > 0 /\ num_read_handlers_' = num_read_handlers_ - 1
      BY <1>1 DEF vars, breaks, handle_read_fails, readVars
    <3>4. num_read_handlers_' \in {0, 1}
      BY <3>1, <3>3
    <3>5. broken' \in BOOLEAN
      BY <3>1, <3>2, Zenon
    <3> QED BY <3>4, <3>5
  <2>3. BuffersOK' /\ HeaderOK' /\ HistoryOK' /\ Reading' /\ Writing'
    BY <2>1 DEF FilterInv, BuffersOK, HeaderOK, HistoryOK, Reading, Writing, wanted
  <2>5. Conserved'
    <3>1. flow' = flow
      BY <2>1 DEF flow
    <3> QED BY <2>1, <3>1, FlowStays DEF FilterInv
  <2>4. CountersOK'
    BY <2>1, <2>2 DEF FilterInv, CountersOK
  <2> QED BY <2>3, <2>4, <2>5 DEF FilterInv
<1> QED BY <1>1, PostsKeeps, WritesKeep, HandsOverKeeps, ArrivesKeeps, ReadsKeep
        DEF Next, Progress

LEMMA FilterInvariance == Spec => []FilterInv
<1>1. Init => FilterInv
  BY FilterInitially
<1>2. FilterInv /\ [Next]_vars => FilterInv'
  BY FilterInductive
<1> QED BY <1>1, <1>2, PTL DEF Spec

\* Every buffer holds bytes, one read and one write at most are outstanding
\* and a write is for as long as buffer_sending_ holds its bytes.
THEOREM FilterTypes == Spec => []FilterTypeOK
<1>1. FilterInv => FilterTypeOK
  BY TypeParts DEF FilterInv
<1> QED BY <1>1, FilterInvariance, PTL

\* No byte is lost, doubled or read twice, also behind a message whose size
\* its header cannot hold; and none that was given before the first batch that
\* lost bytes for the width of an int.
THEOREM FilterConservesBytes == Spec => []BytesConserved
<1>1. FilterInv => BytesConserved
  <2>1. SUFFICES ASSUME FilterInv PROVE BytesConserved
    OBVIOUS
  <2> DEFINE e == encoded(whole)
  <2>2. PICK rest \in Bytes : flow = e \o rest /\ (intact = Len(sent) => rest = <<>>)
    BY <2>1 DEF FilterInv, Conserved
  <2>3. e \in Bytes /\ (intact = Len(sent) => whole = sent)
    BY <2>1, WholeIs DEF FilterInv
  <2> HIDE DEF e
  <2>4. ASSUME intact = Len(sent) PROVE flow = encoded(sent)
    <3>1. e \o <<>> = e
      BY <2>3, ConcatEmptySeq DEF Bytes
    <3> QED BY <2>2, <2>3, <2>4, <3>1 DEF e
  <2>5. IsPrefix(e, e \o rest)
    BY <2>3, PrefixOfConcat DEF Bytes
  <2>6. IsPrefix(encoded(SubSeq(sent, 1, intact)), flow)
    BY <2>2, <2>5 DEF e, whole
  <2> QED BY <2>4, <2>6 DEF BytesConserved
<1> QED BY <1>1, FilterInvariance, PTL

----------------------------------------------------------------------------
(* What arrives is what was sent.                                          *)

\* How many messages have a header that has been read.
begun == Len(messages_received_) + (IF header_read_ THEN 1 ELSE 0)

\* A message whose size its header cannot hold has been sent, and its header
\* has been read; or what was read lies behind a batch that lost bytes.
Misled ==
  \/ \E i \in 1 .. Len(sent) : i <= begun /\ ~Representable(sent[i])
  \/ intact < Len(sent) /\ intact < begun

\* What has been read is what was sent, message by message, and the header that
\* has been read is the next one's.
Faithful ==
  /\ Len(messages_received_) <= intact
  /\ \A i \in 1 .. Len(messages_received_) : messages_received_[i] = sent[i]
  /\ header_read_ =>
       /\ Len(messages_received_) < intact
       /\ header_ = Len(sent[Len(messages_received_) + 1])

Aligned == Misled \/ Faithful

LEMMA FrontsAgree ==
  ASSUME NEW a \in Bytes, NEW b \in Bytes, NEW x \in Bytes, NEW y \in Bytes,
         Len(a) = Len(b), a \o x = b \o y
  PROVE  a = b /\ x = y
<1>1. /\ Len(a) \in Nat /\ Len(x) \in Nat
      /\ \A i \in 1 .. Len(a) + Len(x) : (a \o x)[i] = IF i <= Len(a) THEN a[i] ELSE x[i - Len(a)]
  BY ConcatProperties, LenProperties DEF Bytes
<1>2. /\ Len(y) \in Nat
      /\ \A i \in 1 .. Len(b) + Len(y) : (b \o y)[i] = IF i <= Len(b) THEN b[i] ELSE y[i - Len(b)]
  BY ConcatProperties, LenProperties DEF Bytes
<1>3. \A i \in 1 .. Len(a) : a[i] = b[i]
  BY <1>1, <1>2
<1>4. a = b
  BY <1>3, SeqEqual DEF Bytes
<1>5. \A s, t, v \in Seq(Byte) : s \o t = s \o v => t = v
  BY ConcatSimplifications
<1> QED BY <1>4, <1>5 DEF Bytes

Regrouped(a, b, c) == (a \o b) \o c = a \o (b \o c)

LEMMA Regroup == \A a, b, c \in Bytes : Regrouped(a, b, c)
BY Reassociate DEF Regrouped

Bracketing(a, p, w, u, t) == a \o p \o w \o u \o t = a \o (p \o ((w \o u) \o t))

LEMMA Bracketed ==
  ASSUME NEW a \in Bytes, NEW p \in Bytes,
         NEW w \in Bytes, NEW u \in Bytes, NEW t \in Bytes
  PROVE  Bracketing(a, p, w, u, t)
<1> DEFINE c == a \o p
           x == w \o u
           y == x \o t
<1>1. c \in Bytes /\ x \in Bytes
  BY Join
<1>2. y \in Bytes
  <2> HIDE DEF x
  <2> QED BY <1>1, Join
<1> HIDE DEF c, x, y
<1>3. Regrouped(a, p, y) /\ Regrouped(c, w, u) /\ Regrouped(c, x, t)
  BY <1>1, <1>2, Regroup
<1>4. (a \o p) \o y = a \o (p \o y)
  BY <1>3 DEF Regrouped
<1>5. (c \o w) \o u = c \o (w \o u)
  BY <1>3 DEF Regrouped
<1>6. (c \o x) \o t = c \o (x \o t)
  BY <1>3 DEF Regrouped
<1>7. c \o w \o u \o t = a \o (p \o y)
  BY <1>4, <1>5, <1>6, Zenon DEF c, x, y
<1> QED BY <1>7 DEF c, x, y, Bracketing

\* Behind what has been read comes the next message that was sent, as long as
\* none has lost a byte.
LEMMA NextPacket ==
  ASSUME FilterInv, Faithful, held \o buffer_receiving_ # <<>>
  PROVE  \/ intact < Len(sent) /\ Len(messages_received_) = intact
         \/ /\ Len(messages_received_) + 1 \in 1 .. intact
            /\ \E behind, later \in Bytes :
                 (held \o buffer_receiving_) \o behind
                   = packet(sent[Len(messages_received_) + 1]) \o later
<1> DEFINE n == Len(messages_received_)
           N == intact
           front == SubSeq(sent, 1, n)
           rest == SubSeq(sent, n + 1, N)
           taken == held \o buffer_receiving_
           x == network \o unsent
           behind == x \o buffer_to_be_sent_
<1>0. /\ sent \in Seq(Bytes) /\ N \in Nat /\ Len(sent) \in Nat /\ N <= Len(sent)
      /\ encoded(whole) \in Bytes
  BY WholeIs DEF FilterInv
<1>1. /\ messages_received_ \in Seq(Bytes)
      /\ n \in Nat /\ n <= N
      /\ \A i \in 1 .. n : messages_received_[i] = sent[i]
      /\ \A i \in 1 .. Len(sent) : sent[i] \in Bytes
  BY <1>0, LenProperties, ElementOfSeq DEF FilterInv, HistoryOK, Faithful
<1>2. front \in Seq(Bytes) /\ rest \in Seq(Bytes)
  <2>1. /\ 1 \in Int /\ n \in Int /\ n + 1 \in Int /\ N \in Int
        /\ \A i \in 1 .. n : sent[i] \in Bytes
        /\ \A i \in n + 1 .. N : sent[i] \in Bytes
    BY <1>0, <1>1
  <2> QED BY <2>1, SubSeqProperties
<1>3. front \o rest = whole
  <2>1. 1 \in 1 .. Len(sent) + 1 /\ n \in 1 - 1 .. Len(sent) /\ N \in n .. Len(sent)
    BY <1>0, <1>1
  <2>2. SubSeq(sent, 1, n) \o SubSeq(sent, n + 1, N) = SubSeq(sent, 1, N)
    BY <1>0, <2>1, ConcatAdjacentSubSeq
  <2> QED BY <2>2 DEF whole
<1>4. front = messages_received_
  <2>1. n \in Int /\ 1 \in Int /\ \A i \in 1 .. n : sent[i] \in Bytes
    BY <1>0, <1>1
  <2>2. Len(front) = IF 1 <= n THEN n - 1 + 1 ELSE 0
    BY <2>1, SubSeqProperties
  <2>3. \A i \in 1 .. n - 1 + 1 : front[i] = sent[1 + i - 1]
    BY <2>1, SubSeqProperties
  <2>4. Len(front) = n /\ \A i \in 1 .. n : front[i] = sent[i]
    BY <1>1, <2>2, <2>3
  <2> QED BY <1>1, <1>2, <2>4, SeqEqual
<1>5. /\ taken \in Bytes /\ x \in Bytes /\ behind \in Bytes /\ arrived \in Bytes
      /\ arrived \o taken \in Bytes
      /\ encoded(rest) \in Bytes
  BY <1>2, Places, Join, EncodedBytes
<1>6. flow = arrived \o (taken \o behind)
  <2>1. flow
          = arrived \o held \o buffer_receiving_ \o network \o unsent \o buffer_to_be_sent_
    BY Places
  <2>0. arrived \in Bytes /\ held \in Bytes /\ buffer_receiving_ \in Bytes
    BY Places
  <2>2. (arrived \o held) \o buffer_receiving_ = arrived \o taken
    BY <2>0, Reassociate, Zenon
  <2>3. /\ taken \in Bytes /\ arrived \in Bytes /\ network \in Bytes /\ unsent \in Bytes
        /\ buffer_to_be_sent_ \in Bytes
    BY <1>5, Places
  <2> HIDE DEF taken
  <2>4. Bracketing(arrived, taken, network, unsent, buffer_to_be_sent_)
    BY <2>3, Bracketed
  <2> QED BY <2>1, <2>2, <2>4 DEF Bracketing
<1>7. PICK more \in Bytes :
        flow = encoded(whole) \o more /\ (intact = Len(sent) => more = <<>>)
  BY DEF FilterInv, Conserved
<1> HIDE DEF taken, behind, front
<1>8. taken \o behind = encoded(rest) \o more
  <2> DEFINE r == encoded(rest)
  <2>1. encoded(whole) = arrived \o r
    <3> HIDE DEF rest
    <3> QED BY <1>2, <1>3, <1>4, EncodedConcat DEF arrived
  <2>2. r \in Bytes /\ r \o more \in Bytes /\ taken \o behind \in Bytes
    <3> HIDE DEF rest
    <3> QED BY <1>5, <1>7, Join
  <2> HIDE DEF r, rest
  <2>3. (arrived \o r) \o more = arrived \o (r \o more)
    <3>1. arrived \in Bytes /\ r \in Bytes /\ more \in Bytes
      BY <1>5, <1>7, <2>2
    <3> QED BY <3>1, Reassociate, Zenon
  <2>4. arrived \o (taken \o behind) = arrived \o (r \o more)
    BY <1>6, <1>7, <2>1, <2>3
  <2> DEFINE y == taken \o behind
             z == r \o more
  <2>5. arrived \o y = arrived \o z /\ y \in Bytes /\ z \in Bytes
    BY <2>2, <2>4
  <2> HIDE DEF y, z
  <2>6. y = z
    BY <1>5, <2>5, FrontsAgree
  <2> QED BY <2>6 DEF y, z, r
<1>9. ASSUME n = N PROVE intact < Len(sent)
  <2>1. SUFFICES ASSUME ~(intact < Len(sent)) PROVE FALSE
    OBVIOUS
  <2>2. more = <<>>
    BY <1>0, <1>7, <2>1
  <2>3. rest = <<>>
    BY <1>0, <1>1, <1>9, SubSeqEmpty
  <2>4. taken \o behind = <<>>
    <3>1. <<>> \o <<>> = <<>>
      BY <1>7, <2>2, ConcatEmptySeq DEF Bytes
    <3> QED BY <1>8, <2>2, <2>3, <3>1, EncodedNothing
  <2>5. taken = <<>>
    BY <1>5, <2>4, ConcatEqualIffEmpty DEF Bytes
  <2> QED BY <2>5 DEF taken
<1>10. CASE n = N
  BY <1>9, <1>10
<1>11. CASE n # N
  <2> DEFINE m == sent[n + 1]
             tail == SubSeq(sent, n + 1 + 1, N)
  <2>1. /\ n + 1 \in 1 .. N /\ n + 1 \in 1 .. Len(sent) /\ N \in n + 1 .. Len(sent)
        /\ m \in Bytes
    BY <1>0, <1>1, <1>11
  <2>2. rest = <<m>> \o tail
    BY <1>0, <2>1, SubSeqRecursiveFirst
  <2>3. tail \in Seq(Bytes) /\ <<m>> \in Seq(Bytes)
    <3>1. \A i \in n + 1 + 1 .. N : sent[i] \in Bytes
      BY <1>0, <1>1
    <3>2. n + 1 + 1 \in Int /\ N \in Int
      BY <1>0, <1>1
    <3>3. tail \in Seq(Bytes)
      BY <3>1, <3>2, SubSeqProperties
    <3> QED BY <2>1, <3>3
  <2> HIDE DEF m, tail, rest
  <2>4. encoded(rest) = packet(m) \o encoded(tail) /\ encoded(tail) \in Bytes
    BY <2>1, <2>2, <2>3, EncodedConcat, EncodedOne, EncodedBytes
  <2> DEFINE later == encoded(tail) \o more
  <2>5. packet(m) \in Bytes /\ later \in Bytes
    BY <1>7, <2>1, <2>4, PacketBytes, Join
  <2>6. (packet(m) \o encoded(tail)) \o more = packet(m) \o later
    BY <1>7, <2>4, <2>5, Reassociate
  <2>7. taken \o behind = packet(m) \o later
    BY <1>8, <2>4, <2>6
  <2> HIDE DEF later
  <2> QED BY <1>5, <2>1, <2>5, <2>7 DEF taken, m
<1> QED BY <1>10, <1>11

\* The header that is read is the next message's, as long as none has lost a byte.
LEMMA NextHeader ==
  ASSUME FilterInv, Faithful, ~header_read_, Len(buffer_receiving_) = 2,
         ~(intact < Len(sent) /\ Len(messages_received_) = intact)
  PROVE  /\ Len(messages_received_) + 1 \in 1 .. intact
         /\ buffer_receiving_ = encoded_header(Len(sent[Len(messages_received_) + 1]))
<1> DEFINE n == Len(messages_received_)
           m == sent[n + 1]
           b == buffer_receiving_
           h == encoded_header(Len(m))
<1>0. b \in Bytes /\ Len(b) = 2
  BY DEF FilterInv, BuffersOK
<1>1. held \o b = b /\ b # <<>>
  <2>1. held = <<>>
    BY DEF held
  <2>2. <<>> \o b = b
    BY <1>0, ConcatEmptySeq DEF Bytes
  <2>3. b # <<>>
    BY <1>0, EmptySeq
  <2> QED BY <2>1, <2>2, <2>3
<1>2. n + 1 \in 1 .. intact
  BY <1>1, NextPacket
<1>3. PICK behind, later \in Bytes : b \o behind = packet(m) \o later
  BY <1>1, NextPacket
<1>4. m \in Bytes
  <2>1. sent \in Seq(Bytes) /\ n + 1 \in 1 .. Len(sent)
    BY <1>2, WholeIs DEF FilterInv
  <2> QED BY <2>1, ElementOfSeq
<1> HIDE DEF b, m
<1>5. h \in Bytes /\ Len(h) = 2 /\ packet(m) = h \o m
  <2>1. Len(m) \in Nat
    BY <1>4, LenProperties DEF Bytes
  <2> QED BY <2>1, HeaderBytes DEF Bytes, packet
<1> HIDE DEF h
<1>6. (h \o m) \o later = h \o (m \o later) /\ m \o later \in Bytes
  BY <1>4, <1>5, Join, Reassociate
<1> DEFINE y == m \o later
<1>7. b \o behind = h \o y /\ y \in Bytes
  BY <1>3, <1>5, <1>6
<1> HIDE DEF y
<1>8. b = h
  <2>1. Len(b) = Len(h) /\ b \in Bytes /\ h \in Bytes /\ behind \in Bytes /\ y \in Bytes
    BY <1>0, <1>3, <1>5, <1>7
  <2> QED BY <1>7, <2>1, FrontsAgree
<1> QED BY <1>2, <1>8 DEF b, h, m

\* The bytes that are read for a message are the next message.
LEMMA NextBody ==
  ASSUME FilterInv, Faithful, header_read_, Len(buffer_receiving_) = header_
  PROVE  /\ Len(messages_received_) + 1 \in 1 .. intact
         /\ buffer_receiving_ = sent[Len(messages_received_) + 1]
<1> DEFINE n == Len(messages_received_)
           m == sent[n + 1]
           b == buffer_receiving_
           h == encoded_header(Len(m))
<1>1. header_ = Len(m) /\ n + 1 \in 1 .. intact /\ n # intact
  <2>1. n \in Nat /\ intact \in Nat
    BY LenProperties DEF FilterInv, HistoryOK
  <2> QED BY <2>1 DEF Faithful
<1>2. m \in Bytes /\ b \in Bytes
  <2>1. sent \in Seq(Bytes) /\ b \in Bytes /\ n + 1 \in 1 .. Len(sent)
    BY <1>1, WholeIs DEF FilterInv, BuffersOK
  <2> QED BY <2>1, ElementOfSeq
<1>3. held = h
  BY <1>1 DEF held
<1> HIDE DEF m
<1>4. h \in Bytes /\ Len(h) = 2 /\ packet(m) = h \o m /\ Len(m) \in Nat
  <2>1. Len(m) \in Nat
    BY <1>2, LenProperties DEF Bytes
  <2> QED BY <2>1, HeaderBytes DEF Bytes, packet
<1> HIDE DEF b, h
<1>5. Len(h \o b) = Len(h) + Len(b) /\ Len(h \o m) = Len(h) + Len(m)
  BY <1>2, <1>4, ConcatProperties DEF Bytes
<1>6. h \o b \in Bytes /\ h \o m \in Bytes
  BY <1>2, <1>4, Join
<1> DEFINE p == h \o b
           q == h \o m
<1>7. p \in Bytes /\ q \in Bytes /\ Len(p) = Len(q) /\ p # <<>>
  <2>1. Len(b) = Len(m)
    BY <1>1 DEF b
  <2>2. Len(p) = Len(q) /\ Len(p) # 0
    BY <1>4, <1>5, <2>1
  <2> QED BY <1>6, <2>2, EmptySeq
<1>8. PICK behind, later \in Bytes : p \o behind = q \o later
  <2>1. held \o buffer_receiving_ # <<>>
    BY <1>3, <1>7 DEF b
  <2>2. \E behind, later \in Bytes : (held \o buffer_receiving_) \o behind = packet(m) \o later
    BY <1>1, <2>1, NextPacket DEF m
  <2> QED BY <1>3, <1>4, <2>2 DEF b
<1> HIDE DEF p, q
<1>9. p = q
  BY <1>7, <1>8, FrontsAgree
<1>10. b = m
  <2>1. h \o b = h \o m
    BY <1>9 DEF p, q
  <2> QED BY <1>2, <1>4, <2>1, FrontsAgree
<1> QED BY <1>1, <1>10 DEF b, m

LEMMA AlignedInitially == Init => Aligned
<1> SUFFICES ASSUME Init PROVE Faithful
  BY DEF Aligned
<1> QED BY EmptySeq DEF Init, Faithful

\* A step that is no reading and no sending, and one that sends.
LEMMA AlignedStays ==
  ASSUME FilterInv, FilterInv', Aligned,
         UNCHANGED <<messages_received_, header_read_, header_>>,
         Len(sent) <= Len(sent'), \A i \in 1 .. Len(sent) : sent'[i] = sent[i],
         intact' = intact \/ intact = Len(sent), intact <= intact'
  PROVE  Aligned'
<1>1. /\ Len(sent) \in Nat /\ Len(sent') \in Nat /\ Len(messages_received_) \in Nat
      /\ intact \in Nat /\ intact' \in Nat /\ intact <= Len(sent)
      /\ begun' = begun /\ begun \in Nat
  <2>1. /\ Len(sent) \in Nat /\ Len(sent') \in Nat /\ Len(messages_received_) \in Nat
        /\ intact \in 0 .. Len(sent) /\ intact' \in 0 .. Len(sent')
    BY LenProperties DEF FilterInv, HistoryOK
  <2> QED BY <2>1 DEF begun
<1>2. ASSUME Misled PROVE Misled'
  <2>1. CASE \E i \in 1 .. Len(sent) : i <= begun /\ ~Representable(sent[i])
    BY <1>1, <2>1 DEF Misled, Representable
  <2>2. CASE intact < Len(sent) /\ intact < begun
    BY <1>1, <2>2 DEF Misled
  <2> QED BY <1>2, <2>1, <2>2 DEF Misled
<1>3. ASSUME Faithful PROVE Faithful'
  <2>1. Len(messages_received_') <= intact'
    BY <1>1, <1>3 DEF Faithful
  <2>2. \A i \in 1 .. Len(messages_received_') : messages_received_'[i] = sent'[i]
    BY <1>1, <1>3 DEF Faithful
  <2>3. header_read_' => Len(messages_received_') < intact'
    BY <1>1, <1>3 DEF Faithful
  <2>4. header_read_' => header_' = Len(sent'[Len(messages_received_') + 1])
    <3>1. header_read_ => Len(messages_received_) + 1 \in 1 .. Len(sent)
      BY <1>1, <1>3 DEF Faithful
    <3> QED BY <1>3, <3>1 DEF Faithful
  <2> QED BY <2>1, <2>2, <2>3, <2>4 DEF Faithful
<1> QED BY <1>2, <1>3 DEF Aligned

\* Every step but a reading leaves what has been read, and sends or does not.
LEMMA OtherSteps ==
  ASSUME FilterInv, [Next]_vars, ~handle_read
  PROVE  /\ UNCHANGED <<messages_received_, header_read_, header_>>
         /\ \/ UNCHANGED <<sent, intact, broken>>
            \/ breaks /\ UNCHANGED <<sent, intact>>
            \/ Posts
<1>1. ASSUME Posts
      PROVE  UNCHANGED <<messages_received_, header_read_, header_>>
  BY <1>1 DEF Posts, post_message_list, filterVars
<1>2. ASSUME breaks
      PROVE  UNCHANGED <<messages_received_, header_read_, header_>> /\ UNCHANGED <<sent, intact>>
  BY <1>2 DEF breaks, filterVars, writeVars, historyVars
<1>3. ASSUME hanlde_write \/ hand_over \/ arrive \/ handle_read_fails \/ UNCHANGED vars
      PROVE  /\ UNCHANGED <<messages_received_, header_read_, header_>>
             /\ UNCHANGED <<sent, intact, broken>>
  BY <1>3 DEF hanlde_write, hand_over, arrive, handle_read_fails, vars, filterVars,
              writeVars, historyVars
<1> QED BY <1>1, <1>2, <1>3 DEF Next, Progress

\* A batch that an int can count goes behind those that wait, or out with all
\* its bytes.
LEMMA CountablePosts ==
  ASSUME FilterInv, NEW ms \in Seq(Payload), ms # <<>>, post_message_list(ms), Countable(ms)
  PROVE  broken' = broken /\ gives(ms, TRUE)
<1> DEFINE e == encoded(ms)
           n == bytes_wanna_write(ms)
           m == Len(buffer_to_be_sent_) + n
           queued == buffer_to_be_sent_ \o e
<1>1. ms \in Seq(Bytes) /\ e \in Bytes /\ e # <<>>
  BY Messages, EncodedBytes, EncodedSome
<1>2. n = Len(e)
  BY <1>1, WriteBound
<1>3. n \in Nat \ {0} /\ m >= 0 /\ Len(buffer_to_be_sent_) \in Nat
  <2>1. Len(buffer_to_be_sent_) \in Nat /\ Len(e) \in Nat \ {0}
    BY <1>1, EmptySeq, LenProperties DEF FilterInv, BuffersOK, Bytes
  <2> HIDE DEF e, n
  <2> QED BY <1>2, <2>1
<1>4. buffer_sending_ = <<>> => queued = e
  <2>1. <<>> \o e = e
    BY <1>1, ConcatEmptySeq DEF Bytes
  <2> HIDE DEF e
  <2> QED BY <2>1 DEF FilterInv, Writing
<1>5. n # 0 /\ ~(m < 0)
  <2> HIDE DEF n
  <2> QED BY <1>3
<1> DEFINE idle == buffer_sending_ = <<>>
           goes == broken' = broken
<1>6. \/ n = 0
      \/ m < 0
      \/ ~idle /\ gives(ms, TRUE) /\ goes
      \/ idle /\ gives(ms, n = Len(queued)) /\ goes
  <2> DEFINE stays == UNCHANGED <<terminated, broken>>
  <2>1. \/ n = 0
        \/ m < 0
        \/ ~idle /\ gives(ms, TRUE) /\ stays
        \/ idle /\ gives(ms, n = Len(queued)) /\ stays
    BY Zenon DEF post_message_list
  <2>2. stays => goes
    OBVIOUS
  <2> HIDE DEF stays, goes, idle, n, m, queued
  <2> QED BY <2>1, <2>2, Zenon
<1>7. idle => (gives(ms, n = Len(queued)) <=> gives(ms, TRUE))
  <2>1. idle => (n = Len(queued)) = TRUE
    <3> HIDE DEF n, queued, e
    <3> QED BY <1>2, <1>4
  <2> HIDE DEF n, queued, e, idle
  <2> QED BY <2>1 DEF gives
<1> HIDE DEF n, m, idle, goes, queued
<1>8. gives(ms, TRUE) /\ goes
  BY <1>5, <1>6, <1>7, Zenon
<1> QED BY <1>8 DEF goes

LEMMA PostsSend ==
  ASSUME FilterInv, Posts
  PROVE  /\ Len(sent') > Len(sent) /\ \A i \in 1 .. Len(sent) : sent'[i] = sent[i]
         /\ intact' = intact \/ intact = Len(sent)
         /\ intact <= intact'
         /\ UNCHANGED messages_received_ => Stream!Send
<1>1. PICK ms \in BoundedSeq(Payload, MaxBatch) : ms # <<>> /\ post_message_list(ms)
  BY DEF Posts
<1>2. ms \in Seq(Payload)
  <2>1. PICK m \in 0 .. MaxBatch : ms \in [1 .. m -> Payload]
    BY DEF BoundedSeq, SeqOf
  <2> QED BY <2>1, FilterAssumption, SeqDef
<1>3. /\ sent' = sent \o ms /\ sent \in Seq(Payload)
      /\ intact' = intact \/ (intact = Len(sent) /\ intact' = Len(sent'))
      /\ intact \in 0 .. Len(sent)
  BY <1>1 DEF post_message_list, gives, FilterInv, HistoryOK
<1>4. Len(ms) \in Nat \ {0} /\ Len(sent) \in Nat
  BY <1>1, <1>2, <1>3, EmptySeq, LenProperties
<1>5. Len(sent') = Len(sent) + Len(ms)
  BY <1>2, <1>3, ConcatProperties
<1>6. \A i \in 1 .. Len(sent) + Len(ms) : sent'[i] = IF i <= Len(sent) THEN sent[i] ELSE ms[i - Len(sent)]
  BY <1>2, <1>3, ConcatProperties
<1>7. \A i \in 1 .. Len(sent) : sent'[i] = sent[i]
  BY <1>4, <1>6
<1>8. SubSeq(sent', 1, Len(sent)) = sent
  <2>1. Len(sent) \in 0 .. Len(sent)
    BY <1>4
  <2>2. SubSeq(sent \o ms, 1, Len(sent)) = SubSeq(sent, 1, Len(sent))
    BY <1>2, <1>3, <2>1, FrontOfConcat
  <2> QED BY <1>3, <2>2, SubSeqFull
<1>9. intact <= intact' /\ Len(sent') > Len(sent)
  BY <1>3, <1>4, <1>5
<1>10. Stream!batch = ms
  BY <1>2, <1>3, BackOfConcat DEF Stream!batch
<1>11. broken => broken'
  <2>1. broken' = broken \/ broken' = (broken \/ terminated')
    BY <1>1, Zenon DEF post_message_list
  <2> QED BY <2>1, Zenon
<1>12. Countable(ms) => broken' = broken /\ (intact = Len(sent) => intact' = Len(sent'))
  BY <1>1, <1>2, CountablePosts DEF gives
<1>13. UNCHANGED messages_received_ => Stream!Send
  <2>1. intact' \in {intact, Len(sent')}
    BY <1>3
  <2>2. intact' = Len(sent') => intact = Len(sent)
    BY <1>3, <1>4, <1>5
  <2>3. Countable(Stream!batch)
          => broken' = broken /\ (intact = Len(sent) => intact' = Len(sent'))
    BY <1>10, <1>12
  <2>4. Len(sent') > Len(sent)
    BY <1>9
  <2> QED BY <1>8, <1>11, <2>1, <2>2, <2>3, <2>4, Zenon DEF Stream!Send
<1> QED BY <1>3, <1>7, <1>9, <1>13

\* What a reading delivers, and what it leaves.
LEMMA ReadsAlign ==
  ASSUME FilterInv, Aligned, handle_read, HistoryOK'
  PROVE  /\ Aligned'
         /\ UNCHANGED <<sent, broken, intact>>
         /\ \/ UNCHANGED messages_received_
            \/ /\ \A i \in 1 .. Len(messages_received_) + 1 : Representable(sent[i])
               /\ Len(messages_received_) + 1 <= intact
               /\ messages_received_'
                    = Append(messages_received_, sent[Len(messages_received_) + 1])
            \/ /\ Stream!Misleads
               /\ \E m \in Bytes : messages_received_' = Append(messages_received_, m)
<1> DEFINE n == Len(messages_received_)
           b == buffer_receiving_
<1>1. /\ Len(b) = wanted /\ b \in Bytes /\ UNCHANGED <<sent, broken, intact>> /\ read(b)
      /\ messages_received_ \in Seq(Bytes) /\ n \in Nat /\ Len(sent) \in Nat
      /\ intact \in Nat /\ intact <= Len(sent)
  <2>1. Len(b) = wanted /\ UNCHANGED <<sent, broken, intact>> /\ read(b)
    BY DEF handle_read, FilterInv, Reading, writeVars, historyVars
  <2>2. b \in Bytes /\ messages_received_ \in Seq(Bytes)
    BY DEF FilterInv, BuffersOK, HistoryOK
  <2>3. n \in Nat /\ Len(sent) \in Nat /\ intact \in Nat /\ intact <= Len(sent)
    BY WholeIs, LenProperties DEF FilterInv, HistoryOK
  <2> QED BY <2>1, <2>2, <2>3
<1>2. CASE ~header_read_
  <2>1. /\ header_' = decoded_header(b) /\ header_read_' = TRUE
        /\ messages_received_' = messages_received_ /\ Len(b) = 2
    BY <1>1, <1>2 DEF read, wanted, header_size
  <2>0. begun = n /\ begun' = n + 1
    BY <1>1, <1>2, <2>1 DEF begun
  <2>2. ASSUME Misled PROVE Misled'
    <3>1. CASE \E i \in 1 .. Len(sent) : i <= begun /\ ~Representable(sent[i])
      BY <1>1, <2>0, <3>1 DEF Misled, Representable
    <3>2. CASE intact < Len(sent) /\ intact < begun
      BY <1>1, <2>0, <3>2 DEF Misled
    <3> QED BY <2>2, <3>1, <3>2 DEF Misled
  <2>3. ASSUME Faithful PROVE Aligned'
    <3>0. CASE intact < Len(sent) /\ n = intact
      BY <1>1, <2>0, <3>0 DEF Misled, Aligned
    <3>1. ASSUME ~(intact < Len(sent) /\ n = intact)
          PROVE  n + 1 \in 1 .. intact /\ b = encoded_header(Len(sent[n + 1]))
      BY <1>2, <2>1, <2>3, <3>1, NextHeader
    <3>2. CASE ~(intact < Len(sent) /\ n = intact) /\ Representable(sent[n + 1])
      <4>1. Len(sent[n + 1]) \in 0 .. HeaderModulus - 1
        BY <3>2, Modulus DEF Representable
      <4>2. header_' = Len(sent[n + 1])
        BY <2>1, <3>1, <3>2, <4>1, HeaderRoundTrip
      <4>3. n < intact
        BY <1>1, <3>1, <3>2
      <4> QED BY <1>1, <2>1, <2>3, <4>2, <4>3 DEF Faithful, Aligned
    <3>3. CASE ~(intact < Len(sent) /\ n = intact) /\ ~Representable(sent[n + 1])
      <4>1. n + 1 <= begun' /\ n + 1 \in 1 .. Len(sent)
        BY <1>1, <2>0, <3>1, <3>3
      <4>2. Misled'
        BY <1>1, <3>3, <4>1 DEF Misled, Representable
      <4> QED BY <4>2 DEF Aligned
    <3> QED BY <3>0, <3>2, <3>3
  <2>4. Aligned'
    BY <2>2, <2>3 DEF Aligned
  <2> QED BY <1>1, <2>1, <2>4
<1>3. CASE header_read_
  <2>1. /\ messages_received_' = Append(messages_received_, SubSeq(b, 1, header_))
        /\ header_read_' = FALSE /\ Len(b) = header_
    BY <1>1, <1>3 DEF read, wanted
  <2>2. messages_received_' = Append(messages_received_, b)
    <3>1. SubSeq(b, 1, header_) = b
      BY <1>1, <2>1, SubSeqFull DEF Bytes
    <3> QED BY <2>1, <3>1
  <2>3. Len(messages_received_') = n + 1
    BY <1>1, <2>2, AppendProperties
  <2>0. begun = n + 1 /\ begun' = n + 1
    BY <1>1, <1>3, <2>1, <2>3 DEF begun
  <2>4. CASE Misled
    <3>1. CASE \E i \in 1 .. Len(sent) : i <= begun /\ ~Representable(sent[i])
      <4>1. PICK i \in 1 .. Len(sent) : i <= n + 1 /\ ~Representable(sent[i])
        BY <2>0, <3>1
      <4>2. Misled'
        BY <1>1, <2>0, <4>1 DEF Misled, Representable
      <4>3. i \in 1 .. n + 1 /\ i <= Len(sent)
        BY <1>1, <4>1
      <4>4. Stream!Misleads
        BY <4>1, <4>3 DEF Stream!Misleads
      <4> QED BY <1>1, <2>2, <4>2, <4>4 DEF Aligned
    <3>2. CASE intact < Len(sent) /\ intact < begun
      <4>1. Misled' /\ Stream!Misleads
        BY <1>1, <2>0, <3>2 DEF Misled, Stream!Misleads
      <4> QED BY <1>1, <2>2, <4>1 DEF Aligned
    <3> QED BY <2>4, <3>1, <3>2 DEF Misled
  <2>5. CASE ~Misled
    <3>1. Faithful
      BY <2>5 DEF Aligned
    <3>2. n + 1 \in 1 .. intact /\ b = sent[n + 1]
      BY <1>3, <2>1, <3>1, NextBody
    <3>3. \A i \in 1 .. n + 1 : Representable(sent[i])
      <4>1. \A i \in 1 .. Len(sent) : i <= begun => Representable(sent[i])
        BY <2>5 DEF Misled
      <4> QED BY <1>1, <2>0, <3>2, <4>1
    <3>4. messages_received_' = Append(messages_received_, sent[n + 1])
      BY <2>2, <3>2
    <3>5. \A i \in 1 .. n + 1 : messages_received_'[i] = sent[i]
      <4>1. \A i \in 1 .. n : messages_received_'[i] = messages_received_[i]
        BY <1>1, <2>2, AppendProperties
      <4>2. messages_received_'[n + 1] = b
        BY <1>1, <2>2, AppendProperties
      <4> QED BY <1>1, <3>1, <3>2, <4>1, <4>2 DEF Faithful
    <3>6. Faithful'
      BY <1>1, <2>1, <2>3, <3>2, <3>5 DEF Faithful
    <3> QED BY <1>1, <3>2, <3>3, <3>4, <3>6 DEF Aligned
  <2> QED BY <2>4, <2>5
<1> QED BY <1>2, <1>3

LEMMA AlignedStep ==
  ASSUME FilterInv, FilterInv', Aligned, [Next]_vars
  PROVE  Aligned'
<1>1. CASE handle_read
  BY <1>1, ReadsAlign DEF FilterInv
<1>2. CASE ~handle_read
  <2>1. UNCHANGED <<messages_received_, header_read_, header_>>
    BY <1>2, OtherSteps
  <2>2. /\ Len(sent) <= Len(sent') /\ \A i \in 1 .. Len(sent) : sent'[i] = sent[i]
        /\ intact' = intact \/ intact = Len(sent)
        /\ intact <= intact'
    <3>1. Len(sent) \in Nat /\ Len(sent') \in Nat /\ intact \in Nat
      BY LenProperties DEF FilterInv, HistoryOK
    <3>2. UNCHANGED <<sent, intact>> \/ Posts
      BY <1>2, OtherSteps
    <3>3. CASE UNCHANGED <<sent, intact>>
      BY <3>1, <3>3
    <3>4. CASE Posts
      BY <3>1, <3>4, PostsSend
    <3> QED BY <3>2, <3>3, <3>4
  <2> QED BY <2>1, <2>2, AlignedStays
<1> QED BY <1>1, <1>2

LEMMA StreamStep ==
  ASSUME FilterInv, FilterInv', Aligned, [Next]_vars
  PROVE  [Stream!Next]_(Stream!vars)
<1>1. CASE handle_read
  <2> DEFINE n == Len(messages_received_)
  <2>1. n \in Nat /\ messages_received_ \in Seq(Bytes)
    BY LenProperties DEF FilterInv, HistoryOK
  <2>2. UNCHANGED <<sent, broken, intact>>
    BY <1>1, ReadsAlign DEF FilterInv
  <2>3. CASE UNCHANGED messages_received_
    BY <2>2, <2>3 DEF Stream!vars
  <2>4. CASE /\ \A i \in 1 .. n + 1 : Representable(sent[i])
             /\ n + 1 <= intact
             /\ messages_received_' = Append(messages_received_, sent[n + 1])
    <3>1. Stream!Sound(n + 1)
      BY <2>4 DEF Stream!Sound
    <3>2. Stream!Deliver
      BY <2>2, <2>4, <3>1 DEF Stream!Deliver
    <3> QED BY <3>2 DEF Stream!Next
  <2>5. CASE /\ Stream!Misleads
             /\ \E m \in Bytes : messages_received_' = Append(messages_received_, m)
    <3>1. PICK m \in Bytes : messages_received_' = Append(messages_received_, m)
      BY <2>5
    <3>2. Len(messages_received_') = n + 1
      BY <2>1, <3>1, AppendProperties
    <3>3. SubSeq(messages_received_', 1, n) = messages_received_
      <4>1. Append(messages_received_, m) = messages_received_ \o <<m>> /\ <<m>> \in Seq(Bytes)
        BY <2>1, AppendIsConcat
      <4>2. n \in 0 .. n
        BY <2>1
      <4>3. SubSeq(messages_received_ \o <<m>>, 1, n) = SubSeq(messages_received_, 1, n)
        BY <2>1, <4>1, <4>2, FrontOfConcat
      <4> QED BY <2>1, <3>1, <4>1, <4>3, SubSeqFull
    <3>4. Stream!DeliverAnything
      BY <2>2, <2>5, <3>2, <3>3 DEF Stream!DeliverAnything
    <3> QED BY <3>4 DEF Stream!Next
  <2> QED BY <1>1, <2>3, <2>4, <2>5, ReadsAlign DEF FilterInv
<1>2. CASE ~handle_read
  <2>1. UNCHANGED messages_received_
    BY <1>2, OtherSteps
  <2>2. UNCHANGED <<sent, intact, broken>> \/ (breaks /\ UNCHANGED <<sent, intact>>) \/ Posts
    BY <1>2, OtherSteps
  <2>3. CASE UNCHANGED <<sent, intact, broken>>
    BY <2>1, <2>3 DEF Stream!vars
  <2>4. CASE breaks /\ UNCHANGED <<sent, intact>>
    BY <2>1, <2>4 DEF breaks, Stream!Cut, Stream!Next
  <2>5. CASE Posts
    BY <2>1, <2>5, PostsSend DEF Stream!Next
  <2> QED BY <2>2, <2>3, <2>4, <2>5
<1> QED BY <1>1, <1>2

\* The bytes implement the stream: every step of the two sessions delivers the
\* next message that was sent, sends, cuts the connection or shows nothing,
\* until a header has been read that cannot hold its message's size or that lies
\* behind a batch that lost bytes, as none does whose size an int can hold.
\* (That a message does arrive is left to TLC.)
THEOREM FilterImplementsStream == Spec => Stream!Init /\ [][Stream!Next]_(Stream!vars)
<1>1. Init => FilterInv /\ Aligned /\ Stream!Init
  BY FilterInitially, AlignedInitially DEF Init, Stream!Init
<1>2. FilterInv /\ Aligned /\ [Next]_vars => (FilterInv /\ Aligned)'
  BY FilterInductive, AlignedStep
<1>3. FilterInv /\ FilterInv' /\ Aligned /\ [Next]_vars => [Stream!Next]_(Stream!vars)
  BY StreamStep
<1> QED BY <1>1, <1>2, <1>3, FilterInvariance, PTL DEF Spec
=============================================================================
