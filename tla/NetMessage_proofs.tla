-------------------------- MODULE NetMessage_proofs --------------------------
(***************************************************************************)
(* A message buffer is a queue of bytes, for any number of objects, an     *)
(* array of any size and any data.                                         *)
(***************************************************************************)
EXTENDS NetMessage, SequenceLemmas

RecordOK(r) ==
  /\ r \in Members
  /\ r.is_dynmic_ => r.dynamic_data_ # nullptr
  /\ r.reader_pos_ <= r.writer_pos_ /\ r.writer_pos_ <= Len(storage(r))

ObjectsOK == message \in [Object -> Members] /\ \A a \in Object : RecordOK(message[a])

LEMMA TypeParts == MessageTypeOK <=> ObjectsOK /\ moved \in Seq(Byte)
BY DEF MessageTypeOK, ObjectsOK, RecordOK

----------------------------------------------------------------------------
(* Slices.                                                                 *)

LEMMA Slice ==
  ASSUME NEW S, NEW s \in Seq(S), NEW i \in Nat, NEW j \in Nat, i <= j, j <= Len(s)
  PROVE  /\ SubSeq(s, i + 1, j) \in Seq(S)
         /\ Len(SubSeq(s, i + 1, j)) = j - i
         /\ \A k \in 1 .. j - i : SubSeq(s, i + 1, j)[k] = s[i + k]
<1> DEFINE r == SubSeq(s, i + 1, j)
<1>1. /\ i + 1 \in Int /\ j \in Int /\ Len(s) \in Nat
      /\ \A k \in i + 1 .. j : s[k] \in S
  BY LenProperties, ElementOfSeq
<1>2. r \in Seq(S)
  BY <1>1, SubSeqProperties
<1>3. Len(r) = IF i + 1 <= j THEN j - (i + 1) + 1 ELSE 0
  BY <1>1, SubSeqProperties
<1>4. \A k \in 1 .. j - (i + 1) + 1 : r[k] = s[i + 1 + k - 1]
  BY <1>1, SubSeqProperties
<1>5. Len(r) = j - i
  BY <1>3
<1>6. j - (i + 1) + 1 = j - i /\ \A k \in 1 .. j - i : i + 1 + k - 1 = i + k
  OBVIOUS
<1>7. \A k \in 1 .. j - i : r[k] = s[i + k]
  BY <1>4, <1>6
<1> QED BY <1>2, <1>5, <1>7

LEMMA StorageOf ==
  ASSUME NEW r, RecordOK(r)
  PROVE  /\ storage(r) \in Seq(Byte) /\ Len(storage(r)) \in Nat
         /\ r.is_dynmic_ \in BOOLEAN
         /\ ~r.is_dynmic_ => Len(storage(r)) = kDynamicThreshold
         /\ r.reader_pos_ \in Nat /\ r.writer_pos_ \in Nat
         /\ r.reader_pos_ <= r.writer_pos_ /\ r.writer_pos_ <= Len(storage(r))
<1>1. /\ r.dynamic_data_ \in Seq(Byte) \cup {nullptr}
      /\ r.static_data_ \in [1 .. kDynamicThreshold -> Byte]
      /\ r.is_dynmic_ \in BOOLEAN /\ r.reader_pos_ \in Nat /\ r.writer_pos_ \in Nat
  BY DEF RecordOK, Members
<1>2. r.static_data_ \in Seq(Byte) /\ Len(r.static_data_) = kDynamicThreshold
  <2> DEFINE s == r.static_data_
  <2>1. s \in [1 .. kDynamicThreshold -> Byte] /\ kDynamicThreshold \in Nat
    BY <1>1, MessageAssumption
  <2> HIDE DEF s
  <2>2. s \in Seq(Byte)
    BY <2>1, SeqDef
  <2>3. Len(s) = kDynamicThreshold
    BY <2>1, <2>2, LenProperties
  <2> QED BY <2>2, <2>3 DEF s
<1>3. storage(r) \in Seq(Byte)
  BY <1>1, <1>2 DEF RecordOK, storage
<1>4. ~r.is_dynmic_ => Len(storage(r)) = kDynamicThreshold
  BY <1>2 DEF storage
<1>5. Len(storage(r)) \in Nat
  BY <1>3, LenProperties
<1> QED BY <1>1, <1>3, <1>4, <1>5 DEF RecordOK

LEMMA ContentOf ==
  ASSUME NEW r, RecordOK(r)
  PROVE  /\ content(r) \in Seq(Byte) /\ Len(content(r)) = readable(r) /\ readable(r) \in Nat
         /\ \A k \in 1 .. readable(r) : content(r)[k] = storage(r)[r.reader_pos_ + k]
<1> DEFINE s == storage(r)
           p == r.reader_pos_
           q == r.writer_pos_
<1>1. s \in Seq(Byte) /\ p \in Nat /\ q \in Nat /\ p <= q /\ q <= Len(s)
  BY StorageOf
<1>2. content(r) = SubSeq(s, p + 1, q) /\ readable(r) = q - p
  BY DEF content, readable
<1> HIDE DEF s, p, q
<1>3. q - p \in Nat
  BY <1>1
<1>4. SubSeq(s, p + 1, q) \in Seq(Byte)
  BY <1>1, Slice
<1>5. Len(SubSeq(s, p + 1, q)) = q - p
  BY <1>1, Slice
<1>6. \A k \in 1 .. q - p : SubSeq(s, p + 1, q)[k] = s[p + k]
  BY <1>1, Slice
<1> QED BY <1>2, <1>3, <1>4, <1>5, <1>6 DEF s, p

\* An object can have this storage and these positions, and has them.
Fits(r, s, p, q) ==
  /\ s \in Seq(Byte) /\ p \in Nat /\ q \in Nat /\ p <= q /\ q <= Len(s)
  /\ r.is_dynmic_ \/ Len(s) = kDynamicThreshold

Holds(t, s, p, q) ==
  RecordOK(t) /\ storage(t) = s /\ t.reader_pos_ = p /\ t.writer_pos_ = q

LEMMA Stored ==
  ASSUME NEW r, RecordOK(r), NEW s, NEW p, NEW q, Fits(r, s, p, q)
  PROVE  Holds([with_storage(r, s) EXCEPT !.reader_pos_ = p, !.writer_pos_ = q], s, p, q)
<1> DEFINE t == [with_storage(r, s) EXCEPT !.reader_pos_ = p, !.writer_pos_ = q]
<1>1. /\ r \in Members /\ r.is_dynmic_ \in BOOLEAN
      /\ s \in Seq(Byte) /\ p \in Nat /\ q \in Nat /\ p <= q /\ q <= Len(s)
  BY DEF RecordOK, Members, Fits
<1>2. CASE r.is_dynmic_
  <2>1. t = [r EXCEPT !.dynamic_data_ = s, !.reader_pos_ = p, !.writer_pos_ = q]
    BY <1>1, <1>2 DEF with_storage, Members
  <2> HIDE DEF t
  <2>2. /\ t \in Members /\ t.dynamic_data_ = s /\ t.reader_pos_ = p /\ t.writer_pos_ = q
        /\ t.is_dynmic_
    BY <1>1, <1>2, <2>1 DEF Members
  <2>3. s # nullptr /\ storage(t) = s
    BY <1>1, <2>2, MessageAssumption DEF storage
  <2>4. Holds(t, s, p, q)
    BY <1>1, <1>2, <2>2, <2>3 DEF RecordOK, Holds
  <2> QED BY <2>4 DEF t
<1>3. CASE ~r.is_dynmic_
  <2>0. s \in [1 .. kDynamicThreshold -> Byte]
    BY <1>1, <1>3, LenProperties DEF Fits
  <2>1. t = [r EXCEPT !.static_data_ = s, !.reader_pos_ = p, !.writer_pos_ = q]
    BY <1>1, <1>3 DEF with_storage, Members
  <2> HIDE DEF t
  <2>2. /\ t \in Members /\ t.static_data_ = s /\ t.reader_pos_ = p /\ t.writer_pos_ = q
        /\ ~t.is_dynmic_
    BY <1>1, <1>3, <2>0, <2>1 DEF Members
  <2>3. storage(t) = s
    BY <2>2 DEF storage
  <2>4. Holds(t, s, p, q)
    BY <1>1, <2>2, <2>3 DEF RecordOK, Holds
  <2> QED BY <2>4 DEF t
<1> QED BY <1>1, <1>2, <1>3

\* The same, when the read position stays.
LEMMA StoredBehind ==
  ASSUME NEW r, RecordOK(r), NEW s, NEW q, Fits(r, s, r.reader_pos_, q)
  PROVE  Holds([with_storage(r, s) EXCEPT !.writer_pos_ = q], s, r.reader_pos_, q)
<1> DEFINE p == r.reader_pos_
<1>1. r \in Members /\ r.is_dynmic_ \in BOOLEAN /\ p \in Nat
  BY DEF RecordOK, Members
<1>2. [with_storage(r, s) EXCEPT !.writer_pos_ = q]
        = [with_storage(r, s) EXCEPT !.reader_pos_ = p, !.writer_pos_ = q]
  <2>1. CASE r.is_dynmic_
    BY <1>1, <2>1 DEF with_storage, Members
  <2>2. CASE ~r.is_dynmic_
    <3>1. s \in [1 .. kDynamicThreshold -> Byte]
      BY <2>2, LenProperties DEF Fits
    <3> QED BY <1>1, <2>2, <3>1 DEF with_storage, Members
  <2> QED BY <1>1, <2>1, <2>2
<1>3. Fits(r, s, p, q)
  OBVIOUS
<1> HIDE DEF p
<1>4. Holds([with_storage(r, s) EXCEPT !.reader_pos_ = p, !.writer_pos_ = q], s, p, q)
  BY <1>3, Stored
<1> QED BY <1>2, <1>4 DEF p

LEMMA ContentIs ==
  ASSUME NEW t, RecordOK(t), NEW c \in Seq(Byte), Len(c) = t.writer_pos_ - t.reader_pos_,
         \A k \in 1 .. Len(c) : storage(t)[t.reader_pos_ + k] = c[k]
  PROVE  content(t) = c
<1>1. /\ content(t) \in Seq(Byte) /\ Len(content(t)) = readable(t)
      /\ \A k \in 1 .. readable(t) : content(t)[k] = storage(t)[t.reader_pos_ + k]
  BY ContentOf
<1>2. readable(t) = Len(c)
  BY DEF readable
<1> QED BY <1>1, <1>2, SeqEqual

----------------------------------------------------------------------------
(* Space.                                                                  *)

Keeps(r, t) == RecordOK(t) /\ content(t) = content(r) /\ readable(t) = readable(r)

LEMMA Zeros ==
  ASSUME NEW n \in Nat
  PROVE  zeros(n) \in Seq(Byte) /\ Len(zeros(n)) = n
<1> DEFINE z == zeros(n)
<1>1. 0 \in Byte
  BY MessageAssumption
<1>2. z \in [1 .. n -> Byte]
  BY <1>1 DEF zeros
<1> HIDE DEF z
<1>3. z \in Seq(Byte)
  BY <1>2, SeqDef
<1>4. Len(z) = n
  BY <1>2, <1>3, LenProperties
<1> QED BY <1>3, <1>4 DEF z

LEMMA SetDynamicKeeps ==
  ASSUME NEW r, RecordOK(r)
  PROVE  /\ Keeps(r, set_dynamic(r)) /\ set_dynamic(r).is_dynmic_
<1> DEFINE t == set_dynamic(r)
           c == content(r)
           n == readable(r)
           z == zeros(n)
           s == c \o z
<1>1. r \in Members /\ c \in Seq(Byte) /\ n \in Nat /\ Len(c) = n /\ z \in Seq(Byte) /\ Len(z) = n
  BY ContentOf, Zeros DEF RecordOK
<1>2. CASE r.is_dynmic_
  BY <1>2 DEF set_dynamic, Keeps
<1>3. CASE ~r.is_dynmic_
  <2>1. t = [r EXCEPT !.is_dynmic_ = TRUE, !.dynamic_data_ = s,
                      !.reader_pos_ = 0, !.writer_pos_ = n]
    BY <1>3 DEF set_dynamic
  <2> HIDE DEF t, c, z, n
  <2>2. s \in Seq(Byte)
    BY <1>1, ConcatProperties
  <2>3. Len(s) = Len(c) + Len(z)
    BY <1>1, ConcatProperties
  <2>4. \A k \in 1 .. Len(c) + Len(z) : s[k] = IF k <= Len(c) THEN c[k] ELSE z[k - Len(c)]
    BY <1>1, ConcatProperties
  <2>5. n <= Len(s) /\ \A k \in 1 .. Len(c) : s[0 + k] = c[k]
    BY <1>1, <2>3, <2>4
  <2> HIDE DEF s
  <2>6. /\ t \in Members /\ t.is_dynmic_ /\ t.dynamic_data_ = s
        /\ t.reader_pos_ = 0 /\ t.writer_pos_ = n
    BY <1>1, <2>1, <2>2 DEF Members
  <2>7. storage(t) = s /\ s # nullptr
    BY <2>2, <2>6, MessageAssumption DEF storage
  <2>8. RecordOK(t)
    BY <1>1, <2>5, <2>6, <2>7 DEF RecordOK
  <2>9. content(t) = c
    BY <1>1, <2>5, <2>6, <2>7, <2>8, ContentIs
  <2>10. readable(t) = n
    BY <1>1, <2>6 DEF readable
  <2> QED BY <2>6, <2>8, <2>9, <2>10 DEF Keeps, c, n, t
<1> QED BY <1>2, <1>3

LEMMA Resized ==
  ASSUME NEW s \in Seq(Byte), NEW n \in Nat
  PROVE  /\ resize(s, n) \in Seq(Byte) /\ Len(resize(s, n)) = n
         /\ \A k \in 1 .. n : k <= Len(s) => resize(s, n)[k] = s[k]
<1> DEFINE z == resize(s, n)
<1>1. 0 \in Byte
  BY MessageAssumption
<1>2. \A k \in 1 .. n : k <= Len(s) => s[k] \in Byte
  BY LenProperties, ElementOfSeq
<1>3. z \in [1 .. n -> Byte]
  BY <1>1, <1>2 DEF resize
<1>4. \A k \in 1 .. n : k <= Len(s) => z[k] = s[k]
  BY DEF resize
<1> HIDE DEF z
<1>5. z \in Seq(Byte)
  BY <1>3, SeqDef
<1>6. Len(z) = n
  BY <1>3, <1>5, LenProperties
<1> QED BY <1>4, <1>5, <1>6 DEF z

LEMMA CompactedKeeps ==
  ASSUME NEW r, RecordOK(r)
  PROVE  /\ Keeps(r, compacted(r))
         /\ writeable(compacted(r)) = writeable(r) + prependable(r)
<1> DEFINE s == storage(r)
           n == readable(r)
           p == r.reader_pos_
           kept == [i \in 1 .. Len(s) |-> IF i <= n THEN s[p + i] ELSE s[i]]
           t == compacted(r)
           c == content(r)
<1>1. /\ s \in Seq(Byte) /\ Len(s) \in Nat /\ n \in Nat /\ p \in Nat
      /\ n = r.writer_pos_ - p /\ r.writer_pos_ \in Nat /\ r.writer_pos_ <= Len(s)
      /\ ~r.is_dynmic_ => Len(s) = kDynamicThreshold
      /\ r.is_dynmic_ \in BOOLEAN
  BY StorageOf DEF readable
<1>2. c \in Seq(Byte) /\ Len(c) = n /\ \A k \in 1 .. n : c[k] = s[p + k]
  BY ContentOf
<1>3. t = [with_storage(r, kept) EXCEPT !.reader_pos_ = 0, !.writer_pos_ = n]
  BY DEF compacted
<1> HIDE DEF s, n, p, t, c
<1>4. \A i \in 1 .. Len(s) : (i <= n => p + i \in 1 .. Len(s)) /\ s[i] \in Byte
  BY <1>1, LenProperties, ElementOfSeq
<1>5. kept \in [1 .. Len(s) -> Byte]
  BY <1>1, <1>4, ElementOfSeq
<1>6. n <= Len(s) /\ \A k \in 1 .. n : kept[0 + k] = c[k]
  BY <1>1, <1>2
<1> HIDE DEF kept
<1>7. kept \in Seq(Byte)
  BY <1>1, <1>5, SeqDef
<1>8. Len(kept) = Len(s)
  BY <1>1, <1>5, <1>7, LenProperties
<1>9. RecordOK(t) /\ storage(t) = kept /\ t.reader_pos_ = 0 /\ t.writer_pos_ = n
  <2>1. Fits(r, kept, 0, n)
    BY <1>1, <1>6, <1>7, <1>8 DEF Fits
  <2>2. Holds(t, kept, 0, n)
    BY <1>3, <2>1, Stored
  <2> QED BY <2>2 DEF Holds
<1>10. content(t) = c
  <2>1. Len(c) = t.writer_pos_ - t.reader_pos_
    BY <1>1, <1>2, <1>9
  <2>2. \A k \in 1 .. Len(c) : storage(t)[t.reader_pos_ + k] = c[k]
    BY <1>2, <1>6, <1>9
  <2>3. RecordOK(t) /\ c \in Seq(Byte)
    BY <1>2, <1>9
  <2> QED BY <2>1, <2>2, <2>3, ContentIs
<1>11. readable(t) = n /\ writeable(t) = Len(s) - n
  BY <1>1, <1>8, <1>9 DEF readable, writeable
<1>12. writeable(r) + prependable(r) = Len(s) - n
  BY <1>1 DEF writeable, prependable, s, p
<1> QED BY <1>9, <1>10, <1>11, <1>12 DEF Keeps, t, c, n

\* Room is made without a change to the content.
LEMMA EnsureKeeps ==
  ASSUME NEW r, RecordOK(r), NEW size \in Nat
  PROVE  /\ Keeps(r, ensure_writable_bytes(r, size))
         /\ writeable(ensure_writable_bytes(r, size)) >= size
<1>1. writeable(r) \in Nat /\ prependable(r) \in Nat
  BY StorageOf DEF writeable, prependable
<1>2. CASE ~(writeable(r) < size)
  <2>1. ensure_writable_bytes(r, size) = r
    BY <1>2 DEF ensure_writable_bytes
  <2> QED BY <1>1, <1>2, <2>1 DEF Keeps
<1>3. CASE writeable(r) < size /\ ~(writeable(r) + prependable(r) < size)
  <2>1. ensure_writable_bytes(r, size) = compacted(r)
    BY <1>3 DEF ensure_writable_bytes, make_space
  <2> QED BY <1>1, <1>3, <2>1, CompactedKeeps
<1>4. CASE writeable(r) < size /\ writeable(r) + prependable(r) < size
  <2> DEFINE d == set_dynamic(r)
             s == storage(d)
             w == d.writer_pos_
             z == resize(s, w + size)
             t == ensure_writable_bytes(r, size)
  <2>1. RecordOK(d) /\ d.is_dynmic_ /\ Keeps(r, d)
    BY SetDynamicKeeps DEF Keeps
  <2>2. s \in Seq(Byte) /\ s = d.dynamic_data_ /\ w \in Nat /\ w <= Len(s)
    BY <2>1, StorageOf DEF storage
  <2>3. t = [d EXCEPT !.dynamic_data_ = z]
    BY <1>4, <2>1 DEF ensure_writable_bytes, make_space, storage
  <2> HIDE DEF d
  <2>4. t = [with_storage(d, z) EXCEPT !.writer_pos_ = w]
    BY <2>1, <2>3 DEF with_storage, RecordOK, Members
  <2>5. w + size \in Nat /\ z \in Seq(Byte) /\ Len(z) = w + size
    <3>1. w + size \in Nat
      BY <2>2
    <3>2. z \in Seq(Byte)
      BY <2>2, <3>1, Resized
    <3>3. Len(z) = w + size
      BY <2>2, <3>1, Resized
    <3> QED BY <3>1, <3>2, <3>3
  <2>6. \A k \in 1 .. w + size : k <= Len(s) => z[k] = s[k]
    BY <2>2, <2>5, Resized
  <2> HIDE DEF z, s, w, t
  <2>7. d.reader_pos_ \in Nat /\ d.reader_pos_ <= w /\ w <= Len(z)
    BY <2>1, <2>2, <2>5, StorageOf DEF w
  <2>8. RecordOK(t) /\ storage(t) = z /\ t.reader_pos_ = d.reader_pos_ /\ t.writer_pos_ = w
    <3>1. Fits(d, z, d.reader_pos_, w)
      BY <2>1, <2>2, <2>5, <2>7 DEF Fits
    <3>2. Holds(t, z, d.reader_pos_, w)
      BY <2>1, <2>4, <3>1, StoredBehind
    <3> QED BY <3>2 DEF Holds
  <2> DEFINE c == content(d)
  <2>9. /\ c \in Seq(Byte) /\ Len(c) = w - d.reader_pos_
        /\ \A k \in 1 .. Len(c) : c[k] = s[d.reader_pos_ + k]
    BY <2>1, ContentOf DEF readable, w, s
  <2> HIDE DEF c
  <2>10. \A k \in 1 .. Len(c) : z[d.reader_pos_ + k] = c[k]
    <3>1. \A k \in 1 .. Len(c) : d.reader_pos_ + k \in 1 .. w + size /\ d.reader_pos_ + k <= Len(s)
      BY SMTT(30), <2>2, <2>7, <2>9
    <3> QED BY <2>6, <2>9, <3>1
  <2>11. content(t) = c
    BY <2>8, <2>9, <2>10, ContentIs
  <2>12. readable(t) = readable(d) /\ writeable(t) = size
    BY <2>2, <2>5, <2>8 DEF readable, writeable, w
  <2> QED BY <2>1, <2>8, <2>11, <2>12 DEF Keeps, c, t
<1> QED BY <1>2, <1>3, <1>4

----------------------------------------------------------------------------
(* Writing.                                                                *)

\* f has the bytes of s up to w and the data behind them.
Extends(f, s, w, data) ==
  /\ \A k \in 1 .. w : f[k] = s[k]
  /\ \A k \in 1 .. Len(data) : f[w + k] = data[k]

Gains(r, t, data) == RecordOK(t) /\ content(t) = content(r) \o data

LEMMA Written ==
  ASSUME NEW e, RecordOK(e), NEW f, NEW data \in Seq(Byte),
         Fits(e, f, e.reader_pos_, e.writer_pos_ + Len(data)),
         Extends(f, storage(e), e.writer_pos_, data)
  PROVE  Gains(e, [with_storage(e, f) EXCEPT !.writer_pos_ = e.writer_pos_ + Len(data)], data)
<1> DEFINE s == storage(e)
           p == e.reader_pos_
           w == e.writer_pos_
           l == Len(data)
           c == content(e)
           q == w + l
           t == [with_storage(e, f) EXCEPT !.writer_pos_ = q]
           d == c \o data
<1>1. Holds(t, f, p, q)
  BY StoredBehind
<1>2. /\ p \in Nat /\ w \in Nat /\ p <= w /\ l \in Nat
      /\ c \in Seq(Byte) /\ Len(c) = w - p /\ \A k \in 1 .. w - p : c[k] = s[p + k]
  <2>1. p \in Nat /\ w \in Nat /\ p <= w /\ l \in Nat
    BY StorageOf, LenProperties
  <2>2. c \in Seq(Byte) /\ Len(c) = w - p /\ \A k \in 1 .. w - p : c[k] = s[p + k]
    BY ContentOf DEF readable
  <2> QED BY <2>1, <2>2
<1>3. \A k \in 1 .. w : f[k] = s[k]
  BY DEF Extends
<1>4. \A k \in 1 .. l : f[w + k] = data[k]
  BY DEF Extends
<1> HIDE DEF s, p, w, l, c, t
<1>5. d \in Seq(Byte)
  BY <1>2, ConcatProperties
<1>6. Len(d) = Len(c) + Len(data)
  BY <1>2, ConcatProperties
<1>7. \A k \in 1 .. Len(c) + Len(data) : d[k] = IF k <= Len(c) THEN c[k] ELSE data[k - Len(c)]
  BY <1>2, ConcatProperties
<1> HIDE DEF d
<1>8. \A k \in 1 .. Len(d) : f[p + k] = d[k]
  <2>1. SUFFICES ASSUME NEW k \in 1 .. Len(d) PROVE f[p + k] = d[k]
    OBVIOUS
  <2>2. k \in 1 .. (w - p) + l
    BY <1>2, <1>6 DEF l
  <2>3. CASE k <= w - p
    <3>1. p + k \in 1 .. w /\ k \in 1 .. w - p
      BY <1>2, <2>2, <2>3
    <3>2. f[p + k] = s[p + k] /\ c[k] = s[p + k]
      BY <1>2, <1>3, <3>1
    <3>3. d[k] = c[k]
      BY <1>2, <1>7, <2>2, <2>3 DEF l
    <3> QED BY <3>2, <3>3
  <2>4. CASE ~(k <= w - p)
    <3>1. k - (w - p) \in 1 .. l /\ w + (k - (w - p)) = p + k
      BY <1>2, <2>2, <2>4
    <3>2. f[p + k] = data[k - (w - p)]
      BY <1>4, <3>1
    <3>3. d[k] = data[k - (w - p)]
      BY <1>2, <1>7, <2>2, <2>4 DEF l
    <3> QED BY <3>2, <3>3
  <2> QED BY <2>3, <2>4
<1>9. Len(d) = t.writer_pos_ - t.reader_pos_
  BY <1>1, <1>2, <1>6 DEF Holds, l
<1>10. RecordOK(t) /\ storage(t) = f /\ t.reader_pos_ = p
  BY <1>1 DEF Holds
<1>11. content(t) = d
  BY <1>5, <1>8, <1>9, <1>10, ContentIs
<1>12. Gains(e, t, data)
  BY <1>10, <1>11 DEF Gains, d, c
<1> QED BY <1>12 DEF t, w, l

LEMMA OverwrittenExtends ==
  ASSUME NEW s \in Seq(Byte), NEW w \in Nat, NEW data \in Seq(Byte), w + Len(data) <= Len(s)
  PROVE  /\ overwritten(s, w, data) \in Seq(Byte)
         /\ Len(overwritten(s, w, data)) = Len(s)
         /\ Extends(overwritten(s, w, data), s, w, data)
<1> DEFINE f == overwritten(s, w, data)
           l == Len(data)
           n == Len(s)
<1>1. l \in Nat /\ n \in Nat /\ w + l <= n
  BY LenProperties
<1>2. /\ \A i \in 1 .. n : s[i] \in Byte
      /\ \A i \in 1 .. l : data[i] \in Byte
  BY ElementOfSeq
<1>3. \A i \in 1 .. n : f[i] = IF i \in w + 1 .. w + l THEN data[i - w] ELSE s[i]
  BY DEF overwritten
<1>4. f \in [1 .. n -> Byte]
  <2>1. ASSUME NEW i \in 1 .. n
        PROVE  (IF i \in w + 1 .. w + l THEN data[i - w] ELSE s[i]) \in Byte
    <3>1. CASE i \in w + 1 .. w + l
      <4>1. i - w \in 1 .. l
        BY <1>1, <3>1
      <4> QED BY <1>2, <3>1, <4>1
    <3>2. CASE i \notin w + 1 .. w + l
      BY <1>2, <3>2
    <3> QED BY <3>1, <3>2
  <2> QED BY <2>1 DEF overwritten
<1> HIDE DEF f, l, n
<1>5. f \in Seq(Byte)
  BY <1>1, <1>4, SeqDef
<1>6. Len(f) = n
  BY <1>1, <1>4, <1>5, LenProperties
<1>7. \A k \in 1 .. w : f[k] = s[k]
  BY <1>1, <1>3
<1>8. \A k \in 1 .. l : f[w + k] = data[k]
  <2>1. SUFFICES ASSUME NEW k \in 1 .. l PROVE f[w + k] = data[k]
    OBVIOUS
  <2>2. w + k \in 1 .. n /\ w + k \in w + 1 .. w + l /\ (w + k) - w = k
    BY <1>1
  <2> QED BY <1>3, <2>2
<1> QED BY <1>5, <1>6, <1>7, <1>8 DEF Extends, f, l, n

inserted(s, w, data) == SubSeq(s, 1, w) \o data \o SubSeq(s, w + 1, Len(s))

LEMMA InsertedExtends ==
  ASSUME NEW s \in Seq(Byte), NEW w \in Nat, NEW data \in Seq(Byte), w <= Len(s)
  PROVE  /\ inserted(s, w, data) \in Seq(Byte)
         /\ Len(inserted(s, w, data)) = Len(s) + Len(data)
         /\ Extends(inserted(s, w, data), s, w, data)
<1> DEFINE f == inserted(s, w, data)
           a == SubSeq(s, 1, w)
           b == SubSeq(s, w + 1, Len(s))
           n == Len(s)
           l == Len(data)
           g == a \o data
<1>1. n \in Nat /\ l \in Nat /\ w <= n
  BY LenProperties
<1>2. a \in Seq(Byte) /\ Len(a) = w /\ \A k \in 1 .. w : a[k] = s[k]
  <2>1. 0 \in Nat /\ 0 <= w /\ 0 + 1 = 1 /\ w - 0 = w
    OBVIOUS
  <2>2. SubSeq(s, 0 + 1, w) \in Seq(Byte)
    BY <2>1, Slice
  <2>3. Len(SubSeq(s, 0 + 1, w)) = w - 0
    BY <2>1, Slice
  <2>4. \A k \in 1 .. w - 0 : SubSeq(s, 0 + 1, w)[k] = s[0 + k]
    BY <2>1, Slice
  <2>5. \A k \in 1 .. w : 0 + k = k
    OBVIOUS
  <2> QED BY <2>1, <2>2, <2>3, <2>4, <2>5
<1>3. b \in Seq(Byte) /\ Len(b) = n - w
  <2>1. n <= Len(s) /\ n \in Nat /\ w <= n
    BY <1>1
  <2>2. b \in Seq(Byte)
    BY <2>1, Slice
  <2>3. Len(b) = n - w
    BY <2>1, Slice
  <2> QED BY <2>2, <2>3
<1>4. f = g \o b
  BY DEF inserted
<1> HIDE DEF a, b, f
<1>5. g \in Seq(Byte) /\ Len(g) = w + l
  <2>1. g \in Seq(Byte)
    BY <1>2, ConcatProperties
  <2>2. Len(g) = Len(a) + Len(data)
    BY <1>2, ConcatProperties
  <2> QED BY <1>2, <2>1, <2>2
<1>6. \A i \in 1 .. Len(a) + Len(data) : g[i] = IF i <= Len(a) THEN a[i] ELSE data[i - Len(a)]
  BY <1>2, ConcatProperties
<1> HIDE DEF g, n, l
<1>7. f \in Seq(Byte)
  BY <1>3, <1>4, <1>5, ConcatProperties
<1>8. Len(f) = Len(g) + Len(b)
  <2>1. Len(g \o b) = Len(g) + Len(b)
    BY <1>3, <1>5, ConcatProperties
  <2> QED BY <1>4, <2>1
<1>9. \A i \in 1 .. Len(g) + Len(b) : f[i] = IF i <= Len(g) THEN g[i] ELSE b[i - Len(g)]
  <2>1. \A i \in 1 .. Len(g) + Len(b) :
          (g \o b)[i] = IF i <= Len(g) THEN g[i] ELSE b[i - Len(g)]
    BY <1>3, <1>5, ConcatProperties
  <2> QED BY <1>4, <2>1
<1>10. Len(f) = n + l
  BY <1>1, <1>3, <1>5, <1>8
<1>11. \A i \in 1 .. w + l : f[i] = g[i]
  BY <1>1, <1>3, <1>5, <1>9
<1>12. \A k \in 1 .. w : f[k] = s[k]
  <2>1. SUFFICES ASSUME NEW k \in 1 .. w PROVE f[k] = s[k]
    OBVIOUS
  <2>2. k \in 1 .. w + l /\ k <= Len(a) /\ k \in 1 .. Len(a) + Len(data)
    BY <1>1, <1>2 DEF l
  <2> QED BY <1>2, <1>6, <1>11, <2>2
<1>13. \A k \in 1 .. l : f[w + k] = data[k]
  <2>1. SUFFICES ASSUME NEW k \in 1 .. l PROVE f[w + k] = data[k]
    OBVIOUS
  <2>2. /\ w + k \in 1 .. w + l /\ ~(w + k <= Len(a)) /\ w + k \in 1 .. Len(a) + Len(data)
        /\ (w + k) - Len(a) = k
    BY <1>1, <1>2 DEF l
  <2> QED BY <1>6, <1>11, <2>2
<1> QED BY <1>7, <1>10, <1>12, <1>13 DEF Extends, l, n, f

\* write puts the data behind the content, wherever the storage ends.
LEMMA WriteGains ==
  ASSUME NEW r, RecordOK(r), NEW data \in Seq(Byte)
  PROVE  Gains(r, write(r, data), data)
<1> DEFINE l == Len(data)
           e == ensure_writable_bytes(r, l)
           s == storage(e)
           w == e.writer_pos_
<1>1. l \in Nat
  BY LenProperties
<1>2. Keeps(r, e) /\ writeable(e) >= l
  BY <1>1, EnsureKeeps
<1> DEFINE f == IF e.is_dynmic_ THEN SubSeq(s, 1, w) \o data \o SubSeq(s, w + 1, Len(s))
                ELSE overwritten(s, w, data)
           t == [with_storage(e, f) EXCEPT !.writer_pos_ = w + l]
<1>3. write(r, data) = t
  BY DEF write
<1> HIDE DEF e
<1>4. /\ RecordOK(e) /\ s \in Seq(Byte) /\ Len(s) \in Nat /\ w \in Nat /\ w <= Len(s)
      /\ w + l <= Len(s) /\ e.is_dynmic_ \in BOOLEAN
      /\ ~e.is_dynmic_ => Len(s) = kDynamicThreshold
      /\ e.reader_pos_ \in Nat /\ e.reader_pos_ <= w
  <2>1. RecordOK(e)
    BY <1>2 DEF Keeps
  <2>2. /\ s \in Seq(Byte) /\ Len(s) \in Nat /\ w \in Nat /\ w <= Len(s)
        /\ e.is_dynmic_ \in BOOLEAN
        /\ ~e.is_dynmic_ => Len(s) = kDynamicThreshold
        /\ e.reader_pos_ \in Nat /\ e.reader_pos_ <= w
    BY <2>1, StorageOf
  <2>3. w + l <= Len(s)
    <3>1. Len(s) - w >= l
      BY <1>2 DEF writeable
    <3> HIDE DEF s, w, l
    <3> QED BY <1>1, <2>2, <3>1
  <2> HIDE DEF s, w, l
  <2> QED BY <2>1, <2>2, <2>3
<1>5. Fits(e, f, e.reader_pos_, w + l) /\ Extends(f, s, w, data)
  <2> HIDE DEF s, w
  <2>1. CASE e.is_dynmic_
    <3>1. f = inserted(s, w, data)
      BY <2>1 DEF inserted
    <3> HIDE DEF f
    <3>2. f \in Seq(Byte)
      BY <1>4, <3>1, InsertedExtends
    <3>3. Len(f) = Len(s) + Len(data)
      BY <1>4, <3>1, InsertedExtends
    <3>4. Extends(f, s, w, data)
      BY <1>4, <3>1, InsertedExtends
    <3>5. w + l \in Nat /\ e.reader_pos_ <= w + l /\ w + l <= Len(f)
      BY <1>1, <1>4, <3>3
    <3> QED BY <1>4, <2>1, <3>2, <3>4, <3>5 DEF Fits
  <2>2. CASE ~e.is_dynmic_
    <3>1. f = overwritten(s, w, data)
      BY <2>2
    <3> HIDE DEF f
    <3>2. f \in Seq(Byte)
      BY <1>4, <3>1, OverwrittenExtends
    <3>3. Len(f) = Len(s)
      BY <1>4, <3>1, OverwrittenExtends
    <3>4. Extends(f, s, w, data)
      BY <1>4, <3>1, OverwrittenExtends
    <3>5. w + l \in Nat /\ e.reader_pos_ <= w + l /\ w + l <= Len(f)
      BY <1>1, <1>4, <3>3
    <3> QED BY <1>4, <2>2, <3>2, <3>3, <3>4, <3>5 DEF Fits
  <2> QED BY <1>4, <2>1, <2>2
<1> HIDE DEF f
<1>6. Gains(e, t, data)
  BY <1>4, <1>5, Written
<1> QED BY <1>2, <1>3, <1>6 DEF Gains, Keeps

LEMMA HasWrittenGains ==
  ASSUME NEW r, RecordOK(r), NEW data \in Seq(Byte), writeable(r) >= Len(data)
  PROVE  Gains(r, has_written(r, data), data)
<1> DEFINE l == Len(data)
           s == storage(r)
           w == r.writer_pos_
           f == overwritten(s, w, data)
<1>1. /\ s \in Seq(Byte) /\ Len(s) \in Nat /\ w \in Nat /\ w <= Len(s) /\ l \in Nat
      /\ w + l <= Len(s) /\ r.is_dynmic_ \in BOOLEAN
      /\ ~r.is_dynmic_ => Len(s) = kDynamicThreshold
      /\ r.reader_pos_ \in Nat /\ r.reader_pos_ <= w
  BY StorageOf, LenProperties DEF writeable
<1>2. f \in Seq(Byte)
  BY <1>1, OverwrittenExtends
<1>3. Len(f) = Len(s)
  BY <1>1, OverwrittenExtends
<1>4. Extends(f, s, w, data)
  BY <1>1, OverwrittenExtends
<1>5. has_written(r, data) = [with_storage(r, f) EXCEPT !.writer_pos_ = w + l]
  <2>1. with_storage(r, f).writer_pos_ = w /\ r \in Members
    <3>1. r \in Members /\ r.is_dynmic_ \in BOOLEAN
      BY DEF RecordOK, Members
    <3>2. CASE r.is_dynmic_
      BY <3>1, <3>2 DEF with_storage, Members
    <3>3. CASE ~r.is_dynmic_
      BY <3>1, <3>3 DEF with_storage, Members
    <3> QED BY <3>1, <3>2, <3>3
  <2> QED BY <2>1 DEF has_written
<1> HIDE DEF f
<1>6. Fits(r, f, r.reader_pos_, w + l)
  BY <1>1, <1>2, <1>3 DEF Fits
<1>7. Gains(r, [with_storage(r, f) EXCEPT !.writer_pos_ = w + l], data)
  BY <1>4, <1>6, Written
<1> QED BY <1>5, <1>7

----------------------------------------------------------------------------
(* Reading.                                                                *)

LEMMA NoContent ==
  ASSUME NEW t, RecordOK(t), readable(t) = 0
  PROVE  content(t) = <<>>
<1>1. content(t) \in Seq(Byte) /\ Len(content(t)) = 0
  BY ContentOf
<1> QED BY <1>1, EmptySeq

LEMMA RetrieveAllEmpties ==
  ASSUME NEW r, RecordOK(r)
  PROVE  /\ RecordOK(retrieve_all(r)) /\ content(retrieve_all(r)) = <<>>
         /\ readable(retrieve_all(r)) = 0
         /\ retrieve_all(r).is_dynmic_ = r.is_dynmic_
         /\ retrieve_all(r).dynamic_data_ = r.dynamic_data_
<1> DEFINE t == retrieve_all(r)
<1>1. r \in Members
  BY DEF RecordOK
<1>2. /\ t \in Members /\ t.reader_pos_ = 0 /\ t.writer_pos_ = 0
      /\ t.is_dynmic_ = r.is_dynmic_ /\ t.dynamic_data_ = r.dynamic_data_
      /\ t.static_data_ = r.static_data_
  BY <1>1 DEF retrieve_all, Members
<1>3. Len(storage(r)) \in Nat
  BY StorageOf
<1> HIDE DEF t
<1>4. storage(t) = storage(r)
  BY <1>2 DEF storage
<1>5. RecordOK(t)
  BY <1>2, <1>3, <1>4 DEF RecordOK
<1>6. readable(t) = 0
  BY <1>2 DEF readable
<1> QED BY <1>2, <1>5, <1>6, NoContent DEF t

\* The array and what the memory behind it holds.
LEMMA MemoryOf ==
  ASSUME NEW r, RecordOK(r), NEW x \in Seq(Byte)
  PROVE  /\ storage(r) \o x \in Seq(Byte)
         /\ Len(storage(r) \o x) = Len(storage(r)) + Len(x)
         /\ Len(storage(r)) \in Nat /\ Len(x) \in Nat
         /\ \A k \in 1 .. Len(storage(r)) : (storage(r) \o x)[k] = storage(r)[k]
<1> DEFINE s == storage(r)
<1>1. s \in Seq(Byte) /\ Len(s) \in Nat /\ Len(x) \in Nat
  BY StorageOf, LenProperties
<1> HIDE DEF s
<1>2. \A k \in 1 .. Len(s) + Len(x) : (s \o x)[k] = IF k <= Len(s) THEN s[k] ELSE x[k - Len(s)]
  BY <1>1, ConcatProperties
<1>3. s \o x \in Seq(Byte)
  BY <1>1, ConcatProperties
<1>4. Len(s \o x) = Len(s) + Len(x)
  BY <1>1, ConcatProperties
<1>5. \A k \in 1 .. Len(s) : (s \o x)[k] = s[k]
  BY <1>1, <1>2
<1> QED BY <1>1, <1>3, <1>4, <1>5 DEF s

\* n bytes from the read position on.
LEMMA TakenOf ==
  ASSUME NEW r, RecordOK(r), NEW x \in Seq(Byte), NEW n \in Nat,
         r.reader_pos_ + n <= Len(storage(r) \o x)
  PROVE  /\ taken(r, x, n) \in Seq(Byte) /\ Len(taken(r, x, n)) = n
         /\ \A k \in 1 .. n : taken(r, x, n)[k] = (storage(r) \o x)[r.reader_pos_ + k]
<1> DEFINE s == storage(r) \o x
           p == r.reader_pos_
           q == p + n
<1>1. s \in Seq(Byte) /\ p \in Nat /\ q \in Nat /\ p <= q /\ q <= Len(s) /\ q - p = n
  BY StorageOf, MemoryOf
<1>2. taken(r, x, n) = SubSeq(s, p + 1, q)
  BY DEF taken
<1> HIDE DEF s, p, q
<1>3. SubSeq(s, p + 1, q) \in Seq(Byte)
  BY <1>1, Slice
<1>4. Len(SubSeq(s, p + 1, q)) = q - p
  BY <1>1, Slice
<1>5. \A k \in 1 .. q - p : SubSeq(s, p + 1, q)[k] = s[p + k]
  BY <1>1, Slice
<1> QED BY <1>1, <1>2, <1>3, <1>4, <1>5 DEF s, p

\* Up to the end of the array they are its bytes.
LEMMA TakenInside ==
  ASSUME NEW r, RecordOK(r), NEW x \in Seq(Byte), NEW n \in Nat,
         r.reader_pos_ + n <= Len(storage(r))
  PROVE  /\ taken(r, x, n) \in Seq(Byte) /\ Len(taken(r, x, n)) = n
         /\ \A k \in 1 .. n : taken(r, x, n)[k] = storage(r)[r.reader_pos_ + k]
<1> DEFINE s == storage(r)
           p == r.reader_pos_
           m == taken(r, x, n)
<1>1. /\ Len(s \o x) = Len(s) + Len(x) /\ Len(s) \in Nat /\ Len(x) \in Nat
      /\ \A k \in 1 .. Len(s) : (s \o x)[k] = s[k]
  BY MemoryOf
<1>2. p \in Nat /\ p + n <= Len(s)
  BY StorageOf
<1>3. p + n <= Len(s \o x)
  <2> HIDE DEF s, p
  <2> QED BY <1>1, <1>2
<1>4. m \in Seq(Byte) /\ Len(m) = n /\ \A k \in 1 .. n : m[k] = (s \o x)[p + k]
  BY <1>3, TakenOf
<1> HIDE DEF s, p, m
<1>5. \A k \in 1 .. n : p + k \in 1 .. Len(s)
  BY <1>1, <1>2
<1>6. \A k \in 1 .. n : m[k] = s[p + k]
  BY <1>1, <1>4, <1>5
<1> QED BY <1>4, <1>6 DEF s, p, m

Yields(r, t, m) ==
  RecordOK(t) /\ m \in Seq(Byte) /\ content(r) = m \o content(t)

\* What is read is at the front, and gone.
LEMMA RetrieveYields ==
  ASSUME NEW r, RecordOK(r), NEW x \in Seq(Byte), NEW n \in 0 .. readable(r)
  PROVE  /\ Yields(r, retrieve(r, n), taken(r, x, n))
         /\ Len(taken(r, x, n)) = n /\ readable(retrieve(r, n)) = readable(r) - n
<1> DEFINE t == retrieve(r, n)
           c == content(r)
           m == taken(r, x, n)
           p == r.reader_pos_
           l == readable(r)
           s == storage(r)
<1>1. /\ p \in Nat /\ l \in Nat /\ n \in Nat /\ n <= l /\ p + n <= Len(s)
      /\ r.writer_pos_ = p + l /\ p + l <= Len(s) /\ Len(s) \in Nat /\ r.writer_pos_ \in Nat
  BY StorageOf, ContentOf DEF readable
<1>2. c \in Seq(Byte) /\ Len(c) = l /\ \A k \in 1 .. l : c[k] = s[p + k]
  BY ContentOf
<1>3. m \in Seq(Byte)
  BY <1>1, TakenInside
<1>4. Len(m) = n
  BY <1>1, TakenInside
<1>5. \A k \in 1 .. n : m[k] = s[p + k]
  BY <1>1, TakenInside
<1>6. RecordOK(t) /\ readable(t) = l - n /\ (n < l => storage(t) = s /\ t.reader_pos_ = p + n)
  <2>1. CASE n < l
    <3>1. t = [r EXCEPT !.reader_pos_ = p + n] /\ r \in Members
      BY <1>1, <2>1 DEF retrieve, RecordOK, Members
    <3> HIDE DEF t, p, l
    <3>2. /\ t \in Members /\ t.reader_pos_ = p + n /\ t.writer_pos_ = r.writer_pos_
          /\ t.is_dynmic_ = r.is_dynmic_ /\ t.dynamic_data_ = r.dynamic_data_
          /\ t.static_data_ = r.static_data_
      BY SMTT(30), <1>1, <3>1 DEF Members
    <3>3. storage(t) = s
      BY <3>2 DEF storage
    <3>4. RecordOK(t)
      BY <1>1, <2>1, <3>2, <3>3 DEF RecordOK
    <3>5. readable(t) = l - n
      BY <1>1, <3>2 DEF readable
    <3> QED BY <3>2, <3>3, <3>4, <3>5
  <2>2. CASE ~(n < l)
    <3>1. t = retrieve_all(r)
      BY <1>1, <2>2 DEF retrieve
    <3>2. l - n = 0
      BY <1>1, <2>2
    <3> QED BY <2>2, <3>1, <3>2, RetrieveAllEmpties
  <2> QED BY <2>1, <2>2
<1> DEFINE d == content(t)
<1>7. /\ d \in Seq(Byte) /\ Len(d) = l - n
      /\ \A k \in 1 .. l - n : d[k] = s[p + n + k]
  <2> HIDE DEF t, l, s, p
  <2>1. d \in Seq(Byte) /\ Len(d) = readable(t)
    BY <1>6, ContentOf
  <2>2. \A k \in 1 .. readable(t) : d[k] = storage(t)[t.reader_pos_ + k]
    BY <1>6, ContentOf
  <2>3. ASSUME NEW k \in 1 .. l - n PROVE d[k] = s[p + n + k]
    <3>1. n < l
      BY <1>1
    <3> QED BY <1>6, <2>2, <3>1
  <2> QED BY <1>6, <2>1, <2>3
<1> HIDE DEF t, c, m, p, l, s, d
<1> DEFINE e == m \o d
<1>8. e \in Seq(Byte)
  BY <1>3, <1>7, ConcatProperties
<1>9. Len(e) = Len(m) + Len(d)
  BY <1>3, <1>7, ConcatProperties
<1>10. \A k \in 1 .. Len(m) + Len(d) : e[k] = IF k <= Len(m) THEN m[k] ELSE d[k - Len(m)]
  BY <1>3, <1>7, ConcatProperties
<1> HIDE DEF e
<1>11. Len(e) = Len(c)
  BY <1>1, <1>2, <1>4, <1>7, <1>9
<1>12. \A k \in 1 .. Len(c) : c[k] = e[k]
  <2>1. SUFFICES ASSUME NEW k \in 1 .. l PROVE c[k] = e[k]
    BY <1>2
  <2>2. k \in 1 .. Len(m) + Len(d)
    BY <1>1, <1>4, <1>7
  <2>3. CASE k <= n
    <3>1. k \in 1 .. n
      BY <1>1, <2>3
    <3>2. e[k] = m[k]
      BY <1>4, <1>10, <2>2, <2>3
    <3> QED BY <1>2, <1>5, <3>1, <3>2
  <2>4. CASE ~(k <= n)
    <3>1. k - n \in 1 .. l - n /\ p + n + (k - n) = p + k
      BY <1>1, <2>4
    <3>2. e[k] = d[k - n]
      BY <1>4, <1>10, <2>2, <2>4
    <3>3. d[k - n] = s[p + k]
      BY <1>7, <3>1
    <3> QED BY <1>2, <3>2, <3>3
  <2> QED BY <2>3, <2>4
<1>13. c = e
  BY <1>2, <1>8, <1>11, <1>12, SeqEqual
<1> QED BY <1>3, <1>4, <1>6, <1>13 DEF Yields, t, c, m, l, d, e

\* More is read than there is.
Exceeds(r, t, m) ==
  /\ RecordOK(t) /\ m \in Seq(Byte) /\ content(t) = <<>>
  /\ \E y \in Seq(Byte) : y # <<>> /\ m = content(r) \o y

Reads(r, t, m) == Yields(r, t, m) \/ Exceeds(r, t, m)

LEMMA HeaderOf ==
  ASSUME NEW h \in Seq(Byte), NEW z \in Seq(Byte)
  PROVE  /\ SubSeq(h \o z, 1, Len(h)) = h /\ Len(h) <= Len(h \o z)
         /\ z # <<>> => Len(h) < Len(h \o z)
<1>1. Len(h) \in Nat /\ Len(z) \in Nat /\ Len(h \o z) = Len(h) + Len(z)
  BY LenProperties, ConcatProperties
<1>2. Len(h) \in 0 .. Len(h)
  BY <1>1
<1>3. SubSeq(h \o z, 1, Len(h)) = SubSeq(h, 1, Len(h))
  BY <1>2, FrontOfConcat
<1>4. SubSeq(h, 1, Len(h)) = h
  BY SubSeqFull
<1>5. z # <<>> => Len(z) > 0
  BY <1>1, EmptySeq
<1>6. Len(h) <= Len(h \o z) /\ (z # <<>> => Len(h) < Len(h \o z))
  BY <1>1, <1>5
<1> QED BY <1>3, <1>4, <1>6

LEMMA ExceedsIs ==
  ASSUME NEW r, RecordOK(r), NEW t, NEW m, Exceeds(r, t, m)
  PROVE  Len(m) > Len(content(r)) /\ SubSeq(m, 1, Len(content(r))) = content(r)
<1>1. PICK y \in Seq(Byte) : y # <<>> /\ m = content(r) \o y
  BY DEF Exceeds
<1> DEFINE c == content(r)
<1>2. c \in Seq(Byte)
  BY ContentOf
<1> HIDE DEF c
<1>3. Len(c) < Len(c \o y) /\ SubSeq(c \o y, 1, Len(c)) = c
  BY <1>1, <1>2, HeaderOf
<1>4. m = c \o y
  BY <1>1 DEF c
<1>5. Len(m) \in Nat /\ Len(c) \in Nat
  <2>1. m \in Seq(Byte)
    BY DEF Exceeds
  <2> QED BY <1>2, <2>1, LenProperties
<1>6. Len(m) > Len(c)
  BY <1>3, <1>4, <1>5
<1> QED BY <1>3, <1>4, <1>6 DEF c

\* What is left begins behind what was read.
LEMMA YieldsNext ==
  ASSUME NEW r, RecordOK(r), NEW t, NEW m, Yields(r, t, m), content(t) # <<>>
  PROVE  /\ Len(m) + 1 \in 1 .. readable(r)
         /\ Head(content(t)) = content(r)[Len(m) + 1]
<1> DEFINE c == content(r)
           d == content(t)
<1>1. m \in Seq(Byte) /\ c = m \o d /\ RecordOK(t)
  BY DEF Yields
<1>2. d \in Seq(Byte) /\ c \in Seq(Byte) /\ Len(c) = readable(r)
  BY <1>1, ContentOf
<1>3. d # <<>>
  OBVIOUS
<1> HIDE DEF c, d
<1>4. Head(d) = d[1]
  BY <1>2, <1>3, HeadTailProperties
<1>5. Len(m) \in Nat /\ Len(d) \in Nat /\ Len(d) > 0
  <2>1. Len(m) \in Nat /\ Len(d) \in Nat
    BY <1>1, <1>2, LenProperties
  <2> QED BY <1>2, <1>3, <2>1, EmptySeq
<1>6. Len(m \o d) = Len(m) + Len(d)
  BY <1>1, <1>2, ConcatProperties
<1>7. \A k \in 1 .. Len(m) + Len(d) : (m \o d)[k] = IF k <= Len(m) THEN m[k] ELSE d[k - Len(m)]
  BY <1>1, <1>2, ConcatProperties
<1> DEFINE j == Len(m) + 1
<1>8. j \in 1 .. Len(m) + Len(d) /\ ~(j <= Len(m)) /\ j - Len(m) = 1
  BY <1>5
<1> HIDE DEF j
<1>9. (m \o d)[j] = d[j - Len(m)]
  BY <1>7, <1>8
<1>10. c[j] = d[1]
  BY <1>1, <1>8, <1>9
<1>11. j \in 1 .. readable(r)
  BY <1>1, <1>2, <1>6, <1>8
<1> QED BY <1>4, <1>10, <1>11 DEF c, d, j

\* The readers leave the object alone when there is nothing to take.
LEMMA ReadYields ==
  ASSUME NEW r, RecordOK(r), NEW x \in Seq(Byte), NEW n \in 0 .. readable(r)
  PROVE  Yields(r, retrieve_string(r, n), taken(r, x, n))
<1> DEFINE m == taken(r, x, n)
<1>1. CASE n > 0
  BY <1>1, RetrieveYields DEF retrieve_string
<1>2. CASE ~(n > 0)
  <2>1. n = 0 /\ n \in Nat
    BY <1>2, ContentOf
  <2>2. Len(m) = n
    BY RetrieveYields
  <2>3. m \in Seq(Byte)
    BY RetrieveYields DEF Yields
  <2>4. content(r) \in Seq(Byte)
    BY ContentOf
  <2> HIDE DEF m
  <2>5. m = <<>>
    BY <2>1, <2>2, <2>3, EmptySeq
  <2>6. content(r) = <<>> \o content(r)
    BY <2>4, ConcatEmptySeq
  <2>7. Yields(r, r, m)
    BY <2>3, <2>5, <2>6 DEF Yields
  <2>8. retrieve_string(r, n) = r
    BY <1>2 DEF retrieve_string
  <2> QED BY <2>7, <2>8 DEF m
<1> QED BY <1>1, <1>2

\* A reader that takes n bytes reads the content, or all of it and beyond.
LEMMA ReadReads ==
  ASSUME NEW r, RecordOK(r), NEW x \in Seq(Byte), NEW n \in Nat,
         r.reader_pos_ + n <= Len(storage(r) \o x)
  PROVE  Reads(r, retrieve_string(r, n), taken(r, x, n))
<1> DEFINE s == storage(r)
           p == r.reader_pos_
           l == readable(r)
           c == content(r)
           m == taken(r, x, n)
           t == retrieve_string(r, n)
<1>1. /\ p \in Nat /\ l \in Nat /\ Len(s) \in Nat /\ p + l <= Len(s)
      /\ c \in Seq(Byte) /\ Len(c) = l /\ \A k \in 1 .. l : c[k] = s[p + k]
  <2>1. p \in Nat /\ l \in Nat /\ Len(s) \in Nat /\ p + l <= Len(s)
    BY StorageOf, ContentOf DEF readable
  <2>2. c \in Seq(Byte) /\ Len(c) = l /\ \A k \in 1 .. l : c[k] = s[p + k]
    BY ContentOf
  <2> QED BY <2>1, <2>2
<1>2. CASE n <= l
  <2>1. n \in 0 .. l
    BY <1>1, <1>2
  <2> QED BY <2>1, ReadYields DEF Reads
<1>3. CASE ~(n <= l)
  <2>1. t = retrieve_all(r)
    BY <1>1, <1>3 DEF retrieve_string, retrieve
  <2>2. RecordOK(t) /\ content(t) = <<>>
    BY <2>1, RetrieveAllEmpties
  <2>3. m \in Seq(Byte) /\ Len(m) = n /\ \A k \in 1 .. n : m[k] = (s \o x)[p + k]
    BY TakenOf
  <2>4. \A k \in 1 .. Len(s) : (s \o x)[k] = s[k]
    BY MemoryOf
  <2> HIDE DEF t, m, c, l, s, p
  <2>5. SubSeq(m, 1, l) = c
    <3> DEFINE e == SubSeq(m, 0 + 1, l)
    <3>1. 0 \in Nat /\ 0 <= l /\ l <= Len(m) /\ l - 0 = l
      BY <1>1, <1>3, <2>3
    <3>2. e \in Seq(Byte)
      BY <1>1, <2>3, <3>1, Slice
    <3>3. Len(e) = l - 0
      BY <1>1, <2>3, <3>1, Slice
    <3>4. \A k \in 1 .. l - 0 : e[k] = m[0 + k]
      BY <1>1, <2>3, <3>1, Slice
    <3> HIDE DEF e
    <3>5. \A k \in 1 .. l : e[k] = c[k]
      <4>1. SUFFICES ASSUME NEW k \in 1 .. l PROVE e[k] = c[k]
        OBVIOUS
      <4>2. e[k] = m[k]
        BY <3>1, <3>4
      <4>3. k \in 1 .. n /\ p + k \in 1 .. Len(s)
        BY <1>1, <1>3
      <4>4. m[k] = s[p + k]
        BY <2>3, <2>4, <4>3
      <4> QED BY <1>1, <4>2, <4>4
    <3>6. e = c
      BY <1>1, <3>1, <3>2, <3>3, <3>5, SeqEqual
    <3> QED BY <3>6 DEF e
  <2> DEFINE y == SubSeq(m, l + 1, n)
  <2>6. m = c \o y
    <3>1. 1 \in 1 .. Len(m) + 1 /\ l \in 1 - 1 .. Len(m) /\ n \in l .. Len(m)
      BY <1>1, <1>3, <2>3
    <3>2. SubSeq(m, 1, l) \o SubSeq(m, l + 1, n) = SubSeq(m, 1, n)
      BY <2>3, <3>1, ConcatAdjacentSubSeq
    <3>3. SubSeq(m, 1, n) = m
      BY <2>3, SubSeqFull
    <3> QED BY <2>5, <3>2, <3>3
  <2>7. y \in Seq(Byte) /\ y # <<>>
    <3>1. l <= n /\ n <= Len(m) /\ n - l > 0
      BY <1>1, <1>3, <2>3
    <3>2. y \in Seq(Byte)
      BY <1>1, <2>3, <3>1, Slice
    <3>3. Len(y) = n - l
      BY <1>1, <2>3, <3>1, Slice
    <3> HIDE DEF y
    <3> QED BY <3>1, <3>2, <3>3, EmptySeq
  <2> HIDE DEF y
  <2>8. Exceeds(r, t, m)
    BY <2>2, <2>3, <2>6, <2>7 DEF Exceeds, c
  <2> QED BY <2>8 DEF Reads, t, m
<1> QED BY <1>2, <1>3

\* The same behind bytes that were taken before.
LEMMA ReadsBehind ==
  ASSUME NEW r, NEW b, NEW t, NEW h, NEW m, Yields(r, b, h), Reads(b, t, m)
  PROVE  Reads(r, t, h \o m)
<1> DEFINE d == content(b)
           f == content(t)
<1>1. RecordOK(b) /\ h \in Seq(Byte) /\ content(r) = h \o d
  BY DEF Yields
<1>2. RecordOK(t) /\ m \in Seq(Byte)
  BY DEF Reads, Yields, Exceeds
<1>3. d \in Seq(Byte) /\ f \in Seq(Byte)
  BY <1>1, <1>2, ContentOf
<1>4. h \o m \in Seq(Byte)
  BY <1>1, <1>2, ConcatProperties
<1>5. \A i, j, k \in Seq(Byte) : (i \o j) \o k = i \o (j \o k)
  BY Associative
<1>6. CASE Yields(b, t, m)
  <2>1. d = m \o f
    BY <1>6 DEF Yields
  <2> HIDE DEF d, f
  <2>2. content(r) = (h \o m) \o f
    <3>1. (h \o m) \o f = h \o (m \o f)
      BY Zenon, <1>1, <1>2, <1>3, <1>5
    <3> QED BY Zenon, <1>1, <2>1, <3>1
  <2>3. Yields(r, t, h \o m)
    BY <1>2, <1>4, <2>2 DEF Yields, f
  <2> QED BY <2>3 DEF Reads
<1>7. CASE Exceeds(b, t, m)
  <2>1. PICK y \in Seq(Byte) : y # <<>> /\ m = d \o y
    BY <1>7 DEF Exceeds
  <2>2. content(t) = <<>>
    BY <1>7 DEF Exceeds
  <2> HIDE DEF d, f
  <2>3. h \o m = content(r) \o y
    <3>1. (h \o d) \o y = h \o (d \o y)
      BY Zenon, <1>1, <1>3, <1>5, <2>1
    <3> QED BY Zenon, <1>1, <2>1, <3>1
  <2>4. Exceeds(r, t, h \o m)
    BY <1>2, <1>4, <2>1, <2>2, <2>3 DEF Exceeds
  <2> QED BY <2>4 DEF Reads
<1> QED BY <1>6, <1>7 DEF Reads

----------------------------------------------------------------------------
(* Copies.                                                                 *)

LEMMA ConstructedIsEmpty ==
  ASSUME NEW junk \in [1 .. kDynamicThreshold -> Byte]
  PROVE  RecordOK(constructed(junk)) /\ content(constructed(junk)) = <<>>
<1> DEFINE t == constructed(junk)
<1>1. /\ t \in Members /\ t.reader_pos_ = 0 /\ t.writer_pos_ = 0 /\ ~t.is_dynmic_
      /\ t.static_data_ = junk
  BY DEF constructed, Members
<1>2. Len(junk) = kDynamicThreshold /\ kDynamicThreshold \in Nat
  BY MessageAssumption
<1> HIDE DEF t
<1>3. storage(t) = junk
  BY <1>1 DEF storage
<1>4. RecordOK(t)
  BY <1>1, <1>2, <1>3 DEF RecordOK
<1>5. readable(t) = 0
  BY <1>1 DEF readable
<1> QED BY <1>4, <1>5, NoContent DEF t

LEMMA ClearEmpties ==
  ASSUME NEW r, RecordOK(r)
  PROVE  RecordOK(clear(r)) /\ content(clear(r)) = <<>>
<1>1. CASE ~r.is_dynmic_
  BY <1>1, RetrieveAllEmpties DEF clear
<1>2. CASE r.is_dynmic_
  <2> DEFINE t == clear(r)
  <2>1. r \in Members /\ <<>> \in Seq(Byte) /\ Len(<<>>) = 0
    BY EmptySeq DEF RecordOK
  <2> DEFINE u == retrieve_all(r)
             none == <<>>
  <2>2. t = [u EXCEPT !.dynamic_data_ = none]
    BY <1>2 DEF clear
  <2>3. /\ u \in Members /\ u.reader_pos_ = 0 /\ u.writer_pos_ = 0 /\ u.is_dynmic_
        /\ none \in Seq(Byte)
    BY <1>2, <2>1 DEF retrieve_all, Members
  <2> HIDE DEF t, u, none
  <2>7. /\ t \in Members /\ t.reader_pos_ = 0 /\ t.writer_pos_ = 0 /\ t.is_dynmic_
        /\ t.dynamic_data_ = none
    BY <2>2, <2>3 DEF Members
  <2>4. storage(t) = <<>> /\ t.dynamic_data_ # nullptr
    BY <2>1, <2>7, MessageAssumption DEF storage, none
  <2>5. RecordOK(t)
    BY <2>1, <2>4, <2>7 DEF RecordOK
  <2>6. readable(t) = 0
    BY <2>7 DEF readable
  <2> QED BY <2>5, <2>6, NoContent DEF t
<1> QED BY <1>1, <1>2

LEMMA CopiedKeeps ==
  ASSUME NEW l, RecordOK(l), NEW r, RecordOK(r)
  PROVE  Keeps(r, copied(l, r))
<1> DEFINE t == copied(l, r)
<1>1. l \in Members /\ r \in Members
  BY DEF RecordOK
<1>2. /\ t \in Members /\ t.is_dynmic_ = r.is_dynmic_
      /\ t.reader_pos_ = r.reader_pos_ /\ t.writer_pos_ = r.writer_pos_
  BY <1>1 DEF copied, Members
<1>3. /\ r.is_dynmic_ => t.dynamic_data_ = r.dynamic_data_
      /\ ~r.is_dynmic_ => t.static_data_ = r.static_data_
  BY <1>1 DEF copied, Members
<1> HIDE DEF t
<1>4. storage(t) = storage(r)
  BY <1>2, <1>3 DEF storage
<1>5. RecordOK(t)
  BY <1>2, <1>3, <1>4 DEF RecordOK
<1> QED BY <1>2, <1>4, <1>5 DEF Keeps, content, readable, t

LEMMA EmptiedIsEmpty ==
  ASSUME NEW r, RecordOK(r)
  PROVE  RecordOK(emptied(r)) /\ content(emptied(r)) = <<>>
<1> DEFINE t == emptied(r)
<1>1. r \in Members
  BY DEF RecordOK
<1>2. /\ t \in Members /\ t.reader_pos_ = 0 /\ t.writer_pos_ = 0 /\ ~t.is_dynmic_
      /\ t.static_data_ = r.static_data_
  BY <1>1 DEF emptied, retrieve_all, Members
<1> HIDE DEF t
<1>3. Len(r.static_data_) = kDynamicThreshold /\ kDynamicThreshold \in Nat
  BY <1>1, MessageAssumption DEF Members
<1>4. storage(t) = r.static_data_
  BY <1>2 DEF storage
<1>5. RecordOK(t)
  BY <1>2, <1>3, <1>4 DEF RecordOK
<1>6. readable(t) = 0
  BY <1>2 DEF readable
<1> QED BY <1>5, <1>6, NoContent DEF t

----------------------------------------------------------------------------
(* The length in front of a string.                                        *)

IsPower(f, n) == f[0] = 1 /\ \A i \in 1 .. n : f[i] = base * f[i - 1]

LEMMA PowerExists ==
  \E f \in [0 .. LengthBytes -> Nat \ {0}] : IsPower(f, LengthBytes)
<1> DEFINE L == LengthBytes
           P == Nat \ {0}
           K == {k \in 0 .. L : \E f \in [0 .. k -> P] : IsPower(f, k)}
<1>1. L \in Nat /\ base \in P
  BY MessageAssumption
<1>2. 0 \in K
  <2> DEFINE f == [i \in 0 .. 0 |-> 1]
  <2>1. f \in [0 .. 0 -> P] /\ f[0] = 1 /\ 1 .. 0 = {}
    OBVIOUS
  <2>2. IsPower(f, 0)
    BY <2>1 DEF IsPower
  <2>3. 0 \in 0 .. L
    BY <1>1
  <2> QED BY <2>1, <2>2, <2>3
<1>3. ASSUME NEW k \in 0 .. L - 1, k \in K PROVE k + 1 \in K
  <2>1. PICK f \in [0 .. k -> P] : IsPower(f, k)
    BY <1>3
  <2> DEFINE g == [i \in 0 .. k + 1 |-> IF i = k + 1 THEN base * f[k] ELSE f[i]]
  <2>2. k \in Nat /\ k \in 0 .. k /\ k + 1 \in 0 .. L
    BY <1>1
  <2>3. f[k] \in P /\ base * f[k] \in P
    <3>1. f[k] \in P
      BY <2>2
    <3> QED BY <1>1, <3>1
  <2>4. \A i \in 0 .. k + 1 : i # k + 1 => i \in 0 .. k
    BY <2>2
  <2>5. g \in [0 .. k + 1 -> P]
    BY <2>3, <2>4
  <2>6. IsPower(g, k + 1)
    <3>1. g[0] = 1
      BY <2>1, <2>2 DEF IsPower
    <3>2. ASSUME NEW i \in 1 .. k + 1 PROVE g[i] = base * g[i - 1]
      <4>1. i \in 0 .. k + 1 /\ i - 1 \in 0 .. k + 1 /\ i - 1 # k + 1
        BY <2>2
      <4>2. CASE i = k + 1
        <5>1. i - 1 = k
          BY <2>2, <4>2
        <5> QED BY <4>1, <4>2, <5>1
      <4>3. CASE i # k + 1
        <5>1. i \in 1 .. k
          BY <2>2, <4>3
        <5>2. f[i] = base * f[i - 1]
          BY <2>1, <5>1 DEF IsPower
        <5> QED BY <4>1, <4>3, <5>2
      <4> QED BY <4>2, <4>3
    <3> QED BY <3>1, <3>2 DEF IsPower
  <2> HIDE DEF g
  <2> QED BY <2>2, <2>5, <2>6
<1>4. L \in K
  <2>1. 0 .. L \subseteq K
    BY <1>1, <1>2, <1>3, UpTo
  <2> QED BY <1>1, <2>1
<1> QED BY <1>4

LEMMA Powers == \A k \in 0 .. LengthBytes : power[k] \in Nat \ {0}
<1> DEFINE L == LengthBytes
           P == Nat \ {0}
           Body(f) == [n \in 0 .. L |-> IF n = 0 THEN 1 ELSE base * f[n - 1]]
<1>1. L \in Nat /\ base \in P
  BY MessageAssumption
<1>2. PICK f \in [0 .. L -> P] : IsPower(f, L)
  BY PowerExists
<1>3. f = Body(f)
  <2>1. ASSUME NEW n \in 0 .. L PROVE f[n] = IF n = 0 THEN 1 ELSE base * f[n - 1]
    <3>1. CASE n = 0
      BY <1>2, <3>1 DEF IsPower
    <3>2. CASE n # 0
      <4>1. n \in 1 .. L
        BY <1>1, <3>2
      <4> QED BY <1>2, <3>2, <4>1 DEF IsPower
    <3> QED BY <3>1, <3>2
  <2> QED BY <2>1
<1>4. power = Body(power)
  <2>1. power = CHOOSE g : g = Body(g)
    BY DEF power
  <2> HIDE DEF Body
  <2> QED BY <1>3, <2>1
<1> DEFINE K == {k \in 0 .. L : power[k] \in P}
<1>5. 0 \in K
  <2>1. 0 \in 0 .. L /\ 1 \in P
    BY <1>1
  <2>2. power[0] = 1
    BY <1>4, <2>1
  <2> QED BY <2>1, <2>2
<1>6. ASSUME NEW k \in 0 .. L - 1, k \in K PROVE k + 1 \in K
  <2>1. k + 1 \in 0 .. L /\ k + 1 # 0 /\ (k + 1) - 1 = k
    BY <1>1
  <2>2. power[k + 1] = base * power[k]
    BY <1>4, <2>1
  <2>3. power[k] \in P
    BY <1>6
  <2>4. base * power[k] \in P
    BY <1>1, <2>3
  <2> QED BY <2>1, <2>2, <2>4
<1>7. 0 .. L \subseteq K
  BY <1>1, <1>5, <1>6, UpTo
<1> QED BY <1>7

LEMMA EncodedBytes ==
  ASSUME NEW n \in Nat
  PROVE  encoded(n) \in Seq(Byte) /\ Len(encoded(n)) = LengthBytes
<1> DEFINE e == encoded(n)
<1>1. /\ LengthBytes \in Nat /\ base \in Nat \ {0} /\ Byte = 0 .. base - 1
  BY MessageAssumption
<1>2. ASSUME NEW i \in 1 .. LengthBytes PROVE (n \div power[i - 1]) % base \in Byte
  <2> DEFINE d == power[i - 1]
             q == n \div d
  <2>1. i - 1 \in 0 .. LengthBytes
    BY <1>1
  <2>2. d \in Nat \ {0}
    BY <2>1, Powers
  <2> HIDE DEF d
  <2>3. q \in Nat
    BY <2>2
  <2> HIDE DEF q
  <2>4. q % base \in 0 .. base - 1
    BY <1>1, <2>3
  <2> QED BY <1>1, <2>4 DEF q, d
<1>3. e \in [1 .. LengthBytes -> Byte]
  BY <1>2 DEF encoded
<1> HIDE DEF e
<1>4. e \in Seq(Byte)
  BY <1>1, <1>3, SeqDef
<1>5. Len(e) = LengthBytes
  BY <1>1, <1>3, <1>4, LenProperties
<1> QED BY <1>4, <1>5 DEF e

----------------------------------------------------------------------------
(* A call on one object is a call on its queue.                            *)

Queues == [a \in Object |-> content(message[a])]

Served == ObjectsOK' /\ moved' \in Seq(Byte) /\ Bytes!Next

LEMMA QueueOf ==
  ASSUME ObjectsOK, NEW a \in Object
  PROVE  /\ RecordOK(message[a]) /\ Queues[a] = content(message[a])
         /\ Queues[a] \in Seq(Byte)
BY ContentOf DEF ObjectsOK, Queues

LEMMA BecomesChanges ==
  ASSUME ObjectsOK, NEW a \in Object, NEW r, RecordOK(r), NEW c, NEW m \in Seq(Byte),
         Becomes(a, r, c, m)
  PROVE  /\ ObjectsOK' /\ moved' = m /\ call' = c
         /\ Queues' = [Queues EXCEPT ![a] = content(r)]
<1>1. message' = [message EXCEPT ![a] = r] /\ moved' = m /\ call' = c
  BY DEF Becomes
<1>2. message \in [Object -> Members] /\ r \in Members
  BY DEF ObjectsOK, RecordOK
<1>3. message' \in [Object -> Members]
  BY <1>1, <1>2
<1>4. \A b \in Object : message'[b] = IF b = a THEN r ELSE message[b]
  BY <1>1, <1>2
<1>5. \A b \in Object : RecordOK(message'[b])
  BY <1>4 DEF ObjectsOK
<1>6. ObjectsOK'
  BY <1>3, <1>5 DEF ObjectsOK
<1>7. Queues' = [b \in Object |-> content(message'[b])]
  BY DEF Queues
<1>8. Queues' = [Queues EXCEPT ![a] = content(r)]
  BY <1>4, <1>7 DEF Queues
<1> QED BY <1>1, <1>6, <1>8

\* What an object gains is put into its queue.
LEMMA PutChanges ==
  ASSUME ObjectsOK, NEW a \in Object, NEW r, NEW c, NEW m \in Seq(Byte),
         Gains(message[a], r, m), Becomes(a, r, c, m)
  PROVE  ObjectsOK' /\ moved' = m /\ call' = c /\ Bytes!Put(Queues, Queues', a)
<1>1. RecordOK(r) /\ content(r) = content(message[a]) \o m
  BY DEF Gains
<1>2. ObjectsOK' /\ moved' = m /\ call' = c /\ Queues' = [Queues EXCEPT ![a] = content(r)]
  BY <1>1, BecomesChanges
<1>3. Queues' = [Queues EXCEPT ![a] = @ \o moved']
  BY <1>1, <1>2 DEF Queues
<1> QED BY <1>2, <1>3 DEF Bytes!Put

\* What an object yields is taken from its queue, what it exceeds is overrun.
LEMMA ReadChanges ==
  ASSUME ObjectsOK, NEW a \in Object, NEW r, NEW c, NEW m,
         Reads(message[a], r, m), Becomes(a, r, c, m)
  PROVE  /\ ObjectsOK' /\ moved' = m /\ m \in Seq(Byte) /\ call' = c
         /\ Queues[a] = content(message[a]) /\ Queues'[a] = content(r)
         /\ Yields(message[a], r, m) => Bytes!Take(Queues, Queues', a)
         /\ Bytes!Take(Queues, Queues', a) \/ Bytes!Overrun(Queues, Queues', a)
<1>1. RecordOK(r) /\ m \in Seq(Byte)
  BY DEF Reads, Yields, Exceeds
<1>2. ObjectsOK' /\ moved' = m /\ call' = c /\ Queues' = [Queues EXCEPT ![a] = content(r)]
  BY <1>1, BecomesChanges
<1>3. Queues'[a] = content(r) /\ Queues[a] = content(message[a])
  BY <1>2 DEF Queues
<1>4. ASSUME Yields(message[a], r, m) PROVE Bytes!Take(Queues, Queues', a)
  <2>1. content(message[a]) = m \o content(r)
    BY <1>4 DEF Yields
  <2> QED BY <1>2, <1>3, <2>1 DEF Bytes!Take, Bytes!Only
<1>5. ASSUME Exceeds(message[a], r, m) PROVE Bytes!Overrun(Queues, Queues', a)
  <2>1. content(r) = <<>>
    BY <1>5 DEF Exceeds
  <2>2. Len(m) > Len(content(message[a]))
        /\ SubSeq(m, 1, Len(content(message[a]))) = content(message[a])
    BY <1>5, QueueOf, ExceedsIs
  <2> QED BY <1>2, <1>3, <2>1, <2>2 DEF Bytes!Overrun
<1>6. Bytes!Take(Queues, Queues', a) \/ Bytes!Overrun(Queues, Queues', a)
  BY <1>4, <1>5 DEF Reads
<1> QED BY <1>1, <1>2, <1>3, <1>4, <1>6

LEMMA EmptyServed ==
  ASSUME ObjectsOK, NEW a \in Object, NEW r, RecordOK(r), content(r) = <<>>,
         NEW c \in {"construct", "clear"}, Becomes(a, r, c, <<>>)
  PROVE  Served
<1>1. <<>> \in Seq(Byte)
  BY EmptySeq
<1>2. ObjectsOK' /\ moved' = <<>> /\ call' = c /\ Queues' = [Queues EXCEPT ![a] = content(r)]
  BY <1>1, BecomesChanges
<1>3. Bytes!Empty(Queues, Queues', a)
  BY <1>2 DEF Bytes!Empty
<1>4. Bytes!Next
  BY <1>3 DEF Bytes!Next, Bytes!Call, Queues
<1> QED BY <1>1, <1>2, <1>4 DEF Served

\* A change of storage is none of the queues.
LEMMA KeptServed ==
  ASSUME ObjectsOK, NEW a \in Object, NEW r, Keeps(message[a], r),
         Becomes(a, r, "space", <<>>)
  PROVE  Served
<1>1. <<>> \in Seq(Byte) /\ RecordOK(r) /\ content(r) = Queues[a]
  BY QueueOf, EmptySeq DEF Keeps
<1>2. /\ ObjectsOK' /\ moved' = <<>> /\ call' = "space"
      /\ Queues' = [Queues EXCEPT ![a] = content(r)]
  BY <1>1, BecomesChanges
<1>3. Queues' = Queues
  BY <1>1, <1>2 DEF Queues
<1>4. Bytes!Space(Queues, Queues')
  BY <1>2, <1>3 DEF Bytes!Space
<1>5. Bytes!Next
  BY <1>4 DEF Bytes!Next, Bytes!Call, Queues
<1> QED BY <1>1, <1>2, <1>5 DEF Served

LEMMA BehindBytes ==
  \A x \in Behind : x \in Seq(Byte) /\ Len(x) \in Nat /\ Lengths <= Len(x)
<1>1. \A x \in Behind : x \in Seq(Byte) /\ Lengths <= Len(x)
  BY BehindAssumption
<1> QED BY <1>1, LenProperties

LEMMA ReadStringServed ==
  ASSUME ObjectsOK, NEW a \in Object, ReadString(a)
  PROVE  Served
<1> DEFINE r == message[a]
           s == storage(r)
           p == r.reader_pos_
           l == readable(r)
           c == content(r)
<1>1. PICK x \in Behind : \E eos \in p + 1 .. Len(s \o x) :
        /\ (s \o x)[eos] = 0
        /\ \A i \in p + 1 .. eos - 1 : (s \o x)[i] # 0
        /\ Becomes(a, retrieve_string(r, eos - p - 1), "read_string", taken(r, x, eos - p - 1))
  BY DEF ReadString
<1>2. PICK eos \in p + 1 .. Len(s \o x) :
        /\ (s \o x)[eos] = 0
        /\ \A i \in p + 1 .. eos - 1 : (s \o x)[i] # 0
        /\ Becomes(a, retrieve_string(r, eos - p - 1), "read_string", taken(r, x, eos - p - 1))
  BY <1>1
<1> DEFINE n == eos - p - 1
           m == taken(r, x, n)
           t == retrieve_string(r, n)
           d == content(t)
           M == s \o x
<1>3. RecordOK(r) /\ x \in Seq(Byte)
  BY QueueOf, BehindBytes
<1>4. /\ Len(M) \in Nat /\ p \in Nat /\ l \in Nat /\ Len(s) \in Nat /\ p + l <= Len(s)
      /\ \A k \in 1 .. Len(s) : M[k] = s[k]
  <2>1. Len(s) \in Nat /\ p \in Nat /\ l \in Nat /\ p + l <= Len(s)
    BY <1>3, StorageOf, ContentOf DEF readable
  <2>2. M \in Seq(Byte) /\ \A k \in 1 .. Len(s) : M[k] = s[k]
    BY <1>3, MemoryOf
  <2> QED BY <2>1, <2>2, LenProperties
<1>5. n \in Nat /\ p + n <= Len(M) /\ eos = p + n + 1
  <2> DEFINE N == Len(M)
  <2>1. eos \in p + 1 .. N /\ N \in Nat /\ p \in Nat
    BY <1>2, <1>4
  <2> HIDE DEF N, p
  <2>2. n \in Nat /\ p + n <= N /\ eos = p + n + 1
    BY <2>1
  <2> QED BY <2>2 DEF N
<1>6. Becomes(a, t, "read_string", m)
  BY <1>2
<1>7. Reads(r, t, m)
  BY <1>3, <1>5, ReadReads
<1>8. /\ m \in Seq(Byte) /\ Len(m) = n
      /\ \A k \in 1 .. n : m[k] = M[p + k]
  BY <1>3, <1>5, TakenOf
<1>9. M[p + n + 1] = 0 /\ \A i \in p + 1 .. p + n : M[i] # 0
  <2>1. M[eos] = 0 /\ \A i \in p + 1 .. eos - 1 : M[i] # 0
    BY <1>2
  <2> HIDE DEF M, n, p
  <2>2. eos - 1 = p + n
    BY <1>4, <1>5
  <2> QED BY <1>5, <2>1, <2>2
<1>10. \A i \in DOMAIN m : m[i] # 0
  <2> HIDE DEF m, M, n, p
  <2>1. DOMAIN m = 1 .. n
    BY <1>8, LenProperties
  <2>2. \A k \in 1 .. n : p + k \in p + 1 .. p + n
    BY <1>4, <1>5
  <2>3. \A k \in 1 .. n : M[p + k] # 0
    BY <1>9, <2>2
  <2> QED BY <1>8, <2>1, <2>3
<1>11. ASSUME d # <<>> PROVE Head(d) = 0
  <2>1. Yields(r, t, m)
    BY <1>7, <1>11 DEF Reads, Exceeds
  <2>2. n + 1 \in 1 .. l /\ Head(d) = c[n + 1]
    <3>1. Len(m) + 1 \in 1 .. l /\ Head(d) = c[Len(m) + 1]
      BY <1>3, <1>11, <2>1, YieldsNext
    <3> HIDE DEF m, n, l, d, c
    <3> QED BY <1>8, <3>1
  <2>3. \A k \in 1 .. l : c[k] = s[p + k]
    BY <1>3, ContentOf
  <2> HIDE DEF d, c, s, p, n, l, M
  <2>4. p + (n + 1) = p + n + 1 /\ p + n + 1 \in 1 .. Len(s)
    BY <1>4, <1>5, <2>2
  <2> QED BY <1>4, <1>9, <2>2, <2>3, <2>4
<1> HIDE DEF t, m, n, M, d
<1>12. /\ ObjectsOK' /\ moved' = m /\ call' = "read_string" /\ Queues'[a] = content(t)
       /\ Bytes!Take(Queues, Queues', a) \/ Bytes!Overrun(Queues, Queues', a)
  BY <1>6, <1>7, ReadChanges
<1>13. Bytes!ReadString(Queues, Queues', a)
  BY <1>10, <1>11, <1>12 DEF Bytes!ReadString, d
<1>14. Bytes!Next
  BY <1>13 DEF Bytes!Next, Bytes!Call, Queues
<1> QED BY <1>8, <1>12, <1>14 DEF Served

LEMMA LengthsIs == LengthBytes \in Nat /\ Lengths \in Nat \ {0}
<1>1. LengthBytes \in Nat /\ LengthBytes \in 0 .. LengthBytes
  BY MessageAssumption
<1> QED BY <1>1, Powers DEF Lengths

LEMMA ReadLengthAndStringServed ==
  ASSUME ObjectsOK, NEW a \in Object, ReadLengthAndString(a)
  PROVE  Served
<1> DEFINE r == message[a]
           b == retrieve(r, LengthBytes)
           h == taken(r, <<>>, LengthBytes)
<1>1. /\ readable(r) >= LengthBytes
      /\ \E x \in Behind, n \in 0 .. Lengths - 1 :
           /\ Says(h, n)
           /\ Becomes(a, retrieve_string(b, n), "read_lenght_and_string", h \o taken(b, x, n))
  BY DEF ReadLengthAndString
<1>2. PICK x \in Behind, n \in 0 .. Lengths - 1 :
        /\ Says(h, n)
        /\ Becomes(a, retrieve_string(b, n), "read_lenght_and_string", h \o taken(b, x, n))
  BY <1>1
<1> DEFINE t == retrieve_string(b, n)
           m == taken(b, x, n)
           c == content(r)
           d == content(b)
<1>3. RecordOK(r) /\ x \in Seq(Byte) /\ Len(x) \in Nat /\ Lengths <= Len(x) /\ <<>> \in Seq(Byte)
      /\ n \in Nat /\ n <= Len(x)
  BY QueueOf, BehindBytes, EmptySeq, LengthsIs
<1>4. LengthBytes \in 0 .. readable(r)
  BY <1>1, <1>3, ContentOf, LengthsIs
<1>5. Yields(r, b, h) /\ Len(h) = LengthBytes
  BY <1>3, <1>4, RetrieveYields
<1>6. RecordOK(b) /\ h \in Seq(Byte) /\ c = h \o d
  BY <1>5 DEF Yields
<1>7. b.reader_pos_ + n <= Len(storage(b) \o x)
  <2> DEFINE s == storage(b)
             q == b.reader_pos_
  <2>1. Len(s \o x) = Len(s) + Len(x) /\ Len(s) \in Nat
    BY <1>3, <1>6, MemoryOf
  <2>2. q \in Nat /\ q <= Len(s)
    <3>1. q \in Nat /\ b.writer_pos_ \in Nat /\ q <= b.writer_pos_ /\ b.writer_pos_ <= Len(s)
          /\ Len(s) \in Nat
      BY <1>6, StorageOf
    <3> HIDE DEF q, s, b
    <3> QED BY <3>1
  <2> HIDE DEF s, q, b
  <2>3. q + n <= Len(s \o x)
    BY <1>3, <2>1, <2>2
  <2> QED BY <2>3 DEF s, q
<1>8. Reads(b, t, m) /\ m \in Seq(Byte) /\ Len(m) = n
  BY <1>3, <1>6, <1>7, ReadReads, TakenOf
<1> HIDE DEF b, h
<1>9. Reads(r, t, h \o m)
  BY <1>5, <1>8, ReadsBehind
<1> HIDE DEF t, m, r
<1> DEFINE z == h \o m
<1>10. Len(z) - LengthBytes = n
  <2>1. Len(z) = Len(h) + Len(m)
    BY <1>6, <1>8, ConcatProperties
  <2> HIDE DEF z
  <2> QED BY <1>3, <1>5, <1>8, <2>1, LengthsIs
<1> HIDE DEF z
<1>11. /\ ObjectsOK' /\ moved' = z /\ z \in Seq(Byte) /\ call' = "read_lenght_and_string"
       /\ Queues[a] = content(r)
       /\ Bytes!Take(Queues, Queues', a) \/ Bytes!Overrun(Queues, Queues', a)
  BY <1>2, <1>9, ReadChanges DEF z, r, t, m
<1>12. Bytes!Header(Queues[a]) = h /\ LengthBytes <= Len(Queues[a])
  <2>1. d \in Seq(Byte)
    BY <1>6, ContentOf
  <2>2. SubSeq(h \o d, 1, Len(h)) = h /\ Len(h) <= Len(h \o d)
    BY <1>6, <2>1, HeaderOf
  <2> QED BY <1>5, <1>6, <1>11, <2>2 DEF Bytes!Header
<1>13. Bytes!ReadLengthAndString(Queues, Queues', a)
  BY <1>2, <1>10, <1>11, <1>12 DEF Bytes!ReadLengthAndString
<1>14. Bytes!Next
  BY <1>13 DEF Bytes!Next, Bytes!Call, Queues
<1> QED BY <1>11, <1>14 DEF Served

LEMMA RetrieveReads ==
  ASSUME ObjectsOK, NEW a \in Object, NEW n \in 0 .. readable(message[a]),
         NEW c \in {"retrieve", "read_pod"},
         Becomes(a, retrieve(message[a], n), c, taken(message[a], <<>>, n))
  PROVE  Served
<1> DEFINE r == message[a]
           t == retrieve(r, n)
           m == taken(r, <<>>, n)
<1>1. RecordOK(r) /\ <<>> \in Seq(Byte)
  BY QueueOf, EmptySeq
<1>2. Yields(r, t, m)
  BY <1>1, RetrieveYields
<1> HIDE DEF t, m
<1>3. Reads(r, t, m)
  BY <1>2 DEF Reads
<1>4. ObjectsOK' /\ moved' = m /\ m \in Seq(Byte) /\ call' = c /\ Bytes!Take(Queues, Queues', a)
  BY <1>2, <1>3, ReadChanges DEF t, m
<1>5. Bytes!Retrieve(Queues, Queues', a)
  BY <1>4 DEF Bytes!Retrieve
<1>6. Bytes!Next
  BY <1>5 DEF Bytes!Next, Bytes!Call, Queues
<1> QED BY <1>4, <1>6 DEF Served

LEMMA ReadPodServed ==
  ASSUME ObjectsOK, NEW a \in Object, ReadPod(a)
  PROVE  Served
<1>1. PICK n \in 1 .. readable(message[a]) :
        Becomes(a, retrieve(message[a], n), "read_pod", taken(message[a], <<>>, n))
  BY DEF ReadPod
<1>2. n \in 0 .. readable(message[a])
  BY QueueOf, ContentOf
<1> QED BY <1>1, <1>2, RetrieveReads

LEMMA RetrieveServed ==
  ASSUME ObjectsOK, NEW a \in Object, Retrieve(a)
  PROVE  Served
BY RetrieveReads DEF Retrieve

LEMMA DataBytes ==
  /\ \A d \in Data : d \in Seq(Byte) /\ Len(d) \in Nat
  /\ \A j \in Junk : j \in [1 .. kDynamicThreshold -> Byte]
<1>1. Data \subseteq Seq(Byte)
  BY MessageAssumption
<1>2. Junk \subseteq [1 .. kDynamicThreshold -> Byte]
  BY MessageAssumption
<1> QED BY <1>1, <1>2, LenProperties

LEMMA PutServed ==
  ASSUME ObjectsOK, NEW a \in Object, NEW r, NEW m \in Seq(Byte),
         Gains(message[a], r, m), Becomes(a, r, "write", m)
  PROVE  Served
<1>1. ObjectsOK' /\ moved' = m /\ call' = "write" /\ Bytes!Put(Queues, Queues', a)
  BY PutChanges
<1>2. Bytes!Write(Queues, Queues', a)
  BY <1>1 DEF Bytes!Write
<1>3. Bytes!Next
  BY <1>2 DEF Bytes!Next, Bytes!Call, Queues
<1> QED BY <1>1, <1>3 DEF Served

LEMMA WriteServed ==
  ASSUME ObjectsOK, NEW a \in Object, Write(a)
  PROVE  Served
<1>1. PICK d \in Data : Becomes(a, write(message[a], d), "write", d)
  BY DEF Write
<1>2. d \in Seq(Byte)
  BY DataBytes
<1>3. Gains(message[a], write(message[a], d), d)
  BY <1>2, QueueOf, WriteGains
<1> QED BY <1>1, <1>2, <1>3, PutServed

LEMMA WriteLengthAndStringServed ==
  ASSUME ObjectsOK, NEW a \in Object, WriteLengthAndString(a)
  PROVE  Served
<1>1. PICK d \in Data :
        Becomes(a, write_lenght_and_string(message[a], d),
                "write_lenght_and_string", header_of(d) \o d)
  BY DEF WriteLengthAndString
<1> DEFINE k == Len(d) % Lengths
           h == encoded(k)
           r == message[a]
           t == write(r, h)
           u == write(t, d)
<1>2. d \in Seq(Byte) /\ Len(d) \in Nat
  BY DataBytes
<1>3. k \in 0 .. Lengths - 1 /\ k \in Nat
  <2> DEFINE l == Len(d)
             p == Lengths
  <2>1. l \in Nat /\ p \in Nat \ {0}
    BY <1>2, LengthsIs
  <2> HIDE DEF l, p
  <2>2. l % p \in 0 .. p - 1
    BY <2>1
  <2> QED BY <2>1, <2>2 DEF l, p
<1> HIDE DEF k
<1>4. h \in Seq(Byte) /\ Len(h) = LengthBytes
  BY <1>3, EncodedBytes
<1>5. RecordOK(r) /\ content(r) \in Seq(Byte)
  BY QueueOf
<1>6. Becomes(a, u, "write_lenght_and_string", h \o d)
  BY <1>1 DEF write_lenght_and_string, header_of, k
<1>7. Says(h, k)
  BY <1>3 DEF Says
<1> HIDE DEF h
<1>8. Gains(r, t, h)
  BY <1>4, <1>5, WriteGains
<1> HIDE DEF t
<1>9. Gains(t, u, d)
  BY <1>2, <1>8, WriteGains DEF Gains
<1> HIDE DEF u, r
<1> DEFINE z == h \o d
<1>10. z \in Seq(Byte)
  BY <1>2, <1>4, ConcatProperties
<1>11. content(u) = content(r) \o z
  BY <1>2, <1>4, <1>5, <1>8, <1>9, ConcatAssociative DEF Gains
<1>12. Gains(r, u, z)
  BY <1>9, <1>11 DEF Gains
<1>13. Len(z) = LengthBytes + Len(d)
  BY <1>2, <1>4, ConcatProperties
<1>14. SubSeq(z, 1, LengthBytes) = h
  BY <1>2, <1>4, HeaderOf
<1> HIDE DEF z
<1>15. /\ ObjectsOK' /\ moved' = z /\ call' = "write_lenght_and_string"
       /\ Bytes!Put(Queues, Queues', a)
  BY <1>6, <1>10, <1>12, PutChanges DEF r, z
<1>16. Bytes!Header(moved') = h
  BY <1>14, <1>15 DEF Bytes!Header
<1>17. (Len(moved') - LengthBytes) % Lengths = k
  <2>1. Len(moved') - LengthBytes = Len(d)
    BY <1>2, <1>13, <1>15, LengthsIs
  <2> QED BY <2>1 DEF k
<1>18. Bytes!WriteLengthAndString(Queues, Queues', a)
  BY <1>7, <1>15, <1>16, <1>17 DEF Bytes!WriteLengthAndString
<1>19. Bytes!Next
  BY <1>18 DEF Bytes!Next, Bytes!Call, Queues
<1> QED BY <1>10, <1>15, <1>19 DEF Served

LEMMA HasWrittenServed ==
  ASSUME ObjectsOK, NEW a \in Object, HasWritten(a)
  PROVE  Served
<1>1. PICK d \in Data : /\ writeable(message[a]) >= Len(d)
                        /\ Becomes(a, has_written(message[a], d), "write", d)
  BY DEF HasWritten
<1>2. d \in Seq(Byte)
  BY DataBytes
<1>3. Gains(message[a], has_written(message[a], d), d)
  BY <1>1, <1>2, QueueOf, HasWrittenGains
<1> QED BY <1>1, <1>2, <1>3, PutServed

LEMMA EnsureServed ==
  ASSUME ObjectsOK, NEW a \in Object, NEW n \in Nat, EnsureWritableBytes(a, n)
  PROVE  Served
<1>1. Keeps(message[a], ensure_writable_bytes(message[a], n))
  BY QueueOf, EnsureKeeps
<1> QED BY <1>1, KeptServed DEF EnsureWritableBytes

LEMMA SetDynamicServed ==
  ASSUME ObjectsOK, NEW a \in Object, SetDynamic(a)
  PROVE  Served
<1>1. Keeps(message[a], set_dynamic(message[a]))
  BY QueueOf, SetDynamicKeeps
<1> QED BY <1>1, KeptServed DEF SetDynamic

LEMMA ClearServed ==
  ASSUME ObjectsOK, NEW a \in Object, Clear(a)
  PROVE  Served
<1>1. RecordOK(clear(message[a])) /\ content(clear(message[a])) = <<>>
  BY QueueOf, ClearEmpties
<1> QED BY <1>1, EmptyServed DEF Clear

LEMMA NewServed ==
  ASSUME ObjectsOK, NEW a \in Object, New(a)
  PROVE  Served
<1>1. PICK junk \in Junk : Becomes(a, constructed(junk), "construct", <<>>)
  BY DEF New
<1>2. RecordOK(constructed(junk)) /\ content(constructed(junk)) = <<>>
  BY DataBytes, ConstructedIsEmpty
<1> QED BY <1>1, <1>2, EmptyServed

LEMMA CopyServed ==
  ASSUME ObjectsOK, NEW a \in Object, NEW b \in Object, a # b, Copy(a, b)
  PROVE  Served
<1> DEFINE t == copied(message[a], message[b])
<1>1. RecordOK(t) /\ content(t) = Queues[b]
  <2>1. RecordOK(message[a]) /\ RecordOK(message[b]) /\ Queues[b] = content(message[b])
    BY QueueOf
  <2>2. Keeps(message[b], t)
    BY <2>1, CopiedKeeps
  <2> QED BY <2>1, <2>2 DEF Keeps
<1>2. Becomes(a, t, "copy", <<>>) /\ <<>> \in Seq(Byte)
  BY EmptySeq DEF Copy
<1> HIDE DEF t
<1>3. /\ ObjectsOK' /\ moved' = <<>> /\ call' = "copy"
      /\ Queues' = [Queues EXCEPT ![a] = content(t)]
  BY <1>1, <1>2, BecomesChanges
<1>4. Bytes!Copy(Queues, Queues', a, b)
  BY <1>1, <1>3 DEF Bytes!Copy
<1>5. Bytes!Next
  BY <1>3, <1>4 DEF Bytes!Next, Bytes!Call, Queues
<1> QED BY <1>2, <1>3, <1>5 DEF Served

\* Two objects get new members.
BothBecome(a, b, r, t) == message' = [message EXCEPT ![a] = r, ![b] = t]
QueuesBecome(a, b, q, u) == Queues' = [Queues EXCEPT ![a] = q, ![b] = u]

LEMMA BothChange ==
  ASSUME ObjectsOK, NEW a \in Object, NEW b \in Object, a # b,
         NEW r, RecordOK(r), NEW t, RecordOK(t), BothBecome(a, b, r, t)
  PROVE  ObjectsOK' /\ QueuesBecome(a, b, content(r), content(t))
<1>1. message \in [Object -> Members] /\ r \in Members /\ t \in Members
  BY DEF ObjectsOK, RecordOK
<1>2. message' \in [Object -> Members]
  BY <1>1 DEF BothBecome
<1>3. \A c \in Object : message'[c] = IF c = b THEN t ELSE IF c = a THEN r ELSE message[c]
  BY <1>1 DEF BothBecome
<1>4. \A c \in Object : RecordOK(message'[c])
  BY <1>3 DEF ObjectsOK
<1>5. Queues' = [c \in Object |-> content(message'[c])]
  BY DEF Queues
<1>6. \A c \in Object : Queues'[c] = IF c = b THEN content(t)
                                      ELSE IF c = a THEN content(r) ELSE Queues[c]
  BY <1>3, <1>5 DEF Queues
<1>7. QueuesBecome(a, b, content(r), content(t))
  <2> DEFINE q == Queues
             q1 == Queues'
             x == content(r)
             y == content(t)
  <2>1. DOMAIN q = Object /\ DOMAIN q1 = Object
        /\ q = [c \in Object |-> q[c]] /\ q1 = [c \in Object |-> q1[c]]
    BY <1>5 DEF Queues
  <2> HIDE DEF q, q1, x, y
  <2>2. \A c \in Object : q1[c] = IF c = b THEN y ELSE IF c = a THEN x ELSE q[c]
    BY <1>6 DEF q, q1, x, y
  <2>3. q1 = [q EXCEPT ![a] = x, ![b] = y]
    BY <2>1, <2>2
  <2> QED BY <2>3 DEF QueuesBecome, q, q1, x, y
<1> QED BY <1>2, <1>4, <1>7 DEF ObjectsOK

LEMMA MoveServed ==
  ASSUME ObjectsOK, NEW a \in Object, NEW b \in Object, a # b, Move(a, b)
  PROVE  Served
<1> DEFINE r == copied(message[a], message[b])
           t == emptied(message[b])
<1>1. RecordOK(r) /\ content(r) = Queues[b]
  <2>1. RecordOK(message[a]) /\ RecordOK(message[b]) /\ Queues[b] = content(message[b])
    BY QueueOf
  <2>2. Keeps(message[b], r)
    BY <2>1, CopiedKeeps
  <2> QED BY <2>1, <2>2 DEF Keeps
<1>2. RecordOK(t) /\ content(t) = <<>>
  BY QueueOf, EmptiedIsEmpty
<1>3. BothBecome(a, b, r, t) /\ moved' = <<>> /\ call' = "move" /\ <<>> \in Seq(Byte)
  BY EmptySeq DEF Move, ObjectsOK, BothBecome
<1> HIDE DEF r, t
<1>4. ObjectsOK' /\ QueuesBecome(a, b, content(r), content(t))
  BY <1>1, <1>2, <1>3, BothChange
<1>5. Bytes!Move(Queues, Queues', a, b)
  BY <1>1, <1>2, <1>3, <1>4 DEF Bytes!Move, QueuesBecome
<1>6. Bytes!Next
  BY <1>3, <1>5 DEF Bytes!Next, Bytes!Call, Queues
<1> QED BY <1>3, <1>4, <1>6 DEF Served

LEMMA SwapServed ==
  ASSUME ObjectsOK, NEW a \in Object, NEW b \in Object, a # b, Swap(a, b)
  PROVE  Served
<1> DEFINE r == message[b]
           t == message[a]
<1>1. RecordOK(r) /\ content(r) = Queues[b] /\ RecordOK(t) /\ content(t) = Queues[a]
  BY QueueOf
<1>2. BothBecome(a, b, r, t) /\ moved' = <<>> /\ call' = "swap" /\ <<>> \in Seq(Byte)
  BY EmptySeq DEF Swap, BothBecome
<1> HIDE DEF r, t
<1>3. ObjectsOK' /\ QueuesBecome(a, b, content(r), content(t))
  BY <1>1, <1>2, BothChange
<1>4. Bytes!Swap(Queues, Queues', a, b)
  BY <1>1, <1>2, <1>3 DEF Bytes!Swap, QueuesBecome
<1>5. Bytes!Next
  BY <1>2, <1>4 DEF Bytes!Next, Bytes!Call, Queues
<1> QED BY <1>2, <1>3, <1>5 DEF Served

----------------------------------------------------------------------------
(* All calls.                                                              *)

LEMMA InitOK == Init => ObjectsOK /\ moved \in Seq(Byte) /\ Bytes!Init
<1> SUFFICES ASSUME Init PROVE ObjectsOK /\ moved \in Seq(Byte) /\ Bytes!Init
  OBVIOUS
<1>1. PICK junk \in [Object -> Junk] : message = [a \in Object |-> constructed(junk[a])]
  BY DEF Init
<1>2. \A a \in Object : message[a] = constructed(junk[a])
                        /\ junk[a] \in [1 .. kDynamicThreshold -> Byte]
  BY <1>1, DataBytes
<1>3. \A a \in Object : RecordOK(message[a]) /\ content(message[a]) = <<>>
  BY <1>2, ConstructedIsEmpty
<1>4. \A a \in Object : message[a] \in Members
  BY <1>3 DEF RecordOK
<1>5. message \in [Object -> Members]
  BY <1>1, <1>4
<1>6. moved = <<>> /\ call = "construct" /\ <<>> \in Seq(Byte)
  BY EmptySeq DEF Init
<1>7. [a \in Object |-> content(message[a])] = [a \in Object |-> <<>>]
  BY <1>3
<1> QED BY <1>3, <1>5, <1>6, <1>7 DEF ObjectsOK, Bytes!Init

LEMMA StepServed == ObjectsOK /\ Next => Served
<1> SUFFICES ASSUME ObjectsOK, Next PROVE Served
  OBVIOUS
<1>1. \A n \in Sizes : n \in Nat
  BY MessageAssumption DEF Sizes
<1>2. ASSUME NEW a \in Object, NEW n \in Sizes, EnsureWritableBytes(a, n) PROVE Served
  BY <1>1, <1>2, EnsureServed
<1>3. ASSUME NEW a \in Object,
             \/ New(a) \/ Write(a) \/ WriteLengthAndString(a) \/ HasWritten(a)
             \/ SetDynamic(a) \/ Clear(a) \/ Retrieve(a)
             \/ ReadPod(a) \/ ReadString(a) \/ ReadLengthAndString(a)
      PROVE  Served
  BY <1>3, NewServed, WriteServed, WriteLengthAndStringServed, HasWrittenServed,
     SetDynamicServed, ClearServed, RetrieveServed, ReadPodServed, ReadStringServed,
     ReadLengthAndStringServed
<1>4. ASSUME NEW a \in Object, NEW b \in Object, a # b, Copy(a, b) \/ Move(a, b) \/ Swap(a, b)
      PROVE  Served
  BY <1>4, CopyServed, MoveServed, SwapServed
<1> QED BY <1>2, <1>3, <1>4 DEF Next

LEMMA ObjectsStayOK == Spec => [](ObjectsOK /\ moved \in Seq(Byte))
<1> DEFINE I == ObjectsOK /\ moved \in Seq(Byte)
<1>1. Init => I
  BY InitOK
<1>2. I /\ [Next]_vars => I'
  <2>1. I /\ Next => I'
    BY StepServed DEF Served
  <2>2. I /\ UNCHANGED vars => I'
    BY DEF vars, ObjectsOK, RecordOK, storage
  <2> QED BY <2>1, <2>2
<1> QED BY <1>1, <1>2, PTL DEF Spec

\* No call, in whatever order, brings a position out of the array in use.
THEOREM MessageTypes == Spec => []MessageTypeOK
<1>1. ObjectsOK /\ moved \in Seq(Byte) => MessageTypeOK
  BY TypeParts
<1> QED BY <1>1, ObjectsStayOK, PTL

\* ensure_writable_bytes makes the room it was asked for.
THEOREM MessageEnsuresWritable == Spec => EnsuresWritable
<1>1. ObjectsOK => [\A a \in Object, n \in Sizes :
                      EnsureWritableBytes(a, n) => writeable(message'[a]) >= n]_vars
  <2> SUFFICES ASSUME ObjectsOK, NEW a \in Object, NEW n \in Sizes, EnsureWritableBytes(a, n)
               PROVE  writeable(message'[a]) >= n
    OBVIOUS
  <2>1. n \in Nat
    BY MessageAssumption DEF Sizes
  <2>2. message'[a] = ensure_writable_bytes(message[a], n)
    BY DEF EnsureWritableBytes, Becomes, ObjectsOK
  <2> QED BY <2>1, <2>2, QueueOf, EnsureKeeps
<1> QED BY <1>1, ObjectsStayOK, PTL DEF EnsuresWritable

\* Call by call an object is a queue of bytes, whatever its storage goes
\* through: set_dynamic, make_space, copies and moves lose none, and a reader
\* takes the front of the content unless a terminator or bytes are missing.
THEOREM MessageIsByteQueue == Spec => ImplementsByteQueue
<1>1. Init => Bytes!Init
  BY InitOK
<1>2. ObjectsOK /\ [Next]_vars => [Bytes!Next]_(Bytes!vars)
  <2>1. ObjectsOK /\ Next => Bytes!Next
    BY StepServed DEF Served
  <2>2. UNCHANGED vars => UNCHANGED Bytes!vars
    BY DEF vars, Bytes!vars
  <2> QED BY <2>1, <2>2
<1> QED BY <1>1, <1>2, ObjectsStayOK, PTL DEF Spec, ImplementsByteQueue, Bytes!Spec
=============================================================================
