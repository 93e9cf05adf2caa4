----------------------------- MODULE NetMessage -----------------------------
(***************************************************************************)
(* NetMessage: a byte buffer with a read and a write position, in an array *)
(* inside of the object until that is too small, then in a vector.         *)
(*                                                                         *)
(* An object is a record of its members, a member function a function from *)
(* the old record to the new one.  Positions count from 0, sequences from  *)
(* 1.  Assertions of the code are off, as in a release build.  What they   *)
(* ask of the arguments and of the readable size before a call is a guard; *)
(* what they ask of the bytes that a call finds is not.                    *)
(***************************************************************************)
EXTENDS Integers, Sequences, FiniteSetsExt

CONSTANTS
  Object,             \* NetMessage objects
  Byte,               \* 0 .. B - 1
  kDynamicThreshold,  \* 128
  LengthBytes,        \* sizeof(uint32_t)
  nullptr,
  Data,               \* what is written in one call
  Junk,               \* what an array may hold that is not initialised
  Behind,             \* what the memory behind an array may hold
  MaxStorage          \* bound: size of all the vectors

base == Cardinality(Byte)

ASSUME MessageAssumption ==
  /\ kDynamicThreshold \in Nat \ {0} /\ LengthBytes \in Nat
  /\ base \in Nat \ {0} /\ Byte = 0 .. base - 1
  /\ Data \subseteq Seq(Byte)
  /\ Junk \subseteq [1 .. kDynamicThreshold -> Byte]
  /\ nullptr \notin Seq(Byte)

\* A uint32_t has power[LengthBytes] values.
power[n \in 0 .. LengthBytes] == IF n = 0 THEN 1 ELSE base * power[n - 1]
Lengths == power[LengthBytes]

\* A scan for a zero ends, and a string of any length can be copied.
ASSUME BehindAssumption ==
  \A x \in Behind : /\ x \in Seq(Byte) /\ Lengths <= Len(x)
                    /\ \E i \in 1 .. Len(x) : x[i] = 0

VARIABLES
  message,  \* object -> its members
  moved,    \* history: the bytes that the last call wrote, read or dropped
  call      \* history: the last call

vars == <<message, moved, call>>

Members ==
  [is_dynmic_ : BOOLEAN, reader_pos_ : Nat, writer_pos_ : Nat,
   dynamic_data_ : Seq(Byte) \cup {nullptr},
   static_data_ : [1 .. kDynamicThreshold -> Byte]]

----------------------------------------------------------------------------
(* Queries.                                                                *)

storage(r) == IF r.is_dynmic_ THEN r.dynamic_data_ ELSE r.static_data_

readable(r) == r.writer_pos_ - r.reader_pos_
prependable(r) == r.reader_pos_
writeable(r) == Len(storage(r)) - r.writer_pos_

content(r) == SubSeq(storage(r), r.reader_pos_ + 1, r.writer_pos_)

\* n bytes from data() on.  Neither a scan nor memcpy looks at writer_pos_ or
\* at the end of the array, behind which the memory holds x.
taken(r, x, n) == SubSeq(storage(r) \o x, r.reader_pos_ + 1, r.reader_pos_ + n)

zeros(n) == [i \in 1 .. n |-> 0]

----------------------------------------------------------------------------
(* Space.                                                                  *)

with_storage(r, s) ==
  IF r.is_dynmic_ THEN [r EXCEPT !.dynamic_data_ = s] ELSE [r EXCEPT !.static_data_ = s]

\* Mutant of set_dynamic: the array is copied from its start.
set_dynamic_from_start(r) ==
  IF r.is_dynmic_ THEN r
  ELSE [r EXCEPT !.is_dynmic_ = TRUE,
                 !.dynamic_data_ = SubSeq(r.static_data_, 1, readable(r)) \o zeros(readable(r)),
                 !.reader_pos_ = 0, !.writer_pos_ = readable(r)]

\* A vector of content_size zeros, the content inserted before them.
set_dynamic(r) ==
  IF r.is_dynmic_ THEN r
  ELSE [r EXCEPT !.is_dynmic_ = TRUE,
                 !.dynamic_data_ = content(r) \o zeros(readable(r)),
                 !.reader_pos_ = 0, !.writer_pos_ = readable(r)]

\* vector::resize: zeros are added, or the end is cut off.
resize(s, n) == [i \in 1 .. n |-> IF i <= Len(s) THEN s[i] ELSE 0]

\* memmove of the content to the front; what is behind it stays.
compacted(r) ==
  LET s == storage(r)
      kept == [i \in 1 .. Len(s) |->
                 IF i <= readable(r) THEN s[r.reader_pos_ + i] ELSE s[i]]
  IN  [with_storage(r, kept) EXCEPT !.reader_pos_ = 0, !.writer_pos_ = readable(r)]

\* Mutant of make_space: the vector is made one byte too small.
make_space_one_short(r, size) ==
  IF writeable(r) + prependable(r) < size
  THEN LET d == set_dynamic(r)
       IN  [d EXCEPT !.dynamic_data_ = resize(@, d.writer_pos_ + size - 1)]
  ELSE compacted(r)

make_space(r, size) ==
  IF writeable(r) + prependable(r) < size
  THEN LET d == set_dynamic(r)
       IN  [d EXCEPT !.dynamic_data_ = resize(@, d.writer_pos_ + size)]
  ELSE compacted(r)

ensure_writable_bytes(r, size) ==
  IF writeable(r) < size THEN make_space(r, size) ELSE r

----------------------------------------------------------------------------
(* Writing.                                                                *)

overwritten(s, at, data) ==
  [i \in 1 .. Len(s) |-> IF i \in at + 1 .. at + Len(data) THEN data[i - at] ELSE s[i]]

\* vector::insert makes room of its own for data: the vector grows although
\* room was ensured.
write(r, data) ==
  LET e == ensure_writable_bytes(r, Len(data))
      s == storage(e)
      w == e.writer_pos_
      filled == IF e.is_dynmic_
                THEN SubSeq(s, 1, w) \o data \o SubSeq(s, w + 1, Len(s))
                ELSE overwritten(s, w, data)
  IN  [with_storage(e, filled) EXCEPT !.writer_pos_ = w + Len(data)]

\* An application that writes behind the content itself and then says so.
has_written(r, data) ==
  [with_storage(r, overwritten(storage(r), r.writer_pos_, data))
     EXCEPT !.writer_pos_ = @ + Len(data)]

\* uint32_t in memory, the lowest byte first.
encoded(n) == [i \in 1 .. LengthBytes |-> (n \div power[i - 1]) % base]
Says(header, n) == n \in 0 .. Lengths - 1 /\ header = encoded(n)

\* What write_pod<uint32_t> makes of the size of a string.
header_of(data) == encoded(Len(data) % Lengths)

write_lenght_and_string(r, data) == write(write(r, header_of(data)), data)

----------------------------------------------------------------------------
(* Reading.                                                                *)

retrieve_all(r) == [r EXCEPT !.reader_pos_ = 0, !.writer_pos_ = 0]

retrieve(r, size) ==
  IF readable(r) > size THEN [r EXCEPT !.reader_pos_ = @ + size] ELSE retrieve_all(r)

clear(r) ==
  IF r.is_dynmic_ THEN [retrieve_all(r) EXCEPT !.dynamic_data_ = <<>>] ELSE retrieve_all(r)

----------------------------------------------------------------------------
(* Copies.                                                                 *)

\* Members of a new object; its array is not initialised.
constructed(junk) ==
  [is_dynmic_ |-> FALSE, reader_pos_ |-> 0, writer_pos_ |-> 0,
   dynamic_data_ |-> nullptr, static_data_ |-> junk]

\* The copy constructor on constructed(junk), and operator=(const &).
copied(l, r) ==
  [l EXCEPT !.is_dynmic_ = r.is_dynmic_,
            !.reader_pos_ = r.reader_pos_, !.writer_pos_ = r.writer_pos_,
            !.static_data_ = IF r.is_dynmic_ THEN @ ELSE r.static_data_,
            !.dynamic_data_ = IF r.is_dynmic_ THEN r.dynamic_data_ ELSE @]

\* Mutant of emptied: the object from which was moved stays dynamic.
emptied_still_dynamic(r) ==
  [retrieve_all(r) EXCEPT !.dynamic_data_ = IF r.is_dynmic_ THEN nullptr ELSE @]

\* What a move leaves behind.
emptied(r) ==
  [retrieve_all(r) EXCEPT !.is_dynmic_ = FALSE,
                          !.dynamic_data_ = IF r.is_dynmic_ THEN nullptr ELSE @]

----------------------------------------------------------------------------
(* Calls.                                                                  *)

Init ==
  /\ \E junk \in [Object -> Junk] : message = [a \in Object |-> constructed(junk[a])]
  /\ moved = <<>> /\ call = "construct"

Sizes == 0 .. kDynamicThreshold + 1

VectorBytes(r) == IF r.dynamic_data_ = nullptr THEN 0 ELSE Len(r.dynamic_data_)

Bounded == MapThenSumSet(LAMBDA a : VectorBytes(message[a]), Object) <= MaxStorage

\* a is r after the call c, which wrote or read the bytes m.
Becomes(a, r, c, m) ==
  /\ message' = [message EXCEPT ![a] = r]
  /\ Bounded'
  /\ moved' = m /\ call' = c

\* The default constructor.  The others are this one followed by
\* ensure_writable_bytes, write or an assignment.
New(a) == \E junk \in Junk : Becomes(a, constructed(junk), "construct", <<>>)

\* write, write_pod and write_string.
Write(a) == \E d \in Data : Becomes(a, write(message[a], d), "write", d)

WriteLengthAndString(a) ==
  \E d \in Data : Becomes(a, write_lenght_and_string(message[a], d),
                         "write_lenght_and_string", header_of(d) \o d)

HasWritten(a) ==
  \E d \in Data :
    /\ writeable(message[a]) >= Len(d)
    /\ Becomes(a, has_written(message[a], d), "write", d)

EnsureWritableBytes(a, n) ==
  Becomes(a, ensure_writable_bytes(message[a], n), "space", <<>>)

\* reserve(size) that does not fit the array, and set_dynamic itself.
SetDynamic(a) ==
  ~message[a].is_dynmic_ /\ Becomes(a, set_dynamic(message[a]), "space", <<>>)

Clear(a) == Becomes(a, clear(message[a]), "clear", <<>>)

\* With all that is there, retrieve_all.
Retrieve(a) ==
  LET r == message[a]
  IN  \E n \in 0 .. readable(r) :
        Becomes(a, retrieve(r, n), "retrieve", taken(r, <<>>, n))

\* A number of size n.
ReadPod(a) ==
  LET r == message[a]
  IN  \E n \in 1 .. readable(r) :
        Becomes(a, retrieve(r, n), "read_pod", taken(r, <<>>, n))

retrieve_string(r, lenght) == IF lenght > 0 THEN retrieve(r, lenght) ELSE r

\* The scan takes the first zero from data() on, wherever it is; the zero is
\* not retrieved.
ReadString(a) ==
  LET r == message[a]
  IN  /\ readable(r) > 0
      /\ \E x \in Behind :
           LET memory == storage(r) \o x
           IN  \E eos \in r.reader_pos_ + 1 .. Len(memory) :
                 LET lenght == eos - r.reader_pos_ - 1
                 IN  /\ memory[eos] = 0
                     /\ \A i \in r.reader_pos_ + 1 .. eos - 1 : memory[i] # 0
                     /\ Becomes(a, retrieve_string(r, lenght), "read_string",
                                taken(r, x, lenght))

\* The string is as long as the bytes in front of it say, whatever is there.
ReadLengthAndString(a) ==
  LET r == message[a]
      header == taken(r, <<>>, LengthBytes)
      body == retrieve(r, LengthBytes)
  IN  /\ readable(r) >= LengthBytes
      /\ \E x \in Behind, lenght \in 0 .. Lengths - 1 :
           /\ Says(header, lenght)
           /\ Becomes(a, retrieve_string(body, lenght), "read_lenght_and_string",
                      header \o taken(body, x, lenght))

Copy(a, b) == Becomes(a, copied(message[a], message[b]), "copy", <<>>)

\* The members of b are moved to a, its array is copied.
Move(a, b) ==
  /\ message' = [message EXCEPT ![a] = copied(@, message[b]), ![b] = emptied(message[b])]
  /\ moved' = <<>> /\ call' = "move"

Swap(a, b) ==
  /\ message' = [message EXCEPT ![a] = message[b], ![b] = message[a]]
  /\ moved' = <<>> /\ call' = "swap"

Next ==
  \/ \E a \in Object :
       \/ New(a) \/ Write(a) \/ WriteLengthAndString(a) \/ HasWritten(a)
       \/ \E n \in Sizes : EnsureWritableBytes(a, n)
       \/ SetDynamic(a) \/ Clear(a) \/ Retrieve(a)
       \/ ReadPod(a) \/ ReadString(a) \/ ReadLengthAndString(a)
  \/ \E a, b \in Object : a # b /\ (Copy(a, b) \/ Move(a, b) \/ Swap(a, b))

Spec == Init /\ [][Next]_vars

----------------------------------------------------------------------------
(* Properties.                                                             *)

\* Type invariant: no call, on whatever a move, an assignment or a change of
\* storage left behind, brings a position out of the array in use, and there
\* is an array in use.
MessageTypeOK ==
  /\ message \in [Object -> Members]
  /\ \A a \in Object :
       LET r == message[a]
       IN  /\ r.is_dynmic_ => r.dynamic_data_ # nullptr
           /\ r.reader_pos_ <= r.writer_pos_ /\ r.writer_pos_ <= Len(storage(r))
  /\ moved \in Seq(Byte)

\* Behind the content there is as much room as ensure_writable_bytes was asked
\* for, in whichever of three ways it was made: the memcpy of write() and an
\* application that fills data() itself rely on it.
EnsuresWritable ==
  [][\A a \in Object, n \in Sizes :
       EnsureWritableBytes(a, n) => writeable(message'[a]) >= n]_vars

\* An object is a queue of bytes, call by call: room made for a write and the
\* change from the array to the vector leave the content as it is, a copy, a
\* move and a swap hand over all of it, what is written goes behind it and what
\* is read, string or number, is the front of it, in order.  Only a string whose
\* terminator or whose bytes were never written is read beyond the content, and
\* the object is empty then; the assertions on the length, which are off, would
\* stop that call.
Bytes == INSTANCE ByteQueue WITH bytes <- [a \in Object |-> content(message[a])]
ImplementsByteQueue == Bytes!Spec
=============================================================================
