----------------------------- MODULE ByteQueue -----------------------------
(***************************************************************************)
(* What a message buffer promises: every object is a queue of bytes.       *)
(* `call' is the last call, `moved' what it wrote or read.                 *)
(***************************************************************************)
EXTENDS Sequences, Integers

CONSTANTS
  Object, Byte,
  LengthBytes,  \* bytes of a length
  Lengths,      \* they tell 0 .. Lengths - 1 apart
  Says(_, _)    \* Says(header, n): these bytes are the length n

VARIABLES bytes, moved, call

vars == <<bytes, moved, call>>

Init == bytes = [a \in Object |-> <<>>] /\ moved = <<>> /\ call = "construct"

Header(s) == SubSeq(s, 1, LengthBytes)

\* Only object a is another one.
Only(old, new, a) == new = [old EXCEPT ![a] = new[a]]

----------------------------------------------------------------------------
(* The calls take the queues from old to new.                              *)

\* A constructor that writes nothing, and clear.
Empty(old, new, a) ==
  /\ call' \in {"construct", "clear"} /\ moved' = <<>>
  /\ new = [old EXCEPT ![a] = <<>>]

\* What is written goes behind what is there.
Put(old, new, a) == new = [old EXCEPT ![a] = @ \o moved']

Write(old, new, a) == call' = "write" /\ Put(old, new, a)

\* The length goes in front, modulo what its bytes can tell.
WriteLengthAndString(old, new, a) ==
  /\ call' = "write_lenght_and_string"
  /\ Says(Header(moved'), (Len(moved') - LengthBytes) % Lengths)
  /\ Put(old, new, a)

\* Whatever happens to the storage, the bytes stay.
Space(old, new) == call' = "space" /\ moved' = <<>> /\ new = old

\* What is read was at the front and is there no more.
Take(old, new, a) == Only(old, new, a) /\ old[a] = moved' \o new[a]

Retrieve(old, new, a) == call' \in {"retrieve", "read_pod"} /\ Take(old, new, a)

\* More is read than there is: all of it, followed by what is no content.
Overrun(old, new, a) ==
  /\ Len(moved') > Len(old[a]) /\ SubSeq(moved', 1, Len(old[a])) = old[a]
  /\ new = [old EXCEPT ![a] = <<>>]

\* A string ends in front of the first zero, which stays; it goes beyond the
\* content only if no zero is there.
ReadString(old, new, a) ==
  /\ call' = "read_string"
  /\ \A i \in DOMAIN moved' : moved'[i] # 0
  /\ Take(old, new, a) \/ Overrun(old, new, a)
  /\ new[a] # <<>> => Head(new[a]) = 0

\* A string has the length that the bytes at the front say; it goes beyond the
\* content only if they say more than there is.
ReadLengthAndString(old, new, a) ==
  /\ call' = "read_lenght_and_string" /\ LengthBytes <= Len(old[a])
  /\ Says(Header(old[a]), Len(moved') - LengthBytes)
  /\ Take(old, new, a) \/ Overrun(old, new, a)

Copy(old, new, a, b) == call' = "copy" /\ new = [old EXCEPT ![a] = old[b]]
Move(old, new, a, b) == call' = "move" /\ new = [old EXCEPT ![a] = old[b], ![b] = <<>>]
Swap(old, new, a, b) == call' = "swap" /\ new = [old EXCEPT ![a] = old[b], ![b] = old[a]]

Call(old, new) ==
  \/ \E a \in Object :
       \/ Empty(old, new, a)
       \/ Write(old, new, a) \/ WriteLengthAndString(old, new, a)
       \/ Retrieve(old, new, a)
       \/ ReadString(old, new, a) \/ ReadLengthAndString(old, new, a)
  \/ Space(old, new)
  \/ /\ moved' = <<>>
     /\ \E a, b \in Object :
          /\ a # b
          /\ Copy(old, new, a, b) \/ Move(old, new, a, b) \/ Swap(old, new, a, b)

Next == Call(bytes, bytes')

Spec == Init /\ [][Next]_vars
=============================================================================
