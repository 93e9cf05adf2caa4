---------------------------- MODULE MessageStream ----------------------------
(***************************************************************************)
(* What one direction of a connection promises: the messages that are sent *)
(* arrive unchanged and in their order, until the connection is cut, a     *)
(* message is sent whose size no header can hold or a batch is lost that   *)
(* is too large to be counted; what arrives behind those is anything.      *)
(***************************************************************************)
EXTENDS Naturals, Sequences

CONSTANTS
  Representable(_),   \* a header can tell the message's size
  Countable(_)        \* a batch has a size that can be told

VARIABLES
  sent, received, cut,
  intact              \* messages before the first batch that was lost

vars == <<sent, received, cut, intact>>

Init == sent = <<>> /\ received = <<>> /\ cut = FALSE /\ intact = 0

\* The batch that a step adds.
batch == SubSeq(sent', Len(sent) + 1, Len(sent'))

\* A batch is sent.  One that can be counted is not lost and cuts nothing.
Send ==
  /\ Len(sent') > Len(sent) /\ SubSeq(sent', 1, Len(sent)) = sent
  /\ intact' \in {intact, Len(sent')}
  /\ intact' = Len(sent') => intact = Len(sent)
  /\ Countable(batch) => cut' = cut /\ (intact = Len(sent) => intact' = Len(sent'))
  /\ cut => cut'
  /\ UNCHANGED received

\* The messages up to the n-th are whole, and none of them is too large.
Sound(n) == n <= intact /\ \A i \in 1 .. n : Representable(sent[i])

Deliver ==
  /\ Sound(Len(received) + 1)
  /\ received' = Append(received, sent[Len(received) + 1])
  /\ UNCHANGED <<sent, cut, intact>>

\* A message whose size was not told, or a loss, is behind what has been read.
Misleads ==
  \/ \E i \in 1 .. Len(received) + 1 : i <= Len(sent) /\ ~Representable(sent[i])
  \/ intact < Len(sent) /\ intact < Len(received) + 1

DeliverAnything ==
  /\ Misleads
  /\ Len(received') = Len(received) + 1
  /\ SubSeq(received', 1, Len(received)) = received
  /\ UNCHANGED <<sent, cut, intact>>

Cut == ~cut /\ cut' = TRUE /\ UNCHANGED <<sent, received, intact>>

Next == Send \/ Deliver \/ DeliverAnything \/ Cut

Spec == Init /\ [][Next]_vars /\ WF_vars(~cut /\ Deliver)
=============================================================================
