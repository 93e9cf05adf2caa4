---------------------------- MODULE MessageFilter ----------------------------
(***************************************************************************)
(* One direction of a connection, byte by byte: the default message filter *)
(* puts a header with its size in front of a message, the session of the   *)
(* sender writes, the session of the receiver reads what its filter asks   *)
(* for, first a header and then as many bytes as it says.                  *)
(*                                                                         *)
(* TCPSession has the same buffers, by messages, and when they are closed. *)
(***************************************************************************)
EXTENDS Integers, Sequences, SequencesExt

CONSTANTS
  B,          \* values of a byte, 256; a header has two bytes
  IntMax,     \* numeric_limits<int>::max()
  Payload,    \* messages that are sent
  MaxBatch,   \* bound: messages of one post_message_list
  MaxSent     \* bound: messages of a connection

ASSUME FilterAssumption ==
  /\ B \in Nat \ {0, 1}
  /\ Payload \subseteq Seq(0 .. B - 1) \ {<<>>}
  /\ {IntMax, MaxBatch, MaxSent} \subseteq Nat

VARIABLES
  buffer_to_be_sent_, buffer_sending_, num_write_handlers_,
  unsent,              \* asio: what async_write has not handed over
  network,             \* bytes on their way
  broken,              \* the connection
  terminated,          \* the sender's process, by an exception nobody caught
  header_, header_read_, messages_received_,
  num_read_handlers_,
  bytes_wanna_read,    \* asked of the last async_read
  buffer_receiving_,   \* as far as async_read has filled it
  sent,                \* history: messages given to post_message_list
  intact               \* history: those before the first batch that lost bytes

historyVars == <<sent, intact>>
writeVars == <<buffer_to_be_sent_, buffer_sending_, num_write_handlers_, terminated, historyVars>>
filterVars == <<header_, header_read_, messages_received_>>
readVars == <<num_read_handlers_, bytes_wanna_read>>
vars == <<writeVars, unsent, network, broken, filterVars, readVars, buffer_receiving_>>

----------------------------------------------------------------------------
(* The filter.                                                             *)

header_size == 2
HeaderModulus == B * B

\* htons(static_cast<MessageHeader>(size)).
encoded_header(size) == <<(size % HeaderModulus) \div B, size % B>>

\* Mutant of decoded_header: ntohs is forgotten.
decoded_header_unswapped(bytes) == bytes[1] + bytes[2] * B

decoded_header(bytes) == bytes[1] * B + bytes[2]

\* MessageFilter::write.
encoded(messages) ==
  FlattenSeq([i \in DOMAIN messages |-> encoded_header(Len(messages[i])) \o messages[i]])

\* The conversion of a size_t to an int, and back, as bytes_wanna_write has it.
narrow(n) == ((n + IntMax + 1) % (2 * (IntMax + 1))) - (IntMax + 1)

\* std::accumulate keeps its sum as it keeps its initial value: as an int.  A
\* negative result is the size_t that is so much below zero.
bytes_wanna_write(messages) ==
  LET bytes[n \in 0 .. Len(messages)] ==
        IF n = 0 THEN 0 ELSE narrow(bytes[n - 1] + header_size + Len(messages[n]))
  IN  bytes[Len(messages)]

\* MessageFilter::read, on a buffer that is full.
read(buffer) ==
  \/ /\ ~header_read_
     /\ header_' = decoded_header(buffer)
     /\ header_read_' = TRUE
     /\ UNCHANGED messages_received_
  \/ /\ header_read_
     /\ messages_received_' = Append(messages_received_, SubSeq(buffer, 1, header_))
     /\ header_read_' = FALSE
     /\ UNCHANGED header_

\* MessageFilter::bytes_wanna_read.
wanted == IF header_read_ THEN header_ ELSE header_size

----------------------------------------------------------------------------
(* The sessions.                                                           *)

\* init of the receiver has asked for the first header.
Init ==
  /\ buffer_to_be_sent_ = <<>> /\ buffer_sending_ = <<>> /\ num_write_handlers_ = 0
  /\ unsent = <<>> /\ network = <<>> /\ broken = FALSE /\ terminated = FALSE
  /\ header_ = 0 /\ header_read_ = FALSE /\ messages_received_ = <<>>
  /\ num_read_handlers_ = 1 /\ bytes_wanna_read = header_size
  /\ buffer_receiving_ = <<>>
  /\ sent = <<>> /\ intact = 0

\* A batch has been given; none before it has lost a byte, and it loses none.
gives(messages, whole) ==
  /\ sent' = sent \o messages
  /\ intact' = IF whole /\ intact = Len(sent) THEN Len(sent') ELSE intact

\* Mutant of post_message_list: a write under way is not looked for.
post_message_list_always_writes(messages) ==
  /\ gives(messages, TRUE)
  /\ buffer_sending_' = encoded(messages)
  /\ num_write_handlers_' = num_write_handlers_ + 1
  /\ unsent' = SubSeq(encoded(messages), 1, bytes_wanna_write(messages))
  /\ UNCHANGED <<buffer_to_be_sent_, terminated, network, broken, filterVars, readVars,
                 buffer_receiving_>>

\* The filter's bytes go behind those that wait, or out at once, as many as
\* bytes_wanna_write says.  At 0 the batch is forgotten; reserve throws at a size
\* that is below zero, and ends the process unless it is the application's thread
\* and the application goes on.
post_message_list(messages) ==
  LET bytes  == bytes_wanna_write(messages)
      queued == buffer_to_be_sent_ \o encoded(messages)
      fits   == bytes # 0 /\ Len(buffer_to_be_sent_) + bytes >= 0
  IN  /\ \/ /\ bytes = 0
            /\ gives(messages, FALSE)
            /\ UNCHANGED <<buffer_to_be_sent_, buffer_sending_, num_write_handlers_, unsent,
                           terminated, broken>>
         \/ /\ Len(buffer_to_be_sent_) + bytes < 0
            /\ gives(messages, FALSE)
            /\ terminated' \in BOOLEAN
            /\ broken' = (broken \/ terminated')
            /\ UNCHANGED <<buffer_to_be_sent_, buffer_sending_, num_write_handlers_, unsent>>
         \/ /\ fits /\ buffer_sending_ # <<>>
            /\ gives(messages, TRUE)
            /\ buffer_to_be_sent_' = queued
            /\ UNCHANGED <<buffer_sending_, num_write_handlers_, unsent, terminated, broken>>
         \/ /\ fits /\ buffer_sending_ = <<>>
            /\ gives(messages, bytes = Len(queued))
            /\ buffer_to_be_sent_' = <<>>
            /\ buffer_sending_' = queued
            /\ num_write_handlers_' = num_write_handlers_ + 1
            /\ unsent' = SubSeq(queued, 1, bytes)
            /\ UNCHANGED <<terminated, broken>>
      /\ UNCHANGED <<network, filterVars, readVars, buffer_receiving_>>

Posts ==
  /\ ~terminated
  /\ \E messages \in BoundedSeq(Payload, MaxBatch) :
       /\ messages # <<>> /\ Len(sent) + Len(messages) <= MaxSent
       /\ post_message_list(messages)

\* Mutant of hanlde_write: what was queued meanwhile is not written.
hanlde_write_stops ==
  /\ ~terminated /\ num_write_handlers_ > 0 /\ unsent = <<>>
  /\ buffer_sending_' = <<>>
  /\ num_write_handlers_' = num_write_handlers_ - 1
  /\ UNCHANGED <<buffer_to_be_sent_, unsent, terminated, historyVars, network, broken, filterVars,
                 readVars, buffer_receiving_>>

\* The write handler, when every byte has been handed over.
hanlde_write ==
  /\ ~terminated /\ num_write_handlers_ > 0 /\ unsent = <<>>
  /\ buffer_sending_' = buffer_to_be_sent_
  /\ buffer_to_be_sent_' = <<>>
  /\ num_write_handlers_' = num_write_handlers_ - (IF buffer_to_be_sent_ = <<>> THEN 1 ELSE 0)
  /\ unsent' = buffer_to_be_sent_
  /\ UNCHANGED <<terminated, historyVars, network, broken, filterVars, readVars,
                 buffer_receiving_>>

\* asio and the network take the bytes along as they can.
hand_over ==
  /\ ~terminated /\ unsent # <<>>
  /\ network' = Append(network, Head(unsent))
  /\ unsent' = Tail(unsent)
  /\ UNCHANGED <<writeVars, broken, filterVars, readVars, buffer_receiving_>>

arrive ==
  /\ num_read_handlers_ > 0 /\ Len(buffer_receiving_) < bytes_wanna_read
  /\ network # <<>>
  /\ buffer_receiving_' = Append(buffer_receiving_, Head(network))
  /\ network' = Tail(network)
  /\ UNCHANGED <<writeVars, unsent, broken, filterVars, readVars>>

\* A filter that wants no bytes ends the reading for good.
handle_read ==
  /\ num_read_handlers_ > 0 /\ Len(buffer_receiving_) = bytes_wanna_read
  /\ read(buffer_receiving_)
  /\ buffer_receiving_' = <<>>
  /\ bytes_wanna_read' = wanted'
  /\ num_read_handlers_' = num_read_handlers_ - (IF bytes_wanna_read' = 0 THEN 1 ELSE 0)
  /\ UNCHANGED <<writeVars, unsent, network, broken>>

breaks ==
  /\ ~broken
  /\ broken' = TRUE
  /\ UNCHANGED <<writeVars, unsent, network, filterVars, readVars, buffer_receiving_>>

handle_read_fails ==
  /\ broken /\ num_read_handlers_ > 0
  /\ num_read_handlers_' = num_read_handlers_ - 1
  /\ UNCHANGED <<writeVars, unsent, network, broken, filterVars, bytes_wanna_read,
                 buffer_receiving_>>

Progress == hanlde_write \/ hand_over \/ arrive \/ handle_read

Next == Posts \/ Progress \/ breaks \/ handle_read_fails

\* Handlers run, and the network brings what it has been given.
Spec ==
  /\ Init /\ [][Next]_vars
  /\ WF_vars(hanlde_write) /\ WF_vars(hand_over) /\ WF_vars(arrive) /\ WF_vars(handle_read)

----------------------------------------------------------------------------
(* Properties.                                                             *)

\* Type invariant.  A read and a write are never outstanding twice, and a write
\* is for as long as buffer_sending_ holds its bytes.
FilterTypeOK ==
  /\ {buffer_to_be_sent_, buffer_sending_, unsent, network, buffer_receiving_}
       \subseteq Seq(0 .. B - 1)
  /\ header_ \in 0 .. HeaderModulus - 1 /\ header_read_ \in BOOLEAN
  /\ messages_received_ \in Seq(Seq(0 .. B - 1)) /\ sent \in Seq(Payload)
  /\ {broken, terminated} \subseteq BOOLEAN /\ intact \in 0 .. Len(sent)
  /\ num_read_handlers_ \in {0, 1} /\ bytes_wanna_read \in Nat
  /\ num_write_handlers_ = (IF buffer_sending_ = <<>> THEN 0 ELSE 1)

\* What has been written: what was read, the header that has been read, what
\* async_read has, what is on its way and what is queued.
flow ==
  encoded(messages_received_)
    \o (IF header_read_ THEN encoded_header(header_) ELSE <<>>)
    \o buffer_receiving_ \o network \o unsent \o buffer_to_be_sent_

\* No byte is lost, doubled or read twice between two sessions, also when a
\* header lies about the size of its message: what was given to post_message_list
\* is what was read or is under way.  Once a batch has lost bytes, whose size an
\* int does not hold, that is so of all that came before it.
BytesConserved ==
  IF intact = Len(sent) THEN flow = encoded(sent)
  ELSE IsPrefix(encoded(SubSeq(sent, 1, intact)), flow)

\* A size that the header can hold, and a batch that an int can count.
Representable(message) == Len(message) \in 1 .. HeaderModulus - 1
Countable(batch) == Len(encoded(batch)) <= IntMax

Stream == INSTANCE MessageStream WITH received <- messages_received_, cut <- broken

\* Messages arrive as they were sent, in order and all of them, however the
\* network cuts them up, until one is sent whose size the header cannot hold or
\* a batch loses bytes, which none does that an int can count.
ImplementsMessageStream == Stream!Spec
=============================================================================
