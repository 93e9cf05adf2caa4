---------------------- MODULE EddyServerMessages_proofs ----------------------
(***************************************************************************)
(* Messages are neither lost, repeated nor reordered between a session and *)
(* its handler, in either direction, for any number of sessions, threads,  *)
(* ids and messages.                                                       *)
(*                                                                         *)
(* The lists that wait in a queue are one sequence of messages, to which a *)
(* post appends and from which a thread that runs its first task takes the *)
(* front.  A step moves messages from one place to the next.               *)
(***************************************************************************)
EXTENDS EddyServer_proofs, SequenceLemmas

----------------------------------------------------------------------------
(* The messages that wait in a queue.                                      *)

ListOps == {"SendMessageListToSession", "SendMessageListToHandler"}

transit(queue, op, id, h) == FlattenSeq(carried(queue, op, id, h))

IsInit(x, h) == x.op = "init" /\ x.s = h

\* What task x adds.
part(x, op, id) == IF x.op = op /\ x.id = id THEN x.msgs ELSE <<>>

LEMMA PartType ==
  ASSUME NEW x \in Task, NEW op \in ListOps, NEW id
  PROVE  part(x, op, id) \in Seq(Message)
BY TaskCarries, EmptySeq DEF part, ListOps

\* What `carried' makes of each task.
Carries(c, q, op, id, h) ==
  /\ c \in Seq(Seq(Message)) /\ Len(c) = Len(q)
  /\ \A i \in 1 .. Len(q) :
       c[i] = IF \A j \in i .. Len(q) : ~ IsInit(q[j], h) THEN part(q[i], op, id) ELSE <<>>

LEMMA CarriedType ==
  ASSUME NEW q \in Seq(Task), NEW op \in ListOps, NEW id, NEW h
  PROVE  Carries(carried(q, op, id, h), q, op, id, h)
<1> DEFINE c == carried(q, op, id, h)
           n == Len(q)
<1>1. n \in Nat /\ DOMAIN q = 1 .. n /\ \A i \in 1 .. n : q[i] \in Task
  BY LenProperties
<1>2. c = [i \in 1 .. n |->
             IF \A j \in i .. n : ~ IsInit(q[j], h) THEN part(q[i], op, id) ELSE <<>>]
  BY <1>1 DEF carried, IsInit, part
<1>3. \A i \in 1 .. n : part(q[i], op, id) \in Seq(Message)
  BY <1>1, PartType
<1> HIDE DEF c, n
<1>4. \A i \in 1 .. n : c[i] \in Seq(Message)
  BY <1>2, <1>3, EmptySeq
<1>5. c \in [1 .. n -> Seq(Message)]
  BY <1>2, <1>4
<1>6. c \in Seq(Seq(Message)) /\ Len(c) = n
  BY <1>1, <1>5, SeqDef, LenProperties
<1> QED BY <1>2, <1>6 DEF c, n, Carries

LEMMA TransitType ==
  ASSUME NEW q \in Seq(Task), NEW op \in ListOps, NEW id, NEW h
  PROVE  transit(q, op, id, h) \in Seq(Message)
BY CarriedType, FlattenAppend, EmptySeq DEF transit, Carries

\* A post that is no init of h appends what it carries.
LEMMA TransitAppend ==
  ASSUME NEW q \in Seq(Task), NEW op \in ListOps, NEW id, NEW h, NEW x \in Task,
         ~ IsInit(x, h)
  PROVE  transit(Append(q, x), op, id, h) = transit(q, op, id, h) \o part(x, op, id)
<1> DEFINE r == Append(q, x)
           n == Len(q)
           e == part(x, op, id)
           c == carried(q, op, id, h)
           d == carried(r, op, id, h)
<1>1. /\ r \in Seq(Task) /\ n \in Nat /\ Len(r) = n + 1
      /\ \A i \in 1 .. n : r[i] = q[i]
      /\ r[n + 1] = x
  BY AppendProperties, LenProperties
<1>2. e \in Seq(Message)
  BY PartType
<1>3. /\ c \in Seq(Seq(Message)) /\ Len(c) = n
      /\ \A i \in 1 .. n :
           c[i] = IF \A j \in i .. n : ~ IsInit(q[j], h) THEN part(q[i], op, id) ELSE <<>>
  BY CarriedType DEF Carries
<1> HIDE DEF r
<1>4. /\ d \in Seq(Seq(Message)) /\ Len(d) = n + 1
      /\ \A i \in 1 .. n + 1 :
           d[i] = IF \A j \in i .. n + 1 : ~ IsInit(r[j], h) THEN part(r[i], op, id) ELSE <<>>
  <2>1. Carries(d, r, op, id, h)
    BY <1>1, CarriedType
  <2> HIDE DEF d, n
  <2> QED BY <1>1, <2>1 DEF Carries
<1> HIDE DEF n, e, c, d
<1>5. ASSUME NEW i \in 1 .. n PROVE d[i] = c[i]
  <2>1. \A j \in i .. n + 1 : j \in i .. n \/ j = n + 1
    BY <1>1
  <2>2. \A j \in i .. n : j \in i .. n + 1 /\ j \in 1 .. n
    BY <1>1
  <2>3. (\A j \in i .. n + 1 : ~ IsInit(r[j], h)) <=> \A j \in i .. n : ~ IsInit(q[j], h)
    BY <1>1, <2>1, <2>2
  <2>4. i \in 1 .. n + 1 /\ r[i] = q[i]
    BY <1>1
  <2> QED BY <1>3, <1>4, <2>3, <2>4
<1>6. d[n + 1] = e
  <2>1. n + 1 \in 1 .. n + 1 /\ \A j \in n + 1 .. n + 1 : j = n + 1
    BY <1>1
  <2> QED BY <1>1, <1>4, <2>1 DEF e
<1>7. d = Append(c, e)
  <2>1. /\ Append(c, e) \in Seq(Seq(Message)) /\ Len(Append(c, e)) = n + 1
        /\ \A i \in 1 .. n : Append(c, e)[i] = c[i]
        /\ Append(c, e)[n + 1] = e
    BY <1>2, <1>3, AppendProperties
  <2>2. \A i \in 1 .. n + 1 : d[i] = Append(c, e)[i]
    BY <1>1, <1>5, <1>6, <2>1
  <2> QED BY <1>4, <2>1, <2>2, SeqEqual
<1>8. FlattenSeq(Append(c, e)) = FlattenSeq(c) \o e
  BY <1>2, <1>3, FlattenAppend
<1> QED BY <1>7, <1>8 DEF transit, c, d, e, r

\* What waits before the init of h is not for h.
LEMMA TransitInit ==
  ASSUME NEW q \in Seq(Task), NEW op \in ListOps, NEW id, NEW h, NEW x \in Task, IsInit(x, h)
  PROVE  transit(Append(q, x), op, id, h) = <<>>
<1> DEFINE r == Append(q, x)
           n == Len(q)
           d == carried(r, op, id, h)
<1>1. r \in Seq(Task) /\ n \in Nat /\ Len(r) = n + 1 /\ r[n + 1] = x
  BY AppendProperties, LenProperties
<1> HIDE DEF r
<1>2. /\ d \in Seq(Seq(Message)) /\ Len(d) = n + 1
      /\ \A i \in 1 .. n + 1 :
           d[i] = IF \A j \in i .. n + 1 : ~ IsInit(r[j], h) THEN part(r[i], op, id) ELSE <<>>
  <2>1. Carries(d, r, op, id, h)
    BY <1>1, CarriedType
  <2> HIDE DEF d, n
  <2> QED BY <1>1, <2>1 DEF Carries
<1> HIDE DEF n, d
<1>3. \A i \in 1 .. n + 1 : d[i] = <<>>
  <2>1. \A i \in 1 .. n + 1 : n + 1 \in i .. n + 1
    BY <1>1
  <2> QED BY <1>1, <1>2, <2>1
<1>4. FlattenSeq(d) = FlattenSeq(<<>>)
  BY <1>1, <1>2, <1>3, FlattenNothing
<1> QED BY <1>4, FlattenNothing DEF transit, d, r

\* The front of what waits leaves with the head of the queue.
LEMMA TransitTail ==
  ASSUME NEW q \in Seq(Task), q # <<>>, NEW op \in ListOps, NEW id, NEW h
  PROVE  /\ transit(q, op, id, h)
              = (IF \A j \in DOMAIN q : ~ IsInit(q[j], h) THEN part(Head(q), op, id) ELSE <<>>)
                  \o transit(Tail(q), op, id, h)
         /\ Head(q).op # op => transit(q, op, id, h) = transit(Tail(q), op, id, h)
<1> DEFINE r == Tail(q)
           n == Len(q)
           c == carried(q, op, id, h)
           d == carried(r, op, id, h)
<1>1. /\ r \in Seq(Task) /\ n \in Nat \ {0} /\ Len(r) = n - 1
      /\ \A i \in 1 .. n - 1 : r[i] = q[i + 1]
      /\ Head(q) = q[1] /\ Head(q) \in Task /\ DOMAIN q = 1 .. n
  BY HeadTailProperties, LenProperties, EmptySeq
<1>2. /\ c \in Seq(Seq(Message)) /\ Len(c) = n
      /\ \A i \in 1 .. n :
           c[i] = IF \A j \in i .. n : ~ IsInit(q[j], h) THEN part(q[i], op, id) ELSE <<>>
  BY CarriedType DEF Carries
<1> HIDE DEF r
<1>3. /\ d \in Seq(Seq(Message)) /\ Len(d) = n - 1
      /\ \A i \in 1 .. n - 1 :
           d[i] = IF \A j \in i .. n - 1 : ~ IsInit(r[j], h) THEN part(r[i], op, id) ELSE <<>>
  <2>1. Carries(d, r, op, id, h)
    BY <1>1, CarriedType
  <2> HIDE DEF d, n
  <2> QED BY <1>1, <2>1 DEF Carries
<1> HIDE DEF n, c, d
<1>4. ASSUME NEW i \in 1 .. n - 1 PROVE d[i] = c[i + 1]
  <2>1. \A j \in i .. n - 1 : j \in 1 .. n - 1 /\ j + 1 \in i + 1 .. n
    BY <1>1
  <2>2. \A j \in i + 1 .. n : j - 1 \in i .. n - 1 /\ j - 1 \in 1 .. n - 1 /\ (j - 1) + 1 = j
    BY <1>1
  <2>3. (\A j \in i .. n - 1 : ~ IsInit(r[j], h)) <=> \A j \in i + 1 .. n : ~ IsInit(q[j], h)
    BY <1>1, <2>1, <2>2
  <2>4. i + 1 \in 1 .. n /\ r[i] = q[i + 1]
    BY <1>1
  <2>5. c[i + 1] = IF \A j \in i + 1 .. n : ~ IsInit(q[j], h)
                   THEN part(q[i + 1], op, id) ELSE <<>>
    BY <1>2, <2>4
  <2>6. d[i] = IF \A j \in i .. n - 1 : ~ IsInit(r[j], h) THEN part(r[i], op, id) ELSE <<>>
    BY <1>3
  <2> QED BY <2>3, <2>4, <2>5, <2>6
<1>5. d = Tail(c)
  <2>1. c # <<>>
    BY <1>1, <1>2
  <2>2. /\ Tail(c) \in Seq(Seq(Message)) /\ Len(Tail(c)) = n - 1
        /\ \A i \in 1 .. n - 1 : Tail(c)[i] = c[i + 1]
    BY <1>1, <1>2, <2>1, HeadTailProperties
  <2> QED BY <1>3, <1>4, <2>2, SeqEqual
<1>6. FlattenSeq(c) = c[1] \o FlattenSeq(Tail(c))
  <2>1. c # <<>>
    BY <1>1, <1>2
  <2> QED BY <1>2, <2>1, FlattenTail
<1>7. c[1] = IF \A j \in 1 .. n : ~ IsInit(q[j], h) THEN part(q[1], op, id) ELSE <<>>
  BY <1>1, <1>2
<1>8. FlattenSeq(d) \in Seq(Message)
  BY <1>3, FlattenAppend, EmptySeq
<1>9. Head(q).op # op => c[1] = <<>> /\ <<>> \o FlattenSeq(d) = FlattenSeq(d)
  BY <1>1, <1>7, <1>8, ConcatEmptySeq DEF part
<1> QED BY <1>1, <1>5, <1>6, <1>7, <1>9 DEF transit, c, d, r

----------------------------------------------------------------------------
(* What a step does to the lists that wait.                                *)

LEMMA PostTransit ==
  ASSUME NEW queues \in Queues, NEW t \in Threads, NEW x \in Task, NEW op \in ListOps,
         NEW id, NEW h, ~ IsInit(x, h)
  PROVE  transit(post(queues, t, x)[t], op, id, h)
           = transit(queues[t], op, id, h) \o part(x, op, id)
<1>1. queues[t] \in Seq(Task) /\ post(queues, t, x)[t] = Append(queues[t], x)
  BY DEF Queues, post
<1> QED BY SMTT(30), <1>1, TransitAppend

LEMMA PostElsewhere ==
  ASSUME NEW queues \in Queues, NEW t, NEW x, NEW u \in Threads, u # t
  PROVE  post(queues, t, x)[u] = queues[u]
BY DEF post, Queues

\* No list is added or taken.
Quiet(op, before, after) ==
  \A t \in Threads, id \in Id, h \in Session :
    transit(after[t], op, id, h) = transit(before[t], op, id, h)

LEMMA QuietReflexive == ASSUME NEW op, NEW a PROVE Quiet(op, a, a)
BY DEF Quiet

LEMMA QuietTransitive ==
  ASSUME NEW op, NEW a, NEW b, NEW c, Quiet(op, a, b), Quiet(op, b, c)
  PROVE  Quiet(op, a, c)
BY DEF Quiet

LEMMA PostQuiet ==
  ASSUME NEW queues \in Queues, NEW t, NEW x \in Task, NEW op \in ListOps,
         x.op # op, x.op # "init"
  PROVE  Quiet(op, queues, post(queues, t, x))
<1>1. CASE t \notin Threads
  <2>1. post(queues, t, x) = queues
    BY <1>1 DEF post, Queues
  <2> QED BY <2>1, QuietReflexive
<1>2. CASE t \in Threads
  <2> SUFFICES ASSUME NEW u \in Threads, NEW id \in Id, NEW h \in Session
               PROVE  transit(post(queues, t, x)[u], op, id, h) = transit(queues[u], op, id, h)
    BY DEF Quiet
  <2>0. ~ IsInit(x, h)
    BY DEF IsInit
  <2>1. part(x, op, id) = <<>>
    BY DEF part
  <2>2. transit(queues[u], op, id, h) \in Seq(Message)
    BY TransitType DEF Queues
  <2>3. transit(queues[u], op, id, h) \o <<>> = transit(queues[u], op, id, h)
    BY <2>2, ConcatEmptySeq
  <2>4. CASE u = t
    <3>1. transit(post(queues, t, x)[t], op, id, h)
            = transit(queues[t], op, id, h) \o part(x, op, id)
      BY <1>2, <2>0, PostTransit
    <3> QED BY <2>1, <2>3, <2>4, <3>1
  <2>5. CASE u # t
    BY <2>5, PostElsewhere
  <2> QED BY <2>4, <2>5
<1> QED BY <1>1, <1>2

LEMMA PopQuiet ==
  ASSUME IoTypeOK, NEW t \in Threads, tasks[t] # <<>>, NEW op \in ListOps,
         Head(tasks[t]).op # op
  PROVE  Quiet(op, tasks, popped(t))
<1> SUFFICES ASSUME NEW u \in Threads, NEW id \in Id, NEW h \in Session
             PROVE  transit(popped(t)[u], op, id, h) = transit(tasks[u], op, id, h)
  BY DEF Quiet
<1>1. popped(t)[u] = IF u = t THEN Tail(tasks[t]) ELSE tasks[u]
  BY DEF popped, IoTypeOK
<1>2. tasks[t] \in Seq(Task)
  BY DEF IoTypeOK
<1> QED BY <1>1, <1>2, TransitTail

LEMMA CloseQuiet ==
  ASSUME SessionTypeOK, NEW s \in Session, NEW writes, NEW queues \in Queues, NEW op \in ListOps,
         hanlde_close(s, writes, queues) \/ close(s, queues)
  PROVE  Quiet(op, queues, tasks')
<1> DEFINE x == closedTask(session_id_[s])
<1>1. tasks' = queues \/ tasks' = post(queues, MainThread, x)
  BY DEF close, hanlde_close, closedTask
<1>2. x \in Task /\ x.op = "on_session_closed"
  <2>1. session_id_[s] \in Id
    BY DEF SessionTypeOK, BuiltTypeOK
  <2> QED BY <2>1, TaskTypes DEF closedTask
<1>3. x.op # op /\ x.op # "init"
  BY <1>2 DEF ListOps
<1> HIDE DEF x
<1> QED BY <1>1, <1>2, <1>3, PostQuiet, QuietReflexive

LEMMA KeepAliveQuiet ==
  ASSUME ServerTypeOK, NEW t \in Threads, check_keep_alive(t), NEW op \in ListOps
  PROVE  Quiet(op, tasks, tasks')
<1>1. PICK expired \in SUBSET Session : \E order \in SetToSeqs(expired) :
        tasks' = [tasks EXCEPT
          ![t] = @ \o [i \in DOMAIN order |-> [op |-> "close", s |-> order[i]]]]
  BY DEF check_keep_alive
<1>2. PICK order \in SetToSeqs(expired) :
        tasks' = [tasks EXCEPT
          ![t] = @ \o [i \in DOMAIN order |-> [op |-> "close", s |-> order[i]]]]
  BY <1>1
<1> DEFINE closes == [i \in DOMAIN order |-> [op |-> "close", s |-> order[i]]]
           q == tasks[t]
           r == q \o closes
           n == Len(q)
           m == Cardinality(expired)
<1>3. m \in Nat /\ order \in [1 .. m -> Session]
  BY FS_Subset, FS_CardinalityType, TypesAssumption DEF SetToSeqs
<1>4. closes \in Seq(Task) /\ Len(closes) = m /\ \A i \in 1 .. m : closes[i].op = "close"
  <2>1. closes = [i \in 1 .. m |-> [op |-> "close", s |-> order[i]]]
    BY <1>3
  <2>2. \A i \in 1 .. m : [op |-> "close", s |-> order[i]] \in Task
    BY <1>3, TaskTypes
  <2> HIDE DEF closes
  <2>3. closes \in [1 .. m -> Task]
    BY <2>1, <2>2
  <2> QED BY <1>3, <2>1, <2>3, SeqDef, LenProperties
<1>5. q \in Seq(Task) /\ n \in Nat
  BY LenProperties DEF ServerTypeOK, IoTypeOK
<1> HIDE DEF closes, q, m
<1>6. /\ r \in Seq(Task) /\ Len(r) = n + m
      /\ \A i \in 1 .. n : r[i] = q[i]
      /\ \A i \in n + 1 .. n + m : r[i] = closes[i - n]
  <2>1. r \in Seq(Task) /\ Len(r) = n + m
    BY <1>4, <1>5, ConcatProperties
  <2>2. \A i \in 1 .. n + m : r[i] = IF i <= n THEN q[i] ELSE closes[i - n]
    BY <1>4, <1>5, ConcatProperties
  <2> HIDE DEF r, n
  <2>3. \A i \in 1 .. n : i \in 1 .. n + m /\ i <= n
    BY <1>3, <1>5
  <2>4. \A i \in n + 1 .. n + m : i \in 1 .. n + m /\ ~(i <= n)
    BY <1>3, <1>5
  <2> QED BY <2>1, <2>2, <2>3, <2>4
<1>7. /\ tasks'[t] = r
      /\ \A u \in Threads : u # t => tasks'[u] = tasks[u]
  BY <1>2 DEF closes, q, ServerTypeOK, IoTypeOK
<1> HIDE DEF r, n
<1>8. \A i \in n + 1 .. n + m : r[i].op = "close"
  <2>1. \A i \in n + 1 .. n + m : i - n \in 1 .. m
    BY <1>3, <1>5
  <2> QED BY <1>4, <1>6, <2>1
<1>9. ASSUME NEW id \in Id, NEW h \in Session
      PROVE  transit(r, op, id, h) = transit(q, op, id, h)
  <2> DEFINE c == carried(q, op, id, h)
             d == carried(r, op, id, h)
  <2>1. Carries(c, q, op, id, h) /\ Carries(d, r, op, id, h)
    BY <1>5, <1>6, CarriedType
  <2> HIDE DEF c, d
  <2>2. /\ c \in Seq(Seq(Message)) /\ d \in Seq(Seq(Message))
        /\ Len(c) = n /\ Len(d) = n + m
    BY <1>6, <2>1 DEF Carries, n
  <2>3. ASSUME NEW i \in 1 .. n + m PROVE d[i] = IF i <= n THEN c[i] ELSE <<>>
    <3>1. d[i] = IF \A j \in i .. n + m : ~ IsInit(r[j], h)
                 THEN part(r[i], op, id) ELSE <<>>
      BY <1>6, <2>1 DEF Carries
    <3>2. CASE i <= n
      <4>1. i \in 1 .. n /\ r[i] = q[i]
        BY <1>5, <1>6, <3>2
      <4>2. c[i] = IF \A j \in i .. n : ~ IsInit(q[j], h) THEN part(q[i], op, id) ELSE <<>>
        BY <2>1, <4>1 DEF Carries, n
      <4>3. \A j \in i .. n + m : j \in i .. n \/ j \in n + 1 .. n + m
        BY <1>3, <1>5
      <4>4. \A j \in i .. n : j \in i .. n + m /\ j \in 1 .. n
        BY <1>3, <1>5
      <4>5. (\A j \in i .. n + m : ~ IsInit(r[j], h)) <=> \A j \in i .. n : ~ IsInit(q[j], h)
        BY <1>6, <1>8, <4>3, <4>4 DEF IsInit
      <4> QED BY <3>1, <3>2, <4>1, <4>2, <4>5
    <3>3. CASE ~(i <= n)
      <4>1. i \in n + 1 .. n + m
        BY <1>3, <1>5, <3>3
      <4>2. part(r[i], op, id) = <<>>
        BY <1>8, <4>1 DEF part, ListOps
      <4> QED BY <3>1, <3>3, <4>2
    <3> QED BY <3>2, <3>3
  <2>4. n <= n + m
    BY <1>3, <1>5
  <2>5. FlattenSeq(d) = FlattenSeq(c)
    BY <2>2, <2>3, <2>4, FlattenPadded
  <2> QED BY <2>5 DEF transit, c, d
<1>10. \A u \in Threads, id \in Id, h \in Session :
         transit(tasks'[u], op, id, h) = transit(tasks[u], op, id, h)
  BY <1>7, <1>9 DEF q
<1> QED BY <1>10 DEF Quiet

----------------------------------------------------------------------------
(* What a step does to what a session has written or is going to write.    *)

onwire(h) == wire[h] \o buffer_to_be_sent_[h]

\* h takes part in post_message_list with these messages.
Gets(h, messages) ==
  onwire(h)' = IF closed_[h] THEN onwire(h) ELSE onwire(h) \o messages

LEMMA SameWire ==
  ASSUME NEW h \in Session, wire'[h] = wire[h],
         buffer_to_be_sent_'[h] = buffer_to_be_sent_[h]
  PROVE  onwire(h)' = onwire(h)
BY DEF onwire

LEMMA WireVars ==
  ASSUME NEW h \in Session
  PROVE  /\ UNCHANGED writeVars => onwire(h)' = onwire(h)
         /\ UNCHANGED sessionVars => onwire(h)' = onwire(h)
BY DEF writeVars, sessionVars, onwire

LEMMA PostOnWire ==
  ASSUME ServerTypeOK, OneWriteInFlight, NEW s, NEW messages \in Seq(Message),
         post_message_list(s, messages), UNCHANGED <<session_id_, closed_>>, NEW q \in Session
  PROVE  IF q = s THEN Gets(q, messages) ELSE onwire(q)' = onwire(q)
<1>1. wire[q] \in Seq(Message) /\ buffer_to_be_sent_[q] \in Seq(Message)
  BY DEF ServerTypeOK, SessionTypeOK, WriteTypeOK
<1>2. onwire(q) \in Seq(Message)
  BY <1>1, ConcatProperties DEF onwire
<1>3. CASE q # s
  <2>1. wire'[q] = wire[q] /\ buffer_to_be_sent_'[q] = buffer_to_be_sent_[q]
    BY <1>3
    DEF post_message_list, async_write, writeVars, ServerTypeOK, SessionTypeOK, WriteTypeOK
  <2> QED BY <1>3, <2>1, SameWire
<1>4. CASE q = s /\ ~ Posts(q, messages)
  <2>1. onwire(q)' = onwire(q)
    BY <1>4, PostEffect, SameWire DEF Rests, SameWrites, SameBuffers
  <2>2. closed_[q] \/ messages = <<>>
    BY <1>4
    DEF post_message_list, async_write, Posts, Enqueues, Starts, StaysOpen, ServerTypeOK,
        SessionTypeOK, WriteTypeOK
  <2>3. onwire(q) \o <<>> = onwire(q)
    BY <1>2, ConcatEmptySeq
  <2> QED BY <1>4, <2>1, <2>2, <2>3 DEF Gets
<1>5. CASE q = s /\ Posts(q, messages)
  <2> DEFINE w == wire[q]
             b == buffer_to_be_sent_[q]
  <2>1. w \in Seq(Message) /\ b \in Seq(Message)
    BY <1>1
  <2>2. (w \o b) \o messages = w \o (b \o messages)
    <3> HIDE DEF w, b
    <3> QED BY <2>1, Associative
  <2>3. ~ closed_[q]
    BY <1>5 DEF Posts, Enqueues, Starts, StaysOpen
  <2>4. CASE Enqueues(q, messages)
    <3>1. onwire(q)' = w \o (b \o messages)
      BY <2>4 DEF Enqueues, onwire
    <3> QED BY <1>5, <2>2, <2>3, <3>1 DEF Gets, onwire
  <2>5. CASE Starts(q, messages)
    <3>1. b = <<>>
      BY <2>3, <2>5 DEF Starts, OneWriteInFlight
    <3>2. <<>> \o messages = messages /\ SubSeq(messages, 1, Len(messages)) = messages
      BY ConcatEmptySeq, SubSeqFull
    <3>3. wire'[q] = w \o messages /\ buffer_to_be_sent_'[q] = <<>>
      BY <2>5, <3>1, <3>2 DEF Starts
    <3>4. w \o messages \in Seq(Message)
      BY <2>1, ConcatProperties
    <3>5. onwire(q)' = w \o messages
      BY <3>3, <3>4, ConcatEmptySeq DEF onwire
    <3>6. onwire(q) = w
      BY <2>1, <3>1, ConcatEmptySeq DEF onwire
    <3> QED BY <1>5, <2>3, <3>5, <3>6 DEF Gets
  <2> QED BY <1>5, <2>4, <2>5 DEF Posts
<1> QED BY <1>3, <1>4, <1>5

----------------------------------------------------------------------------
(* What a step does to the messages that handlers send.                    *)

toSession == "SendMessageListToSession"
toHandler == "SendMessageListToHandler"

WireRests == \A q \in Session : onwire(q)' = onwire(q)

Connects ==
  \E s \in Session, t \in Threads, id \in Id :
    handler_thread_id_[s] = 0 /\ tasks' = post(tasks, t, initTask(s, id))

Uses ==
  \E g \in Session, queues \in Queues :
    /\ handler_session_id_[g] # 0 /\ Quiet(toSession, tasks, queues)
    /\ send(g, queues) \/ handler_close(g, queues)

Outbound ==
  \/ /\ WireRests
     /\ \/ Quiet(toSession, tasks, tasks') /\ UNCHANGED handlerVars
        \/ Connects /\ UNCHANGED handlerVars
        \/ Uses
        \/ \E g \in Session : handler_PackMessageList(g)
  \/ \E g \in Session : handler_SendMessageListDirectly(g)
  \/ \E t \in Threads, id \in Id, msgs \in Seq(Message) : SendMessageListToSession(t, id, msgs)

LEMMA ListOpsAre == toSession \in ListOps /\ toHandler \in ListOps /\ toSession # toHandler
BY DEF ListOps, toSession, toHandler

LEMMA RestsOnWire ==
  /\ UNCHANGED writeVars => WireRests
  /\ UNCHANGED sessionVars => WireRests
BY WireVars DEF WireRests

LEMMA PopsQuietly ==
  ASSUME ServerTypeOK, NEW t \in Threads, tasks[t] # <<>>, NEW op \in ListOps,
         Head(tasks[t]).op # op
  PROVE  popped(t) \in Queues /\ Quiet(op, tasks, popped(t))
BY PopType, PopQuiet DEF ServerTypeOK

LEMMA MainOutbound == ASSUME IdsInv, MainStep PROVE Outbound
<1>0. ServerTypeOK /\ MainThread \in Threads
  BY MainThreadIsThread DEF IdsInv
<1> DEFINE queues == popped(MainThread)
<1>1. ASSUME NEW h \in Session, handler_PackMessageList(h) PROVE Outbound
  BY <1>1, RestsOnWire DEF handler_PackMessageList, Outbound
<1>2. ASSUME NEW s \in Session, session_SendMessageListDirectly(s) PROVE Outbound
  <2>1. tasks[MainThread] # <<>> /\ Head(tasks[MainThread]).op = "session.SendMessageListDirectly"
    BY <1>2, RunsOp DEF session_SendMessageListDirectly, runs
  <2>2. Quiet(toSession, tasks, queues)
    BY <1>0, <2>1, ListOpsAre, PopsQuietly DEF toSession
  <2> QED BY <1>2, <2>2, RestsOnWire DEF session_SendMessageListDirectly, Outbound
<1>3. ASSUME NEW id \in Id, NEW msgs \in Seq(Message), SendMessageListToHandler(id, msgs)
      PROVE  Outbound
  <2>1. tasks[MainThread] # <<>> /\ Head(tasks[MainThread]).op = toHandler
    BY <1>3, RunsOp DEF SendMessageListToHandler, runs, toHandler
  <2>2. Quiet(toSession, tasks, queues)
    BY <1>0, <2>1, ListOpsAre, PopsQuietly
  <2> QED BY <1>3, <2>2, RestsOnWire DEF SendMessageListToHandler, Outbound
<1>4. ASSUME NEW id \in Id, session_closed(id) PROVE Outbound
  <2> DEFINE h == session_handler_map_[id]
  <2>1. tasks[MainThread] # <<>> /\ Head(tasks[MainThread]).op = "on_session_closed"
    BY <1>4, RunsOp DEF session_closed, runs
  <2>2. queues \in Queues /\ Quiet(toSession, tasks, queues)
    BY <1>0, <2>1, ListOpsAre, PopsQuietly DEF toSession
  <2>3. WireRests
    BY <1>4, RestsOnWire DEF session_closed
  <2>4. \/ tasks' = queues /\ UNCHANGED handlerVars
        \/ h # nullptr /\ (send(h, queues) \/ handler_close(h, queues))
    BY <1>4 DEF session_closed
  <2>5. ASSUME h # nullptr PROVE h \in Session /\ handler_session_id_[h] # 0
    <3>1. h \in Session /\ id # 0
      BY <1>0, <2>5, IdFacts DEF ServerTypeOK, ManagerTypeOK
    <3> QED BY <3>1 DEF IdsInv, IInv, HandlersIndexed
  <2> HIDE DEF h, queues
  <2> QED BY <2>2, <2>3, <2>4, <2>5 DEF Outbound, Uses
<1> QED BY <1>1, <1>2, <1>3, <1>4 DEF MainStep, Outbound

LEMMA ThreadOutbound == ASSUME IdsInv, ThreadStep PROVE Outbound
<1>0. ServerTypeOK
  BY DEF IdsInv
<1>1. ASSUME WireRests, UNCHANGED handlerVars, Quiet(toSession, tasks, tasks') PROVE Outbound
  BY <1>1 DEF Outbound
<1>2. ASSUME NEW s \in Session, io_thread_[s] \in Threads,
             \/ session_PackMessageList(s)
             \/ keep_alive_close(s)
             \/ close_timeout(s) /\ sessionAlone
             \/ (\E id \in Id : init(s, id)) /\ sessionAlone
      PROVE  Outbound
  <2> DEFINE queues == popped(io_thread_[s])
  <2>1. tasks[io_thread_[s]] # <<>>
    BY <1>2 DEF session_PackMessageList, keep_alive_close, close_timeout, init, runs
  <2>2. Head(tasks[io_thread_[s]]).op # toSession
    <3>1. CASE session_PackMessageList(s)
      BY <3>1, RunsOp DEF session_PackMessageList, toSession
    <3>2. CASE keep_alive_close(s)
      BY <3>2, RunsOp DEF keep_alive_close, toSession
    <3>3. CASE close_timeout(s)
      BY <3>3, RunsOp DEF close_timeout, toSession
    <3>4. CASE \E id \in Id : init(s, id)
      BY <3>4, RunsOp DEF init, toSession
    <3> QED BY <1>2, <3>1, <3>2, <3>3, <3>4
  <2>3. queues \in Queues /\ Quiet(toSession, tasks, queues)
    BY <1>0, <1>2, <2>1, <2>2, ListOpsAre, PopsQuietly
  <2>4. UNCHANGED handlerVars /\ WireRests
    <3>1. UNCHANGED writeVars
      BY <1>2 DEF session_PackMessageList, keep_alive_close, close, close_timeout, init
    <3>2. UNCHANGED handlerVars
      BY <1>2 DEF session_PackMessageList, keep_alive_close, sessionAlone
    <3> QED BY <3>1, <3>2, RestsOnWire
  <2>5. \/ tasks' = queues \/ close(s, queues)
        \/ session_PackMessageList(s) /\ tasks' # queues
    BY <1>2 DEF keep_alive_close, close_timeout, init
  <2>6. ASSUME session_PackMessageList(s), tasks' # queues
        PROVE  Quiet(toSession, queues, tasks')
    <3> DEFINE list == [op |-> "SendMessageListToHandler", id |-> session_id_[s],
                        msgs |-> messages_received_[s]]
    <3>1. tasks' = post(queues, MainThread, list)
      BY <2>6 DEF session_PackMessageList
    <3>2. list \in Task /\ list.op = toHandler
      BY <1>0, TaskTypes
      DEF ServerTypeOK, SessionTypeOK, BuiltTypeOK, ReadTypeOK, toHandler
    <3>3. list.op # toSession /\ list.op # "init"
      BY <3>2, ListOpsAre DEF toHandler
    <3> HIDE DEF list, queues
    <3> QED BY <2>3, <3>1, <3>2, <3>3, ListOpsAre, PostQuiet
  <2> HIDE DEF queues
  <2>7. Quiet(toSession, queues, tasks')
    BY <1>0, <2>3, <2>5, <2>6, ListOpsAre, CloseQuiet, QuietReflexive DEF ServerTypeOK
  <2> QED BY <1>1, <2>3, <2>4, <2>7, QuietTransitive
<1>3. ASSUME NEW t \in Threads, NEW id \in Id, CloseSession(t, id), alone PROVE Outbound
  <2> DEFINE queues == popped(t)
             s == session_queue_[t][id]
  <2>1. tasks[t] # <<>> /\ Head(tasks[t]).op = "CloseSession"
    BY <1>3, RunsOp DEF CloseSession, runs
  <2>2. queues \in Queues /\ Quiet(toSession, tasks, queues)
    BY <1>0, <2>1, ListOpsAre, PopsQuietly DEF toSession
  <2>3. CASE s = nullptr
    BY <1>1, <1>3, <2>2, <2>3, RestsOnWire DEF CloseSession
  <2>4. CASE s # nullptr
    <3>1. s \in Session /\ close(s, queues) /\ UNCHANGED handlerVars
      BY <1>0, <1>3, <2>4 DEF CloseSession, ServerTypeOK, SessionTypeOK, CloseTypeOK
    <3>2. UNCHANGED writeVars
      BY <3>1 DEF close
    <3> HIDE DEF queues, s
    <3>3. Quiet(toSession, queues, tasks')
      BY <1>0, <2>2, <3>1, ListOpsAre, CloseQuiet DEF ServerTypeOK
    <3> QED BY <1>1, <2>2, <3>1, <3>2, <3>3, RestsOnWire, QuietTransitive
  <2> QED BY <2>3, <2>4
<1> QED BY <1>2, <1>3 DEF ThreadStep, Outbound

LEMMA CompletionOutbound == ASSUME IdsInv, CompletionStep PROVE Outbound
<1>0. ServerTypeOK /\ tasks \in Queues
  BY DEF IdsInv, ServerTypeOK, IoTypeOK, Queues
<1>1. PICK s \in Session :
        /\ \/ hanlde_write(s) \/ hanlde_write_fails(s)
           \/ handle_read_fails(s) \/ \E n \in Nat : handle_read(s, n)
           \/ handle_safe_close(s) \/ close_timer_expires(s)
        /\ sessionAlone
  BY DEF CompletionStep
<1>2. UNCHANGED handlerVars
  BY <1>1 DEF sessionAlone
<1>3. ASSUME WireRests, Quiet(toSession, tasks, tasks') PROVE Outbound
  BY <1>2, <1>3 DEF Outbound
<1>4. ASSUME NEW x \in Task, x.op # toSession, x.op # "init",
             tasks' = tasks \/ \E t : tasks' = post(tasks, t, x)
      PROVE  Quiet(toSession, tasks, tasks')
  BY <1>0, <1>4, ListOpsAre, PostQuiet, QuietReflexive
<1>5. CASE hanlde_write(s)
  <2>1. ASSUME NEW q \in Session PROVE onwire(q)' = onwire(q)
    <3>1. CASE q # s
      <4>1. wire'[q] = wire[q] /\ buffer_to_be_sent_'[q] = buffer_to_be_sent_[q]
        BY <1>0, <1>5, <3>1 DEF hanlde_write, ServerTypeOK, SessionTypeOK, WriteTypeOK
      <4> QED BY <4>1, SameWire
    <3>2. CASE q = s
      <4>1. /\ wire'[q] = wire[q] \o buffer_to_be_sent_[q] /\ buffer_to_be_sent_'[q] = <<>>
            /\ wire[q] \in Seq(Message) /\ buffer_to_be_sent_[q] \in Seq(Message)
        BY <1>0, <1>5, <3>2 DEF hanlde_write, ServerTypeOK, SessionTypeOK, WriteTypeOK
      <4>2. wire[q] \o buffer_to_be_sent_[q] \in Seq(Message)
        BY <4>1, ConcatProperties
      <4>3. (wire[q] \o buffer_to_be_sent_[q]) \o <<>> = wire[q] \o buffer_to_be_sent_[q]
        BY <4>2, ConcatEmptySeq
      <4> QED BY <4>1, <4>3 DEF onwire
    <3> QED BY <3>1, <3>2
  <2>2. tasks' = tasks
    BY <1>5 DEF hanlde_write
  <2> QED BY <1>3, <2>1, <2>2, QuietReflexive DEF WireRests
<1>6. CASE hanlde_write_fails(s) \/ handle_read_fails(s)
  <2>1. \E writes : hanlde_close(s, writes, tasks)
    BY <1>6 DEF hanlde_write_fails, handle_read_fails
  <2>2. \A q \in Session : wire'[q] = wire[q] /\ buffer_to_be_sent_'[q] = buffer_to_be_sent_[q]
    BY <1>6 DEF hanlde_write_fails, handle_read_fails, writeVars
  <2>3. Quiet(toSession, tasks, tasks')
    BY <1>0, <2>1, ListOpsAre, CloseQuiet DEF ServerTypeOK
  <2> QED BY <1>3, <2>2, <2>3, SameWire DEF WireRests
<1>7. ASSUME NEW n \in Nat, handle_read(s, n) PROVE Outbound
  <2>1. tasks' = tasks \/ tasks' = post(tasks, io_thread_[s], deliver(s))
    BY <1>7 DEF handle_read, deliver
  <2>2. /\ deliver(s) \in Task
        /\ deliver(s).op \in {"session.SendMessageListDirectly", "session.PackMessageList"}
    BY TaskTypes DEF deliver
  <2>3. UNCHANGED writeVars
    BY <1>7 DEF handle_read
  <2>4. Quiet(toSession, tasks, tasks')
    BY <1>4, <2>1, <2>2 DEF toSession
  <2> QED BY <1>3, <2>3, <2>4, RestsOnWire
<1>8. CASE handle_safe_close(s) \/ close_timer_expires(s)
  <2>1. tasks' = tasks \/ tasks' = post(tasks, io_thread_[s], closeTimeout(s))
    BY <1>8 DEF handle_safe_close, close_timer_expires, closeTimeout
  <2>2. closeTimeout(s) \in Task /\ closeTimeout(s).op = "close_timeout"
    BY TaskTypes DEF closeTimeout
  <2>3. UNCHANGED writeVars
    BY <1>8 DEF handle_safe_close, close_timer_expires
  <2>4. Quiet(toSession, tasks, tasks')
    BY <1>4, <2>1, <2>2 DEF toSession
  <2> QED BY <1>3, <2>3, <2>4, RestsOnWire
<1> QED BY <1>1, <1>5, <1>6, <1>7, <1>8

LEMMA EnvironmentOutbound == ASSUME IdsInv, EnvironmentStep \/ terminates PROVE Outbound
<1>0. ServerTypeOK /\ tasks \in Queues
  BY DEF IdsInv, ServerTypeOK, IoTypeOK, Queues
<1>1. WireRests
  <2>1. UNCHANGED writeVars
    BY DEF EnvironmentStep, terminates, handle_accept, handle_accept_fails, connect,
           handle_accept_throws, connect_throws, connected_throws, app_send, app_close,
           check_keep_alive, sessionButBuiltVars, sessionVars
  <2> QED BY <2>1, RestsOnWire
<1>2. ASSUME NEW h \in Session, app_send(h) \/ app_close(h) PROVE Uses
  BY <1>0, <1>2, QuietReflexive DEF app_send, app_close, is_closed, Uses
<1>3. ASSUME NEW t \in Threads, check_keep_alive(t)
      PROVE  Quiet(toSession, tasks, tasks') /\ UNCHANGED handlerVars
  BY <1>0, <1>3, KeepAliveQuiet, ListOpsAre DEF check_keep_alive
<1>4. ASSUME NEW s \in Session, handle_accept(s) \/ connect(s)
      PROVE  Connects /\ UNCHANGED handlerVars
  <2>1. PICK t \in Threads : handler_thread_id_[s] = 0 /\ connected(s, t)
    BY <1>0, <1>4, ThreadIsChosen
    DEF handle_accept, connect, unbuilt, IdsInv, Binding, ServerTypeOK, SessionTypeOK,
        BuiltTypeOK
  <2>2. Connects
    BY <2>1 DEF connected, Connects, initTask
  <2>3. UNCHANGED handlerVars
    BY <1>4 DEF handle_accept, connect
  <2> QED BY <2>2, <2>3
<1>5. ASSUME UNCHANGED tasks, UNCHANGED handlerVars PROVE Outbound
  BY <1>1, <1>5, QuietReflexive DEF Outbound
<1> QED
  BY <1>1, <1>2, <1>3, <1>4, <1>5
  DEF EnvironmentStep, terminates, handle_accept_fails, handle_accept_throws, connect_throws,
      connected_throws, Outbound

LEMMA OutboundStepIs == ASSUME IdsInv, [Next]_vars PROVE Outbound
<1>1. CASE UNCHANGED vars
  <2>1. UNCHANGED tasks /\ UNCHANGED sessionVars /\ UNCHANGED handlerVars
    BY <1>1 DEF vars
  <2> QED BY <2>1, RestsOnWire, QuietReflexive DEF Outbound
<1>2. CASE Next
  BY <1>2, Steps, MainOutbound, ThreadOutbound, CompletionOutbound, EnvironmentOutbound
  DEF IdsInv
<1> QED BY <1>1, <1>2

\* A handler that gets an id finds nothing on its way.
LEMMA Fresh ==
  ASSUME IdsInv, [Next]_vars, NEW h \in Session,
         handler_thread_id_[h] = 0, handler_thread_id_'[h] # 0
  PROVE  /\ \E t \in Threads, id \in Id :
              /\ tasks' = post(tasks, t, initTask(h, id))
              /\ handler_thread_id_'[h] = t /\ handler_session_id_'[h] = id
         /\ UNCHANGED <<session_id_, messages_received_, arrived, wire, buffer_to_be_sent_,
                        handlerVars, delivered>>
<1>0. ServerTypeOK
  BY DEF IdsInv
<1>1. CASE UNCHANGED vars
  BY <1>1 DEF vars, managerVars
<1>2. CASE MainStep
  BY <1>2
  DEF MainStep, alone, session_SendMessageListDirectly, session_closed, on_session_closed,
      SendMessageListToHandler, managerVars
<1>3. CASE ThreadStep
  BY <1>3
  DEF ThreadStep, alone, sessionAlone, session_PackMessageList, keep_alive_close, managerVars
<1>4. CASE CompletionStep
  BY <1>4 DEF CompletionStep, sessionAlone, managerVars
<1>5. CASE EnvironmentStep \/ terminates
  <2>1. ASSUME ~ \E s \in Session : handle_accept(s) \/ connect(s) PROVE FALSE
    BY <1>5, <2>1
    DEF EnvironmentStep, terminates, handle_accept_fails, handle_accept_throws,
        connect_throws, connected_throws, on_session_connected_throws, app_send, app_close,
        check_keep_alive, managerVars
  <2>2. PICK s \in Session : handle_accept(s) \/ connect(s)
    BY <2>1
  <2>3. PICK t \in Threads : connected(s, t)
    BY <1>0, <2>2, ThreadIsChosen
    DEF handle_accept, connect, IdsInv, Binding, ServerTypeOK, SessionTypeOK, BuiltTypeOK
  <2>4. PICK id \in Id :
          /\ on_session_connected(s, t, id)
          /\ tasks' = post(tasks, t, initTask(s, id))
    BY <2>3 DEF connected, initTask
  <2>5. /\ handler_session_id_' = [handler_session_id_ EXCEPT ![s] = id]
        /\ handler_thread_id_' = [handler_thread_id_ EXCEPT ![s] = t]
    BY <2>4 DEF on_session_connected
  <2>6. h = s
    BY <1>0, <2>5 DEF ServerTypeOK, ManagerTypeOK
  <2>7. handler_thread_id_'[h] = t /\ handler_session_id_'[h] = id
    BY <1>0, <2>5, <2>6 DEF ServerTypeOK, ManagerTypeOK
  <2>8. UNCHANGED <<session_id_, messages_received_, arrived, wire, buffer_to_be_sent_,
                    handlerVars, delivered>>
    BY <2>2 DEF handle_accept, connect, sessionButBuiltVars, readVars, writeVars, serverVars
  <2> QED BY <2>4, <2>6, <2>7, <2>8
<1> QED BY <1>0, <1>1, <1>2, <1>3, <1>4, <1>5, Steps

----------------------------------------------------------------------------
(* What a step does to the messages that one handler has sent.             *)

\* On the way from h to its session, before the step and after it.
out(h) == transit(tasks[handler_thread_id_[h]], toSession, handler_session_id_[h], h)
after(h) == transit(tasks'[handler_thread_id_[h]], toSession, handler_session_id_[h], h)

\* The transfers that wait are of the kind that h's thread calls for.
OutboundNames ==
  \A h \in Session, t \in Threads :
    /\ waits(tasks, t, direct(h)) => handler_thread_id_[h] = MainThread
    /\ waits(tasks, t, pack(h)) => handler_thread_id_[h] \notin {0, MainThread}

SameWaiting(h) == after(h) = out(h) /\ messages_to_be_sent_'[h] = messages_to_be_sent_[h]
SameCalls(h) == sent'[h] = sent[h] /\ close_calls'[h] = close_calls[h]

Stays(h) == onwire(h)' = onwire(h) /\ SameWaiting(h) /\ SameCalls(h)

Sends(h) ==
  /\ onwire(h)' = onwire(h) /\ after(h) = out(h)
  /\ messages_to_be_sent_'[h] = Append(messages_to_be_sent_[h], <<h, sent[h] + 1>>)
  /\ sent'[h] = sent[h] + 1 /\ close_calls'[h] = close_calls[h]

\* PackMessageList, alone or in close().
Packs(h) ==
  /\ onwire(h)' = onwire(h) /\ after(h) = out(h) \o messages_to_be_sent_[h]
  /\ messages_to_be_sent_'[h] = <<>> /\ sent'[h] = sent[h]
  /\ \/ close_calls'[h] = close_calls[h] /\ handler_thread_id_[h] # MainThread
     \/ close_calls'[h] = close_calls[h] + 1

\* A list reaches the session's thread.
Lands(h, messages) ==
  /\ out(h) = messages \o after(h) /\ SameCalls(h)
  /\ messages_to_be_sent_'[h] = messages_to_be_sent_[h]
  /\ onwire(h)' = IF writable(h) THEN onwire(h) \o messages ELSE onwire(h)

Directs(h) ==
  /\ handler_thread_id_[h] = MainThread /\ session_of(h) = h
  /\ after(h) = out(h) /\ messages_to_be_sent_'[h] = <<>> /\ SameCalls(h)
  /\ Gets(h, messages_to_be_sent_[h])

Moves(h) ==
  \/ Stays(h) \/ Sends(h) \/ Packs(h) \/ Directs(h)
  \/ \E messages \in Seq(Message) : Lands(h, messages)

LEMMA QuietOut ==
  ASSUME ServerTypeOK, NEW queues, Quiet(toSession, tasks, queues), NEW h \in Session,
         handler_thread_id_[h] \in Threads
  PROVE  transit(queues[handler_thread_id_[h]], toSession, handler_session_id_[h], h) = out(h)
BY DEF Quiet, out, ServerTypeOK, ManagerTypeOK

LEMMA OutType ==
  ASSUME ServerTypeOK, NEW h \in Session, handler_thread_id_[h] \in Threads
  PROVE  /\ out(h) \in Seq(Message) /\ onwire(h) \in Seq(Message)
         /\ messages_to_be_sent_[h] \in Seq(Message) /\ sent[h] \in Nat
         /\ tasks' \in Queues => after(h) \in Seq(Message)
<1>1. wire[h] \in Seq(Message) /\ buffer_to_be_sent_[h] \in Seq(Message)
  BY DEF ServerTypeOK, SessionTypeOK, WriteTypeOK
<1>2. onwire(h) \in Seq(Message)
  BY <1>1, ConcatProperties DEF onwire
<1> QED
  BY <1>2, ListOpsAre, TransitType
  DEF out, after, Queues, ServerTypeOK, IoTypeOK, HandlerTypeOK

LEMMA PackedOut ==
  ASSUME IdsInv, NEW queues \in Queues, Quiet(toSession, tasks, queues),
         NEW g \in Session, NEW h \in Session, handler_session_id_[h] # 0
  PROVE  transit(packed(queues, g)[handler_thread_id_[h]], toSession, handler_session_id_[h], h)
           = IF g = h THEN out(h) \o messages_to_be_sent_[h] ELSE out(h)
<1> DEFINE t == handler_thread_id_[h]
           id == handler_session_id_[h]
           msgs == messages_to_be_sent_[g]
           x == [op |-> toSession, id |-> handler_session_id_[g], msgs |-> msgs]
<1>0. /\ ServerTypeOK /\ t \in Threads /\ id \in Id \ {0}
      /\ handler_session_id_[g] = id => g = h
  BY DEF IdsInv, Binding, ServerTypeOK, ManagerTypeOK, IInv, HandlersIndexed
<1>1. transit(queues[t], toSession, id, h) = out(h) /\ out(h) \in Seq(Message)
  BY <1>0, QuietOut, OutType
<1>2. out(h) \o <<>> = out(h)
  BY <1>1, ConcatEmptySeq
<1>3. CASE msgs = <<>>
  BY <1>1, <1>2, <1>3 DEF packed
<1>4. CASE msgs # <<>>
  <2>1. packed(queues, g) = post(queues, handler_thread_id_[g], x)
    BY <1>4 DEF packed, toSession
  <2>2. x \in Task /\ ~ IsInit(x, h)
    BY <1>0, TaskTypes DEF ServerTypeOK, ManagerTypeOK, HandlerTypeOK, toSession, IsInit
  <2>3. part(x, toSession, id) = IF g = h THEN msgs ELSE <<>>
    BY <1>0 DEF part
  <2>4. CASE handler_thread_id_[g] = t
    <3> HIDE DEF t, id, msgs, x
    <3>1. transit(post(queues, t, x)[t], toSession, id, h)
            = transit(queues[t], toSession, id, h) \o part(x, toSession, id)
      BY <1>0, <2>2, ListOpsAre, PostTransit
    <3> QED BY <1>1, <1>2, <2>1, <2>3, <2>4, <3>1 DEF t, id, msgs
  <2>5. CASE handler_thread_id_[g] # t
    <3>1. packed(queues, g)[t] = queues[t]
      BY <1>0, <2>1, <2>5, PostElsewhere
    <3> QED BY <1>1, <2>5, <3>1
  <2> QED BY <2>4, <2>5
<1> QED BY <1>3, <1>4

LEMMA UsesMoves ==
  ASSUME IdsInv, WireRests, Uses, NEW h \in Session, handler_session_id_[h] # 0
  PROVE  Moves(h)
<1> DEFINE t == handler_thread_id_[h]
           id == handler_session_id_[h]
<1>0. ServerTypeOK /\ t \in Threads /\ id \in Id
  BY DEF IdsInv, Binding, ServerTypeOK, ManagerTypeOK
<1>1. onwire(h)' = onwire(h)
  BY DEF WireRests
<1>2. PICK g \in Session, queues \in Queues :
        /\ handler_session_id_[g] # 0 /\ Quiet(toSession, tasks, queues)
        /\ send(g, queues) \/ handler_close(g, queues)
  BY DEF Uses
<1>3. CASE send(g, queues)
  <2>1. tasks' = queues \/ tasks' = post(queues, MainThread, direct(g))
          \/ tasks' = post(queues, MainThread, pack(g))
    BY <1>3 DEF send, direct, pack
  <2>2. /\ direct(g) \in Task /\ direct(g).op = "handler.SendMessageListDirectly"
        /\ pack(g) \in Task /\ pack(g).op = "handler.PackMessageList"
    BY TaskTypes DEF direct, pack
  <2>3. Quiet(toSession, queues, tasks')
    BY <2>1, <2>2, ListOpsAre, PostQuiet, QuietReflexive DEF toSession
  <2>4. after(h) = out(h)
    BY <1>0, <1>2, <2>3, QuietTransitive, QuietOut DEF after
  <2>5. CASE g = h
    BY <1>0, <1>1, <1>3, <2>4, <2>5 DEF send, Moves, Sends, ServerTypeOK, HandlerTypeOK
  <2>6. CASE g # h
    BY <1>0, <1>1, <1>3, <2>4, <2>6
    DEF send, Moves, Stays, SameWaiting, SameCalls, ServerTypeOK, HandlerTypeOK
  <2> QED BY <2>5, <2>6
<1>4. CASE handler_close(g, queues)
  <2> DEFINE x == [op |-> "CloseSession", id |-> handler_session_id_[g]]
             batch == packed(queues, g)
  <2>1. tasks' = post(batch, handler_thread_id_[g], x)
    BY <1>4 DEF handler_close
  <2>2. batch \in Queues /\ x \in Task /\ x.op # toSession /\ x.op # "init"
    BY <1>0, PackedType, TaskTypes DEF ServerTypeOK, ManagerTypeOK, toSession
  <2> HIDE DEF batch, x
  <2>3. Quiet(toSession, batch, tasks')
    BY <2>1, <2>2, ListOpsAre, PostQuiet
  <2>4. after(h) = transit(batch[t], toSession, id, h)
    BY <1>0, <2>3 DEF after, Quiet
  <2>5. after(h) = IF g = h THEN out(h) \o messages_to_be_sent_[h] ELSE out(h)
    BY <1>2, <2>4, PackedOut DEF batch
  <2>6. CASE g = h
    BY <1>0, <1>1, <1>4, <2>5, <2>6
    DEF handler_close, Moves, Packs, ServerTypeOK, HandlerTypeOK
  <2>7. CASE g # h
    BY <1>0, <1>1, <1>4, <2>5, <2>7
    DEF handler_close, Moves, Stays, SameWaiting, SameCalls, ServerTypeOK, HandlerTypeOK
  <2> QED BY <2>6, <2>7
<1> QED BY <1>2, <1>3, <1>4

LEMMA PackMoves ==
  ASSUME IdsInv, OutboundNames, WireRests, NEW g \in Session, handler_PackMessageList(g),
         NEW h \in Session, handler_session_id_[h] # 0
  PROVE  Moves(h)
<1> DEFINE queues == popped(MainThread)
<1>0. ServerTypeOK /\ MainThread \in Threads
  BY MainThreadIsThread DEF IdsInv
<1>1. onwire(h)' = onwire(h)
  BY DEF WireRests
<1>2. tasks[MainThread] # <<>> /\ Head(tasks[MainThread]) = pack(g)
  BY DEF handler_PackMessageList, runs, pack
<1>3. waits(tasks, MainThread, pack(g))
  BY <1>0, <1>2, PopWaits DEF ServerTypeOK
<1>4. handler_thread_id_[g] # MainThread
  BY <1>0, <1>3 DEF OutboundNames
<1>5. Head(tasks[MainThread]).op # toSession
  BY <1>2 DEF pack, toSession
<1>6. queues \in Queues /\ Quiet(toSession, tasks, queues)
  BY <1>0, <1>2, <1>5, ListOpsAre, PopsQuietly
<1>7. tasks' = packed(queues, g)
  BY DEF handler_PackMessageList
<1> HIDE DEF queues
<1>8. after(h) = IF g = h THEN out(h) \o messages_to_be_sent_[h] ELSE out(h)
  BY <1>6, <1>7, PackedOut DEF after
<1>9. CASE g = h
  BY <1>0, <1>1, <1>4, <1>8, <1>9
  DEF handler_PackMessageList, Moves, Packs, ServerTypeOK, HandlerTypeOK
<1>10. CASE g # h
  BY <1>0, <1>1, <1>8, <1>10
  DEF handler_PackMessageList, Moves, Stays, SameWaiting, SameCalls, ServerTypeOK, HandlerTypeOK
<1> QED BY <1>9, <1>10

\* The session that answers to the id of a handler is the handler's own.
LEMMA OwnSession ==
  ASSUME IdsInv, NEW t \in Threads, NEW id \in Id, session_queue_[t][id] # nullptr
  PROVE  LET s == session_queue_[t][id]
         IN  /\ s \in Session /\ id # 0
             /\ handler_session_id_[s] = id /\ handler_thread_id_[s] = t
             /\ session_id_[s] = id /\ session_of(s) = s
<1> DEFINE s == session_queue_[t][id]
<1>1. s \in Session /\ id # 0
  BY IdFacts DEF IdsInv, ServerTypeOK, SessionTypeOK, CloseTypeOK
<1>2. /\ session_handler_map_[id] = s /\ handler_thread_id_[s] = t
      /\ session_id_[s] = id
  BY DEF IdsInv, IdsNameOnePair
<1>3. handler_session_id_[s] = id
  BY <1>1, <1>2 DEF IdsInv, IInv, HandlersIndexed
<1> QED BY <1>1, <1>2, <1>3 DEF session_of

LEMMA DirectMoves ==
  ASSUME IdsInv, OneWriteInFlight, OutboundNames, NEW g \in Session,
         handler_SendMessageListDirectly(g), NEW h \in Session
  PROVE  /\ handler_session_id_[h] # 0 => Moves(h)
         /\ handler_session_id_[h] = 0 => onwire(h)' = onwire(h)
<1>0. ServerTypeOK /\ MainThread \in Threads
  BY MainThreadIsThread DEF IdsInv
<1>1. tasks[MainThread] # <<>> /\ Head(tasks[MainThread]) = direct(g)
  BY DEF handler_SendMessageListDirectly, runs, direct
<1>2. handler_thread_id_[g] = MainThread
  BY <1>0, <1>1, PopWaits DEF OutboundNames, ServerTypeOK
<1>3. Head(tasks[MainThread]).op # toSession
  BY <1>1 DEF direct, toSession
<1>4. Quiet(toSession, tasks, tasks')
  BY <1>0, <1>1, <1>3, ListOpsAre, PopsQuietly DEF handler_SendMessageListDirectly
<1>5. ASSUME handler_session_id_[h] # 0 PROVE after(h) = out(h)
  BY <1>0, <1>4, <1>5, QuietOut DEF after, IdsInv, Binding, ServerTypeOK, ManagerTypeOK
<1>6. SameCalls(h)
  BY DEF handler_SendMessageListDirectly, SameCalls
<1>7. CASE session_of(g) = nullptr
  <2>1. UNCHANGED writeVars /\ UNCHANGED messages_to_be_sent_
    BY <1>7 DEF handler_SendMessageListDirectly
  <2> QED BY <1>5, <1>6, <2>1, WireVars DEF Moves, Stays, SameWaiting
<1>8. CASE session_of(g) # nullptr
  <2> DEFINE id == handler_session_id_[g]
             msgs == messages_to_be_sent_[g]
  <2>1. id \in Id /\ msgs \in Seq(Message)
    BY <1>0 DEF ServerTypeOK, ManagerTypeOK, HandlerTypeOK
  <2>2. session_queue_[MainThread][id] # nullptr
    BY <1>2, <1>8 DEF session_of
  <2>3. session_of(g) \in Session /\ id # 0 /\ handler_session_id_[session_of(g)] = id
    BY <1>0, <1>2, <2>1, <2>2, OwnSession DEF session_of
  <2>4. session_of(g) = g
    BY <2>1, <2>3 DEF IdsInv, IInv, HandlersIndexed
  <2>5. post_message_list(g, msgs) /\ messages_to_be_sent_' = [messages_to_be_sent_ EXCEPT ![g] = <<>>]
    BY <1>8, <2>4 DEF handler_SendMessageListDirectly
  <2>6. UNCHANGED <<session_id_, closed_>>
    BY DEF handler_SendMessageListDirectly
  <2> HIDE DEF msgs
  <2>7. IF h = g THEN Gets(h, msgs) ELSE onwire(h)' = onwire(h)
    BY <1>0, <2>1, <2>5, <2>6, PostOnWire
  <2>8. CASE h = g
    <3>1. Gets(h, messages_to_be_sent_[h])
      BY <2>7, <2>8 DEF msgs
    <3>2. messages_to_be_sent_'[h] = <<>>
      BY <1>0, <2>5, <2>8 DEF ServerTypeOK, HandlerTypeOK
    <3> QED BY <1>2, <1>5, <1>6, <2>3, <2>4, <2>8, <3>1, <3>2 DEF Moves, Directs
  <2>9. CASE h # g
    <3>1. onwire(h)' = onwire(h) /\ messages_to_be_sent_'[h] = messages_to_be_sent_[h]
      BY <1>0, <2>5, <2>7, <2>9 DEF ServerTypeOK, HandlerTypeOK
    <3> QED BY <1>5, <1>6, <3>1 DEF Moves, Stays, SameWaiting
  <2> QED BY <2>8, <2>9
<1> QED BY <1>7, <1>8

LEMMA LandMoves ==
  ASSUME IdsInv, OneWriteInFlight, NEW t \in Threads, NEW id \in Id,
         NEW msgs \in Seq(Message), SendMessageListToSession(t, id, msgs), NEW h \in Session
  PROVE  /\ handler_session_id_[h] # 0 => Moves(h)
         /\ handler_session_id_[h] = 0 => onwire(h)' = onwire(h)
<1> DEFINE s == session_queue_[t][id]
           x == [op |-> toSession, id |-> id, msgs |-> msgs]
<1>0. ServerTypeOK
  BY DEF IdsInv
<1>1. tasks[t] # <<>> /\ Head(tasks[t]) = x /\ tasks' = popped(t)
  BY DEF SendMessageListToSession, runs, toSession
<1>2. SameCalls(h) /\ messages_to_be_sent_'[h] = messages_to_be_sent_[h]
  BY DEF SendMessageListToSession, handlerVars, SameCalls
<1>3. onwire(h)' = IF h = s /\ ~ closed_[h] THEN onwire(h) \o msgs ELSE onwire(h)
  <2>1. CASE s = nullptr
    BY <2>1, WireVars, IdFacts DEF SendMessageListToSession
  <2>2. CASE s # nullptr
    <3>1. post_message_list(s, msgs) /\ UNCHANGED <<session_id_, closed_>>
      BY <2>2 DEF SendMessageListToSession
    <3> HIDE DEF s
    <3>2. IF h = s THEN Gets(h, msgs) ELSE onwire(h)' = onwire(h)
      BY <1>0, <3>1, PostOnWire
    <3> QED BY <3>2 DEF Gets
  <2> QED BY <2>1, <2>2
<1>4. h = s => /\ handler_session_id_[h] = id /\ id # 0 /\ handler_thread_id_[h] = t
               /\ session_id_[h] = id /\ session_of(h) = h
  BY OwnSession, IdFacts
<1>5. CASE handler_session_id_[h] = 0
  BY <1>3, <1>4, <1>5
<1>6. ASSUME handler_session_id_[h] # 0 PROVE Moves(h)
  <2> DEFINE u == handler_thread_id_[h]
             i == handler_session_id_[h]
  <2>0. u \in Threads /\ i \in Id
    BY <1>0, <1>6 DEF IdsInv, Binding, ServerTypeOK, ManagerTypeOK
  <2>1. out(h) \in Seq(Message) /\ onwire(h) \in Seq(Message)
    BY <1>0, <2>0, OutType
  <2>2. <<>> \o out(h) = out(h) /\ onwire(h) \o <<>> = onwire(h)
    BY <2>1, ConcatEmptySeq
  <2>3. popped(t)[u] = IF u = t THEN Tail(tasks[t]) ELSE tasks[u]
    BY <1>0, <2>0 DEF popped, ServerTypeOK, IoTypeOK
  <2>4. CASE u = t /\ i = id /\ session_id_[h] # 0
    <3>1. tasks[t] \in Seq(Task)
      BY <1>0 DEF ServerTypeOK, IoTypeOK
    <3>2. \A j \in DOMAIN tasks[t] : ~ IsInit(tasks[t][j], h)
      <4> SUFFICES ASSUME NEW j \in DOMAIN tasks[t], IsInit(tasks[t][j], h) PROVE FALSE
        OBVIOUS
      <4>1. tasks[t][j] \in Task
        BY <3>1
      <4>2. tasks[t][j].id \in Id /\ tasks[t][j] = initTask(h, tasks[t][j].id)
        BY <4>1 DEF Task, IsInit, initTask
      <4> QED BY <2>4, <4>2 DEF IdsInv, InitNames, waits
    <3>3. part(x, toSession, id) = msgs
      BY DEF part
    <3> HIDE DEF x
    <3>4. transit(tasks[t], toSession, id, h) = msgs \o transit(Tail(tasks[t]), toSession, id, h)
      BY <1>1, <3>1, <3>2, <3>3, ListOpsAre, TransitTail
    <3>5. out(h) = msgs \o after(h)
      BY <1>1, <2>3, <2>4, <3>4 DEF out, after
    <3>6. writable(h) <=> h = s /\ ~ closed_[h]
      BY <1>6, <2>4 DEF writable, is_closed, session_of
    <3>7. onwire(h)' = IF writable(h) THEN onwire(h) \o msgs ELSE onwire(h)
      BY <1>3, <3>6
    <3> QED BY <1>2, <3>5, <3>7 DEF Moves, Lands
  <2>5. CASE u = t /\ i = id /\ session_id_[h] = 0
    <3>1. tasks[t] \in Seq(Task)
      BY <1>0 DEF ServerTypeOK, IoTypeOK
    <3>2. waits(tasks, t, initTask(h, id))
      BY <1>6, <2>5 DEF IdsInv, Carried
    <3>3. \E j \in DOMAIN tasks[t] : IsInit(tasks[t][j], h)
      BY <3>2 DEF waits, initTask, IsInit
    <3>4. transit(Tail(tasks[t]), toSession, id, h) \in Seq(Message)
      BY <1>1, <3>1, HeadTailProperties, ListOpsAre, TransitType
    <3>5. <<>> \o transit(Tail(tasks[t]), toSession, id, h) = transit(Tail(tasks[t]), toSession, id, h)
      BY <3>4, ConcatEmptySeq
    <3> HIDE DEF x
    <3>6. transit(tasks[t], toSession, id, h)
            = <<>> \o transit(Tail(tasks[t]), toSession, id, h)
      <4> DEFINE q == tasks[t]
      <4>1. q \in Seq(Task) /\ q # <<>> /\ \E j \in DOMAIN q : IsInit(q[j], h)
        BY <1>1, <3>1, <3>3
      <4> HIDE DEF q
      <4>2. transit(q, toSession, id, h) = <<>> \o transit(Tail(q), toSession, id, h)
        BY ZenonT(60), <4>1, ListOpsAre, TransitTail
      <4> QED BY <4>2 DEF q
    <3>7. after(h) = out(h)
      BY <1>1, <2>3, <2>5, <3>5, <3>6 DEF out, after
    <3>8. h # s
      BY <1>4, <1>6, <2>5
    <3>9. onwire(h)' = onwire(h)
      BY <1>3, <3>8
    <3> QED BY <1>2, <3>7, <3>9 DEF Moves, Stays, SameWaiting
  <2>6. CASE ~(u = t /\ i = id)
    <3>1. onwire(h)' = onwire(h)
      BY <1>3, <1>4, <2>6
    <3>2. after(h) = out(h)
      <4>1. CASE u # t
        BY <1>1, <2>3, <4>1 DEF out, after
      <4>2. CASE u = t /\ i # id
        <5>1. tasks[t] \in Seq(Task)
          BY <1>0 DEF ServerTypeOK, IoTypeOK
        <5>2. part(x, toSession, i) = <<>>
          BY <4>2 DEF part
        <5>3. transit(Tail(tasks[t]), toSession, i, h) \in Seq(Message)
          BY <1>1, <5>1, HeadTailProperties, ListOpsAre, TransitType
        <5>4. <<>> \o transit(Tail(tasks[t]), toSession, i, h) = transit(Tail(tasks[t]), toSession, i, h)
          BY <5>3, ConcatEmptySeq
        <5> HIDE DEF x, i
        <5> DEFINE unread == \A j \in DOMAIN tasks[t] : ~ IsInit(tasks[t][j], h)
                   front == IF unread THEN part(Head(tasks[t]), toSession, i) ELSE <<>>
        <5>6. front = <<>>
          BY <1>1, <5>2
        <5>7. transit(tasks[t], toSession, i, h) = front \o transit(Tail(tasks[t]), toSession, i, h)
          BY ZenonT(60), <1>1, <5>1, ListOpsAre, TransitTail
        <5>5. transit(tasks[t], toSession, i, h) = <<>> \o transit(Tail(tasks[t]), toSession, i, h)
          BY <5>6, <5>7
        <5> QED BY <1>1, <2>3, <4>2, <5>4, <5>5 DEF out, after, i
      <4> QED BY <2>6, <4>1, <4>2
    <3> QED BY <1>2, <3>1, <3>2 DEF Moves, Stays, SameWaiting
  <2> QED BY <2>4, <2>5, <2>6
<1> QED BY <1>5, <1>6

\* A handler whose connection is gone, or that has none yet.
Idles(h) ==
  /\ onwire(h)' = onwire(h) /\ SameCalls(h)
  /\ \/ messages_to_be_sent_'[h] = messages_to_be_sent_[h]
     \/ messages_to_be_sent_'[h] = <<>>

\* A connection adds to no list, and another's init takes none away.
LEMMA ConnectsQuietly ==
  ASSUME IdsInv, Connects, NEW h \in Session, handler_session_id_[h] # 0,
         NEW t \in Threads, NEW op \in ListOps
  PROVE  transit(tasks'[t], op, handler_session_id_[h], h)
           = transit(tasks[t], op, handler_session_id_[h], h)
<1> DEFINE id == handler_session_id_[h]
<1>0. tasks \in Queues
  BY DEF IdsInv, ServerTypeOK, IoTypeOK, Queues
<1>1. PICK s \in Session, u \in Threads, i \in Id :
        handler_thread_id_[s] = 0 /\ tasks' = post(tasks, u, initTask(s, i))
  BY DEF Connects
<1> DEFINE x == initTask(s, i)
<1>2. x \in Task /\ ~ IsInit(x, h) /\ x.op # op
  <2>1. s # h
    BY <1>1, IdFacts DEF IdsInv, Binding
  <2> QED BY <2>1, TaskTypes DEF initTask, IsInit, ListOps
<1> HIDE DEF id, x
<1>3. part(x, op, id) = <<>>
  BY <1>2 DEF part
<1>4. transit(tasks[t], op, id, h) \in Seq(Message)
  BY <1>0, TransitType DEF Queues
<1>5. transit(tasks[t], op, id, h) \o <<>> = transit(tasks[t], op, id, h)
  BY <1>4, ConcatEmptySeq
<1>6. CASE u = t
  <2>1. transit(post(tasks, t, x)[t], op, id, h)
          = transit(tasks[t], op, id, h) \o part(x, op, id)
    BY <1>0, <1>2, PostTransit
  <2> QED BY <1>1, <1>3, <1>5, <1>6, <2>1 DEF x, id
<1>7. CASE u # t
  BY <1>0, <1>1, <1>7, PostElsewhere
<1> QED BY <1>6, <1>7

LEMMA QuietMoves ==
  ASSUME IdsInv, WireRests, UNCHANGED handlerVars, Quiet(toSession, tasks, tasks') \/ Connects,
         NEW h \in Session, handler_session_id_[h] # 0
  PROVE  Moves(h)
<1>1. ServerTypeOK /\ handler_thread_id_[h] \in Threads
  BY DEF IdsInv, Binding, ServerTypeOK, ManagerTypeOK
<1>2. after(h) = out(h)
  BY <1>1, ListOpsAre, ConnectsQuietly, QuietOut DEF out, after
<1> QED BY <1>2 DEF WireRests, handlerVars, Moves, Stays, SameWaiting, SameCalls

LEMMA MovesStep ==
  ASSUME IdsInv, OneWriteInFlight, OutboundNames, [Next]_vars, NEW h \in Session
  PROVE  IF handler_session_id_[h] # 0 THEN Moves(h) ELSE Idles(h)
<1>0. ServerTypeOK
  BY DEF IdsInv
<1>1. Outbound
  BY OutboundStepIs
<1>2. CASE handler_session_id_[h] # 0
  <2>1. Moves(h)
    BY <1>1, <1>2, QuietMoves, UsesMoves, PackMoves, DirectMoves, LandMoves DEF Outbound
  <2> QED BY <1>2, <2>1
<1>3. CASE handler_session_id_[h] = 0
  <2>1. onwire(h)' = onwire(h)
    BY <1>1, <1>3, DirectMoves, LandMoves DEF Outbound, WireRests
  <2>2. ASSUME UNCHANGED handlerVars PROVE Idles(h)
    <3>1. /\ messages_to_be_sent_' = messages_to_be_sent_
          /\ sent' = sent /\ close_calls' = close_calls
      BY <2>2 DEF handlerVars
    <3> QED BY <2>1, <3>1 DEF Idles, SameCalls
  <2>3. ASSUME NEW g \in Session, NEW queues, g # h, send(g, queues) \/ handler_close(g, queues)
        PROVE  Idles(h)
    BY <1>0, <2>1, <2>3
    DEF send, handler_close, Idles, SameCalls, ServerTypeOK, HandlerTypeOK
  <2>4. ASSUME NEW g \in Session,
               handler_PackMessageList(g) \/ handler_SendMessageListDirectly(g)
        PROVE  Idles(h)
    BY <1>0, <2>1, <2>4
    DEF handler_PackMessageList, handler_SendMessageListDirectly, Idles, SameCalls,
        ServerTypeOK, HandlerTypeOK
  <2>5. ASSUME NEW g \in Session, NEW queues, handler_session_id_[g] # 0,
               send(g, queues) \/ handler_close(g, queues)
        PROVE  Idles(h)
    BY <1>3, <2>3, <2>5
  <2>6. ASSUME NEW t \in Threads, NEW id, NEW msgs, SendMessageListToSession(t, id, msgs)
        PROVE  Idles(h)
    BY <2>2, <2>6 DEF SendMessageListToSession
  <2>7. Idles(h)
    BY <1>1, <2>2, <2>4, <2>5, <2>6 DEF Outbound, Uses
  <2> QED BY <1>3, <2>7
<1> QED BY <1>2, <1>3

----------------------------------------------------------------------------
(* The order of what is sent.                                              *)

LEMMA MessagesOf ==
  ASSUME NEW h \in Session, NEW n \in Nat
  PROVE  /\ messages_of(h, n) \in Seq(Message) /\ Len(messages_of(h, n)) = n
         /\ messages_of(h, n + 1) = Append(messages_of(h, n), <<h, n + 1>>)
         /\ messages_of(h, 0) = <<>>
<1> DEFINE f == messages_of(h, n)
           g == messages_of(h, n + 1)
           e == <<h, n + 1>>
<1>1. f = [i \in 1 .. n |-> <<h, i>>] /\ g = [i \in 1 .. n + 1 |-> <<h, i>>]
  BY DEF messages_of
<1>2. \A i \in 1 .. n + 1 : <<h, i>> \in Message
  BY DEF Message
<1>3. f \in [1 .. n -> Message] /\ g \in [1 .. n + 1 -> Message]
  BY <1>1, <1>2
<1>4. /\ f \in Seq(Message) /\ Len(f) = n
      /\ g \in Seq(Message) /\ Len(g) = n + 1
  BY <1>3, SeqDef, LenProperties
<1> HIDE DEF f, g
<1>5. Append(f, e) = g
  <2>1. e \in Message
    BY <1>2
  <2>2. /\ Append(f, e) \in Seq(Message) /\ Len(Append(f, e)) = n + 1
        /\ \A i \in 1 .. n : Append(f, e)[i] = f[i]
        /\ Append(f, e)[n + 1] = e
    BY <1>4, <2>1, AppendProperties
  <2>3. \A i \in 1 .. n + 1 : Append(f, e)[i] = g[i]
    BY <1>1, <2>2
  <2> QED BY <1>4, <2>2, <2>3, SeqEqual
<1>6. messages_of(h, 0) = <<>>
  <2>1. messages_of(h, 0) = [i \in 1 .. 0 |-> <<h, i>>]
    BY DEF messages_of
  <2> QED BY <2>1
<1> QED BY <1>4, <1>5, <1>6 DEF f, g

LEMMA PrefixOf ==
  ASSUME NEW h \in Session, NEW n \in Nat, NEW a \in Seq(Message), NEW b \in Seq(Message),
         a \o b = messages_of(h, n)
  PROVE  a = messages_of(h, Len(a))
<1> DEFINE k == Len(a)
           m == Len(b)
           g == messages_of(h, k)
<1>1. k \in Nat /\ m \in Nat
  BY LenProperties
<1>2. /\ Len(a \o b) = k + m
      /\ \A i \in 1 .. k : (a \o b)[i] = a[i]
  <2>1. /\ Len(a \o b) = k + m
        /\ \A i \in 1 .. k + m : (a \o b)[i] = IF i <= k THEN a[i] ELSE b[i - k]
    BY ConcatProperties
  <2>2. \A i \in 1 .. k : i \in 1 .. k + m /\ i <= k
    BY <1>1
  <2> QED BY <2>1, <2>2
<1>3. n = k + m
  BY <1>2, MessagesOf
<1>4. \A i \in 1 .. k : a[i] = <<h, i>>
  <2>1. \A i \in 1 .. k : i \in 1 .. n
    BY <1>1, <1>3
  <2>2. \A i \in 1 .. n : (a \o b)[i] = <<h, i>>
    BY DEF messages_of
  <2> QED BY <1>2, <2>1, <2>2
<1>5. g \in Seq(Message) /\ Len(g) = k /\ \A i \in 1 .. k : g[i] = <<h, i>>
  BY <1>1, MessagesOf DEF messages_of
<1> QED BY <1>4, <1>5, SeqEqual

\* close() has not let a batch overtake the one it posts.
KeepsOrder(h) == handler_thread_id_[h] = MainThread => close_calls[h] = 0

total(h) == (onwire(h) \o out(h)) \o messages_to_be_sent_[h]

\* What OutboundConserved and SentInOrder say, what they need of a list that
\* is on its way - that it lands on what is before it - and that nothing was
\* sent before the connection and, on the main thread, nothing is posted.
Ordered(h) ==
  /\ onwire(h) = messages_of(h, Len(onwire(h)))
  /\ writable(h) => total(h) = messages_of(h, sent[h])
  /\ handler_session_id_[h] # 0 /\ handler_thread_id_[h] = MainThread => out(h) = <<>>

Unsent(h) == sent[h] = 0 /\ close_calls[h] = 0 /\ messages_to_be_sent_[h] = <<>>

OutboundInv ==
  \A h \in Session : /\ handler_thread_id_[h] = 0 => Unsent(h)
                     /\ KeepsOrder(h) => Ordered(h)

LEMMA WritableHas ==
  ASSUME IdsInv, NEW h \in Session, writable(h)
  PROVE  /\ handler_session_id_[h] # 0 /\ handler_thread_id_[h] \in Threads
         /\ session_of(h) = h => session_id_[h] # 0 /\ ~ closed_[h]
<1>1. handler_session_id_[h] # 0
  BY DEF writable, is_closed
<1>2. handler_session_id_[h] \in Id /\ handler_thread_id_[h] \in Threads
  BY <1>1 DEF IdsInv, Binding, ServerTypeOK, ManagerTypeOK
<1>3. session_of(h) = h => session_id_[h] # 0
  <2>1. session_of(h) = h =>
          session_queue_[handler_thread_id_[h]][handler_session_id_[h]] # nullptr
    BY IdFacts DEF session_of
  <2>2. ASSUME session_of(h) = h PROVE session_id_[h] = handler_session_id_[h]
    BY <1>2, <2>1, <2>2, OwnSession DEF session_of
  <2> QED BY <1>1, <2>2
<1> QED BY <1>1, <1>2, <1>3 DEF writable

\* The sum of what is on the way changes only by what the application sends.
LEMMA TotalMoves ==
  ASSUME IdsInv, tasks' \in Queues, NEW h \in Session, Moves(h), writable(h),
         handler_thread_id_[h] = MainThread => close_calls'[h] = 0 /\ out(h) = <<>>,
         total(h) = messages_of(h, sent[h]), sent[h] \in Nat
  PROVE  (onwire(h)' \o after(h)) \o messages_to_be_sent_'[h] = messages_of(h, sent'[h])
<1> DEFINE w == onwire(h)
           o == out(h)
           b == messages_to_be_sent_[h]
           ww == onwire(h)'
           oo == after(h)
           bb == messages_to_be_sent_'[h]
           e == <<h, sent[h] + 1>>
<1>1. /\ w \in Seq(Message) /\ o \in Seq(Message) /\ b \in Seq(Message) /\ oo \in Seq(Message)
      /\ sent[h] \in Nat
  BY WritableHas, OutType DEF IdsInv
<1>2. (w \o o) \o b = messages_of(h, sent[h])
  BY DEF total
<1>0. \A x, y, z \in Seq(Message) : (x \o y) \o z = x \o (y \o z)
  BY Associative
<1>3. CASE Stays(h)
  BY <1>2, <1>3 DEF Stays, SameWaiting, SameCalls
<1>4. CASE Sends(h)
  <2>1. ww = w /\ oo = o /\ bb = Append(b, e) /\ sent'[h] = sent[h] + 1
    BY <1>4 DEF Sends
  <2>2. e \in Message
    BY <1>1 DEF Message
  <2>3. messages_of(h, sent[h] + 1) = Append(messages_of(h, sent[h]), e)
    BY <1>1, MessagesOf
  <2> HIDE DEF w, o, b, oo, ww, bb, e
  <2>4. w \o o \in Seq(Message)
    BY <1>1, ConcatProperties
  <2>5. (w \o o) \o Append(b, e) = Append((w \o o) \o b, e)
    <3>1. <<e>> \in Seq(Message)
      BY <2>2
    <3>2. (w \o o) \o b \in Seq(Message)
      BY <1>1, <2>4, ConcatProperties
    <3>3. ((w \o o) \o b) \o <<e>> = (w \o o) \o (b \o <<e>>)
      BY SMTT(30), <1>1, <2>4, <3>1, Associative
    <3>4. Append(b, e) = b \o <<e>> /\ Append((w \o o) \o b, e) = ((w \o o) \o b) \o <<e>>
      BY <1>1, <2>2, <3>2, AppendIsConcat
    <3> QED BY <3>3, <3>4
  <2>6. (ww \o oo) \o bb = messages_of(h, sent'[h])
    BY <1>2, <2>1, <2>3, <2>5
  <2> QED BY <2>6 DEF ww, oo, bb
<1>5. CASE Packs(h)
  <2>1. ww = w /\ oo = o \o b /\ bb = <<>> /\ sent'[h] = sent[h]
    BY <1>5 DEF Packs
  <2> HIDE DEF w, o, b, oo, ww, bb
  <2>2. (w \o o) \o b = w \o (o \o b)
    BY <1>0, <1>1
  <2>3. w \o (o \o b) \in Seq(Message)
    BY <1>1, ConcatProperties
  <2>4. (w \o (o \o b)) \o <<>> = w \o (o \o b)
    BY <2>3, ConcatEmptySeq
  <2>5. (ww \o oo) \o bb = messages_of(h, sent'[h])
    BY <1>2, <2>1, <2>2, <2>4
  <2> QED BY <2>5 DEF ww, oo, bb
<1>6. ASSUME NEW m \in Seq(Message), Lands(h, m)
      PROVE  (ww \o oo) \o bb = messages_of(h, sent'[h])
  <2>1. ww = w \o m /\ o = m \o oo /\ bb = b /\ sent'[h] = sent[h]
    BY <1>6 DEF Lands, SameCalls
  <2> HIDE DEF w, o, b, oo, ww, bb
  <2>2. (w \o m) \o oo = w \o (m \o oo)
    BY ZenonT(30), <1>0, <1>1
  <2> QED BY <1>2, <2>1, <2>2
<1>7. CASE Directs(h)
  <2>1. ~ closed_[h]
    BY <1>7, WritableHas DEF Directs
  <2>2. ww = w \o b /\ oo = o /\ bb = <<>> /\ sent'[h] = sent[h] /\ o = <<>>
    BY <1>7, <2>1 DEF Directs, Gets, SameCalls
  <2> HIDE DEF w, o, b, oo, ww, bb
  <2>3. w \o <<>> = w
    BY <1>1, ConcatEmptySeq
  <2>4. w \o b \in Seq(Message)
    BY <1>1, ConcatProperties
  <2>5. (w \o b) \o <<>> = w \o b
    BY <2>4, ConcatEmptySeq
  <2>6. (ww \o oo) \o bb = messages_of(h, sent'[h])
    BY <1>2, <2>2, <2>3, <2>5
  <2> QED BY <2>6 DEF ww, oo, bb
<1> HIDE DEF ww, oo, bb
<1>8. (ww \o oo) \o bb = messages_of(h, sent'[h])
  BY <1>3, <1>4, <1>5, <1>6, <1>7 DEF Moves, ww, oo, bb
<1> QED BY <1>8 DEF ww, oo, bb

LEMMA OutboundNamesStep ==
  ASSUME IdsInv, OutboundNames, [Next]_vars
  PROVE  OutboundNames'
<1> SUFFICES ASSUME NEW h \in Session, NEW t \in Threads
    PROVE  /\ waits(tasks', t, direct(h)) => handler_thread_id_'[h] = MainThread
           /\ waits(tasks', t, pack(h)) => handler_thread_id_'[h] \notin {0, MainThread}
  BY DEF OutboundNames, waits, direct, pack
<1>1. handler_thread_id_[h] # 0 => handler_thread_id_'[h] = handler_thread_id_[h]
  BY BuiltOnce
<1>2. MainThread # 0
  BY MainThreadIsThread, IdFacts DEF IdsInv
<1>3. ASSUME waits(tasks', t, direct(h)) PROVE handler_thread_id_'[h] = MainThread
  <2>1. waits(tasks, t, direct(h)) \/ Caused(direct(h))
    BY <1>3, FlowsStep DEF Flows
  <2>2. direct(h).op = "handler.SendMessageListDirectly" /\ direct(h).s = h
    BY DEF direct
  <2>3. handler_thread_id_[h] = MainThread
    BY <2>1, <2>2 DEF Caused, OutboundNames
  <2> QED BY <1>1, <1>2, <2>3
<1>4. ASSUME waits(tasks', t, pack(h)) PROVE handler_thread_id_'[h] \notin {0, MainThread}
  <2>1. waits(tasks, t, pack(h)) \/ Caused(pack(h))
    BY <1>4, FlowsStep DEF Flows
  <2>2. pack(h).op = "handler.PackMessageList" /\ pack(h).s = h
    BY DEF pack
  <2>3. handler_thread_id_[h] \notin {0, MainThread}
    BY <2>1, <2>2 DEF Caused, OutboundNames, IdsInv, Binding
  <2> QED BY <1>1, <2>3
<1> QED BY <1>3, <1>4

\* A session that can no longer write never can again.
LEMMA WritableBefore ==
  ASSUME IdsInv, IdsInv', [Next]_vars, NEW h \in Session, handler_thread_id_[h] # 0,
         writable(h)'
  PROVE  writable(h) /\ handler_session_id_'[h] = handler_session_id_[h]
<1> DEFINE t == handler_thread_id_[h]
           id == handler_session_id_[h]
<1>1. /\ handler_session_id_'[h] = id /\ id # 0 /\ handler_thread_id_'[h] = t
      /\ io_thread_[h] = t /\ io_thread_'[h] = t
  BY BuiltOnce DEF writable, is_closed, IdsInv, Binding
<1>2. t \in Threads /\ id \in Id
  BY DEF IdsInv, ServerTypeOK, ManagerTypeOK
<1>3. Effect(h) /\ Kept(h)
  BY EffectStep, KeptStep
<1>4. CASE session_id_[h] = 0
  BY <1>1, <1>4 DEF writable, is_closed
<1>5. CASE session_id_[h] # 0
  <2>1. session_id_'[h] = session_id_[h] /\ (~ closed_'[h] => ~ closed_[h])
    BY <1>3, <1>5
    DEF Effect, Rests, Opens, Closes, Writes, Posts, Enqueues, Starts, StaysOpen
  <2>2. session_queue_'[t][id] = h /\ ~ closed_'[h]
    BY <1>1, <1>5, <2>1 DEF writable, session_of
  <2>3. session_id_[h] = id
    BY <1>1, <1>5 DEF IdsInv, Binding
  <2>4. Registered(h)'
    BY <1>1, <1>5, <2>1, <2>2, <2>3 DEF Registered
  <2>5. Registered(h)
    BY <1>3, <1>5, <2>4 DEF Kept
  <2> QED BY <1>1, <1>5, <2>1, <2>2, <2>3, <2>5 DEF writable, is_closed, session_of, Registered
<1> QED BY <1>1, <1>4, <1>5

LEMMA UnmovedHandler ==
  ASSUME IdsInv, IdsInv', OneWriteInFlight, OutboundNames, OutboundInv, [Next]_vars,
         NEW h \in Session, handler_thread_id_'[h] = 0
  PROVE  Unsent(h)' /\ Ordered(h)'
<1>1. handler_thread_id_[h] = 0
  BY BuiltOnce
<1>2. handler_session_id_[h] = 0 /\ handler_session_id_'[h] = 0
  BY <1>1 DEF IdsInv, Binding
<1>3. Idles(h)
  BY <1>2, MovesStep
<1>4. Unsent(h) /\ Ordered(h)
  BY <1>1, IdFacts, MainThreadIsThread DEF OutboundInv, KeepsOrder
<1>5. ~ writable(h)'
  BY <1>2 DEF writable, is_closed
<1> QED BY <1>2, <1>3, <1>4, <1>5 DEF Unsent, Ordered, Idles, SameCalls

LEMMA FreshHandler ==
  ASSUME IdsInv, IdsInv', OutboundInv, [Next]_vars,
         NEW h \in Session, handler_thread_id_[h] = 0, handler_thread_id_'[h] # 0
  PROVE  Ordered(h)'
<1>1. PICK t \in Threads, id \in Id :
        /\ tasks' = post(tasks, t, initTask(h, id))
        /\ handler_thread_id_'[h] = t /\ handler_session_id_'[h] = id
  BY Fresh
<1>2. UNCHANGED <<wire, buffer_to_be_sent_, handlerVars>>
  BY Fresh
<1>3. wire[h] = <<>> /\ buffer_to_be_sent_[h] = <<>>
  BY DEF IdsInv, Binding, Untouched
<1>4. sent[h] = 0 /\ messages_to_be_sent_[h] = <<>>
  BY DEF OutboundInv, Unsent
<1>5. out(h)' = <<>>
  <2> DEFINE x == initTask(h, id)
             q == tasks[t]
  <2>1. q \in Seq(Task) /\ x \in Task /\ IsInit(x, h)
    BY TaskTypes DEF IdsInv, ServerTypeOK, IoTypeOK, initTask, IsInit
  <2>2. tasks'[t] = Append(q, x)
    BY <1>1 DEF post, IdsInv, ServerTypeOK, IoTypeOK
  <2> HIDE DEF q, x
  <2>3. transit(Append(q, x), toSession, id, h) = <<>>
    BY <2>1, ListOpsAre, TransitInit
  <2> QED BY <1>1, <2>2, <2>3 DEF out
<1>6. <<>> \o <<>> = <<>> /\ Len(<<>>) = 0 /\ messages_of(h, 0) = <<>>
  BY MessagesOf
<1>7. onwire(h)' = <<>>
  BY <1>2, <1>3, <1>6 DEF onwire
<1>8. sent'[h] = 0 /\ messages_to_be_sent_'[h] = <<>>
  BY <1>2, <1>4 DEF handlerVars
<1>9. total(h)' = <<>>
  BY <1>5, <1>6, <1>7, <1>8 DEF total
<1> QED BY <1>5, <1>6, <1>7, <1>8, <1>9 DEF Ordered

LEMMA MovedHandler ==
  ASSUME IdsInv, IdsInv', OneWriteInFlight, OutboundNames, OutboundInv, [Next]_vars,
         NEW h \in Session, handler_thread_id_[h] # 0, KeepsOrder(h)'
  PROVE  Ordered(h)'
<1> DEFINE t == handler_thread_id_[h]
           id == handler_session_id_[h]
<1>0. /\ ServerTypeOK /\ tasks' \in Queues /\ t \in Threads
      /\ sent[h] \in Nat /\ close_calls[h] \in Nat /\ sent'[h] \in Nat
      /\ messages_to_be_sent_'[h] \in Seq(Message)
  BY DEF IdsInv, ServerTypeOK, IoTypeOK, ManagerTypeOK, HandlerTypeOK, Queues
<1>1. handler_thread_id_'[h] = t /\ handler_session_id_'[h] \in {id, 0}
  BY BuiltOnce
<1>2. CASE id = 0
  <2>1. Idles(h) /\ ~ writable(h)' /\ handler_session_id_'[h] = 0
    BY <1>1, <1>2, MovesStep DEF writable, is_closed
  <2>2. KeepsOrder(h)
    BY <1>1, <2>1 DEF KeepsOrder, Idles, SameCalls
  <2> QED BY <2>1, <2>2 DEF OutboundInv, Ordered, Idles
<1>3. CASE id # 0
  <2>1. Moves(h)
    BY <1>3, MovesStep
  <2>2. t = MainThread => close_calls'[h] = 0
    BY <1>1 DEF KeepsOrder
  <2>3. KeepsOrder(h)
    BY <1>0, <2>1, <2>2
    DEF Moves, Stays, Sends, Packs, Lands, Directs, SameCalls, KeepsOrder
  <2>4. Ordered(h)
    BY <2>3 DEF OutboundInv
  <2>5. t = MainThread => out(h) = <<>>
    BY <1>3, <2>4 DEF Ordered
  <2>6. /\ onwire(h) \in Seq(Message) /\ out(h) \in Seq(Message) /\ after(h) \in Seq(Message)
        /\ messages_to_be_sent_[h] \in Seq(Message)
    BY <1>0, OutType
  <2>7. t = MainThread => after(h) = <<>>
    <3> SUFFICES ASSUME t = MainThread PROVE after(h) = <<>>
      OBVIOUS
    <3>1. close_calls'[h] = 0 /\ close_calls[h] = 0
      BY <2>2, <2>3 DEF KeepsOrder
    <3>2. ASSUME NEW m \in Seq(Message), Lands(h, m) PROVE after(h) = <<>>
      <4> DEFINE a == after(h)
      <4>1. <<>> = m \o a /\ a \in Seq(Message)
        BY <2>5, <2>6, <3>2 DEF Lands
      <4> HIDE DEF a
      <4>2. Len(m \o a) = Len(m) + Len(a) /\ Len(m) \in Nat /\ Len(a) \in Nat
        BY <4>1, ConcatProperties, LenProperties
      <4>3. Len(a) = 0
        <5>1. Len(m \o a) = 0
          BY <4>1
        <5> QED BY <4>2, <5>1
      <4>4. a = <<>>
        BY <4>1, <4>3, EmptySeq
      <4> QED BY <4>4 DEF a
    <3> QED BY <2>1, <2>5, <3>1, <3>2 DEF Moves, Stays, Sends, Packs, Directs, SameWaiting
  <2>8. ASSUME writable(h)
        PROVE  (onwire(h)' \o after(h)) \o messages_to_be_sent_'[h] = messages_of(h, sent'[h])
    BY <1>0, <2>1, <2>2, <2>4, <2>5, <2>8, TotalMoves DEF Ordered
  <2>9. onwire(h)' \in Seq(Message)
    <3>1. wire'[h] \in Seq(Message) /\ buffer_to_be_sent_'[h] \in Seq(Message)
      BY DEF IdsInv, ServerTypeOK, SessionTypeOK, WriteTypeOK
    <3> QED BY <3>1, ConcatProperties DEF onwire
  <2>10. onwire(h)' = messages_of(h, Len(onwire(h)'))
    <3>1. CASE writable(h)
      <4> DEFINE w == onwire(h)'
                 a == after(h)
                 b == messages_to_be_sent_'[h]
      <4>1. (w \o a) \o b = messages_of(h, sent'[h])
        BY <2>8, <3>1
      <4>2. w \in Seq(Message) /\ a \in Seq(Message) /\ b \in Seq(Message)
        BY <1>0, <2>6, <2>9
      <4> HIDE DEF w, a, b
      <4>3. (w \o a) \o b = w \o (a \o b) /\ a \o b \in Seq(Message)
        BY <4>2, ConcatAssociative, ConcatProperties
      <4>4. w = messages_of(h, Len(w))
        BY <1>0, <4>1, <4>2, <4>3, PrefixOf
      <4> QED BY <4>4 DEF w
    <3>2. CASE ~ writable(h)
      <4>1. onwire(h)' = onwire(h)
        <5>1. Directs(h) => closed_[h]
          BY <1>3, <3>2 DEF Directs, writable, is_closed
        <5> QED
          BY <2>1, <3>2, <5>1 DEF Moves, Stays, Sends, Packs, Lands, Directs, Gets
      <4> QED BY <2>4, <4>1 DEF Ordered
    <3> QED BY <3>1, <3>2
  <2>11. handler_session_id_'[h] = id => out(h)' = after(h)
    BY <1>1 DEF out, after
  <2>12. writable(h)' => total(h)' = messages_of(h, sent'[h])
    BY <2>8, <2>11, WritableBefore DEF total
  <2>13. handler_session_id_'[h] # 0 /\ handler_thread_id_'[h] = MainThread => out(h)' = <<>>
    BY <1>1, <2>7, <2>11
  <2> QED BY <2>10, <2>12, <2>13 DEF Ordered
<1> QED BY <1>2, <1>3

SendingInv == IdsInv /\ OneWriteInFlight /\ OutboundNames /\ OutboundInv

LEMMA SendingStep == ASSUME SendingInv, [Next]_vars PROVE SendingInv'
<1>1. IdsInv' /\ OneWriteInFlight' /\ OutboundNames'
  BY IdsStep, OneWriteStep, OutboundNamesStep DEF SendingInv
<1>2. ASSUME NEW h \in Session
      PROVE  /\ handler_thread_id_'[h] = 0 => Unsent(h)'
             /\ KeepsOrder(h)' => Ordered(h)'
  BY <1>1, UnmovedHandler, FreshHandler, MovedHandler DEF SendingInv
<1> QED BY <1>1, <1>2 DEF SendingInv, OutboundInv

LEMMA SendingInitially == Init => SendingInv
<1> SUFFICES ASSUME Init PROVE SendingInv
  OBVIOUS
<1>1. IdsInv /\ OneWriteInFlight
  BY IdsInitially, SessionsInitially DEF SessionsInv
<1>2. \A t \in Threads : DOMAIN tasks[t] = {}
  BY DEF Init
<1>3. OutboundNames
  BY <1>2 DEF OutboundNames, waits
<1>4. ASSUME NEW h \in Session PROVE Unsent(h) /\ Ordered(h)
  <2>1. Unsent(h) /\ handler_session_id_[h] = 0
    BY DEF Init, HandlerInit, ManagerInit, Unsent
  <2>2. onwire(h) = <<>>
    <3>1. wire[h] = <<>> /\ buffer_to_be_sent_[h] = <<>>
      BY DEF Init, SessionInit
    <3> QED BY <3>1 DEF onwire
  <2>3. messages_of(h, Len(<<>>)) = <<>>
    BY MessagesOf
  <2> QED BY <2>1, <2>2, <2>3 DEF Ordered, writable, is_closed
<1> QED BY <1>1, <1>3, <1>4 DEF SendingInv, OutboundInv

LEMMA SendingInvariance == Spec => []SendingInv
BY SendingInitially, SendingStep, PTL DEF Spec

\* What a session puts on the wire is what its own handler sent, in order and
\* without gaps, whatever has been closed and reused meanwhile; on the main
\* thread up to close() (tcp_session_handler.cpp:25-70, tcp_session.cpp:176-199).
THEOREM ServerSendsInOrder == Spec => []SentInOrder
<1>1. ASSUME SendingInv, NEW h \in Session, KeepsOrder(h)
      PROVE  wire[h] = messages_of(h, Len(wire[h]))
  <2> DEFINE n == Len(onwire(h))
  <2>1. wire[h] \in Seq(Message) /\ buffer_to_be_sent_[h] \in Seq(Message)
    BY <1>1 DEF SendingInv, IdsInv, ServerTypeOK, SessionTypeOK, WriteTypeOK
  <2>2. n \in Nat
    BY <2>1, ConcatProperties, LenProperties DEF onwire
  <2>3. wire[h] \o buffer_to_be_sent_[h] = messages_of(h, n)
    BY <1>1 DEF SendingInv, OutboundInv, Ordered, onwire
  <2> HIDE DEF n
  <2> QED BY <2>1, <2>2, <2>3, PrefixOf
<1>2. SendingInv => SentInOrder
  BY <1>1 DEF SentInOrder, KeepsOrder
<1> QED BY <1>2, SendingInvariance, PTL

\* All that the application sent on a handler whose session can write is on
\* the wire, in a buffer or on its way, once and in order, however the
\* batches were cut and the threads interleaved
\* (tcp_session_handler.cpp:25-70, 114-142; tcp_session.cpp:176-199, 272-282).
THEOREM ServerConservesOutbound == Spec => []OutboundConserved
<1>1. ASSUME SendingInv, NEW h \in Session, writable(h), KeepsOrder(h)
      PROVE  wire[h] \o buffer_to_be_sent_[h]
               \o in_transit(handler_thread_id_[h], "SendMessageListToSession", h)
               \o messages_to_be_sent_[h]
             = messages_of(h, sent[h])
  BY <1>1
  DEF SendingInv, OutboundInv, Ordered, total, onwire, out, transit, toSession, in_transit
<1>2. SendingInv => OutboundConserved
  BY <1>1 DEF OutboundConserved, KeepsOrder
<1> QED BY <1>2, SendingInvariance, PTL

----------------------------------------------------------------------------
(* What a step does to the messages that sessions receive.                 *)

DeliveryRests == UNCHANGED <<delivered, messages_received_, arrived>>

Inbound ==
  \/ DeliveryRests /\ (Quiet(toHandler, tasks, tasks') \/ Connects)
  \/ \E s \in Session, n \in Nat : handle_read(s, n) /\ UNCHANGED delivered
  \/ \E s \in Session : io_thread_[s] \in Threads /\ session_PackMessageList(s)
  \/ \E s \in Session : session_SendMessageListDirectly(s)
  \/ \E id \in Id, msgs \in Seq(Message) : SendMessageListToHandler(id, msgs)

LEMMA ReadVars ==
  /\ UNCHANGED serverVars /\ UNCHANGED readVars => DeliveryRests
  /\ UNCHANGED serverVars /\ UNCHANGED sessionVars => DeliveryRests
BY DEF serverVars, readVars, sessionVars, DeliveryRests

LEMMA PackedQuiet ==
  ASSUME ServerTypeOK, NEW queues \in Queues, NEW h \in Session
  PROVE  Quiet(toHandler, queues, packed(queues, h))
<1> DEFINE x == [op |-> toSession, id |-> handler_session_id_[h],
                 msgs |-> messages_to_be_sent_[h]]
<1>1. packed(queues, h) = queues \/ packed(queues, h) = post(queues, handler_thread_id_[h], x)
  BY DEF packed, toSession
<1>2. x \in Task /\ x.op # toHandler /\ x.op # "init"
  BY TaskTypes DEF ServerTypeOK, ManagerTypeOK, HandlerTypeOK, toSession, toHandler
<1> HIDE DEF x
<1> QED BY <1>1, <1>2, ListOpsAre, PostQuiet, QuietReflexive

LEMMA SendQuiet ==
  ASSUME ServerTypeOK, NEW queues \in Queues, NEW h \in Session,
         send(h, queues) \/ handler_close(h, queues)
  PROVE  Quiet(toHandler, queues, tasks')
<1>1. CASE send(h, queues)
  <2>1. tasks' = queues \/ tasks' = post(queues, MainThread, direct(h))
          \/ tasks' = post(queues, MainThread, pack(h))
    BY <1>1 DEF send, direct, pack
  <2>2. /\ direct(h) \in Task /\ direct(h).op = "handler.SendMessageListDirectly"
        /\ pack(h) \in Task /\ pack(h).op = "handler.PackMessageList"
    BY TaskTypes DEF direct, pack
  <2> QED BY <2>1, <2>2, ListOpsAre, PostQuiet, QuietReflexive DEF toHandler
<1>2. CASE handler_close(h, queues)
  <2> DEFINE x == [op |-> "CloseSession", id |-> handler_session_id_[h]]
             batch == packed(queues, h)
  <2>1. tasks' = post(batch, handler_thread_id_[h], x)
    BY <1>2 DEF handler_close
  <2>2. batch \in Queues /\ x \in Task /\ x.op # toHandler /\ x.op # "init"
    BY PackedType, TaskTypes DEF ServerTypeOK, ManagerTypeOK, toHandler
  <2>3. Quiet(toHandler, queues, batch)
    BY PackedQuiet
  <2> HIDE DEF batch, x
  <2>4. Quiet(toHandler, batch, tasks')
    BY <2>1, <2>2, ListOpsAre, PostQuiet
  <2> QED BY <2>3, <2>4, QuietTransitive
<1> QED BY <1>1, <1>2

LEMMA MainInbound == ASSUME IdsInv, MainStep PROVE Inbound
<1>0. ServerTypeOK /\ MainThread \in Threads
  BY MainThreadIsThread DEF IdsInv
<1> DEFINE queues == popped(MainThread)
<1>1. ASSUME DeliveryRests, tasks[MainThread] # <<>>, Head(tasks[MainThread]).op # toHandler,
             Quiet(toHandler, queues, tasks')
      PROVE  Inbound
  <2>1. Quiet(toHandler, tasks, queues)
    BY <1>0, <1>1, ListOpsAre, PopsQuietly
  <2> QED BY <1>1, <2>1, QuietTransitive DEF Inbound
<1>2. ASSUME NEW h \in Session,
             \/ handler_PackMessageList(h) /\ alone
             \/ handler_SendMessageListDirectly(h) /\ alone
      PROVE  Inbound
  <2>1. tasks[MainThread] # <<>> /\ Head(tasks[MainThread]).op # toHandler
    <3>1. CASE handler_PackMessageList(h)
      BY <3>1, RunsOp DEF handler_PackMessageList, runs, toHandler
    <3>2. CASE handler_SendMessageListDirectly(h)
      BY <3>2, RunsOp DEF handler_SendMessageListDirectly, runs, toHandler
    <3> QED BY <1>2, <3>1, <3>2
  <2>2. queues \in Queues
    BY <1>0, <2>1, PopType DEF ServerTypeOK
  <2>3. tasks' = queues \/ tasks' = packed(queues, h)
    BY <1>2 DEF handler_PackMessageList, handler_SendMessageListDirectly
  <2>4. DeliveryRests
    BY <1>2, ReadVars DEF handler_PackMessageList, handler_SendMessageListDirectly, alone
  <2> HIDE DEF queues
  <2>5. Quiet(toHandler, queues, tasks')
    BY <1>0, <2>2, <2>3, PackedQuiet, QuietReflexive
  <2> QED BY <1>1, <2>1, <2>4, <2>5
<1>3. ASSUME NEW id \in Id, session_closed(id) PROVE Inbound
  <2> DEFINE h == session_handler_map_[id]
  <2>1. tasks[MainThread] # <<>> /\ Head(tasks[MainThread]).op # toHandler
    BY <1>3, RunsOp DEF session_closed, runs, toHandler
  <2>2. queues \in Queues
    BY <1>0, <2>1, PopType DEF ServerTypeOK
  <2>3. DeliveryRests
    BY <1>3, ReadVars DEF session_closed
  <2>4. \/ tasks' = queues
        \/ h # nullptr /\ (send(h, queues) \/ handler_close(h, queues))
    BY <1>3 DEF session_closed
  <2>5. h # nullptr => h \in Session
    BY <1>0 DEF ServerTypeOK, ManagerTypeOK
  <2> HIDE DEF h, queues
  <2>6. Quiet(toHandler, queues, tasks')
    BY <1>0, <2>2, <2>4, <2>5, SendQuiet, QuietReflexive
  <2> QED BY <1>1, <2>1, <2>3, <2>6
<1> QED BY <1>2, <1>3 DEF MainStep, Inbound

LEMMA ThreadInbound == ASSUME IdsInv, ThreadStep PROVE Inbound
<1>0. ServerTypeOK
  BY DEF IdsInv
<1>1. ASSUME NEW t \in Threads, DeliveryRests, tasks[t] # <<>>, Head(tasks[t]).op # toHandler,
             Quiet(toHandler, popped(t), tasks')
      PROVE  Inbound
  <2>1. Quiet(toHandler, tasks, popped(t))
    BY <1>0, <1>1, ListOpsAre, PopsQuietly
  <2> QED BY <1>1, <2>1, QuietTransitive DEF Inbound
<1>2. ASSUME NEW s \in Session, io_thread_[s] \in Threads,
             \/ keep_alive_close(s)
             \/ close_timeout(s) /\ sessionAlone
             \/ (\E id \in Id : init(s, id)) /\ sessionAlone
      PROVE  Inbound
  <2> DEFINE queues == popped(io_thread_[s])
  <2>1. tasks[io_thread_[s]] # <<>> /\ Head(tasks[io_thread_[s]]).op # toHandler
    <3>1. CASE keep_alive_close(s)
      BY <3>1, RunsOp DEF keep_alive_close, runs, toHandler
    <3>2. CASE close_timeout(s)
      BY <3>2, RunsOp DEF close_timeout, runs, toHandler
    <3>3. CASE \E id \in Id : init(s, id)
      BY <3>3, RunsOp DEF init, runs, toHandler
    <3> QED BY <1>2, <3>1, <3>2, <3>3
  <2>2. queues \in Queues
    BY <1>0, <1>2, <2>1, PopType DEF ServerTypeOK
  <2>3. DeliveryRests
    BY <1>2, ReadVars
    DEF keep_alive_close, close, close_timeout, init, sessionAlone, readVars, serverVars,
        DeliveryRests
  <2>4. tasks' = queues \/ close(s, queues)
    BY <1>2 DEF keep_alive_close, close_timeout, init
  <2> HIDE DEF queues
  <2>5. Quiet(toHandler, queues, tasks')
    BY <1>0, <2>2, <2>4, ListOpsAre, CloseQuiet, QuietReflexive DEF ServerTypeOK
  <2> QED BY <1>1, <1>2, <2>1, <2>3, <2>5 DEF queues
<1>3. ASSUME NEW t \in Threads, NEW id \in Id, CloseSession(t, id), alone PROVE Inbound
  <2> DEFINE queues == popped(t)
             s == session_queue_[t][id]
  <2>1. tasks[t] # <<>> /\ Head(tasks[t]).op # toHandler
    BY <1>3, RunsOp DEF CloseSession, runs, toHandler
  <2>2. queues \in Queues
    BY <1>0, <2>1, PopType DEF ServerTypeOK
  <2>3. DeliveryRests
    BY <1>3, ReadVars DEF CloseSession, close, alone
  <2>4. tasks' = queues \/ (s \in Session /\ close(s, queues))
    BY <1>0, <1>3 DEF CloseSession, ServerTypeOK, SessionTypeOK, CloseTypeOK
  <2> HIDE DEF queues, s
  <2>5. Quiet(toHandler, queues, tasks')
    BY <1>0, <2>2, <2>4, ListOpsAre, CloseQuiet, QuietReflexive DEF ServerTypeOK
  <2> QED BY <1>1, <2>1, <2>3, <2>5 DEF queues
<1>4. ASSUME NEW t \in Threads, NEW id \in Id, NEW msgs \in Seq(Message),
             SendMessageListToSession(t, id, msgs), alone
      PROVE  Inbound
  <2>1. tasks[t] # <<>> /\ Head(tasks[t]).op # toHandler /\ tasks' = popped(t)
    BY <1>4, RunsOp DEF SendMessageListToSession, runs, toHandler
  <2>2. DeliveryRests
    BY <1>4, ReadVars DEF SendMessageListToSession, alone
  <2> QED BY <1>1, <2>1, <2>2, QuietReflexive
<1> QED BY <1>2, <1>3, <1>4 DEF ThreadStep, Inbound

LEMMA CompletionInbound == ASSUME IdsInv, CompletionStep PROVE Inbound
<1>0. ServerTypeOK /\ tasks \in Queues
  BY DEF IdsInv, ServerTypeOK, IoTypeOK, Queues
<1>1. PICK s \in Session :
        /\ \/ hanlde_write(s) \/ hanlde_write_fails(s)
           \/ handle_read_fails(s) \/ \E n \in Nat : handle_read(s, n)
           \/ handle_safe_close(s) \/ close_timer_expires(s)
        /\ sessionAlone
  BY DEF CompletionStep
<1>2. UNCHANGED serverVars
  BY <1>1 DEF sessionAlone
<1>3. ASSUME UNCHANGED <<messages_received_, arrived>>, Quiet(toHandler, tasks, tasks')
      PROVE  Inbound
  BY <1>2, <1>3 DEF Inbound, DeliveryRests, serverVars
<1>4. CASE hanlde_write(s) \/ handle_safe_close(s)
  BY <1>3, <1>4, QuietReflexive DEF hanlde_write, handle_safe_close, readVars
<1>5. CASE hanlde_write_fails(s) \/ handle_read_fails(s)
  <2>1. \E writes : hanlde_close(s, writes, tasks)
    BY <1>5 DEF hanlde_write_fails, handle_read_fails
  <2>2. Quiet(toHandler, tasks, tasks')
    BY <1>0, <2>1, ListOpsAre, CloseQuiet DEF ServerTypeOK
  <2> QED BY <1>3, <1>5, <2>2 DEF hanlde_write_fails, handle_read_fails, readVars
<1>6. CASE close_timer_expires(s)
  <2>1. tasks' = post(tasks, io_thread_[s], closeTimeout(s))
    BY <1>6 DEF close_timer_expires, closeTimeout
  <2>2. closeTimeout(s) \in Task /\ closeTimeout(s).op = "close_timeout"
    BY TaskTypes DEF closeTimeout
  <2>3. closeTimeout(s).op # toHandler /\ closeTimeout(s).op # "init"
    BY <2>2 DEF toHandler
  <2>4. Quiet(toHandler, tasks, tasks')
    BY <1>0, <2>1, <2>2, <2>3, ListOpsAre, PostQuiet
  <2> QED BY <1>3, <1>6, <2>4 DEF close_timer_expires, readVars
<1>7. CASE \E n \in Nat : handle_read(s, n)
  BY <1>2, <1>7 DEF Inbound, serverVars
<1> QED BY <1>1, <1>4, <1>5, <1>6, <1>7

LEMMA EnvironmentInbound == ASSUME IdsInv, EnvironmentStep \/ terminates PROVE Inbound
<1>0. ServerTypeOK /\ tasks \in Queues
  BY DEF IdsInv, ServerTypeOK, IoTypeOK, Queues
<1>1. DeliveryRests
  BY DEF EnvironmentStep, terminates, handle_accept, handle_accept_fails, connect,
         handle_accept_throws, connect_throws, connected_throws, app_send, app_close,
         check_keep_alive, sessionButBuiltVars, sessionVars, readVars, serverVars,
         DeliveryRests
<1>2. ASSUME NEW h \in Session, app_send(h) \/ app_close(h)
      PROVE  Quiet(toHandler, tasks, tasks')
  BY <1>0, <1>2, SendQuiet DEF app_send, app_close
<1>3. ASSUME NEW t \in Threads, check_keep_alive(t) PROVE Quiet(toHandler, tasks, tasks')
  BY <1>0, <1>3, KeepAliveQuiet, ListOpsAre
<1>4. ASSUME NEW s \in Session, handle_accept(s) \/ connect(s) PROVE Connects
  <2>1. PICK t \in Threads : handler_thread_id_[s] = 0 /\ connected(s, t)
    BY <1>0, <1>4, ThreadIsChosen
    DEF handle_accept, connect, unbuilt, IdsInv, Binding, ServerTypeOK, SessionTypeOK,
        BuiltTypeOK
  <2> QED BY <2>1 DEF connected, Connects, initTask
<1>5. ASSUME UNCHANGED tasks PROVE Quiet(toHandler, tasks, tasks')
  BY <1>5, QuietReflexive
<1>6. Quiet(toHandler, tasks, tasks') \/ Connects
  BY <1>2, <1>3, <1>4, <1>5
  DEF EnvironmentStep, terminates, handle_accept_fails, handle_accept_throws, connect_throws,
      connected_throws
<1> QED BY <1>1, <1>6 DEF Inbound

LEMMA InboundStepIs == ASSUME IdsInv, [Next]_vars PROVE Inbound
<1>1. CASE UNCHANGED vars
  <2>1. UNCHANGED tasks /\ UNCHANGED sessionVars /\ UNCHANGED serverVars
    BY <1>1 DEF vars
  <2> QED BY <2>1, ReadVars, QuietReflexive DEF Inbound
<1>2. CASE Next
  BY <1>2, Steps, MainInbound, ThreadInbound, CompletionInbound, EnvironmentInbound
  DEF IdsInv
<1> QED BY <1>1, <1>2

----------------------------------------------------------------------------
(* Where the lists come from.                                              *)

\* The deliveries that wait are of the kind that the session's thread calls for.
InboundNames ==
  \A s \in Session, t \in Threads :
    /\ waits(tasks, t, [op |-> "session.SendMessageListDirectly", s |-> s]) =>
         session_id_[s] # 0 /\ io_thread_[s] = MainThread
    /\ waits(tasks, t, [op |-> "session.PackMessageList", s |-> s]) =>
         session_id_[s] # 0 /\ io_thread_[s] # MainThread

\* A list on its way to a handler is of a session of another thread.
ListsHaveSources ==
  \A x : waits(tasks, MainThread, x) /\ x.op = toHandler =>
    \E s \in Session :
      session_id_[s] = x.id /\ session_id_[s] # 0 /\ io_thread_[s] # MainThread

LEMMA InitialisedOnce ==
  ASSUME IdsInv, [Next]_vars, NEW s \in Session, session_id_[s] # 0
  PROVE  session_id_'[s] = session_id_[s] /\ io_thread_'[s] = io_thread_[s]
<1>1. session_id_'[s] = session_id_[s]
  BY EffectStep
  DEF Effect, Rests, Opens, Closes, Writes, Posts, Enqueues, Starts, StaysOpen
<1>2. io_thread_'[s] = io_thread_[s]
  BY BuiltOnce DEF IdsInv, Binding
<1> QED BY <1>1, <1>2

LEMMA InboundNamesStep ==
  ASSUME IdsInv, InboundNames, [Next]_vars
  PROVE  InboundNames'
<1> SUFFICES ASSUME NEW s \in Session, NEW t \in Threads
    PROVE  /\ waits(tasks', t, [op |-> "session.SendMessageListDirectly", s |-> s]) =>
                session_id_'[s] # 0 /\ io_thread_'[s] = MainThread
           /\ waits(tasks', t, [op |-> "session.PackMessageList", s |-> s]) =>
                session_id_'[s] # 0 /\ io_thread_'[s] # MainThread
  BY DEF InboundNames, waits
<1>1. session_id_[s] # 0 => session_id_'[s] # 0 /\ io_thread_'[s] = io_thread_[s]
  BY InitialisedOnce
<1> DEFINE x == [op |-> "session.SendMessageListDirectly", s |-> s]
           y == [op |-> "session.PackMessageList", s |-> s]
<1>2. /\ x.op = "session.SendMessageListDirectly" /\ x.s = s
      /\ y.op = "session.PackMessageList" /\ y.s = s
  OBVIOUS
<1>3. /\ waits(tasks, t, x) => session_id_[s] # 0 /\ io_thread_[s] = MainThread
      /\ waits(tasks, t, y) => session_id_[s] # 0 /\ io_thread_[s] # MainThread
  BY DEF InboundNames
<1> HIDE DEF x, y
<1>4. /\ waits(tasks', t, x) => waits(tasks, t, x) \/ Caused(x)
      /\ waits(tasks', t, y) => waits(tasks, t, y) \/ Caused(y)
  BY FlowsStep DEF Flows
<1>5. /\ Caused(x) => session_id_[s] # 0 /\ io_thread_[s] = MainThread
      /\ Caused(y) => session_id_[s] # 0 /\ io_thread_[s] # MainThread
  BY <1>2 DEF Caused
<1>6. /\ waits(tasks', t, x) => session_id_'[s] # 0 /\ io_thread_'[s] = MainThread
      /\ waits(tasks', t, y) => session_id_'[s] # 0 /\ io_thread_'[s] # MainThread
  BY <1>1, <1>3, <1>4, <1>5
<1> QED BY <1>6 DEF x, y

LEMMA SourcesStep ==
  ASSUME IdsInv, InboundNames, ListsHaveSources, [Next]_vars
  PROVE  ListsHaveSources'
<1> SUFFICES ASSUME NEW x, waits(tasks', MainThread, x), x.op = toHandler
    PROVE  \E s \in Session :
             session_id_'[s] = x.id /\ session_id_'[s] # 0 /\ io_thread_'[s] # MainThread
  BY DEF ListsHaveSources, waits, toHandler
<1>1. waits(tasks, MainThread, x) \/ Caused(x)
  BY FlowsStep, MainThreadIsThread DEF Flows
<1>2. \E s \in Session :
        session_id_[s] = x.id /\ session_id_[s] # 0 /\ io_thread_[s] # MainThread
  <2>1. CASE waits(tasks, MainThread, x)
    BY <2>1 DEF ListsHaveSources
  <2>2. CASE Caused(x)
    <3>1. PICK s \in Session : PacksFor(s, x.id)
      BY <2>2 DEF Caused, toHandler
    <3> QED BY <3>1 DEF PacksFor, InboundNames
  <2> QED BY <1>1, <2>1, <2>2
<1> QED BY <1>2, InitialisedOnce

----------------------------------------------------------------------------
(* What a step does to the messages that one handler receives.             *)

\* On the way from its session to h, before the step and after it.
inway(h) == transit(tasks[MainThread], toHandler, handler_session_id_[h], h)
inafter(h) == transit(tasks'[MainThread], toHandler, handler_session_id_[h], h)

\* No other session has had the id of h.
Sole(h) == \A s \in Session \ {h} : session_id_[s] # handler_session_id_[h]

SameRead(h) == messages_received_'[h] = messages_received_[h] /\ arrived'[h] = arrived[h]
SameDelivered(h) == delivered'[h] = delivered[h]

Keeps(h) == inafter(h) = inway(h) /\ SameRead(h) /\ SameDelivered(h)

Gathers(h) ==
  /\ inafter(h) = inway(h) /\ SameDelivered(h)
  /\ \E n \in Nat :
       /\ arrived'[h] = arrived[h] + n
       /\ messages_received_'[h]
            = messages_received_[h] \o [i \in 1 .. n |-> <<h, arrived[h] + i>>]

Ships(h) ==
  /\ inafter(h) = inway(h) \o messages_received_[h] /\ SameDelivered(h)
  /\ messages_received_'[h] = <<>> /\ arrived'[h] = arrived[h]

Reaches(h) ==
  /\ SameRead(h)
  /\ \E msgs \in Seq(Message) :
       inway(h) = msgs \o inafter(h) /\ delivered'[h] = delivered[h] \o msgs

Passes(h) ==
  /\ inway(h) = <<>> /\ inafter(h) = <<>>
  /\ delivered'[h] = delivered[h] \o messages_received_[h]
  /\ messages_received_'[h] = <<>> /\ arrived'[h] = arrived[h]

Receives(h) == Keeps(h) \/ Gathers(h) \/ Ships(h) \/ Reaches(h) \/ Passes(h)

LEMMA TransitNothing ==
  ASSUME NEW q \in Seq(Task), NEW op \in ListOps, NEW id, NEW h,
         \A i \in 1 .. Len(q) : part(q[i], op, id) = <<>>
  PROVE  transit(q, op, id, h) = <<>>
<1> DEFINE c == carried(q, op, id, h)
<1>1. Carries(c, q, op, id, h)
  BY CarriedType
<1> HIDE DEF c
<1>2. c \in Seq(Seq(Message)) /\ \A i \in 1 .. Len(c) : c[i] = <<>>
  BY <1>1 DEF Carries
<1>3. FlattenSeq(c) = <<>>
  BY <1>2, FlattenNothing
<1> QED BY <1>3 DEF transit, c

\* Nothing is on its way to a handler whose session has sent nothing.
Unfed(queue, h, id) == transit(queue, toHandler, id, h) = <<>>

LEMMA UnfedWithout ==
  ASSUME NEW q \in Seq(Task), NEW id, NEW h,
         \A i \in DOMAIN q : ~(q[i].op = toHandler /\ q[i].id = id)
  PROVE  Unfed(q, h, id)
<1>1. \A i \in 1 .. Len(q) : i \in DOMAIN q
  BY LenProperties
<1>2. \A i \in 1 .. Len(q) : part(q[i], toHandler, id) = <<>>
  BY <1>1 DEF part
<1> QED BY <1>2, ListOpsAre, TransitNothing DEF Unfed

LEMMA UnfedHandler ==
  ASSUME IdsInv, ListsHaveSources, NEW h \in Session, handler_session_id_[h] # 0, Sole(h),
         session_id_[h] # handler_session_id_[h] \/ io_thread_[h] = MainThread
  PROVE  inway(h) = <<>>
<1> DEFINE q == tasks[MainThread]
           id == handler_session_id_[h]
<1>1. q \in Seq(Task)
  BY MainThreadIsThread DEF IdsInv, ServerTypeOK, IoTypeOK
<1>2. ASSUME NEW i \in DOMAIN q, q[i].op = toHandler, q[i].id = id PROVE FALSE
  <2>1. waits(tasks, MainThread, q[i])
    BY DEF waits
  <2>2. PICK s \in Session : session_id_[s] = id /\ io_thread_[s] # MainThread
    BY <1>2, <2>1 DEF ListsHaveSources
  <2> QED BY <2>2 DEF Sole
<1> HIDE DEF q, id
<1>3. Unfed(q, h, id)
  BY <1>1, <1>2, UnfedWithout
<1> QED BY <1>3 DEF Unfed, inway, q, id

LEMMA ReceiveTypes ==
  ASSUME ServerTypeOK, NEW h \in Session
  PROVE  /\ delivered[h] \in Seq(Message) /\ messages_received_[h] \in Seq(Message)
         /\ inway(h) \in Seq(Message) /\ arrived[h] \in Nat
         /\ tasks' \in Queues => inafter(h) \in Seq(Message)
BY ListOpsAre, TransitType, MainThreadIsThread
DEF inway, inafter, Queues, ServerTypeOK, IoTypeOK, SessionTypeOK, ReadTypeOK

LEMMA QuietIn ==
  ASSUME ServerTypeOK, NEW h \in Session, Quiet(toHandler, tasks, tasks')
  PROVE  inafter(h) = inway(h)
BY MainThreadIsThread DEF Quiet, inway, inafter, ServerTypeOK, ManagerTypeOK

LEMMA RestReceives ==
  ASSUME IdsInv, DeliveryRests, Quiet(toHandler, tasks, tasks') \/ Connects,
         NEW h \in Session, handler_session_id_[h] # 0
  PROVE  Receives(h)
<1>0. ServerTypeOK
  BY DEF IdsInv
<1>1. inafter(h) = inway(h)
  BY <1>0, QuietIn, ConnectsQuietly, ListOpsAre, MainThreadIsThread DEF inway, inafter
<1> QED BY <1>1 DEF DeliveryRests, Receives, Keeps, SameRead, SameDelivered

LEMMA ReadReceives ==
  ASSUME IdsInv, NEW s \in Session, NEW n \in Nat, handle_read(s, n), UNCHANGED delivered,
         NEW h \in Session
  PROVE  Receives(h)
<1>0. ServerTypeOK /\ tasks \in Queues
  BY DEF IdsInv, ServerTypeOK, IoTypeOK, Queues
<1>1. tasks' = tasks \/ tasks' = post(tasks, io_thread_[s], deliver(s))
  BY DEF handle_read, deliver
<1>2. /\ deliver(s) \in Task
      /\ deliver(s).op \in {"session.SendMessageListDirectly", "session.PackMessageList"}
  BY TaskTypes DEF deliver
<1>3. deliver(s).op # toHandler /\ deliver(s).op # "init"
  BY <1>2 DEF toHandler
<1>4. Quiet(toHandler, tasks, tasks')
  BY <1>0, <1>1, <1>2, <1>3, ListOpsAre, PostQuiet, QuietReflexive
<1>5. inafter(h) = inway(h) /\ SameDelivered(h)
  BY <1>0, <1>4, QuietIn DEF SameDelivered
<1>6. CASE h = s
  <2>1. /\ arrived'[h] = arrived[h] + n
        /\ messages_received_'[h]
             = messages_received_[h] \o [i \in 1 .. n |-> <<h, arrived[h] + i>>]
    BY <1>0, <1>6 DEF handle_read, ServerTypeOK, SessionTypeOK, ReadTypeOK
  <2> QED BY <1>5, <2>1 DEF Receives, Gathers
<1>7. CASE h # s
  <2>1. SameRead(h)
    BY <1>0, <1>7 DEF handle_read, SameRead, ServerTypeOK, SessionTypeOK, ReadTypeOK
  <2> QED BY <1>5, <2>1 DEF Receives, Keeps
<1> QED BY <1>6, <1>7

\* The session of a handler that answers to an id has that id or none yet.
LEMMA SessionHasId ==
  ASSUME IdsInv, NEW h \in Session, handler_session_id_[h] # 0, session_id_[h] # 0
  PROVE  session_id_[h] = handler_session_id_[h]
BY DEF IdsInv, Binding

LEMMA PackReceives ==
  ASSUME IdsInv, InboundNames, NEW s \in Session, io_thread_[s] \in Threads,
         session_PackMessageList(s),
         NEW h \in Session, handler_session_id_[h] # 0, Sole(h)
  PROVE  Receives(h)
<1> DEFINE t == io_thread_[s]
           id == handler_session_id_[h]
           msgs == messages_received_[s]
           queues == popped(t)
           x == [op |-> toHandler, id |-> session_id_[s], msgs |-> msgs]
           y == [op |-> "session.PackMessageList", s |-> s]
<1>0. ServerTypeOK /\ MainThread \in Threads
  BY MainThreadIsThread DEF IdsInv
<1>1. tasks[t] # <<>> /\ Head(tasks[t]) = y
  BY DEF session_PackMessageList, runs
<1>2. waits(tasks, t, y)
  BY <1>0, <1>1, PopWaits DEF ServerTypeOK
<1>3. session_id_[s] # 0 /\ t # MainThread
  BY <1>2 DEF InboundNames
<1>4. queues \in Queues /\ queues[MainThread] = tasks[MainThread]
  BY <1>0, <1>1, <1>3, PopType DEF ServerTypeOK, IoTypeOK, popped
<1>5. tasks' = IF msgs = <<>> THEN queues ELSE post(queues, MainThread, x)
  BY DEF session_PackMessageList, toHandler
<1>6. x \in Task /\ ~ IsInit(x, h)
  BY <1>0, TaskTypes
  DEF ServerTypeOK, SessionTypeOK, BuiltTypeOK, ReadTypeOK, toHandler, IsInit
<1>7. part(x, toHandler, id) = IF session_id_[s] = id THEN msgs ELSE <<>>
  BY DEF part
<1>8. session_id_[s] = id <=> s = h
  BY <1>3, SessionHasId DEF Sole
<1>9. inway(h) = transit(queues[MainThread], toHandler, id, h) /\ inway(h) \in Seq(Message)
  BY <1>0, <1>4, ReceiveTypes DEF inway
<1>10. inway(h) \o <<>> = inway(h)
  BY <1>9, ConcatEmptySeq
<1>11. transit(post(queues, MainThread, x)[MainThread], toHandler, id, h)
         = transit(queues[MainThread], toHandler, id, h) \o part(x, toHandler, id)
  <2> HIDE DEF queues, x, id
  <2> QED BY <1>0, <1>4, <1>6, ListOpsAre, PostTransit
<1>12. SameDelivered(h)
  BY DEF session_PackMessageList, serverVars, SameDelivered
<1>13. inafter(h) = transit(tasks'[MainThread], toHandler, id, h)
  BY DEF inafter
<1>14. CASE s = h
  <2>1. inafter(h) = inway(h) \o messages_received_[h]
    <3>1. CASE msgs = <<>>
      BY <1>5, <1>9, <1>10, <1>13, <1>14, <3>1
    <3>2. CASE msgs # <<>>
      <4> HIDE DEF queues, x, id
      <4>1. part(x, toHandler, id) = messages_received_[h]
        BY <1>7, <1>8, <1>14
      <4> QED BY <1>5, <1>9, <1>11, <1>13, <3>2, <4>1
    <3> QED BY <3>1, <3>2
  <2>2. messages_received_'[h] = <<>> /\ arrived'[h] = arrived[h]
    BY <1>0, <1>14 DEF session_PackMessageList, ServerTypeOK, SessionTypeOK, ReadTypeOK
  <2> QED BY <1>12, <2>1, <2>2 DEF Receives, Ships
<1>15. CASE s # h
  <2>1. inafter(h) = inway(h)
    <3>1. CASE msgs = <<>>
      BY <1>5, <1>9, <1>13, <3>1
    <3>2. CASE msgs # <<>>
      <4> HIDE DEF queues, x, id
      <4>1. part(x, toHandler, id) = <<>>
        BY <1>7, <1>8, <1>15
      <4> QED BY <1>5, <1>9, <1>10, <1>11, <1>13, <3>2, <4>1
    <3> QED BY <3>1, <3>2
  <2>2. SameRead(h)
    BY <1>0, <1>15
    DEF session_PackMessageList, SameRead, ServerTypeOK, SessionTypeOK, ReadTypeOK
  <2> QED BY <1>12, <2>1, <2>2 DEF Receives, Keeps
<1> QED BY <1>14, <1>15

LEMMA DirectReceives ==
  ASSUME IdsInv, InboundNames, ListsHaveSources, NEW s \in Session,
         session_SendMessageListDirectly(s),
         NEW h \in Session, handler_session_id_[h] # 0, Sole(h)
  PROVE  Receives(h)
<1> DEFINE y == [op |-> "session.SendMessageListDirectly", s |-> s]
           i == session_id_[s]
           g == session_handler_map_[i]
<1>0. ServerTypeOK /\ MainThread \in Threads /\ i \in Id
  BY MainThreadIsThread DEF IdsInv, ServerTypeOK, SessionTypeOK, BuiltTypeOK
<1>1. /\ tasks[MainThread] # <<>> /\ Head(tasks[MainThread]) = y
      /\ Head(tasks[MainThread]).op # toHandler
  BY DEF session_SendMessageListDirectly, runs, toHandler
<1>2. waits(tasks, MainThread, y)
  BY <1>0, <1>1, PopWaits DEF ServerTypeOK
<1>3. i # 0 /\ io_thread_[s] = MainThread
  BY <1>0, <1>2 DEF InboundNames
<1>4. inafter(h) = inway(h)
  <2>1. Quiet(toHandler, tasks, tasks')
    BY <1>0, <1>1, ListOpsAre, PopsQuietly DEF session_SendMessageListDirectly
  <2> QED BY <1>0, <2>1, QuietIn
<1>5. arrived'[h] = arrived[h]
  BY DEF session_SendMessageListDirectly
<1>6. g = h <=> handler_session_id_[h] = i
  BY <1>0, <1>3 DEF IdsInv, IInv, HandlersIndexed
<1>7. g = h <=> s = h
  BY <1>3, <1>6, SessionHasId DEF Sole
<1>8. /\ h # nullptr
      /\ g # nullptr => g \in Session
  BY <1>0, IdFacts DEF ServerTypeOK, ManagerTypeOK
<1>9. \/ g = nullptr /\ UNCHANGED <<delivered, messages_received_>>
      \/ /\ g # nullptr
         /\ delivered' = [delivered EXCEPT ![g] = @ \o messages_received_[s]]
         /\ messages_received_' = [messages_received_ EXCEPT ![s] = <<>>]
  BY DEF session_SendMessageListDirectly
<1> HIDE DEF g
<1>10. CASE s = h
  <2>1. inway(h) = <<>>
    BY <1>3, <1>10, UnfedHandler
  <2>2. /\ delivered'[h] = delivered[h] \o messages_received_[h]
        /\ messages_received_'[h] = <<>>
    BY <1>0, <1>7, <1>8, <1>9, <1>10 DEF ServerTypeOK, SessionTypeOK, ReadTypeOK
  <2> QED BY <1>4, <1>5, <2>1, <2>2 DEF Receives, Passes
<1>11. CASE s # h
  <2>1. delivered'[h] = delivered[h] /\ messages_received_'[h] = messages_received_[h]
    BY <1>0, <1>7, <1>8, <1>9, <1>11 DEF ServerTypeOK, SessionTypeOK, ReadTypeOK
  <2> QED BY <1>4, <1>5, <2>1 DEF Receives, Keeps, SameRead, SameDelivered
<1> QED BY <1>10, <1>11

LEMMA ListReceives ==
  ASSUME IdsInv, ListsHaveSources, NEW i \in Id, NEW msgs \in Seq(Message),
         SendMessageListToHandler(i, msgs),
         NEW h \in Session, handler_session_id_[h] # 0, Sole(h)
  PROVE  Receives(h)
<1> DEFINE q == tasks[MainThread]
           id == handler_session_id_[h]
           x == [op |-> toHandler, id |-> i, msgs |-> msgs]
           g == session_handler_map_[i]
<1>0. ServerTypeOK /\ MainThread \in Threads /\ tasks \in [Threads -> Seq(Task)]
  BY MainThreadIsThread DEF IdsInv, ServerTypeOK, IoTypeOK
<1>1. q \in Seq(Task) /\ q # <<>> /\ Head(q) = x /\ tasks'[MainThread] = Tail(q)
  BY <1>0 DEF SendMessageListToHandler, runs, toHandler, popped
<1>2. SameRead(h)
  BY DEF SendMessageListToHandler, sessionVars, readVars, SameRead
<1>3. part(x, toHandler, id) = IF i = id THEN msgs ELSE <<>>
  BY DEF part
<1>4. transit(Tail(q), toHandler, id, h) \in Seq(Message)
  <2>1. Tail(q) \in Seq(Task)
    BY <1>1, HeadTailProperties
  <2> QED BY <2>1, ListOpsAre, TransitType
<1>5. delivered' = IF g = nullptr THEN delivered ELSE [delivered EXCEPT ![g] = @ \o msgs]
  BY DEF SendMessageListToHandler
<1>6. h # nullptr /\ delivered \in [Session -> Seq(Message)]
  BY <1>0, IdFacts DEF ServerTypeOK
<1>7. i # 0 => (g = h <=> id = i)
  BY DEF IdsInv, IInv, HandlersIndexed
<1>8. CASE i = id
  <2>1. waits(tasks, MainThread, x)
    BY <1>0, <1>1, PopWaits DEF ServerTypeOK
  <2>2. PICK s \in Session : session_id_[s] = i
    BY <2>1 DEF ListsHaveSources
  <2>3. session_id_[h] # 0
    BY <1>8, <2>2 DEF Sole
  <2>4. ASSUME NEW j \in DOMAIN q, IsInit(q[j], h) PROVE FALSE
    <3>1. q[j] \in Task /\ q[j].op = "init" /\ q[j].s = h
      BY <1>1, <2>4, LenProperties DEF IsInit
    <3>2. q[j].id \in Id /\ q[j] = initTask(h, q[j].id)
      BY <3>1 DEF Task, initTask
    <3>3. waits(tasks, MainThread, initTask(h, q[j].id))
      BY <3>2 DEF waits
    <3> QED BY <1>0, <2>3, <3>2, <3>3 DEF IdsInv, InitNames
  <2>5. inway(h) = msgs \o inafter(h)
    <3> HIDE DEF q, x, id
    <3>1. part(x, toHandler, id) = msgs
      BY <1>3, <1>8
    <3>2. transit(q, toHandler, id, h) = msgs \o transit(Tail(q), toHandler, id, h)
      BY <1>1, <2>4, <3>1, ListOpsAre, TransitTail
    <3> QED BY <1>1, <3>2 DEF inway, inafter, q, id
  <2>6. delivered'[h] = delivered[h] \o msgs
    BY <1>5, <1>6, <1>7, <1>8
  <2> QED BY <1>2, <2>5, <2>6 DEF Receives, Reaches
<1>9. CASE i # id
  <2>1. g # h
    <3>1. CASE i = 0
      BY <1>6, <3>1, IdFacts
    <3> QED BY <1>7, <1>9, <3>1
  <2>2. SameDelivered(h)
    BY <1>5, <1>6, <2>1 DEF SameDelivered
  <2>3. inafter(h) = inway(h)
    <3> HIDE DEF q, x, id
    <3>1. part(x, toHandler, id) = <<>>
      BY <1>3, <1>9
    <3>2. transit(q, toHandler, id, h) = <<>> \o transit(Tail(q), toHandler, id, h)
      <4> DEFINE A == \A j \in DOMAIN q : ~ IsInit(q[j], h)
      <4>1. transit(q, toHandler, id, h)
              = (IF A THEN part(Head(q), toHandler, id) ELSE <<>>)
                  \o transit(Tail(q), toHandler, id, h)
        BY SMTT(30), <1>1, ListOpsAre, TransitTail
      <4> HIDE DEF A
      <4>2. (IF A THEN part(Head(q), toHandler, id) ELSE <<>>) = <<>>
        BY <1>1, <3>1
      <4> QED BY <4>1, <4>2
    <3>3. transit(q, toHandler, id, h) = transit(Tail(q), toHandler, id, h)
      BY <1>4, <3>2, ConcatEmptySeq
    <3> QED BY <1>1, <3>3 DEF inway, inafter, q, id
  <2> QED BY <1>2, <2>2, <2>3 DEF Receives, Keeps
<1> QED BY <1>8, <1>9

LEMMA ReceivesStep ==
  ASSUME IdsInv, InboundNames, ListsHaveSources, [Next]_vars,
         NEW h \in Session, handler_session_id_[h] # 0, Sole(h)
  PROVE  Receives(h)
BY InboundStepIs, RestReceives, ReadReceives, PackReceives, DirectReceives, ListReceives
DEF Inbound

----------------------------------------------------------------------------
(* The order of what is received.                                          *)

LEMMA MessagesMore ==
  ASSUME NEW h \in Session, NEW a \in Nat, NEW n \in Nat
  PROVE  messages_of(h, a) \o [i \in 1 .. n |-> <<h, a + i>>] = messages_of(h, a + n)
<1> DEFINE f == messages_of(h, a)
           b == [i \in 1 .. n |-> <<h, a + i>>]
           g == messages_of(h, a + n)
<1>1. /\ f \in Seq(Message) /\ Len(f) = a /\ \A i \in 1 .. a : f[i] = <<h, i>>
      /\ g \in Seq(Message) /\ Len(g) = a + n /\ \A i \in 1 .. a + n : g[i] = <<h, i>>
  <2>1. \A i \in 1 .. a : f[i] = <<h, i>>
    BY DEF messages_of
  <2>2. \A i \in 1 .. a + n : g[i] = <<h, i>>
    BY DEF messages_of
  <2>3. f \in Seq(Message) /\ Len(f) = a
    BY MessagesOf
  <2>4. g \in Seq(Message) /\ Len(g) = a + n
    <3>1. a + n \in Nat
      OBVIOUS
    <3> QED BY <3>1, MessagesOf
  <2> QED BY <2>1, <2>2, <2>3, <2>4
<1>2. b \in Seq(Message) /\ Len(b) = n /\ \A i \in 1 .. n : b[i] = <<h, a + i>>
  <2>1. \A i \in 1 .. n : <<h, a + i>> \in Message
    BY DEF Message
  <2>2. b \in [1 .. n -> Message]
    BY <2>1
  <2> HIDE DEF b
  <2>3. b \in Seq(Message) /\ Len(b) = n
    BY <2>2, SeqDef, LenProperties
  <2> QED BY <2>3 DEF b
<1> HIDE DEF f, b, g
<1>3. /\ f \o b \in Seq(Message) /\ Len(f \o b) = a + n
      /\ \A i \in 1 .. a + n : (f \o b)[i] = IF i <= a THEN f[i] ELSE b[i - a]
  BY <1>1, <1>2, ConcatProperties
<1>4. ASSUME NEW i \in 1 .. a + n PROVE (f \o b)[i] = g[i]
  <2>1. CASE i <= a
    <3>1. i \in 1 .. a
      BY <2>1
    <3> QED BY <1>1, <1>3, <2>1, <3>1
  <2>2. CASE ~(i <= a)
    <3>1. i - a \in 1 .. n /\ a + (i - a) = i
      BY <2>2
    <3>2. b[i - a] = <<h, i>>
      BY <1>2, <3>1
    <3> QED BY <1>1, <1>3, <2>2, <3>2
  <2> QED BY <2>1, <2>2
<1>5. f \o b = g
  BY <1>1, <1>3, <1>4, SeqEqual
<1> QED BY <1>5 DEF f, b, g

intake(h) == (delivered[h] \o inway(h)) \o messages_received_[h]

LEMMA IntakeMoves ==
  ASSUME ServerTypeOK, tasks' \in Queues, NEW h \in Session, Receives(h),
         intake(h) = messages_of(h, arrived[h])
  PROVE  (delivered'[h] \o inafter(h)) \o messages_received_'[h] = messages_of(h, arrived'[h])
<1> DEFINE d == delivered[h]
           w == inway(h)
           a == inafter(h)
           r == messages_received_[h]
           n == arrived[h]
<1>1. /\ d \in Seq(Message) /\ w \in Seq(Message) /\ a \in Seq(Message)
      /\ r \in Seq(Message) /\ n \in Nat
  BY ReceiveTypes
<1>2. (d \o w) \o r = messages_of(h, n)
  BY DEF intake
<1>3. \A x, y, z \in Seq(Message) : (x \o y) \o z = x \o (y \o z)
  BY Associative
<1>4. \A x \in Seq(Message) : x \o <<>> = x
  BY ConcatEmptySeq
<1>5. \A x, y \in Seq(Message) : x \o y \in Seq(Message)
  BY ConcatProperties
<1>6. CASE Keeps(h)
  BY <1>2, <1>6 DEF Keeps, SameRead, SameDelivered
<1>7. CASE Gathers(h)
  <2>1. PICK k \in Nat :
          /\ arrived'[h] = n + k
          /\ messages_received_'[h] = r \o [i \in 1 .. k |-> <<h, n + i>>]
    BY <1>7 DEF Gathers
  <2> DEFINE b == [i \in 1 .. k |-> <<h, n + i>>]
             e == d \o w
  <2>2. delivered'[h] = d /\ a = w
    BY <1>7 DEF Gathers, SameDelivered
  <2>3. b \in Seq(Message) /\ e \in Seq(Message)
    BY <1>1, <1>5, MessageLists
  <2>4. messages_of(h, n) \o b = messages_of(h, n + k)
    BY <1>1, MessagesMore
  <2>5. messages_received_'[h] = r \o b
    BY <2>1
  <2> HIDE DEF b, d, w, a, r, n
  <2>6. e \o (r \o b) = (e \o r) \o b
    <3> HIDE DEF e
    <3> QED BY SMTT(30), <1>1, <1>3, <2>3
  <2> QED BY <1>2, <2>1, <2>2, <2>4, <2>5, <2>6 DEF a
<1>8. CASE Ships(h)
  <2>1. /\ delivered'[h] = d /\ a = w \o r
        /\ messages_received_'[h] = <<>> /\ arrived'[h] = n
    BY <1>8 DEF Ships, SameDelivered
  <2> HIDE DEF d, w, a, r, n
  <2>2. (d \o w) \o r = d \o a
    BY SMTT(30), <1>1, <1>3, <2>1
  <2>3. (d \o a) \o <<>> = d \o a
    BY <1>1, <1>4, <1>5
  <2> QED BY <1>2, <2>1, <2>2, <2>3 DEF a
<1>9. CASE Reaches(h)
  <2>1. PICK m \in Seq(Message) : w = m \o a /\ delivered'[h] = d \o m
    BY <1>9 DEF Reaches
  <2>2. messages_received_'[h] = r /\ arrived'[h] = n
    BY <1>9 DEF Reaches, SameRead
  <2> HIDE DEF d, w, a, r, n
  <2>3. (d \o m) \o a = d \o (m \o a)
    BY SMTT(30), <1>1, <1>3, <2>1
  <2> QED BY <1>2, <2>1, <2>2, <2>3 DEF a
<1>10. CASE Passes(h)
  <2>1. /\ w = <<>> /\ a = <<>> /\ delivered'[h] = d \o r
        /\ messages_received_'[h] = <<>> /\ arrived'[h] = n
    BY <1>10 DEF Passes
  <2> HIDE DEF d, w, a, r, n
  <2>2. (d \o r) \o <<>> = d \o r /\ d \o w = d
    BY <1>1, <1>4, <1>5, <2>1
  <2> QED BY <1>2, <2>1, <2>2 DEF a
<1> QED BY <1>6, <1>7, <1>8, <1>9, <1>10 DEF Receives

\* What InboundConserved says, and that nothing is received before the
\* connection.
Unread(h) == delivered[h] = <<>> /\ arrived[h] = 0 /\ messages_received_[h] = <<>>

Counted(h) ==
  handler_session_id_[h] # 0 /\ Sole(h) => intake(h) = messages_of(h, arrived[h])

InboundInv == \A h \in Session : (handler_thread_id_[h] = 0 => Unread(h)) /\ Counted(h)

LEMMA UnreadStep ==
  ASSUME IdsInv, InboundNames, [Next]_vars, NEW h \in Session,
         handler_thread_id_[h] = 0, Unread(h)
  PROVE  Unread(h)'
<1>0. ServerTypeOK /\ MainThread \in Threads
  BY MainThreadIsThread DEF IdsInv
<1>1. session_id_[h] = 0 /\ handler_session_id_[h] = 0 /\ closed_[h]
  BY DEF IdsInv, Binding, Untouched
<1>2. ASSUME DeliveryRests PROVE Unread(h)'
  BY <1>2 DEF DeliveryRests, Unread
<1>3. ASSUME NEW s \in Session, NEW n \in Nat, handle_read(s, n), UNCHANGED delivered
      PROVE  Unread(h)'
  <2>1. s # h
    BY <1>1, <1>3 DEF handle_read
  <2> QED BY <1>0, <1>3, <2>1 DEF handle_read, Unread, ServerTypeOK, SessionTypeOK, ReadTypeOK
<1>4. ASSUME NEW s \in Session, io_thread_[s] \in Threads, session_PackMessageList(s)
      PROVE  Unread(h)'
  BY <1>0, <1>4
  DEF session_PackMessageList, serverVars, Unread, ServerTypeOK, SessionTypeOK, ReadTypeOK
<1>5. ASSUME NEW i \in Id, session_handler_map_[i] # nullptr
      PROVE  session_handler_map_[i] # h
  <2>1. i # 0
    BY <1>5, IdFacts
  <2> QED BY <1>1, <2>1 DEF IdsInv, IInv, HandlersIndexed
<1>6. ASSUME NEW s \in Session, session_SendMessageListDirectly(s) PROVE Unread(h)'
  <2> DEFINE g == session_handler_map_[session_id_[s]]
  <2>1. g = nullptr \/ g # h
    BY <1>0, <1>5 DEF ServerTypeOK, SessionTypeOK, BuiltTypeOK
  <2>2. \/ UNCHANGED <<delivered, messages_received_>>
        \/ /\ g # h
           /\ delivered' = [delivered EXCEPT ![g] = @ \o messages_received_[s]]
           /\ messages_received_' = [messages_received_ EXCEPT ![s] = <<>>]
    BY <1>6, <2>1 DEF session_SendMessageListDirectly
  <2>3. arrived' = arrived
    BY <1>6 DEF session_SendMessageListDirectly
  <2> HIDE DEF g
  <2> QED BY <1>0, <2>2, <2>3 DEF Unread, ServerTypeOK, SessionTypeOK, ReadTypeOK
<1>7. ASSUME NEW i \in Id, NEW msgs \in Seq(Message), SendMessageListToHandler(i, msgs)
      PROVE  Unread(h)'
  <2> DEFINE g == session_handler_map_[i]
  <2>1. UNCHANGED delivered \/ (g # h /\ delivered' = [delivered EXCEPT ![g] = @ \o msgs])
    BY <1>5, <1>7 DEF SendMessageListToHandler
  <2>2. UNCHANGED readVars
    BY <1>7 DEF SendMessageListToHandler, sessionVars
  <2> HIDE DEF g
  <2> QED BY <1>0, <2>1, <2>2 DEF readVars, Unread, ServerTypeOK
<1> QED BY <1>2, <1>3, <1>4, <1>6, <1>7, InboundStepIs DEF Inbound

LEMMA FreshReceiver ==
  ASSUME IdsInv, InboundInv, ListsHaveSources', IdsInv', [Next]_vars, NEW h \in Session,
         handler_thread_id_[h] = 0, handler_thread_id_'[h] # 0, Sole(h)'
  PROVE  intake(h)' = messages_of(h, arrived'[h])
<1> DEFINE q == tasks'[MainThread]
           id == handler_session_id_'[h]
<1>1. UNCHANGED <<session_id_, messages_received_, arrived, delivered>>
  BY Fresh
<1>2. /\ delivered'[h] = <<>> /\ arrived'[h] = 0 /\ messages_received_'[h] = <<>>
      /\ session_id_'[h] = 0
  BY <1>1 DEF InboundInv, Unread, IdsInv, Binding
<1>3. q \in Seq(Task)
  BY MainThreadIsThread DEF IdsInv, ServerTypeOK, IoTypeOK
<1>4. ASSUME NEW i \in DOMAIN q, q[i].op = toHandler, q[i].id = id PROVE FALSE
  <2>1. waits(tasks', MainThread, q[i])
    BY DEF waits
  <2>2. PICK s \in Session : session_id_'[s] = id /\ session_id_'[s] # 0
    BY <1>4, <2>1 DEF ListsHaveSources, waits, toHandler
  <2> QED BY <1>2, <2>2 DEF Sole
<1> HIDE DEF q, id
<1>5. Unfed(q, h, id)
  BY <1>3, <1>4, UnfedWithout
<1>6. inway(h)' = <<>>
  BY <1>5 DEF Unfed, inway, q, id
<1>7. <<>> \o <<>> = <<>> /\ messages_of(h, 0) = <<>>
  BY MessagesOf
<1>8. intake(h)' = <<>>
  BY <1>2, <1>6, <1>7 DEF intake
<1> QED BY <1>2, <1>7, <1>8

LEMMA CountedStep ==
  ASSUME IdsInv, InboundNames, ListsHaveSources, InboundInv, IdsInv', ListsHaveSources',
         [Next]_vars, NEW h \in Session
  PROVE  Counted(h)'
<1> SUFFICES ASSUME handler_session_id_'[h] # 0, Sole(h)'
             PROVE  intake(h)' = messages_of(h, arrived'[h])
  BY DEF Counted
<1>1. CASE handler_thread_id_[h] = 0
  <2>1. handler_thread_id_'[h] # 0
    BY DEF IdsInv, Binding
  <2> QED BY <1>1, <2>1, FreshReceiver
<1>2. CASE handler_thread_id_[h] # 0
  <2>1. handler_session_id_'[h] = handler_session_id_[h] /\ handler_session_id_[h] # 0
    BY <1>2, BuiltOnce
  <2>2. Sole(h)
    <3> SUFFICES ASSUME NEW s \in Session \ {h}, session_id_[s] = handler_session_id_[h]
                 PROVE  FALSE
      BY DEF Sole
    <3>1. session_id_'[s] = session_id_[s]
      BY <2>1, InitialisedOnce
    <3> QED BY <2>1, <3>1 DEF Sole
  <2>3. Receives(h)
    BY <2>1, <2>2, ReceivesStep
  <2>4. intake(h) = messages_of(h, arrived[h])
    BY <2>1, <2>2 DEF InboundInv, Counted
  <2>5. ServerTypeOK /\ tasks' \in Queues
    BY DEF IdsInv, ServerTypeOK, IoTypeOK, Queues
  <2>6. (delivered'[h] \o inafter(h)) \o messages_received_'[h] = messages_of(h, arrived'[h])
    BY <2>3, <2>4, <2>5, IntakeMoves
  <2>7. inway(h)' = inafter(h)
    BY <2>1 DEF inway, inafter
  <2> QED BY <2>6, <2>7 DEF intake
<1> QED BY <1>1, <1>2

ReceivingInv == IdsInv /\ InboundNames /\ ListsHaveSources /\ InboundInv

LEMMA ReceivingStep == ASSUME ReceivingInv, [Next]_vars PROVE ReceivingInv'
<1>1. IdsInv' /\ InboundNames' /\ ListsHaveSources'
  BY IdsStep, InboundNamesStep, SourcesStep DEF ReceivingInv
<1>2. ASSUME NEW h \in Session, handler_thread_id_'[h] = 0 PROVE Unread(h)'
  <2>1. handler_thread_id_[h] = 0
    BY <1>2, BuiltOnce DEF ReceivingInv
  <2> QED BY <2>1, UnreadStep DEF ReceivingInv, InboundInv
<1>3. ASSUME NEW h \in Session PROVE Counted(h)'
  BY <1>1, CountedStep DEF ReceivingInv
<1> QED BY <1>1, <1>2, <1>3 DEF ReceivingInv, InboundInv

LEMMA ReceivingInitially == Init => ReceivingInv
<1> SUFFICES ASSUME Init PROVE ReceivingInv
  OBVIOUS
<1>1. IdsInv
  BY IdsInitially
<1>2. \A t \in Threads : DOMAIN tasks[t] = {}
  BY DEF Init
<1>3. InboundNames /\ ListsHaveSources
  BY <1>2, MainThreadIsThread DEF InboundNames, ListsHaveSources, waits
<1>4. InboundInv
  BY DEF Init, SessionInit, ManagerInit, InboundInv, Unread, Counted
<1> QED BY <1>1, <1>3, <1>4 DEF ReceivingInv

LEMMA ReceivingInvariance == Spec => []ReceivingInv
BY ReceivingInitially, ReceivingStep, PTL DEF Spec

\* All that was read for a handler that is not closed has been delivered, is
\* on its way or waits in messages_received_, once and in the order it
\* arrived, as long as no other session has had the handler's id
\* (tcp_session.cpp:16-66, 214-236).
THEOREM ServerConservesInbound == Spec => []InboundConserved
<1>1. ASSUME ReceivingInv, NEW h \in Session, ~ is_closed(h),
             \A s \in Session \ {h} : session_id_[s] # handler_session_id_[h]
      PROVE  delivered[h] \o in_transit(MainThread, "SendMessageListToHandler", h)
               \o messages_received_[h]
             = messages_of(h, arrived[h])
  BY <1>1
  DEF ReceivingInv, InboundInv, Counted, Sole, is_closed, intake, inway, transit, toHandler,
      in_transit
<1>2. ReceivingInv => InboundConserved
  BY <1>1 DEF InboundConserved
<1> QED BY <1>2, ReceivingInvariance, PTL
=============================================================================
