-------------------------- MODULE ThreadPool_proofs --------------------------
(***************************************************************************)
(* What the workers of a pool never do, for any number of workers, clients *)
(* and tasks.  The strengthening says what a worker knows at each of its   *)
(* places: while it holds the mutex to wait the list is empty, and while   *)
(* it runs a task the task is the head of the list.                        *)
(***************************************************************************)
EXTENDS ThreadPool, SequenceTheorems, TLAPS

WorkerKnows ==
  \A w \in Worker :
    /\ mutex_held[w] <=> worker[w] = "wait"
    /\ worker[w] = "wait" => queue_task_[w] = <<>>
    /\ worker[w] \in {"call", "pop"} =>
         queue_task_[w] # <<>> /\ cb[w] = Head(queue_task_[w])

IInv == ThreadTypeOK /\ WorkerKnows /\ NoLostTask /\ TasksInOrder

\* Appending to the list appends to what is and will be run.
LEMMA AppendLater ==
  ASSUME NEW s \in Seq(Callback), NEW t \in Seq(Callback), NEW x \in Callback
  PROVE  Append(s \o t, x) = s \o Append(t, x)
<1>1. /\ s \o t \in Seq(Callback) /\ <<x>> \in Seq(Callback)
      /\ Append(s \o t, x) = (s \o t) \o <<x>>
      /\ Append(t, x) = t \o <<x>>
  BY ConcatProperties, AppendIsConcat
<1>2. (s \o t) \o <<x>> = s \o (t \o <<x>>)
  BY <1>1, ConcatAssociative
<1> QED BY <1>1, <1>2

\* Running the head moves it from the list to what has been run.
LEMMA HeadIsRun ==
  ASSUME NEW s \in Seq(Callback), NEW t \in Seq(Callback), t # <<>>
  PROVE  s \o t = Append(s, Head(t)) \o Tail(t)
<1>1. /\ Head(t) \in Callback /\ Tail(t) \in Seq(Callback)
      /\ <<Head(t)>> \in Seq(Callback)
  BY HeadTailProperties
<1>2. t = <<Head(t)>> \o Tail(t)
  <2>1. Len(t) \in Nat \ {0}
    BY EmptySeq
  <2>2. t = SubSeq(t, 1, Len(t)) /\ Tail(t) = SubSeq(t, 2, Len(t))
    BY SubSeqFull, TailIsSubSeq
  <2>3. SubSeq(t, 1, Len(t)) = <<t[1]>> \o SubSeq(t, 2, Len(t))
    <3>1. 1 \in 1 .. Len(t) /\ Len(t) \in 1 .. Len(t) /\ 1 + 1 = 2
      BY <2>1
    <3> QED BY <3>1, SubSeqRecursiveFirst
  <2> QED BY <2>2, <2>3
<1>3. (s \o <<Head(t)>>) \o Tail(t) = s \o (<<Head(t)>> \o Tail(t))
  BY <1>1, ConcatAssociative
<1>4. Append(s, Head(t)) = s \o <<Head(t)>>
  BY <1>1, AppendIsConcat
<1> QED BY <1>2, <1>3, <1>4

LEMMA Initially == Init => IInv
<1> SUFFICES ASSUME Init PROVE IInv
  OBVIOUS
<1>1. ThreadTypeOK
  <2>1. <<>> \in Seq(Callback) /\ 1 \in Worker
    BY EmptySeq, ThreadAssumption DEF Worker
  <2> QED BY <2>1 DEF Init, ThreadInit, ThreadTypeOK
<1>2. WorkerKnows /\ NoLostTask
  BY DEF Init, ThreadInit, WorkerKnows, NoLostTask
<1>3. TasksInOrder
  <2>1. <<>> \o <<>> = <<>>
    BY EmptySeq, ConcatEmptySeq
  <2> QED BY <2>1 DEF Init, ThreadInit, TasksInOrder
<1> QED BY <1>1, <1>2, <1>3 DEF IInv

Places ==
  {"ready", "pick", "append", "push", "termminiate", "finish", "signal finished",
   "join", "finish to join", "signal to join", "joining", "wait for idle"}

\* c goes elsewhere, maybe to another Thread; the other clients stay.
MovesOnly(c) ==
  /\ \E place \in Places : goes(c, place)
  /\ \E w \in Worker : visits' = [visits EXCEPT ![c] = w]

LEMMA Leaves ==
  ASSUME IInv, NEW c \in Client, NEW place \in Places,
         leaves(c, place) \/ returns(c) \/ (goes(c, place) /\ UNCHANGED visits)
  PROVE  MovesOnly(c)
<1>1. visits \in [Client -> Worker]
  BY DEF IInv, ThreadTypeOK
<1>2. /\ 1 \in Worker /\ visits[c] \in Worker
      /\ "ready" \in Places
  <2>1. 1 \in Worker
    BY ThreadAssumption DEF Worker
  <2> QED BY <1>1, <2>1 DEF Places
<1>3. visits = [visits EXCEPT ![c] = visits[c]]
  BY <1>1
<1>4. visits[c] < NumWorkers => visits[c] + 1 \in Worker
  BY <1>2, ThreadAssumption DEF Worker
<1> QED BY <1>2, <1>3, <1>4 DEF leaves, returns, MovesOnly

\* A client that neither appends nor signals moves only itself.
LEMMA ClientMoves ==
  ASSUME IInv, NEW c \in Client, client[c] # "signal", MovesOnly(c),
         finished_' \in [Worker -> BOOLEAN],
         UNCHANGED <<queue_task_, mutex_held, pushed, workerVars>>
  PROVE  IInv'
<1>1. ThreadTypeOK'
  BY ZenonT(30) DEF IInv, ThreadTypeOK, MovesOnly, Places, goes, workerVars
<1>2. WorkerKnows' /\ TasksInOrder'
  BY DEF IInv, WorkerKnows, TasksInOrder, workerVars
<1>3. NoLostTask'
  <2>1. \A d \in Client :
          client[d] = "signal" => client'[d] = "signal" /\ visits'[d] = visits[d]
    BY DEF MovesOnly, goes, IInv, ThreadTypeOK
  <2> QED BY <2>1 DEF IInv, NoLostTask, workerVars
<1> QED BY <1>1, <1>2, <1>3 DEF IInv

\* A signal wakes the worker if it sleeps, so it may be the last one.
LEMMA SignalPreserves ==
  ASSUME IInv, NEW c \in Client, MovesOnly(c), notify_one(visits[c]),
         UNCHANGED <<finished_, queue_task_, mutex_held, cb, pushed, ran>>
  PROVE  IInv'
<1> DEFINE v == visits[c]
<1>1. /\ v \in Worker
      /\ \A w \in Worker : w # v => worker'[w] = worker[w]
      /\ worker'[v] = IF worker[v] = "asleep" THEN "lock" ELSE worker[v]
  BY DEF notify_one, IInv, ThreadTypeOK
<1>2. ThreadTypeOK'
  BY ZenonT(30) DEF IInv, ThreadTypeOK, notify_one, MovesOnly, Places, goes
<1>3. WorkerKnows'
  BY <1>1 DEF IInv, WorkerKnows
<1>4. NoLostTask'
  <2> SUFFICES ASSUME NEW w \in Worker, worker'[w] \in {"wait", "asleep"},
                      queue_task_'[w] # <<>>
               PROVE  /\ worker'[w] = "asleep"
                      /\ \E d \in Client : client'[d] = "signal" /\ visits'[d] = w
    BY DEF NoLostTask
  <2>1. w # v
    BY <1>1 DEF IInv, WorkerKnows
  <2>2. PICK d \in Client : client[d] = "signal" /\ visits[d] = w
    BY <1>1, <2>1 DEF IInv, NoLostTask
  <2>3. d # c /\ client'[d] = client[d] /\ visits'[d] = visits[d]
    BY <2>1, <2>2 DEF MovesOnly, goes, IInv, ThreadTypeOK
  <2> QED BY <1>1, <2>1, <2>2, <2>3 DEF IInv, NoLostTask
<1>5. TasksInOrder'
  BY <1>1 DEF IInv, TasksInOrder
<1> QED BY <1>2, <1>3, <1>4, <1>5 DEF IInv

LEMMA PushBackPreserves ==
  ASSUME IInv, NEW c \in Client, push_back(c)
  PROVE  IInv'
<1> DEFINE v == visits[c]
           task == next_task
<1>1. /\ v \in Worker /\ task \in Callback /\ ~mutex_held[v]
      /\ queue_task_[v] \in Seq(Callback) /\ pushed[v] \in Seq(Callback)
      /\ ran[v] \in Seq(Callback)
  BY DEF IInv, ThreadTypeOK, push_back
<1>2. /\ queue_task_' = [queue_task_ EXCEPT ![v] = Append(queue_task_[v], task)]
      /\ pushed' = [pushed EXCEPT ![v] = Append(pushed[v], task)]
      /\ UNCHANGED <<finished_, mutex_held, worker, cb, ran>>
  BY DEF push_back, workerVars
<1>3. /\ queue_task_'[v] = Append(queue_task_[v], task)
      /\ pushed'[v] = Append(pushed[v], task)
      /\ \A w \in Worker : w # v => queue_task_'[w] = queue_task_[w] /\ pushed'[w] = pushed[w]
  BY <1>1, <1>2 DEF IInv, ThreadTypeOK
<1>4. /\ queue_task_'[v] # <<>>
      /\ queue_task_'[v] \in Seq(Callback) /\ pushed'[v] \in Seq(Callback)
  BY <1>1, <1>3, AppendProperties
<1>5. MovesOnly(c) \/ (goes(c, "signal") /\ UNCHANGED visits)
  <2>1. CASE goes(c, "signal") /\ UNCHANGED visits
    BY <2>1
  <2>2. CASE returns(c)
    BY <2>2, Leaves DEF Places
  <2> QED BY <2>1, <2>2 DEF push_back
<1>6. /\ \A d \in Client : d # c => client'[d] = client[d] /\ visits'[d] = visits[d]
      /\ client[c] = "push"
  <2>1. CASE goes(c, "signal") /\ UNCHANGED visits
    BY <2>1 DEF goes, push_back, IInv, ThreadTypeOK
  <2>2. CASE MovesOnly(c)
    BY <2>2 DEF MovesOnly, goes, push_back, IInv, ThreadTypeOK
  <2> QED BY <1>5, <2>1, <2>2
<1>7. ThreadTypeOK'
  <2>1. queue_task_' \in [Worker -> Seq(Callback)] /\ pushed' \in [Worker -> Seq(Callback)]
    BY <1>1, <1>2, <1>3, <1>4 DEF IInv, ThreadTypeOK
  <2>2. CASE goes(c, "signal") /\ UNCHANGED visits
    BY <1>2, <2>1, <2>2 DEF IInv, ThreadTypeOK, goes
  <2>3. CASE MovesOnly(c)
    BY ZenonT(30), <1>2, <2>1, <2>3 DEF IInv, ThreadTypeOK, goes, MovesOnly, Places
  <2> QED BY <1>5, <2>2, <2>3
<1>8. WorkerKnows'
  <2>1. queue_task_[v] # <<>> => Head(queue_task_'[v]) = Head(queue_task_[v])
    BY <1>1, <1>3, HeadTailAppend
  <2> QED BY <1>1, <1>2, <1>3, <1>4, <2>1 DEF IInv, WorkerKnows
<1>9. NoLostTask'
  <2> SUFFICES ASSUME NEW w \in Worker, worker[w] \in {"wait", "asleep"},
                      queue_task_'[w] # <<>>
               PROVE  /\ worker[w] = "asleep"
                      /\ \E d \in Client : client'[d] = "signal" /\ visits'[d] = w
    BY <1>2 DEF NoLostTask
  <2>1. CASE queue_task_[w] = <<>>
    <3>1. w = v
      BY <1>3, <2>1
    <3>2. client'[c] = "signal" /\ visits'[c] = v
      BY <2>1, <3>1 DEF push_back, goes, IInv, ThreadTypeOK
    <3> QED BY <1>1, <3>1, <3>2 DEF IInv, WorkerKnows
  <2>2. CASE queue_task_[w] # <<>>
    <3>1. PICK d \in Client : client[d] = "signal" /\ visits[d] = w
      BY <2>2 DEF IInv, NoLostTask
    <3> QED BY <1>6, <2>2, <3>1 DEF IInv, NoLostTask
  <2> QED BY <2>1, <2>2
<1>10. TasksInOrder'
  <2> SUFFICES
        pushed'[v] =
          ran[v] \o (IF worker[v] = "pop" THEN Tail(queue_task_'[v]) ELSE queue_task_'[v])
    BY <1>2, <1>3 DEF TasksInOrder, IInv
  <2>1. CASE worker[v] = "pop"
    <3>1. queue_task_[v] # <<>> /\ Tail(queue_task_[v]) \in Seq(Callback)
      BY <1>1, <2>1, HeadTailProperties DEF IInv, WorkerKnows
    <3>2. Tail(queue_task_'[v]) = Append(Tail(queue_task_[v]), task)
      BY <1>1, <1>3, <3>1, HeadTailAppend
    <3>3. Append(ran[v] \o Tail(queue_task_[v]), task)
            = ran[v] \o Append(Tail(queue_task_[v]), task)
      BY <1>1, <3>1, AppendLater
    <3> QED BY <1>1, <1>3, <2>1, <3>2, <3>3 DEF IInv, TasksInOrder
  <2>2. CASE worker[v] # "pop"
    <3>1. Append(ran[v] \o queue_task_[v], task) = ran[v] \o Append(queue_task_[v], task)
      BY <1>1, AppendLater
    <3> QED BY <1>1, <1>3, <2>2, <3>1 DEF IInv, TasksInOrder
  <2> QED BY <2>1, <2>2
<1> QED BY <1>7, <1>8, <1>9, <1>10 DEF IInv

LEMMA InThreadPreserves ==
  ASSUME IInv, NEW c \in Client, InThread(c)
  PROVE  IInv'
<1>1. finished_ \in [Worker -> BOOLEAN] /\ visits[c] \in Worker
  BY DEF IInv, ThreadTypeOK
<1>2. CASE append(c)
  <2>1. MovesOnly(c)
    BY <1>2, Leaves DEF append, Places
  <2> QED BY <1>1, <1>2, <2>1, ClientMoves DEF append
<1>3. CASE push_back(c)
  BY <1>3, PushBackPreserves
<1>4. CASE append_signals(c)
  <2>1. MovesOnly(c)
    BY <1>4, Leaves DEF append_signals, Places
  <2> QED BY <1>4, <2>1, SignalPreserves DEF append_signals
<1>5. CASE termminiate(c)
  <2>1. MovesOnly(c)
    BY <1>5, Leaves DEF termminiate, Places
  <2> QED BY <1>1, <1>5, <2>1, ClientMoves DEF termminiate
<1>6. CASE join(c)
  <2>1. UNCHANGED visits /\ (goes(c, "joining") \/ goes(c, "finish to join"))
    BY <1>6 DEF join
  <2>2. MovesOnly(c)
    BY <2>1, Leaves DEF Places
  <2> QED BY <1>1, <1>6, <2>2, ClientMoves DEF join
<1>7. CASE finishes(c)
  <2>1. UNCHANGED visits /\ (goes(c, "signal finished") \/ goes(c, "signal to join"))
    BY <1>7 DEF finishes
  <2>2. MovesOnly(c)
    BY <2>1, Leaves DEF Places
  <2>3. finished_' \in [Worker -> BOOLEAN] /\ client[c] # "signal"
    BY <1>1, <1>7 DEF finishes
  <2> QED BY <1>7, <2>2, <2>3, ClientMoves DEF finishes
<1>8. CASE finish_signals(c)
  <2>1. MovesOnly(c)
    BY <1>8, Leaves DEF finish_signals, Places
  <2> QED BY <1>8, <2>1, SignalPreserves DEF finish_signals
<1>9. CASE joins(c)
  <2>1. MovesOnly(c)
    BY <1>9, Leaves DEF joins, Places
  <2> QED BY <1>1, <1>9, <2>1, ClientMoves DEF joins
<1>10. CASE idle(c)
  <2>1. MovesOnly(c)
    BY <1>10, Leaves DEF idle, Places
  <2> QED BY <1>1, <1>10, <2>1, ClientMoves DEF idle
<1> QED
  BY <1>2, <1>3, <1>4, <1>5, <1>6, <1>7, <1>8, <1>9, <1>10 DEF InThread

\* The worker's steps up to the call leave the list alone.
LEMMA LookingPreserves ==
  ASSUME IInv, NEW v \in Worker,
         loop(v) \/ lock(v) \/ wait(v) \/ wakes(v) \/ tests_finished(v) \/ front(v)
  PROVE  IInv'
<1>1. UNCHANGED <<finished_, queue_task_, client, visits, pushed, ran>>
  BY DEF loop, lock, wait, wakes, tests_finished, front
<1>2. PICK place \in {"loop", "lock", "wait", "asleep", "locked", "front", "call", "done"} :
        worker' = [worker EXCEPT ![v] = place]
  BY DEF loop, lock, wait, wakes, tests_finished, front, looks
<1>3. PICK task \in Callback \cup {nullptr} : cb' = [cb EXCEPT ![v] = task]
  <2>1. cb[v] \in Callback \cup {nullptr} /\ cb = [cb EXCEPT ![v] = cb[v]]
    BY DEF IInv, ThreadTypeOK
  <2>2. queue_task_[v] # <<>> => Head(queue_task_[v]) \in Callback
    BY HeadTailProperties DEF IInv, ThreadTypeOK
  <2>3. CASE front(v)
    BY <2>2, <2>3 DEF front
  <2>4. CASE ~front(v)
    BY <2>1, <2>4 DEF loop, lock, wait, wakes, tests_finished
  <2> QED BY <2>3, <2>4
<1>4. PICK held \in BOOLEAN : mutex_held' = [mutex_held EXCEPT ![v] = held]
  <2>1. mutex_held[v] \in BOOLEAN /\ mutex_held = [mutex_held EXCEPT ![v] = mutex_held[v]]
    BY DEF IInv, ThreadTypeOK
  <2>2. CASE lock(v)
    BY <2>2 DEF lock
  <2>3. CASE wait(v)
    BY <2>3 DEF wait
  <2>4. CASE ~lock(v) /\ ~wait(v)
    BY <2>1, <2>4 DEF loop, wakes, tests_finished, front
  <2> QED BY <2>2, <2>3, <2>4
<1>5. /\ worker'[v] = place /\ cb'[v] = task /\ mutex_held'[v] = held
      /\ \A w \in Worker : w # v =>
           /\ worker'[w] = worker[w] /\ cb'[w] = cb[w]
           /\ mutex_held'[w] = mutex_held[w]
  BY <1>2, <1>3, <1>4 DEF IInv, ThreadTypeOK
<1>6. ThreadTypeOK'
  BY <1>1, <1>2, <1>3, <1>4 DEF IInv, ThreadTypeOK
<1>7. /\ mutex_held'[v] <=> worker'[v] = "wait"
      /\ worker'[v] = "wait" => queue_task_[v] = <<>>
      /\ worker'[v] = "call" => queue_task_[v] # <<>> /\ cb'[v] = Head(queue_task_[v])
  <2>1. mutex_held[v] <=> worker[v] = "wait"
    BY DEF IInv, WorkerKnows
  <2>2. CASE lock(v)
    <3>1. /\ mutex_held'[v] <=> (queue_task_[v] = <<>> /\ ~finished_[v])
          /\ worker'[v] = IF queue_task_[v] = <<>> /\ ~finished_[v] THEN "wait" ELSE "locked"
      BY <2>2 DEF lock, looks, IInv, ThreadTypeOK
    <3> QED BY <3>1
  <2>3. CASE wait(v)
    BY <2>3 DEF wait, looks, IInv, ThreadTypeOK
  <2>4. CASE front(v)
    BY <2>1, <2>4 DEF front, looks, IInv, ThreadTypeOK
  <2>5. CASE loop(v) \/ wakes(v) \/ tests_finished(v)
    BY <2>1, <2>5 DEF loop, wakes, tests_finished, looks, IInv, ThreadTypeOK
  <2> QED BY <2>2, <2>3, <2>4, <2>5
<1>8. worker'[v] # "pop" /\ worker[v] # "pop"
  BY <1>2, <1>5 DEF loop, lock, wait, wakes, tests_finished, front, looks
<1>9. WorkerKnows'
  BY <1>1, <1>5, <1>7, <1>8 DEF IInv, WorkerKnows
<1>10. NoLostTask'
  <2>1. worker'[v] = "asleep" => worker[v] = "wait" /\ queue_task_[v] = <<>>
    <3>1. worker'[v] = "asleep" => worker[v] = "wait"
      BY <1>5 DEF loop, lock, wait, wakes, tests_finished, front, looks, IInv, ThreadTypeOK
    <3> QED BY <3>1 DEF IInv, WorkerKnows
  <2> QED BY <1>1, <1>5, <1>7, <2>1 DEF IInv, NoLostTask
<1>11. TasksInOrder'
  BY <1>1, <1>5, <1>8 DEF IInv, TasksInOrder
<1> QED BY <1>6, <1>9, <1>10, <1>11 DEF IInv

LEMMA RunningPreserves ==
  ASSUME IInv, NEW v \in Worker, call(v) \/ pop_front(v)
  PROVE  IInv'
<1>1. /\ queue_task_[v] \in Seq(Callback) /\ ran[v] \in Seq(Callback)
      /\ queue_task_[v] # <<>> /\ cb[v] = Head(queue_task_[v])
      /\ cb[v] \in Callback /\ Tail(queue_task_[v]) \in Seq(Callback)
  <2>1. queue_task_[v] # <<>> /\ cb[v] = Head(queue_task_[v])
    BY DEF IInv, WorkerKnows, call, pop_front, looks
  <2>2. queue_task_[v] \in Seq(Callback) /\ ran[v] \in Seq(Callback)
    BY DEF IInv, ThreadTypeOK
  <2> QED BY <2>1, <2>2, HeadTailProperties
<1>2. CASE call(v)
  <2>1. /\ worker[v] = "call" /\ worker'[v] = "pop"
        /\ ran'[v] = Append(ran[v], cb[v]) /\ Append(ran[v], cb[v]) \in Seq(Callback)
        /\ \A w \in Worker : w # v => worker'[w] = worker[w] /\ ran'[w] = ran[w]
        /\ UNCHANGED <<finished_, queue_task_, mutex_held, cb, client, visits, pushed>>
    BY <1>1, <1>2, AppendProperties DEF call, looks, IInv, ThreadTypeOK
  <2>2. ran[v] \o queue_task_[v] = Append(ran[v], cb[v]) \o Tail(queue_task_[v])
    BY <1>1, HeadIsRun
  <2>3. ThreadTypeOK'
    BY <1>2, <2>1 DEF call, looks, IInv, ThreadTypeOK
  <2>4. WorkerKnows' /\ NoLostTask'
    BY <1>1, <2>1 DEF IInv, WorkerKnows, NoLostTask
  <2>5. TasksInOrder'
    BY <2>1, <2>2 DEF IInv, TasksInOrder
  <2> QED BY <2>3, <2>4, <2>5 DEF IInv
<1>3. CASE pop_front(v)
  <2>1. /\ worker[v] = "pop" /\ worker'[v] = "loop"
        /\ queue_task_'[v] = Tail(queue_task_[v])
        /\ \A w \in Worker : w # v =>
             worker'[w] = worker[w] /\ queue_task_'[w] = queue_task_[w]
        /\ UNCHANGED <<finished_, mutex_held, cb, client, visits, pushed, ran>>
    BY <1>3 DEF pop_front, looks, IInv, ThreadTypeOK
  <2>2. ThreadTypeOK'
    BY <1>1, <1>3, <2>1 DEF pop_front, looks, IInv, ThreadTypeOK
  <2>3. WorkerKnows'
    <3>1. ~mutex_held[v]
      BY <2>1 DEF IInv, WorkerKnows
    <3> QED BY <2>1, <3>1 DEF IInv, WorkerKnows
  <2>4. NoLostTask'
    BY <2>1 DEF IInv, NoLostTask
  <2>5. TasksInOrder'
    BY <2>1 DEF IInv, TasksInOrder
  <2> QED BY <2>2, <2>3, <2>4, <2>5 DEF IInv
<1> QED BY <1>2, <1>3

LEMMA CallsPreserve ==
  ASSUME IInv, picks.best \in Worker, NEW c \in Client, Calls(c) \/ Picks(c)
  PROVE  IInv'
<1>1. finished_ \in [Worker -> BOOLEAN] /\ 1 \in Worker
  <2>1. 1 \in Worker
    BY ThreadAssumption DEF Worker
  <2> QED BY <2>1 DEF IInv, ThreadTypeOK
<1>2. CASE UNCHANGED threadVars
  BY ZenonT(30), <1>2 DEF threadVars, workerVars, IInv, ThreadTypeOK, WorkerKnows, NoLostTask,
              TasksInOrder
<1>3. CASE pool_append(c)
  <2>1. MovesOnly(c)
    BY <1>3, Leaves DEF pool_append, Places
  <2> QED BY <1>1, <1>3, <2>1, ClientMoves DEF pool_append, memberVars, workerVars
<1>4. CASE pool_termminiate(c) \/ pool_join(c) \/ pool_wait_for_idle(c)
  <2>1. MovesOnly(c)
    BY <1>1, <1>4
    DEF pool_termminiate, pool_join, pool_wait_for_idle, goes_round, MovesOnly, Places
  <2> QED
    BY <1>1, <1>4, <2>1, ClientMoves
    DEF pool_termminiate, pool_join, pool_wait_for_idle, memberVars, workerVars
<1>5. CASE picked(c)
  <2>1. MovesOnly(c)
    BY <1>5 DEF picked, MovesOnly, Places
  <2> QED BY <1>1, <1>5, <2>1, ClientMoves DEF picked, memberVars, workerVars
<1> QED BY <1>2, <1>3, <1>4, <1>5 DEF Calls, Picks, loads_next, loads_best

----------------------------------------------------------------------------
(* The pool: who holds mutex_ is in min_element, which stays in range.     *)

PoolInv == IInv /\ PoolTypeOK

LEMMA PoolInitially == Init => PoolInv
<1> SUFFICES ASSUME Init PROVE PoolInv
  OBVIOUS
<1>1. IInv
  BY Initially
<1>2. comparing(2, 1) \in [next : 2 .. NumWorkers + 1, best : Worker, load : Nat \cup {nullptr}]
      /\ comparing(2, 1).load = nullptr
  BY ThreadAssumption DEF comparing, Worker
<1>3. \A c \in Client : client[c] = "pick" <=> mutex_ = c
  BY ThreadAssumption DEF Init, ThreadInit
<1> QED BY <1>1, <1>2, <1>3 DEF PoolInv, PoolTypeOK, Init, IInv

\* Only a client that picks holds mutex_, so the others move as they like.
LEMMA PoolTypePreserved ==
  ASSUME PoolInv, NEW c \in Client, Calls(c) \/ Continues(c), ThreadTypeOK'
  PROVE  PoolTypeOK'
<1>1. /\ client \in [Client -> Places \cup {"signal"}]
      /\ nullptr \notin Client /\ nullptr \notin Nat
      /\ mutex_ \in Client \cup {nullptr}
      /\ \A d \in Client : client[d] = "pick" <=> mutex_ = d
      /\ joined \in BOOLEAN /\ due \in [Client -> SUBSET Callback]
      /\ picks \in [next : 2 .. NumWorkers + 1, best : Worker, load : Nat \cup {nullptr}]
      /\ picks.load # nullptr => picks.next <= NumWorkers
      /\ comparing(2, 1) \in [next : 2 .. NumWorkers + 1, best : Worker,
                               load : Nat \cup {nullptr}]
      /\ comparing(2, 1).load = nullptr
  <2>1. client \in [Client -> Places \cup {"signal"}]
    BY DEF PoolInv, PoolTypeOK, ThreadTypeOK, Places
  <2>2. comparing(2, 1) \in [next : 2 .. NumWorkers + 1, best : Worker,
                             load : Nat \cup {nullptr}]
        /\ comparing(2, 1).load = nullptr
    BY ThreadAssumption DEF comparing, Worker
  <2> QED BY <2>1, <2>2, ThreadAssumption DEF PoolInv, PoolTypeOK
<1>2. CASE pool_append(c)
  <2>1. mutex_ = nullptr /\ mutex_' = c /\ client' = [client EXCEPT ![c] = "pick"]
    BY <1>2 DEF pool_append, goes
  <2>2. \A d \in Client : client'[d] = "pick" <=> mutex_' = d
    BY <1>1, <2>1
  <2> QED BY <1>1, <1>2, <2>1, <2>2 DEF pool_append, PoolTypeOK
<1>3. CASE picked(c)
  <2>1. mutex_ = c /\ mutex_' = nullptr /\ client' = [client EXCEPT ![c] = "append"]
    BY <1>1, <1>3 DEF picked, goes
  <2>2. \A d \in Client : client'[d] = "pick" <=> mutex_' = d
    BY <1>1, <2>1
  <2> QED BY <1>1, <1>3, <2>1, <2>2 DEF picked, PoolTypeOK
<1>4. ASSUME UNCHANGED <<mutex_, client>> PROVE \A d \in Client : client'[d] = "pick" <=> mutex_' = d
  BY <1>1, <1>4
<1>5. CASE loads_next(c)
  <2>1. load(picks.next) \in Nat
    <3>1. picks.next \in Worker
      BY <1>1, <1>5, ThreadAssumption DEF loads_next, Worker
    <3> QED BY <3>1, LenProperties DEF load, PoolInv, PoolTypeOK, ThreadTypeOK
  <2>2. picks' \in [next : 2 .. NumWorkers + 1, best : Worker, load : Nat \cup {nullptr}]
        /\ picks'.next <= NumWorkers
    BY <1>1, <1>5, <2>1 DEF loads_next
  <2> QED BY <1>1, <1>4, <1>5, <2>2 DEF loads_next, PoolTypeOK, threadVars
<1>6. CASE loads_best(c)
  <2>1. picks.next \in Worker /\ picks.next + 1 \in 2 .. NumWorkers + 1
    BY <1>1, <1>6, ThreadAssumption DEF loads_best, Worker
  <2>2. picks' \in [next : 2 .. NumWorkers + 1, best : Worker, load : Nat \cup {nullptr}]
        /\ picks'.load = nullptr
    BY <1>1, <1>6, <2>1 DEF loads_best, comparing
  <2> QED BY <1>1, <1>4, <1>6, <2>2 DEF loads_best, PoolTypeOK, threadVars
<1>7. ASSUME NEW place \in Places \cup {"signal"}, place # "pick", client[c] # "pick",
             goes(c, place), mutex_' = mutex_
      PROVE  \A d \in Client : client'[d] = "pick" <=> mutex_' = d
  BY <1>1, <1>7 DEF goes
<1>8. used \subseteq Callback
  <2>1. \A w \in Worker : Range(pushed[w]) \subseteq Callback
    <3> SUFFICES ASSUME NEW w \in Worker PROVE Range(pushed[w]) \subseteq Callback
      OBVIOUS
    <3>1. pushed[w] \in Seq(Callback)
      BY DEF PoolInv, PoolTypeOK, ThreadTypeOK
    <3> QED BY <3>1 DEF Range
  <2> QED BY <2>1 DEF used
<1>9. CASE pool_termminiate(c)
  BY <1>1, <1>7, <1>9 DEF pool_termminiate, goes_round, poolVars, PoolTypeOK, Places
<1>10. CASE pool_join(c)
  BY <1>1, <1>7, <1>10 DEF pool_join, goes_round, PoolTypeOK, Places
<1>11. CASE pool_wait_for_idle(c)
  BY <1>1, <1>7, <1>8, <1>11 DEF pool_wait_for_idle, goes_round, PoolTypeOK, Places
<1>12. CASE InThread(c) /\ due' = [due EXCEPT ![c] = IF client'[c] = "ready" THEN {} ELSE @]
            /\ UNCHANGED <<mutex_, picks, joined>>
  <2>1. client[c] # "pick" /\ \E place \in (Places \cup {"signal"}) \ {"pick"} : goes(c, place)
    BY <1>12
    DEF InThread, append, push_back, append_signals, termminiate, join, finishes,
        finish_signals, joins, idle, leaves, returns, Places
  <2>2. \A d \in Client : client'[d] = "pick" <=> mutex_' = d
    BY <1>7, <1>12, <2>1
  <2>3. due' \in [Client -> SUBSET Callback]
    BY <1>1, <1>12
  <2> QED BY <1>1, <1>12, <2>2, <2>3 DEF PoolTypeOK
<1> QED
  BY <1>2, <1>3, <1>5, <1>6, <1>9, <1>10, <1>11, <1>12 DEF Calls, Continues, Picks

LEMMA Inductive == ASSUME PoolInv, [Next]_vars PROVE PoolInv'
<1>1. CASE UNCHANGED vars
  <2>1. UNCHANGED <<finished_, queue_task_, mutex_held, worker, cb, client, visits,
                    pushed, ran, mutex_, picks, joined, due>>
    BY <1>1 DEF vars, threadVars, workerVars, poolVars
  <2>2. ThreadTypeOK' /\ WorkerKnows' /\ NoLostTask' /\ TasksInOrder'
    BY ZenonT(30), <2>1 DEF PoolInv, IInv, ThreadTypeOK, WorkerKnows, NoLostTask, TasksInOrder
  <2>3. PoolTypeOK'
    BY <2>1, <2>2 DEF PoolInv, PoolTypeOK
  <2> QED BY <2>2, <2>3 DEF PoolInv, IInv
<1>2. ASSUME NEW w \in Worker, run_loop(w) \/ wakes(w), UNCHANGED poolVars PROVE PoolInv'
  <2>1. IInv'
    BY <1>2, LookingPreserves, RunningPreserves DEF run_loop, PoolInv
  <2>2. UNCHANGED client
    BY <1>2
    DEF run_loop, loop, lock, wait, wakes, tests_finished, front, call, pop_front
  <2> QED BY <1>2, <2>1, <2>2 DEF poolVars, PoolInv, PoolTypeOK, IInv
<1>3. ASSUME NEW c \in Client, Calls(c) \/ Continues(c) PROVE PoolInv'
  <2>1. IInv'
    BY <1>3, InThreadPreserves, CallsPreserve DEF Continues, PoolInv, PoolTypeOK
  <2>2. PoolTypeOK'
    BY <1>3, <2>1, PoolTypePreserved DEF IInv
  <2> QED BY <2>1, <2>2 DEF PoolInv
<1> QED BY <1>1, <1>2, <1>3 DEF Next

LEMMA Invariance == Spec => []PoolInv
BY PoolInitially, Inductive, PTL DEF Spec

----------------------------------------------------------------------------
(* A client that waits has seen the tasks run that were due in the Threads *)
(* it has left, and finds the others in the lists of those to come.        *)

Due ==
  \A c \in Client : client[c] = "wait for idle" =>
    \A task \in due[c] : \E w \in Worker :
      IF w < visits[c] THEN task \in Range(ran[w]) ELSE task \in Range(pushed[w])

LEMMA AppendKeeps ==
  ASSUME NEW s \in Seq(Callback), NEW x \in Callback
  PROVE  Range(s) \subseteq Range(Append(s, x))
<1>1. Len(s) \in Nat /\ Append(s, x) \in Seq(Callback) /\ Len(Append(s, x)) = Len(s) + 1
      /\ DOMAIN s = 1 .. Len(s) /\ DOMAIN Append(s, x) = 1 .. Len(s) + 1
  BY LenProperties, AppendProperties
<1>2. \A i \in DOMAIN s : i \in DOMAIN Append(s, x) /\ Append(s, x)[i] = s[i]
  BY <1>1, AppendProperties
<1> QED BY <1>2 DEF Range

\* Nothing is forgotten.
LEMMA HistoriesGrow ==
  ASSUME PoolInv, Next, NEW w \in Worker
  PROVE  Range(pushed[w]) \subseteq Range(pushed'[w]) /\ Range(ran[w]) \subseteq Range(ran'[w])
<1>1. ThreadTypeOK /\ WorkerKnows
  BY DEF PoolInv, IInv
<1>2. CASE UNCHANGED <<pushed, ran>>
  BY <1>2
<1>3. ASSUME NEW c \in Client, push_back(c)
      PROVE  Range(pushed[w]) \subseteq Range(pushed'[w]) /\ Range(ran[w]) \subseteq Range(ran'[w])
  <2>1. UNCHANGED ran /\ next_task \in Callback /\ visits[c] \in Worker
        /\ pushed[w] \in Seq(Callback)
    BY <1>1, <1>3 DEF push_back, workerVars, ThreadTypeOK
  <2>2. pushed'[w] = pushed[w] \/ pushed'[w] = Append(pushed[w], next_task)
    BY <1>1, <1>3 DEF push_back, ThreadTypeOK
  <2> QED BY <2>1, <2>2, AppendKeeps
<1>4. ASSUME NEW v \in Worker, call(v)
      PROVE  Range(pushed[w]) \subseteq Range(pushed'[w]) /\ Range(ran[w]) \subseteq Range(ran'[w])
  <2>1. queue_task_[v] # <<>> /\ cb[v] = Head(queue_task_[v])
    BY <1>1, <1>4 DEF call, looks, WorkerKnows
  <2>2. queue_task_[v] \in Seq(Callback) /\ ran[w] \in Seq(Callback)
    BY <1>1 DEF ThreadTypeOK
  <2>3. cb[v] \in Callback
    BY <2>1, <2>2, HeadTailProperties
  <2>4. UNCHANGED pushed /\ (ran'[w] = ran[w] \/ ran'[w] = Append(ran[w], cb[v]))
    BY <1>1, <1>4 DEF call, ThreadTypeOK
  <2> QED BY <2>2, <2>3, <2>4, AppendKeeps
<1> QED
  BY <1>2, <1>3, <1>4
  DEF Next, run_loop, loop, lock, wait, wakes, tests_finished, front, pop_front, Calls,
      pool_append, pool_termminiate, pool_join, pool_wait_for_idle, Continues, Picks,
      loads_next, loads_best, picked, InThread, append, append_signals, termminiate, join,
      finishes, finish_signals, joins, idle, memberVars, threadVars, workerVars

\* An empty list means that all have run.
LEMMA IdleHasRun ==
  ASSUME PoolInv, NEW c \in Client, idle(c)
  PROVE  Range(pushed[visits[c]]) \subseteq Range(ran[visits[c]])
<1> DEFINE v == visits[c]
<1>1. v \in Worker /\ queue_task_[v] \in Seq(Callback) /\ ran[v] \in Seq(Callback)
  BY DEF PoolInv, IInv, ThreadTypeOK
<1>2. queue_task_[v] = <<>>
  BY <1>1, EmptySeq DEF idle, load
<1>3. worker[v] # "pop"
  BY <1>1, <1>2 DEF PoolInv, IInv, WorkerKnows
<1>4. pushed[v] = ran[v]
  <2>1. pushed[v] = ran[v] \o <<>>
    BY <1>1, <1>2, <1>3 DEF PoolInv, IInv, TasksInOrder
  <2> QED BY <1>1, <2>1, ConcatEmptySeq
<1> QED BY <1>4

\* What Due says of one client, after a step.
DueAfter(c) ==
  /\ client'[c] = "wait for idle" =>
       \A task \in due'[c] : \E w \in Worker :
         IF w < visits'[c] THEN task \in Range(ran'[w]) ELSE task \in Range(pushed'[w])
  /\ client[c] = "wait for idle" /\ client'[c] = "ready" =>
       due[c] \subseteq UNION {Range(ran'[w]) : w \in Worker}

LEMMA WorkersAreNumbers ==
  NumWorkers \in Nat /\ \A w \in Worker : w \in Nat /\ 1 <= w /\ w <= NumWorkers
<1>1. NumWorkers \in Nat
  BY ThreadAssumption
<1> QED BY <1>1 DEF Worker

\* The worker after v is the only one that comes in when v is passed.
LEMMA NextWorker ==
  ASSUME NEW v \in Worker
  PROVE  /\ \A w \in Worker : w < v + 1 <=> w < v \/ w = v
         /\ v < NumWorkers \/ v = NumWorkers
         /\ ~(v < NumWorkers /\ v = NumWorkers)
         /\ v = NumWorkers => \A w \in Worker : w < v + 1
BY WorkersAreNumbers

\* Who has found a list empty goes on to the next, or is at the end.
LEMMA IdleLeaves ==
  ASSUME ThreadTypeOK, NEW c \in Client, idle(c)
  PROVE  /\ client[c] = "wait for idle" /\ visits[c] \in Worker
         /\ visits[c] < NumWorkers =>
              client'[c] = "wait for idle" /\ visits'[c] = visits[c] + 1
         /\ visits[c] = NumWorkers => client'[c] = "ready"
<1>1. client[c] = "wait for idle" /\ visits[c] \in Worker
  BY DEF idle, ThreadTypeOK
<1>2. ~(visits[c] < NumWorkers /\ visits[c] = NumWorkers)
  BY ONLY <1>1, NextWorker
<1>3. /\ visits[c] < NumWorkers =>
           goes(c, "wait for idle") /\ visits' = [visits EXCEPT ![c] = @ + 1]
      /\ visits[c] = NumWorkers => returns(c)
  BY <1>2 DEF idle, leaves
<1>4. goes(c, "wait for idle") /\ visits' = [visits EXCEPT ![c] = @ + 1] =>
        client'[c] = "wait for idle" /\ visits'[c] = visits[c] + 1
  BY DEF goes, ThreadTypeOK
<1>5. returns(c) => client'[c] = "ready"
  BY DEF returns, goes, ThreadTypeOK
<1> QED BY <1>1, <1>3, <1>4, <1>5

LEMMA DueStep ==
  ASSUME PoolInv, Due, Next, NEW c \in Client
  PROVE  DueAfter(c)
<1>1. \A w \in Worker : Range(pushed[w]) \subseteq Range(pushed'[w]) /\ Range(ran[w]) \subseteq Range(ran'[w])
  BY HistoriesGrow
<1>2. ThreadTypeOK /\ due \in [Client -> SUBSET Callback]
  BY DEF PoolInv, PoolTypeOK
<1>3. CASE client'[c] = client[c] /\ visits'[c] = visits[c] /\ due'[c] = due[c]
  BY <1>1, <1>3 DEF Due, DueAfter
<1>4. CASE client[c] # "wait for idle" /\ client'[c] # "wait for idle"
  BY <1>4 DEF DueAfter
<1>5. ASSUME NEW d \in Client, d # c, Calls(d) \/ Continues(d) PROVE DueAfter(c)
  <2>1. client'[c] = client[c] /\ visits'[c] = visits[c]
    BY <1>2, <1>5
    DEF Calls, pool_append, pool_termminiate, pool_join, pool_wait_for_idle, Continues,
        Picks, loads_next, loads_best, picked, InThread, append, push_back, append_signals,
        termminiate, join, finishes, finish_signals, joins, idle, threadVars, goes_round,
        goes, leaves, returns, ThreadTypeOK
  <2>2. due'[c] = due[c]
    BY <1>2, <1>5
    DEF Calls, pool_append, pool_termminiate, pool_join, pool_wait_for_idle, Continues,
        Picks, loads_next, loads_best, picked, poolVars
  <2> QED BY <1>3, <2>1, <2>2
<1>6. CASE pool_wait_for_idle(c)
  <2>1. /\ due'[c] = used /\ visits'[c] = 1 /\ client[c] = "ready"
        /\ UNCHANGED pushed
    BY <1>2, <1>6 DEF pool_wait_for_idle, goes_round, memberVars, ThreadTypeOK
  <2>2. ASSUME NEW task \in due'[c]
        PROVE  \E w \in Worker :
                 IF w < visits'[c] THEN task \in Range(ran'[w]) ELSE task \in Range(pushed'[w])
    <3>1. PICK w \in Worker : task \in Range(pushed[w])
      BY <2>1, <2>2 DEF used
    <3>2. ~(w < 1)
      BY WorkersAreNumbers
    <3> QED BY <1>1, <2>1, <3>1, <3>2
  <2> QED BY <2>1, <2>2 DEF DueAfter
<1>7. CASE idle(c) /\ due' = [due EXCEPT ![c] = IF client'[c] = "ready" THEN {} ELSE @]
  <2> DEFINE v == visits[c]
  <2>1. /\ client[c] = "wait for idle" /\ v \in Worker
        /\ v < NumWorkers => client'[c] = "wait for idle" /\ visits'[c] = v + 1
        /\ v = NumWorkers => client'[c] = "ready"
    BY <1>2, <1>7, IdleLeaves
  <2>2. Range(pushed[v]) \subseteq Range(ran[v])
    BY <1>7, IdleHasRun
  <2>3. ASSUME NEW task \in due[c]
        PROVE  \E w \in Worker :
                 IF w < v + 1 THEN task \in Range(ran'[w]) ELSE task \in Range(pushed'[w])
    <3>1. PICK w \in Worker :
            IF w < v THEN task \in Range(ran[w]) ELSE task \in Range(pushed[w])
      BY <2>1, <2>3 DEF Due
    <3>2. w < v + 1 <=> w < v \/ w = v
      BY ONLY <2>1, NextWorker
    <3>3. w < v + 1 => task \in Range(ran'[w])
      BY <1>1, <2>2, <3>1, <3>2
    <3>4. ~(w < v + 1) => task \in Range(pushed'[w])
      BY <1>1, <3>1, <3>2
    <3> QED BY <3>3, <3>4
  <2>4. CASE v < NumWorkers
    <3>1. due'[c] = due[c]
      BY <1>2, <1>7, <2>1, <2>4
    <3> QED BY <2>1, <2>3, <2>4, <3>1 DEF DueAfter
  <2>5. CASE v = NumWorkers
    <3>1. \A w \in Worker : w < v + 1
      BY ONLY <2>1, <2>5, NextWorker
    <3> QED BY <2>1, <2>3, <2>5, <3>1 DEF DueAfter
  <2> QED BY <2>1, <2>4, <2>5, NextWorker
<1>8. CASE (Calls(c) /\ ~pool_wait_for_idle(c)) \/ picked(c)
  <2>1. client[c] # "wait for idle" /\ client'[c] # "wait for idle"
    BY <1>2, <1>8
    DEF Calls, pool_append, pool_termminiate, pool_join, picked, goes_round, goes,
        ThreadTypeOK
  <2> QED BY <1>4, <2>1
<1>9. CASE InThread(c) /\ ~idle(c)
  <2>1. client[c] # "wait for idle" /\ client'[c] # "wait for idle"
    BY <1>2, <1>9
    DEF InThread, append, push_back, append_signals, termminiate, join, finishes,
        finish_signals, joins, leaves, returns, goes, ThreadTypeOK
  <2> QED BY <1>4, <2>1
<1>10. CASE UNCHANGED <<client, visits, due>>
  BY <1>3, <1>10
<1>11. ASSUME NEW w \in Worker, run_loop(w) \/ wakes(w), UNCHANGED poolVars PROVE DueAfter(c)
  <2>1. UNCHANGED <<client, visits, due>>
    BY <1>11
    DEF run_loop, loop, lock, wait, wakes, tests_finished, front, call, pop_front, poolVars
  <2> QED BY <1>10, <2>1
<1>12. CASE loads_next(c) \/ loads_best(c)
  BY <1>10, <1>12 DEF loads_next, loads_best, threadVars
<1>13. CASE Calls(c) \/ Continues(c)
  BY <1>6, <1>7, <1>8, <1>9, <1>12, <1>13 DEF Continues, Picks
<1> QED BY <1>5, <1>11, <1>13 DEF Next

LEMMA DueInvariance == Spec => []Due
<1>1. Init => Due
  BY DEF Init, ThreadInit, Due
<1>2. PoolInv /\ Due /\ [Next]_vars => Due'
  <2>1. CASE UNCHANGED vars
    BY <2>1 DEF vars, threadVars, workerVars, poolVars, Due
  <2>2. ASSUME PoolInv, Due, Next PROVE Due'
    <3>1. \A c \in Client : DueAfter(c)
      BY <2>2, DueStep
    <3> QED BY <3>1 DEF Due, DueAfter
  <2> QED BY <2>1, <2>2
<1> QED BY <1>1, <1>2, Invariance, PTL DEF Spec

----------------------------------------------------------------------------
\* The variables keep their types: a worker calls only what was appended and
\* pops only what is there, and min_element stays among the Threads
\* (thread_pool.cpp:111-132, 203-216).
THEOREM PoolTypeCorrect == Spec => []PoolTypeOK
BY Invariance, PTL DEF PoolInv

\* Signalling only the first task of a list loses no wake-up
\* (thread_pool.cpp:56-66, 95-104).
THEOREM WakeUpsAreKept == Spec => []NoLostTask
BY Invariance, PTL DEF PoolInv, IInv

\* Tasks run once each and in order, and an empty list means that all have
\* run (thread_pool.cpp:42-48, 111-132).
THEOREM OrderIsKept == Spec => []TasksInOrder
BY Invariance, PTL DEF PoolInv, IInv

\* Every task that had been appended when wait_for_idle() was called has run
\* when it returns (thread_pool.cpp:194-200, 41-48).
THEOREM IdleIsDone == Spec => IdleMeansDone
<1>1. ASSUME PoolInv, Due, [Next]_vars, NEW c \in Client,
             client[c] = "wait for idle", client'[c] = "ready"
      PROVE  due[c] \subseteq UNION {Range(ran'[w]) : w \in Worker}
  <2>1. Next
    BY <1>1 DEF vars, threadVars
  <2> QED BY <1>1, <2>1, DueStep DEF DueAfter
<1>2. PoolInv /\ Due /\ [Next]_vars =>
        [\A c \in Client :
           client[c] = "wait for idle" /\ client'[c] = "ready" =>
             due[c] \subseteq UNION {Range(ran'[w]) : w \in Worker}]_vars
  BY <1>1
<1> QED BY <1>2, Invariance, DueInvariance, PTL DEF Spec, IdleMeansDone
=============================================================================
