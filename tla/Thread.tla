------------------------------- MODULE Thread -------------------------------
(***************************************************************************)
(* Thread of thread_pool.h: a worker that runs the functions other threads *)
(* append to its list, under a mutex and a condition variable.             *)
(*                                                                         *)
(* Here are the members of every Thread of a pool, what its own thread     *)
(* does, and the calls of the others (ThreadPool says who calls what).  A  *)
(* step ends where another thread may come in: at a lock, at the atomic    *)
(* finished_, at a signal and at the wait.  What is done under the mutex   *)
(* without waiting is one step.                                            *)
(***************************************************************************)
EXTENDS Naturals, Sequences, FiniteSets, Functions

CONSTANTS
  NumWorkers, \* thread_num of ThreadPool's constructor
  Client,     \* threads that use the pool
  MaxTasks,   \* bound: functions that are appended
  Empty,      \* those that are a std::function without a target
  nullptr

ASSUME ThreadAssumption ==
  /\ NumWorkers \in Nat \ {0}
  /\ MaxTasks \in Nat /\ Empty \subseteq 1 .. MaxTasks
  /\ nullptr \notin Client \cup Nat

Worker == 1 .. NumWorkers
Callback == 1 .. MaxTasks   \* the i-th function that is appended

VARIABLES
  finished_,
  queue_task_,
  mutex_held,   \* the worker holds queue_task_mutex_ and is about to wait
  worker,       \* where run_loop is
  cb,
  client,       \* where each client is
  visits,       \* the Thread it is in
  pushed,       \* history: what was appended
  ran           \* history: what was called

workerVars == <<worker, cb, ran>>
threadVars == <<finished_, queue_task_, mutex_held, client, visits, pushed, workerVars>>

ThreadInit(finished) ==
  /\ finished_ = [w \in Worker |-> finished]
  /\ queue_task_ = [w \in Worker |-> <<>>]
  /\ mutex_held = [w \in Worker |-> FALSE]
  /\ worker = [w \in Worker |-> "loop"]
  /\ cb = [w \in Worker |-> nullptr]
  /\ client = [c \in Client |-> "ready"]
  /\ visits = [c \in Client |-> 1]
  /\ pushed = [w \in Worker |-> <<>>] /\ ran = [w \in Worker |-> <<>>]

goes(c, place) == client' = [client EXCEPT ![c] = place]

\* The call of a client is at an end.
returns(c) == goes(c, "ready") /\ visits' = [visits EXCEPT ![c] = 1]

\* One Thread has returned: the same is done with the next.
leaves(c, place) ==
  \/ visits[c] < NumWorkers /\ goes(c, place) /\ visits' = [visits EXCEPT ![c] = @ + 1]
  \/ visits[c] = NumWorkers /\ returns(c)

\* Mutant of notify_one: nobody is woken.
notify_nobody(w) == UNCHANGED worker

notify_one(w) == worker' = [worker EXCEPT ![w] = IF @ = "asleep" THEN "lock" ELSE @]

used == UNION {Range(pushed[w]) : w \in Worker}
next_task == Cardinality(used) + 1

\* load(): the mutex is taken for it.
load(w) == Len(queue_task_[w])

----------------------------------------------------------------------------
(* append.                                                                 *)

append(c) ==
  /\ client[c] = "append"
  /\ \/ finished_[visits[c]] /\ returns(c)
     \/ ~finished_[visits[c]] /\ goes(c, "push") /\ UNCHANGED visits
  /\ UNCHANGED <<finished_, queue_task_, mutex_held, pushed, workerVars>>

\* Mutant of push_back: a list that has just been filled is not signalled.
push_back_silent(c) ==
  LET w == visits[c]
      task == next_task
  IN  /\ client[c] = "push" /\ ~mutex_held[w]
      /\ queue_task_' = [queue_task_ EXCEPT ![w] = Append(@, task)]
      /\ pushed' = [pushed EXCEPT ![w] = Append(@, task)]
      /\ \/ Len(queue_task_[w]) = 1 /\ goes(c, "signal") /\ UNCHANGED visits
         \/ Len(queue_task_[w]) # 1 /\ returns(c)
      /\ UNCHANGED <<finished_, mutex_held, workerVars>>

push_back(c) ==
  LET w == visits[c]
      task == next_task
  IN  /\ client[c] = "push" /\ ~mutex_held[w] /\ task \in Callback
      /\ queue_task_' = [queue_task_ EXCEPT ![w] = Append(@, task)]
      /\ pushed' = [pushed EXCEPT ![w] = Append(@, task)]
      /\ \/ queue_task_[w] = <<>> /\ goes(c, "signal") /\ UNCHANGED visits
         \/ queue_task_[w] # <<>> /\ returns(c)
      /\ UNCHANGED <<finished_, mutex_held, workerVars>>

append_signals(c) ==
  /\ client[c] = "signal"
  /\ notify_one(visits[c])
  /\ returns(c)
  /\ UNCHANGED <<finished_, queue_task_, mutex_held, cb, pushed, ran>>

----------------------------------------------------------------------------
(* termminiate, alone or as the first part of join; wait_for_idle.  The    *)
(* second is for a client that joins.                                      *)

termminiate(c) ==
  /\ client[c] = "termminiate"
  /\ \/ finished_[visits[c]] /\ leaves(c, "termminiate")
     \/ ~finished_[visits[c]] /\ goes(c, "finish") /\ UNCHANGED visits
  /\ UNCHANGED <<finished_, queue_task_, mutex_held, pushed, workerVars>>

join(c) ==
  /\ client[c] = "join"
  /\ goes(c, IF finished_[visits[c]] THEN "joining" ELSE "finish to join")
  /\ UNCHANGED <<finished_, queue_task_, mutex_held, visits, pushed, workerVars>>

finishes(c) ==
  /\ client[c] \in {"finish", "finish to join"}
  /\ finished_' = [finished_ EXCEPT ![visits[c]] = TRUE]
  /\ goes(c, IF client[c] = "finish" THEN "signal finished" ELSE "signal to join")
  /\ UNCHANGED <<queue_task_, mutex_held, visits, pushed, workerVars>>

finish_signals(c) ==
  /\ notify_one(visits[c])
  /\ \/ client[c] = "signal finished" /\ leaves(c, "termminiate")
     \/ client[c] = "signal to join" /\ goes(c, "joining") /\ UNCHANGED visits
  /\ UNCHANGED <<finished_, queue_task_, mutex_held, cb, pushed, ran>>

joins(c) ==
  /\ client[c] = "joining" /\ worker[visits[c]] = "done"
  /\ leaves(c, "join")
  /\ UNCHANGED <<finished_, queue_task_, mutex_held, pushed, workerVars>>

\* wait_for_idle has seen the list empty.
idle(c) ==
  /\ client[c] = "wait for idle" /\ ~mutex_held[visits[c]] /\ load(visits[c]) = 0
  /\ leaves(c, "wait for idle")
  /\ UNCHANGED <<finished_, queue_task_, mutex_held, pushed, workerVars>>

----------------------------------------------------------------------------
(* run_loop.                                                               *)

looks(w, from, to) == worker[w] = from /\ worker' = [worker EXCEPT ![w] = to]

loop(w) ==
  /\ looks(w, "loop", IF finished_[w] THEN "done" ELSE "lock")
  /\ UNCHANGED <<finished_, queue_task_, mutex_held, cb, client, visits, pushed, ran>>

\* The list and finished_ are tested, and the mutex kept for the wait.
lock(w) ==
  LET waits == queue_task_[w] = <<>> /\ ~finished_[w]
  IN  /\ looks(w, "lock", IF waits THEN "wait" ELSE "locked")
      /\ mutex_held' = [mutex_held EXCEPT ![w] = waits]
      /\ UNCHANGED <<finished_, queue_task_, cb, client, visits, pushed, ran>>

\* condition_incoming_task_.wait(lock) gives the mutex up.
wait(w) ==
  /\ looks(w, "wait", "asleep")
  /\ mutex_held' = [mutex_held EXCEPT ![w] = FALSE]
  /\ UNCHANGED <<finished_, queue_task_, cb, client, visits, pushed, ran>>

\* A condition variable may wake on its own.
wakes(w) ==
  /\ looks(w, "asleep", "lock")
  /\ UNCHANGED <<finished_, queue_task_, mutex_held, cb, client, visits, pushed, ran>>

tests_finished(w) ==
  /\ looks(w, "locked", IF finished_[w] THEN "done" ELSE "front")
  /\ UNCHANGED <<finished_, queue_task_, mutex_held, cb, client, visits, pushed, ran>>

\* The function is moved out of the list; its place stays until it has run.
\* (An empty std::function sends the worker round the loop without a pop.)
front(w) ==
  LET task == IF queue_task_[w] = <<>> THEN nullptr ELSE Head(queue_task_[w])
  IN  /\ cb' = [cb EXCEPT ![w] = task]
      /\ looks(w, "front", IF task \in Empty \cup {nullptr} THEN "loop" ELSE "call")
      /\ UNCHANGED <<finished_, queue_task_, mutex_held, client, visits, pushed, ran>>

\* Mutant of call: the place in the list is given up before the call.
call_after_pop(w) ==
  /\ worker[w] = "call"
  /\ IF queue_task_[w] # <<>> /\ Head(queue_task_[w]) = cb[w]
     THEN queue_task_' = [queue_task_ EXCEPT ![w] = Tail(@)] /\ UNCHANGED <<worker, ran>>
     ELSE /\ ran' = [ran EXCEPT ![w] = Append(@, cb[w])]
          /\ worker' = [worker EXCEPT ![w] = "loop"]
          /\ UNCHANGED queue_task_
  /\ UNCHANGED <<finished_, mutex_held, cb, client, visits, pushed>>

call(w) ==
  /\ looks(w, "call", "pop")
  /\ ran' = [ran EXCEPT ![w] = Append(@, cb[w])]
  /\ UNCHANGED <<finished_, queue_task_, mutex_held, cb, client, visits, pushed>>

pop_front(w) ==
  /\ looks(w, "pop", "loop")
  /\ queue_task_' = [queue_task_ EXCEPT ![w] = Tail(@)]
  /\ UNCHANGED <<finished_, mutex_held, cb, client, visits, pushed, ran>>

run_loop(w) ==
  loop(w) \/ lock(w) \/ wait(w) \/ tests_finished(w) \/ front(w) \/ call(w) \/ pop_front(w)

----------------------------------------------------------------------------
ThreadTypeOK ==
  /\ finished_ \in [Worker -> BOOLEAN]
  /\ queue_task_ \in [Worker -> Seq(Callback)]
  /\ mutex_held \in [Worker -> BOOLEAN]
  /\ worker \in [Worker -> {"loop", "lock", "wait", "asleep", "locked", "front",
                            "call", "pop", "done"}]
  /\ cb \in [Worker -> Callback \cup {nullptr}]
  /\ client \in [Client -> {"ready", "pick", "append", "push", "signal", "termminiate",
                            "finish", "signal finished", "join", "finish to join",
                            "signal to join", "joining", "wait for idle"}]
  /\ visits \in [Client -> Worker]
  /\ pushed \in [Worker -> Seq(Callback)]
  /\ ran \in [Worker -> Seq(Callback)]

\* No wake-up is lost for a task: a worker that sleeps while a task waits is
\* about to be signalled, although append() signals only for the first task
\* and after it has unlocked (thread_pool.cpp:56-66, 95-104).
NoLostTask ==
  \A w \in Worker :
    worker[w] \in {"wait", "asleep"} /\ queue_task_[w] # <<>> =>
      worker[w] = "asleep" /\ \E c \in Client : client[c] = "signal" /\ visits[c] = w

\* Tasks run once each, in the order of the list, and an empty list means
\* that all have run, which is what wait_for_idle() relies on: a task keeps
\* its place until it has returned (thread_pool.cpp:42-48, 111-132).
TasksInOrder ==
  \A w \in Worker :
    pushed[w] =
      ran[w] \o (IF worker[w] = "pop" THEN Tail(queue_task_[w]) ELSE queue_task_[w])

\* Nobody can count on a worker that is terminated or that has met an empty
\* function, on which it turns for ever.
Stopped(w) == finished_[w] \/ Range(pushed[w]) \cap Empty # {}
=============================================================================
