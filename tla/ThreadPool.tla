----------------------------- MODULE ThreadPool -----------------------------
(***************************************************************************)
(* ThreadPool: several Threads, and the clients that append tasks to the   *)
(* least loaded of them or go through all of them to terminate, to join or *)
(* to wait until they are idle.                                            *)
(***************************************************************************)
EXTENDS Thread

VARIABLES
  mutex_,   \* the client in min_element, or nullptr
  picks,    \* how far min_element is
  joined,   \* join() has been called; std::thread::join throws the second time
  due       \* history: what had been appended when a client called wait_for_idle

poolVars == <<mutex_, picks, joined, due>>
vars == <<threadVars, poolVars>>

\* The second of the threads is compared with the first; load is that of the
\* second as far as it has been read.
comparing(next, best) == [next |-> next, best |-> best, load |-> nullptr]

\* Mutant of Init: finished_ is left out of the constructor.
Init_without_finished ==
  /\ ThreadInit(nullptr)
  /\ mutex_ = nullptr /\ picks = comparing(2, 1) /\ joined = FALSE
  /\ due = [c \in Client |-> {}]

Init ==
  /\ ThreadInit(FALSE)
  /\ mutex_ = nullptr /\ picks = comparing(2, 1) /\ joined = FALSE
  /\ due = [c \in Client |-> {}]

memberVars == <<finished_, queue_task_, mutex_held, pushed, workerVars>>

----------------------------------------------------------------------------
(* append: min_element over load(), under mutex_, and then Thread::append  *)
(* without it.                                                             *)

appending == {c \in Client : client[c] \in {"pick", "append", "push"}}

pool_append(c) ==
  /\ client[c] = "ready" /\ mutex_ = nullptr
  /\ Cardinality(appending) + Cardinality(used) < MaxTasks
  /\ mutex_' = c /\ picks' = comparing(2, 1)
  /\ goes(c, "pick")
  /\ UNCHANGED <<memberVars, visits, joined, due>>

loads_next(c) ==
  /\ client[c] = "pick" /\ picks.next <= NumWorkers /\ picks.load = nullptr
  /\ ~mutex_held[picks.next]
  /\ picks' = [picks EXCEPT !.load = load(picks.next)]
  /\ UNCHANGED <<threadVars, mutex_, joined, due>>

loads_best(c) ==
  /\ client[c] = "pick" /\ picks.load # nullptr /\ ~mutex_held[picks.best]
  /\ picks' = comparing(picks.next + 1,
                        IF picks.load < load(picks.best) THEN picks.next ELSE picks.best)
  /\ UNCHANGED <<threadVars, mutex_, joined, due>>

picked(c) ==
  /\ client[c] = "pick" /\ picks.next > NumWorkers
  /\ mutex_' = nullptr
  /\ visits' = [visits EXCEPT ![c] = picks.best]
  /\ picks' = comparing(2, 1)
  /\ goes(c, "append")
  /\ UNCHANGED <<memberVars, joined, due>>

----------------------------------------------------------------------------
(* Calls that visit every Thread.                                          *)

goes_round(c, place) == goes(c, place) /\ visits' = [visits EXCEPT ![c] = 1]

\* (Of use as long as some Thread is not terminated.)
pool_termminiate(c) ==
  /\ client[c] = "ready"
  /\ \E w \in Worker : ~finished_[w]
  /\ goes_round(c, "termminiate")
  /\ UNCHANGED <<memberVars, poolVars>>

pool_join(c) ==
  /\ client[c] = "ready" /\ ~joined
  /\ joined' = TRUE
  /\ goes_round(c, "join")
  /\ UNCHANGED <<memberVars, mutex_, picks, due>>

\* Mutant of pool_wait_for_idle: the first Thread is left out.
pool_wait_for_idle_from_second(c) ==
  /\ client[c] = "ready"
  /\ due' = [due EXCEPT ![c] = used]
  /\ goes(c, "wait for idle") /\ visits' = [visits EXCEPT ![c] = NumWorkers]
  /\ UNCHANGED <<memberVars, mutex_, picks, joined>>

pool_wait_for_idle(c) ==
  /\ client[c] = "ready"
  /\ due' = [due EXCEPT ![c] = used]
  /\ goes_round(c, "wait for idle")
  /\ UNCHANGED <<memberVars, mutex_, picks, joined>>

----------------------------------------------------------------------------
Calls(c) ==
  pool_append(c) \/ pool_termminiate(c) \/ pool_join(c) \/ pool_wait_for_idle(c)

Picks(c) == loads_next(c) \/ loads_best(c) \/ picked(c)

\* A client in a Thread.
InThread(c) ==
  \/ append(c) \/ push_back(c) \/ append_signals(c)
  \/ termminiate(c) \/ join(c) \/ finishes(c)
  \/ finish_signals(c) \/ joins(c) \/ idle(c)

Continues(c) ==
  \/ Picks(c)
  \/ /\ InThread(c)
     /\ due' = [due EXCEPT ![c] = IF client'[c] = "ready" THEN {} ELSE @]
     /\ UNCHANGED <<mutex_, picks, joined>>

Next ==
  \/ \E w \in Worker : (run_loop(w) \/ wakes(w)) /\ UNCHANGED poolVars
  \/ \E c \in Client : Calls(c) \/ Continues(c)

Spec == Init /\ [][Next]_vars

\* Threads that can go on do, also when a mutex is only now and then free;
\* nobody has to call anything, and no wait is bound to end on its own.
FairSpec ==
  /\ Spec
  /\ \A w \in Worker : WF_vars(run_loop(w) /\ UNCHANGED poolVars)
  /\ \A c \in Client : SF_vars(Continues(c))

----------------------------------------------------------------------------
PoolTypeOK ==
  /\ ThreadTypeOK
  /\ mutex_ \in Client \cup {nullptr}
  /\ picks \in [next : 2 .. NumWorkers + 1, best : Worker, load : Nat \cup {nullptr}]
  /\ picks.load # nullptr => picks.next <= NumWorkers
  /\ \A c \in Client : client[c] = "pick" <=> mutex_ = c
  /\ joined \in BOOLEAN
  /\ due \in [Client -> SUBSET Callback]

\* Who returns from the pool's wait_for_idle finds that every task has run that
\* was in a list when he called, although the Threads are waited for one after
\* the other and others go on to append (thread_pool.cpp:194-200, 41-48).
IdleMeansDone ==
  [][\A c \in Client :
       client[c] = "wait for idle" /\ client'[c] = "ready" =>
         due[c] \subseteq UNION {Range(ran'[w]) : w \in Worker}]_vars

\* wait_for_idle() returns, so every task that waits is run, unless a worker is
\* lost (thread_pool.cpp:41-48, 50-68, 90-134).
IdleReturns ==
  \A c \in Client :
    client[c] = "wait for idle" ~> client[c] = "ready" \/ \E w \in Worker : Stopped(w)

\* "Join the thread" (thread_pool.h:23-26): join() returns.
JoinReturns ==
  \A c \in Client : client[c] = "join" ~> client[c] = "ready"
=============================================================================
