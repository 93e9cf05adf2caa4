--------------------------- MODULE IOServiceThread ---------------------------
(***************************************************************************)
(* The life of the I/O threads: IOServiceThread (run_thread, run, stop,    *)
(* join, check_keep_alive) under IOServiceThreadManager::run() and stop(). *)
(*                                                                         *)
(* What a posted function does is EddyServer's matter; here functions are  *)
(* counted.  An io_service counts its work: functions that wait or run,    *)
(* timers and io_service::work objects.  When the count comes down to zero *)
(* it stops, also if nobody runs it yet, and run() then returns.           *)
(***************************************************************************)
EXTENDS Naturals

CONSTANTS
  NumThreads,  \* thread_num of IOServiceThreadManager's constructor
  MaxPosts,    \* bound: functions posted to one thread
  MaxStops     \* bound: calls of stop(), the destructor's among them

ASSUME IOThreadAssumption ==
  NumThreads \in Nat \ {0} /\ MaxPosts \in Nat /\ MaxStops \in Nat

Threads == 1 .. NumThreads
MainThread == 1

VARIABLES
  thread_,    \* "none", "joinable" or "joined"
  io_work_,   \* io_work_ # nullptr
  timer_,     \* "idle", "waiting" or, its handler being due, "expired"
  stopped,    \* of the io_service
  posted,     \* functions posted
  ran,        \* functions that have returned
  place,      \* where IOServiceThread::run is
  starting,   \* where IOServiceThreadManager::run is
  stopping    \* where IOServiceThreadManager::stop is

vars == <<thread_, io_work_, timer_, stopped, posted, ran, place, starting, stopping>>

nowhere == [by |-> "nobody", at |-> "tests", i |-> MainThread, calls |-> 0]

Init ==
  /\ thread_ = [t \in Threads |-> "none"]
  /\ io_work_ = [t \in Threads |-> FALSE]
  /\ timer_ = [t \in Threads |-> "idle"]
  /\ stopped = [t \in Threads |-> FALSE]
  /\ posted = [t \in Threads |-> 0] /\ ran = [t \in Threads |-> 0]
  /\ place = [t \in Threads |-> "none"]
  /\ starting = [at |-> "not called", i |-> MainThread]
  /\ stopping = nowhere

moves(t, from, to) == place[t] = from /\ place' = [place EXCEPT ![t] = to]

\* The work of t's io_service after a step: none is left.
out_of_work(t) == ~io_work_'[t] /\ timer_'[t] = "idle" /\ posted'[t] = ran'[t]

\* work_finished(): the last of it stops the io_service.
work_finished(t) == stopped' = [stopped EXCEPT ![t] = @ \/ out_of_work(t)]

----------------------------------------------------------------------------
(* IOServiceThreadManager::run: run_thread for all but the main thread,    *)
(* then the main thread's own run.  The new thread may be under way before *)
(* thread_ is assigned.                                                    *)

goes_on(t) ==
  starting' = [at |-> IF t < NumThreads THEN "run_thread" ELSE "main", i |-> t + 1]

manager_run ==
  /\ starting.at = "not called"
  /\ goes_on(MainThread)
  /\ UNCHANGED <<thread_, io_work_, timer_, stopped, posted, ran, place, stopping>>

run_thread(t) ==
  /\ starting = [at |-> "run_thread", i |-> t] /\ thread_[t] = "none"
  /\ moves(t, "none", "tests")
  /\ starting' = [starting EXCEPT !.at = "assigns"]
  /\ UNCHANGED <<thread_, io_work_, timer_, stopped, posted, ran, stopping>>

assigns_thread(t) ==
  /\ starting = [at |-> "assigns", i |-> t]
  /\ thread_' = [thread_ EXCEPT ![t] = "joinable"]
  /\ goes_on(t)
  /\ UNCHANGED <<io_work_, timer_, stopped, posted, ran, place, stopping>>

run_main ==
  /\ starting.at = "main"
  /\ moves(MainThread, "none", "tests")
  /\ starting' = [starting EXCEPT !.at = "running"]
  /\ UNCHANGED <<thread_, io_work_, timer_, stopped, posted, ran, stopping>>

----------------------------------------------------------------------------
(* IOServiceThread::run.                                                   *)

tests_work(t) ==
  /\ moves(t, "tests", IF io_work_[t] THEN "timer" ELSE "creates")
  /\ UNCHANGED <<thread_, io_work_, timer_, stopped, posted, ran, starting, stopping>>

creates_work(t) ==
  /\ moves(t, "creates", "timer")
  /\ io_work_' = [io_work_ EXCEPT ![t] = TRUE]
  /\ UNCHANGED <<thread_, timer_, stopped, posted, ran, starting, stopping>>

async_wait(t) ==
  /\ moves(t, "timer", "runs")
  /\ timer_' = [timer_ EXCEPT ![t] = "waiting"]
  /\ UNCHANGED <<thread_, io_work_, stopped, posted, ran, starting, stopping>>

\* io_service::run calls a function that was posted.
run_one(t) ==
  /\ place[t] = "runs" /\ ~stopped[t] /\ ran[t] < posted[t]
  /\ ran' = [ran EXCEPT ![t] = @ + 1]
  /\ UNCHANGED <<thread_, io_work_, timer_, posted, place, starting, stopping>>
  /\ work_finished(t)

\* Mutant of check_keep_alive: the timer is not set again.
check_keep_alive_once(t) ==
  /\ place[t] = "runs" /\ ~stopped[t] /\ timer_[t] = "expired"
  /\ timer_' = [timer_ EXCEPT ![t] = "idle"]
  /\ \E expired \in 0 .. MaxPosts - posted[t] :
       posted' = [posted EXCEPT ![t] = @ + expired]
  /\ UNCHANGED <<thread_, io_work_, ran, place, starting, stopping>>
  /\ work_finished(t)

\* The close of every session that has expired is posted.
check_keep_alive(t) ==
  /\ place[t] = "runs" /\ ~stopped[t] /\ timer_[t] = "expired"
  /\ timer_' = [timer_ EXCEPT ![t] = "waiting"]
  /\ \E expired \in 0 .. MaxPosts - posted[t] :
       posted' = [posted EXCEPT ![t] = @ + expired]
  /\ UNCHANGED <<thread_, io_work_, ran, place, starting, stopping>>
  /\ work_finished(t)

run_returns(t) ==
  /\ stopped[t] /\ moves(t, "runs", "done")
  /\ UNCHANGED <<thread_, io_work_, timer_, stopped, posted, ran, starting, stopping>>

\* A second has passed.
timer_expires(t) ==
  /\ timer_[t] = "waiting"
  /\ timer_' = [timer_ EXCEPT ![t] = "expired"]
  /\ UNCHANGED <<thread_, io_work_, stopped, posted, ran, place, starting, stopping>>

----------------------------------------------------------------------------
(* IOServiceThreadManager::stop: stop() for all but the main thread, join()*)
(* for the same, and then stop() for the main thread.                      *)

\* Mutant of next_stop: the loops go one thread too far.
next_stop_past_the_end(at, i) ==
  IF i = MainThread THEN [nowhere EXCEPT !.calls = stopping.calls]
  ELSE IF i <= NumThreads THEN [stopping EXCEPT !.at = at, !.i = i + 1]
  ELSE IF at = "tests" THEN [stopping EXCEPT !.at = "joins", !.i = MainThread + 1]
  ELSE [stopping EXCEPT !.at = "tests", !.i = MainThread]

\* What is done after thread i.
next_stop(at, i) ==
  IF i = MainThread THEN [nowhere EXCEPT !.calls = stopping.calls]
  ELSE IF i < NumThreads THEN [stopping EXCEPT !.at = at, !.i = i + 1]
  ELSE IF at = "tests" THEN [stopping EXCEPT !.at = "joins", !.i = MainThread + 1]
  ELSE [stopping EXCEPT !.at = "tests", !.i = MainThread]

\* By a thread that is none of these, or by a function that runs on the main
\* thread, which returns when stop() does.
manager_stop(by) ==
  /\ stopping.by = "nobody" /\ stopping.calls < MaxStops
  /\ by = "main" => place[MainThread] = "runs" /\ ~stopped[MainThread]
  /\ place' = [place EXCEPT ![MainThread] = IF by = "main" THEN "stops" ELSE @]
  /\ stopping' = [by |-> by, at |-> "tests", calls |-> stopping.calls + 1,
                  i |-> IF NumThreads = 1 THEN MainThread ELSE MainThread + 1]
  /\ UNCHANGED <<thread_, io_work_, timer_, stopped, posted, ran, starting>>

stop_goes_on(at) ==
  /\ stopping' = next_stop(at, stopping.i)
  /\ place' = [place EXCEPT ![MainThread] =
                 IF @ = "stops" /\ stopping.i = MainThread THEN "runs" ELSE @]

stop_tests(t) ==
  /\ stopping.by # "nobody" /\ stopping.at = "tests" /\ stopping.i = t
  /\ \/ io_work_[t] /\ stopping' = [stopping EXCEPT !.at = "resets"] /\ UNCHANGED place
     \/ ~io_work_[t] /\ stop_goes_on("tests")
  /\ UNCHANGED <<thread_, io_work_, timer_, stopped, posted, ran, starting>>

\* Mutant of stop_resets: the io_service is stopped with its functions waiting.
stop_resets_at_once(t) ==
  /\ stopping.at = "resets" /\ stopping.i = t
  /\ io_work_' = [io_work_ EXCEPT ![t] = FALSE]
  /\ stopped' = [stopped EXCEPT ![t] = TRUE]
  /\ stop_goes_on("tests")
  /\ UNCHANGED <<thread_, timer_, posted, ran, starting>>

stop_resets(t) ==
  /\ stopping.at = "resets" /\ stopping.i = t
  /\ io_work_' = [io_work_ EXCEPT ![t] = FALSE]
  /\ stop_goes_on("tests")
  /\ UNCHANGED <<thread_, timer_, posted, ran, starting>>
  /\ work_finished(t)

join(t) ==
  /\ stopping.at = "joins" /\ stopping.i = t
  /\ \/ thread_[t] = "none" /\ UNCHANGED thread_
     \/ /\ thread_[t] = "joinable" /\ place[t] = "done"
        /\ thread_' = [thread_ EXCEPT ![t] = "joined"]
  /\ stop_goes_on("joins")
  /\ UNCHANGED <<io_work_, timer_, stopped, posted, ran, starting>>

\* std::thread::join throws for a thread that has been joined.  Out of a
\* function of the main thread, the exception leaves run() with it.
join_throws(t) ==
  /\ stopping.at = "joins" /\ stopping.i = t /\ thread_[t] = "joined"
  /\ stopping' = [stopping EXCEPT !.at = "thrown"]
  /\ place' = [place EXCEPT ![MainThread] = IF @ = "stops" THEN "done" ELSE @]
  /\ UNCHANGED <<thread_, io_work_, timer_, stopped, posted, ran, starting>>

----------------------------------------------------------------------------
\* Anybody posts, at any time.
post(t) ==
  /\ posted[t] < MaxPosts
  /\ posted' = [posted EXCEPT ![t] = @ + 1]
  /\ UNCHANGED <<thread_, io_work_, timer_, stopped, ran, place, starting, stopping>>

run(t) ==
  tests_work(t) \/ creates_work(t) \/ async_wait(t) \/ run_one(t) \/ run_returns(t)

Starts == run_main \/ \E t \in Threads : run_thread(t) \/ assigns_thread(t)

Stops == \E t \in Threads : stop_tests(t) \/ stop_resets(t) \/ join(t) \/ join_throws(t)

Next ==
  \/ \E t \in Threads : run(t) \/ check_keep_alive(t) \/ timer_expires(t) \/ post(t)
  \/ manager_run \/ Starts
  \/ manager_stop("main") \/ manager_stop("other") \/ Stops

Spec == Init /\ [][Next]_vars

\* Threads go on where they can, seconds pass, and a function that is due is
\* not passed over for the timer, nor the timer for functions.
FairSpec ==
  /\ Spec
  /\ \A t \in Threads :
       WF_vars(run(t)) /\ WF_vars(check_keep_alive(t)) /\ WF_vars(timer_expires(t))
  /\ WF_vars(Starts) /\ WF_vars(Stops)

----------------------------------------------------------------------------
IOThreadTypeOK ==
  /\ thread_ \in [Threads -> {"none", "joinable", "joined"}]
  /\ io_work_ \in [Threads -> BOOLEAN]
  /\ timer_ \in [Threads -> {"idle", "waiting", "expired"}]
  /\ stopped \in [Threads -> BOOLEAN]
  /\ posted \in [Threads -> 0 .. MaxPosts]
  /\ ran \in [Threads -> 0 .. MaxPosts] /\ \A t \in Threads : ran[t] <= posted[t]
  /\ place \in [Threads -> {"none", "tests", "creates", "timer", "runs", "stops", "done"}]
  /\ starting \in [at : {"not called", "run_thread", "assigns", "main", "running"},
                   i : 1 .. NumThreads + 1]
  /\ stopping \in [by : {"nobody", "main", "other"}, i : Threads,
                   at : {"tests", "resets", "joins", "thrown"}, calls : 0 .. MaxStops]

\* As long as stop() has not come to a thread that runs its io_service, its
\* sessions are watched: the timer, which is set for one second at a time, is
\* set or its check is due, however run() and stop() interleave
\* (io_service_thread.cpp:18-34, 46-52, 64-82).
KeepAliveIsChecked ==
  \A t \in Threads : place[t] \in {"runs", "stops"} /\ io_work_[t] => timer_[t] # "idle"

\* What is posted to an io_service that is not stopped runs once its thread
\* does, whatever stop() does in the meantime, except on a main thread that is
\* itself in stop() (io_service_thread.h:38-42, io_service_thread.cpp:18-52).
PostedRuns ==
  \A t \in Threads, n \in 1 .. MaxPosts :
    place[t] # "none" /\ posted[t] >= n /\ ~stopped[t]
      ~> ran[t] >= n \/ (t = MainThread /\ stopping.by = "main")

\* "Stop the threads" (io_service_thread_manager.h:27-29): stop() returns.
StopReturns == stopping.by # "nobody" ~> stopping.by = "nobody"
=============================================================================
