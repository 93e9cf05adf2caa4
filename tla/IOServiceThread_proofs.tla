------------------------ MODULE IOServiceThread_proofs ------------------------
(***************************************************************************)
(* IOServiceThread for any number of threads, functions and calls of       *)
(* stop(): types, and that the keep-alive check goes on.                   *)
(*                                                                         *)
(* The strengthening says more than the property: from the first           *)
(* async_wait on the timer of a thread is set or due, whether or not       *)
(* io_work_ is still there.                                                *)
(***************************************************************************)
EXTENDS IOServiceThread, TLAPS

\* A thread that has come to io_service::run has its timer set.
TimerIsSet ==
  \A t \in Threads : place[t] \in {"runs", "stops"} => timer_[t] # "idle"

IInv == IOThreadTypeOK /\ TimerIsSet

\* A step of thread t or on its behalf.
ThreadStep(t) ==
  run(t) \/ check_keep_alive(t) \/ timer_expires(t) \/ post(t)

LEMMA MainIsThread == MainThread \in Threads /\ NumThreads \in Nat /\ NumThreads >= 1
BY IOThreadAssumption DEF MainThread, Threads

LEMMA InitIInv ==
  ASSUME Init
  PROVE  IInv
<1>1. IOThreadTypeOK
  <2>1. 0 \in 0 .. MaxPosts /\ 0 \in 0 .. MaxStops /\ MainThread \in 1 .. NumThreads + 1
    BY MainIsThread, IOThreadAssumption DEF MainThread
  <2>2. posted \in [Threads -> 0 .. MaxPosts] /\ ran \in [Threads -> 0 .. MaxPosts]
        /\ \A t \in Threads : ran[t] <= posted[t]
    <3>1. \A t \in Threads : posted[t] = 0 /\ ran[t] = 0
      BY DEF Init
    <3>2. \A t \in Threads : ran[t] <= posted[t]
      BY <3>1
    <3> QED BY <2>1, <3>2 DEF Init
  <2>3. starting \in [at : {"not called"}, i : 1 .. NumThreads + 1]
    BY <2>1 DEF Init
  <2>4. stopping \in [by : {"nobody"}, i : Threads, at : {"tests"}, calls : 0 .. MaxStops]
    BY <2>1, MainIsThread DEF Init, nowhere
  <2> QED BY <2>2, <2>3, <2>4 DEF Init, IOThreadTypeOK
<1>2. TimerIsSet
  BY DEF Init, TimerIsSet
<1> QED BY <1>1, <1>2 DEF IInv

\* Steps of the threads keep the types.
LEMMA ThreadStepTypes ==
  ASSUME IOThreadTypeOK, NEW t \in Threads, ThreadStep(t)
  PROVE  IOThreadTypeOK'
<1>1. CASE tests_work(t) \/ creates_work(t) \/ async_wait(t) \/ run_returns(t) \/ timer_expires(t)
  BY <1>1 DEF IOThreadTypeOK, tests_work, creates_work, async_wait, run_returns,
              timer_expires, moves
<1>2. posted[t] \in 0 .. MaxPosts /\ ran[t] \in 0 .. MaxPosts /\ ran[t] <= posted[t]
      /\ MaxPosts \in Nat
  BY IOThreadAssumption DEF IOThreadTypeOK
<1>3. CASE run_one(t)
  <2>1. ran[t] + 1 \in 0 .. MaxPosts /\ ran[t] + 1 <= posted[t]
    BY <1>2, <1>3 DEF run_one
  <2> QED BY <1>3, <2>1 DEF IOThreadTypeOK, run_one, work_finished, out_of_work
<1>4. CASE check_keep_alive(t)
  <2>1. PICK expired \in 0 .. MaxPosts - posted[t] :
          posted' = [posted EXCEPT ![t] = @ + expired]
    BY <1>4 DEF check_keep_alive
  <2>2. posted[t] + expired \in 0 .. MaxPosts /\ ran[t] <= posted[t] + expired
    BY <1>2, <2>1
  <2> QED BY <1>4, <2>1, <2>2
          DEF IOThreadTypeOK, check_keep_alive, work_finished, out_of_work
<1>5. CASE post(t)
  <2>1. posted[t] + 1 \in 0 .. MaxPosts /\ ran[t] <= posted[t] + 1
    BY <1>2, <1>5 DEF post
  <2> QED BY <1>5, <2>1 DEF IOThreadTypeOK, post
<1> QED BY <1>1, <1>3, <1>4, <1>5 DEF ThreadStep, run

\* So do those of IOServiceThreadManager::run.
LEMMA StartTypes ==
  ASSUME IOThreadTypeOK, manager_run \/ Starts
  PROVE  IOThreadTypeOK'
<1>1. ASSUME NEW t \in Threads, goes_on(t)
      PROVE  starting' \in [at : {"run_thread", "main"}, i : 1 .. NumThreads + 1]
  <2>1. t + 1 \in 1 .. NumThreads + 1
    BY MainIsThread DEF Threads
  <2> QED BY <1>1, <2>1 DEF goes_on
<1>2. CASE manager_run
  BY <1>1, <1>2, MainIsThread DEF manager_run, IOThreadTypeOK
<1>3. ASSUME NEW t \in Threads, run_thread(t) PROVE IOThreadTypeOK'
  <2>1. starting.at = "run_thread" /\ starting.i = t
    BY <1>3 DEF run_thread
  <2>2. starting'.at = "assigns" /\ starting'.i = t
    BY <1>3 DEF run_thread
  <2> QED BY <1>3, <2>1, <2>2 DEF run_thread, moves, IOThreadTypeOK
<1>4. ASSUME NEW t \in Threads, assigns_thread(t) PROVE IOThreadTypeOK'
  BY <1>1, <1>4 DEF assigns_thread, IOThreadTypeOK
<1>5. CASE run_main
  <2>1. starting' = [starting EXCEPT !.at = "running"] /\ starting.at = "main"
    BY <1>5 DEF run_main
  <2> QED BY <1>5, <2>1, MainIsThread DEF run_main, moves, IOThreadTypeOK
<1> QED BY <1>2, <1>3, <1>4, <1>5 DEF Starts

\* Where stop() goes next is a place in stop().
LEMMA NextStopType ==
  ASSUME IOThreadTypeOK, NEW at \in {"tests", "joins"}, NEW i \in Threads
  PROVE  next_stop(at, i) \in [by : {"nobody", "main", "other"}, i : Threads,
                              at : {"tests", "resets", "joins", "thrown"},
                              calls : 0 .. MaxStops]
<1>1. i < NumThreads => i + 1 \in Threads
  BY MainIsThread DEF Threads
<1>2. i # MainThread => MainThread + 1 \in Threads
  BY MainIsThread DEF Threads, MainThread
<1>3. stopping \in [by : {"nobody", "main", "other"}, i : Threads,
                   at : {"tests", "resets", "joins", "thrown"}, calls : 0 .. MaxStops]
  BY DEF IOThreadTypeOK
<1> QED BY <1>1, <1>2, <1>3, MainIsThread DEF next_stop, nowhere

\* So do those of IOServiceThreadManager::stop.
LEMMA StopTypes ==
  ASSUME IOThreadTypeOK,
         manager_stop("main") \/ manager_stop("other") \/ Stops
  PROVE  IOThreadTypeOK'
<1>1. ASSUME NEW by \in {"main", "other"}, manager_stop(by) PROVE IOThreadTypeOK'
  <2>1. stopping.calls + 1 \in 0 .. MaxStops
    <3>1. stopping.calls \in 0 .. MaxStops /\ stopping.calls < MaxStops
      BY <1>1 DEF manager_stop, IOThreadTypeOK
    <3> QED BY <3>1, IOThreadAssumption
  <2>2. NumThreads # 1 => MainThread + 1 \in Threads
    BY MainIsThread DEF Threads, MainThread
  <2> QED BY <1>1, <2>1, <2>2, MainIsThread DEF manager_stop, IOThreadTypeOK
<1>2. ASSUME NEW t \in Threads, stop_tests(t) PROVE IOThreadTypeOK'
  <2>1. CASE io_work_[t]
    <3>1. stopping' = [stopping EXCEPT !.at = "resets"] /\ place' = place
      BY <1>2, <2>1 DEF stop_tests
    <3>2. stopping' \in [by : {"nobody", "main", "other"}, i : Threads,
                        at : {"tests", "resets", "joins", "thrown"}, calls : 0 .. MaxStops]
      BY <3>1 DEF IOThreadTypeOK
    <3> QED BY <1>2, <3>1, <3>2 DEF stop_tests, IOThreadTypeOK
  <2>2. CASE ~io_work_[t]
    <3>1. stop_goes_on("tests") /\ stopping.i \in Threads
      BY <1>2, <2>2 DEF stop_tests, IOThreadTypeOK
    <3>2. stopping' \in [by : {"nobody", "main", "other"}, i : Threads,
                        at : {"tests", "resets", "joins", "thrown"}, calls : 0 .. MaxStops]
      BY <3>1, NextStopType DEF stop_goes_on
    <3> QED BY <1>2, <3>1, <3>2 DEF stop_tests, stop_goes_on, IOThreadTypeOK
  <2> QED BY <2>1, <2>2
<1>3. ASSUME NEW t \in Threads, stop_resets(t) PROVE IOThreadTypeOK'
  BY <1>3, NextStopType
  DEF stop_resets, stop_goes_on, work_finished, out_of_work, IOThreadTypeOK
<1>4. ASSUME NEW t \in Threads, join(t) PROVE IOThreadTypeOK'
  BY <1>4, NextStopType DEF join, stop_goes_on, IOThreadTypeOK
<1>5. ASSUME NEW t \in Threads, join_throws(t) PROVE IOThreadTypeOK'
  BY <1>5 DEF join_throws, IOThreadTypeOK
<1> QED BY <1>1, <1>2, <1>3, <1>4, <1>5 DEF Stops

\* Every step is a thread's, or one of run() or stop().
LEMMA StepCases ==
  ASSUME Next
  PROVE  \/ \E t \in Threads : ThreadStep(t)
         \/ manager_run \/ Starts
         \/ manager_stop("main") \/ manager_stop("other") \/ Stops
BY DEF Next, ThreadStep

\* The timer of a thread that runs stays set.
LEMMA TimerStaysSet ==
  ASSUME IInv, Next, NEW t \in Threads, place'[t] \in {"runs", "stops"}
  PROVE  timer_'[t] # "idle"
<1> USE DEF IInv, IOThreadTypeOK, TimerIsSet
<1>1. CASE place[t] \in {"runs", "stops"}
  BY ZenonT(30), <1>1 DEF Next, run, tests_work, creates_work, async_wait, run_one, run_returns,
    check_keep_alive, timer_expires, post, manager_run, Starts, run_thread,
    assigns_thread, run_main, manager_stop, Stops, stop_tests, stop_resets, join,
    join_throws, moves
<1>2. CASE place[t] \notin {"runs", "stops"}
  <2>1. \/ place'[t] = place[t] \/ async_wait(t)
        \/ place'[t] \in {"tests", "creates", "timer", "done"}
    <3>1. CASE \E u \in Threads : ThreadStep(u)
      BY ZenonT(30), <3>1, <1>2
      DEF ThreadStep, run, tests_work, creates_work, async_wait, run_one, run_returns,
        check_keep_alive, timer_expires, post, moves
    <3>2. CASE manager_run \/ Starts
      BY ZenonT(30), <3>2, MainIsThread
      DEF manager_run, Starts, run_thread, assigns_thread, run_main, moves
    <3>3. CASE manager_stop("main") \/ manager_stop("other") \/ Stops
      <4>1. CASE manager_stop("main")
        BY <4>1, <1>2, MainIsThread DEF manager_stop
      <4>2. CASE manager_stop("other")
        BY <4>2, MainIsThread DEF manager_stop
      <4>3. ASSUME NEW at \in {"tests", "joins"}, stop_goes_on(at) PROVE place'[t] = place[t]
        BY <4>3, <1>2, MainIsThread DEF stop_goes_on
      <4>4. ASSUME NEW u \in Threads, stop_tests(u) \/ stop_resets(u) \/ join(u)
            PROVE  place'[t] = place[t]
        BY <4>3, <4>4 DEF stop_tests, stop_resets, join
      <4>5. ASSUME NEW u \in Threads, join_throws(u)
            PROVE  place'[t] = place[t] \/ place'[t] = "done"
        BY <4>5, MainIsThread DEF join_throws
      <4> QED BY <3>3, <4>1, <4>2, <4>4, <4>5 DEF Stops
    <3> QED BY <3>1, <3>2, <3>3, StepCases
  <2>2. async_wait(t)
    BY <1>2, <2>1
  <2> QED BY <2>2 DEF async_wait
<1> QED BY <1>1, <1>2

LEMMA NextIInv ==
  ASSUME IInv, [Next]_vars
  PROVE  IInv'
<1>1. CASE Next
  <2>1. IOThreadTypeOK'
    BY <1>1, StepCases, ThreadStepTypes, StartTypes, StopTypes DEF IInv
  <2>2. TimerIsSet'
    BY <1>1, TimerStaysSet DEF TimerIsSet
  <2> QED BY <2>1, <2>2 DEF IInv
<1>2. CASE UNCHANGED vars
  BY <1>2 DEF vars, IInv, IOThreadTypeOK, TimerIsSet
<1> QED BY <1>1, <1>2

\* Types hold in every state, however run() and stop() interleave: stop()
\* visits threads that exist, and no more functions return than were posted.
THEOREM IOThreadTypeCorrect == Spec => []IOThreadTypeOK
<1>1. IInv => IOThreadTypeOK
  BY DEF IInv
<1> QED BY <1>1, InitIInv, NextIInv, PTL DEF Spec

\* Expired sessions are found for as long as their thread is not asked to
\* stop, for any number of threads and of calls of stop().
THEOREM KeepAliveGoesOn == Spec => []KeepAliveIsChecked
<1>1. IInv => KeepAliveIsChecked
  BY DEF IInv, TimerIsSet, KeepAliveIsChecked
<1> QED BY <1>1, InitIInv, NextIInv, PTL DEF Spec
=============================================================================
