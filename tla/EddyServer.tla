----------------------------- MODULE EddyServer -----------------------------
(***************************************************************************)
(* A running server: TCPServer and TCPClient bring sessions in, the main   *)
(* thread runs the manager, the handlers and the application, the I/O      *)
(* threads run the sessions, and posted tasks carry everything between     *)
(* them.  One step is one function run to its end by one thread: a         *)
(* function touches only what its own thread owns, and posts.              *)
(*                                                                         *)
(* A session object is used for one connection.  An exception that leaves  *)
(* a function of an I/O thread ends the process: `terminated'.  On the     *)
(* main thread the application gets it, and may run the threads again.     *)
(***************************************************************************)
EXTENDS TCPSessionHandler, SequencesExt

CONSTANT KeepAlive   \* keep_alive_time_ # 0

ASSUME KeepAliveAssumption == KeepAlive \in BOOLEAN

VARIABLES
  accepting,    \* the session async_accept waits with, or nullptr
  delivered,    \* history: messages passed to on_message
  terminated

serverVars == <<accepting, delivered, terminated>>

vars == <<tasks, sessionVars, managerVars, handlerVars, serverVars>>

unbuilt == {s \in Session : io_thread_[s] = 0}

\* Mutant of accept_next: the session just accepted is waited with again.
accept_next_repeats(load) == UNCHANGED <<accepting, builtVars>>

\* The session that TCPServer builds to accept the next connection.
accept_next(load) ==
  \/ \E s \in unbuilt :
       /\ accepting' = s
       /\ construct(s, get_min_load_thread(load), KeepAlive)
  \/ unbuilt = {} /\ accepting' = nullptr /\ UNCHANGED builtVars

\* TCPServer's constructor has built the first session.
Init ==
  /\ tasks = [t \in Threads |-> <<>>]
  /\ SessionInit /\ ManagerInit /\ HandlerInit
  /\ delivered = [h \in Session |-> <<>>]
  /\ terminated = FALSE
  /\ \E first \in Session :
       /\ accepting = first
       /\ io_thread_ = [s \in Session |->
                          IF s = first THEN get_min_load_thread(thread_load_) ELSE 0]
       /\ keep_alive_time_ = [s \in Session |-> s = first /\ KeepAlive]

----------------------------------------------------------------------------
(* Connections.                                                            *)

\* on_session_connected as called for session s of thread t.
connected(s, t) ==
  \E id \in Id :
    /\ on_session_connected(s, t, id)
    /\ tasks' = post(tasks, t, [op |-> "init", s |-> s, id |-> id])

sessionButBuiltVars == <<session_id_, closed_, readVars, writeVars, closeVars>>

\* The next session is built after this one is counted.
handle_accept(s) ==
  /\ accepting = s
  /\ connected(s, io_thread_[s])
  /\ accept_next(thread_load_')
  /\ UNCHANGED <<sessionButBuiltVars, handlerVars, delivered, terminated>>

\* Without assertions an accept error ends the accept loop.
handle_accept_fails(s) ==
  /\ accepting = s
  /\ accepting' = nullptr
  /\ UNCHANGED <<tasks, sessionVars, managerVars, handlerVars, delivered, terminated>>

\* TCPClient::connect, called by the application and successful.
connect(s) ==
  /\ s \in unbuilt
  /\ construct(s, get_min_load_thread(thread_load_), FALSE)
  /\ connected(s, get_min_load_thread(thread_load_))
  /\ UNCHANGED <<sessionButBuiltVars, handlerVars, serverVars>>

terminates ==
  /\ terminated' = TRUE
  /\ UNCHANGED <<tasks, sessionVars, managerVars, handlerVars, accepting, delivered>>

\* The application gets the exception, and ends the process or goes on without
\* the id.  That no id is left, its other cause, is what CapacityAssumption
\* excludes.
connected_throws(s) ==
  /\ \E id \in Id : on_session_connected_throws(s, id)
  /\ terminated' \in BOOLEAN
  /\ UNCHANGED <<tasks, sessionButBuiltVars, handlerVars, delivered>>

\* No session is built to accept the next connection.
handle_accept_throws(s) ==
  /\ accepting = s
  /\ accepting' = nullptr
  /\ connected_throws(s)
  /\ UNCHANGED builtVars

connect_throws(s) ==
  /\ s \in unbuilt
  /\ construct(s, get_min_load_thread(thread_load_), FALSE)
  /\ connected_throws(s)
  /\ UNCHANGED accepting

----------------------------------------------------------------------------
(* The application, on the main thread, calls the handlers it knows.       *)

app_send(h) ==
  /\ ~is_closed(h) /\ send(h, tasks)
  /\ UNCHANGED <<sessionVars, managerVars, serverVars>>

app_close(h) ==
  /\ ~is_closed(h) /\ handler_close(h, tasks)
  /\ UNCHANGED <<sessionVars, managerVars, serverVars>>

----------------------------------------------------------------------------
(* Tasks that reach across components.                                     *)

\* on_closed() may still send or close: the id is cleared after it returns.
session_closed(id) ==
  LET h == session_handler_map_[id]
      queues == popped(MainThread)
  IN  /\ runs(MainThread, [op |-> "on_session_closed", id |-> id])
      /\ on_session_closed(id)
      /\ \/ tasks' = queues /\ UNCHANGED handlerVars
         \/ h # nullptr /\ send(h, queues)
         \/ h # nullptr /\ handler_close(h, queues)
      /\ UNCHANGED <<sessionVars, serverVars>>

\* Mutant of session_PackMessageList: the messages are copied, not moved.
session_PackMessageList_copies(s) ==
  /\ runs(io_thread_[s], [op |-> "session.PackMessageList", s |-> s])
  /\ tasks' = post(popped(io_thread_[s]), MainThread,
                   [op |-> "SendMessageListToHandler", id |-> session_id_[s],
                    msgs |-> messages_received_[s]])
  /\ UNCHANGED <<sessionVars, managerVars, handlerVars, serverVars>>

\* session_stuff::PackMessageList: what was read goes to the main thread.
session_PackMessageList(s) ==
  LET t == io_thread_[s]
  IN  /\ runs(t, [op |-> "session.PackMessageList", s |-> s])
      /\ tasks' = IF messages_received_[s] = <<>> THEN popped(t)
                  ELSE post(popped(t), MainThread,
                            [op |-> "SendMessageListToHandler", id |-> session_id_[s],
                             msgs |-> messages_received_[s]])
      /\ messages_received_' = [messages_received_ EXCEPT ![s] = <<>>]
      /\ UNCHANGED <<builtVars, session_id_, closed_, num_read_handlers_, arrived,
                     writeVars, closeVars, managerVars, handlerVars, serverVars>>

SendMessageListToHandler(id, msgs) ==
  LET h == session_handler_map_[id]
  IN  /\ runs(MainThread,
              [op |-> "SendMessageListToHandler", id |-> id, msgs |-> msgs])
      /\ tasks' = popped(MainThread)
      /\ delivered' = IF h = nullptr THEN delivered
                      ELSE [delivered EXCEPT ![h] = @ \o msgs]
      /\ UNCHANGED <<sessionVars, managerVars, handlerVars, accepting, terminated>>

\* Mutant of session_SendMessageListDirectly: the list is not cleared.
session_SendMessageListDirectly_keeps(s) ==
  LET h == session_handler_map_[session_id_[s]]
  IN  /\ runs(MainThread, [op |-> "session.SendMessageListDirectly", s |-> s])
      /\ tasks' = popped(MainThread)
      /\ delivered' = IF h = nullptr THEN delivered
                      ELSE [delivered EXCEPT ![h] = @ \o messages_received_[s]]
      /\ UNCHANGED <<sessionVars, managerVars, handlerVars, accepting, terminated>>

\* Single-threaded: from the session to its handler without a post.
session_SendMessageListDirectly(s) ==
  LET h == session_handler_map_[session_id_[s]]
  IN  /\ runs(MainThread, [op |-> "session.SendMessageListDirectly", s |-> s])
      /\ tasks' = popped(MainThread)
      /\ \/ h = nullptr /\ UNCHANGED <<delivered, messages_received_>>
         \/ /\ h # nullptr
            /\ delivered' = [delivered EXCEPT ![h] = @ \o messages_received_[s]]
            /\ messages_received_' = [messages_received_ EXCEPT ![s] = <<>>]
      /\ UNCHANGED <<builtVars, session_id_, closed_, num_read_handlers_, arrived,
                     writeVars, closeVars, managerVars, handlerVars, accepting, terminated>>

\* The posted TCPSession::close of an expired session.
keep_alive_close(s) ==
  /\ runs(io_thread_[s], [op |-> "close", s |-> s])
  /\ close(s, popped(io_thread_[s]))
  /\ UNCHANGED <<managerVars, handlerVars, serverVars>>

\* IOServiceThread::check_keep_alive, every second: any sessions that have a
\* keep_alive_time_ may have expired, and foreach meets them in any order.
\* The closes of the last round have run, for they were posted before the
\* timer was set again.
check_keep_alive(t) ==
  /\ \A i \in DOMAIN tasks[t] : tasks[t][i].op # "close"
  /\ \E expired \in SUBSET {s \in Session : keep_alive_time_[s] /\ \E id \in Id :
                                              session_queue_[t][id] = s} :
       /\ expired # {}
       /\ \E order \in SetToSeqs(expired) :
            tasks' = [tasks EXCEPT
              ![t] = @ \o [i \in DOMAIN order |-> [op |-> "close", s |-> order[i]]]]
  /\ UNCHANGED <<sessionVars, managerVars, handlerVars, serverVars>>

----------------------------------------------------------------------------
(* Steps.  The main thread of a multi-threaded server owns no session.     *)

MainTask ==
  /\ ~terminated
  /\ tasks[MainThread] # <<>>
  /\ LET task == Head(tasks[MainThread])
     IN  \/ \E h \in Session :
              /\ handler_PackMessageList(h) \/ handler_SendMessageListDirectly(h)
              /\ UNCHANGED <<managerVars, serverVars>>
         \/ \E s \in Session : session_SendMessageListDirectly(s)
         \/ task.op = "on_session_closed" /\ session_closed(task.id)
         \/ /\ task.op = "SendMessageListToHandler"
            /\ SendMessageListToHandler(task.id, task.msgs)

SessionTask(t) ==
  /\ ~terminated
  /\ tasks[t] # <<>>
  /\ LET task == Head(tasks[t])
     IN  \/ \E s \in Session :
              /\ io_thread_[s] = t
              /\ \/ session_PackMessageList(s)
                 \/ keep_alive_close(s)
                 \/ throws(s) /\ terminates
                 \/ /\ \/ task.op = "init" /\ init(s, task.id)
                       \/ close_timeout(s)
                    /\ UNCHANGED <<managerVars, handlerVars, serverVars>>
         \/ /\ \/ /\ task.op = "SendMessageListToSession"
                  /\ SendMessageListToSession(t, task.id, task.msgs)
               \/ task.op = "CloseSession" /\ CloseSession(t, task.id)
            /\ UNCHANGED <<managerVars, serverVars>>

\* Completions of the asynchronous operations of session s.
Written(s) ==
  /\ ~terminated
  /\ hanlde_write(s) \/ hanlde_write_fails(s)
  /\ UNCHANGED <<managerVars, handlerVars, serverVars>>

Read(s) ==
  /\ ~terminated
  /\ handle_read_fails(s) \/ \E n \in 0 .. MaxRecv : handle_read(s, n)
  /\ UNCHANGED <<managerVars, handlerVars, serverVars>>

Drained(s) ==
  /\ ~terminated
  /\ handle_safe_close(s)
  /\ UNCHANGED <<managerVars, handlerVars, serverVars>>

CloseTimer(s) ==
  /\ ~terminated
  /\ close_timer_expires(s)
  /\ UNCHANGED <<managerVars, handlerVars, serverVars>>

\* Peers and the application.
Environment ==
  /\ ~terminated
  /\ \/ \E s \in Session :
          \/ handle_accept(s) \/ handle_accept_fails(s) \/ handle_accept_throws(s)
          \/ connect(s) \/ connect_throws(s)
     \/ \E h \in Session : app_send(h) \/ app_close(h)
     \/ \E t \in Threads : check_keep_alive(t)

Next ==
  \/ MainTask
  \/ \E t \in Threads : SessionTask(t)
  \/ \E s \in Session : Written(s) \/ Read(s) \/ Drained(s) \/ CloseTimer(s)
  \/ Environment

Spec == Init /\ [][Next]_vars

\* Threads keep running what is posted.  A write completes or fails, as TCP
\* sees to unless a peer keeps its window shut for ever.  The close timer
\* expires.  What waits for input completes, aborted, once the socket is
\* closed; before that a silent peer may keep it waiting.
Fairness ==
  /\ WF_vars(MainTask)
  /\ \A t \in Threads : WF_vars(SessionTask(t))
  /\ \A s \in Session :
       /\ WF_vars(Written(s))
       /\ WF_vars(CloseTimer(s))
       /\ WF_vars(socket_[s] = "closed" /\ Drained(s))
       /\ WF_vars(socket_[s] = "closed" /\ Read(s))

FairSpec == Spec /\ Fairness

----------------------------------------------------------------------------
(* Types.                                                                  *)

ServerTypeOK ==
  /\ IoTypeOK /\ SessionTypeOK /\ ManagerTypeOK /\ HandlerTypeOK
  /\ accepting \in Session \cup {nullptr}
  /\ delivered \in [Session -> Seq(Message)]
  /\ terminated \in BOOLEAN

----------------------------------------------------------------------------
(* Ids and connections.                                                    *)

queued(t, task) == \E i \in DOMAIN tasks[t] : tasks[t][i] = task

\* What thread t holds for the connection with this id: init or
\* on_session_closed in its queue, or (0) an entry of its session_queue_.
owners(t, id) ==
  {i \in DOMAIN tasks[t] :
     tasks[t][i].op \in {"init", "on_session_closed"} /\ tasks[t][i].id = id}
    \cup {i \in {0} : session_queue_[t][id] # nullptr}

\* An id in the manager's map belongs to one thread at a time: it waits for
\* init, or is in one session_queue_, or its on_session_closed is on the way;
\* an id outside the map is nowhere.  So no close is reported twice or never,
\* and put() never gets an id it already has, even when ids are reused
\* (tcp_session.cpp:125-136, io_service_thread_manager.cpp:146-177).
OneOwnerPerId ==
  \A id \in Id :
    Cardinality(UNION {{t} \X owners(t, id) : t \in Threads})
      = IF id \in LiveIds THEN 1 ELSE 0

\* The session a thread finds under an id is the one whose handler the main
\* thread finds under that id, even when ids are reused: the two threads, each
\* with a table of its own, never take an id for different connections
\* (tcp_session.cpp:90, 125-136, io_service_thread_manager.cpp:134, 160).
IdsNameOnePair ==
  \A t \in Threads, id \in Id :
    LET s == session_queue_[t][id]
    IN  s # nullptr => /\ session_handler_map_[id] = s
                       /\ handler_thread_id_[s] = t /\ io_thread_[s] = t
                       /\ session_id_[s] = id

\* The manager sees only steps that its own specification allows: nobody
\* connects a handler twice, nobody reports the close of an id that is not
\* in the map.
ImplementsManager == ManagerSpec

\* A session that is closed and waits for no write has left its thread's
\* session_queue_, so neither messages nor the keep-alive check find it
\* (tcp_session.cpp:118-163, 207-212, 265-270).
ClosedSessionLeaves ==
  \A s \in Session :
    session_id_[s] # 0 /\ closed_[s] /\ num_write_handlers_[s] = 0 =>
      session_queue_[io_thread_[s]][session_id_[s]] # s

\* While the application may still use a handler its session's socket is not
\* closed without a report of that on the way (tcp_session.cpp:286-296).
NoSilentClose ==
  \A s \in Session :
    ~is_closed(s) /\ socket_[s] # "open" =>
      queued(MainThread, [op |-> "on_session_closed", id |-> handler_session_id_[s]])

\* "Is it closed" (tcp_session_handler.h:38-44): a handler that was connected
\* and reports that it is closed has a session that is closed.
ClosedMeansClosed ==
  \A s \in Session :
    handler_thread_id_[s] # 0 /\ is_closed(s) => closed_[s]

----------------------------------------------------------------------------
(* Messages.                                                               *)

\* The messages that each task of a queue carries to the holder of this id
\* while h has it: what waits before the init of h was for an earlier one.
carried(queue, op, id, h) ==
  [i \in DOMAIN queue |->
     IF /\ queue[i].op = op /\ queue[i].id = id
        /\ \A j \in i .. Len(queue) : ~(queue[j].op = "init" /\ queue[j].s = h)
     THEN queue[i].msgs ELSE <<>>]

\* Messages to or from handler h that wait in the queue of thread t.
in_transit(t, op, h) == FlattenSeq(carried(tasks[t], op, handler_session_id_[h], h))

messages_of(s, n) == [i \in 1 .. n |-> <<s, i>>]

\* All that was read for a handler that is not closed has been delivered, is
\* on its way or waits in messages_received_, in the order it arrived, as
\* long as no other session has had the handler's id
\* (tcp_session.cpp:16-66, 214-236).
InboundConserved ==
  \A h \in Session :
    ~is_closed(h) /\ (\A s \in Session \ {h} : session_id_[s] # handler_session_id_[h]) =>
      delivered[h] \o in_transit(MainThread, "SendMessageListToHandler", h)
        \o messages_received_[h]
      = messages_of(h, arrived[h])

\* The session of h writes what it is given, or is yet to be initialised.
writable(h) ==
  /\ ~is_closed(h)
  /\ session_id_[h] = 0 \/ (session_of(h) = h /\ ~closed_[h])

\* All that the application sent on a handler whose session is open, or is
\* yet to be initialised, is on the wire, waits in a buffer of the session or
\* of the handler or is on its way between them, in the order it was sent.
\* On the main thread this ends with close(), for which see SentInOrder
\* (tcp_session_handler.cpp:25-70, 114-142; tcp_session.cpp:176-199, 272-282).
OutboundConserved ==
  \A h \in Session :
    LET t == handler_thread_id_[h]
    IN  writable(h) /\ (t = MainThread => close_calls[h] = 0) =>
        wire[h] \o buffer_to_be_sent_[h]
          \o in_transit(t, "SendMessageListToSession", h) \o messages_to_be_sent_[h]
        = messages_of(h, sent[h])

\* What a session writes is what its own handler sent, in order and without
\* gaps, whatever has been closed and reused in the meantime.  A session of
\* the main thread keeps the order only up to close(), which lets a later
\* batch overtake the one it posts (tcp_session_handler.cpp:58-70, 104).
SentInOrder ==
  \A h \in Session :
    (handler_thread_id_[h] = MainThread => close_calls[h] = 0) =>
      wire[h] = messages_of(h, Len(wire[h]))

\* A batch that waits has a task that will take it, so that "first of a
\* batch posts" loses no wake-up.  On the main thread the batch of a
\* connection that is gone may stay; its id may then be another's
\* (tcp_session.cpp:214-235, tcp_session_handler.cpp:126-141).
NoStrandedBatch ==
  /\ \A s \in Session :
       messages_received_[s] # <<>> =>
         IF io_thread_[s] = MainThread
         THEN \/ queued(MainThread, [op |-> "session.SendMessageListDirectly", s |-> s])
              \/ session_handler_map_[session_id_[s]] # s
         ELSE queued(io_thread_[s], [op |-> "session.PackMessageList", s |-> s])
  /\ \A h \in Session :
       messages_to_be_sent_[h] # <<>> =>
         IF handler_thread_id_[h] = MainThread
         THEN \/ queued(MainThread, [op |-> "handler.SendMessageListDirectly", s |-> h])
              \/ session_of(h) = nullptr
         ELSE queued(MainThread, [op |-> "handler.PackMessageList", s |-> h])

\* One write at a time, and a session that is open writes exactly when
\* buffer_sending_ is in use: no message waits for a write that nobody has
\* started (tcp_session.cpp:189-198, 272-282).
OneWriteInFlight ==
  \A s \in Session :
    /\ num_write_handlers_[s] \in {0, 1}
    /\ ~closed_[s] => /\ num_write_handlers_[s] = 0 <=> buffer_sending_[s] = <<>>
                      /\ buffer_sending_[s] = <<>> => buffer_to_be_sent_[s] = <<>>

\* A session that is closed puts nothing more on the wire, and one that is
\* closed stays closed (tcp_session.cpp:178-181, 265-270).
ClosedStaysClosed ==
  [][\A s \in Session : session_id_[s] # 0 /\ closed_[s] =>
        closed_'[s] /\ wire'[s] = wire[s]]_vars

----------------------------------------------------------------------------
(* Progress, under FairSpec.                                               *)

\* close() closes the handler.
CloseCompletes ==
  \A h \in Session : close_calls[h] > 0 ~> is_closed(h) \/ terminated

\* A session that is closed, by either side, frees its socket
\* (tcp_session.cpp:138-150, 286-302).
SocketsAreFreed ==
  \A s \in Session :
    session_id_[s] # 0 /\ closed_[s] ~> socket_[s] = "closed" \/ terminated

\* What is sent reaches the wire, unless the connection closes.
SentIsWritten ==
  \A h \in Session, n \in 1 .. MaxSend :
    sent[h] >= n ~> Len(wire[h]) >= n \/ is_closed(h) \/ terminated

\* What is read reaches the handler, unless the connection closes.
ReadIsDelivered ==
  \A h \in Session, n \in 1 .. MaxRecv :
    arrived[h] >= n ~> Len(delivered[h]) >= n \/ is_closed(h) \/ terminated
=============================================================================
