----------------------------- MODULE IoService -----------------------------
(***************************************************************************)
(* The io_services (io_service_thread.h): one queue of posted functions    *)
(* per thread, emptied in order by the one thread that runs it.            *)
(***************************************************************************)
EXTENDS EddyTypes, Sequences

VARIABLE tasks   \* thread -> sequence of posted functions with their arguments

\* The n-th message that a session's peer sends, or that its handler sends.
Message == Session \X Nat

\* std::bind(function, arguments).  session.* and handler.* tell apart the
\* functions of session_stuff and session_handler_stuff.
Task ==
  [op : {"init"}, s : Session, id : Id]
    \cup [op : {"close", "close_timeout", "session.PackMessageList",
                "session.SendMessageListDirectly", "handler.PackMessageList",
                "handler.SendMessageListDirectly"}, s : Session]
    \cup [op : {"CloseSession", "on_session_closed"}, id : Id]
    \cup [op : {"SendMessageListToSession", "SendMessageListToHandler"},
          id : Id, msgs : Seq(Message)]

post(queues, t, task) == [queues EXCEPT ![t] = Append(@, task)]

\* Thread t has `task' at the head of its queue and runs it.
runs(t, task) == tasks[t] # <<>> /\ Head(tasks[t]) = task

popped(t) == [tasks EXCEPT ![t] = Tail(@)]

IoTypeOK == tasks \in [Threads -> Seq(Task)]
=============================================================================
