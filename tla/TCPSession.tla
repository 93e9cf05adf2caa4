----------------------------- MODULE TCPSession -----------------------------
(***************************************************************************)
(* TCPSession: a connection, owned by one I/O thread.  Every function here *)
(* runs on that thread, as a posted task or as the completion handler of   *)
(* an asynchronous read, write or timer of the session's socket.           *)
(*                                                                         *)
(* Bytes are abstracted to messages.  The message filter decides how many  *)
(* messages a read completes and whether it wants to read on; both are     *)
(* choices here, since applications supply filters of their own.           *)
(***************************************************************************)
EXTENDS IoService

CONSTANT MaxRecv   \* bound: messages a peer sends on one connection

VARIABLES
  io_thread_,            \* 0 until the session object is constructed
  keep_alive_time_,      \* keep_alive_time_ is not zero
  session_id_, closed_,
  num_read_handlers_, messages_received_,
  num_write_handlers_, buffer_sending_, buffer_to_be_sent_,
  session_queue_,        \* thread -> id -> session or nullptr
  socket_,               \* "open", "shutdown" (sending side) or "closed"
  safe_close_reads,      \* asio: reads that handle_safe_close will complete
  close_timer_,          \* asio: close_timer_ is waiting
  arrived,               \* history: messages read from the socket
  wire                   \* history: messages handed to async_write

readVars  == <<num_read_handlers_, messages_received_, arrived>>
writeVars == <<num_write_handlers_, buffer_sending_, buffer_to_be_sent_, wire>>
closeVars == <<session_queue_, socket_, safe_close_reads, close_timer_>>
builtVars == <<io_thread_, keep_alive_time_>>
sessionVars == <<builtVars, session_id_, closed_, readVars, writeVars, closeVars>>

\* Every member but those the constructor is given.
SessionInit ==
  /\ session_id_ = [s \in Session |-> 0]
  /\ closed_ = [s \in Session |-> TRUE]
  /\ num_read_handlers_ = [s \in Session |-> 0]
  /\ messages_received_ = [s \in Session |-> <<>>]
  /\ num_write_handlers_ = [s \in Session |-> 0]
  /\ buffer_sending_ = [s \in Session |-> <<>>]
  /\ buffer_to_be_sent_ = [s \in Session |-> <<>>]
  /\ session_queue_ = [t \in Threads |-> [id \in Id |-> nullptr]]
  /\ socket_ = [s \in Session |-> "open"]
  /\ safe_close_reads = [s \in Session |-> 0]
  /\ close_timer_ = [s \in Session |-> FALSE]
  /\ arrived = [s \in Session |-> 0]
  /\ wire = [s \in Session |-> <<>>]

\* The constructor, called by the main thread.
construct(s, t, keep_alive_time) ==
  /\ io_thread_' = [io_thread_ EXCEPT ![s] = t]
  /\ keep_alive_time_' = [keep_alive_time_ EXCEPT ![s] = keep_alive_time]

\* Task: start reading, unless the filter wants no bytes, or set_option() has
\* thrown and the application caught it.
init(s, id) ==
  LET t == io_thread_[s]
  IN  /\ runs(t, [op |-> "init", s |-> s, id |-> id])
      /\ tasks' = popped(t)
      /\ closed_' = [closed_ EXCEPT ![s] = FALSE]
      /\ session_id_' = [session_id_ EXCEPT ![s] = id]
      /\ session_queue_' =
           [session_queue_ EXCEPT ![t][id] = IF @ = nullptr THEN s ELSE @]
      /\ \E wanna_read \in {0, 1} :
           num_read_handlers_' = [num_read_handlers_ EXCEPT ![s] = @ + wanna_read]
      /\ UNCHANGED <<builtVars, messages_received_, arrived, writeVars,
                     socket_, safe_close_reads, close_timer_>>

\* Mutant of hanlde_close: the session stays in session_queue_.
hanlde_close_stays_queued(s, writes, queues) ==
  \/ /\ writes > 0 \/ session_queue_[io_thread_[s]][session_id_[s]] = nullptr
     /\ tasks' = queues
     /\ UNCHANGED closeVars
  \/ /\ writes = 0 /\ session_queue_[io_thread_[s]][session_id_[s]] # nullptr
     /\ tasks' = post(queues, MainThread,
                      [op |-> "on_session_closed", id |-> session_id_[s]])
     /\ UNCHANGED closeVars

\* Mutant of hanlde_close: the close timer is not started.
hanlde_close_without_timer(s, writes, queues) ==
  LET t == io_thread_[s]
      id == session_id_[s]
  IN  \/ /\ writes > 0 \/ session_queue_[t][id] = nullptr
         /\ tasks' = queues
         /\ UNCHANGED closeVars
      \/ /\ writes = 0 /\ session_queue_[t][id] # nullptr
         /\ tasks' = post(queues, MainThread, [op |-> "on_session_closed", id |-> id])
         /\ session_queue_' = [session_queue_ EXCEPT ![t][id] = nullptr]
         /\ socket_' = [socket_ EXCEPT ![s] = "shutdown"]
         /\ safe_close_reads' = [safe_close_reads EXCEPT ![s] = @ + 1]
         /\ UNCHANGED close_timer_

\* The session leaves the queue, once, when no write is under way: the main
\* thread is told, the sending side shut down, the rest of the input drained
\* for as long as the timer allows.  `writes' is num_write_handlers_ and
\* `queues' the task queues as the caller leaves them.
hanlde_close(s, writes, queues) ==
  LET t == io_thread_[s]
      id == session_id_[s]
  IN  \/ /\ writes > 0 \/ session_queue_[t][id] = nullptr
         /\ tasks' = queues
         /\ UNCHANGED closeVars
      \/ /\ writes = 0 /\ session_queue_[t][id] # nullptr
         /\ tasks' = post(queues, MainThread, [op |-> "on_session_closed", id |-> id])
         /\ session_queue_' = [session_queue_ EXCEPT ![t][id] = nullptr]
         /\ socket_' = [socket_ EXCEPT ![s] = IF @ = "open" THEN "shutdown" ELSE @]
         /\ safe_close_reads' = [safe_close_reads EXCEPT ![s] = @ + 1]
         /\ close_timer_' = [close_timer_ EXCEPT ![s] = TRUE]

\* Mutant of close: only closed_ is set.
close_only_marks(s, queues) ==
  /\ closed_' = [closed_ EXCEPT ![s] = TRUE]
  /\ tasks' = queues
  /\ UNCHANGED <<builtVars, session_id_, readVars, writeVars, closeVars>>

\* TCPSession::close, called from a task that has been popped.
close(s, queues) ==
  /\ \/ closed_[s] /\ tasks' = queues /\ UNCHANGED <<closed_, closeVars>>
     \/ /\ ~closed_[s]
        /\ closed_' = [closed_ EXCEPT ![s] = TRUE]
        /\ hanlde_close(s, num_write_handlers_[s], queues)
  /\ UNCHANGED <<builtVars, session_id_, readVars, writeVars>>

\* async_write of the first n messages of what buffer_sending_ becomes.
async_write(s, n) ==
  /\ num_write_handlers_' = [num_write_handlers_ EXCEPT ![s] = @ + 1]
  /\ wire' = [wire EXCEPT ![s] = @ \o SubSeq(buffer_sending_'[s], 1, n)]

\* Mutant of post_message_list: a write under way is not looked for.
post_message_list_always_writes(s, messages) ==
  IF closed_[s] \/ messages = <<>> THEN UNCHANGED writeVars
  ELSE /\ buffer_sending_' = [buffer_sending_ EXCEPT ![s] = messages]
       /\ async_write(s, Len(messages))
       /\ UNCHANGED buffer_to_be_sent_

\* TCPSession::post_message_list, called from a task.
post_message_list(s, messages) ==
  LET queued == buffer_to_be_sent_[s] \o messages
  IN  \/ /\ closed_[s] \/ messages = <<>>
         /\ UNCHANGED writeVars
      \/ /\ ~closed_[s] /\ messages # <<>> /\ buffer_sending_[s] # <<>>
         /\ buffer_to_be_sent_' = [buffer_to_be_sent_ EXCEPT ![s] = queued]
         /\ UNCHANGED <<num_write_handlers_, buffer_sending_, wire>>
      \/ /\ ~closed_[s] /\ messages # <<>> /\ buffer_sending_[s] = <<>>
         /\ buffer_sending_' = [buffer_sending_ EXCEPT ![s] = queued]
         /\ buffer_to_be_sent_' = [buffer_to_be_sent_ EXCEPT ![s] = buffer_sending_[s]]
         /\ async_write(s, Len(messages))

----------------------------------------------------------------------------
(* Completion handlers.                                                    *)

\* Mutant of handle_read_fails: the socket is closed at once.
handle_read_fails_silently(s) ==
  /\ num_read_handlers_[s] > 0
  /\ num_read_handlers_' = [num_read_handlers_ EXCEPT ![s] = @ - 1]
  /\ closed_' = [closed_ EXCEPT ![s] = TRUE]
  /\ socket_' = [socket_ EXCEPT ![s] = "closed"]
  /\ UNCHANGED <<tasks, builtVars, session_id_, messages_received_, arrived,
                 writeVars, session_queue_, safe_close_reads, close_timer_>>

\* handle_read on a closed session, or with the error of a peer that is gone.
handle_read_fails(s) ==
  /\ num_read_handlers_[s] > 0
  /\ num_read_handlers_' = [num_read_handlers_ EXCEPT ![s] = @ - 1]
  /\ closed_' = [closed_ EXCEPT ![s] = TRUE]
  /\ hanlde_close(s, num_write_handlers_[s], tasks)
  /\ UNCHANGED <<builtVars, session_id_, messages_received_, arrived, writeVars>>

\* Mutant of handle_read: wanna_post is read after the messages are added.
handle_read_posts_late(s, n) ==
  /\ num_read_handlers_[s] > 0 /\ ~closed_[s]
  /\ arrived[s] + n <= MaxRecv
  /\ arrived' = [arrived EXCEPT ![s] = @ + n]
  /\ messages_received_' =
       [messages_received_ EXCEPT ![s] = @ \o [i \in 1 .. n |-> <<s, arrived[s] + i>>]]
  /\ UNCHANGED <<tasks, builtVars, session_id_, closed_, num_read_handlers_,
                 writeVars, closeVars>>

\* handle_read of bytes that complete n messages: the first of a batch posts
\* its delivery.
handle_read(s, n) ==
  LET batch == [i \in 1 .. n |-> <<s, arrived[s] + i>>]
      wanna_post == messages_received_[s] = <<>> /\ n > 0
      function == IF io_thread_[s] = MainThread
                  THEN "session.SendMessageListDirectly"
                  ELSE "session.PackMessageList"
  IN  /\ num_read_handlers_[s] > 0 /\ ~closed_[s]
      /\ arrived[s] + n <= MaxRecv
      /\ arrived' = [arrived EXCEPT ![s] = @ + n]
      /\ messages_received_' = [messages_received_ EXCEPT ![s] = @ \o batch]
      /\ tasks' = IF wanna_post
                  THEN post(tasks, io_thread_[s], [op |-> function, s |-> s])
                  ELSE tasks
      /\ \E wanna_read \in {0, 1} :
           num_read_handlers_' =
             [num_read_handlers_ EXCEPT ![s] = @ - 1 + wanna_read]
      /\ UNCHANGED <<builtVars, session_id_, closed_, writeVars, closeVars>>

\* Mutant of hanlde_write_fails: hanlde_close is not called.
hanlde_write_fails_forgets_close(s) ==
  /\ num_write_handlers_[s] > 0
  /\ num_write_handlers_' = [num_write_handlers_ EXCEPT ![s] = @ - 1]
  /\ closed_' = [closed_ EXCEPT ![s] = TRUE]
  /\ UNCHANGED <<tasks, builtVars, session_id_, readVars, buffer_sending_,
                 buffer_to_be_sent_, wire, closeVars>>

hanlde_write_fails(s) ==
  /\ num_write_handlers_[s] > 0
  /\ num_write_handlers_' = [num_write_handlers_ EXCEPT ![s] = @ - 1]
  /\ closed_' = [closed_ EXCEPT ![s] = TRUE]
  /\ hanlde_close(s, num_write_handlers_[s] - 1, tasks)
  /\ UNCHANGED <<builtVars, session_id_, readVars, buffer_sending_,
                 buffer_to_be_sent_, wire>>

\* Mutant of hanlde_write: closed_ is not looked at.
hanlde_write_when_closed(s) ==
  /\ num_write_handlers_[s] > 0
  /\ buffer_sending_' = [buffer_sending_ EXCEPT ![s] = buffer_to_be_sent_[s]]
  /\ buffer_to_be_sent_' = [buffer_to_be_sent_ EXCEPT ![s] = <<>>]
  /\ num_write_handlers_' =
       [num_write_handlers_ EXCEPT ![s] = IF buffer_to_be_sent_[s] = <<>> THEN @ - 1 ELSE @]
  /\ wire' = [wire EXCEPT ![s] = @ \o buffer_to_be_sent_[s]]
  /\ UNCHANGED <<tasks, builtVars, session_id_, closed_, readVars, closeVars>>

\* Mutant of hanlde_write: the buffers are not swapped before the next write.
hanlde_write_without_swap(s) ==
  /\ num_write_handlers_[s] > 0 /\ ~closed_[s]
  /\ IF buffer_to_be_sent_[s] = <<>>
     THEN /\ buffer_sending_' = [buffer_sending_ EXCEPT ![s] = <<>>]
          /\ num_write_handlers_' = [num_write_handlers_ EXCEPT ![s] = @ - 1]
          /\ UNCHANGED <<buffer_to_be_sent_, wire>>
     ELSE /\ wire' = [wire EXCEPT ![s] = @ \o buffer_sending_[s]]
          /\ buffer_to_be_sent_' = [buffer_to_be_sent_ EXCEPT ![s] = <<>>]
          /\ UNCHANGED <<buffer_sending_, num_write_handlers_>>
  /\ UNCHANGED <<tasks, builtVars, session_id_, closed_, readVars, closeVars>>

hanlde_write(s) ==
  /\ num_write_handlers_[s] > 0 /\ ~closed_[s]
  /\ buffer_sending_' = [buffer_sending_ EXCEPT ![s] = buffer_to_be_sent_[s]]
  /\ buffer_to_be_sent_' = [buffer_to_be_sent_ EXCEPT ![s] = <<>>]
  /\ num_write_handlers_' =
       [num_write_handlers_ EXCEPT ![s] = IF buffer_to_be_sent_[s] = <<>> THEN @ - 1 ELSE @]
  /\ wire' = [wire EXCEPT ![s] = @ \o buffer_to_be_sent_[s]]
  /\ UNCHANGED <<tasks, builtVars, session_id_, closed_, readVars, closeVars>>

\* handle_safe_close with no bytes.  Input that still arrives re-issues the
\* read and changes nothing; `aborted' is the error after socket_.close().
handle_safe_close(s) ==
  /\ safe_close_reads[s] > 0
  /\ safe_close_reads' = [safe_close_reads EXCEPT ![s] = @ - 1]
  /\ \/ /\ close_timer_' = [close_timer_ EXCEPT ![s] = FALSE]
        /\ socket_' = [socket_ EXCEPT ![s] = "closed"]
     \/ socket_[s] = "closed" /\ UNCHANGED <<close_timer_, socket_>>
  /\ UNCHANGED <<tasks, builtVars, session_id_, closed_, readVars, writeVars,
                 session_queue_>>

\* Five seconds have passed: the timer's handler joins the thread's queue,
\* where close_timer_.cancel() no longer reaches it.
close_timer_expires(s) ==
  /\ close_timer_[s]
  /\ close_timer_' = [close_timer_ EXCEPT ![s] = FALSE]
  /\ tasks' = post(tasks, io_thread_[s], [op |-> "close_timeout", s |-> s])
  /\ UNCHANGED <<builtVars, session_id_, closed_, readVars, writeVars,
                 session_queue_, socket_, safe_close_reads>>

\* The lambda of the timer.  cancel() throws on a socket that is closed; where
\* the application catches that, the function has run and changed nothing.
close_timeout(s) ==
  /\ runs(io_thread_[s], [op |-> "close_timeout", s |-> s])
  /\ socket_[s] # "closed" \/ io_thread_[s] = MainThread
  /\ tasks' = popped(io_thread_[s])
  /\ socket_' = [socket_ EXCEPT ![s] = "closed"]
  /\ UNCHANGED <<builtVars, session_id_, closed_, readVars, writeVars,
                 session_queue_, safe_close_reads, close_timer_>>

\* The functions of a session that throw: set_option() of a socket whose peer is
\* gone, in init, and cancel() of one that is closed, in the timer's lambda.
throws(s) ==
  \/ \E id \in Id : runs(io_thread_[s], [op |-> "init", s |-> s, id |-> id])
  \/ runs(io_thread_[s], [op |-> "close_timeout", s |-> s]) /\ socket_[s] = "closed"

----------------------------------------------------------------------------
BuiltTypeOK ==
  /\ io_thread_ \in [Session -> Threads \cup {0}]
  /\ keep_alive_time_ \in [Session -> BOOLEAN]
  /\ session_id_ \in [Session -> Id]
  /\ closed_ \in [Session -> BOOLEAN]

ReadTypeOK ==
  /\ num_read_handlers_ \in [Session -> Nat]
  /\ messages_received_ \in [Session -> Seq(Message)]
  /\ arrived \in [Session -> Nat]

WriteTypeOK ==
  /\ num_write_handlers_ \in [Session -> Nat]
  /\ buffer_sending_ \in [Session -> Seq(Message)]
  /\ buffer_to_be_sent_ \in [Session -> Seq(Message)]
  /\ wire \in [Session -> Seq(Message)]

CloseTypeOK ==
  /\ session_queue_ \in [Threads -> [Id -> Session \cup {nullptr}]]
  /\ socket_ \in [Session -> {"open", "shutdown", "closed"}]
  /\ safe_close_reads \in [Session -> Nat]
  /\ close_timer_ \in [Session -> BOOLEAN]

SessionTypeOK == BuiltTypeOK /\ ReadTypeOK /\ WriteTypeOK /\ CloseTypeOK
=============================================================================
