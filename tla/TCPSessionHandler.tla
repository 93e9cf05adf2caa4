-------------------------- MODULE TCPSessionHandler --------------------------
(***************************************************************************)
(* TCPSessionHandler: the application's end of a session.  Its functions   *)
(* run on the main thread, as posted tasks or called by the application.   *)
(* A handler reaches its session only by posting the session's id to the   *)
(* session's thread; in the single-threaded server that is this thread.    *)
(***************************************************************************)
EXTENDS TCPSession, IOServiceThreadManager

CONSTANTS
  MaxSend,   \* bound: messages the application sends on one handler
  MaxClose   \* bound: calls of close() on one handler

VARIABLES
  messages_to_be_sent_,
  sent,          \* history: messages the application has sent
  close_calls    \* history: calls of close()

handlerVars == <<messages_to_be_sent_, sent, close_calls>>

HandlerInit ==
  /\ messages_to_be_sent_ = [h \in Session |-> <<>>]
  /\ sent = [h \in Session |-> 0]
  /\ close_calls = [h \in Session |-> 0]

is_closed(h) == handler_session_id_[h] = 0

session_of(h) == session_queue_[handler_thread_id_[h]][handler_session_id_[h]]

\* The posts of PackMessageList: the batch, if any, goes to the session's thread.
packed(queues, h) ==
  IF messages_to_be_sent_[h] = <<>> THEN queues
  ELSE post(queues, handler_thread_id_[h],
            [op |-> "SendMessageListToSession", id |-> handler_session_id_[h],
             msgs |-> messages_to_be_sent_[h]])

\* Mutant of send: wanna_send is read after the message is added.
send_posts_late(h, queues) ==
  /\ sent[h] < MaxSend
  /\ sent' = [sent EXCEPT ![h] = @ + 1]
  /\ messages_to_be_sent_' =
       [messages_to_be_sent_ EXCEPT ![h] = Append(@, <<h, sent[h] + 1>>)]
  /\ tasks' = queues
  /\ UNCHANGED close_calls

\* TCPSessionHandler::send on a live handler: the first of a batch posts
\* its transfer.
send(h, queues) ==
  LET function == IF handler_thread_id_[h] = MainThread
                  THEN "handler.SendMessageListDirectly"
                  ELSE "handler.PackMessageList"
  IN  /\ sent[h] < MaxSend
      /\ sent' = [sent EXCEPT ![h] = @ + 1]
      /\ messages_to_be_sent_' =
           [messages_to_be_sent_ EXCEPT ![h] = Append(@, <<h, sent[h] + 1>>)]
      /\ tasks' = IF messages_to_be_sent_[h] = <<>>
                  THEN post(queues, MainThread, [op |-> function, s |-> h])
                  ELSE queues
      /\ UNCHANGED close_calls

\* TCPSessionHandler::close on a live handler.
handler_close(h, queues) ==
  /\ close_calls[h] < MaxClose
  /\ close_calls' = [close_calls EXCEPT ![h] = @ + 1]
  /\ tasks' = post(packed(queues, h), handler_thread_id_[h],
                   [op |-> "CloseSession", id |-> handler_session_id_[h]])
  /\ messages_to_be_sent_' = [messages_to_be_sent_ EXCEPT ![h] = <<>>]
  /\ UNCHANGED sent

----------------------------------------------------------------------------
(* Tasks of the main thread.                                               *)

handler_PackMessageList(h) ==
  /\ runs(MainThread, [op |-> "handler.PackMessageList", s |-> h])
  /\ tasks' = packed(popped(MainThread), h)
  /\ messages_to_be_sent_' = [messages_to_be_sent_ EXCEPT ![h] = <<>>]
  /\ UNCHANGED <<sent, close_calls, sessionVars>>

\* Mutant of handler_SendMessageListDirectly: the list is not cleared.
handler_SendMessageListDirectly_keeps(h) ==
  /\ runs(MainThread, [op |-> "handler.SendMessageListDirectly", s |-> h])
  /\ tasks' = popped(MainThread)
  /\ \/ session_of(h) = nullptr /\ UNCHANGED writeVars
     \/ session_of(h) # nullptr /\ post_message_list(session_of(h), messages_to_be_sent_[h])
  /\ UNCHANGED <<builtVars, session_id_, closed_, readVars, closeVars, handlerVars>>

\* Single-threaded: the session is reached without a post.
handler_SendMessageListDirectly(h) ==
  /\ runs(MainThread, [op |-> "handler.SendMessageListDirectly", s |-> h])
  /\ tasks' = popped(MainThread)
  /\ \/ /\ session_of(h) = nullptr
        /\ UNCHANGED <<writeVars, messages_to_be_sent_>>
     \/ /\ session_of(h) # nullptr
        /\ post_message_list(session_of(h), messages_to_be_sent_[h])
        /\ messages_to_be_sent_' = [messages_to_be_sent_ EXCEPT ![h] = <<>>]
  /\ UNCHANGED <<builtVars, session_id_, closed_, readVars, closeVars, sent, close_calls>>

----------------------------------------------------------------------------
(* Tasks of the session's thread.                                          *)

SendMessageListToSession(t, id, msgs) ==
  LET s == session_queue_[t][id]
  IN  /\ runs(t, [op |-> "SendMessageListToSession", id |-> id, msgs |-> msgs])
      /\ tasks' = popped(t)
      /\ \/ s = nullptr /\ UNCHANGED writeVars
         \/ s # nullptr /\ post_message_list(s, msgs)
      /\ UNCHANGED <<builtVars, session_id_, closed_, readVars, closeVars, handlerVars>>

CloseSession(t, id) ==
  LET s == session_queue_[t][id]
  IN  /\ runs(t, [op |-> "CloseSession", id |-> id])
      /\ \/ s = nullptr /\ tasks' = popped(t) /\ UNCHANGED sessionVars
         \/ s # nullptr /\ close(s, popped(t))
      /\ UNCHANGED handlerVars

----------------------------------------------------------------------------
HandlerTypeOK ==
  /\ messages_to_be_sent_ \in [Session -> Seq(Message)]
  /\ sent \in [Session -> Nat]
  /\ close_calls \in [Session -> Nat]
=============================================================================
