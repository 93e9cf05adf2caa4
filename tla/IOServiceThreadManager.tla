----------------------- MODULE IOServiceThreadManager -----------------------
(***************************************************************************)
(* IOServiceThreadManager: the registry the main thread keeps.  It gives   *)
(* every new session an id, indexes the handlers by id and counts the      *)
(* sessions of every thread.                                               *)
(*                                                                         *)
(* Handlers are objects; map and counters hold them by id.  Standing alone *)
(* (Next below) the module assumes of its callers that a session closes    *)
(* only under an id that the map holds; EddyServer discharges that.        *)
(***************************************************************************)
EXTENDS EddyTypes

CONSTANTS
  Threshold,   \* threshold of the id generator, 4096 by default
  SizeMax      \* numeric_limits<size_t>::max()

ASSUME ManagerAssumption ==
  /\ Threshold \in Nat \ {0}
  /\ SizeMax \in Nat

\* Ids are wide enough for the sessions and for the ids that wait.
ASSUME CapacityAssumption == Cardinality(Session) + Threshold < Modulus

VARIABLES
  next_, pools_,          \* id_generator_
  session_handler_map_,   \* id -> handler or nullptr
  thread_load_,           \* thread -> number of sessions
  handler_session_id_,    \* handler -> session_id_, 0 once disposed of
  handler_thread_id_,     \* handler -> thread_id_
  lost_ids                \* history: id -> the handler whose connection failed
                          \* with the id taken, or nullptr

managerVars == <<next_, pools_, session_handler_map_, thread_load_,
                 handler_session_id_, handler_thread_id_, lost_ids>>

LiveIds == {id \in Id : session_handler_map_[id] # nullptr}
LostIds == {id \in Id : lost_ids[id] # nullptr}

Generator == INSTANCE IDGenerator
  WITH MinId <- 1, MaxId <- Modulus - 1,
       MaxLive <- Cardinality(Session), issued <- LiveIds \cup LostIds

ManagerInit ==
  /\ session_handler_map_ = [id \in Id |-> nullptr]
  /\ lost_ids = [id \in Id |-> nullptr]
  /\ Generator!Init
  /\ thread_load_ = [t \in Threads |-> 0]
  /\ handler_session_id_ = [h \in Session |-> 0]
  /\ handler_thread_id_ = [h \in Session |-> 0]

\* Mutant of get_min_load_thread: the index is taken for an id, from 1.
get_min_load_thread_off_by_one(load) == NumThreads + 1

\* The loop keeps the last index it accepts and never lowers min_load_value.
get_min_load_thread(load) ==
  LET min_load_value == SizeMax
      accepted == {t \in Workers : load[t] < min_load_value}
  IN  IF NumThreads = 1 \/ accepted = {} THEN MainThread
      ELSE CHOOSE t \in accepted : \A u \in accepted : u <= t

\* The handler of a new session of thread tid; the posts and the callback
\* are composed in EddyServer.
on_session_connected(h, tid, id) ==
  /\ Generator!get(id)
  /\ handler_session_id_' = [handler_session_id_ EXCEPT ![h] = id]
  /\ handler_thread_id_' = [handler_thread_id_ EXCEPT ![h] = tid]
  /\ session_handler_map_' =
       [session_handler_map_ EXCEPT ![id] = IF @ = nullptr THEN h ELSE @]
  /\ thread_load_' = [thread_load_ EXCEPT ![tid] = @ + 1]
  /\ UNCHANGED lost_ids

\* remote_endpoint() throws when the peer has already reset the connection.
\* The id has been taken by then, nothing else has been done, and nobody
\* will return it.
on_session_connected_throws(h, id) ==
  /\ Generator!get(id)
  /\ lost_ids' = [lost_ids EXCEPT ![id] = h]
  /\ UNCHANGED <<session_handler_map_, thread_load_, handler_session_id_,
                 handler_thread_id_>>

\* Mutant of on_session_closed: the handler is not disposed of.
on_session_closed_without_dispose(id) ==
  LET h == session_handler_map_[id]
  IN  /\ h # nullptr
      /\ session_handler_map_' = [session_handler_map_ EXCEPT ![id] = nullptr]
      /\ thread_load_' = [thread_load_ EXCEPT ![handler_thread_id_[h]] = @ - 1]
      /\ Generator!put(id)
      /\ UNCHANGED <<handler_session_id_, handler_thread_id_, lost_ids>>

\* Mutant of on_session_closed: the load is that of the first thread, and
\* the counter is not looked at.
on_session_closed_wrong_load(id) ==
  LET h == session_handler_map_[id]
  IN  /\ h # nullptr
      /\ handler_session_id_' = [handler_session_id_ EXCEPT ![h] = 0]
      /\ session_handler_map_' = [session_handler_map_ EXCEPT ![id] = nullptr]
      /\ thread_load_' = [thread_load_ EXCEPT ![MainThread] = @ - 1]
      /\ Generator!put(id)
      /\ UNCHANGED <<handler_thread_id_, lost_ids>>

\* Mutant of on_session_closed: the id is not returned.
on_session_closed_without_put(id) ==
  LET h == session_handler_map_[id]
  IN  /\ h # nullptr
      /\ handler_session_id_' = [handler_session_id_ EXCEPT ![h] = 0]
      /\ session_handler_map_' = [session_handler_map_ EXCEPT ![id] = nullptr]
      /\ thread_load_' = [thread_load_ EXCEPT ![handler_thread_id_[h]] = @ - 1]
      /\ UNCHANGED <<next_, pools_, handler_thread_id_, lost_ids>>

on_session_closed(id) ==
  /\ LET h == session_handler_map_[id]
         tid == handler_thread_id_[h]
     IN  \/ /\ h = nullptr
            /\ UNCHANGED <<session_handler_map_, thread_load_, handler_session_id_>>
         \/ /\ h # nullptr
            /\ handler_session_id_' = [handler_session_id_ EXCEPT ![h] = 0]
            /\ session_handler_map_' = [session_handler_map_ EXCEPT ![id] = nullptr]
            /\ thread_load_' =
                 [thread_load_ EXCEPT ![tid] = IF @ > 0 THEN @ - 1 ELSE @]
  /\ IF id > 0 THEN Generator!put(id) ELSE UNCHANGED <<next_, pools_>>
  /\ UNCHANGED <<handler_thread_id_, lost_ids>>

----------------------------------------------------------------------------
(* The manager with callers that respect its assumption.  A handler that   *)
(* is in no map stands for a handler yet to be created.                    *)

unknown(h) == \A id \in Id : session_handler_map_[id] # h /\ lost_ids[id] # h

Connect(h) ==
  /\ unknown(h)
  /\ \E tid \in Threads, id \in Id : on_session_connected(h, tid, id)

ConnectThrows(h) ==
  /\ unknown(h)
  /\ \E id \in Id : on_session_connected_throws(h, id)

Close(id) == session_handler_map_[id] # nullptr /\ on_session_closed(id)

ManagerNext ==
  \/ \E h \in Session : Connect(h) \/ ConnectThrows(h)
  \/ \E id \in Id : Close(id)

ManagerSpec == ManagerInit /\ [][ManagerNext]_managerVars

----------------------------------------------------------------------------
ManagerTypeOK ==
  /\ next_ \in Id
  /\ pools_ \subseteq Id
  /\ session_handler_map_ \in [Id -> Session \cup {nullptr}]
  /\ thread_load_ \in [Threads -> Nat]
  /\ handler_session_id_ \in [Session -> Id]
  /\ handler_thread_id_ \in [Session -> Threads \cup {0}]
  /\ lost_ids \in [Id -> Session \cup {nullptr}]

HandlersOf(t) ==
  {id \in LiveIds : handler_thread_id_[session_handler_map_[id]] = t}

\* A handler answers to exactly the id under which the map holds it, so a
\* send, a close or a message always names the handler's own session
\* (io_service_thread_manager.cpp:129-134, 149-160).
HandlersIndexed ==
  \A h \in Session, id \in Id \ {0} :
    handler_session_id_[h] = id <=> session_handler_map_[id] = h

\* thread_load_ counts the live handlers of every thread: the assertion
\* thread_load_[tid - 1] > 0 never fires and no thread keeps a phantom load
\* (io_service_thread_manager.cpp:138-142, 162-170).
LoadMatchesHandlers ==
  \A t \in Threads : thread_load_[t] = Cardinality(HandlersOf(t))

\* Connecting and closing drive the generator as its own specification says:
\* only ids that are out come back.  Held are the ids of the map and those that
\* failed connections have taken with them; these are never handed out again,
\* and they count against the range of the generator
\* (io_service_thread_manager.cpp:123-132, 173-176; id_generator.h:43-51).
ImplementsGenerator == Generator!Spec

\* "Get the thread with the least load" (io_service_thread_manager.h:36-38):
\* no I/O thread has fewer sessions than the one that gets the next.
LeastLoadedThread ==
  \A t \in Workers : thread_load_[get_min_load_thread(thread_load_)] <= thread_load_[t]
=============================================================================
