-------------------------- MODULE EddyServer_proofs --------------------------
(***************************************************************************)
(* The running server, for any number of sessions, threads, messages and   *)
(* ids.  Four parts, each of which cites those before it:                  *)
(*   1. the manager alone: its map, counters and generator agree;          *)
(*   2. types of all that the server keeps, and what its steps are;        *)
(*   3. ids name connections, however they are reused, and the server is   *)
(*      a caller that the manager's specification allows;                  *)
(*   4. what becomes of a session: it closes once and with a report,       *)
(*      writes one batch at a time, and leaves no batch without a task.    *)
(***************************************************************************)
EXTENDS EddyServer, SequenceTheorems, FiniteSetTheorems, WellFoundedInduction, TLAPS

----------------------------------------------------------------------------
(***************************************************************************)
(* 1. The manager alone.                                                   *)
(*                                                                         *)
(* The generator's own invariant, proved in IDGenerator_proofs, is a part  *)
(* of the manager's: that a new id is free in the map follows from it.     *)
(***************************************************************************)

GP == INSTANCE IDGenerator_proofs
  WITH MinId <- 1, MaxId <- Modulus - 1,
       MaxLive <- Cardinality(Session), issued <- LiveIds \cup LostIds

\* An id is lost to one handler, which has no other, and is not in the map.
LostAside ==
  /\ \A i \in LostIds : session_handler_map_[i] = nullptr
  /\ \A i, j \in LostIds : lost_ids[i] = lost_ids[j] => i = j
  /\ \A i \in LostIds, j \in LiveIds : lost_ids[i] # session_handler_map_[j]

IInv ==
  /\ ManagerTypeOK
  /\ LostAside
  /\ GP!IInv
  /\ HandlersIndexed
  /\ LoadMatchesHandlers

LEMMA GeneratorAssumptions == GP!Capacity /\ GP!IdAssumption
BY FS_CardinalityType, TypesAssumption, ManagerAssumption, CapacityAssumption
DEF GP!Capacity, GP!IdAssumption

LEMMA SameIds == GP!T = Id /\ 0 \in Id /\ IsFiniteSet(Id)
<1>1. IsFiniteSet(0 .. Modulus - 1)
  BY FS_Interval, TypesAssumption
<1> QED BY <1>1, TypesAssumption DEF GP!T, Id

\* The instances name the one Cardinality.
LEMMA SameCardinality ==
  ASSUME NEW S
  PROVE  GP!Cardinality(S) = Cardinality(S) /\ Generator!Cardinality(S) = Cardinality(S)
BY DEF GP!Cardinality, Generator!Cardinality, Cardinality

LEMMA LiveIdsPositive == ASSUME IInv PROVE session_handler_map_[0] = nullptr
<1>1. LiveIds \subseteq 1 .. next_ - 1
  BY DEF IInv, GP!IInv, GP!IdsConserved
<1> QED BY <1>1, SameIds DEF LiveIds

\* Map and lost ids together are one to one, so while a handler is unknown
\* there is an id.
LEMMA RoomForOneMore ==
  ASSUME IInv, NEW h \in Session, unknown(h)
  PROVE  Cardinality(LiveIds \cup LostIds) < Cardinality(Session)
<1> DEFINE held == LiveIds \cup LostIds
           f == [id \in held |-> IF id \in LiveIds THEN session_handler_map_[id]
                                 ELSE lost_ids[id]]
<1>1. f \in Injection(held, Session \ {h})
  <2>1. f \in [held -> Session \ {h}]
    BY DEF IInv, ManagerTypeOK, LiveIds, LostIds, unknown
  <2>2. ASSUME NEW a \in held, NEW b \in held, f[a] = f[b]
        PROVE  a = b
    <3>1. CASE a \in LiveIds /\ b \in LiveIds
      <4>1. /\ a \in Id \ {0} /\ b \in Id \ {0}
            /\ session_handler_map_[a] \in Session
            /\ session_handler_map_[a] = session_handler_map_[b]
        BY <2>2, <3>1, LiveIdsPositive DEF LiveIds, IInv, ManagerTypeOK
      <4> QED BY <4>1 DEF IInv, HandlersIndexed
    <3>2. CASE a \notin LiveIds /\ b \notin LiveIds
      BY <2>2, <3>2 DEF IInv, LostAside
    <3>3. CASE a \in LiveIds /\ b \notin LiveIds
      BY <2>2, <3>3 DEF IInv, LostAside
    <3>4. CASE a \notin LiveIds /\ b \in LiveIds
      BY <2>2, <3>4 DEF IInv, LostAside
    <3> QED BY <3>1, <3>2, <3>3, <3>4
  <2> HIDE DEF held, f
  <2> QED BY <2>1, <2>2 DEF Injection, IsInjective
<1> HIDE DEF f
<1>2. /\ IsFiniteSet(Session \ {h})
      /\ Cardinality(Session \ {h}) = Cardinality(Session) - 1
      /\ Cardinality(Session) \in Nat
  BY FS_RemoveElement, FS_CardinalityType, TypesAssumption
<1>3. Cardinality(held) <= Cardinality(Session \ {h}) /\ IsFiniteSet(held)
  BY <1>1, <1>2, FS_Injection
<1>4. Cardinality(held) \in Nat
  BY <1>3, FS_CardinalityType
<1> QED BY <1>2, <1>3, <1>4

LEMMA HandlersOfFinite == ASSUME NEW t PROVE IsFiniteSet(HandlersOf(t))
BY SameIds, FS_Subset DEF HandlersOf, LiveIds

LEMMA Initially == ManagerInit => IInv
<1> SUFFICES ASSUME ManagerInit PROVE IInv
  OBVIOUS
<1>1. LiveIds = {} /\ LostIds = {}
  BY DEF ManagerInit, LiveIds, LostIds
<1>2. GP!IInv
  <2>1. GP!Init
    BY <1>1 DEF ManagerInit, Generator!Init, GP!Init
  <2> QED BY <2>1, GeneratorAssumptions, GP!Initially
<1>3. ManagerTypeOK
  BY TypesAssumption, SameIds, <1>2
  DEF ManagerInit, ManagerTypeOK, Generator!Init, GP!IInv, GP!TypeOK
<1>4. HandlersIndexed
  BY TypesAssumption DEF ManagerInit, HandlersIndexed
<1>5. LoadMatchesHandlers
  <2>1. \A t \in Threads : HandlersOf(t) = {}
    BY <1>1 DEF HandlersOf
  <2> QED BY <2>1, FS_EmptySet DEF LoadMatchesHandlers, ManagerInit
<1>6. LostAside
  BY <1>1 DEF LostAside
<1> QED BY <1>2, <1>3, <1>4, <1>5, <1>6 DEF IInv

\* What get() returns for one more handler is neither in the map nor lost.
LEMMA GetDetails ==
  ASSUME IInv, NEW h \in Session, NEW id \in Id, unknown(h), Generator!get(id),
         (LiveIds \cup LostIds)' = LiveIds \cup LostIds \cup {id}
  PROVE  /\ id # 0 /\ id \notin LiveIds /\ id \notin LostIds
         /\ GP!Get(id)
<1>1. GP!Get(id)
  BY RoomForOneMore, SameCardinality DEF Generator!get, GP!Get, GP!get
<1>2. id \notin LiveIds \cup LostIds /\ id >= 1
  BY <1>1, SameIds, GeneratorAssumptions, GP!GetIsFresh DEF IInv
<1>3. id # 0
  BY <1>2
<1> QED BY <1>1, <1>2, <1>3

\* A new handler goes under an id that the map does not hold, and the
\* generator takes one step of its own.
LEMMA ConnectDetails ==
  ASSUME IInv, NEW h \in Session, NEW tid \in Threads, NEW id \in Id,
         unknown(h), on_session_connected(h, tid, id)
  PROVE  /\ id # 0 /\ id \notin LiveIds /\ id \notin LostIds
         /\ session_handler_map_' = [session_handler_map_ EXCEPT ![id] = h]
         /\ LiveIds' = LiveIds \cup {id} /\ LostIds' = LostIds
         /\ GP!Get(id)
<1>1. /\ session_handler_map_ \in [Id -> Session \cup {nullptr}]
      /\ session_handler_map_' =
           [session_handler_map_ EXCEPT ![id] = IF @ = nullptr THEN h ELSE @]
  BY DEF IInv, ManagerTypeOK, on_session_connected
<1>2. LiveIds' = LiveIds \cup {id}
  BY <1>1, TypesAssumption DEF LiveIds
<1>3. LostIds' = LostIds
  BY DEF LostIds, on_session_connected
<1>4. Generator!get(id)
  BY DEF on_session_connected
<1>5. id # 0 /\ id \notin LiveIds /\ id \notin LostIds /\ GP!Get(id)
  BY <1>2, <1>3, <1>4, GetDetails
<1>6. session_handler_map_[id] = nullptr
  BY <1>5 DEF LiveIds
<1>7. session_handler_map_' = [session_handler_map_ EXCEPT ![id] = h]
  BY <1>1, <1>6
<1> QED BY <1>2, <1>3, <1>5, <1>7

LEMMA ConnectPreserves ==
  ASSUME IInv, NEW h \in Session, NEW tid \in Threads, NEW id \in Id,
         unknown(h), on_session_connected(h, tid, id)
  PROVE  IInv'
<1>1. /\ id # 0 /\ id \notin LiveIds /\ id \notin LostIds
      /\ session_handler_map_' = [session_handler_map_ EXCEPT ![id] = h]
      /\ LiveIds' = LiveIds \cup {id} /\ LostIds' = LostIds
      /\ GP!Get(id)
  BY ConnectDetails
<1>2. /\ handler_session_id_' = [handler_session_id_ EXCEPT ![h] = id]
      /\ handler_thread_id_' = [handler_thread_id_ EXCEPT ![h] = tid]
      /\ thread_load_' = [thread_load_ EXCEPT ![tid] = @ + 1]
      /\ lost_ids' = lost_ids
  BY DEF on_session_connected
<1>3. GP!IInv'
  BY <1>1, SameIds, GeneratorAssumptions, GP!GetPreserves DEF IInv
<1>4. ManagerTypeOK'
  BY <1>1, <1>2, <1>3, SameIds DEF IInv, ManagerTypeOK, GP!IInv, GP!TypeOK
<1>5. HandlersIndexed'
  <2> SUFFICES ASSUME NEW g \in Session, NEW i \in Id \ {0}
               PROVE  handler_session_id_'[g] = i <=> session_handler_map_'[i] = g
    BY DEF HandlersIndexed
  <2>1. /\ session_handler_map_[id] = nullptr
        /\ handler_session_id_[g] = i <=> session_handler_map_[i] = g
    BY <1>1 DEF IInv, HandlersIndexed, LiveIds
  <2>2. /\ session_handler_map_ \in [Id -> Session \cup {nullptr}]
        /\ handler_session_id_ \in [Session -> Id]
    BY DEF IInv, ManagerTypeOK
  <2>3. CASE g = h
    <3>1. session_handler_map_[i] # h
      BY DEF unknown
    <3> QED BY <1>1, <1>2, <2>2, <2>3, <3>1
  <2>4. CASE g # h /\ i = id
    BY <1>1, <1>2, <2>1, <2>2, <2>4, TypesAssumption
  <2>5. CASE g # h /\ i # id
    BY <1>1, <1>2, <2>1, <2>2, <2>5
  <2> QED BY <2>3, <2>4, <2>5
<1>6. LoadMatchesHandlers'
  <2> SUFFICES ASSUME NEW t \in Threads
               PROVE  thread_load_'[t] = Cardinality(HandlersOf(t)')
    BY DEF LoadMatchesHandlers
  <2>1. \A i \in LiveIds : session_handler_map_[i] \in Session \ {h}
    BY DEF LiveIds, IInv, ManagerTypeOK, unknown
  <2>2. HandlersOf(t)' = IF t = tid THEN HandlersOf(t) \cup {id} ELSE HandlersOf(t)
    BY <1>1, <1>2, <2>1 DEF HandlersOf, IInv, ManagerTypeOK, LiveIds
  <2>3. id \notin HandlersOf(t)
    BY <1>1 DEF HandlersOf
  <2>4. Cardinality(HandlersOf(t) \cup {id}) = Cardinality(HandlersOf(t)) + 1
    BY <2>3, HandlersOfFinite, FS_AddElement
  <2> QED
    BY <1>2, <2>2, <2>4 DEF IInv, LoadMatchesHandlers, ManagerTypeOK
<1>7. LostAside'
  <2>1. /\ session_handler_map_ \in [Id -> Session \cup {nullptr}]
        /\ \A i \in LostIds : i \in Id /\ lost_ids[i] # h
        /\ \A i \in LiveIds : i \in Id
    BY DEF IInv, ManagerTypeOK, LostIds, LiveIds, unknown
  <2>2. \A i \in LostIds : session_handler_map_'[i] = nullptr
    BY <1>1, <2>1 DEF IInv, LostAside
  <2>3. \A i \in LostIds, j \in LiveIds' : lost_ids[i] # session_handler_map_'[j]
    BY <1>1, <2>1 DEF IInv, LostAside
  <2> QED BY <1>1, <1>2, <2>2, <2>3 DEF IInv, LostAside
<1> QED BY <1>3, <1>4, <1>5, <1>6, <1>7 DEF IInv

\* The id of a connection that fails is lost, and the map is as it was.
LEMMA ThrowDetails ==
  ASSUME IInv, NEW h \in Session, NEW id \in Id,
         unknown(h), on_session_connected_throws(h, id)
  PROVE  /\ id # 0 /\ id \notin LiveIds /\ id \notin LostIds
         /\ LiveIds' = LiveIds /\ LostIds' = LostIds \cup {id}
         /\ GP!Get(id)
<1>1. lost_ids \in [Id -> Session \cup {nullptr}] /\ h # nullptr
  BY TypesAssumption DEF IInv, ManagerTypeOK
<1>2. LostIds' = LostIds \cup {id}
  BY <1>1 DEF LostIds, on_session_connected_throws
<1>3. LiveIds' = LiveIds
  BY DEF LiveIds, on_session_connected_throws
<1>4. Generator!get(id)
  BY DEF on_session_connected_throws
<1> QED BY <1>2, <1>3, <1>4, GetDetails

LEMMA ThrowPreserves ==
  ASSUME IInv, NEW h \in Session, NEW id \in Id,
         unknown(h), on_session_connected_throws(h, id)
  PROVE  IInv'
<1>1. /\ id # 0 /\ id \notin LiveIds /\ id \notin LostIds
      /\ LiveIds' = LiveIds /\ LostIds' = LostIds \cup {id}
      /\ GP!Get(id)
  BY ThrowDetails
<1>2. /\ lost_ids' = [lost_ids EXCEPT ![id] = h]
      /\ UNCHANGED <<session_handler_map_, thread_load_, handler_session_id_,
                     handler_thread_id_>>
  BY DEF on_session_connected_throws
<1>3. GP!IInv'
  BY <1>1, SameIds, GeneratorAssumptions, GP!GetPreserves DEF IInv
<1>4. ManagerTypeOK'
  BY <1>2, <1>3, SameIds DEF IInv, ManagerTypeOK, GP!IInv, GP!TypeOK
<1>5. HandlersIndexed'
  BY <1>2 DEF IInv, HandlersIndexed
<1>6. LoadMatchesHandlers'
  <2>1. \A t \in Threads : HandlersOf(t)' = HandlersOf(t)
    BY <1>1, <1>2 DEF HandlersOf
  <2> QED BY <1>2, <2>1 DEF IInv, LoadMatchesHandlers
<1>7. LostAside'
  <2>1. /\ lost_ids \in [Id -> Session \cup {nullptr}]
        /\ \A i \in LostIds : i \in Id /\ i # id /\ lost_ids[i] # h
        /\ \A i \in LiveIds : i \in Id /\ session_handler_map_[i] # h
    BY <1>1 DEF IInv, ManagerTypeOK, LostIds, LiveIds, unknown
  <2>2. lost_ids'[id] = h /\ \A i \in LostIds : lost_ids'[i] = lost_ids[i]
    BY <1>2, <2>1
  <2>3. session_handler_map_[id] = nullptr
    BY <1>1 DEF LiveIds
  <2> QED BY <1>1, <1>2, <2>1, <2>2, <2>3 DEF IInv, LostAside
<1> QED BY <1>3, <1>4, <1>5, <1>6, <1>7 DEF IInv

\* Closing returns exactly the id that leaves the map.
LEMMA CloseDetails ==
  ASSUME IInv, NEW id \in Id, Close(id)
  PROVE  /\ id # 0 /\ session_handler_map_[id] \in Session
         /\ LiveIds' = LiveIds \ {id} /\ LostIds' = LostIds
         /\ GP!Put(id)
<1>1. /\ session_handler_map_ \in [Id -> Session \cup {nullptr}]
      /\ session_handler_map_[id] \in Session
      /\ session_handler_map_' = [session_handler_map_ EXCEPT ![id] = nullptr]
  BY DEF IInv, ManagerTypeOK, Close, on_session_closed
<1>2. id # 0
  BY <1>1, LiveIdsPositive, TypesAssumption
<1>3. id > 0
  BY <1>2, TypesAssumption DEF Id
<1>4. LiveIds' = LiveIds \ {id} /\ id \in LiveIds
  BY <1>1, TypesAssumption DEF LiveIds
<1>5. LostIds' = LostIds /\ id \notin LostIds
  BY <1>1, TypesAssumption DEF Close, on_session_closed, LostIds, IInv, LostAside
<1>6. (LiveIds \cup LostIds)' = (LiveIds \cup LostIds) \ {id}
  BY <1>4, <1>5
<1>7. GP!Put(id)
  BY <1>3, <1>4, <1>6 DEF Close, on_session_closed, Generator!put, GP!Put, GP!put
<1> QED BY <1>1, <1>2, <1>4, <1>5, <1>7

LEMMA ClosePreserves ==
  ASSUME IInv, NEW id \in Id, Close(id)
  PROVE  IInv'
<1> DEFINE h == session_handler_map_[id]
           tid == handler_thread_id_[h]
<1>1. /\ id # 0 /\ h \in Session /\ GP!Put(id)
      /\ LiveIds' = LiveIds \ {id} /\ LostIds' = LostIds
  BY CloseDetails
<1>2. /\ handler_session_id_' = [handler_session_id_ EXCEPT ![h] = 0]
      /\ session_handler_map_' = [session_handler_map_ EXCEPT ![id] = nullptr]
      /\ thread_load_' = [thread_load_ EXCEPT ![tid] = IF @ > 0 THEN @ - 1 ELSE @]
      /\ handler_thread_id_' = handler_thread_id_ /\ lost_ids' = lost_ids
  BY <1>1, TypesAssumption DEF Close, on_session_closed
<1>3. GP!IInv'
  BY <1>1, SameIds, GeneratorAssumptions, GP!PutPreserves DEF IInv
<1>4. ManagerTypeOK'
  <2>1. thread_load_' \in [Threads -> Nat]
    <3>1. thread_load_ \in [Threads -> Nat]
      BY DEF IInv, ManagerTypeOK
    <3>2. \A n \in Nat : (IF n > 0 THEN n - 1 ELSE n) \in Nat
      OBVIOUS
    <3> QED BY <1>2, <3>1, <3>2
  <2> QED
    BY <1>1, <1>2, <1>3, <2>1, SameIds
    DEF IInv, ManagerTypeOK, GP!IInv, GP!TypeOK
<1>5. HandlersIndexed'
  <2> SUFFICES ASSUME NEW g \in Session, NEW i \in Id \ {0}
               PROVE  handler_session_id_'[g] = i <=> session_handler_map_'[i] = g
    BY DEF HandlersIndexed
  <2>1. /\ handler_session_id_[g] = i <=> session_handler_map_[i] = g
        /\ handler_session_id_[h] = id
    BY <1>1 DEF IInv, HandlersIndexed
  <2>2. /\ session_handler_map_ \in [Id -> Session \cup {nullptr}]
        /\ handler_session_id_ \in [Session -> Id]
    BY DEF IInv, ManagerTypeOK
  <2>3. CASE g = h
    BY <1>2, <2>1, <2>2, <2>3, TypesAssumption
  <2>4. CASE g # h
    BY <1>2, <2>1, <2>2, <2>4, TypesAssumption
  <2> QED BY <2>3, <2>4
<1>6. LoadMatchesHandlers'
  <2> SUFFICES ASSUME NEW t \in Threads
               PROVE  thread_load_'[t] = Cardinality(HandlersOf(t)')
    BY DEF LoadMatchesHandlers
  <2>1. HandlersOf(t)' = HandlersOf(t) \ {id}
    BY <1>1, <1>2 DEF HandlersOf, IInv, ManagerTypeOK, LiveIds
  <2>2. id \in HandlersOf(t) <=> t = tid
    BY <1>1, TypesAssumption DEF HandlersOf, LiveIds
  <2>3. /\ Cardinality(HandlersOf(t)) \in Nat
        /\ Cardinality(HandlersOf(t) \ {id}) =
             IF id \in HandlersOf(t) THEN Cardinality(HandlersOf(t)) - 1
             ELSE Cardinality(HandlersOf(t))
    BY HandlersOfFinite, FS_RemoveElement, FS_CardinalityType
  <2>4. thread_load_[t] = Cardinality(HandlersOf(t)) /\ thread_load_ \in [Threads -> Nat]
    BY DEF IInv, LoadMatchesHandlers, ManagerTypeOK
  <2>5. CASE t = tid
    <3>1. Cardinality(HandlersOf(t)) > 0
      <4>1. Cardinality(HandlersOf(t)) # 0
        BY <2>2, <2>5, HandlersOfFinite, FS_EmptySet
      <4> QED BY <4>1, <2>3
    <3> QED BY <1>2, <2>1, <2>2, <2>3, <2>4, <2>5, <3>1
  <2>6. CASE t # tid
    BY <1>2, <2>1, <2>2, <2>3, <2>4, <2>6
  <2> QED BY <2>5, <2>6
<1>7. LostAside'
  <2>1. /\ session_handler_map_ \in [Id -> Session \cup {nullptr}]
        /\ LostIds \subseteq Id /\ LiveIds \subseteq Id
    BY DEF IInv, ManagerTypeOK, LostIds, LiveIds
  <2>2. \A i \in LostIds : session_handler_map_'[i] = nullptr
    BY <1>1, <1>2, <2>1 DEF IInv, LostAside
  <2>3. \A j \in LiveIds \ {id} : session_handler_map_'[j] = session_handler_map_[j]
    BY <1>1, <1>2, <2>1
  <2> QED BY <1>1, <1>2, <2>2, <2>3 DEF IInv, LostAside
<1> QED BY <1>3, <1>4, <1>5, <1>6, <1>7 DEF IInv

LEMMA Inductive == ASSUME IInv, [ManagerNext]_managerVars PROVE IInv'
<1>1. CASE UNCHANGED managerVars
  <2>1. UNCHANGED LiveIds /\ UNCHANGED LostIds /\ \A t : UNCHANGED HandlersOf(t)
    BY <1>1 DEF managerVars, LiveIds, LostIds, HandlersOf
  <2>2. GP!IInv'
    BY <1>1, <2>1 DEF managerVars, IInv, GP!IInv, GP!TypeOK, GP!IdsConserved,
                      GP!MintingBounded
  <2> QED
    BY <1>1, <2>1, <2>2
    DEF managerVars, IInv, ManagerTypeOK, HandlersIndexed, LoadMatchesHandlers, LostAside
<1>2. ASSUME NEW h \in Session, Connect(h) PROVE IInv'
  BY <1>2, ConnectPreserves DEF Connect
<1>3. ASSUME NEW h \in Session, ConnectThrows(h) PROVE IInv'
  BY <1>3, ThrowPreserves DEF ConnectThrows
<1>4. ASSUME NEW id \in Id, Close(id) PROVE IInv'
  BY <1>4, ClosePreserves
<1> QED BY <1>1, <1>2, <1>3, <1>4 DEF ManagerNext

LEMMA Invariance == ManagerSpec => []IInv
BY Initially, Inductive, PTL DEF ManagerSpec

----------------------------------------------------------------------------
\* The manager's variables keep their types; a load is never decremented
\* below zero (io_service_thread_manager.cpp:165-169).
THEOREM ManagerTypeCorrect == ManagerSpec => []ManagerTypeOK
BY Invariance, PTL DEF IInv

\* A handler answers to exactly the id under which the map holds it
\* (io_service_thread_manager.cpp:129-134, 149-160).
THEOREM HandlersAreIndexed == ManagerSpec => []HandlersIndexed
BY Invariance, PTL DEF IInv

\* thread_load_ is the number of live handlers of each thread
\* (io_service_thread_manager.cpp:138-143, 162-170).
THEOREM LoadsMatch == ManagerSpec => []LoadMatchesHandlers
BY Invariance, PTL DEF IInv

\* The manager uses its generator as the generator's specification asks, also
\* when it loses ids to connections that fail
\* (io_service_thread_manager.cpp:123-132, 173-176).
THEOREM ManagerImplementsGenerator == ManagerSpec => ImplementsGenerator
<1>1. ManagerInit => Generator!Init
  BY DEF ManagerInit
<1>2. ASSUME IInv, [ManagerNext]_managerVars PROVE [Generator!Next]_(Generator!vars)
  <2>1. CASE UNCHANGED managerVars
    BY <2>1 DEF managerVars, Generator!vars, LiveIds, LostIds
  <2>2. ASSUME NEW h \in Session, Connect(h) PROVE Generator!Next
    <3>1. PICK tid \in Threads, id \in Id : on_session_connected(h, tid, id)
      BY <2>2 DEF Connect
    <3>2. GP!Get(id)
      BY <1>2, <2>2, <3>1, ConnectDetails DEF Connect
    <3> QED
      BY <3>2, SameIds, SameCardinality DEF GP!Get, GP!get, GP!T, Generator!Next, Generator!Get,
                           Generator!get, Generator!T
  <2>3. ASSUME NEW h \in Session, ConnectThrows(h) PROVE Generator!Next
    <3>1. PICK id \in Id : on_session_connected_throws(h, id)
      BY <2>3 DEF ConnectThrows
    <3>2. GP!Get(id)
      BY <1>2, <2>3, <3>1, ThrowDetails DEF ConnectThrows
    <3> QED
      BY <3>2, SameIds, SameCardinality DEF GP!Get, GP!get, GP!T, Generator!Next, Generator!Get,
                           Generator!get, Generator!T
  <2>4. ASSUME NEW id \in Id, Close(id) PROVE Generator!Next
    <3>1. GP!Put(id)
      BY <1>2, <2>4, CloseDetails
    <3> QED
      BY <3>1, SameIds DEF GP!Put, GP!put, GP!T, Generator!Next, Generator!Put,
                           Generator!put, Generator!T
  <2> QED BY <1>2, <2>1, <2>2, <2>3, <2>4 DEF ManagerNext
<1> QED
  BY <1>1, <1>2, Invariance, PTL DEF ManagerSpec, ImplementsGenerator, Generator!Spec

----------------------------------------------------------------------------
(***************************************************************************)
(* 2. Types.                                                               *)
(*                                                                         *)
(* A step is a disjunct of the flattened Next: what a thread runs, a       *)
(* completion, a call of the application; one lemma for each handler.      *)
(***************************************************************************)

LEMMA MainThreadIsThread == MainThread \in Threads
BY TypesAssumption DEF MainThread, Threads

\* The thread with the last index that the loop accepts exists.
LEMMA LastExists ==
  ASSUME NEW S \in SUBSET Workers, S # {}
  PROVE  \E t \in S : \A u \in S : u <= t
<1> DEFINE distance == {NumThreads - t : t \in S}
<1>1. S \subseteq 1 .. NumThreads /\ NumThreads \in Nat
  BY TypesAssumption DEF Workers, Threads
<1>2. distance \subseteq Nat /\ distance # {}
  <2>1. \A t \in S : NumThreads - t \in Nat
    BY <1>1, TypesAssumption
  <2>2. distance # {}
    OBVIOUS
  <2> QED BY <2>1, <2>2
<1>3. PICK m \in distance : \A n \in distance : ~ (<<n, m>> \in OpToRel(<, Nat))
  BY <1>2, NatLessThanWellFounded, WFMin
<1>4. \A n \in distance : ~ (n < m)
  BY <1>2, <1>3 DEF OpToRel
<1>5. PICK t \in S : m = NumThreads - t
  BY <1>3
<1>6. ASSUME NEW u \in S PROVE u <= t
  <2>1. NumThreads - u \in distance
    OBVIOUS
  <2>2. ~ (NumThreads - u < NumThreads - t)
    BY <1>4, <1>5, <2>1
  <2>3. u \in Int /\ t \in Int /\ NumThreads \in Int
    BY <1>1
  <2> HIDE DEF distance
  <2> QED BY <2>2, <2>3
<1> QED BY <1>6

LEMMA ThreadIsChosen == ASSUME NEW load PROVE get_min_load_thread(load) \in Threads
<1> DEFINE accepted == {t \in Workers : load[t] < SizeMax}
<1>1. CASE NumThreads = 1 \/ accepted = {}
  BY <1>1, MainThreadIsThread DEF get_min_load_thread
<1>2. CASE ~(NumThreads = 1 \/ accepted = {})
  <2>1. \E t \in accepted : \A u \in accepted : u <= t
    BY <1>2, LastExists
  <2>2. (CHOOSE t \in accepted : \A u \in accepted : u <= t) \in accepted
    BY <2>1
  <2> QED BY <1>2, <2>2 DEF get_min_load_thread, Workers
<1> QED BY <1>1, <1>2

----------------------------------------------------------------------------
(* Queues of tasks.                                                        *)

Queues == [Threads -> Seq(Task)]

LEMMA PostType ==
  ASSUME NEW queues \in Queues, NEW t, NEW task \in Task
  PROVE  post(queues, t, task) \in Queues
<1>1. \A q \in Seq(Task) : Append(q, task) \in Seq(Task)
  BY AppendProperties
<1> QED BY <1>1 DEF post, Queues

LEMMA PopType ==
  ASSUME IoTypeOK, NEW t \in Threads, tasks[t] # <<>>
  PROVE  popped(t) \in Queues /\ Head(tasks[t]) \in Task
<1>1. tasks[t] \in Seq(Task)
  BY DEF IoTypeOK
<1>2. Tail(tasks[t]) \in Seq(Task) /\ Head(tasks[t]) \in Task
  BY <1>1, HeadTailProperties
<1> QED BY <1>2 DEF popped, IoTypeOK, Queues

\* The forms of tasks that are posted, and what a task that runs carries.
LEMMA TaskTypes ==
  /\ \A s \in Session, id \in Id : [op |-> "init", s |-> s, id |-> id] \in Task
  /\ \A s \in Session :
       \A op \in {"close", "close_timeout", "session.PackMessageList",
                  "session.SendMessageListDirectly", "handler.PackMessageList",
                  "handler.SendMessageListDirectly"} : [op |-> op, s |-> s] \in Task
  /\ \A id \in Id :
       \A op \in {"CloseSession", "on_session_closed"} : [op |-> op, id |-> id] \in Task
  /\ \A id \in Id, msgs \in Seq(Message) :
       \A op \in {"SendMessageListToSession", "SendMessageListToHandler"} :
         [op |-> op, id |-> id, msgs |-> msgs] \in Task
BY DEF Task

LEMMA TaskCarries ==
  ASSUME NEW task \in Task
  PROVE  /\ task.op = "init" => task.s \in Session /\ task.id \in Id
         /\ task.op \in {"CloseSession", "on_session_closed"} => task.id \in Id
         /\ task.op \in {"SendMessageListToSession", "SendMessageListToHandler"} =>
              task.id \in Id /\ task.msgs \in Seq(Message)
BY DEF Task

LEMMA MessageLists ==
  ASSUME NEW s \in Session
  PROVE  \A n \in Nat, m \in Nat : [i \in 1 .. n |-> <<s, m + i>>] \in Seq(Message)
BY DEF Message

----------------------------------------------------------------------------
(* Sessions.                                                               *)

LEMMA HanldeCloseType ==
  ASSUME SessionTypeOK, NEW s \in Session, NEW writes, NEW queues \in Queues,
         hanlde_close(s, writes, queues)
  PROVE  tasks' \in Queues /\ CloseTypeOK'
<1>1. session_id_[s] \in Id
  BY DEF SessionTypeOK, BuiltTypeOK
<1>2. post(queues, MainThread, [op |-> "on_session_closed", id |-> session_id_[s]])
        \in Queues
  BY <1>1, PostType, TaskTypes
<1>3. tasks' \in Queues
  BY <1>2 DEF hanlde_close
<1>4. CloseTypeOK'
  <2> DEFINE t == io_thread_[s]
             id == session_id_[s]
  <2>1. CASE UNCHANGED closeVars
    BY <2>1 DEF closeVars, SessionTypeOK, CloseTypeOK
  <2>2. CASE ~ UNCHANGED closeVars
    <3>1. /\ session_queue_' = [session_queue_ EXCEPT ![t][id] = nullptr]
          /\ socket_' = [socket_ EXCEPT ![s] = IF @ = "open" THEN "shutdown" ELSE @]
          /\ safe_close_reads' = [safe_close_reads EXCEPT ![s] = @ + 1]
          /\ close_timer_' = [close_timer_ EXCEPT ![s] = TRUE]
      BY <2>2 DEF hanlde_close
    <3>2. session_queue_' \in [Threads -> [Id -> Session \cup {nullptr}]]
      BY <3>1 DEF SessionTypeOK, CloseTypeOK
    <3>3. socket_' \in [Session -> {"open", "shutdown", "closed"}]
      BY <3>1 DEF SessionTypeOK, CloseTypeOK
    <3>4. safe_close_reads' \in [Session -> Nat]
      BY <3>1 DEF SessionTypeOK, CloseTypeOK
    <3>5. close_timer_' \in [Session -> BOOLEAN]
      BY <3>1 DEF SessionTypeOK, CloseTypeOK
    <3> QED BY <3>2, <3>3, <3>4, <3>5 DEF CloseTypeOK
  <2> QED BY <2>1, <2>2
<1> QED BY <1>3, <1>4

LEMMA CloseType ==
  ASSUME SessionTypeOK, NEW s \in Session, NEW queues \in Queues, close(s, queues)
  PROVE  tasks' \in Queues /\ SessionTypeOK'
<1>1. tasks' \in Queues /\ CloseTypeOK'
  BY HanldeCloseType DEF close, closeVars, SessionTypeOK, CloseTypeOK
<1>2. BuiltTypeOK' /\ ReadTypeOK' /\ WriteTypeOK'
  BY DEF close, builtVars, readVars, writeVars, SessionTypeOK, BuiltTypeOK,
         ReadTypeOK, WriteTypeOK
<1> QED BY <1>1, <1>2 DEF SessionTypeOK

\* An unknown session would have no buffers that change.
LEMMA PostMessageListType ==
  ASSUME WriteTypeOK, NEW s, NEW messages \in Seq(Message),
         post_message_list(s, messages)
  PROVE  WriteTypeOK'
<1>0. CASE s \notin Session
  BY <1>0 DEF post_message_list, async_write, writeVars, WriteTypeOK
<1> SUFFICES ASSUME s \in Session PROVE WriteTypeOK'
  BY <1>0
<1>1. buffer_to_be_sent_[s] \o messages \in Seq(Message)
  BY ConcatProperties DEF WriteTypeOK
<1>2. CASE UNCHANGED writeVars
  BY <1>2 DEF writeVars, WriteTypeOK
<1>3. CASE /\ buffer_to_be_sent_' =
                [buffer_to_be_sent_ EXCEPT ![s] = buffer_to_be_sent_[s] \o messages]
           /\ UNCHANGED <<num_write_handlers_, buffer_sending_, wire>>
  BY <1>1, <1>3 DEF WriteTypeOK
<1>4. CASE /\ buffer_sending_' =
                [buffer_sending_ EXCEPT ![s] = buffer_to_be_sent_[s] \o messages]
           /\ buffer_to_be_sent_' =
                [buffer_to_be_sent_ EXCEPT ![s] = buffer_sending_[s]]
           /\ async_write(s, Len(messages))
  <2>1. buffer_sending_'[s] = buffer_to_be_sent_[s] \o messages
    BY <1>4 DEF WriteTypeOK
  <2>2. SubSeq(buffer_sending_'[s], 1, Len(messages)) \in Seq(Message)
    <3>1. /\ Len(messages) \in Nat /\ Len(buffer_to_be_sent_[s]) \in Nat
          /\ Len(buffer_sending_'[s]) = Len(buffer_to_be_sent_[s]) + Len(messages)
      BY <2>1, LenProperties, ConcatProperties DEF WriteTypeOK
    <3>2. \A i \in 1 .. Len(messages) : buffer_sending_'[s][i] \in Message
      BY <1>1, <2>1, <3>1, ElementOfSeq
    <3> QED BY <3>1, <3>2, SubSeqProperties
  <2>3. wire[s] \o SubSeq(buffer_sending_'[s], 1, Len(messages)) \in Seq(Message)
    BY <2>2, ConcatProperties DEF WriteTypeOK
  <2> QED BY <1>1, <1>4, <2>3 DEF async_write, WriteTypeOK
<1> QED BY <1>2, <1>3, <1>4 DEF post_message_list

LEMMA InitType ==
  ASSUME IoTypeOK, SessionTypeOK, NEW s \in Session, io_thread_[s] \in Threads,
         NEW id \in Id, init(s, id)
  PROVE  tasks' \in Queues /\ SessionTypeOK'
<1>1. tasks' \in Queues
  BY PopType DEF init, runs
<1>2. BuiltTypeOK'
  BY DEF init, builtVars, SessionTypeOK, BuiltTypeOK
<1>3. ReadTypeOK' /\ WriteTypeOK'
  BY DEF init, writeVars, SessionTypeOK, ReadTypeOK, WriteTypeOK
<1>4. CloseTypeOK'
  BY DEF init, SessionTypeOK, CloseTypeOK
<1> QED BY <1>1, <1>2, <1>3, <1>4 DEF SessionTypeOK

LEMMA WrittenType ==
  ASSUME IoTypeOK, SessionTypeOK, NEW s \in Session, hanlde_write(s) \/ hanlde_write_fails(s)
  PROVE  tasks' \in Queues /\ SessionTypeOK'
<1>1. tasks \in Queues
  BY DEF IoTypeOK, Queues
<1>2. CASE hanlde_write(s)
  <2>1. wire[s] \o buffer_to_be_sent_[s] \in Seq(Message) /\ <<>> \in Seq(Message)
    BY ConcatProperties, EmptySeq DEF SessionTypeOK, WriteTypeOK
  <2>2. WriteTypeOK'
    <3>1. num_write_handlers_' \in [Session -> Nat]
      BY <1>2 DEF hanlde_write, SessionTypeOK, WriteTypeOK
    <3> QED BY <1>2, <2>1, <3>1 DEF hanlde_write, SessionTypeOK, WriteTypeOK
  <2>3. BuiltTypeOK' /\ ReadTypeOK' /\ CloseTypeOK'
    BY <1>2 DEF hanlde_write, builtVars, readVars, closeVars, SessionTypeOK,
                BuiltTypeOK, ReadTypeOK, CloseTypeOK
  <2> QED BY <1>1, <1>2, <2>2, <2>3 DEF hanlde_write, SessionTypeOK
<1>3. CASE hanlde_write_fails(s)
  <2>1. tasks' \in Queues /\ CloseTypeOK'
    BY <1>1, <1>3, HanldeCloseType DEF hanlde_write_fails
  <2>2. BuiltTypeOK' /\ ReadTypeOK' /\ WriteTypeOK'
    BY <1>3 DEF hanlde_write_fails, builtVars, readVars, SessionTypeOK, BuiltTypeOK,
                ReadTypeOK, WriteTypeOK
  <2> QED BY <2>1, <2>2 DEF SessionTypeOK
<1> QED BY <1>2, <1>3

LEMMA ReadType ==
  ASSUME IoTypeOK, SessionTypeOK, NEW s \in Session,
         handle_read_fails(s) \/ \E n \in 0 .. MaxRecv : handle_read(s, n)
  PROVE  tasks' \in Queues /\ SessionTypeOK'
<1>1. tasks \in Queues
  BY DEF IoTypeOK, Queues
<1>2. CASE handle_read_fails(s)
  <2>1. tasks' \in Queues /\ CloseTypeOK'
    BY <1>1, <1>2, HanldeCloseType DEF handle_read_fails
  <2>2. BuiltTypeOK' /\ ReadTypeOK' /\ WriteTypeOK'
    BY <1>2 DEF handle_read_fails, builtVars, writeVars, SessionTypeOK, BuiltTypeOK,
                ReadTypeOK, WriteTypeOK
  <2> QED BY <2>1, <2>2 DEF SessionTypeOK
<1>3. ASSUME NEW n \in 0 .. MaxRecv, handle_read(s, n)
      PROVE  tasks' \in Queues /\ SessionTypeOK'
  <2> DEFINE batch == [i \in 1 .. n |-> <<s, arrived[s] + i>>]
  <2>1. arrived[s] \in Nat /\ n \in Nat /\ messages_received_[s] \in Seq(Message)
    BY DEF SessionTypeOK, ReadTypeOK
  <2>2. messages_received_[s] \o batch \in Seq(Message)
    <3>1. batch \in Seq(Message)
      BY <2>1, MessageLists
    <3> QED BY <2>1, <3>1, ConcatProperties
  <2>3. /\ post(tasks, io_thread_[s], [op |-> "session.SendMessageListDirectly", s |-> s])
             \in Queues
        /\ post(tasks, io_thread_[s], [op |-> "session.PackMessageList", s |-> s])
             \in Queues
    BY <1>1, PostType, TaskTypes
  <2>4. tasks' \in Queues
    BY <1>1, <1>3, <2>3 DEF handle_read
  <2>5. ReadTypeOK'
    <3>1. messages_received_' = [messages_received_ EXCEPT ![s] = @ \o batch]
      BY <1>3 DEF handle_read
    <3>2. num_read_handlers_' \in [Session -> Nat]
      BY <1>3 DEF handle_read, SessionTypeOK, ReadTypeOK
    <3>3. arrived' \in [Session -> Nat]
      BY <1>3, <2>1 DEF handle_read, SessionTypeOK, ReadTypeOK
    <3> QED BY <2>2, <3>1, <3>2, <3>3 DEF SessionTypeOK, ReadTypeOK
  <2>6. BuiltTypeOK' /\ WriteTypeOK' /\ CloseTypeOK'
    BY <1>3 DEF handle_read, builtVars, writeVars, closeVars, SessionTypeOK,
                BuiltTypeOK, WriteTypeOK, CloseTypeOK
  <2> QED BY <2>4, <2>5, <2>6 DEF SessionTypeOK
<1> QED BY <1>2, <1>3

LEMMA ClosingType ==
  ASSUME IoTypeOK, SessionTypeOK, NEW s \in Session,
         \/ handle_safe_close(s) \/ close_timer_expires(s)
         \/ io_thread_[s] \in Threads /\ close_timeout(s)
  PROVE  tasks' \in Queues /\ SessionTypeOK'
<1>1. tasks \in Queues
  BY DEF IoTypeOK, Queues
<1>2. post(tasks, io_thread_[s], [op |-> "close_timeout", s |-> s]) \in Queues
  BY <1>1, PostType, TaskTypes
<1>3. tasks' \in Queues
  BY <1>1, <1>2, PopType DEF handle_safe_close, close_timer_expires, close_timeout, runs
<1>4. BuiltTypeOK' /\ ReadTypeOK' /\ WriteTypeOK'
  BY DEF handle_safe_close, close_timer_expires, close_timeout, builtVars, readVars,
         writeVars, SessionTypeOK, BuiltTypeOK, ReadTypeOK, WriteTypeOK
<1>5. CloseTypeOK'
  <2>1. CASE handle_safe_close(s)
    <3>1. safe_close_reads' \in [Session -> Nat] /\ UNCHANGED session_queue_
      BY <2>1 DEF handle_safe_close, SessionTypeOK, CloseTypeOK
    <3>2. socket_' \in [Session -> {"open", "shutdown", "closed"}]
      BY <2>1 DEF handle_safe_close, SessionTypeOK, CloseTypeOK
    <3>3. close_timer_' \in [Session -> BOOLEAN]
      BY <2>1 DEF handle_safe_close, SessionTypeOK, CloseTypeOK
    <3> QED BY <3>1, <3>2, <3>3 DEF SessionTypeOK, CloseTypeOK
  <2>2. CASE close_timer_expires(s)
    BY <2>2 DEF close_timer_expires, SessionTypeOK, CloseTypeOK
  <2>3. CASE close_timeout(s)
    BY <2>3 DEF close_timeout, SessionTypeOK, CloseTypeOK
  <2> QED BY <2>1, <2>2, <2>3
<1> QED BY <1>3, <1>4, <1>5 DEF SessionTypeOK

----------------------------------------------------------------------------
(* The manager.                                                            *)

LEMMA OnSessionConnectedType ==
  ASSUME ManagerTypeOK, NEW h \in Session, NEW tid \in Threads \cup {0}, NEW id \in Id,
         on_session_connected(h, tid, id)
  PROVE  ManagerTypeOK'
<1>1. next_' \in Id
  <2>1. next_ \in Nat /\ next_ < Modulus /\ Modulus \in Nat \ {0}
    BY TypesAssumption DEF ManagerTypeOK, Id
  <2>2. (next_ + 1) % Modulus \in 0 .. Modulus - 1
    BY <2>1
  <2> QED BY <2>2 DEF on_session_connected, Generator!get, ManagerTypeOK, Id
<1>2. pools_' \subseteq Id
  BY DEF on_session_connected, Generator!get, ManagerTypeOK
<1>3. session_handler_map_' \in [Id -> Session \cup {nullptr}]
  BY DEF on_session_connected, ManagerTypeOK
<1>4. thread_load_' \in [Threads -> Nat]
  <2>1. thread_load_' = [thread_load_ EXCEPT ![tid] = @ + 1]
    BY DEF on_session_connected
  <2>2. thread_load_ \in [Threads -> Nat]
    BY DEF ManagerTypeOK
  <2>3. CASE tid \in Threads
    <3>1. thread_load_[tid] + 1 \in Nat
      BY <2>2, <2>3
    <3> QED BY <2>1, <2>2, <3>1
  <2>4. CASE tid \notin Threads
    BY <2>1, <2>2, <2>4
  <2> QED BY <2>3, <2>4
<1>5. /\ handler_session_id_' \in [Session -> Id]
      /\ handler_thread_id_' \in [Session -> Threads \cup {0}]
  BY DEF on_session_connected, ManagerTypeOK
<1>6. lost_ids' \in [Id -> Session \cup {nullptr}]
  BY DEF on_session_connected, ManagerTypeOK
<1> QED BY <1>1, <1>2, <1>3, <1>4, <1>5, <1>6 DEF ManagerTypeOK

LEMMA OnSessionConnectedThrowsType ==
  ASSUME ManagerTypeOK, NEW h \in Session, NEW id \in Id, on_session_connected_throws(h, id)
  PROVE  ManagerTypeOK'
<1>1. next_' \in Id
  <2>1. next_ \in Nat /\ next_ < Modulus /\ Modulus \in Nat \ {0}
    BY TypesAssumption DEF ManagerTypeOK, Id
  <2>2. (next_ + 1) % Modulus \in 0 .. Modulus - 1
    BY <2>1
  <2> QED BY <2>2 DEF on_session_connected_throws, Generator!get, ManagerTypeOK, Id
<1>2. pools_' \subseteq Id
  BY DEF on_session_connected_throws, Generator!get, ManagerTypeOK
<1> QED BY <1>1, <1>2 DEF on_session_connected_throws, ManagerTypeOK

LEMMA OnSessionClosedType ==
  ASSUME ManagerTypeOK, NEW id \in Id, on_session_closed(id)
  PROVE  ManagerTypeOK'
<1>1. /\ next_' \in Id /\ pools_' \subseteq Id
      /\ lost_ids' \in [Id -> Session \cup {nullptr}]
  BY DEF on_session_closed, Generator!put, ManagerTypeOK
<1>2. CASE UNCHANGED <<session_handler_map_, thread_load_, handler_session_id_>>
  BY <1>1, <1>2 DEF on_session_closed, ManagerTypeOK
<1>3. CASE ~ UNCHANGED <<session_handler_map_, thread_load_, handler_session_id_>>
  <2> DEFINE h == session_handler_map_[id]
             tid == handler_thread_id_[h]
  <2>1. /\ handler_session_id_' = [handler_session_id_ EXCEPT ![h] = 0]
        /\ session_handler_map_' = [session_handler_map_ EXCEPT ![id] = nullptr]
        /\ thread_load_' = [thread_load_ EXCEPT ![tid] = IF @ > 0 THEN @ - 1 ELSE @]
        /\ UNCHANGED handler_thread_id_
    BY <1>3 DEF on_session_closed
  <2>2. 0 \in Id
    BY TypesAssumption DEF Id
  <2>3. /\ handler_session_id_' \in [Session -> Id]
        /\ session_handler_map_' \in [Id -> Session \cup {nullptr}]
    BY <2>1, <2>2 DEF ManagerTypeOK
  <2>4. thread_load_' \in [Threads -> Nat]
    <3>1. \A n \in Nat : (IF n > 0 THEN n - 1 ELSE n) \in Nat
      OBVIOUS
    <3> QED BY <2>1, <3>1 DEF ManagerTypeOK
  <2> QED BY <1>1, <2>1, <2>3, <2>4 DEF ManagerTypeOK
<1> QED BY <1>2, <1>3

----------------------------------------------------------------------------
(* Handlers.                                                               *)

LEMMA SendType ==
  ASSUME HandlerTypeOK, NEW h \in Session, NEW queues \in Queues, send(h, queues)
  PROVE  tasks' \in Queues /\ HandlerTypeOK'
<1>1. /\ post(queues, MainThread, [op |-> "handler.SendMessageListDirectly", s |-> h])
           \in Queues
      /\ post(queues, MainThread, [op |-> "handler.PackMessageList", s |-> h]) \in Queues
  BY PostType, TaskTypes
<1>2. tasks' \in Queues
  BY <1>1 DEF send
<1>3. Append(messages_to_be_sent_[h], <<h, sent[h] + 1>>) \in Seq(Message)
  <2>1. <<h, sent[h] + 1>> \in Message /\ messages_to_be_sent_[h] \in Seq(Message)
    BY DEF HandlerTypeOK, Message
  <2> QED BY <2>1, AppendProperties
<1>4. messages_to_be_sent_' \in [Session -> Seq(Message)]
  BY <1>3 DEF send, HandlerTypeOK
<1>5. sent' \in [Session -> Nat] /\ close_calls' \in [Session -> Nat]
  BY DEF send, HandlerTypeOK
<1> QED BY <1>2, <1>4, <1>5 DEF HandlerTypeOK

LEMMA PackedType ==
  ASSUME HandlerTypeOK, ManagerTypeOK, NEW h \in Session, NEW queues \in Queues
  PROVE  packed(queues, h) \in Queues
<1>1. messages_to_be_sent_[h] \in Seq(Message) /\ handler_session_id_[h] \in Id
  BY DEF HandlerTypeOK, ManagerTypeOK
<1>2. post(queues, handler_thread_id_[h],
           [op |-> "SendMessageListToSession", id |-> handler_session_id_[h],
            msgs |-> messages_to_be_sent_[h]]) \in Queues
  BY <1>1, PostType, TaskTypes
<1> QED BY <1>2 DEF packed

LEMMA HandlerCloseType ==
  ASSUME HandlerTypeOK, ManagerTypeOK, NEW h \in Session, NEW queues \in Queues,
         handler_close(h, queues)
  PROVE  tasks' \in Queues /\ HandlerTypeOK'
<1>1. tasks' \in Queues
  <2>1. packed(queues, h) \in Queues
    BY PackedType
  <2>2. [op |-> "CloseSession", id |-> handler_session_id_[h]] \in Task
    BY TaskTypes DEF ManagerTypeOK
  <2> QED BY <2>1, <2>2, PostType DEF handler_close
<1>2. HandlerTypeOK'
  BY EmptySeq DEF handler_close, HandlerTypeOK
<1> QED BY <1>1, <1>2

LEMMA HandlerTaskType ==
  ASSUME IoTypeOK, SessionTypeOK, HandlerTypeOK, ManagerTypeOK, NEW h \in Session,
         handler_PackMessageList(h) \/ handler_SendMessageListDirectly(h)
  PROVE  tasks' \in Queues /\ SessionTypeOK' /\ HandlerTypeOK'
<1>1. popped(MainThread) \in Queues
  BY MainThreadIsThread, PopType
  DEF handler_PackMessageList, handler_SendMessageListDirectly, runs
<1>2. tasks' \in Queues
  BY <1>1, PackedType DEF handler_PackMessageList, handler_SendMessageListDirectly
<1>3. HandlerTypeOK'
  BY EmptySeq
  DEF handler_PackMessageList, handler_SendMessageListDirectly, HandlerTypeOK
<1>4. WriteTypeOK'
  <2>1. CASE UNCHANGED writeVars
    BY <2>1 DEF writeVars, SessionTypeOK, WriteTypeOK
  <2>2. CASE /\ session_of(h) # nullptr
             /\ post_message_list(session_of(h), messages_to_be_sent_[h])
             /\ handler_SendMessageListDirectly(h)
    <3>1. messages_to_be_sent_[h] \in Seq(Message)
      BY DEF HandlerTypeOK
    <3> QED BY <2>2, <3>1, PostMessageListType DEF SessionTypeOK
  <2> QED
    BY <2>1, <2>2
    DEF handler_PackMessageList, handler_SendMessageListDirectly, sessionVars
<1>5. BuiltTypeOK' /\ ReadTypeOK' /\ CloseTypeOK'
  BY DEF handler_PackMessageList, handler_SendMessageListDirectly, sessionVars, builtVars,
         readVars, closeVars, SessionTypeOK, BuiltTypeOK, ReadTypeOK, CloseTypeOK
<1> QED BY <1>2, <1>3, <1>4, <1>5 DEF SessionTypeOK

LEMMA SendMessageListToSessionType ==
  ASSUME IoTypeOK, SessionTypeOK, HandlerTypeOK, NEW t \in Threads, NEW id \in Id,
         NEW msgs \in Seq(Message), SendMessageListToSession(t, id, msgs)
  PROVE  tasks' \in Queues /\ SessionTypeOK' /\ HandlerTypeOK'
<1>1. tasks' \in Queues
  BY PopType DEF SendMessageListToSession, runs
<1>2. WriteTypeOK'
  BY PostMessageListType
  DEF SendMessageListToSession, writeVars, SessionTypeOK, WriteTypeOK
<1>3. /\ BuiltTypeOK' /\ ReadTypeOK' /\ CloseTypeOK'
      /\ HandlerTypeOK'
  BY DEF SendMessageListToSession, builtVars, readVars, closeVars, handlerVars,
         SessionTypeOK, BuiltTypeOK, ReadTypeOK, CloseTypeOK, HandlerTypeOK
<1> QED BY <1>1, <1>2, <1>3 DEF SessionTypeOK

LEMMA CloseSessionType ==
  ASSUME IoTypeOK, SessionTypeOK, HandlerTypeOK, NEW t \in Threads, NEW id \in Id,
         CloseSession(t, id)
  PROVE  tasks' \in Queues /\ SessionTypeOK' /\ HandlerTypeOK'
<1> DEFINE s == session_queue_[t][id]
<1>1. popped(t) \in Queues
  BY PopType DEF CloseSession, runs
<1>2. HandlerTypeOK'
  BY DEF CloseSession, handlerVars, HandlerTypeOK
<1>3. CASE s = nullptr
  BY <1>1, <1>2, <1>3
  DEF CloseSession, sessionVars, builtVars, readVars, writeVars, closeVars,
      SessionTypeOK, BuiltTypeOK, ReadTypeOK, WriteTypeOK, CloseTypeOK
<1>4. CASE s # nullptr
  <2>1. s \in Session
    BY <1>4 DEF SessionTypeOK, CloseTypeOK
  <2>2. close(s, popped(t))
    BY <1>4 DEF CloseSession
  <2> HIDE DEF s
  <2> QED BY <1>1, <1>2, <2>1, <2>2, CloseType
<1> QED BY <1>3, <1>4

----------------------------------------------------------------------------
(* The server.                                                             *)

LEMMA AcceptNextType ==
  ASSUME ServerTypeOK, NEW load, accept_next(load)
  PROVE  /\ io_thread_' \in [Session -> Threads \cup {0}]
         /\ keep_alive_time_' \in [Session -> BOOLEAN]
         /\ accepting' \in Session \cup {nullptr}
<1>1. get_min_load_thread(load) \in Threads
  BY ThreadIsChosen
<1>2. KeepAlive \in BOOLEAN
  BY KeepAliveAssumption
<1> QED
  BY <1>1, <1>2
  DEF accept_next, unbuilt, construct, builtVars, ServerTypeOK, SessionTypeOK, BuiltTypeOK

\* on_session_connected as called by server and client.
LEMMA ConnectedType ==
  ASSUME IoTypeOK, ManagerTypeOK, NEW s \in Session, NEW t \in Threads \cup {0},
         connected(s, t)
  PROVE  tasks' \in Queues /\ ManagerTypeOK'
<1>1. PICK id \in Id :
        /\ on_session_connected(s, t, id)
        /\ tasks' = post(tasks, t, [op |-> "init", s |-> s, id |-> id])
  BY DEF connected
<1>2. tasks' \in Queues
  BY <1>1, PostType, TaskTypes DEF IoTypeOK, Queues
<1>3. ManagerTypeOK'
  BY <1>1, OnSessionConnectedType
<1> QED BY <1>2, <1>3

\* What the conjuncts of ServerTypeOK have to be shown for.
LEMMA TypeParts ==
  ServerTypeOK' <=>
    /\ tasks' \in Queues /\ SessionTypeOK' /\ ManagerTypeOK' /\ HandlerTypeOK'
    /\ accepting' \in Session \cup {nullptr}
    /\ delivered' \in [Session -> Seq(Message)]
    /\ terminated' \in BOOLEAN
BY DEF ServerTypeOK, IoTypeOK, Queues

LEMMA Unchanged ==
  ASSUME ServerTypeOK
  PROVE  /\ UNCHANGED tasks => tasks' \in Queues
         /\ UNCHANGED sessionVars => SessionTypeOK'
         /\ UNCHANGED managerVars => ManagerTypeOK'
         /\ UNCHANGED handlerVars => HandlerTypeOK'
         /\ UNCHANGED accepting => accepting' \in Session \cup {nullptr}
         /\ UNCHANGED delivered => delivered' \in [Session -> Seq(Message)]
         /\ UNCHANGED terminated => terminated' \in BOOLEAN
<1>1. UNCHANGED sessionVars => SessionTypeOK'
  BY DEF ServerTypeOK, sessionVars, builtVars, readVars, writeVars, closeVars,
         SessionTypeOK, BuiltTypeOK, ReadTypeOK, WriteTypeOK, CloseTypeOK
<1>2. UNCHANGED managerVars => ManagerTypeOK'
  BY DEF ServerTypeOK, managerVars, ManagerTypeOK
<1>3. UNCHANGED handlerVars => HandlerTypeOK'
  BY DEF ServerTypeOK, handlerVars, HandlerTypeOK
<1> QED BY <1>1, <1>2, <1>3 DEF ServerTypeOK, IoTypeOK, Queues

LEMMA ServerVarsUnchanged ==
  UNCHANGED serverVars => UNCHANGED accepting /\ UNCHANGED delivered /\ UNCHANGED terminated
BY DEF serverVars

LEMMA SessionClosedType ==
  ASSUME ServerTypeOK, NEW id \in Id, session_closed(id)
  PROVE  ServerTypeOK'
<1> DEFINE h == session_handler_map_[id]
<1>1. popped(MainThread) \in Queues
  BY MainThreadIsThread, PopType DEF session_closed, runs, ServerTypeOK
<1>2. ManagerTypeOK'
  BY OnSessionClosedType DEF session_closed, ServerTypeOK
<1>3. h \in Session \cup {nullptr}
  BY DEF ServerTypeOK, ManagerTypeOK
<1>4. tasks' \in Queues /\ HandlerTypeOK'
  <2> HIDE DEF h
  <2>1. \/ tasks' = popped(MainThread) /\ UNCHANGED handlerVars
        \/ h # nullptr /\ send(h, popped(MainThread))
        \/ h # nullptr /\ handler_close(h, popped(MainThread))
    BY DEF session_closed, h
  <2>2. CASE tasks' = popped(MainThread) /\ UNCHANGED handlerVars
    BY <1>1, <2>2, Unchanged
  <2>3. CASE h # nullptr /\ send(h, popped(MainThread))
    BY <1>1, <1>3, <2>3, SendType DEF ServerTypeOK
  <2>4. CASE h # nullptr /\ handler_close(h, popped(MainThread))
    BY <1>1, <1>3, <2>4, HandlerCloseType DEF ServerTypeOK
  <2> QED BY <2>1, <2>2, <2>3, <2>4
<1> QED
  BY <1>2, <1>4, TypeParts, Unchanged, ServerVarsUnchanged DEF session_closed

\* Messages that a session has received move to its handler.
LEMMA InboundType ==
  ASSUME ServerTypeOK, NEW s \in Session,
         \/ io_thread_[s] \in Threads /\ session_PackMessageList(s)
         \/ session_SendMessageListDirectly(s)
  PROVE  ServerTypeOK'
<1>1. /\ messages_received_[s] \in Seq(Message) /\ session_id_[s] \in Id
      /\ <<>> \in Seq(Message)
  BY EmptySeq DEF ServerTypeOK, SessionTypeOK, BuiltTypeOK, ReadTypeOK
<1>2. IoTypeOK
  BY DEF ServerTypeOK
<1>3. tasks' \in Queues
  <2>1. CASE io_thread_[s] \in Threads /\ session_PackMessageList(s)
    <3>1. popped(io_thread_[s]) \in Queues
      BY <1>2, <2>1, PopType DEF session_PackMessageList, runs
    <3>2. post(popped(io_thread_[s]), MainThread,
               [op |-> "SendMessageListToHandler", id |-> session_id_[s],
                msgs |-> messages_received_[s]]) \in Queues
      BY <1>1, <3>1, PostType, TaskTypes
    <3> QED BY <2>1, <3>1, <3>2 DEF session_PackMessageList
  <2>2. CASE session_SendMessageListDirectly(s)
    BY <1>2, <2>2, MainThreadIsThread, PopType DEF session_SendMessageListDirectly, runs
  <2> QED BY <2>1, <2>2
<1>4. delivered' \in [Session -> Seq(Message)]
  <2>1. CASE UNCHANGED delivered
    BY <2>1, Unchanged
  <2>2. CASE /\ session_SendMessageListDirectly(s)
             /\ session_handler_map_[session_id_[s]] # nullptr
    <3> DEFINE h == session_handler_map_[session_id_[s]]
    <3>1. h \in Session
      BY <1>1, <2>2 DEF ServerTypeOK, ManagerTypeOK
    <3>2. delivered[h] \o messages_received_[s] \in Seq(Message)
      BY <1>1, <3>1, ConcatProperties DEF ServerTypeOK
    <3> QED
      BY <2>2, <3>2 DEF session_SendMessageListDirectly, ServerTypeOK
  <2> QED
    BY <2>1, <2>2 DEF session_PackMessageList, session_SendMessageListDirectly, serverVars
<1>5. SessionTypeOK'
  <2>1. ReadTypeOK'
    BY <1>1 DEF session_PackMessageList, session_SendMessageListDirectly,
                ServerTypeOK, SessionTypeOK, ReadTypeOK
  <2>2. BuiltTypeOK' /\ WriteTypeOK' /\ CloseTypeOK'
    BY DEF session_PackMessageList, session_SendMessageListDirectly, builtVars, writeVars,
           closeVars, ServerTypeOK, SessionTypeOK, BuiltTypeOK, WriteTypeOK, CloseTypeOK
  <2> QED BY <2>1, <2>2 DEF SessionTypeOK
<1>6. /\ UNCHANGED managerVars /\ UNCHANGED handlerVars
      /\ UNCHANGED accepting /\ UNCHANGED terminated
  BY DEF session_PackMessageList, session_SendMessageListDirectly, serverVars
<1> QED BY <1>3, <1>4, <1>5, <1>6, TypeParts, Unchanged

LEMMA SendMessageListToHandlerType ==
  ASSUME ServerTypeOK, NEW id \in Id, NEW msgs \in Seq(Message),
         SendMessageListToHandler(id, msgs)
  PROVE  ServerTypeOK'
<1> DEFINE h == session_handler_map_[id]
<1>1. tasks' \in Queues
  BY MainThreadIsThread, PopType DEF SendMessageListToHandler, runs, ServerTypeOK
<1>2. delivered' \in [Session -> Seq(Message)]
  <2>1. CASE h = nullptr
    BY <2>1, Unchanged DEF SendMessageListToHandler
  <2>2. CASE h # nullptr
    <3>1. h \in Session
      BY <2>2 DEF ServerTypeOK, ManagerTypeOK
    <3>2. delivered[h] \o msgs \in Seq(Message)
      BY <3>1, ConcatProperties DEF ServerTypeOK
    <3> QED BY <2>2, <3>2 DEF SendMessageListToHandler, ServerTypeOK
  <2> QED BY <2>1, <2>2
<1> QED BY <1>1, <1>2, TypeParts, Unchanged DEF SendMessageListToHandler

LEMMA ConnectionType ==
  ASSUME ServerTypeOK, NEW s \in Session,
         handle_accept(s) \/ handle_accept_fails(s) \/ connect(s)
  PROVE  ServerTypeOK'
<1>1. CASE handle_accept_fails(s)
  BY <1>1, TypeParts, Unchanged DEF handle_accept_fails
<1>2. CASE handle_accept(s)
  <2>1. io_thread_[s] \in Threads \cup {0}
    BY DEF ServerTypeOK, SessionTypeOK, BuiltTypeOK
  <2>2. tasks' \in Queues /\ ManagerTypeOK'
    BY <1>2, <2>1, ConnectedType DEF handle_accept, ServerTypeOK
  <2>3. /\ io_thread_' \in [Session -> Threads \cup {0}]
        /\ keep_alive_time_' \in [Session -> BOOLEAN]
        /\ accepting' \in Session \cup {nullptr}
    BY <1>2, AcceptNextType DEF handle_accept
  <2>4. SessionTypeOK'
    BY <1>2, <2>3
    DEF handle_accept, sessionButBuiltVars, readVars, writeVars, closeVars, ServerTypeOK,
        SessionTypeOK, BuiltTypeOK, ReadTypeOK, WriteTypeOK, CloseTypeOK
  <2> QED
    BY <1>2, <2>2, <2>3, <2>4, TypeParts, Unchanged DEF handle_accept
<1>3. CASE connect(s)
  <2> DEFINE t == get_min_load_thread(thread_load_)
  <2>1. t \in Threads
    BY ThreadIsChosen
  <2> HIDE DEF t
  <2>2. construct(s, t, FALSE) /\ connected(s, t)
    BY <1>3 DEF connect, t
  <2>3. tasks' \in Queues /\ ManagerTypeOK'
    BY <2>1, <2>2, ConnectedType DEF ServerTypeOK
  <2>4. BuiltTypeOK'
    BY <1>3, <2>1, <2>2
    DEF connect, construct, sessionButBuiltVars, ServerTypeOK, SessionTypeOK, BuiltTypeOK
  <2>5. SessionTypeOK'
    BY <1>3, <2>4
    DEF connect, sessionButBuiltVars, readVars, writeVars, closeVars, ServerTypeOK,
        SessionTypeOK, ReadTypeOK, WriteTypeOK, CloseTypeOK
  <2> QED
    BY <1>3, <2>3, <2>5, TypeParts, Unchanged, ServerVarsUnchanged DEF connect
<1> QED BY <1>1, <1>2, <1>3

\* A connection that fails after its id has been taken.
LEMMA ThrownType ==
  ASSUME ServerTypeOK, NEW s \in Session, handle_accept_throws(s) \/ connect_throws(s)
  PROVE  ServerTypeOK'
<1>1. connected_throws(s)
  BY DEF handle_accept_throws, connect_throws
<1>2. ManagerTypeOK' /\ terminated' \in BOOLEAN
  BY <1>1, OnSessionConnectedThrowsType DEF connected_throws, ServerTypeOK
<1>3. /\ UNCHANGED tasks /\ UNCHANGED handlerVars /\ UNCHANGED delivered
      /\ UNCHANGED sessionButBuiltVars
  BY <1>1 DEF connected_throws
<1>4. accepting' \in Session \cup {nullptr}
  BY DEF handle_accept_throws, connect_throws, ServerTypeOK
<1>5. BuiltTypeOK'
  <2>1. session_id_' \in [Session -> Id] /\ closed_' \in [Session -> BOOLEAN]
    BY <1>3 DEF sessionButBuiltVars, ServerTypeOK, SessionTypeOK, BuiltTypeOK
  <2>2. CASE handle_accept_throws(s)
    BY <2>1, <2>2
    DEF handle_accept_throws, builtVars, ServerTypeOK, SessionTypeOK, BuiltTypeOK
  <2>3. CASE connect_throws(s)
    <3> DEFINE t == get_min_load_thread(thread_load_)
    <3>1. t \in Threads
      BY ThreadIsChosen
    <3> HIDE DEF t
    <3>2. construct(s, t, FALSE)
      BY <2>3 DEF connect_throws, t
    <3> QED BY <2>1, <3>1, <3>2 DEF construct, ServerTypeOK, SessionTypeOK, BuiltTypeOK
  <2> QED BY <2>2, <2>3
<1>6. SessionTypeOK'
  BY <1>3, <1>5
  DEF sessionButBuiltVars, readVars, writeVars, closeVars, ServerTypeOK, SessionTypeOK,
      ReadTypeOK, WriteTypeOK, CloseTypeOK
<1> QED BY <1>2, <1>3, <1>4, <1>6, TypeParts, Unchanged

LEMMA KeepAliveType ==
  ASSUME ServerTypeOK, NEW t \in Threads, check_keep_alive(t)
  PROVE  ServerTypeOK'
<1>0. PICK expired \in SUBSET Session : \E order \in SetToSeqs(expired) :
        tasks' = [tasks EXCEPT
          ![t] = @ \o [i \in DOMAIN order |-> [op |-> "close", s |-> order[i]]]]
  BY DEF check_keep_alive
<1>1. PICK order \in SetToSeqs(expired) :
        tasks' = [tasks EXCEPT
          ![t] = @ \o [i \in DOMAIN order |-> [op |-> "close", s |-> order[i]]]]
  BY <1>0
<1> DEFINE closes == [i \in DOMAIN order |-> [op |-> "close", s |-> order[i]]]
<1>2. Cardinality(expired) \in Nat
  BY FS_Subset, FS_CardinalityType, TypesAssumption
<1>3. DOMAIN order = 1 .. Cardinality(expired) /\ \A i \in DOMAIN order : order[i] \in Session
  BY DEF SetToSeqs
<1>4. closes \in Seq(Task)
  <2>1. \A i \in 1 .. Cardinality(expired) : [op |-> "close", s |-> order[i]] \in Task
    BY <1>3, TaskTypes
  <2> QED BY <1>2, <1>3, <2>1
<1>5. tasks' \in Queues
  <2>1. tasks \in [Threads -> Seq(Task)]
    BY DEF ServerTypeOK, IoTypeOK
  <2>2. tasks[t] \o closes \in Seq(Task)
    BY <1>4, <2>1, ConcatProperties
  <2> QED BY <1>1, <2>1, <2>2 DEF Queues
<1> QED
  BY <1>5, TypeParts, Unchanged, ServerVarsUnchanged DEF check_keep_alive

LEMMA EnvironmentType == ASSUME ServerTypeOK, Environment PROVE ServerTypeOK'
<1>1. tasks \in Queues
  BY DEF ServerTypeOK, IoTypeOK, Queues
<1>3. ASSUME NEW h \in Session, app_send(h) PROVE ServerTypeOK'
  <2>1. tasks' \in Queues /\ HandlerTypeOK'
    BY <1>1, <1>3, SendType DEF app_send, ServerTypeOK
  <2> QED BY <1>3, <2>1, TypeParts, Unchanged, ServerVarsUnchanged DEF app_send
<1>4. ASSUME NEW h \in Session, app_close(h) PROVE ServerTypeOK'
  <2>1. tasks' \in Queues /\ HandlerTypeOK'
    BY <1>1, <1>4, HandlerCloseType DEF app_close, ServerTypeOK
  <2> QED BY <1>4, <2>1, TypeParts, Unchanged, ServerVarsUnchanged DEF app_close
<1> QED
  BY <1>3, <1>4, ConnectionType, ThrownType, KeepAliveType DEF Environment

LEMMA MainTaskType == ASSUME ServerTypeOK, MainTask PROVE ServerTypeOK'
<1> DEFINE task == Head(tasks[MainThread])
<1>1. task \in Task
  BY MainThreadIsThread, PopType DEF MainTask, ServerTypeOK
<1>2. ASSUME NEW h \in Session,
             handler_PackMessageList(h) \/ handler_SendMessageListDirectly(h),
             UNCHANGED <<managerVars, serverVars>>
      PROVE  ServerTypeOK'
  <2>1. tasks' \in Queues /\ SessionTypeOK' /\ HandlerTypeOK'
    BY <1>2, HandlerTaskType DEF ServerTypeOK
  <2> QED BY <1>2, <2>1, TypeParts, Unchanged, ServerVarsUnchanged
<1>3. CASE task.op = "on_session_closed" /\ session_closed(task.id)
  BY <1>1, <1>3, TaskCarries, SessionClosedType
<1>4. CASE task.op = "SendMessageListToHandler" /\ SendMessageListToHandler(task.id, task.msgs)
  BY <1>1, <1>4, TaskCarries, SendMessageListToHandlerType
<1> QED
  BY <1>2, <1>3, <1>4, InboundType DEF MainTask

LEMMA SessionTaskType ==
  ASSUME ServerTypeOK, NEW t \in Threads, SessionTask(t)
  PROVE  ServerTypeOK'
<1> DEFINE task == Head(tasks[t])
<1>1. task \in Task
  BY PopType DEF SessionTask, ServerTypeOK
<1>2. ASSUME NEW s \in Session, io_thread_[s] = t, session_PackMessageList(s)
      PROVE  ServerTypeOK'
  BY <1>2, InboundType
<1>3. ASSUME NEW s \in Session, io_thread_[s] = t, keep_alive_close(s)
      PROVE  ServerTypeOK'
  <2>1. popped(t) \in Queues
    BY <1>3, PopType DEF keep_alive_close, runs, ServerTypeOK
  <2>2. tasks' \in Queues /\ SessionTypeOK'
    BY <1>3, <2>1, CloseType DEF keep_alive_close, ServerTypeOK
  <2> QED
    BY <1>3, <2>2, TypeParts, Unchanged, ServerVarsUnchanged DEF keep_alive_close
<1>4. CASE terminates
  BY <1>4, TypeParts, Unchanged DEF terminates
<1>5. ASSUME NEW s \in Session, io_thread_[s] = t,
             \/ task.op = "init" /\ init(s, task.id)
             \/ close_timeout(s),
             UNCHANGED <<managerVars, handlerVars, serverVars>>
      PROVE  ServerTypeOK'
  <2>1. tasks' \in Queues /\ SessionTypeOK'
    BY <1>1, <1>5, TaskCarries, InitType, ClosingType DEF ServerTypeOK
  <2> QED BY <1>5, <2>1, TypeParts, Unchanged, ServerVarsUnchanged
<1>6. ASSUME \/ /\ task.op = "SendMessageListToSession"
                /\ SendMessageListToSession(t, task.id, task.msgs)
             \/ task.op = "CloseSession" /\ CloseSession(t, task.id),
             UNCHANGED <<managerVars, serverVars>>
      PROVE  ServerTypeOK'
  <2>1. tasks' \in Queues /\ SessionTypeOK' /\ HandlerTypeOK'
    BY <1>1, <1>6, TaskCarries, SendMessageListToSessionType, CloseSessionType
    DEF ServerTypeOK
  <2> QED BY <1>6, <2>1, TypeParts, Unchanged, ServerVarsUnchanged
<1> QED
  BY <1>2, <1>3, <1>4, <1>5, <1>6 DEF SessionTask

LEMMA CompletionType ==
  ASSUME ServerTypeOK, NEW s \in Session,
         Written(s) \/ Read(s) \/ Drained(s) \/ CloseTimer(s)
  PROVE  ServerTypeOK'
<1>1. tasks' \in Queues /\ SessionTypeOK'
  BY WrittenType, ReadType, ClosingType
  DEF Written, Read, Drained, CloseTimer, ServerTypeOK
<1> QED
  BY <1>1, TypeParts, Unchanged, ServerVarsUnchanged DEF Written, Read, Drained, CloseTimer

LEMMA InitialType == Init => ServerTypeOK
<1> SUFFICES ASSUME Init PROVE ServerTypeOK
  OBVIOUS
<1>1. IoTypeOK
  BY EmptySeq DEF Init, IoTypeOK
<1>2. 0 \in Id /\ 1 \in Id
  BY TypesAssumption DEF Id
<1>3. SessionTypeOK
  <2>1. BuiltTypeOK
    BY <1>2, ThreadIsChosen, KeepAliveAssumption DEF Init, SessionInit, BuiltTypeOK
  <2>2. ReadTypeOK /\ WriteTypeOK /\ CloseTypeOK
    BY EmptySeq DEF Init, SessionInit, ReadTypeOK, WriteTypeOK, CloseTypeOK
  <2> QED BY <2>1, <2>2 DEF SessionTypeOK
<1>4. ManagerTypeOK
  BY <1>2 DEF Init, ManagerInit, Generator!Init, ManagerTypeOK
<1>5. HandlerTypeOK
  BY EmptySeq DEF Init, HandlerInit, HandlerTypeOK
<1>6. delivered \in [Session -> Seq(Message)]
  BY EmptySeq DEF Init
<1>7. accepting \in Session \cup {nullptr} /\ terminated \in BOOLEAN
  BY DEF Init
<1> QED
  BY <1>1, <1>3, <1>4, <1>5, <1>6, <1>7 DEF ServerTypeOK

LEMMA ServerTypeStep == ASSUME ServerTypeOK, [Next]_vars PROVE ServerTypeOK'
<1>1. CASE UNCHANGED vars
  BY <1>1, TypeParts, Unchanged, ServerVarsUnchanged DEF vars
<1>2. CASE Next
  BY <1>2, MainTaskType, SessionTaskType, CompletionType, EnvironmentType DEF Next
<1> QED BY <1>1, <1>2

----------------------------------------------------------------------------
(* Next, action by action, with what is known of each one's parameters.    *)

alone == UNCHANGED <<managerVars, serverVars>>
sessionAlone == UNCHANGED <<managerVars, handlerVars, serverVars>>

MainStep ==
  \/ \E h \in Session : handler_PackMessageList(h) /\ alone
  \/ \E h \in Session : handler_SendMessageListDirectly(h) /\ alone
  \/ \E s \in Session : session_SendMessageListDirectly(s)
  \/ \E id \in Id : session_closed(id)
  \/ \E id \in Id, msgs \in Seq(Message) : SendMessageListToHandler(id, msgs)

ThreadStep ==
  \/ \E s \in Session :
       /\ io_thread_[s] \in Threads
       /\ \/ session_PackMessageList(s)
          \/ keep_alive_close(s)
          \/ (\E id \in Id : init(s, id)) /\ sessionAlone
          \/ close_timeout(s) /\ sessionAlone
  \/ \E t \in Threads, id \in Id, msgs \in Seq(Message) :
       SendMessageListToSession(t, id, msgs) /\ alone
  \/ \E t \in Threads, id \in Id : CloseSession(t, id) /\ alone

CompletionStep ==
  \E s \in Session :
    /\ \/ hanlde_write(s) \/ hanlde_write_fails(s)
       \/ handle_read_fails(s) \/ \E n \in Nat : handle_read(s, n)
       \/ handle_safe_close(s) \/ close_timer_expires(s)
    /\ sessionAlone

EnvironmentStep ==
  \/ \E s \in Session : handle_accept(s) \/ handle_accept_fails(s) \/ connect(s)
  \/ \E s \in Session : handle_accept_throws(s) \/ connect_throws(s)
  \/ \E h \in Session : app_send(h) \/ app_close(h)
  \/ \E t \in Threads : check_keep_alive(t)

LEMMA Steps ==
  ASSUME ServerTypeOK, Next
  PROVE  MainStep \/ ThreadStep \/ CompletionStep \/ EnvironmentStep \/ terminates
<1>1. ASSUME MainTask PROVE MainStep
  <2>1. Head(tasks[MainThread]) \in Task
    BY <1>1, MainThreadIsThread, PopType DEF MainTask, ServerTypeOK
  <2> QED BY <1>1, <2>1, TaskCarries DEF MainTask, MainStep, alone
<1>2. ASSUME NEW t \in Threads, SessionTask(t) PROVE ThreadStep \/ terminates
  <2>1. Head(tasks[t]) \in Task
    BY <1>2, PopType DEF SessionTask, ServerTypeOK
  <2> QED BY <1>2, <2>1, TaskCarries DEF SessionTask, ThreadStep, alone, sessionAlone
<1>3. ASSUME NEW s \in Session, Written(s) \/ Read(s) \/ Drained(s) \/ CloseTimer(s)
      PROVE  CompletionStep
  <2>1. \A n \in 0 .. MaxRecv : n \in Nat
    OBVIOUS
  <2> QED
    BY <1>3, <2>1 DEF Written, Read, Drained, CloseTimer, CompletionStep, sessionAlone
<1>4. ASSUME Environment PROVE EnvironmentStep
  BY <1>4 DEF Environment, EnvironmentStep
<1> QED BY <1>1, <1>2, <1>3, <1>4 DEF Next

----------------------------------------------------------------------------
\* Every variable of the running server keeps its type whatever the threads,
\* the peers and the application do: tasks carry ids and message lists of
\* the right kind to the functions they are bound to, counters of handlers
\* are decremented only when they count something, and the index of the
\* thread that gets the next session is in range
\* (tcp_session.cpp:201-283, io_service_thread_manager.cpp:88-177).
THEOREM ServerTypeCorrect == Spec => []ServerTypeOK
BY InitialType, ServerTypeStep, PTL DEF Spec

----------------------------------------------------------------------------
(***************************************************************************)
(* 3. Ids.                                                                 *)
(*                                                                         *)
(* However ids are reused, whatever is posted by id and however late it    *)
(* arrives, an id in the manager's map belongs to one session and one      *)
(* thread, and the server is a caller that the manager's own specification *)
(* allows.                                                                 *)
(*                                                                         *)
(* A connection is carried by one of three things in turn: the posted init *)
(* of its session, its entry in a session_queue_, the posted               *)
(* on_session_closed.  The two tasks are the `tokens'; the invariant says  *)
(* what a token names, that none waits twice, and that every id in use has *)
(* its token or its entry.                                                 *)
(***************************************************************************)

initTask(s, id) == [op |-> "init", s |-> s, id |-> id]
closedTask(id) == [op |-> "on_session_closed", id |-> id]

Token(task) == task.op \in {"init", "on_session_closed"}

waits(queues, t, task) == \E i \in DOMAIN queues[t] : queues[t][i] = task

TokensOnce(queues) ==
  \A t \in Threads : \A i, j \in DOMAIN queues[t] :
    Token(queues[t][i]) /\ queues[t][i] = queues[t][j] => i = j

\* A session that has not been initialised has done nothing yet.
Untouched ==
  \A s \in Session : session_id_[s] = 0 =>
    /\ closed_[s]
    /\ num_read_handlers_[s] = 0 /\ num_write_handlers_[s] = 0
    /\ buffer_sending_[s] = <<>> /\ buffer_to_be_sent_[s] = <<>> /\ wire[s] = <<>>

\* A session is connected once, on the thread it was built for, and keeps
\* the id it was initialised with.
Binding ==
  \A s \in Session :
    /\ io_thread_[s] = 0 \/ accepting = s => handler_thread_id_[s] = 0
    /\ accepting = s => io_thread_[s] # 0
    /\ handler_thread_id_[s] = 0 => session_id_[s] = 0 /\ handler_session_id_[s] = 0
    /\ handler_thread_id_[s] # 0 => io_thread_[s] = handler_thread_id_[s]
    /\ session_id_[s] # 0 => handler_session_id_[s] \in {0, session_id_[s]}

\* A connection that failed had its session built; neither is used again.
LostNames ==
  \A s \in Session, id \in Id : lost_ids[id] = s =>
    io_thread_[s] # 0 /\ accepting # s /\ handler_thread_id_[s] = 0

\* A posted init is for the thread of a handler that is connected under its
\* id and whose session is yet to be initialised.
InitNames ==
  \A t \in Threads, s \in Session, id \in Id :
    waits(tasks, t, initTask(s, id)) =>
      /\ id # 0 /\ session_id_[s] = 0
      /\ handler_session_id_[s] = id /\ handler_thread_id_[s] = t

\* A posted on_session_closed names an id in the map whose session has left
\* the session_queue_ of its thread.
ClosedNames ==
  \A t \in Threads, id \in Id :
    waits(tasks, t, closedTask(id)) =>
      LET s == session_handler_map_[id]
      IN  /\ t = MainThread /\ id # 0
          /\ s # nullptr /\ session_id_[s] = id
          /\ session_queue_[io_thread_[s]][id] = nullptr

\* A handler that answers to an id has one of the three.
Carried ==
  \A s \in Session :
    LET t == handler_thread_id_[s]
        id == handler_session_id_[s]
    IN  id # 0 =>
          IF session_id_[s] = 0 THEN waits(tasks, t, initTask(s, id))
          ELSE session_queue_[t][id] = s \/ waits(tasks, MainThread, closedTask(id))

IdsInv ==
  /\ ServerTypeOK /\ IInv
  /\ Untouched /\ Binding /\ LostNames
  /\ TokensOnce(tasks) /\ InitNames /\ ClosedNames /\ Carried
  /\ IdsNameOnePair

----------------------------------------------------------------------------
(* Queues and tokens.                                                      *)

LEMMA PostWaits ==
  ASSUME NEW queues \in Queues, NEW t \in Threads, NEW task,
         NEW u \in Threads, NEW x
  PROVE  waits(post(queues, t, task), u, x) <=> waits(queues, u, x) \/ (u = t /\ x = task)
<1>1. CASE u # t
  BY <1>1 DEF post, Queues, waits
<1>2. CASE u = t
  <2> DEFINE q == queues[t]
             n == Len(q)
  <2>1. q \in Seq(Task) /\ n \in Nat /\ DOMAIN q = 1 .. n
    BY LenProperties DEF Queues
  <2>2. post(queues, t, task)[u] = Append(q, task)
    BY <1>2 DEF post, Queues
  <2>3. /\ DOMAIN Append(q, task) = 1 .. n + 1
        /\ \A i \in 1 .. n : Append(q, task)[i] = q[i]
        /\ Append(q, task)[n + 1] = task
    BY <2>1
  <2> HIDE DEF q, n
  <2>4. waits(post(queues, t, task), u, x) <=> \E i \in 1 .. n + 1 : Append(q, task)[i] = x
    BY <2>2, <2>3 DEF waits
  <2>5. waits(queues, u, x) <=> \E i \in 1 .. n : q[i] = x
    BY <1>2, <2>1 DEF waits, q
  <2>6. n + 1 \in 1 .. n + 1 /\ 1 .. n \subseteq 1 .. n + 1
        /\ \A i \in 1 .. n + 1 : i \in 1 .. n \/ i = n + 1
    BY <2>1
  <2> QED BY <1>2, <2>3, <2>4, <2>5, <2>6
<1> QED BY <1>1, <1>2

LEMMA PostOnce ==
  ASSUME NEW queues \in Queues, NEW t \in Threads, NEW task,
         TokensOnce(queues), Token(task) => ~ waits(queues, t, task)
  PROVE  TokensOnce(post(queues, t, task))
<1> SUFFICES ASSUME NEW u \in Threads, NEW i \in DOMAIN post(queues, t, task)[u],
                    NEW j \in DOMAIN post(queues, t, task)[u],
                    Token(post(queues, t, task)[u][i]),
                    post(queues, t, task)[u][i] = post(queues, t, task)[u][j]
             PROVE  i = j
  BY DEF TokensOnce
<1>1. CASE u # t
  BY <1>1 DEF post, Queues, TokensOnce
<1>2. CASE u = t
  <2> DEFINE q == queues[t]
             n == Len(q)
  <2>1. q \in Seq(Task) /\ n \in Nat /\ DOMAIN q = 1 .. n
    BY LenProperties DEF Queues
  <2>2. post(queues, t, task)[u] = Append(q, task)
    BY <1>2 DEF post, Queues
  <2>3. /\ DOMAIN Append(q, task) = 1 .. n + 1
        /\ \A k \in 1 .. n : Append(q, task)[k] = q[k]
        /\ Append(q, task)[n + 1] = task
    BY <2>1
  <2>4. Token(task) => \A k \in 1 .. n : q[k] # task
    BY <2>1 DEF waits
  <2>5. \A k, l \in 1 .. n : Token(q[k]) /\ q[k] = q[l] => k = l
    BY <2>1 DEF TokensOnce
  <2> HIDE DEF q, n
  <2>6. /\ i \in 1 .. n \/ i = n + 1
        /\ j \in 1 .. n \/ j = n + 1
    BY <2>1, <2>2, <2>3
  <2> QED BY <2>2, <2>3, <2>4, <2>5, <2>6
<1> QED BY <1>1, <1>2

\* What a thread takes from its queue was there before, and a token that is
\* taken is gone.
LEMMA PopWaits ==
  ASSUME IoTypeOK, NEW t \in Threads, tasks[t] # <<>>,
         NEW u \in Threads, NEW x
  PROVE  /\ waits(popped(t), u, x) => waits(tasks, u, x)
         /\ waits(tasks, u, x) /\ ~(u = t /\ x = Head(tasks[t])) => waits(popped(t), u, x)
         /\ waits(tasks, t, Head(tasks[t]))
<1> DEFINE q == tasks[t]
           n == Len(q)
<1>1. q \in Seq(Task) /\ n \in Nat \ {0} /\ DOMAIN q = 1 .. n
  BY LenProperties, EmptySeq DEF IoTypeOK
<1>2. popped(t)[t] = Tail(q)
  BY DEF popped, IoTypeOK
<1>3. /\ DOMAIN Tail(q) = 1 .. n - 1
      /\ \A i \in 1 .. n - 1 : Tail(q)[i] = q[i + 1]
      /\ Head(q) = q[1]
  BY <1>1
<1>4. waits(tasks, t, Head(q))
  BY <1>1, <1>3 DEF waits
<1>5. CASE u # t
  BY <1>4, <1>5 DEF popped, IoTypeOK, waits
<1>6. CASE u = t
  <2> HIDE DEF q, n
  <2>1. waits(popped(t), u, x) <=> \E i \in 1 .. n - 1 : q[i + 1] = x
    BY <1>2, <1>3, <1>6 DEF waits
  <2>2. waits(tasks, u, x) <=> \E i \in 1 .. n : q[i] = x
    BY <1>1, <1>6 DEF waits, q
  <2>3. \A i \in 1 .. n - 1 : i + 1 \in 1 .. n
    BY <1>1
  <2>4. \A i \in 1 .. n : i = 1 \/ (i - 1 \in 1 .. n - 1 /\ (i - 1) + 1 = i)
    BY <1>1
  <2>5. waits(popped(t), u, x) => waits(tasks, u, x)
    BY <2>1, <2>2, <2>3
  <2>6. ASSUME waits(tasks, u, x), x # Head(q) PROVE waits(popped(t), u, x)
    <3>1. PICK i \in 1 .. n : q[i] = x
      BY <2>2, <2>6
    <3>2. i # 1
      BY <1>3, <2>6, <3>1
    <3> QED BY <2>1, <2>4, <3>1, <3>2
  <2> QED BY <1>4, <1>6, <2>5, <2>6 DEF q
<1> QED BY <1>5, <1>6

LEMMA PopOnce ==
  ASSUME IoTypeOK, NEW t \in Threads, tasks[t] # <<>>, TokensOnce(tasks)
  PROVE  /\ TokensOnce(popped(t))
         /\ Token(Head(tasks[t])) => ~ waits(popped(t), t, Head(tasks[t]))
<1> DEFINE q == tasks[t]
           n == Len(q)
<1>1. q \in Seq(Task) /\ n \in Nat \ {0} /\ DOMAIN q = 1 .. n
  BY LenProperties, EmptySeq DEF IoTypeOK
<1>2. popped(t)[t] = Tail(q) /\ \A u \in Threads : u # t => popped(t)[u] = tasks[u]
  BY DEF popped, IoTypeOK
<1>3. /\ DOMAIN Tail(q) = 1 .. n - 1
      /\ \A i \in 1 .. n - 1 : Tail(q)[i] = q[i + 1]
      /\ Head(q) = q[1]
  BY <1>1
<1>4. \A k, l \in 1 .. n : Token(q[k]) /\ q[k] = q[l] => k = l
  BY <1>1 DEF TokensOnce
<1> HIDE DEF q, n
<1>5. \A i \in 1 .. n - 1 : i + 1 \in 1 .. n /\ i + 1 # 1 /\ i \in Int
  BY <1>1
<1>6. 1 \in 1 .. n
  BY <1>1
<1>7. ASSUME NEW i \in 1 .. n - 1, NEW j \in 1 .. n - 1, Token(Tail(q)[i]), Tail(q)[i] = Tail(q)[j]
      PROVE  i = j
  <2>1. i + 1 = j + 1
    BY <1>3, <1>4, <1>5, <1>7
  <2> QED BY <1>5, <2>1
<1>8. TokensOnce(popped(t))
  <2> SUFFICES ASSUME NEW u \in Threads, NEW i \in DOMAIN popped(t)[u],
                      NEW j \in DOMAIN popped(t)[u], Token(popped(t)[u][i]),
                      popped(t)[u][i] = popped(t)[u][j]
               PROVE  i = j
    BY DEF TokensOnce
  <2>1. CASE u = t
    BY <1>2, <1>3, <1>7, <2>1
  <2>2. CASE u # t
    BY <1>2, <2>2 DEF TokensOnce
  <2> QED BY <2>1, <2>2
<1>9. ASSUME Token(Head(q)), waits(popped(t), t, Head(q)) PROVE FALSE
  <2>1. PICK i \in 1 .. n - 1 : Tail(q)[i] = Head(q)
    BY <1>2, <1>3, <1>9 DEF waits
  <2>2. q[1] = q[i + 1] /\ Token(q[1])
    BY <1>3, <1>9, <2>1
  <2> QED BY <1>4, <1>5, <1>6, <2>2
<1> QED BY <1>8, <1>9 DEF q

----------------------------------------------------------------------------
\* The queues differ in tasks that are not tokens only.
SameTokens(before, after) ==
  /\ \A t \in Threads : \A x :
       Token(x) => (waits(before, t, x) <=> waits(after, t, x))
  /\ TokensOnce(before) => TokensOnce(after)

LEMMA SameTokensTransitive ==
  ASSUME NEW a, NEW b, NEW c, SameTokens(a, b), SameTokens(b, c)
  PROVE  SameTokens(a, c)
BY DEF SameTokens

LEMMA SameTokensReflexive == ASSUME NEW a PROVE SameTokens(a, a)
BY DEF SameTokens

\* A queue that does not exist takes no task.
LEMMA PostKeepsTokens ==
  ASSUME NEW queues \in Queues, NEW t, NEW task, ~ Token(task)
  PROVE  SameTokens(queues, post(queues, t, task))
<1>1. CASE t \in Threads
  BY <1>1, PostWaits, PostOnce DEF SameTokens
<1>2. CASE t \notin Threads
  <2>1. post(queues, t, task) = queues
    BY <1>2 DEF post, Queues
  <2> QED BY <2>1, SameTokensReflexive
<1> QED BY <1>1, <1>2

LEMMA PopKeepsTokens ==
  ASSUME IoTypeOK, NEW t \in Threads, tasks[t] # <<>>, ~ Token(Head(tasks[t]))
  PROVE  SameTokens(tasks, popped(t))
BY PopWaits, PopOnce DEF SameTokens

\* The tasks of check_keep_alive are no tokens.
LEMMA KeepAliveKeepsTokens ==
  ASSUME ServerTypeOK, NEW t \in Threads, check_keep_alive(t)
  PROVE  SameTokens(tasks, tasks')
<1>1. PICK expired \in SUBSET Session : \E order \in SetToSeqs(expired) :
        tasks' = [tasks EXCEPT
          ![t] = @ \o [i \in DOMAIN order |-> [op |-> "close", s |-> order[i]]]]
  BY DEF check_keep_alive
<1>2. PICK order \in SetToSeqs(expired) :
        tasks' = [tasks EXCEPT
          ![t] = @ \o [i \in DOMAIN order |-> [op |-> "close", s |-> order[i]]]]
  BY <1>1
<1> DEFINE closes == [i \in DOMAIN order |-> [op |-> "close", s |-> order[i]]]
           q == tasks[t]
           n == Len(q)
           m == Cardinality(expired)
<1>3. m \in Nat /\ DOMAIN order = 1 .. m
  BY FS_Subset, FS_CardinalityType, TypesAssumption DEF SetToSeqs
<1>4. closes \in Seq({closes[i] : i \in 1 .. m}) /\ Len(closes) = m
  BY <1>3
<1>5. \A i \in 1 .. m : ~ Token(closes[i])
  BY <1>3 DEF Token
<1>6. q \in Seq(Task) /\ n \in Nat /\ DOMAIN q = 1 .. n
  BY LenProperties DEF ServerTypeOK, IoTypeOK
<1> HIDE DEF closes
<1>7. /\ DOMAIN (q \o closes) = 1 .. n + m
      /\ \A i \in 1 .. n : (q \o closes)[i] = q[i]
      /\ \A i \in 1 .. n + m : i \notin 1 .. n =>
           (q \o closes)[i] = closes[i - n] /\ i - n \in 1 .. m
  BY <1>3, <1>4, <1>6
<1>8. tasks'[t] = q \o closes /\ \A u \in Threads : u # t => tasks'[u] = tasks[u]
  BY <1>2 DEF closes, ServerTypeOK, IoTypeOK
<1>9. 1 .. n \subseteq 1 .. n + m
  BY <1>3, <1>6
<1>10. \A i \in 1 .. n + m : Token((q \o closes)[i]) => i \in 1 .. n
  BY <1>5, <1>7
<1>11. ASSUME NEW u \in Threads, NEW x, Token(x)
       PROVE  waits(tasks, u, x) <=> waits(tasks', u, x)
  <2>1. CASE u # t
    BY <1>8, <2>1 DEF waits
  <2>2. CASE u = t
    BY <1>6, <1>7, <1>8, <1>9, <1>10, <1>11, <2>2 DEF waits
  <2> QED BY <2>1, <2>2
<1>12. ASSUME TokensOnce(tasks) PROVE TokensOnce(tasks')
  <2> SUFFICES ASSUME NEW u \in Threads, NEW i \in DOMAIN tasks'[u],
                      NEW j \in DOMAIN tasks'[u], Token(tasks'[u][i]),
                      tasks'[u][i] = tasks'[u][j]
               PROVE  i = j
    BY DEF TokensOnce
  <2>1. CASE u # t
    BY <1>8, <1>12, <2>1 DEF TokensOnce
  <2>2. CASE u = t
    <3>1. i \in 1 .. n /\ j \in 1 .. n
      BY <1>7, <1>8, <1>10, <2>2
    <3>2. q[i] = q[j] /\ Token(q[i])
      BY <1>7, <1>8, <2>2, <3>1
    <3> QED BY <1>6, <1>12, <3>1, <3>2 DEF TokensOnce
  <2> QED BY <2>1, <2>2
<1> QED BY <1>11, <1>12 DEF SameTokens

LEMMA PackedKeepsTokens ==
  ASSUME ServerTypeOK, NEW h \in Session, NEW queues \in Queues
  PROVE  SameTokens(queues, packed(queues, h)) /\ packed(queues, h) \in Queues
BY PackedType, PostKeepsTokens, SameTokensReflexive DEF packed, Token, ServerTypeOK

LEMMA SendKeepsTokens ==
  ASSUME ServerTypeOK, NEW h \in Session, NEW queues \in Queues,
         send(h, queues) \/ handler_close(h, queues)
  PROVE  SameTokens(queues, tasks')
<1>1. CASE send(h, queues)
  BY <1>1, PostKeepsTokens, SameTokensReflexive DEF send, Token
<1>2. CASE handler_close(h, queues)
  <2>1. SameTokens(queues, packed(queues, h)) /\ packed(queues, h) \in Queues
    BY PackedKeepsTokens
  <2>2. SameTokens(packed(queues, h), tasks')
    BY <1>2, <2>1, PostKeepsTokens DEF handler_close, Token
  <2> QED BY <2>1, <2>2, SameTokensTransitive
<1> QED BY <1>1, <1>2

----------------------------------------------------------------------------
(* The steps that the invariant distinguishes.                             *)

nameVars == <<io_thread_, session_id_, session_queue_, managerVars>>

LEMMA NameVars ==
  UNCHANGED nameVars =>
    /\ io_thread_' = io_thread_ /\ session_id_' = session_id_
    /\ session_queue_' = session_queue_
    /\ session_handler_map_' = session_handler_map_
    /\ handler_session_id_' = handler_session_id_
    /\ handler_thread_id_' = handler_thread_id_
    /\ lost_ids' = lost_ids
    /\ UNCHANGED managerVars
BY DEF nameVars, managerVars

\* The tokens are tasks that may stand in a queue.
LEMMA TokenForms ==
  /\ \A s, id : Token(initTask(s, id)) /\ Token(closedTask(id))
  /\ \A s, id, r, i : initTask(s, id) = initTask(r, i) <=> s = r /\ id = i
  /\ \A id, i : closedTask(id) = closedTask(i) <=> id = i
  /\ \A s, id, i : initTask(s, id) # closedTask(i)
<1>1. \A s, id : initTask(s, id).op = "init" /\ initTask(s, id).s = s /\ initTask(s, id).id = id
  BY DEF initTask
<1>2. \A id : closedTask(id).op = "on_session_closed" /\ closedTask(id).id = id
  BY DEF closedTask
<1> QED BY <1>1, <1>2 DEF Token

LEMMA IdFacts ==
  ASSUME IdsInv
  PROVE  /\ session_handler_map_[0] = nullptr /\ 0 \in Id
         /\ \A t \in Threads : session_queue_[t][0] = nullptr
         /\ \A s \in Session : s # nullptr
         /\ 0 \notin Threads
<1>1. session_handler_map_[0] = nullptr /\ 0 \in Id
  BY LiveIdsPositive, SameIds DEF IdsInv
<1>2. \A s \in Session : s # nullptr
  BY TypesAssumption
<1>3. \A t \in Threads : session_queue_[t][0] = nullptr
  BY <1>1 DEF IdsInv, IdsNameOnePair
<1>4. 0 \notin Threads
  BY DEF Threads
<1> QED BY <1>1, <1>2, <1>3, <1>4

\* A session that is about to be connected never was.
LEMMA FreshSession ==
  ASSUME IdsInv, NEW s \in Session, io_thread_[s] = 0 \/ accepting = s
  PROVE  handler_thread_id_[s] = 0 /\ unknown(s)
<1>1. handler_thread_id_[s] = 0 /\ handler_session_id_[s] = 0
  BY DEF IdsInv, Binding
<1>2. \A i \in Id : session_handler_map_[i] # s
  BY <1>1, IdFacts DEF IdsInv, IInv, HandlersIndexed
<1>3. \A i \in Id : lost_ids[i] # s
  BY DEF IdsInv, LostNames
<1> QED BY <1>1, <1>2, <1>3 DEF unknown

\* Most steps name nothing anew.
LEMMA QuietStep ==
  ASSUME IdsInv, ServerTypeOK', Untouched', SameTokens(tasks, tasks'),
         UNCHANGED nameVars, accepting' \in {accepting, nullptr}
  PROVE  IdsInv'
<1>1. /\ io_thread_' = io_thread_ /\ session_id_' = session_id_
      /\ session_queue_' = session_queue_
      /\ session_handler_map_' = session_handler_map_
      /\ handler_session_id_' = handler_session_id_
      /\ handler_thread_id_' = handler_thread_id_
  BY NameVars
<1>2. IInv'
  BY NameVars, Inductive DEF IdsInv
<1>3. Binding'
  BY <1>1, TypesAssumption DEF IdsInv, Binding
<1>4. TokensOnce(tasks')
  BY DEF IdsInv, SameTokens
<1>5. InitNames'
  BY <1>1, TokenForms DEF IdsInv, InitNames, SameTokens
<1>6. ClosedNames'
  BY ZenonT(30), <1>1, TokenForms DEF IdsInv, ClosedNames, SameTokens
<1>7. Carried'
  <2> SUFFICES ASSUME NEW s \in Session, handler_session_id_[s] # 0
               PROVE  IF session_id_[s] = 0
                      THEN waits(tasks', handler_thread_id_[s], initTask(s, handler_session_id_[s]))
                      ELSE \/ session_queue_[handler_thread_id_[s]][handler_session_id_[s]] = s
                           \/ waits(tasks', MainThread, closedTask(handler_session_id_[s]))
    BY <1>1 DEF Carried
  <2>1. handler_thread_id_[s] \in Threads
    BY DEF IdsInv, Binding, ServerTypeOK, ManagerTypeOK
  <2> QED BY <2>1, MainThreadIsThread, TokenForms DEF IdsInv, Carried, SameTokens
<1>8. IdsNameOnePair'
  BY <1>1 DEF IdsInv, IdsNameOnePair
<1>9. LostNames'
  BY <1>1, NameVars, IdFacts DEF IdsInv, LostNames
<1> QED BY <1>2, <1>3, <1>4, <1>5, <1>6, <1>7, <1>8, <1>9 DEF IdsInv

\* hanlde_close may evict from the session_queue_ another session than s,
\* one that has the id s had: the on_session_closed it posts is that one's.
LEMMA HandleCloseStep ==
  ASSUME IdsInv, ServerTypeOK', Untouched',
         NEW s \in Session, session_id_[s] # 0, NEW writes,
         NEW queues \in Queues, SameTokens(tasks, queues),
         hanlde_close(s, writes, queues),
         UNCHANGED <<io_thread_, session_id_, managerVars, accepting>>
  PROVE  IdsInv'
<1> DEFINE t == io_thread_[s]
           id == session_id_[s]
           r == session_queue_[t][id]
<1>1. CASE tasks' = queues /\ UNCHANGED closeVars
  BY <1>1, QuietStep DEF closeVars, nameVars
<1>2. CASE ~(tasks' = queues /\ UNCHANGED closeVars)
  <2>1. /\ r # nullptr
        /\ tasks' = post(queues, MainThread, closedTask(id))
        /\ session_queue_' = [session_queue_ EXCEPT ![t][id] = nullptr]
    BY <1>2 DEF hanlde_close, closedTask
  <2>2. t \in Threads /\ id \in Id
    BY DEF IdsInv, Binding, ServerTypeOK, SessionTypeOK, BuiltTypeOK
  <2>3. /\ session_handler_map_[id] = r /\ io_thread_[r] = t /\ session_id_[r] = id
        /\ r \in Session
    BY <2>1, <2>2
    DEF IdsInv, IdsNameOnePair, ServerTypeOK, SessionTypeOK, CloseTypeOK
  <2>4. /\ session_queue_'[t][id] = nullptr
        /\ \A u \in Threads, i \in Id :
             session_queue_'[u][i] = IF u = t /\ i = id THEN nullptr ELSE session_queue_[u][i]
    BY <2>1, <2>2 DEF IdsInv, ServerTypeOK, SessionTypeOK, CloseTypeOK
  <2>5. /\ io_thread_' = io_thread_ /\ session_id_' = session_id_
        /\ session_handler_map_' = session_handler_map_
        /\ handler_session_id_' = handler_session_id_
        /\ handler_thread_id_' = handler_thread_id_ /\ accepting' = accepting
        /\ lost_ids' = lost_ids
    BY DEF managerVars
  <2> HIDE DEF t, id, r
  <2>6. \A u \in Threads : \A x :
          Token(x) => (waits(tasks', u, x) <=> \/ waits(tasks, u, x)
                                               \/ u = MainThread /\ x = closedTask(id))
    BY <2>1, PostWaits, MainThreadIsThread DEF SameTokens
  <2>7. IInv'
    BY <2>5, Inductive DEF IdsInv
  <2>8. Binding'
    BY <2>5 DEF IdsInv, Binding
  <2>9. TokensOnce(tasks')
    <3>1. ~ waits(tasks, MainThread, closedTask(id))
      BY <2>1, <2>2, <2>3, MainThreadIsThread DEF IdsInv, ClosedNames, t, id, r
    <3>2. ~ waits(queues, MainThread, closedTask(id))
      BY <3>1, TokenForms, MainThreadIsThread DEF SameTokens
    <3> QED BY <2>1, <3>2, PostOnce, MainThreadIsThread DEF SameTokens, IdsInv
  <2>10. InitNames'
    BY <2>5, <2>6, TokenForms DEF IdsInv, InitNames
  <2>11. ClosedNames'
    <3> SUFFICES ASSUME NEW u \in Threads, NEW i \in Id, waits(tasks', u, closedTask(i))
                 PROVE  LET q == session_handler_map_[i]
                        IN  /\ u = MainThread /\ i # 0
                            /\ q # nullptr /\ session_id_[q] = i
                            /\ session_queue_'[io_thread_[q]][i] = nullptr
      BY <2>5 DEF ClosedNames
    <3>1. CASE waits(tasks, u, closedTask(i))
      <4> DEFINE q == session_handler_map_[i]
      <4>1. /\ u = MainThread /\ i # 0
            /\ q # nullptr /\ session_id_[q] = i
            /\ session_queue_[io_thread_[q]][i] = nullptr
        BY <3>1 DEF IdsInv, ClosedNames
      <4>2. q \in Session
        BY <4>1 DEF IdsInv, ServerTypeOK, ManagerTypeOK
      <4>3. io_thread_[q] \in Threads
        BY <4>1, <4>2 DEF IdsInv, Binding, ServerTypeOK, SessionTypeOK, BuiltTypeOK
      <4> QED BY <2>4, <4>1, <4>3
    <3>2. CASE u = MainThread /\ i = id
      BY <2>1, <2>3, <2>4, <3>2 DEF id, t
    <3> QED BY <2>6, <3>1, <3>2, TokenForms
  <2>12. Carried'
    <3> SUFFICES ASSUME NEW q \in Session, handler_session_id_[q] # 0
                 PROVE  IF session_id_[q] = 0
                        THEN waits(tasks', handler_thread_id_[q], initTask(q, handler_session_id_[q]))
                        ELSE \/ session_queue_'[handler_thread_id_[q]][handler_session_id_[q]] = q
                             \/ waits(tasks', MainThread, closedTask(handler_session_id_[q]))
      BY <2>5 DEF Carried
    <3>1. handler_thread_id_[q] \in Threads /\ handler_session_id_[q] \in Id
      BY DEF IdsInv, Binding, ServerTypeOK, ManagerTypeOK
    <3>2. CASE session_id_[q] = 0
      BY <2>6, <3>1, <3>2, TokenForms DEF IdsInv, Carried
    <3>3. CASE session_id_[q] # 0
      <4>1. \/ session_queue_[handler_thread_id_[q]][handler_session_id_[q]] = q
            \/ waits(tasks, MainThread, closedTask(handler_session_id_[q]))
        BY <3>3 DEF IdsInv, Carried
      <4> QED BY <2>4, <2>6, <3>1, <3>3, <4>1, TokenForms, MainThreadIsThread
    <3> QED BY <3>2, <3>3
  <2>13. IdsNameOnePair'
    BY <2>4, <2>5, TypesAssumption DEF IdsInv, IdsNameOnePair
  <2>14. LostNames'
    BY <2>5 DEF IdsInv, LostNames
  <2> QED BY <2>7, <2>8, <2>9, <2>10, <2>11, <2>12, <2>13, <2>14 DEF IdsInv
<1> QED BY <1>1, <1>2

\* The token becomes the entry.
LEMMA InitStep ==
  ASSUME IdsInv, ServerTypeOK', Untouched',
         NEW s \in Session, io_thread_[s] \in Threads, NEW id \in Id,
         init(s, id), UNCHANGED <<managerVars, accepting>>
  PROVE  IdsInv'
<1> DEFINE t == io_thread_[s]
<1>1. /\ IoTypeOK /\ tasks[t] # <<>> /\ Head(tasks[t]) = initTask(s, id)
      /\ tasks' = popped(t)
  BY DEF init, runs, initTask, IdsInv, ServerTypeOK
<1>2. waits(tasks, t, initTask(s, id))
  BY <1>1, PopWaits
<1>3. /\ id # 0 /\ session_id_[s] = 0
      /\ handler_session_id_[s] = id /\ handler_thread_id_[s] = t
  BY <1>2 DEF IdsInv, InitNames
<1>4. session_handler_map_[id] = s
  BY <1>3 DEF IdsInv, IInv, HandlersIndexed
<1>5. session_queue_[t][id] = nullptr
  BY <1>3, <1>4 DEF IdsInv, IdsNameOnePair
<1>6. /\ \A u \in Threads, i \in Id :
             session_queue_'[u][i] = IF u = t /\ i = id THEN s ELSE session_queue_[u][i]
      /\ \A q \in Session : session_id_'[q] = IF q = s THEN id ELSE session_id_[q]
  BY <1>5 DEF init, IdsInv, ServerTypeOK, SessionTypeOK, BuiltTypeOK, CloseTypeOK
<1>7. /\ io_thread_' = io_thread_
      /\ session_handler_map_' = session_handler_map_
      /\ handler_session_id_' = handler_session_id_
      /\ handler_thread_id_' = handler_thread_id_ /\ accepting' = accepting
      /\ lost_ids' = lost_ids
  BY DEF init, builtVars, managerVars
<1> HIDE DEF t
<1>8. \A u \in Threads : \A x :
        waits(tasks', u, x) <=> waits(tasks, u, x) /\ ~(u = t /\ x = initTask(s, id))
  <2>1. t \in Threads /\ TokensOnce(tasks) /\ Token(initTask(s, id))
    BY TokenForms DEF IdsInv, t
  <2>2. ~ waits(popped(t), t, initTask(s, id))
    BY <1>1, <2>1, PopOnce
  <2> QED BY <1>1, <2>1, <2>2, PopWaits
<1>9. IInv'
  BY Inductive DEF IdsInv
<1>10. Binding'
  <2> SUFFICES ASSUME NEW q \in Session
               PROVE  /\ io_thread_[q] = 0 \/ accepting = q => handler_thread_id_[q] = 0
                      /\ accepting = q => io_thread_[q] # 0
                      /\ handler_thread_id_[q] = 0 =>
                           session_id_'[q] = 0 /\ handler_session_id_[q] = 0
                      /\ handler_thread_id_[q] # 0 => io_thread_[q] = handler_thread_id_[q]
                      /\ session_id_'[q] # 0 => handler_session_id_[q] \in {0, session_id_'[q]}
    BY <1>7 DEF Binding
  <2>1. t # 0
    BY IdFacts DEF t
  <2> QED BY <1>3, <1>6, <2>1 DEF IdsInv, Binding
<1>11. TokensOnce(tasks')
  BY <1>1, PopOnce DEF IdsInv, t
<1>12. InitNames'
  <2> SUFFICES ASSUME NEW u \in Threads, NEW q \in Session, NEW i \in Id,
                      waits(tasks', u, initTask(q, i))
               PROVE  /\ i # 0 /\ session_id_'[q] = 0
                      /\ handler_session_id_[q] = i /\ handler_thread_id_[q] = u
    BY <1>7 DEF InitNames
  <2>1. /\ i # 0 /\ session_id_[q] = 0
        /\ handler_session_id_[q] = i /\ handler_thread_id_[q] = u
    BY <1>8 DEF IdsInv, InitNames
  <2>2. q # s
    BY <1>3, <1>8, <2>1
  <2> QED BY <1>6, <2>1, <2>2
<1>13. ClosedNames'
  <2> SUFFICES ASSUME NEW u \in Threads, NEW i \in Id, waits(tasks', u, closedTask(i))
               PROVE  LET q == session_handler_map_[i]
                      IN  /\ u = MainThread /\ i # 0
                          /\ q # nullptr /\ session_id_'[q] = i
                          /\ session_queue_'[io_thread_[q]][i] = nullptr
    BY <1>7 DEF ClosedNames
  <2> DEFINE q == session_handler_map_[i]
  <2>1. /\ u = MainThread /\ i # 0
        /\ q # nullptr /\ session_id_[q] = i
        /\ session_queue_[io_thread_[q]][i] = nullptr
    BY <1>8 DEF IdsInv, ClosedNames
  <2>2. q \in Session /\ q # s /\ i # id
    BY <1>3, <1>4, <2>1 DEF IdsInv, ServerTypeOK, ManagerTypeOK
  <2>3. io_thread_[q] \in Threads
    BY <2>1, <2>2 DEF IdsInv, Binding, ServerTypeOK, SessionTypeOK, BuiltTypeOK
  <2> QED BY <1>6, <2>1, <2>2, <2>3
<1>14. Carried'
  <2> SUFFICES ASSUME NEW q \in Session, handler_session_id_[q] # 0
               PROVE  IF session_id_'[q] = 0
                      THEN waits(tasks', handler_thread_id_[q], initTask(q, handler_session_id_[q]))
                      ELSE \/ session_queue_'[handler_thread_id_[q]][handler_session_id_[q]] = q
                           \/ waits(tasks', MainThread, closedTask(handler_session_id_[q]))
    BY <1>7 DEF Carried
  <2>1. handler_thread_id_[q] \in Threads /\ handler_session_id_[q] \in Id
    BY DEF IdsInv, Binding, ServerTypeOK, ManagerTypeOK
  <2>2. CASE q = s
    BY <1>3, <1>6, <2>1, <2>2
  <2>3. CASE q # s
    <3>1. handler_session_id_[q] # id
      BY <1>3, <1>4, <2>3 DEF IdsInv, IInv, HandlersIndexed
    <3>2. CASE session_id_[q] = 0
      <4>1. waits(tasks, handler_thread_id_[q], initTask(q, handler_session_id_[q]))
        BY <3>2 DEF IdsInv, Carried
      <4> QED BY <1>6, <1>8, <2>1, <2>3, <3>2, <4>1, TokenForms
    <3>3. CASE session_id_[q] # 0
      <4>1. \/ session_queue_[handler_thread_id_[q]][handler_session_id_[q]] = q
            \/ waits(tasks, MainThread, closedTask(handler_session_id_[q]))
        BY <3>3 DEF IdsInv, Carried
      <4> QED BY <1>6, <1>8, <2>1, <2>3, <3>1, <3>3, <4>1, TokenForms, MainThreadIsThread
    <3> QED BY <3>2, <3>3
  <2> QED BY <2>2, <2>3
<1>15. IdsNameOnePair'
  <2> SUFFICES ASSUME NEW u \in Threads, NEW i \in Id, session_queue_'[u][i] # nullptr
               PROVE  LET q == session_queue_'[u][i]
                      IN  /\ session_handler_map_[i] = q
                          /\ handler_thread_id_[q] = u /\ io_thread_[q] = u
                          /\ session_id_'[q] = i
    BY <1>7 DEF IdsNameOnePair
  <2>1. CASE u = t /\ i = id
    BY <1>3, <1>4, <1>6, <2>1 DEF t
  <2>2. CASE ~(u = t /\ i = id)
    <3> DEFINE q == session_queue_[u][i]
    <3>1. /\ session_handler_map_[i] = q
          /\ handler_thread_id_[q] = u /\ io_thread_[q] = u
          /\ session_id_[q] = i /\ q \in Session
      BY <1>6, <2>2 DEF IdsInv, IdsNameOnePair, ServerTypeOK, SessionTypeOK, CloseTypeOK
    <3>2. q # s
      BY <1>3, <1>4, <3>1, IdFacts
    <3> QED BY <1>6, <2>2, <3>1, <3>2
  <2> QED BY <2>1, <2>2
<1>16. LostNames'
  BY <1>7 DEF IdsInv, LostNames
<1> QED
  BY <1>9, <1>10, <1>11, <1>12, <1>13, <1>14, <1>15, <1>16 DEF IdsInv

\* A session that was never connected gets an id that nothing carries.
LEMMA ConnectedStep ==
  ASSUME IdsInv, ServerTypeOK', Untouched',
         NEW s \in Session, io_thread_[s] = 0 \/ accepting = s,
         NEW t \in Threads, connected(s, t),
         io_thread_'[s] = t, accepting' # s,
         \A q \in Session \ {s} :
           /\ io_thread_[q] # 0 => io_thread_'[q] = io_thread_[q]
           /\ io_thread_'[q] = 0 \/ accepting' = q => io_thread_[q] = 0 \/ accepting = q
           /\ accepting' = q => io_thread_'[q] # 0,
         UNCHANGED <<session_id_, session_queue_>>
  PROVE  IdsInv'
<1>1. PICK id \in Id :
        /\ on_session_connected(s, t, id)
        /\ tasks' = post(tasks, t, initTask(s, id))
  BY DEF connected, initTask
<1>0. unknown(s) /\ handler_thread_id_[s] = 0
  BY FreshSession
<1>2. handler_session_id_[s] = 0 /\ session_id_[s] = 0
  BY <1>0 DEF IdsInv, Binding
<1>3. \A i \in Id : session_handler_map_[i] # s
  BY <1>0 DEF unknown
<1>4. id # 0 /\ id \notin LiveIds
      /\ session_handler_map_' = [session_handler_map_ EXCEPT ![id] = s]
  BY <1>0, <1>1, ConnectDetails DEF IdsInv
<1>5. session_handler_map_[id] = nullptr
  BY <1>4 DEF LiveIds
<1>6. IInv'
  BY <1>0, <1>1, ConnectPreserves DEF IdsInv
<1>7. /\ \A i \in Id : session_handler_map_'[i] = IF i = id THEN s ELSE session_handler_map_[i]
      /\ \A q \in Session :
           /\ handler_session_id_'[q] = IF q = s THEN id ELSE handler_session_id_[q]
           /\ handler_thread_id_'[q] = IF q = s THEN t ELSE handler_thread_id_[q]
  BY <1>1, <1>4 DEF on_session_connected, IdsInv, ServerTypeOK, ManagerTypeOK
<1>8. \A u \in Threads : \A x :
        waits(tasks', u, x) <=> waits(tasks, u, x) \/ (u = t /\ x = initTask(s, id))
  <2>1. tasks \in Queues
    BY DEF IdsInv, ServerTypeOK, IoTypeOK, Queues
  <2> QED BY <1>1, <2>1, PostWaits
<1>9. session_id_' = session_id_ /\ session_queue_' = session_queue_
  OBVIOUS
<1>10. Binding'
  <2> SUFFICES ASSUME NEW q \in Session
               PROVE  /\ io_thread_'[q] = 0 \/ accepting' = q => handler_thread_id_'[q] = 0
                      /\ accepting' = q => io_thread_'[q] # 0
                      /\ handler_thread_id_'[q] = 0 =>
                           session_id_[q] = 0 /\ handler_session_id_'[q] = 0
                      /\ handler_thread_id_'[q] # 0 => io_thread_'[q] = handler_thread_id_'[q]
                      /\ session_id_[q] # 0 => handler_session_id_'[q] \in {0, session_id_[q]}
    BY <1>9 DEF Binding
  <2>1. CASE q = s
    BY <1>2, <1>7, <2>1, IdFacts
  <2>2. CASE q # s
    BY <1>7, <2>2 DEF IdsInv, Binding
  <2> QED BY <2>1, <2>2
<1>11. TokensOnce(tasks')
  <2>1. ~ waits(tasks, t, initTask(s, id))
    BY <1>2, <1>4 DEF IdsInv, InitNames
  <2> QED BY <1>1, <2>1, PostOnce DEF IdsInv, ServerTypeOK, IoTypeOK, Queues
<1>12. InitNames'
  <2> SUFFICES ASSUME NEW u \in Threads, NEW q \in Session, NEW i \in Id,
                      waits(tasks', u, initTask(q, i))
               PROVE  /\ i # 0 /\ session_id_[q] = 0
                      /\ handler_session_id_'[q] = i /\ handler_thread_id_'[q] = u
    BY <1>9 DEF InitNames
  <2>1. CASE waits(tasks, u, initTask(q, i))
    BY <1>2, <1>7, <2>1 DEF IdsInv, InitNames
  <2>2. CASE u = t /\ q = s /\ i = id
    BY <1>2, <1>4, <1>7, <2>2
  <2> QED BY <1>8, <2>1, <2>2, TokenForms
<1>13. ClosedNames'
  <2> SUFFICES ASSUME NEW u \in Threads, NEW i \in Id, waits(tasks', u, closedTask(i))
               PROVE  LET q == session_handler_map_'[i]
                      IN  /\ u = MainThread /\ i # 0
                          /\ q # nullptr /\ session_id_[q] = i
                          /\ session_queue_[io_thread_'[q]][i] = nullptr
    BY <1>9 DEF ClosedNames
  <2> DEFINE q == session_handler_map_[i]
  <2>1. /\ u = MainThread /\ i # 0
        /\ q # nullptr /\ session_id_[q] = i
        /\ session_queue_[io_thread_[q]][i] = nullptr
    BY <1>8, TokenForms DEF IdsInv, ClosedNames
  <2>2. q \in Session /\ q # s /\ i # id
    BY <1>3, <1>5, <2>1 DEF IdsInv, ServerTypeOK, ManagerTypeOK
  <2>3. io_thread_'[q] = io_thread_[q]
    <3>1. io_thread_[q] # 0
      BY <2>1, <2>2 DEF IdsInv, Binding
    <3> QED BY <2>2, <3>1
  <2> QED BY <1>7, <2>1, <2>2, <2>3
<1>14. Carried'
  <2> SUFFICES ASSUME NEW q \in Session, handler_session_id_'[q] # 0
               PROVE  IF session_id_[q] = 0
                      THEN waits(tasks', handler_thread_id_'[q], initTask(q, handler_session_id_'[q]))
                      ELSE \/ session_queue_[handler_thread_id_'[q]][handler_session_id_'[q]] = q
                           \/ waits(tasks', MainThread, closedTask(handler_session_id_'[q]))
    BY <1>9 DEF Carried
  <2>1. CASE q = s
    BY <1>2, <1>7, <1>8, <2>1
  <2>2. CASE q # s
    <3>1. handler_thread_id_[q] \in Threads /\ handler_session_id_[q] # 0
      BY <1>7, <2>2 DEF IdsInv, Binding, ServerTypeOK, ManagerTypeOK
    <3>2. IF session_id_[q] = 0
          THEN waits(tasks, handler_thread_id_[q], initTask(q, handler_session_id_[q]))
          ELSE \/ session_queue_[handler_thread_id_[q]][handler_session_id_[q]] = q
               \/ waits(tasks, MainThread, closedTask(handler_session_id_[q]))
      BY <3>1 DEF IdsInv, Carried
    <3> QED BY <1>7, <1>8, <2>2, <3>1, <3>2, MainThreadIsThread
  <2> QED BY <2>1, <2>2
<1>15. IdsNameOnePair'
  <2> SUFFICES ASSUME NEW u \in Threads, NEW i \in Id, session_queue_[u][i] # nullptr
               PROVE  LET q == session_queue_[u][i]
                      IN  /\ session_handler_map_'[i] = q
                          /\ handler_thread_id_'[q] = u /\ io_thread_'[q] = u
                          /\ session_id_[q] = i
    BY <1>9 DEF IdsNameOnePair
  <2> DEFINE q == session_queue_[u][i]
  <2>1. /\ session_handler_map_[i] = q
        /\ handler_thread_id_[q] = u /\ io_thread_[q] = u
        /\ session_id_[q] = i /\ q \in Session
    BY DEF IdsInv, IdsNameOnePair, ServerTypeOK, SessionTypeOK, CloseTypeOK
  <2>2. q # s /\ i # id /\ io_thread_'[q] = io_thread_[q]
    <3>1. q # s /\ i # id
      BY <1>3, <1>5, <2>1
    <3> QED BY <2>1, <3>1, IdFacts
  <2> HIDE DEF q
  <2> QED BY <1>7, <2>1, <2>2 DEF q
<1>16. LostNames'
  <2> SUFFICES ASSUME NEW q \in Session, NEW i \in Id, lost_ids[i] = q
               PROVE  io_thread_'[q] # 0 /\ accepting' # q /\ handler_thread_id_'[q] = 0
    BY <1>1 DEF on_session_connected, LostNames
  <2>1. io_thread_[q] # 0 /\ accepting # q /\ handler_thread_id_[q] = 0 /\ q # s
    BY <1>0 DEF IdsInv, LostNames, unknown
  <2> QED BY <1>7, <2>1
<1> QED
  BY <1>6, <1>10, <1>11, <1>12, <1>13, <1>14, <1>15, <1>16 DEF IdsInv

\* One whose connection fails is lost with the id, which nothing carries.
LEMMA ThrownStep ==
  ASSUME IdsInv, ServerTypeOK', Untouched',
         NEW s \in Session, io_thread_[s] = 0 \/ accepting = s,
         NEW id \in Id, on_session_connected_throws(s, id),
         io_thread_'[s] # 0, accepting' # s, accepting' \in {accepting, nullptr},
         \A q \in Session \ {s} : io_thread_'[q] = io_thread_[q],
         UNCHANGED <<tasks, session_id_, session_queue_>>
  PROVE  IdsInv'
<1>1. unknown(s) /\ handler_thread_id_[s] = 0
  BY FreshSession
<1>2. IInv'
  BY <1>1, ThrowPreserves DEF IdsInv
<1>3. /\ session_handler_map_' = session_handler_map_
      /\ handler_session_id_' = handler_session_id_
      /\ handler_thread_id_' = handler_thread_id_
      /\ lost_ids' = [lost_ids EXCEPT ![id] = s]
      /\ session_id_' = session_id_ /\ session_queue_' = session_queue_ /\ tasks' = tasks
  BY DEF on_session_connected_throws
<1>4. \A q \in Session : handler_thread_id_[q] # 0 => io_thread_'[q] = io_thread_[q]
  BY <1>1
<1>5. Binding'
  BY <1>1, <1>3, <1>4, IdFacts DEF IdsInv, Binding
<1>6. TokensOnce(tasks') /\ InitNames' /\ Carried'
  BY <1>3 DEF IdsInv, InitNames, Carried
<1>7. ClosedNames'
  <2> SUFFICES ASSUME NEW t \in Threads, NEW i \in Id, waits(tasks, t, closedTask(i))
               PROVE  LET q == session_handler_map_[i]
                      IN  /\ t = MainThread /\ i # 0
                          /\ q # nullptr /\ session_id_[q] = i
                          /\ session_queue_[io_thread_'[q]][i] = nullptr
    BY <1>3 DEF ClosedNames
  <2> DEFINE q == session_handler_map_[i]
  <2>1. /\ t = MainThread /\ i # 0
        /\ q # nullptr /\ session_id_[q] = i
        /\ session_queue_[io_thread_[q]][i] = nullptr
    BY DEF IdsInv, ClosedNames
  <2>2. q \in Session
    BY <2>1 DEF IdsInv, ServerTypeOK, ManagerTypeOK
  <2>3. handler_thread_id_[q] # 0
    BY <2>1, <2>2 DEF IdsInv, Binding
  <2> QED BY <1>4, <2>1, <2>2, <2>3
<1>8. IdsNameOnePair'
  <2> SUFFICES ASSUME NEW u \in Threads, NEW i \in Id, session_queue_[u][i] # nullptr
               PROVE  LET q == session_queue_[u][i]
                      IN  /\ session_handler_map_[i] = q
                          /\ handler_thread_id_[q] = u /\ io_thread_'[q] = u
                          /\ session_id_[q] = i
    BY <1>3 DEF IdsNameOnePair
  <2> DEFINE q == session_queue_[u][i]
  <2>1. /\ session_handler_map_[i] = q
        /\ handler_thread_id_[q] = u /\ io_thread_[q] = u
        /\ session_id_[q] = i /\ q \in Session
    BY DEF IdsInv, IdsNameOnePair, ServerTypeOK, SessionTypeOK, CloseTypeOK
  <2> QED BY <1>4, <2>1, IdFacts
<1>9. LostNames'
  <2> SUFFICES ASSUME NEW q \in Session, NEW i \in Id, lost_ids'[i] = q
               PROVE  io_thread_'[q] # 0 /\ accepting' # q /\ handler_thread_id_[q] = 0
    BY <1>3 DEF LostNames
  <2>1. CASE q = s
    BY <1>1, <2>1
  <2>2. CASE q # s
    <3>1. lost_ids[i] = q
      BY <1>3, <2>2 DEF IdsInv, ServerTypeOK, ManagerTypeOK
    <3> QED BY <2>2, <3>1, IdFacts DEF IdsInv, LostNames
  <2> QED BY <2>1, <2>2
<1> QED BY <1>2, <1>3, <1>5, <1>6, <1>7, <1>8, <1>9 DEF IdsInv

\* The token goes, and the handler with it.  What on_closed() posts names
\* nothing anew.
LEMMA SessionClosedStep ==
  ASSUME IdsInv, ServerTypeOK', Untouched', NEW id \in Id, session_closed(id)
  PROVE  IdsInv'
<1> DEFINE s == session_handler_map_[id]
<1>1. /\ IoTypeOK /\ tasks[MainThread] # <<>>
      /\ Head(tasks[MainThread]) = closedTask(id)
  BY DEF session_closed, runs, closedTask, IdsInv, ServerTypeOK
<1>2. waits(tasks, MainThread, closedTask(id))
  BY <1>1, PopWaits, MainThreadIsThread
<1>3. /\ id # 0 /\ s \in Session /\ session_id_[s] = id
      /\ session_queue_[io_thread_[s]][id] = nullptr
  BY <1>2, MainThreadIsThread DEF IdsInv, ClosedNames, ServerTypeOK, ManagerTypeOK
<1>4. handler_session_id_[s] = id
  BY <1>3 DEF IdsInv, IInv, HandlersIndexed
<1>5. Close(id)
  BY <1>3, IdFacts DEF session_closed, Close
<1>6. IInv'
  BY <1>5, ClosePreserves DEF IdsInv
<1>7. /\ \A i \in Id : session_handler_map_'[i] = IF i = id THEN nullptr ELSE session_handler_map_[i]
      /\ \A q \in Session :
           handler_session_id_'[q] = IF q = s THEN 0 ELSE handler_session_id_[q]
      /\ handler_thread_id_' = handler_thread_id_ /\ lost_ids' = lost_ids
  BY <1>3, <1>5, IdFacts DEF Close, on_session_closed, IdsInv, ServerTypeOK, ManagerTypeOK
<1>8. /\ io_thread_' = io_thread_ /\ session_id_' = session_id_
      /\ session_queue_' = session_queue_ /\ accepting' = accepting
  BY DEF session_closed, sessionVars, builtVars, closeVars, serverVars
<1>9. SameTokens(popped(MainThread), tasks')
  <2> DEFINE queues == popped(MainThread)
  <2>1. queues \in Queues
    BY <1>1, PopType, MainThreadIsThread
  <2>2. \/ tasks' = queues
        \/ s # nullptr /\ send(s, queues)
        \/ s # nullptr /\ handler_close(s, queues)
    BY DEF session_closed
  <2> HIDE DEF queues, s
  <2> QED
    BY <1>3, <2>1, <2>2, SendKeepsTokens, SameTokensReflexive DEF queues, s, IdsInv
<1>10. \A u \in Threads : \A x : Token(x) =>
         (waits(tasks', u, x) <=> waits(tasks, u, x) /\ ~(u = MainThread /\ x = closedTask(id)))
  <2>1. ~ waits(popped(MainThread), MainThread, closedTask(id))
    BY <1>1, PopOnce, TokenForms, MainThreadIsThread DEF IdsInv
  <2> QED BY <1>1, <1>9, <2>1, PopWaits, MainThreadIsThread DEF SameTokens
<1> HIDE DEF s
<1>11. Binding'
  BY <1>7, <1>8 DEF IdsInv, Binding
<1>12. TokensOnce(tasks')
  BY <1>1, <1>9, PopOnce, MainThreadIsThread DEF IdsInv, SameTokens
<1>13. InitNames'
  <2> SUFFICES ASSUME NEW u \in Threads, NEW q \in Session, NEW i \in Id,
                      waits(tasks', u, initTask(q, i))
               PROVE  /\ i # 0 /\ session_id_[q] = 0
                      /\ handler_session_id_'[q] = i /\ handler_thread_id_[q] = u
    BY <1>7, <1>8 DEF InitNames
  <2>1. /\ i # 0 /\ session_id_[q] = 0
        /\ handler_session_id_[q] = i /\ handler_thread_id_[q] = u
    BY <1>10, TokenForms DEF IdsInv, InitNames
  <2> QED BY <1>3, <1>7, <2>1
<1>14. ClosedNames'
  <2> SUFFICES ASSUME NEW u \in Threads, NEW i \in Id, waits(tasks', u, closedTask(i))
               PROVE  LET q == session_handler_map_'[i]
                      IN  /\ u = MainThread /\ i # 0
                          /\ q # nullptr /\ session_id_[q] = i
                          /\ session_queue_[io_thread_[q]][i] = nullptr
    BY <1>8 DEF ClosedNames
  <2>1. waits(tasks, u, closedTask(i)) /\ ~(u = MainThread /\ i = id)
    BY <1>10, TokenForms
  <2>2. u = MainThread
    BY <2>1 DEF IdsInv, ClosedNames
  <2> QED BY <1>7, <2>1, <2>2 DEF IdsInv, ClosedNames
<1>15. Carried'
  <2> SUFFICES ASSUME NEW q \in Session, handler_session_id_'[q] # 0
               PROVE  IF session_id_[q] = 0
                      THEN waits(tasks', handler_thread_id_[q], initTask(q, handler_session_id_'[q]))
                      ELSE \/ session_queue_[handler_thread_id_[q]][handler_session_id_'[q]] = q
                           \/ waits(tasks', MainThread, closedTask(handler_session_id_'[q]))
    BY <1>7, <1>8 DEF Carried
  <2>1. q # s /\ handler_session_id_'[q] = handler_session_id_[q]
    BY <1>7
  <2>2. handler_thread_id_[q] \in Threads /\ handler_session_id_[q] \in Id \ {0}
    BY <2>1 DEF IdsInv, Binding, ServerTypeOK, ManagerTypeOK
  <2>3. handler_session_id_[q] # id
    BY <1>3, <1>4, <2>1, <2>2 DEF IdsInv, IInv, HandlersIndexed, s
  <2>4. IF session_id_[q] = 0
        THEN waits(tasks, handler_thread_id_[q], initTask(q, handler_session_id_[q]))
        ELSE \/ session_queue_[handler_thread_id_[q]][handler_session_id_[q]] = q
             \/ waits(tasks, MainThread, closedTask(handler_session_id_[q]))
    BY <2>2 DEF IdsInv, Carried
  <2> QED BY <1>10, <2>1, <2>2, <2>3, <2>4, TokenForms, MainThreadIsThread
<1>16. IdsNameOnePair'
  <2> SUFFICES ASSUME NEW u \in Threads, NEW i \in Id, session_queue_[u][i] # nullptr
               PROVE  LET q == session_queue_[u][i]
                      IN  /\ session_handler_map_'[i] = q
                          /\ handler_thread_id_[q] = u /\ io_thread_[q] = u
                          /\ session_id_[q] = i
    BY <1>7, <1>8 DEF IdsNameOnePair
  <2>1. i # id
    BY <1>3 DEF IdsInv, IdsNameOnePair, s
  <2> QED BY <1>7, <2>1 DEF IdsInv, IdsNameOnePair
<1>17. LostNames'
  BY <1>7, <1>8 DEF IdsInv, LostNames
<1> QED
  BY <1>6, <1>11, <1>12, <1>13, <1>14, <1>15, <1>16, <1>17 DEF IdsInv

----------------------------------------------------------------------------
(* Only init touches a session that has not been initialised.              *)

touchVars == <<closed_, num_read_handlers_, writeVars>>

\* Of the members that Untouched speaks of a step changes those of s only.
OnlyTouches(s) ==
  \A q \in Session \ {s} :
    /\ closed_'[q] = closed_[q]
    /\ num_read_handlers_'[q] = num_read_handlers_[q]
    /\ num_write_handlers_'[q] = num_write_handlers_[q]
    /\ buffer_sending_'[q] = buffer_sending_[q]
    /\ buffer_to_be_sent_'[q] = buffer_to_be_sent_[q]
    /\ wire'[q] = wire[q]

LEMMA UntouchedSame ==
  ASSUME Untouched, UNCHANGED session_id_, UNCHANGED touchVars PROVE Untouched'
<1>1. /\ closed_' = closed_ /\ num_read_handlers_' = num_read_handlers_
      /\ num_write_handlers_' = num_write_handlers_ /\ buffer_sending_' = buffer_sending_
      /\ buffer_to_be_sent_' = buffer_to_be_sent_ /\ wire' = wire
  BY DEF touchVars, writeVars
<1> QED BY <1>1 DEF Untouched

LEMMA TouchInitialised ==
  ASSUME Untouched, NEW s, s \in Session => session_id_[s] # 0,
         UNCHANGED session_id_, OnlyTouches(s)
  PROVE  Untouched'
<1> SUFFICES ASSUME NEW q \in Session, session_id_[q] = 0
             PROVE  /\ closed_'[q] /\ num_read_handlers_'[q] = 0
                    /\ num_write_handlers_'[q] = 0
                    /\ buffer_sending_'[q] = <<>> /\ buffer_to_be_sent_'[q] = <<>>
                    /\ wire'[q] = <<>>
  BY DEF Untouched
<1>1. q # s
  OBVIOUS
<1> QED BY <1>1 DEF Untouched, OnlyTouches

LEMMA UntouchedAfterClose ==
  ASSUME ServerTypeOK, Untouched, NEW s \in Session, NEW queues, close(s, queues)
  PROVE  Untouched'
<1>1. UNCHANGED session_id_ /\ UNCHANGED readVars /\ UNCHANGED writeVars
  BY DEF close
<1>2. CASE closed_[s]
  BY <1>1, <1>2, UntouchedSame DEF close, readVars, touchVars
<1>3. CASE ~ closed_[s]
  <2>1. session_id_[s] # 0
    BY <1>3 DEF Untouched
  <2>2. OnlyTouches(s)
    BY <1>1, <1>3
    DEF close, readVars, writeVars, OnlyTouches, ServerTypeOK, SessionTypeOK, BuiltTypeOK
  <2> QED BY <1>1, <2>1, <2>2, TouchInitialised
<1> QED BY <1>2, <1>3

LEMMA UntouchedAfterPost ==
  ASSUME ServerTypeOK, Untouched, NEW s, NEW messages,
         post_message_list(s, messages),
         UNCHANGED <<session_id_, closed_, num_read_handlers_>>
  PROVE  Untouched'
<1>1. CASE UNCHANGED writeVars
  BY <1>1, UntouchedSame DEF touchVars
<1>2. CASE ~ UNCHANGED writeVars
  <2>1. s \in Session => session_id_[s] # 0
    BY <1>2 DEF post_message_list, Untouched
  <2>2. OnlyTouches(s)
    BY <1>2
    DEF post_message_list, async_write, OnlyTouches, ServerTypeOK, SessionTypeOK, WriteTypeOK
  <2> QED BY <2>1, <2>2, TouchInitialised
<1> QED BY <1>1, <1>2

LEMMA UntouchedMain == ASSUME IdsInv, MainStep PROVE Untouched'
<1>0. ServerTypeOK /\ Untouched
  BY DEF IdsInv
<1>1. ASSUME NEW h \in Session, handler_PackMessageList(h) PROVE Untouched'
  BY <1>0, <1>1, UntouchedSame
  DEF handler_PackMessageList, sessionVars, readVars, touchVars
<1>2. ASSUME NEW h \in Session, handler_SendMessageListDirectly(h) PROVE Untouched'
  <2>1. UNCHANGED <<session_id_, closed_, num_read_handlers_>>
    BY <1>2 DEF handler_SendMessageListDirectly, readVars
  <2>2. UNCHANGED writeVars \/ post_message_list(session_of(h), messages_to_be_sent_[h])
    BY <1>2 DEF handler_SendMessageListDirectly
  <2> QED BY <1>0, <2>1, <2>2, UntouchedSame, UntouchedAfterPost DEF touchVars
<1>3. ASSUME NEW s \in Session, session_SendMessageListDirectly(s) PROVE Untouched'
  BY <1>0, <1>3, UntouchedSame DEF session_SendMessageListDirectly, touchVars
<1>4. ASSUME NEW id \in Id, session_closed(id) PROVE Untouched'
  BY <1>0, <1>4, UntouchedSame DEF session_closed, sessionVars, readVars, touchVars
<1>5. ASSUME NEW id \in Id, NEW msgs \in Seq(Message), SendMessageListToHandler(id, msgs)
      PROVE  Untouched'
  BY <1>0, <1>5, UntouchedSame DEF SendMessageListToHandler, sessionVars, readVars, touchVars
<1> QED BY <1>1, <1>2, <1>3, <1>4, <1>5 DEF MainStep

LEMMA UntouchedThread == ASSUME IdsInv, ThreadStep PROVE Untouched'
<1>0. ServerTypeOK /\ Untouched
  BY DEF IdsInv
<1>1. ASSUME NEW s \in Session, session_PackMessageList(s) \/ close_timeout(s)
      PROVE  Untouched'
  BY <1>0, <1>1, UntouchedSame
  DEF session_PackMessageList, close_timeout, readVars, touchVars
<1>2. ASSUME NEW s \in Session, keep_alive_close(s) PROVE Untouched'
  BY <1>0, <1>2, UntouchedAfterClose DEF keep_alive_close
<1>3. ASSUME NEW s \in Session, io_thread_[s] \in Threads, NEW id \in Id, init(s, id)
      PROVE  Untouched'
  <2>1. /\ tasks[io_thread_[s]] # <<>>
        /\ Head(tasks[io_thread_[s]]) = initTask(s, id)
    BY <1>3 DEF init, runs, initTask
  <2>2. id # 0
    BY <1>0, <1>3, <2>1, PopWaits DEF IdsInv, InitNames, ServerTypeOK
  <2>3. session_id_'[s] # 0 /\ \A q \in Session \ {s} : session_id_'[q] = session_id_[q]
    BY <1>0, <1>3, <2>2 DEF init, ServerTypeOK, SessionTypeOK, BuiltTypeOK
  <2>4. OnlyTouches(s)
    BY <1>0, <1>3
    DEF init, writeVars, OnlyTouches, ServerTypeOK, SessionTypeOK, BuiltTypeOK, ReadTypeOK
  <2> QED BY <1>0, <2>3, <2>4 DEF Untouched, OnlyTouches
<1>4. ASSUME NEW t \in Threads, NEW id \in Id, NEW msgs \in Seq(Message),
             SendMessageListToSession(t, id, msgs)
      PROVE  Untouched'
  <2>1. UNCHANGED <<session_id_, closed_, num_read_handlers_>>
    BY <1>4 DEF SendMessageListToSession, readVars
  <2>2. UNCHANGED writeVars \/ post_message_list(session_queue_[t][id], msgs)
    BY <1>4 DEF SendMessageListToSession
  <2> QED BY <1>0, <2>1, <2>2, UntouchedSame, UntouchedAfterPost DEF touchVars
<1>5. ASSUME NEW t \in Threads, NEW id \in Id, CloseSession(t, id) PROVE Untouched'
  <2> DEFINE s == session_queue_[t][id]
  <2>1. CASE s = nullptr
    BY <1>0, <1>5, <2>1, UntouchedSame DEF CloseSession, sessionVars, readVars, touchVars
  <2>2. CASE s # nullptr
    <3>1. s \in Session /\ close(s, popped(t))
      BY <1>0, <1>5, <2>2 DEF CloseSession, ServerTypeOK, SessionTypeOK, CloseTypeOK
    <3> HIDE DEF s
    <3> QED BY <1>0, <3>1, UntouchedAfterClose
  <2> QED BY <2>1, <2>2
<1> QED BY <1>1, <1>2, <1>3, <1>4, <1>5 DEF ThreadStep

LEMMA UntouchedCompletion == ASSUME IdsInv, CompletionStep PROVE Untouched'
<1>0. ServerTypeOK /\ Untouched
  BY DEF IdsInv
<1>1. PICK s \in Session :
        \/ hanlde_write(s) \/ hanlde_write_fails(s)
        \/ handle_read_fails(s) \/ \E n \in Nat : handle_read(s, n)
        \/ handle_safe_close(s) \/ close_timer_expires(s)
  BY DEF CompletionStep
<1>2. CASE hanlde_write(s) \/ hanlde_write_fails(s)
  <2>1. session_id_[s] # 0 /\ UNCHANGED session_id_
    <3>1. num_write_handlers_[s] > 0 /\ UNCHANGED session_id_
      BY <1>2 DEF hanlde_write, hanlde_write_fails
    <3> QED BY <1>0, <3>1 DEF Untouched
  <2>2. OnlyTouches(s)
    BY <1>0, <1>2
    DEF hanlde_write, hanlde_write_fails, readVars, OnlyTouches, ServerTypeOK,
        SessionTypeOK, BuiltTypeOK, WriteTypeOK
  <2> QED BY <1>0, <2>1, <2>2, TouchInitialised
<1>3. CASE handle_read_fails(s) \/ \E n \in Nat : handle_read(s, n)
  <2>1. session_id_[s] # 0 /\ UNCHANGED session_id_
    BY <1>0, <1>3 DEF handle_read, handle_read_fails, Untouched
  <2>2. OnlyTouches(s)
    BY <1>0, <1>3
    DEF handle_read, handle_read_fails, writeVars, OnlyTouches, ServerTypeOK,
        SessionTypeOK, BuiltTypeOK, ReadTypeOK
  <2> QED BY <1>0, <2>1, <2>2, TouchInitialised
<1>4. CASE handle_safe_close(s) \/ close_timer_expires(s)
  BY <1>0, <1>4, UntouchedSame DEF handle_safe_close, close_timer_expires, readVars, touchVars
<1> QED BY <1>1, <1>2, <1>3, <1>4

LEMMA UntouchedEnvironment == ASSUME IdsInv, EnvironmentStep \/ terminates PROVE Untouched'
BY UntouchedSame
DEF IdsInv, EnvironmentStep, terminates, handle_accept, handle_accept_fails, connect,
    handle_accept_throws, connect_throws, connected_throws, app_send, app_close,
    check_keep_alive, sessionButBuiltVars, sessionVars, readVars, touchVars

LEMMA UntouchedStep == ASSUME IdsInv, Next PROVE Untouched'
BY Steps, UntouchedMain, UntouchedThread, UntouchedCompletion, UntouchedEnvironment
DEF IdsInv

----------------------------------------------------------------------------
(* Every step of the server is one of the five.                            *)

\* A task that is no token leaves the head of a queue.
LEMMA PlainTask ==
  ASSUME IdsInv, NEW t \in Threads, NEW task, runs(t, task), ~ Token(task)
  PROVE  popped(t) \in Queues /\ SameTokens(tasks, popped(t))
BY PopType, PopKeepsTokens DEF runs, IdsInv, ServerTypeOK

\* The parts of nameVars, as the actions leave them alone.
LEMMA Nameless ==
  /\ UNCHANGED sessionVars => UNCHANGED <<io_thread_, session_id_, session_queue_>>
  /\ UNCHANGED builtVars => UNCHANGED io_thread_
  /\ UNCHANGED closeVars => UNCHANGED session_queue_
  /\ UNCHANGED serverVars => UNCHANGED accepting
  /\ UNCHANGED <<io_thread_, session_id_, session_queue_>> /\ UNCHANGED managerVars
       => UNCHANGED nameVars
BY DEF sessionVars, builtVars, closeVars, serverVars, nameVars

LEMMA MainIds == ASSUME IdsInv, MainStep, ServerTypeOK', Untouched' PROVE IdsInv'
<1>0. ServerTypeOK
  BY DEF IdsInv
<1>1. ASSUME NEW h \in Session, handler_PackMessageList(h), alone PROVE IdsInv'
  <2>1. /\ runs(MainThread, [op |-> "handler.PackMessageList", s |-> h])
        /\ tasks' = packed(popped(MainThread), h)
        /\ UNCHANGED sessionVars
    BY <1>1 DEF handler_PackMessageList
  <2>2. SameTokens(tasks, tasks')
    BY <1>0, <2>1, PlainTask, MainThreadIsThread, PackedKeepsTokens, SameTokensTransitive
    DEF Token
  <2> QED BY <1>1, <2>1, <2>2, Nameless, QuietStep DEF alone
<1>2. ASSUME NEW h \in Session, handler_SendMessageListDirectly(h), alone PROVE IdsInv'
  <2>1. /\ runs(MainThread, [op |-> "handler.SendMessageListDirectly", s |-> h])
        /\ tasks' = popped(MainThread)
        /\ UNCHANGED builtVars /\ UNCHANGED session_id_ /\ UNCHANGED closeVars
    BY <1>2 DEF handler_SendMessageListDirectly
  <2>2. SameTokens(tasks, tasks')
    BY <2>1, PlainTask, MainThreadIsThread DEF Token
  <2> QED BY <1>2, <2>1, <2>2, Nameless, QuietStep DEF alone
<1>3. ASSUME NEW s \in Session, session_SendMessageListDirectly(s) PROVE IdsInv'
  <2>1. /\ runs(MainThread, [op |-> "session.SendMessageListDirectly", s |-> s])
        /\ tasks' = popped(MainThread)
        /\ UNCHANGED builtVars /\ UNCHANGED session_id_ /\ UNCHANGED closeVars
        /\ UNCHANGED managerVars /\ UNCHANGED accepting
    BY <1>3 DEF session_SendMessageListDirectly
  <2>2. SameTokens(tasks, tasks')
    BY <2>1, PlainTask, MainThreadIsThread DEF Token
  <2> QED BY <2>1, <2>2, Nameless, QuietStep
<1>4. ASSUME NEW id \in Id, session_closed(id) PROVE IdsInv'
  BY <1>4, SessionClosedStep
<1>5. ASSUME NEW id \in Id, NEW msgs \in Seq(Message), SendMessageListToHandler(id, msgs)
      PROVE  IdsInv'
  <2>1. /\ runs(MainThread, [op |-> "SendMessageListToHandler", id |-> id, msgs |-> msgs])
        /\ tasks' = popped(MainThread)
        /\ UNCHANGED sessionVars /\ UNCHANGED managerVars /\ UNCHANGED accepting
    BY <1>5 DEF SendMessageListToHandler
  <2>2. SameTokens(tasks, tasks')
    BY <2>1, PlainTask, MainThreadIsThread DEF Token
  <2> QED BY <2>1, <2>2, Nameless, QuietStep
<1> QED BY <1>1, <1>2, <1>3, <1>4, <1>5 DEF MainStep

\* TCPSession::close, after a task that is no token.
LEMMA CloseIds ==
  ASSUME IdsInv, ServerTypeOK', Untouched', NEW s \in Session,
         NEW queues \in Queues, SameTokens(tasks, queues), close(s, queues),
         UNCHANGED managerVars, UNCHANGED accepting
  PROVE  IdsInv'
<1>1. UNCHANGED io_thread_ /\ UNCHANGED session_id_
  BY DEF close, builtVars
<1>2. CASE closed_[s]
  <2>1. tasks' = queues /\ UNCHANGED closeVars
    BY <1>2 DEF close
  <2> QED BY <1>1, <2>1, Nameless, QuietStep
<1>3. CASE ~ closed_[s]
  <2>1. session_id_[s] # 0
    BY <1>3 DEF IdsInv, Untouched
  <2>2. hanlde_close(s, num_write_handlers_[s], queues)
    BY <1>3 DEF close
  <2> QED BY <1>1, <2>1, <2>2, HandleCloseStep
<1> QED BY <1>2, <1>3

LEMMA ThreadIds == ASSUME IdsInv, ThreadStep, ServerTypeOK', Untouched' PROVE IdsInv'
<1>0. ServerTypeOK
  BY DEF IdsInv
<1>1. ASSUME NEW s \in Session, io_thread_[s] \in Threads, session_PackMessageList(s)
      PROVE  IdsInv'
  <2> DEFINE t == io_thread_[s]
  <2>1. /\ runs(t, [op |-> "session.PackMessageList", s |-> s])
        /\ \/ tasks' = popped(t)
           \/ tasks' = post(popped(t), MainThread,
                            [op |-> "SendMessageListToHandler", id |-> session_id_[s],
                             msgs |-> messages_received_[s]])
        /\ UNCHANGED builtVars /\ UNCHANGED session_id_ /\ UNCHANGED closeVars
        /\ UNCHANGED managerVars /\ UNCHANGED serverVars
    BY <1>1 DEF session_PackMessageList
  <2>2. popped(t) \in Queues /\ SameTokens(tasks, popped(t))
    BY <1>1, <2>1, PlainTask DEF Token
  <2>3. SameTokens(tasks, tasks')
    BY <2>1, <2>2, PostKeepsTokens, SameTokensTransitive DEF Token
  <2> QED BY <2>1, <2>3, Nameless, QuietStep
<1>2. ASSUME NEW s \in Session, io_thread_[s] \in Threads, keep_alive_close(s)
      PROVE  IdsInv'
  <2>1. /\ runs(io_thread_[s], [op |-> "close", s |-> s])
        /\ close(s, popped(io_thread_[s]))
        /\ UNCHANGED managerVars /\ UNCHANGED serverVars
    BY <1>2 DEF keep_alive_close
  <2>2. popped(io_thread_[s]) \in Queues /\ SameTokens(tasks, popped(io_thread_[s]))
    BY <1>2, <2>1, PlainTask DEF Token
  <2> QED BY <2>1, <2>2, Nameless, CloseIds
<1>3. ASSUME NEW s \in Session, io_thread_[s] \in Threads, NEW id \in Id, init(s, id),
             sessionAlone
      PROVE  IdsInv'
  BY <1>3, InitStep, Nameless DEF sessionAlone
<1>4. ASSUME NEW s \in Session, io_thread_[s] \in Threads, close_timeout(s), sessionAlone
      PROVE  IdsInv'
  <2>1. /\ runs(io_thread_[s], [op |-> "close_timeout", s |-> s])
        /\ tasks' = popped(io_thread_[s])
        /\ UNCHANGED builtVars /\ UNCHANGED session_id_ /\ UNCHANGED session_queue_
    BY <1>4 DEF close_timeout
  <2>2. SameTokens(tasks, tasks')
    BY <1>4, <2>1, PlainTask DEF Token
  <2> QED BY <1>4, <2>1, <2>2, Nameless, QuietStep DEF sessionAlone
<1>5. ASSUME NEW t \in Threads, NEW id \in Id, NEW msgs \in Seq(Message),
             SendMessageListToSession(t, id, msgs), alone
      PROVE  IdsInv'
  <2>1. /\ runs(t, [op |-> "SendMessageListToSession", id |-> id, msgs |-> msgs])
        /\ tasks' = popped(t)
        /\ UNCHANGED builtVars /\ UNCHANGED session_id_ /\ UNCHANGED closeVars
    BY <1>5 DEF SendMessageListToSession
  <2>2. SameTokens(tasks, tasks')
    BY <2>1, PlainTask DEF Token
  <2> QED BY <1>5, <2>1, <2>2, Nameless, QuietStep DEF alone
<1>6. ASSUME NEW t \in Threads, NEW id \in Id, CloseSession(t, id), alone PROVE IdsInv'
  <2> DEFINE s == session_queue_[t][id]
  <2>1. runs(t, [op |-> "CloseSession", id |-> id])
    BY <1>6 DEF CloseSession
  <2>2. popped(t) \in Queues /\ SameTokens(tasks, popped(t))
    BY <2>1, PlainTask DEF Token
  <2>3. CASE s = nullptr
    <3>1. tasks' = popped(t) /\ UNCHANGED sessionVars
      BY <1>6, <2>3 DEF CloseSession
    <3> QED BY <1>6, <2>2, <3>1, Nameless, QuietStep DEF alone
  <2>4. CASE s # nullptr
    <3>1. s \in Session /\ close(s, popped(t))
      BY <1>0, <1>6, <2>4 DEF CloseSession, ServerTypeOK, SessionTypeOK, CloseTypeOK
    <3> HIDE DEF s
    <3> QED BY <1>6, <2>2, <3>1, Nameless, CloseIds DEF alone
  <2> QED BY <2>3, <2>4
<1> QED BY <1>1, <1>2, <1>3, <1>4, <1>5, <1>6 DEF ThreadStep

LEMMA CompletionIds ==
  ASSUME IdsInv, CompletionStep, ServerTypeOK', Untouched' PROVE IdsInv'
<1>0. ServerTypeOK /\ tasks \in Queues
  BY DEF IdsInv, ServerTypeOK, IoTypeOK, Queues
<1>1. PICK s \in Session :
        /\ \/ hanlde_write(s) \/ hanlde_write_fails(s)
           \/ handle_read_fails(s) \/ \E n \in Nat : handle_read(s, n)
           \/ handle_safe_close(s) \/ close_timer_expires(s)
        /\ sessionAlone
  BY DEF CompletionStep
<1>2. UNCHANGED managerVars /\ UNCHANGED accepting
  BY <1>1, Nameless DEF sessionAlone
<1>3. UNCHANGED builtVars /\ UNCHANGED session_id_
  BY <1>1
  DEF hanlde_write, hanlde_write_fails, handle_read, handle_read_fails, handle_safe_close,
      close_timer_expires
<1>4. CASE hanlde_write(s) \/ (\E n \in Nat : handle_read(s, n))
           \/ handle_safe_close(s) \/ close_timer_expires(s)
  <2>1. UNCHANGED session_queue_
    BY <1>4 DEF hanlde_write, handle_read, handle_safe_close, close_timer_expires, closeVars
  <2>2. SameTokens(tasks, tasks')
    <3>1. CASE hanlde_write(s) \/ handle_safe_close(s)
      BY <3>1, SameTokensReflexive DEF hanlde_write, handle_safe_close
    <3>2. CASE close_timer_expires(s)
      BY <1>0, <3>2, PostKeepsTokens DEF close_timer_expires, Token
    <3>3. ASSUME NEW n \in Nat, handle_read(s, n) PROVE SameTokens(tasks, tasks')
      BY <1>0, <3>3, PostKeepsTokens, SameTokensReflexive DEF handle_read, Token
    <3> QED BY <1>4, <3>1, <3>2, <3>3
  <2> QED BY <1>2, <1>3, <2>1, <2>2, Nameless, QuietStep
<1>5. CASE hanlde_write_fails(s) \/ handle_read_fails(s)
  <2>1. num_write_handlers_[s] > 0 \/ num_read_handlers_[s] > 0
    BY <1>5 DEF hanlde_write_fails, handle_read_fails
  <2>2. session_id_[s] # 0
    BY <2>1 DEF IdsInv, Untouched
  <2>3. PICK writes : hanlde_close(s, writes, tasks)
    BY <1>5 DEF hanlde_write_fails, handle_read_fails
  <2> QED
    BY <1>0, <1>2, <1>3, <2>2, <2>3, SameTokensReflexive, Nameless, HandleCloseStep
<1> QED BY <1>1, <1>4, <1>5

LEMMA EnvironmentIds ==
  ASSUME IdsInv, EnvironmentStep \/ terminates, ServerTypeOK', Untouched' PROVE IdsInv'
<1>0. ServerTypeOK /\ tasks \in Queues
  BY DEF IdsInv, ServerTypeOK, IoTypeOK, Queues
<1>1. CASE terminates
  BY <1>1, Nameless, SameTokensReflexive, QuietStep DEF terminates
<1>2. ASSUME NEW h \in Session, app_send(h) \/ app_close(h) PROVE IdsInv'
  <2>1. SameTokens(tasks, tasks')
    BY <1>0, <1>2, SendKeepsTokens DEF app_send, app_close
  <2>2. UNCHANGED sessionVars /\ UNCHANGED managerVars /\ UNCHANGED serverVars
    BY <1>2 DEF app_send, app_close
  <2> QED BY <2>1, <2>2, Nameless, QuietStep
<1>3. ASSUME NEW t \in Threads, check_keep_alive(t) PROVE IdsInv'
  <2>1. UNCHANGED sessionVars /\ UNCHANGED managerVars /\ UNCHANGED serverVars
    BY <1>3 DEF check_keep_alive
  <2> QED BY <1>0, <1>3, <2>1, KeepAliveKeepsTokens, Nameless, QuietStep
<1>4. ASSUME NEW s \in Session, handle_accept_fails(s) PROVE IdsInv'
  BY <1>4, SameTokensReflexive, Nameless, QuietStep DEF handle_accept_fails
<1>5. ASSUME NEW s \in Session, handle_accept(s) PROVE IdsInv'
  <2> DEFINE t == io_thread_[s]
  <2>1. accepting = s /\ connected(s, t) /\ accept_next(thread_load_')
    BY <1>5 DEF handle_accept
  <2>2. t \in Threads
    BY <1>0, <2>1 DEF IdsInv, Binding, ServerTypeOK, SessionTypeOK, BuiltTypeOK
  <2>3. UNCHANGED <<session_id_, session_queue_>>
    BY <1>5 DEF handle_accept, sessionButBuiltVars, closeVars
  <2>4. \/ \E q \in Session : /\ io_thread_[q] = 0 /\ accepting' = q
                              /\ \E u \in Threads :
                                   io_thread_' = [io_thread_ EXCEPT ![q] = u]
        \/ accepting' = nullptr /\ io_thread_' = io_thread_
    BY <2>1, ThreadIsChosen DEF accept_next, unbuilt, construct, builtVars
  <2>5. io_thread_'[s] = t /\ accepting' # s
    BY <2>2, <2>4, IdFacts DEF IdsInv, ServerTypeOK, SessionTypeOK, BuiltTypeOK
  <2>6. \A q \in Session \ {s} :
          /\ io_thread_[q] # 0 => io_thread_'[q] = io_thread_[q]
          /\ io_thread_'[q] = 0 \/ accepting' = q => io_thread_[q] = 0 \/ accepting = q
          /\ accepting' = q => io_thread_'[q] # 0
    BY <2>4, IdFacts DEF IdsInv, ServerTypeOK, SessionTypeOK, BuiltTypeOK
  <2> HIDE DEF t
  <2>7. io_thread_'[s] = t
    BY <2>5
  <2> QED BY <2>1, <2>2, <2>3, <2>5, <2>6, ConnectedStep
<1>6. ASSUME NEW s \in Session, connect(s) PROVE IdsInv'
  <2> DEFINE t == get_min_load_thread(thread_load_)
  <2>1. t \in Threads
    BY ThreadIsChosen
  <2> HIDE DEF t
  <2>2. /\ io_thread_[s] = 0 /\ connected(s, t)
        /\ io_thread_' = [io_thread_ EXCEPT ![s] = t]
    BY <1>6 DEF connect, unbuilt, construct, t
  <2>3. handler_thread_id_[s] = 0 /\ accepting # s
    BY <2>2 DEF IdsInv, Binding
  <2>4. UNCHANGED <<session_id_, session_queue_>> /\ accepting' = accepting
    BY <1>6 DEF connect, sessionButBuiltVars, closeVars, serverVars
  <2>5. io_thread_'[s] = t
        /\ \A q \in Session \ {s} : io_thread_'[q] = io_thread_[q]
    BY <2>2 DEF IdsInv, ServerTypeOK, SessionTypeOK, BuiltTypeOK
  <2>6. \A q \in Session \ {s} :
          /\ io_thread_[q] # 0 => io_thread_'[q] = io_thread_[q]
          /\ io_thread_'[q] = 0 \/ accepting' = q => io_thread_[q] = 0 \/ accepting = q
          /\ accepting' = q => io_thread_'[q] # 0
    BY <2>4, <2>5 DEF IdsInv, Binding
  <2> QED BY <2>1, <2>2, <2>3, <2>4, <2>5, <2>6, ConnectedStep
<1>7. ASSUME NEW s \in Session, handle_accept_throws(s) \/ connect_throws(s) PROVE IdsInv'
  <2>1. PICK id \in Id : on_session_connected_throws(s, id)
    BY <1>7 DEF handle_accept_throws, connect_throws, connected_throws
  <2>2. UNCHANGED <<tasks, session_id_, session_queue_>>
    BY <1>7 DEF handle_accept_throws, connect_throws, connected_throws, sessionButBuiltVars,
                closeVars
  <2>3. CASE handle_accept_throws(s)
    <3>1. accepting = s /\ accepting' = nullptr /\ io_thread_' = io_thread_
      BY <2>3 DEF handle_accept_throws, builtVars
    <3>2. io_thread_[s] # 0 /\ accepting' # s
      BY <3>1, IdFacts DEF IdsInv, Binding
    <3> QED BY <2>1, <2>2, <3>1, <3>2, ThrownStep
  <2>4. CASE connect_throws(s)
    <3> DEFINE t == get_min_load_thread(thread_load_)
    <3>1. t \in Threads /\ 0 \notin Threads
      BY ThreadIsChosen, IdFacts
    <3> HIDE DEF t
    <3>2. /\ io_thread_[s] = 0 /\ accepting' = accepting
          /\ io_thread_' = [io_thread_ EXCEPT ![s] = t]
      BY <2>4 DEF connect_throws, unbuilt, construct, t
    <3>3. accepting # s
      BY <3>2 DEF IdsInv, Binding
    <3>4. /\ io_thread_'[s] = t
          /\ \A q \in Session \ {s} : io_thread_'[q] = io_thread_[q]
      BY <3>2 DEF IdsInv, ServerTypeOK, SessionTypeOK, BuiltTypeOK
    <3>5. io_thread_'[s] # 0 /\ accepting' # s
      BY <3>1, <3>2, <3>3, <3>4
    <3> QED BY <2>1, <2>2, <3>2, <3>4, <3>5, ThrownStep
  <2> QED BY <1>7, <2>3, <2>4
<1> QED BY <1>1, <1>2, <1>3, <1>4, <1>5, <1>6, <1>7 DEF EnvironmentStep

LEMMA IdsStep == ASSUME IdsInv, [Next]_vars PROVE IdsInv'
<1>1. ServerTypeOK'
  BY ServerTypeStep DEF IdsInv
<1>2. CASE UNCHANGED vars
  <2>1. UNCHANGED tasks /\ UNCHANGED sessionVars /\ UNCHANGED managerVars
        /\ UNCHANGED serverVars
    BY <1>2 DEF vars
  <2>2. Untouched'
    BY <2>1, UntouchedSame DEF IdsInv, sessionVars, readVars, touchVars
  <2> QED BY <1>1, <2>1, <2>2, SameTokensReflexive, Nameless, QuietStep
<1>3. CASE Next
  BY <1>1, <1>3, UntouchedStep, Steps, MainIds, ThreadIds, CompletionIds, EnvironmentIds
  DEF IdsInv
<1> QED BY <1>2, <1>3

LEMMA IdsInitially == Init => IdsInv
<1> SUFFICES ASSUME Init PROVE IdsInv
  OBVIOUS
<1>1. ServerTypeOK
  BY InitialType
<1>2. IInv
  BY Initially DEF Init
<1>3. \A t \in Threads : DOMAIN tasks[t] = {}
  BY DEF Init
<1>4. Untouched
  BY DEF Init, SessionInit, Untouched
<1>5. Binding
  <2>1. PICK first \in Session :
          /\ accepting = first
          /\ io_thread_ = [s \in Session |->
                             IF s = first THEN get_min_load_thread(thread_load_) ELSE 0]
    BY DEF Init
  <2>2. get_min_load_thread(thread_load_) \in Threads /\ 0 \notin Threads
    BY ThreadIsChosen DEF Threads
  <2>3. \A s \in Session :
          session_id_[s] = 0 /\ handler_session_id_[s] = 0 /\ handler_thread_id_[s] = 0
    BY DEF Init, SessionInit, ManagerInit
  <2> QED BY <2>1, <2>2, <2>3 DEF Binding
<1>6. TokensOnce(tasks) /\ InitNames /\ ClosedNames
  BY <1>3 DEF TokensOnce, InitNames, ClosedNames, waits
<1>7. Carried
  BY DEF Init, ManagerInit, Carried
<1>8. IdsNameOnePair
  BY DEF Init, SessionInit, IdsNameOnePair
<1>9. LostNames
  BY TypesAssumption DEF Init, ManagerInit, LostNames
<1> QED BY <1>1, <1>2, <1>4, <1>5, <1>6, <1>7, <1>8, <1>9 DEF IdsInv

LEMMA IdsInvariance == Spec => []IdsInv
BY IdsInitially, IdsStep, PTL DEF Spec

----------------------------------------------------------------------------
\* The session a thread finds under an id is the one whose handler the main
\* thread finds under that id, whatever has been closed and reused
\* (tcp_session_handler.cpp:16-35).
THEOREM IdsNamePairs == Spec => []IdsNameOnePair
BY IdsInvariance, PTL DEF IdsInv

----------------------------------------------------------------------------
(* One owner for every id.                                                 *)

\* A task of the queue of t that owns the id, or (0) the session_queue_.
LEMMA OwnerKinds ==
  ASSUME ServerTypeOK, NEW t \in Threads, NEW id \in Id, NEW i
  PROVE  i \in owners(t, id) <=>
           \/ i = 0 /\ session_queue_[t][id] # nullptr
           \/ i \in DOMAIN tasks[t] /\ tasks[t][i] = closedTask(id)
           \/ i \in DOMAIN tasks[t] /\ \E s \in Session : tasks[t][i] = initTask(s, id)
<1>1. ASSUME NEW task \in Task
      PROVE  task.op \in {"init", "on_session_closed"} /\ task.id = id <=>
               task = closedTask(id) \/ \E s \in Session : task = initTask(s, id)
  BY DEF Task, closedTask, initTask
<1>2. \A j \in DOMAIN tasks[t] : tasks[t][j] \in Task
  BY ElementOfSeq DEF ServerTypeOK, IoTypeOK
<1> QED BY <1>1, <1>2 DEF owners

LEMMA OwnersOfNoId ==
  ASSUME IdsInv, NEW id \in Id, session_handler_map_[id] = nullptr, NEW t \in Threads
  PROVE  owners(t, id) = {}
<1> SUFFICES ASSUME NEW i \in owners(t, id) PROVE FALSE
  OBVIOUS
<1>1. CASE session_queue_[t][id] # nullptr
  BY <1>1 DEF IdsInv, IdsNameOnePair
<1>2. CASE waits(tasks, t, closedTask(id))
  BY <1>2 DEF IdsInv, ClosedNames
<1>3. ASSUME NEW s \in Session, waits(tasks, t, initTask(s, id)) PROVE FALSE
  <2>1. handler_session_id_[s] = id /\ id # 0
    BY <1>3 DEF IdsInv, InitNames
  <2> QED BY <2>1, IdFacts DEF IdsInv, IInv, HandlersIndexed
<1> QED BY <1>1, <1>2, <1>3, OwnerKinds DEF IdsInv, waits

LEMMA OwnerOfLiveId ==
  ASSUME IdsInv, NEW id \in Id, session_handler_map_[id] # nullptr
  PROVE  \E t \in Threads : \E i \in owners(t, id) :
           \A u \in Threads : \A j \in owners(u, id) : u = t /\ j = i
<1> DEFINE s == session_handler_map_[id]
           t == handler_thread_id_[s]
<1>1. s \in Session /\ id # 0 /\ handler_session_id_[s] = id
  BY IdFacts DEF IdsInv, IInv, HandlersIndexed, ServerTypeOK, ManagerTypeOK
<1>2. t \in Threads /\ io_thread_[s] = t
  BY <1>1 DEF IdsInv, Binding, ServerTypeOK, ManagerTypeOK
<1> HIDE DEF s, t
<1>3. ASSUME NEW u \in Threads, NEW j, j \in owners(u, id)
      PROVE  \/ /\ session_id_[s] # 0 /\ u = t /\ j = 0
                /\ session_queue_[t][id] = s
             \/ /\ session_id_[s] # 0 /\ u = MainThread
                /\ j \in DOMAIN tasks[u] /\ tasks[u][j] = closedTask(id)
                /\ session_queue_[t][id] = nullptr
             \/ /\ session_id_[s] = 0 /\ u = t
                /\ j \in DOMAIN tasks[u] /\ tasks[u][j] = initTask(s, id)
  <2>1. CASE j = 0 /\ session_queue_[u][id] # nullptr
    <3>1. session_queue_[u][id] = s /\ handler_thread_id_[s] = u /\ session_id_[s] = id
      BY <2>1 DEF IdsInv, IdsNameOnePair, s
    <3> QED BY <1>1, <2>1, <3>1 DEF t
  <2>2. CASE j \in DOMAIN tasks[u] /\ tasks[u][j] = closedTask(id)
    <3>1. u = MainThread /\ session_id_[s] = id /\ session_queue_[io_thread_[s]][id] = nullptr
      BY <2>2 DEF IdsInv, ClosedNames, waits, s
    <3> QED BY <1>1, <1>2, <2>2, <3>1
  <2>3. ASSUME NEW q \in Session, j \in DOMAIN tasks[u], tasks[u][j] = initTask(q, id)
        PROVE  session_id_[s] = 0 /\ u = t /\ tasks[u][j] = initTask(s, id)
    <3>1. /\ session_id_[q] = 0
          /\ handler_session_id_[q] = id /\ handler_thread_id_[q] = u
      BY <2>3 DEF IdsInv, InitNames, waits
    <3>2. q = s
      BY <1>1, <3>1 DEF IdsInv, IInv, HandlersIndexed, s
    <3> QED BY <2>3, <3>1, <3>2 DEF t
  <2> QED BY <1>3, <2>1, <2>2, <2>3, OwnerKinds DEF IdsInv
<1>4. TokensOnce(tasks) /\ ServerTypeOK /\ s # nullptr
  BY <1>1, IdFacts DEF IdsInv
<1>5. CASE session_id_[s] = 0
  <2>1. PICK i \in DOMAIN tasks[t] : tasks[t][i] = initTask(s, id)
    BY <1>1, <1>5 DEF IdsInv, Carried, waits, t
  <2>2. i \in owners(t, id)
    BY <1>1, <1>2, <1>4, <2>1, OwnerKinds
  <2>3. \A u \in Threads : \A j \in owners(u, id) : u = t /\ j = i
    BY <1>2, <1>3, <1>4, <1>5, <2>1, TokenForms DEF TokensOnce
  <2> QED BY <1>2, <2>2, <2>3
<1>6. CASE session_id_[s] # 0 /\ session_queue_[t][id] = s
  <2>1. 0 \in owners(t, id)
    BY <1>2, <1>4, <1>6, OwnerKinds
  <2>2. \A u \in Threads : \A j \in owners(u, id) : u = t /\ j = 0
    BY <1>3, <1>4, <1>6
  <2> QED BY <1>2, <2>1, <2>2
<1>7. CASE session_id_[s] # 0 /\ session_queue_[t][id] # s
  <2>1. PICK i \in DOMAIN tasks[MainThread] : tasks[MainThread][i] = closedTask(id)
    BY <1>1, <1>7 DEF IdsInv, Carried, waits, t
  <2>2. i \in owners(MainThread, id)
    BY <1>4, <2>1, OwnerKinds, MainThreadIsThread
  <2>3. \A u \in Threads : \A j \in owners(u, id) : u = MainThread /\ j = i
    BY <1>3, <1>4, <1>7, <2>1, TokenForms, MainThreadIsThread DEF TokensOnce
  <2> QED BY <2>2, <2>3, MainThreadIsThread
<1> QED BY <1>5, <1>6, <1>7

LEMMA OneOwner == IdsInv => OneOwnerPerId
<1> SUFFICES ASSUME IdsInv, NEW id \in Id
             PROVE  Cardinality(UNION {{t} \X owners(t, id) : t \in Threads})
                      = IF id \in LiveIds THEN 1 ELSE 0
  BY DEF OneOwnerPerId
<1> DEFINE all == UNION {{t} \X owners(t, id) : t \in Threads}
<1>1. CASE session_handler_map_[id] = nullptr
  <2>1. all = {}
    BY <1>1, OwnersOfNoId
  <2> QED BY <1>1, <2>1, FS_EmptySet DEF LiveIds
<1>2. CASE session_handler_map_[id] # nullptr
  <2>1. PICK t \in Threads : \E i \in owners(t, id) :
          \A u \in Threads : \A j \in owners(u, id) : u = t /\ j = i
    BY <1>2, OwnerOfLiveId
  <2>2. PICK i \in owners(t, id) :
          \A u \in Threads : \A j \in owners(u, id) : u = t /\ j = i
    BY <2>1
  <2>3. all = {<<t, i>>}
    BY <2>2
  <2> QED BY <1>2, <2>3, FS_Singleton DEF LiveIds
<1> QED BY <1>1, <1>2

----------------------------------------------------------------------------
(* The server drives its manager as the manager's specification says.      *)

LEMMA ManagerStep == ASSUME IdsInv, [Next]_vars PROVE [ManagerNext]_managerVars
<1>0. ServerTypeOK
  BY DEF IdsInv
<1>1. CASE UNCHANGED vars
  BY <1>1 DEF vars
<1>2. ASSUME NEW s \in Session, NEW t \in Threads, connected(s, t),
             io_thread_[s] = 0 \/ accepting = s
      PROVE  ManagerNext
  BY <1>2, FreshSession DEF connected, Connect, ManagerNext
<1>3. ASSUME NEW id \in Id, session_closed(id) PROVE ManagerNext
  <2>1. IoTypeOK /\ tasks[MainThread] # <<>> /\ Head(tasks[MainThread]) = closedTask(id)
    BY <1>0, <1>3 DEF session_closed, runs, closedTask, ServerTypeOK
  <2>2. waits(tasks, MainThread, closedTask(id))
    BY <2>1, PopWaits, MainThreadIsThread
  <2>3. session_handler_map_[id] # nullptr
    BY <2>2, MainThreadIsThread DEF IdsInv, ClosedNames
  <2> QED BY <1>3, <2>3 DEF session_closed, Close, ManagerNext
<1>4. CASE MainStep
  BY <1>3, <1>4
  DEF MainStep, alone, session_SendMessageListDirectly, SendMessageListToHandler
<1>5. CASE ThreadStep
  BY <1>5 DEF ThreadStep, alone, sessionAlone, session_PackMessageList, keep_alive_close
<1>6. CASE CompletionStep
  BY <1>6 DEF CompletionStep, sessionAlone
<1>7. CASE EnvironmentStep
  <2>1. ASSUME NEW s \in Session, handle_accept(s) PROVE ManagerNext
    <3>1. connected(s, io_thread_[s]) /\ accepting = s /\ io_thread_[s] \in Threads
      BY <1>0, <2>1 DEF handle_accept, IdsInv, Binding, ServerTypeOK, SessionTypeOK, BuiltTypeOK
    <3> QED BY <1>2, <3>1
  <2>2. ASSUME NEW s \in Session, connect(s) PROVE ManagerNext
    <3>1. /\ connected(s, get_min_load_thread(thread_load_))
          /\ io_thread_[s] = 0 /\ get_min_load_thread(thread_load_) \in Threads
      BY <1>0, <2>2, ThreadIsChosen DEF connect, unbuilt
    <3> QED BY <1>2, <3>1
  <2>3. ASSUME NEW s \in Session, handle_accept_throws(s) \/ connect_throws(s)
        PROVE  ManagerNext
    <3>1. /\ io_thread_[s] = 0 \/ accepting = s
          /\ \E id \in Id : on_session_connected_throws(s, id)
      BY <2>3 DEF handle_accept_throws, connect_throws, connected_throws, unbuilt
    <3> QED BY <3>1, FreshSession DEF ConnectThrows, ManagerNext
  <2> QED
    BY <1>7, <2>1, <2>2, <2>3
    DEF EnvironmentStep, handle_accept_fails, app_send, app_close, check_keep_alive
<1>8. CASE terminates
  BY <1>8 DEF terminates
<1> QED BY <1>0, <1>1, <1>4, <1>5, <1>6, <1>7, <1>8, Steps

----------------------------------------------------------------------------
\* An id in the map is carried by exactly one of a posted init, an entry of
\* a session_queue_ and a posted on_session_closed, on one thread, and an id
\* outside the map by none: no close is reported twice or never
\* (tcp_session.cpp:125-136, io_service_thread_manager.cpp:146-177).
THEOREM IdsHaveOneOwner == Spec => []OneOwnerPerId
BY IdsInvariance, OneOwner, PTL

\* The server is a caller the manager's specification allows: it connects a
\* handler once and closes only ids that the map holds
\* (tcp_server.cpp:34-48, tcp_client.cpp:60-73, tcp_session.cpp:125-136).
THEOREM ServerImplementsManager == Spec => ImplementsManager
<1>1. Init => ManagerInit
  BY DEF Init
<1> QED BY <1>1, ManagerStep, IdsInvariance, PTL DEF Spec, ImplementsManager, ManagerSpec

\* So the generator, two levels down, is driven as its specification says:
\* only ids that are out come back, and those of connections that failed stay
\* out for ever (io_service_thread_manager.cpp:123-132, 173-176).
THEOREM ServerImplementsGenerator == Spec => ImplementsGenerator
BY ServerImplementsManager, ManagerImplementsGenerator DEF ImplementsManager

\* What the manager promises on its own it keeps in the server: handlers are
\* indexed by the ids they answer to (io_service_thread_manager.cpp:129-160).
THEOREM ServerIndexesHandlers == Spec => []HandlersIndexed
BY IdsInvariance, PTL DEF IdsInv, IInv

\* thread_load_ counts live handlers while the threads run
\* (io_service_thread_manager.cpp:138-170).
THEOREM ServerCountsLoads == Spec => []LoadMatchesHandlers
BY IdsInvariance, PTL DEF IdsInv, IInv

----------------------------------------------------------------------------
(***************************************************************************)
(* 4. Sessions.                                                            *)
(*                                                                         *)
(* Sessions close once and with a report, write one batch at a time, write *)
(* nothing once they are closed, and leave no batch of messages without a  *)
(* task to take it.                                                        *)
(*                                                                         *)
(* Each step is described twice, once by what it does to the queues and    *)
(* once by what it does to one session; the invariants follow from the     *)
(* descriptions without another look at the steps.                         *)
(***************************************************************************)

closeTimeout(s) == [op |-> "close_timeout", s |-> s]
direct(h) == [op |-> "handler.SendMessageListDirectly", s |-> h]
pack(h) == [op |-> "handler.PackMessageList", s |-> h]
deliver(s) ==
  [op |-> IF io_thread_[s] = MainThread THEN "session.SendMessageListDirectly"
          ELSE "session.PackMessageList",
   s |-> s]

\* Task y waits somewhere behind task x.
Behind(queues, t, x, y) ==
  \E i, j \in DOMAIN queues[t] : i < j /\ queues[t][i] = x /\ queues[t][j] = y

\* The session with this id is about to hand its batch over.
PacksFor(s, id) ==
  /\ session_id_[s] = id /\ messages_received_[s] # <<>> /\ io_thread_[s] \in Threads
  /\ waits(tasks, io_thread_[s], [op |-> "session.PackMessageList", s |-> s])

\* What is known when such a task is posted.
Caused(x) ==
  /\ x.op = "close_timeout" => close_timer_[x.s]
  /\ x.op = "handler.SendMessageListDirectly" =>
       handler_session_id_[x.s] # 0 /\ handler_thread_id_[x.s] = MainThread
  /\ x.op = "handler.PackMessageList" =>
       handler_session_id_[x.s] # 0 /\ handler_thread_id_[x.s] # MainThread
  /\ x.op = "session.SendMessageListDirectly" =>
       session_id_[x.s] # 0 /\ io_thread_[x.s] = MainThread
  /\ x.op = "session.PackMessageList" =>
       session_id_[x.s] # 0 /\ io_thread_[x.s] # MainThread
  /\ x.op = "SendMessageListToHandler" => \E s \in Session : PacksFor(s, x.id)
  /\ x.op = "init" => handler_thread_id_[x.s] = 0

Grows(before, after) ==
  \A t \in Threads : \A x :
    /\ waits(before, t, x) => waits(after, t, x)
    /\ waits(after, t, x) => waits(before, t, x) \/ Caused(x)
    /\ \A y : Behind(after, t, x, y) => Behind(before, t, x, y) \/ Caused(y)

\* The same when a task may have left the head of a queue to be run.
Flows(after) ==
  \A t \in Threads : \A x :
    /\ waits(tasks, t, x) /\ ~ runs(t, x) => waits(after, t, x)
    /\ waits(after, t, x) => waits(tasks, t, x) \/ Caused(x)
    /\ \A y : Behind(after, t, x, y) => Behind(tasks, t, x, y) \/ Caused(y)

\* Thread t runs the head of its queue, with what is known of the functions
\* that take a batch.
Takes(t) ==
  LET task == Head(tasks[t])
  IN  /\ tasks[t] # <<>> /\ Grows(popped(t), tasks')
      /\ task.op = "session.PackMessageList" => session_PackMessageList(task.s)
      /\ task.op = "session.SendMessageListDirectly" =>
           session_SendMessageListDirectly(task.s)
      /\ task.op = "handler.PackMessageList" => handler_PackMessageList(task.s)
      /\ task.op = "handler.SendMessageListDirectly" =>
           handler_SendMessageListDirectly(task.s) /\ alone

----------------------------------------------------------------------------
(* What a step does to the queues.                                         *)

LEMMA GrowsReflexive == ASSUME NEW a PROVE Grows(a, a)
BY DEF Grows

LEMMA GrowsTransitive ==
  ASSUME NEW a, NEW b, NEW c, Grows(a, b), Grows(b, c)
  PROVE  Grows(a, c)
BY DEF Grows

LEMMA GrowingFlows ==
  ASSUME NEW a, NEW b, Grows(a, b)
  PROVE  Flows(a) => Flows(b)
BY DEF Grows, Flows

LEMMA FlowsReflexive == Flows(tasks)
BY DEF Flows

LEMMA PostBehind ==
  ASSUME NEW queues \in Queues, NEW t \in Threads, NEW task,
         NEW u \in Threads, NEW x, NEW y, Behind(post(queues, t, task), u, x, y)
  PROVE  Behind(queues, u, x, y) \/ y = task
<1>1. CASE u # t
  BY <1>1 DEF post, Queues, Behind
<1>2. CASE u = t
  <2> DEFINE q == queues[t]
             n == Len(q)
  <2>1. q \in Seq(Task) /\ n \in Nat /\ DOMAIN q = 1 .. n
    BY LenProperties DEF Queues
  <2>2. post(queues, t, task)[u] = Append(q, task)
    BY <1>2 DEF post, Queues
  <2>3. /\ DOMAIN Append(q, task) = 1 .. n + 1
        /\ \A i \in 1 .. n : Append(q, task)[i] = q[i]
        /\ Append(q, task)[n + 1] = task
    BY <2>1
  <2> HIDE DEF q, n
  <2>4. PICK i \in 1 .. n + 1, j \in 1 .. n + 1 :
          i < j /\ Append(q, task)[i] = x /\ Append(q, task)[j] = y
    BY <2>2, <2>3 DEF Behind
  <2>5. CASE j = n + 1
    BY <2>3, <2>4, <2>5
  <2>6. CASE j # n + 1
    <3>1. i \in 1 .. n /\ j \in 1 .. n
      BY <2>1, <2>4, <2>6
    <3>2. q[i] = x /\ q[j] = y /\ i < j
      BY <2>3, <2>4, <3>1
    <3> QED BY <1>2, <2>1, <3>1, <3>2 DEF Behind, q
  <2> QED BY <2>5, <2>6
<1> QED BY <1>1, <1>2

LEMMA PostGrows ==
  ASSUME NEW queues \in Queues, NEW t, NEW task, Caused(task)
  PROVE  Grows(queues, post(queues, t, task))
<1>1. CASE t \in Threads
  BY <1>1, PostWaits, PostBehind DEF Grows
<1>2. CASE t \notin Threads
  <2>1. post(queues, t, task) = queues
    BY <1>2 DEF post, Queues
  <2> QED BY <2>1, GrowsReflexive
<1> QED BY <1>1, <1>2

LEMMA PopFlows ==
  ASSUME IoTypeOK, NEW t \in Threads, tasks[t] # <<>>
  PROVE  Flows(popped(t)) /\ popped(t) \in Queues
<1>1. popped(t) \in Queues
  BY PopType
<1>2. ASSUME NEW u \in Threads, NEW x, NEW y, Behind(popped(t), u, x, y)
      PROVE  Behind(tasks, u, x, y)
  <2>1. CASE u # t
    BY <1>2, <2>1 DEF popped, IoTypeOK, Behind
  <2>2. CASE u = t
    <3> DEFINE q == tasks[t]
               n == Len(q)
    <3>1. q \in Seq(Task) /\ n \in Nat \ {0} /\ DOMAIN q = 1 .. n
      BY LenProperties, EmptySeq DEF IoTypeOK
    <3>2. popped(t)[t] = Tail(q)
      BY DEF popped, IoTypeOK
    <3>3. /\ DOMAIN Tail(q) = 1 .. n - 1
          /\ \A i \in 1 .. n - 1 : Tail(q)[i] = q[i + 1]
      BY <3>1
    <3> HIDE DEF q, n
    <3>4. PICK i \in 1 .. n - 1, j \in 1 .. n - 1 :
            i < j /\ Tail(q)[i] = x /\ Tail(q)[j] = y
      BY <1>2, <2>2, <3>2, <3>3 DEF Behind
    <3>5. i + 1 \in 1 .. n /\ j + 1 \in 1 .. n /\ i + 1 < j + 1
      BY <3>1, <3>4
    <3>6. q[i + 1] = x /\ q[j + 1] = y
      BY <3>3, <3>4
    <3> QED BY <2>2, <3>1, <3>5, <3>6 DEF Behind, q
  <2> QED BY <2>1, <2>2
<1> QED BY <1>1, <1>2, PopWaits DEF Flows, runs

LEMMA KeepAliveGrows ==
  ASSUME ServerTypeOK, NEW t \in Threads, check_keep_alive(t)
  PROVE  Grows(tasks, tasks')
<1>1. PICK expired \in SUBSET Session : \E order \in SetToSeqs(expired) :
        tasks' = [tasks EXCEPT
          ![t] = @ \o [i \in DOMAIN order |-> [op |-> "close", s |-> order[i]]]]
  BY DEF check_keep_alive
<1>2. PICK order \in SetToSeqs(expired) :
        tasks' = [tasks EXCEPT
          ![t] = @ \o [i \in DOMAIN order |-> [op |-> "close", s |-> order[i]]]]
  BY <1>1
<1> DEFINE closes == [i \in DOMAIN order |-> [op |-> "close", s |-> order[i]]]
           q == tasks[t]
           n == Len(q)
           m == Cardinality(expired)
<1>3. m \in Nat /\ DOMAIN order = 1 .. m
  BY FS_Subset, FS_CardinalityType, TypesAssumption DEF SetToSeqs
<1>4. closes \in Seq({closes[i] : i \in 1 .. m}) /\ Len(closes) = m
  BY <1>3
<1>5. \A i \in 1 .. m : Caused(closes[i])
  BY <1>3 DEF Caused
<1>6. q \in Seq(Task) /\ n \in Nat /\ DOMAIN q = 1 .. n
  BY LenProperties DEF ServerTypeOK, IoTypeOK
<1> HIDE DEF closes
<1>7. /\ DOMAIN (q \o closes) = 1 .. n + m
      /\ \A i \in 1 .. n : (q \o closes)[i] = q[i]
      /\ \A i \in 1 .. n + m : i \notin 1 .. n =>
           (q \o closes)[i] = closes[i - n] /\ i - n \in 1 .. m
  BY <1>3, <1>4, <1>6
<1>8. /\ tasks[t] = q /\ tasks'[t] = q \o closes
      /\ \A u \in Threads : u # t => tasks'[u] = tasks[u]
  BY <1>2 DEF closes, ServerTypeOK, IoTypeOK
<1>9. 1 .. n \subseteq 1 .. n + m
  BY <1>3, <1>6
<1>10. \A i \in 1 .. n + m : i \notin 1 .. n => Caused((q \o closes)[i])
  BY <1>5, <1>7
<1> HIDE DEF q, n, m
<1>11. ASSUME NEW u \in Threads, NEW x
       PROVE  /\ waits(tasks, u, x) => waits(tasks', u, x)
              /\ waits(tasks', u, x) => waits(tasks, u, x) \/ Caused(x)
  <2>1. CASE u # t
    BY <1>8, <2>1 DEF waits
  <2>2. CASE u = t
    <3>1. waits(tasks, u, x) <=> \E i \in 1 .. n : q[i] = x
      BY <1>6, <1>8, <2>2 DEF waits
    <3>2. waits(tasks', u, x) <=> \E i \in 1 .. n + m : (q \o closes)[i] = x
      BY <1>7, <1>8, <2>2 DEF waits
    <3> QED BY <1>7, <1>9, <1>10, <3>1, <3>2
  <2> QED BY <2>1, <2>2
<1>12. ASSUME NEW u \in Threads, NEW x, NEW y, Behind(tasks', u, x, y), ~ Caused(y)
       PROVE  Behind(tasks, u, x, y)
  <2>1. CASE u # t
    BY <1>8, <1>12, <2>1 DEF Behind
  <2>2. CASE u = t
    <3>1. PICK i \in 1 .. n + m, j \in 1 .. n + m :
            i < j /\ (q \o closes)[i] = x /\ (q \o closes)[j] = y
      BY ZenonT(30), <1>7, <1>8, <1>12, <2>2 DEF Behind
    <3>2. j \in 1 .. n
      BY <1>10, <1>12, <3>1
    <3>3. i \in 1 .. n
      BY <1>6, <3>1, <3>2
    <3> QED BY <1>6, <1>7, <1>8, <2>2, <3>1, <3>2, <3>3 DEF Behind
  <2> QED BY <2>1, <2>2
<1> QED BY <1>11, <1>12 DEF Grows

LEMMA SendGrows ==
  ASSUME ServerTypeOK, NEW h \in Session, handler_session_id_[h] # 0,
         NEW queues \in Queues, send(h, queues) \/ handler_close(h, queues)
  PROVE  Grows(queues, tasks')
<1>1. CASE send(h, queues)
  BY <1>1, PostGrows, GrowsReflexive DEF send, Caused
<1>2. CASE handler_close(h, queues)
  <2>1. packed(queues, h) \in Queues
    BY PackedType DEF ServerTypeOK
  <2>2. Grows(queues, packed(queues, h))
    BY PostGrows, GrowsReflexive DEF packed, Caused
  <2>3. Grows(packed(queues, h), tasks')
    BY <1>2, <2>1, PostGrows DEF handler_close, Caused
  <2> QED BY <2>2, <2>3, GrowsTransitive
<1> QED BY <1>1, <1>2

LEMMA CloseGrows ==
  ASSUME NEW s, NEW writes, NEW queues \in Queues,
         hanlde_close(s, writes, queues) \/ close(s, queues)
  PROVE  Grows(queues, tasks')
BY PostGrows, GrowsReflexive DEF close, hanlde_close, Caused

LEMMA RunsOp ==
  ASSUME NEW t
  PROVE  /\ \A op, s : runs(t, [op |-> op, s |-> s]) =>
              Head(tasks[t]).op = op /\ Head(tasks[t]).s = s
         /\ \A op, id : runs(t, [op |-> op, id |-> id]) => Head(tasks[t]).op = op
         /\ \A op, s, id : runs(t, [op |-> op, s |-> s, id |-> id]) => Head(tasks[t]).op = op
         /\ \A op, id, msgs : runs(t, [op |-> op, id |-> id, msgs |-> msgs]) =>
              Head(tasks[t]).op = op
BY DEF runs

LEMMA TakesBy ==
  ASSUME NEW t, NEW x, Grows(popped(t), tasks'), tasks[t] # <<>>, x = Head(tasks[t]),
         \/ x.op \in {"init", "close", "close_timeout", "CloseSession",
                     "on_session_closed", "SendMessageListToSession",
                     "SendMessageListToHandler"}
         \/ x.op = "session.PackMessageList" /\ session_PackMessageList(x.s)
         \/ x.op = "session.SendMessageListDirectly" /\ session_SendMessageListDirectly(x.s)
         \/ x.op = "handler.PackMessageList" /\ handler_PackMessageList(x.s)
         \/ /\ x.op = "handler.SendMessageListDirectly"
            /\ handler_SendMessageListDirectly(x.s) /\ alone
  PROVE  Takes(t)
BY DEF Takes

LEMMA MainTakes == ASSUME IdsInv, MainStep PROVE Takes(MainThread)
<1>0. ServerTypeOK /\ IoTypeOK /\ MainThread \in Threads
  BY MainThreadIsThread DEF IdsInv, ServerTypeOK
<1> DEFINE queues == popped(MainThread)
<1>1. tasks[MainThread] # <<>>
  BY DEF MainStep, handler_PackMessageList, handler_SendMessageListDirectly,
         session_SendMessageListDirectly, session_closed, SendMessageListToHandler, runs
<1>2. queues \in Queues
  BY <1>0, <1>1, PopType
<1>3. ASSUME NEW h \in Session, handler_PackMessageList(h) PROVE Grows(queues, tasks')
  <2>1. tasks' = packed(queues, h)
    BY <1>3 DEF handler_PackMessageList
  <2> HIDE DEF queues
  <2> QED BY <1>2, <2>1, PostGrows, GrowsReflexive DEF packed, Caused
<1>4. ASSUME NEW id \in Id, session_closed(id) PROVE Grows(queues, tasks')
  <2> DEFINE h == session_handler_map_[id]
  <2>1. \/ tasks' = queues
        \/ h # nullptr /\ (send(h, queues) \/ handler_close(h, queues))
    BY <1>4 DEF session_closed
  <2>2. ASSUME h # nullptr PROVE h \in Session /\ handler_session_id_[h] # 0
    <3>1. h \in Session /\ id # 0
      BY <1>0, <2>2, IdFacts DEF ServerTypeOK, ManagerTypeOK
    <3> QED BY <3>1 DEF IdsInv, IInv, HandlersIndexed
  <2> HIDE DEF queues, h
  <2> QED BY <1>0, <1>2, <2>1, <2>2, SendGrows, GrowsReflexive
<1>5. ASSUME tasks' = queues PROVE Grows(queues, tasks')
  BY <1>5, GrowsReflexive
<1>6. Grows(queues, tasks')
  BY <1>3, <1>4, <1>5
  DEF MainStep, handler_SendMessageListDirectly, session_SendMessageListDirectly,
      SendMessageListToHandler
<1> DEFINE x == Head(tasks[MainThread])
<1>7. ASSUME NEW h \in Session,
             \/ handler_PackMessageList(h)
             \/ handler_SendMessageListDirectly(h) /\ alone
             \/ session_SendMessageListDirectly(h)
      PROVE  Takes(MainThread)
  <2>1. CASE handler_PackMessageList(h)
    <3>1. x.op = "handler.PackMessageList" /\ x.s = h
      BY <2>1 DEF handler_PackMessageList, runs
    <3> HIDE DEF x
    <3> QED BY <1>1, <1>6, <2>1, <3>1, TakesBy DEF x
  <2>2. CASE handler_SendMessageListDirectly(h) /\ alone
    <3>1. x.op = "handler.SendMessageListDirectly" /\ x.s = h
      BY <2>2 DEF handler_SendMessageListDirectly, runs
    <3> HIDE DEF x
    <3> QED BY <1>1, <1>6, <2>2, <3>1, TakesBy DEF x
  <2>3. CASE session_SendMessageListDirectly(h)
    <3>1. x.op = "session.SendMessageListDirectly" /\ x.s = h
      BY <2>3 DEF session_SendMessageListDirectly, runs
    <3> HIDE DEF x
    <3> QED BY <1>1, <1>6, <2>3, <3>1, TakesBy DEF x
  <2> QED BY <1>7, <2>1, <2>2, <2>3
<1>8. ASSUME NEW id, session_closed(id) \/ \E msgs : SendMessageListToHandler(id, msgs)
      PROVE  Takes(MainThread)
  <2>1. x.op \in {"on_session_closed", "SendMessageListToHandler"}
    <3>1. CASE session_closed(id)
      BY <3>1, RunsOp DEF session_closed
    <3>2. CASE \E msgs : SendMessageListToHandler(id, msgs)
      BY <3>2, RunsOp DEF SendMessageListToHandler
    <3> QED BY <1>8, <3>1, <3>2
  <2> HIDE DEF x
  <2> QED BY <1>1, <1>6, <2>1, TakesBy DEF x
<1> QED BY <1>7, <1>8 DEF MainStep

LEMMA ThreadTakes == ASSUME IdsInv, ThreadStep PROVE \E t \in Threads : Takes(t)
<1>0. ServerTypeOK /\ IoTypeOK
  BY DEF IdsInv, ServerTypeOK
<1>1. ASSUME NEW s \in Session, io_thread_[s] \in Threads,
             session_PackMessageList(s) \/ keep_alive_close(s) \/ close_timeout(s)
               \/ \E id \in Id : init(s, id)
      PROVE  \E t \in Threads : Takes(t)
  <2> DEFINE queues == popped(io_thread_[s])
  <2>1. tasks[io_thread_[s]] # <<>>
    BY <1>1 DEF session_PackMessageList, keep_alive_close, close_timeout, init, runs
  <2>2. queues \in Queues
    BY <1>0, <1>1, <2>1, PopType
  <2>3. \/ tasks' = queues \/ close(s, queues)
        \/ session_PackMessageList(s) /\ tasks' # queues
    BY <1>1 DEF keep_alive_close, close_timeout, init
  <2>6. ASSUME session_PackMessageList(s), tasks' # queues PROVE Grows(queues, tasks')
    <3> DEFINE list == [op |-> "SendMessageListToHandler", id |-> session_id_[s],
                        msgs |-> messages_received_[s]]
    <3>1. tasks' = post(queues, MainThread, list) /\ messages_received_[s] # <<>>
      BY <2>6 DEF session_PackMessageList
    <3>2. waits(tasks, io_thread_[s], [op |-> "session.PackMessageList", s |-> s])
      BY <1>0, <1>1, <2>1, <2>6, PopWaits DEF session_PackMessageList, runs
    <3>3. PacksFor(s, session_id_[s])
      BY <1>1, <3>1, <3>2 DEF PacksFor
    <3>4. Caused(list)
      BY <3>3 DEF Caused
    <3> HIDE DEF list, queues
    <3> QED BY <2>2, <3>1, <3>4, PostGrows
  <2> HIDE DEF queues
  <2>4. Grows(queues, tasks')
    BY <2>2, <2>3, <2>6, CloseGrows, GrowsReflexive
  <2> DEFINE x == Head(tasks[io_thread_[s]])
  <2>5. \/ x.op \in {"init", "close", "close_timeout"}
        \/ x.op = "session.PackMessageList" /\ x.s = s /\ session_PackMessageList(s)
    <3>1. CASE session_PackMessageList(s)
      BY <3>1, RunsOp DEF session_PackMessageList
    <3>2. CASE keep_alive_close(s)
      BY <3>2, RunsOp DEF keep_alive_close
    <3>3. CASE close_timeout(s)
      BY <3>3, RunsOp DEF close_timeout
    <3>4. CASE \E id \in Id : init(s, id)
      BY <3>4, RunsOp DEF init
    <3> QED BY <1>1, <3>1, <3>2, <3>3, <3>4
  <2> HIDE DEF x
  <2> QED BY <1>1, <2>1, <2>4, <2>5, TakesBy DEF queues, x
<1>2. ASSUME NEW t \in Threads, NEW id \in Id,
             \/ \E msgs \in Seq(Message) : SendMessageListToSession(t, id, msgs)
             \/ CloseSession(t, id)
      PROVE  Takes(t)
  <2> DEFINE queues == popped(t)
  <2>1. tasks[t] # <<>>
    BY <1>2 DEF SendMessageListToSession, CloseSession, runs
  <2>2. queues \in Queues
    BY <1>0, <2>1, PopType
  <2>3. tasks' = queues \/ close(session_queue_[t][id], queues)
    BY <1>2 DEF SendMessageListToSession, CloseSession
  <2> HIDE DEF queues
  <2>4. Grows(queues, tasks')
    BY <2>2, <2>3, CloseGrows, GrowsReflexive
  <2> DEFINE x == Head(tasks[t])
  <2>5. x.op \in {"SendMessageListToSession", "CloseSession"}
    <3>1. CASE \E msgs : SendMessageListToSession(t, id, msgs)
      BY <3>1, RunsOp DEF SendMessageListToSession
    <3>2. CASE CloseSession(t, id)
      BY <3>2, RunsOp DEF CloseSession
    <3> QED BY <1>2, <3>1, <3>2
  <2> HIDE DEF x
  <2> QED BY <2>1, <2>4, <2>5, TakesBy DEF queues, x
<1> QED BY <1>1, <1>2 DEF ThreadStep

LEMMA CompletionGrows == ASSUME IdsInv, CompletionStep PROVE Grows(tasks, tasks')
<1>0. tasks \in Queues
  BY DEF IdsInv, ServerTypeOK, IoTypeOK, Queues
<1>1. PICK s \in Session :
        \/ hanlde_write(s) \/ hanlde_write_fails(s)
        \/ handle_read_fails(s) \/ \E n \in Nat : handle_read(s, n)
        \/ handle_safe_close(s) \/ close_timer_expires(s)
  BY DEF CompletionStep
<1>2. CASE hanlde_write(s) \/ handle_safe_close(s)
  BY <1>2, GrowsReflexive DEF hanlde_write, handle_safe_close
<1>3. CASE hanlde_write_fails(s) \/ handle_read_fails(s)
  <2>1. \E writes : hanlde_close(s, writes, tasks)
    BY <1>3 DEF hanlde_write_fails, handle_read_fails
  <2> QED BY <1>0, <2>1, CloseGrows
<1>4. ASSUME NEW n \in Nat, handle_read(s, n) PROVE Grows(tasks, tasks')
  <2>1. tasks' = tasks \/ tasks' = post(tasks, io_thread_[s], deliver(s))
    BY <1>4 DEF handle_read, deliver
  <2>2. session_id_[s] # 0
    BY <1>4 DEF handle_read, IdsInv, Untouched
  <2>3. Caused(deliver(s))
    BY <2>2 DEF deliver, Caused
  <2> QED BY <1>0, <2>1, <2>3, PostGrows, GrowsReflexive
<1>5. CASE close_timer_expires(s)
  BY <1>0, <1>5, PostGrows DEF close_timer_expires, Caused
<1> QED BY <1>1, <1>2, <1>3, <1>4, <1>5

LEMMA EnvironmentGrows ==
  ASSUME IdsInv, EnvironmentStep \/ terminates
  PROVE  Grows(tasks, tasks')
<1>0. ServerTypeOK /\ tasks \in Queues
  BY DEF IdsInv, ServerTypeOK, IoTypeOK, Queues
<1>1. ASSUME NEW h \in Session, app_send(h) \/ app_close(h) PROVE Grows(tasks, tasks')
  BY <1>0, <1>1, SendGrows DEF app_send, app_close, is_closed
<1>2. ASSUME NEW t \in Threads, check_keep_alive(t) PROVE Grows(tasks, tasks')
  BY <1>0, <1>2, KeepAliveGrows
<1>3. ASSUME NEW s \in Session, handle_accept(s) \/ connect(s) PROVE Grows(tasks, tasks')
  <2>1. handler_thread_id_[s] = 0 /\ \E t : connected(s, t)
    BY <1>3 DEF handle_accept, connect, unbuilt, IdsInv, Binding
  <2>2. \E t, id : tasks' = post(tasks, t, [op |-> "init", s |-> s, id |-> id])
    BY <2>1 DEF connected
  <2> QED BY <1>0, <2>1, <2>2, PostGrows DEF Caused
<1>4. ASSUME UNCHANGED tasks PROVE Grows(tasks, tasks')
  BY <1>4, GrowsReflexive
<1> QED
  BY <1>1, <1>2, <1>3, <1>4
  DEF EnvironmentStep, terminates, handle_accept_fails, handle_accept_throws, connect_throws,
      connected_throws

LEMMA QueueStep ==
  ASSUME IdsInv, [Next]_vars
  PROVE  Grows(tasks, tasks') \/ \E t \in Threads : Takes(t)
<1>1. CASE UNCHANGED vars
  BY <1>1, GrowsReflexive DEF vars
<1>2. CASE Next
  BY <1>2, Steps, MainThreadIsThread, MainTakes, ThreadTakes, CompletionGrows,
     EnvironmentGrows DEF IdsInv
<1> QED BY <1>1, <1>2

LEMMA FlowsStep == ASSUME IdsInv, [Next]_vars PROVE Flows(tasks')
<1>1. CASE Grows(tasks, tasks')
  BY <1>1, GrowingFlows, FlowsReflexive
<1>2. ASSUME NEW t \in Threads, Takes(t) PROVE Flows(tasks')
  <2>1. Flows(popped(t))
    BY <1>2, PopFlows DEF Takes, IdsInv, ServerTypeOK
  <2> QED BY <1>2, <2>1, GrowingFlows DEF Takes
<1> QED BY <1>1, <1>2, QueueStep

\* A task leaves a queue only when the queue's thread runs it.
LEMMA LeftByRunning ==
  ASSUME IdsInv, [Next]_vars, NEW t \in Threads, NEW x,
         waits(tasks, t, x), ~ waits(tasks', t, x)
  PROVE  Takes(t) /\ Head(tasks[t]) = x
<1>1. ~ Grows(tasks, tasks')
  BY DEF Grows
<1>2. PICK u \in Threads : Takes(u)
  BY <1>1, QueueStep
<1>3. ~ waits(popped(u), t, x)
  BY <1>2 DEF Takes, Grows
<1> QED BY <1>2, <1>3, PopWaits DEF Takes, IdsInv, ServerTypeOK

----------------------------------------------------------------------------
(* What a step does to a session: closed_, the writes and the id.          *)

SameBuffers(s) ==
  /\ buffer_sending_'[s] = buffer_sending_[s]
  /\ buffer_to_be_sent_'[s] = buffer_to_be_sent_[s]
  /\ wire'[s] = wire[s]

SameWrites(s) == SameBuffers(s) /\ num_write_handlers_'[s] = num_write_handlers_[s]

Rests(s) ==
  session_id_'[s] = session_id_[s] /\ closed_'[s] = closed_[s] /\ SameWrites(s)

\* init.
Opens(s) ==
  /\ session_id_[s] = 0 /\ session_id_'[s] # 0
  /\ ~ closed_'[s] /\ SameWrites(s)

\* close, and the completions that fail.
Closes(s) ==
  /\ session_id_[s] # 0 /\ session_id_'[s] = session_id_[s]
  /\ closed_'[s] /\ SameBuffers(s)
  /\ \/ num_write_handlers_'[s] = num_write_handlers_[s]
     \/ /\ num_write_handlers_[s] > 0
        /\ num_write_handlers_'[s] = num_write_handlers_[s] - 1

StaysOpen(s) ==
  session_id_'[s] = session_id_[s] /\ ~ closed_[s] /\ ~ closed_'[s]

\* post_message_list, while a write is under way and while none is.
Enqueues(s, messages) ==
  /\ StaysOpen(s) /\ messages # <<>> /\ buffer_sending_[s] # <<>>
  /\ num_write_handlers_'[s] = num_write_handlers_[s]
  /\ buffer_sending_'[s] = buffer_sending_[s]
  /\ buffer_to_be_sent_'[s] = buffer_to_be_sent_[s] \o messages
  /\ wire'[s] = wire[s]

Starts(s, messages) ==
  /\ StaysOpen(s) /\ messages # <<>> /\ buffer_sending_[s] = <<>>
  /\ num_write_handlers_'[s] = num_write_handlers_[s] + 1
  /\ buffer_sending_'[s] = buffer_to_be_sent_[s] \o messages
  /\ buffer_to_be_sent_'[s] = <<>>
  /\ wire'[s] = wire[s] \o SubSeq(buffer_to_be_sent_[s] \o messages, 1, Len(messages))

\* hanlde_write.
Writes(s) ==
  /\ StaysOpen(s) /\ num_write_handlers_[s] > 0
  /\ num_write_handlers_'[s] = IF buffer_to_be_sent_[s] = <<>>
                               THEN num_write_handlers_[s] - 1 ELSE num_write_handlers_[s]
  /\ buffer_sending_'[s] = buffer_to_be_sent_[s]
  /\ buffer_to_be_sent_'[s] = <<>>
  /\ wire'[s] = wire[s] \o buffer_to_be_sent_[s]

Posts(s, messages) == Enqueues(s, messages) \/ Starts(s, messages)

Effect(s) ==
  \/ Rests(s) \/ Opens(s) \/ Closes(s) \/ Writes(s)
  \/ \E messages \in Seq(Message) : Posts(s, messages)

\* The variables of Rests, as the actions leave them alone.
restVars == <<session_id_, closed_, writeVars>>

LEMMA RestVars ==
  /\ UNCHANGED restVars => \A q \in Session : Rests(q)
  /\ UNCHANGED sessionVars => UNCHANGED restVars
  /\ UNCHANGED session_id_ /\ UNCHANGED closed_ /\ UNCHANGED writeVars => UNCHANGED restVars
BY DEF restVars, sessionVars, writeVars, Rests, SameWrites, SameBuffers

LEMMA PostEffect ==
  ASSUME ServerTypeOK, NEW s, NEW messages \in Seq(Message), post_message_list(s, messages),
         UNCHANGED <<session_id_, closed_>>, NEW q \in Session
  PROVE  Rests(q) \/ (q = s /\ Posts(q, messages))
<1>1. CASE UNCHANGED writeVars
  BY <1>1, RestVars
<1>2. CASE q # s
  BY <1>2
  DEF post_message_list, async_write, writeVars, Rests, SameWrites, SameBuffers,
      ServerTypeOK, SessionTypeOK, WriteTypeOK
<1>3. CASE q = s /\ ~ UNCHANGED writeVars
  <2>1. ~ closed_[q] /\ messages # <<>>
    BY <1>3 DEF post_message_list
  <2>2. CASE buffer_sending_[q] # <<>>
    BY <1>3, <2>1, <2>2
    DEF post_message_list, Posts, Enqueues, StaysOpen, ServerTypeOK, SessionTypeOK, WriteTypeOK
  <2>3. CASE buffer_sending_[q] = <<>>
    <3>1. /\ buffer_sending_' = [buffer_sending_ EXCEPT ![s] = buffer_to_be_sent_[s] \o messages]
          /\ buffer_to_be_sent_' = [buffer_to_be_sent_ EXCEPT ![s] = buffer_sending_[s]]
          /\ async_write(s, Len(messages))
      BY <1>3, <2>1, <2>3 DEF post_message_list
    <3>2. /\ buffer_sending_'[q] = buffer_to_be_sent_[q] \o messages
          /\ buffer_to_be_sent_'[q] = <<>>
      BY <1>3, <2>3, <3>1 DEF ServerTypeOK, SessionTypeOK, WriteTypeOK
    <3>3. /\ num_write_handlers_'[q] = num_write_handlers_[q] + 1
          /\ wire'[q] = wire[q] \o SubSeq(buffer_to_be_sent_[q] \o messages, 1, Len(messages))
      BY <1>3, <3>1, <3>2 DEF async_write, ServerTypeOK, SessionTypeOK, WriteTypeOK
    <3>4. StaysOpen(q)
      BY <2>1 DEF StaysOpen
    <3> QED BY <1>3, <2>1, <2>3, <3>2, <3>3, <3>4 DEF Posts, Starts
  <2> QED BY <1>3, <2>2, <2>3
<1> QED BY <1>1, <1>2, <1>3

LEMMA CloseEffect ==
  ASSUME IdsInv, NEW s \in Session, NEW queues, close(s, queues), NEW q \in Session
  PROVE  Rests(q) \/ Closes(q)
<1>1. ServerTypeOK /\ Untouched
  BY DEF IdsInv
<1>2. UNCHANGED session_id_ /\ UNCHANGED writeVars
  BY DEF close
<1>3. CASE closed_[s]
  BY <1>2, <1>3, RestVars DEF close
<1>4. CASE ~ closed_[s]
  <2>1. session_id_[s] # 0
    BY <1>1, <1>4 DEF Untouched
  <2>2. closed_' = [closed_ EXCEPT ![s] = TRUE]
    BY <1>4 DEF close
  <2> QED
    BY <1>1, <1>2, <2>1, <2>2
    DEF Rests, Closes, SameWrites, SameBuffers, writeVars, ServerTypeOK, SessionTypeOK,
        BuiltTypeOK
<1> QED BY <1>3, <1>4

LEMMA MainEffect == ASSUME IdsInv, MainStep, NEW q \in Session PROVE Effect(q)
<1>0. ServerTypeOK
  BY DEF IdsInv
<1>1. ASSUME NEW h \in Session, handler_SendMessageListDirectly(h) PROVE Effect(q)
  <2>1. UNCHANGED session_id_ /\ UNCHANGED closed_
    BY <1>1 DEF handler_SendMessageListDirectly
  <2>2. UNCHANGED writeVars \/ post_message_list(session_of(h), messages_to_be_sent_[h])
    BY <1>1 DEF handler_SendMessageListDirectly
  <2>3. messages_to_be_sent_[h] \in Seq(Message)
    BY <1>0 DEF ServerTypeOK, HandlerTypeOK
  <2> QED BY <1>0, <2>1, <2>2, <2>3, RestVars, PostEffect DEF Effect
<1>2. ASSUME UNCHANGED session_id_, UNCHANGED closed_, UNCHANGED writeVars PROVE Effect(q)
  BY <1>2, RestVars DEF Effect
<1>3. ASSUME UNCHANGED sessionVars PROVE Effect(q)
  BY <1>3, RestVars DEF Effect
<1>4. ASSUME NEW h \in Session, handler_PackMessageList(h) PROVE Effect(q)
  BY <1>3, <1>4 DEF handler_PackMessageList
<1> QED
  BY <1>1, <1>2, <1>3, <1>4
  DEF MainStep, session_SendMessageListDirectly, session_closed, SendMessageListToHandler

LEMMA ThreadEffect == ASSUME IdsInv, ThreadStep, NEW q \in Session PROVE Effect(q)
<1>0. ServerTypeOK
  BY DEF IdsInv
<1>1. ASSUME NEW s \in Session, session_PackMessageList(s) \/ close_timeout(s)
      PROVE  Effect(q)
  BY <1>1, RestVars DEF session_PackMessageList, close_timeout, Effect
<1>2. ASSUME NEW s \in Session, keep_alive_close(s) PROVE Effect(q)
  BY <1>2, CloseEffect DEF keep_alive_close, Effect
<1>3. ASSUME NEW s \in Session, io_thread_[s] \in Threads, NEW id \in Id, init(s, id)
      PROVE  Effect(q)
  <2>1. /\ tasks[io_thread_[s]] # <<>>
        /\ Head(tasks[io_thread_[s]]) = initTask(s, id)
    BY <1>3 DEF init, runs, initTask
  <2>2. id # 0 /\ session_id_[s] = 0
    BY <1>0, <1>3, <2>1, PopWaits DEF IdsInv, InitNames, ServerTypeOK
  <2>3. /\ session_id_' = [session_id_ EXCEPT ![s] = id]
        /\ closed_' = [closed_ EXCEPT ![s] = FALSE]
        /\ UNCHANGED writeVars
    BY <1>3 DEF init
  <2>4. SameWrites(q)
    BY <2>3 DEF writeVars, SameWrites, SameBuffers
  <2>5. Rests(q) \/ Opens(q)
    BY <1>0, <2>2, <2>3, <2>4 DEF Rests, Opens, ServerTypeOK, SessionTypeOK, BuiltTypeOK
  <2> QED BY <2>5 DEF Effect
<1>4. ASSUME NEW t \in Threads, NEW id \in Id, NEW msgs \in Seq(Message),
             SendMessageListToSession(t, id, msgs)
      PROVE  Effect(q)
  <2>1. UNCHANGED session_id_ /\ UNCHANGED closed_
    BY <1>4 DEF SendMessageListToSession
  <2>2. UNCHANGED writeVars \/ post_message_list(session_queue_[t][id], msgs)
    BY <1>4 DEF SendMessageListToSession
  <2> QED BY <1>0, <2>1, <2>2, RestVars, PostEffect DEF Effect
<1>5. ASSUME NEW t \in Threads, NEW id \in Id, CloseSession(t, id) PROVE Effect(q)
  <2> DEFINE s == session_queue_[t][id]
  <2>1. CASE s = nullptr
    BY <1>5, <2>1, RestVars DEF CloseSession, Effect
  <2>2. CASE s # nullptr
    <3>1. s \in Session /\ close(s, popped(t))
      BY <1>0, <1>5, <2>2 DEF CloseSession, ServerTypeOK, SessionTypeOK, CloseTypeOK
    <3> HIDE DEF s
    <3> QED BY <3>1, CloseEffect DEF Effect
  <2> QED BY <2>1, <2>2
<1> QED BY <1>1, <1>2, <1>3, <1>4, <1>5 DEF ThreadStep

LEMMA CompletionEffect == ASSUME IdsInv, CompletionStep, NEW q \in Session PROVE Effect(q)
<1>0. ServerTypeOK /\ Untouched
  BY DEF IdsInv
<1>1. PICK s \in Session :
        \/ hanlde_write(s) \/ hanlde_write_fails(s)
        \/ handle_read_fails(s) \/ \E n \in Nat : handle_read(s, n)
        \/ handle_safe_close(s) \/ close_timer_expires(s)
  BY DEF CompletionStep
<1>2. CASE hanlde_write(s)
  <2>1. Rests(q) \/ Writes(q)
    BY <1>0, <1>2
    DEF hanlde_write, Rests, Writes, StaysOpen, SameWrites, SameBuffers, ServerTypeOK,
        SessionTypeOK, WriteTypeOK
  <2> QED BY <2>1 DEF Effect
<1>3. CASE hanlde_write_fails(s)
  <2>1. session_id_[s] # 0
    BY <1>0, <1>3 DEF hanlde_write_fails, Untouched
  <2>2. Rests(q) \/ Closes(q)
    BY <1>0, <1>3, <2>1
    DEF hanlde_write_fails, Rests, Closes, SameWrites, SameBuffers, ServerTypeOK,
        SessionTypeOK, BuiltTypeOK, WriteTypeOK
  <2> QED BY <2>2 DEF Effect
<1>4. CASE handle_read_fails(s)
  <2>1. session_id_[s] # 0
    BY <1>0, <1>4 DEF handle_read_fails, Untouched
  <2>2. Rests(q) \/ Closes(q)
    BY <1>0, <1>4, <2>1
    DEF handle_read_fails, writeVars, Rests, Closes, SameWrites, SameBuffers, ServerTypeOK,
        SessionTypeOK, BuiltTypeOK
  <2> QED BY <2>2 DEF Effect
<1>5. CASE \/ \E n \in Nat : handle_read(s, n)
           \/ handle_safe_close(s) \/ close_timer_expires(s)
  BY <1>5, RestVars DEF handle_read, handle_safe_close, close_timer_expires, Effect
<1> QED BY <1>1, <1>2, <1>3, <1>4, <1>5

LEMMA EffectStep == ASSUME IdsInv, [Next]_vars, NEW q \in Session PROVE Effect(q)
<1>1. CASE UNCHANGED vars
  BY <1>1, RestVars DEF vars, Effect
<1>2. CASE EnvironmentStep \/ terminates
  <2>1. UNCHANGED session_id_ /\ UNCHANGED closed_ /\ UNCHANGED writeVars
    BY <1>2
    DEF EnvironmentStep, terminates, handle_accept, handle_accept_fails, connect,
        handle_accept_throws, connect_throws, connected_throws, app_send, app_close,
        check_keep_alive, sessionButBuiltVars, sessionVars
  <2> QED BY <2>1, RestVars DEF Effect
<1> QED BY <1>1, <1>2, Steps, MainEffect, ThreadEffect, CompletionEffect DEF IdsInv

----------------------------------------------------------------------------
(* What a step does to a session's entry and to its socket.                *)

Registered(s) ==
  session_id_[s] # 0 /\ session_queue_[io_thread_[s]][session_id_[s]] = s

Unclosed(s) ==
  /\ socket_[s] = "open" /\ safe_close_reads[s] = 0 /\ ~ close_timer_[s]
  /\ \A t \in Threads : ~ waits(tasks, t, closeTimeout(s))

\* No step but init makes an entry, a session that is closed keeps its entry
\* only for a write, and its socket closes only when the entry is gone.
Kept(s) ==
  /\ Registered(s)' => Registered(s) \/ session_id_[s] = 0
  /\ Registered(s)' /\ closed_'[s] =>
       \/ num_write_handlers_'[s] > 0
       \/ closed_[s] /\ num_write_handlers_'[s] = num_write_handlers_[s]
  /\ Unclosed(s) => Unclosed(s)' \/ (session_id_'[s] # 0 /\ ~ Registered(s)')

LEMMA UnclosedSame ==
  ASSUME Flows(tasks'), NEW q \in Session, Unclosed(q),
         socket_'[q] = socket_[q], safe_close_reads'[q] = safe_close_reads[q],
         close_timer_'[q] = close_timer_[q]
  PROVE  Unclosed(q)'
<1>1. ASSUME NEW t \in Threads, waits(tasks', t, closeTimeout(q)) PROVE FALSE
  <2>1. ~ Caused(closeTimeout(q))
    BY DEF Unclosed, Caused, closeTimeout
  <2> QED BY <1>1, <2>1 DEF Flows, Unclosed
<1> QED BY <1>1 DEF Unclosed

keptVars == <<session_id_, closed_, closeVars>>

LEMMA KeptVars ==
  /\ UNCHANGED sessionVars =>
       UNCHANGED keptVars /\ UNCHANGED io_thread_ /\ UNCHANGED num_write_handlers_
  /\ UNCHANGED session_id_ /\ UNCHANGED closed_ /\ UNCHANGED closeVars => UNCHANGED keptVars
  /\ UNCHANGED builtVars => UNCHANGED io_thread_
  /\ UNCHANGED writeVars => UNCHANGED num_write_handlers_
BY DEF keptVars, sessionVars, builtVars, writeVars, closeVars

LEMMA KeptSame ==
  ASSUME Flows(tasks'), UNCHANGED keptVars, NEW q \in Session,
         session_id_[q] # 0 => io_thread_'[q] = io_thread_[q],
         closed_[q] => num_write_handlers_'[q] = num_write_handlers_[q]
  PROVE  Kept(q)
<1>1. /\ session_id_' = session_id_ /\ closed_' = closed_
      /\ session_queue_' = session_queue_ /\ socket_' = socket_
      /\ safe_close_reads' = safe_close_reads /\ close_timer_' = close_timer_
  BY DEF keptVars, closeVars
<1>2. Registered(q)' => Registered(q)
  BY <1>1 DEF Registered
<1>3. Unclosed(q) => Unclosed(q)'
  BY <1>1, UnclosedSame
<1> QED BY <1>1, <1>2, <1>3 DEF Kept

LEMMA KeptByHandleClose ==
  ASSUME IdsInv, Flows(tasks'), NEW s \in Session, session_id_[s] # 0,
         NEW writes \in Nat, NEW queues, hanlde_close(s, writes, queues),
         num_write_handlers_'[s] = writes,
         \A r \in Session \ {s} : /\ closed_'[r] = closed_[r]
                                  /\ num_write_handlers_'[r] = num_write_handlers_[r],
         UNCHANGED <<io_thread_, session_id_>>, NEW q \in Session
  PROVE  Kept(q)
<1> DEFINE t == io_thread_[s]
           id == session_id_[s]
<1>0. /\ io_thread_' = io_thread_ /\ session_id_' = session_id_ /\ q # nullptr
      /\ t \in Threads /\ id \in Id
  BY IdFacts DEF IdsInv, Binding, ServerTypeOK, SessionTypeOK, BuiltTypeOK
<1>1. CASE UNCHANGED closeVars /\ (writes > 0 \/ session_queue_[t][id] = nullptr)
  <2>1. /\ session_queue_' = session_queue_ /\ socket_' = socket_
        /\ safe_close_reads' = safe_close_reads /\ close_timer_' = close_timer_
    BY <1>1 DEF closeVars
  <2>2. Registered(q)' <=> Registered(q)
    BY <1>0, <2>1 DEF Registered
  <2>3. Registered(q) /\ q = s => writes > 0
    BY <1>0, <1>1 DEF Registered
  <2>4. Unclosed(q) => Unclosed(q)'
    BY <2>1, UnclosedSame
  <2> QED BY <2>2, <2>3, <2>4 DEF Kept
<1>2. CASE ~(UNCHANGED closeVars /\ (writes > 0 \/ session_queue_[t][id] = nullptr))
  <2>1. /\ session_queue_' = [session_queue_ EXCEPT ![t][id] = nullptr]
        /\ socket_' = [socket_ EXCEPT ![s] = IF @ = "open" THEN "shutdown" ELSE @]
        /\ safe_close_reads' = [safe_close_reads EXCEPT ![s] = @ + 1]
        /\ close_timer_' = [close_timer_ EXCEPT ![s] = TRUE]
    BY <1>2 DEF hanlde_close
  <2>2. \A u \in Threads, i \in Id :
          session_queue_'[u][i] = IF u = t /\ i = id THEN nullptr ELSE session_queue_[u][i]
    BY <1>0, <2>1 DEF IdsInv, ServerTypeOK, SessionTypeOK, CloseTypeOK
  <2>3. CASE q = s
    <3>1. ~ Registered(q)'
      BY <1>0, <2>2, <2>3 DEF Registered
    <3> QED BY <1>0, <2>3, <3>1 DEF Kept
  <2>4. CASE q # s
    <3>1. Registered(q)' => Registered(q)
      <4>1. session_id_[q] # 0 => io_thread_[q] \in Threads /\ session_id_[q] \in Id
        BY DEF IdsInv, Binding, ServerTypeOK, SessionTypeOK, BuiltTypeOK
      <4> QED BY <1>0, <2>2, <4>1 DEF Registered
    <3>2. Unclosed(q) => Unclosed(q)'
      <4>1. /\ socket_'[q] = socket_[q] /\ safe_close_reads'[q] = safe_close_reads[q]
            /\ close_timer_'[q] = close_timer_[q]
        BY <2>1, <2>4 DEF IdsInv, ServerTypeOK, SessionTypeOK, CloseTypeOK
      <4> QED BY <4>1, UnclosedSame
    <3> QED BY <2>4, <3>1, <3>2 DEF Kept
  <2> QED BY <2>3, <2>4
<1> QED BY <1>1, <1>2

LEMMA KeptByClose ==
  ASSUME IdsInv, Flows(tasks'), NEW s \in Session, NEW queues, close(s, queues),
         NEW q \in Session
  PROVE  Kept(q)
<1>1. ServerTypeOK /\ Untouched
  BY DEF IdsInv
<1>2. UNCHANGED session_id_ /\ UNCHANGED writeVars /\ UNCHANGED io_thread_
  BY DEF close, builtVars
<1>3. CASE closed_[s]
  <2>1. UNCHANGED closed_ /\ UNCHANGED closeVars
    BY <1>3 DEF close
  <2> QED BY <1>2, <2>1, KeptVars, KeptSame
<1>4. CASE ~ closed_[s]
  <2>1. session_id_[s] # 0 /\ num_write_handlers_[s] \in Nat
    BY <1>1, <1>4 DEF Untouched, ServerTypeOK, SessionTypeOK, WriteTypeOK
  <2>2. /\ closed_' = [closed_ EXCEPT ![s] = TRUE]
        /\ hanlde_close(s, num_write_handlers_[s], queues)
        /\ num_write_handlers_' = num_write_handlers_
    BY <1>2, <1>4 DEF close, writeVars
  <2>3. \A r \in Session \ {s} : closed_'[r] = closed_[r]
    BY <1>1, <2>2 DEF ServerTypeOK, SessionTypeOK, BuiltTypeOK
  <2> QED BY <1>2, <2>1, <2>2, <2>3, KeptByHandleClose
<1> QED BY <1>3, <1>4

LEMMA KeptAfterPost ==
  ASSUME IdsInv, Flows(tasks'), NEW s, NEW messages \in Seq(Message),
         UNCHANGED writeVars \/ post_message_list(s, messages),
         UNCHANGED <<builtVars, session_id_, closed_, closeVars>>, NEW q \in Session
  PROVE  Kept(q)
<1>1. closed_[q] => num_write_handlers_'[q] = num_write_handlers_[q]
  <2>1. CASE UNCHANGED writeVars
    BY <2>1, KeptVars
  <2>2. CASE post_message_list(s, messages)
    <3>1. Rests(q) \/ Posts(q, messages)
      BY <2>2, PostEffect DEF IdsInv
    <3> QED BY <3>1 DEF Rests, SameWrites, Posts, Enqueues, Starts, StaysOpen
  <2> QED BY <2>1, <2>2
<1>2. UNCHANGED keptVars /\ UNCHANGED io_thread_
  BY KeptVars
<1> QED BY <1>1, <1>2, KeptSame

LEMMA MainKeeps == ASSUME IdsInv, MainStep, Flows(tasks'), NEW q \in Session PROVE Kept(q)
<1>1. ASSUME NEW h \in Session, handler_SendMessageListDirectly(h) PROVE Kept(q)
  <2>1. UNCHANGED <<builtVars, session_id_, closed_, closeVars>>
    BY <1>1 DEF handler_SendMessageListDirectly
  <2>2. UNCHANGED writeVars \/ post_message_list(session_of(h), messages_to_be_sent_[h])
    BY <1>1 DEF handler_SendMessageListDirectly
  <2>3. messages_to_be_sent_[h] \in Seq(Message)
    BY DEF IdsInv, ServerTypeOK, HandlerTypeOK
  <2> QED BY <2>1, <2>2, <2>3, KeptAfterPost
<1>2. ASSUME UNCHANGED keptVars, UNCHANGED io_thread_, UNCHANGED num_write_handlers_
      PROVE  Kept(q)
  BY <1>2, KeptSame
<1>3. CASE UNCHANGED sessionVars
  BY <1>2, <1>3, KeptVars
<1>4. ASSUME NEW s \in Session, session_SendMessageListDirectly(s) PROVE Kept(q)
  BY <1>2, <1>4, KeptVars DEF session_SendMessageListDirectly
<1> QED
  BY <1>1, <1>3, <1>4
  DEF MainStep, handler_PackMessageList, session_closed, SendMessageListToHandler

LEMMA ThreadKeeps == ASSUME IdsInv, ThreadStep, Flows(tasks'), NEW q \in Session PROVE Kept(q)
<1>0. ServerTypeOK
  BY DEF IdsInv
<1>1. ASSUME NEW s \in Session, session_PackMessageList(s) PROVE Kept(q)
  BY <1>1, KeptVars, KeptSame DEF session_PackMessageList
<1>2. ASSUME NEW s \in Session, keep_alive_close(s) PROVE Kept(q)
  BY <1>2, KeptByClose DEF keep_alive_close
<1>3. ASSUME NEW s \in Session, io_thread_[s] \in Threads, NEW id \in Id, init(s, id)
      PROVE  Kept(q)
  <2> DEFINE t == io_thread_[s]
  <2>1. tasks[t] # <<>> /\ Head(tasks[t]) = initTask(s, id)
    BY <1>3 DEF init, runs, initTask
  <2>2. id # 0 /\ session_id_[s] = 0
    BY <1>0, <1>3, <2>1, PopWaits DEF IdsInv, InitNames, ServerTypeOK
  <2>3. /\ io_thread_' = io_thread_ /\ num_write_handlers_' = num_write_handlers_
        /\ socket_' = socket_ /\ safe_close_reads' = safe_close_reads
        /\ close_timer_' = close_timer_
    BY <1>3 DEF init, builtVars, writeVars
  <2>4. /\ \A r \in Session :
             /\ session_id_'[r] = IF r = s THEN id ELSE session_id_[r]
             /\ closed_'[r] = IF r = s THEN FALSE ELSE closed_[r]
        /\ session_queue_' = [session_queue_ EXCEPT ![t][id] = IF @ = nullptr THEN s ELSE @]
    BY <1>0, <1>3 DEF init, ServerTypeOK, SessionTypeOK, BuiltTypeOK
  <2>5. Unclosed(q) => Unclosed(q)'
    BY <2>3, UnclosedSame
  <2>6. CASE q = s
    BY <2>2, <2>4, <2>5, <2>6 DEF Kept
  <2>7. CASE q # s
    <3>1. \A u \in Threads, i \in Id : session_queue_'[u][i] \in {session_queue_[u][i], s}
      BY <1>0, <2>4 DEF ServerTypeOK, SessionTypeOK, CloseTypeOK
    <3>2. session_id_[q] # 0 => io_thread_[q] \in Threads /\ session_id_[q] \in Id
      BY DEF IdsInv, Binding, ServerTypeOK, SessionTypeOK, BuiltTypeOK
    <3>3. session_id_'[q] = session_id_[q]
      BY <2>4, <2>7
    <3>4. Registered(q)' => Registered(q)
      BY <2>3, <2>7, <3>1, <3>2, <3>3 DEF Registered
    <3> QED BY <2>3, <2>4, <2>5, <2>7, <3>4 DEF Kept
  <2> QED BY <2>6, <2>7
<1>4. ASSUME NEW s \in Session, io_thread_[s] \in Threads, close_timeout(s) PROVE Kept(q)
  <2>1. /\ UNCHANGED session_id_ /\ UNCHANGED closed_ /\ UNCHANGED num_write_handlers_
        /\ UNCHANGED session_queue_ /\ UNCHANGED io_thread_
        /\ UNCHANGED safe_close_reads /\ UNCHANGED close_timer_
        /\ socket_' = [socket_ EXCEPT ![s] = "closed"]
    BY <1>4 DEF close_timeout, builtVars, writeVars
  <2>2. Registered(q)' => Registered(q)
    BY <2>1 DEF Registered
  <2>3. Unclosed(q) => Unclosed(q)'
    <3>1. CASE q = s
      <4>1. tasks[io_thread_[s]] # <<>>
            /\ Head(tasks[io_thread_[s]]) = closeTimeout(s)
        BY <1>4 DEF close_timeout, runs, closeTimeout
      <4>2. waits(tasks, io_thread_[s], closeTimeout(s))
        BY <1>0, <1>4, <4>1, PopWaits DEF ServerTypeOK
      <4> QED BY <1>4, <3>1, <4>2 DEF Unclosed
    <3>2. CASE q # s
      <4>1. socket_'[q] = socket_[q]
        BY <1>0, <2>1, <3>2 DEF ServerTypeOK, SessionTypeOK, CloseTypeOK
      <4> QED BY <2>1, <4>1, UnclosedSame
    <3> QED BY <3>1, <3>2
  <2> QED BY <2>1, <2>2, <2>3 DEF Kept
<1>5. ASSUME NEW t \in Threads, NEW id \in Id, NEW msgs \in Seq(Message),
             SendMessageListToSession(t, id, msgs)
      PROVE  Kept(q)
  <2>1. UNCHANGED <<builtVars, session_id_, closed_, closeVars>>
    BY <1>5 DEF SendMessageListToSession
  <2>2. UNCHANGED writeVars \/ post_message_list(session_queue_[t][id], msgs)
    BY <1>5 DEF SendMessageListToSession
  <2> QED BY <2>1, <2>2, KeptAfterPost
<1>6. ASSUME NEW t \in Threads, NEW id \in Id, CloseSession(t, id) PROVE Kept(q)
  <2> DEFINE s == session_queue_[t][id]
  <2>1. CASE s = nullptr
    BY <1>6, <2>1, KeptVars, KeptSame DEF CloseSession
  <2>2. CASE s # nullptr
    <3>1. s \in Session /\ close(s, popped(t))
      BY <1>0, <1>6, <2>2 DEF CloseSession, ServerTypeOK, SessionTypeOK, CloseTypeOK
    <3> HIDE DEF s
    <3> QED BY <3>1, KeptByClose
  <2> QED BY <2>1, <2>2
<1> QED BY <1>1, <1>2, <1>3, <1>4, <1>5, <1>6 DEF ThreadStep

LEMMA CompletionKeeps ==
  ASSUME IdsInv, CompletionStep, Flows(tasks'), NEW q \in Session PROVE Kept(q)
<1>0. ServerTypeOK /\ Untouched
  BY DEF IdsInv
<1>1. PICK s \in Session :
        \/ hanlde_write(s) \/ hanlde_write_fails(s)
        \/ handle_read_fails(s) \/ \E n \in Nat : handle_read(s, n)
        \/ handle_safe_close(s) \/ close_timer_expires(s)
  BY DEF CompletionStep
<1>2. CASE hanlde_write(s)
  <2>1. UNCHANGED keptVars /\ UNCHANGED io_thread_
    BY <1>2, KeptVars DEF hanlde_write
  <2>2. closed_[q] => num_write_handlers_'[q] = num_write_handlers_[q]
    BY <1>0, <1>2 DEF hanlde_write, ServerTypeOK, SessionTypeOK, WriteTypeOK
  <2> QED BY <2>1, <2>2, KeptSame
<1>3. ASSUME NEW n \in Nat, handle_read(s, n) PROVE Kept(q)
  <2>1. UNCHANGED keptVars /\ UNCHANGED io_thread_ /\ UNCHANGED num_write_handlers_
    BY <1>3, KeptVars DEF handle_read
  <2> QED BY <2>1, KeptSame
<1>4. CASE hanlde_write_fails(s)
  <2>1. session_id_[s] # 0 /\ num_write_handlers_[s] - 1 \in Nat
    BY <1>0, <1>4
    DEF hanlde_write_fails, Untouched, ServerTypeOK, SessionTypeOK, WriteTypeOK
  <2>2. num_write_handlers_'[s] = num_write_handlers_[s] - 1
    BY <1>0, <1>4 DEF hanlde_write_fails, ServerTypeOK, SessionTypeOK, WriteTypeOK
  <2>3. \A r \in Session \ {s} : /\ closed_'[r] = closed_[r]
                                 /\ num_write_handlers_'[r] = num_write_handlers_[r]
    BY <1>0, <1>4
    DEF hanlde_write_fails, ServerTypeOK, SessionTypeOK, BuiltTypeOK, WriteTypeOK
  <2>4. /\ hanlde_close(s, num_write_handlers_[s] - 1, tasks)
        /\ UNCHANGED io_thread_ /\ UNCHANGED session_id_
    BY <1>4, KeptVars DEF hanlde_write_fails
  <2> QED BY <2>1, <2>2, <2>3, <2>4, KeptByHandleClose
<1>5. CASE handle_read_fails(s)
  <2>1. session_id_[s] # 0 /\ num_write_handlers_[s] \in Nat
    BY <1>0, <1>5 DEF handle_read_fails, Untouched, ServerTypeOK, SessionTypeOK, WriteTypeOK
  <2>2. /\ hanlde_close(s, num_write_handlers_[s], tasks)
        /\ UNCHANGED io_thread_ /\ UNCHANGED session_id_ /\ UNCHANGED num_write_handlers_
    BY <1>5, KeptVars DEF handle_read_fails
  <2>3. \A r \in Session \ {s} : closed_'[r] = closed_[r]
    BY <1>0, <1>5 DEF handle_read_fails, ServerTypeOK, SessionTypeOK, BuiltTypeOK
  <2> QED BY <2>1, <2>2, <2>3, KeptByHandleClose
<1>6. CASE handle_safe_close(s) \/ close_timer_expires(s)
  <2>1. /\ UNCHANGED session_id_ /\ UNCHANGED closed_ /\ UNCHANGED num_write_handlers_
        /\ UNCHANGED session_queue_ /\ UNCHANGED io_thread_
    BY <1>6, KeptVars DEF handle_safe_close, close_timer_expires
  <2>2. Registered(q)' => Registered(q)
    BY <2>1 DEF Registered
  <2>3. Unclosed(q) => Unclosed(q)'
    <3>1. CASE q = s
      BY <1>0, <1>6, <3>1
      DEF handle_safe_close, close_timer_expires, Unclosed
    <3>2. CASE q # s
      <4>1. /\ socket_'[q] = socket_[q] /\ safe_close_reads'[q] = safe_close_reads[q]
            /\ close_timer_'[q] = close_timer_[q]
        BY <1>0, <1>6, <3>2
        DEF handle_safe_close, close_timer_expires, ServerTypeOK, SessionTypeOK, CloseTypeOK
      <4> QED BY <4>1, UnclosedSame
    <3> QED BY <3>1, <3>2
  <2> QED BY <2>1, <2>2, <2>3 DEF Kept
<1> QED BY <1>1, <1>2, <1>3, <1>4, <1>5, <1>6

\* A session that has an id was built and connected; it is not built again.
LEMMA BuiltOnce ==
  ASSUME IdsInv, [Next]_vars, NEW q \in Session
  PROVE  handler_thread_id_[q] # 0 =>
           /\ io_thread_'[q] = io_thread_[q]
           /\ handler_thread_id_'[q] = handler_thread_id_[q]
           /\ handler_session_id_'[q] \in {handler_session_id_[q], 0}
<1>0. ServerTypeOK
  BY DEF IdsInv
<1>1. CASE UNCHANGED vars
  BY <1>1 DEF vars, sessionVars, builtVars, managerVars
<1>2. CASE MainStep
  <2>1. UNCHANGED io_thread_
    BY <1>2
    DEF MainStep, handler_PackMessageList, handler_SendMessageListDirectly,
        session_SendMessageListDirectly, session_closed, SendMessageListToHandler,
        sessionVars, builtVars
  <2>2. ASSUME NEW id \in Id, session_closed(id)
        PROVE  /\ handler_thread_id_' = handler_thread_id_
               /\ handler_session_id_'[q] \in {handler_session_id_[q], 0}
    BY <1>0, <2>2 DEF session_closed, on_session_closed, ServerTypeOK, ManagerTypeOK
  <2> QED
    BY <1>2, <2>1, <2>2
    DEF MainStep, alone, session_SendMessageListDirectly, SendMessageListToHandler, managerVars
<1>3. CASE ThreadStep
  BY <1>3
  DEF ThreadStep, alone, sessionAlone, session_PackMessageList, keep_alive_close, close, init,
      close_timeout, SendMessageListToSession, CloseSession, sessionVars, builtVars, managerVars
<1>4. CASE CompletionStep
  BY <1>4
  DEF CompletionStep, sessionAlone, hanlde_write, hanlde_write_fails, handle_read_fails,
      handle_read, handle_safe_close, close_timer_expires, builtVars, managerVars
<1>5. CASE EnvironmentStep \/ terminates
  <2>1. ASSUME NEW s \in Session, handle_accept(s) \/ connect(s),
               handler_thread_id_[q] # 0
        PROVE  /\ io_thread_'[q] = io_thread_[q]
               /\ handler_thread_id_'[q] = handler_thread_id_[q]
               /\ handler_session_id_'[q] = handler_session_id_[q]
    <3>1. handler_thread_id_[s] = 0 /\ \E t : connected(s, t)
      BY <2>1 DEF handle_accept, connect, unbuilt, IdsInv, Binding
    <3>2. q # s /\ io_thread_[q] # 0
      BY <2>1, <3>1, IdFacts DEF IdsInv, Binding
    <3>3. /\ handler_thread_id_'[q] = handler_thread_id_[q]
          /\ handler_session_id_'[q] = handler_session_id_[q]
      BY <1>0, <3>1, <3>2 DEF connected, on_session_connected, ServerTypeOK, ManagerTypeOK
    <3>4. io_thread_'[q] = io_thread_[q]
      BY <1>0, <2>1, <3>2
      DEF handle_accept, connect, accept_next, unbuilt, construct, builtVars, ServerTypeOK,
          SessionTypeOK, BuiltTypeOK
    <3> QED BY <3>3, <3>4
  <2>2. ASSUME NEW s \in Session, handle_accept_throws(s) \/ connect_throws(s),
               handler_thread_id_[q] # 0
        PROVE  /\ io_thread_'[q] = io_thread_[q]
               /\ handler_thread_id_' = handler_thread_id_
               /\ handler_session_id_' = handler_session_id_
    <3>1. io_thread_[q] # 0
      BY <2>2, IdFacts DEF IdsInv, Binding
    <3>2. io_thread_'[q] = io_thread_[q]
      BY <1>0, <2>2, <3>1
      DEF handle_accept_throws, connect_throws, unbuilt, construct, builtVars, ServerTypeOK,
          SessionTypeOK, BuiltTypeOK
    <3> QED
      BY <2>2, <3>2
      DEF handle_accept_throws, connect_throws, connected_throws, on_session_connected_throws
  <2> QED
    BY <1>5, <2>1, <2>2
    DEF EnvironmentStep, terminates, handle_accept_fails, app_send, app_close,
        check_keep_alive, sessionVars, builtVars, managerVars
<1> QED BY <1>0, <1>1, <1>2, <1>3, <1>4, <1>5, Steps

LEMMA KeptStep == ASSUME IdsInv, [Next]_vars, NEW q \in Session PROVE Kept(q)
<1>0. Flows(tasks')
  BY FlowsStep
<1>1. CASE UNCHANGED vars
  BY <1>0, <1>1, KeptVars, KeptSame DEF vars
<1>2. CASE EnvironmentStep \/ terminates
  <2>1. /\ UNCHANGED keptVars /\ UNCHANGED num_write_handlers_
    BY <1>2, KeptVars
    DEF EnvironmentStep, terminates, handle_accept, handle_accept_fails, connect,
        handle_accept_throws, connect_throws, connected_throws, app_send, app_close,
        check_keep_alive, sessionButBuiltVars
  <2>2. session_id_[q] # 0 => io_thread_'[q] = io_thread_[q]
    BY BuiltOnce DEF IdsInv, Binding
  <2> QED BY <1>0, <2>1, <2>2, KeptSame
<1> QED BY <1>0, <1>1, <1>2, Steps, MainKeeps, ThreadKeeps, CompletionKeeps DEF IdsInv

----------------------------------------------------------------------------
(* Writes and closes.                                                      *)

\* While a session has an entry, or waits to be initialised, nothing of its
\* closing has begun; one that is closed keeps the entry only for a write.
OpenInv ==
  \A s \in Session :
    /\ session_id_[s] = 0 \/ Registered(s) => Unclosed(s)
    /\ Registered(s) /\ closed_[s] => num_write_handlers_[s] > 0

SessionsInv == IdsInv /\ OneWriteInFlight /\ OpenInv

LEMMA OneWriteStep ==
  ASSUME IdsInv, OneWriteInFlight, [Next]_vars
  PROVE  OneWriteInFlight'
<1> SUFFICES ASSUME NEW s \in Session
    PROVE  /\ num_write_handlers_'[s] \in {0, 1}
           /\ ~closed_'[s] =>
                /\ num_write_handlers_'[s] = 0 <=> buffer_sending_'[s] = <<>>
                /\ buffer_sending_'[s] = <<>> => buffer_to_be_sent_'[s] = <<>>
  BY DEF OneWriteInFlight
<1>1. /\ num_write_handlers_[s] \in {0, 1}
      /\ ~closed_[s] => /\ num_write_handlers_[s] = 0 <=> buffer_sending_[s] = <<>>
                        /\ buffer_sending_[s] = <<>> => buffer_to_be_sent_[s] = <<>>
  BY DEF OneWriteInFlight
<1>2. CASE Rests(s)
  BY <1>1, <1>2 DEF Rests, SameWrites, SameBuffers
<1>3. CASE Opens(s)
  BY <1>3 DEF Opens, SameWrites, SameBuffers, IdsInv, Untouched
<1>4. CASE Closes(s)
  BY <1>1, <1>4 DEF Closes
<1>5. CASE Writes(s)
  BY <1>1, <1>5 DEF Writes, StaysOpen
<1>6. ASSUME NEW messages \in Seq(Message), Enqueues(s, messages)
      PROVE  /\ num_write_handlers_'[s] = 1
             /\ buffer_sending_'[s] # <<>>
  BY <1>1, <1>6 DEF Enqueues, StaysOpen
<1>7. ASSUME NEW messages \in Seq(Message), Starts(s, messages)
      PROVE  /\ num_write_handlers_'[s] = 1
             /\ buffer_sending_'[s] # <<>>
  <2>1. buffer_to_be_sent_[s] = <<>> /\ num_write_handlers_[s] = 0 /\ messages # <<>>
    BY <1>1, <1>7 DEF Starts, StaysOpen
  <2>2. <<>> \o messages = messages
    BY ConcatEmptySeq
  <2> QED BY <1>7, <2>1, <2>2 DEF Starts
<1> QED BY <1>2, <1>3, <1>4, <1>5, <1>6, <1>7, EffectStep DEF Effect, Posts

LEMMA OpenStep == ASSUME IdsInv, OpenInv, [Next]_vars PROVE OpenInv'
<1> SUFFICES ASSUME NEW s \in Session
    PROVE  /\ session_id_'[s] = 0 \/ Registered(s)' => Unclosed(s)'
           /\ Registered(s)' /\ closed_'[s] => num_write_handlers_'[s] > 0
  BY DEF OpenInv
<1>1. Kept(s) /\ Effect(s)
  BY KeptStep, EffectStep
<1>2. session_id_'[s] = 0 => session_id_[s] = 0
  BY <1>1
  DEF Effect, Rests, Opens, Closes, Writes, Posts, Enqueues, Starts, StaysOpen
<1>3. session_id_[s] = 0 /\ session_id_'[s] # 0 => ~closed_'[s]
  BY <1>1
  DEF Effect, Rests, Opens, Closes, Writes, Posts, Enqueues, Starts, StaysOpen
<1>4. Registered(s)' => session_id_'[s] # 0
  BY DEF Registered
<1>5. /\ session_id_[s] = 0 \/ Registered(s) => Unclosed(s)
      /\ Registered(s) /\ closed_[s] => num_write_handlers_[s] > 0
  BY DEF OpenInv
<1>6. session_id_'[s] = 0 \/ Registered(s)' => Unclosed(s)'
  BY <1>1, <1>2, <1>5 DEF Kept
<1>7. Registered(s)' /\ closed_'[s] => num_write_handlers_'[s] > 0
  BY <1>1, <1>3, <1>4, <1>5 DEF Kept
<1> QED BY <1>6, <1>7

LEMMA SessionsInitially == Init => SessionsInv
<1> SUFFICES ASSUME Init PROVE SessionsInv
  OBVIOUS
<1>1. \A t \in Threads : DOMAIN tasks[t] = {}
  BY DEF Init
<1>2. OneWriteInFlight
  BY DEF Init, SessionInit, OneWriteInFlight
<1>3. OpenInv
  BY <1>1 DEF Init, SessionInit, OpenInv, Registered, Unclosed, waits
<1> QED BY <1>2, <1>3, IdsInitially DEF SessionsInv

LEMMA SessionsStep == ASSUME SessionsInv, [Next]_vars PROVE SessionsInv'
BY IdsStep, OneWriteStep, OpenStep DEF SessionsInv

LEMMA SessionsInvariance == Spec => []SessionsInv
BY SessionsInitially, SessionsStep, PTL DEF Spec

\* A session has at most one asynchronous write under way, and while it is
\* open no message waits for a write that nobody has started
\* (tcp_session.cpp:189-198, 272-282).
THEOREM SessionsWriteOnce == Spec => []OneWriteInFlight
BY SessionsInvariance, PTL DEF SessionsInv

\* A session that is closed stays closed and puts nothing more on the wire,
\* whatever was posted to it before (tcp_session.cpp:178-181, 265-270).
THEOREM SessionsStayClosed == Spec => ClosedStaysClosed
<1>1. ASSUME IdsInv, [Next]_vars
      PROVE  [\A s \in Session : session_id_[s] # 0 /\ closed_[s] =>
                closed_'[s] /\ wire'[s] = wire[s]]_vars
  <2>1. ASSUME NEW s \in Session, session_id_[s] # 0, closed_[s]
        PROVE  closed_'[s] /\ wire'[s] = wire[s]
    BY <1>1, <2>1, EffectStep
    DEF Effect, Rests, Opens, Closes, Writes, Posts, Enqueues, Starts, StaysOpen,
        SameWrites, SameBuffers
  <2> QED BY <2>1
<1> QED BY <1>1, IdsInvariance, PTL DEF Spec, ClosedStaysClosed

\* A session that is closed and waits for no write is in no session_queue_:
\* neither a message nor the keep-alive check finds it
\* (tcp_session.cpp:118-163, 207-212).
THEOREM ClosedSessionsLeave == Spec => []ClosedSessionLeaves
<1>1. SessionsInv => ClosedSessionLeaves
  BY DEF SessionsInv, OpenInv, Registered, ClosedSessionLeaves
<1> QED BY <1>1, SessionsInvariance, PTL

\* While the application may still use a handler its session's socket is not
\* closed without a report of that on the way (tcp_session.cpp:286-296).
THEOREM ClosesAreReported == Spec => []NoSilentClose
<1>1. ASSUME SessionsInv PROVE NoSilentClose
  <2> SUFFICES ASSUME NEW s \in Session, ~is_closed(s), socket_[s] # "open"
      PROVE  queued(MainThread,
                    [op |-> "on_session_closed", id |-> handler_session_id_[s]])
    BY DEF NoSilentClose
  <2>1. handler_session_id_[s] # 0 /\ ~ Unclosed(s)
    BY DEF is_closed, Unclosed
  <2>2. session_id_[s] # 0 /\ ~ Registered(s)
    BY <1>1, <2>1 DEF SessionsInv, OpenInv
  <2>3. session_id_[s] = handler_session_id_[s] /\ io_thread_[s] = handler_thread_id_[s]
    BY <1>1, <2>1, <2>2 DEF SessionsInv, IdsInv, Binding
  <2>4. waits(tasks, MainThread, closedTask(handler_session_id_[s]))
    BY <1>1, <2>1, <2>2, <2>3 DEF SessionsInv, IdsInv, Carried, Registered
  <2> QED BY <2>4 DEF waits, queued, closedTask
<1> QED BY <1>1, SessionsInvariance, PTL

----------------------------------------------------------------------------
(* Batches.                                                                *)

\* A handler that waits to hand its batch over directly has been connected,
\* and its session is not initialised after that.
DirectNames ==
  \A h \in Session :
    /\ \A t \in Threads : waits(tasks, t, direct(h)) => handler_thread_id_[h] # 0
    /\ \A id \in Id : ~ Behind(tasks, MainThread, direct(h), initTask(h, id))

InboundBatch ==
  \A s \in Session :
    messages_received_[s] # <<>> =>
      /\ session_id_[s] # 0
      /\ \/ waits(tasks, io_thread_[s], deliver(s))
         \/ io_thread_[s] = MainThread /\ session_handler_map_[session_id_[s]] # s

\* The session of handler h has left its thread's session_queue_ for good.
Gone(h) ==
  session_of(h) = nullptr /\ (session_id_[h] # 0 \/ handler_session_id_[h] = 0)

OutboundBatch ==
  \A h \in Session :
    messages_to_be_sent_[h] # <<>> =>
      /\ handler_thread_id_[h] # 0
      /\ IF handler_thread_id_[h] = MainThread
         THEN waits(tasks, MainThread, direct(h)) \/ Gone(h)
         ELSE waits(tasks, MainThread, pack(h))

BatchInv == IdsInv /\ DirectNames /\ InboundBatch /\ OutboundBatch

LEMMA DirectNamesStep == ASSUME IdsInv, DirectNames, [Next]_vars PROVE DirectNames'
<1> SUFFICES ASSUME NEW h \in Session
    PROVE  /\ \A t \in Threads : waits(tasks', t, direct(h)) => handler_thread_id_'[h] # 0
           /\ \A id \in Id : ~ Behind(tasks', MainThread, direct(h), initTask(h, id))
  BY DEF DirectNames, direct, initTask, Behind, waits
<1>1. Flows(tasks') /\ MainThread \in Threads
  BY FlowsStep, MainThreadIsThread
<1>2. Caused(direct(h)) => handler_thread_id_[h] # 0
  BY DEF Caused, direct, IdsInv, Binding
<1>3. \A id : Caused(initTask(h, id)) => handler_thread_id_[h] = 0
  BY DEF Caused, initTask
<1>4. \A t \in Threads : waits(tasks', t, direct(h)) => handler_thread_id_[h] # 0
  BY <1>1, <1>2 DEF Flows, DirectNames
<1>5. handler_thread_id_[h] # 0 => handler_thread_id_'[h] = handler_thread_id_[h]
  BY BuiltOnce
<1>6. ASSUME NEW id \in Id, Behind(tasks', MainThread, direct(h), initTask(h, id))
      PROVE  FALSE
  <2>1. waits(tasks', MainThread, direct(h))
    BY <1>6 DEF Behind, waits
  <2> QED BY <1>1, <1>3, <1>4, <1>6, <2>1 DEF Flows, DirectNames
<1> QED BY <1>4, <1>5, <1>6

\* The first message of a batch posts the task that takes the batch.
LEMMA FirstReceived ==
  ASSUME IdsInv, [Next]_vars, NEW q \in Session,
         messages_received_[q] = <<>>, messages_received_'[q] # <<>>
  PROVE  session_id_[q] # 0 /\ waits(tasks', io_thread_[q], deliver(q))
<1>0. ServerTypeOK /\ tasks \in Queues
  BY DEF IdsInv, ServerTypeOK, IoTypeOK, Queues
<1>1. messages_received_' # messages_received_
  OBVIOUS
<1>2. ~ UNCHANGED sessionVars /\ ~ UNCHANGED readVars
  BY <1>1 DEF sessionVars, readVars
<1>3. ASSUME MainStep PROVE FALSE
  <2>1. ASSUME NEW s \in Session, session_SendMessageListDirectly(s) PROVE FALSE
    BY <1>0, <2>1
    DEF session_SendMessageListDirectly, ServerTypeOK, SessionTypeOK, ReadTypeOK
  <2> QED
    BY <1>2, <1>3, <2>1
    DEF MainStep, handler_PackMessageList, handler_SendMessageListDirectly, session_closed,
        SendMessageListToHandler
<1>4. ASSUME ThreadStep PROVE FALSE
  <2>1. ASSUME NEW s \in Session, session_PackMessageList(s) PROVE FALSE
    BY <1>0, <2>1 DEF session_PackMessageList, ServerTypeOK, SessionTypeOK, ReadTypeOK
  <2> QED
    BY <1>1, <1>2, <1>4, <2>1
    DEF ThreadStep, keep_alive_close, close, init, close_timeout, SendMessageListToSession,
        CloseSession
<1>5. ASSUME EnvironmentStep \/ terminates PROVE FALSE
  BY <1>2, <1>5
  DEF EnvironmentStep, terminates, handle_accept, handle_accept_fails, connect,
      handle_accept_throws, connect_throws, connected_throws, app_send, app_close,
      check_keep_alive, sessionButBuiltVars
<1>6. CASE CompletionStep
  <2>1. PICK s \in Session, n \in Nat : handle_read(s, n)
    BY <1>1, <1>2, <1>6
    DEF CompletionStep, hanlde_write, hanlde_write_fails, handle_read_fails,
        handle_safe_close, close_timer_expires
  <2> DEFINE batch == [i \in 1 .. n |-> <<s, arrived[s] + i>>]
  <2>2. messages_received_' = [messages_received_ EXCEPT ![s] = @ \o batch]
    BY <2>1 DEF handle_read
  <2>3. q = s /\ messages_received_'[q] = <<>> \o batch
    BY <1>0, <2>2 DEF ServerTypeOK, SessionTypeOK, ReadTypeOK
  <2>4. batch \in Seq(Message)
    BY <1>0, MessageLists DEF ServerTypeOK, SessionTypeOK, ReadTypeOK
  <2>5. n > 0
    <3>1. <<>> \o batch = batch
      BY <2>4, ConcatEmptySeq
    <3>2. n = 0 => batch = <<>>
      BY <2>4, EmptySeq
    <3> QED BY <2>3, <3>1, <3>2
  <2>6. session_id_[s] # 0
    BY <2>1 DEF handle_read, IdsInv, Untouched
  <2>7. io_thread_[s] \in Threads
    BY <1>0, <2>6
    DEF IdsInv, Binding, ServerTypeOK, SessionTypeOK, BuiltTypeOK, ManagerTypeOK
  <2>8. tasks' = post(tasks, io_thread_[s], deliver(s))
    BY <2>1, <2>3, <2>5 DEF handle_read, deliver
  <2> QED BY <1>0, <2>3, <2>6, <2>7, <2>8, PostWaits
<1> QED BY <1>0, <1>2, <1>3, <1>4, <1>5, <1>6, Steps DEF vars

LEMMA FirstSent ==
  ASSUME IdsInv, [Next]_vars, NEW q \in Session,
         messages_to_be_sent_[q] = <<>>, messages_to_be_sent_'[q] # <<>>
  PROVE  /\ handler_thread_id_[q] # 0
         /\ waits(tasks', MainThread,
                  IF handler_thread_id_[q] = MainThread THEN direct(q) ELSE pack(q))
<1>0. ServerTypeOK /\ tasks \in Queues /\ MainThread \in Threads
  BY MainThreadIsThread DEF IdsInv, ServerTypeOK, IoTypeOK, Queues
<1>1. ASSUME NEW h \in Session, NEW queues \in Queues, send(h, queues),
             handler_session_id_[h] # 0
      PROVE  /\ handler_thread_id_[q] # 0
             /\ waits(tasks', MainThread,
                      IF handler_thread_id_[q] = MainThread THEN direct(q) ELSE pack(q))
  <2>1. h = q
    BY <1>0, <1>1 DEF send, ServerTypeOK, HandlerTypeOK
  <2>2. tasks' = post(queues, MainThread,
                      IF handler_thread_id_[q] = MainThread THEN direct(q) ELSE pack(q))
    BY <1>1, <2>1 DEF send, direct, pack
  <2> QED BY <1>0, <1>1, <2>1, <2>2, PostWaits DEF IdsInv, Binding
<1>2. ASSUME NEW h \in Session, NEW queues, handler_close(h, queues) PROVE FALSE
  BY <1>0, <1>2 DEF handler_close, ServerTypeOK, HandlerTypeOK
<1>3. ~ UNCHANGED handlerVars
  BY DEF handlerVars
<1>4. CASE MainStep
  <2>1. ASSUME NEW h \in Session,
               handler_PackMessageList(h) \/ handler_SendMessageListDirectly(h)
        PROVE  FALSE
    BY <1>0, <2>1
    DEF handler_PackMessageList, handler_SendMessageListDirectly, ServerTypeOK, HandlerTypeOK
  <2>2. PICK id \in Id : session_closed(id)
    BY <1>3, <1>4, <2>1
    DEF MainStep, session_SendMessageListDirectly, SendMessageListToHandler
  <2> DEFINE h == session_handler_map_[id]
             queues == popped(MainThread)
  <2>3. queues \in Queues
    BY <1>0, <2>2, PopType DEF session_closed, runs, ServerTypeOK
  <2>4. h # nullptr /\ (send(h, queues) \/ handler_close(h, queues))
    BY <1>3, <2>2 DEF session_closed
  <2>5. h \in Session /\ handler_session_id_[h] # 0
    <3>1. h \in Session /\ id # 0
      BY <1>0, <2>4, IdFacts DEF ServerTypeOK, ManagerTypeOK
    <3> QED BY <3>1 DEF IdsInv, IInv, HandlersIndexed
  <2> HIDE DEF queues, h
  <2> QED BY <1>1, <1>2, <2>3, <2>4, <2>5
<1>5. ASSUME ThreadStep PROVE FALSE
  BY <1>3, <1>5
  DEF ThreadStep, sessionAlone, session_PackMessageList, keep_alive_close,
      SendMessageListToSession, CloseSession
<1>6. ASSUME CompletionStep PROVE FALSE
  BY <1>3, <1>6 DEF CompletionStep, sessionAlone
<1>7. CASE EnvironmentStep \/ terminates
  <2>1. PICK h \in Session : app_send(h) \/ app_close(h)
    BY <1>3, <1>7
    DEF EnvironmentStep, terminates, handle_accept, handle_accept_fails, connect,
        handle_accept_throws, connect_throws, connected_throws, check_keep_alive
  <2> QED BY <1>0, <1>1, <1>2, <2>1 DEF app_send, app_close, is_closed
<1> QED BY <1>0, <1>3, <1>4, <1>5, <1>6, <1>7, Steps DEF vars

\* No step puts a handler that was connected before into the map again.
LEMMA NotIndexedAgain ==
  ASSUME IdsInv, IdsInv', [Next]_vars, NEW q \in Session, session_id_[q] # 0,
         session_handler_map_[session_id_[q]] # q
  PROVE  session_handler_map_'[session_id_[q]] # q
<1>1. session_id_[q] \in Id \ {0}
  BY DEF IdsInv, ServerTypeOK, SessionTypeOK, BuiltTypeOK
<1>2. handler_session_id_[q] # session_id_[q]
  BY <1>1 DEF IdsInv, IInv, HandlersIndexed
<1>3. handler_session_id_'[q] # session_id_[q]
  BY <1>1, <1>2, BuiltOnce DEF IdsInv, Binding
<1> QED BY <1>1, <1>3 DEF IdsInv, IInv, HandlersIndexed

LEMMA InboundStep ==
  ASSUME IdsInv, IdsInv', InboundBatch, [Next]_vars
  PROVE  InboundBatch'
<1> SUFFICES ASSUME NEW q \in Session, messages_received_'[q] # <<>>
    PROVE  /\ session_id_'[q] # 0
           /\ \/ waits(tasks', io_thread_'[q], deliver(q)')
              \/ /\ io_thread_'[q] = MainThread
                 /\ session_handler_map_'[session_id_'[q]] # q
  BY DEF InboundBatch, waits, deliver
<1>1. session_id_[q] # 0
  BY FirstReceived DEF InboundBatch
<1>2. io_thread_'[q] = io_thread_[q] /\ io_thread_[q] \in Threads
  BY <1>1, BuiltOnce
  DEF IdsInv, Binding, ServerTypeOK, SessionTypeOK, BuiltTypeOK, ManagerTypeOK
<1>3. session_id_'[q] = session_id_[q]
  BY <1>1, EffectStep
  DEF Effect, Rests, Opens, Closes, Writes, Posts, Enqueues, Starts, StaysOpen
<1>4. deliver(q)' = deliver(q)
  BY <1>2 DEF deliver
<1>5. CASE messages_received_[q] = <<>>
  BY <1>1, <1>2, <1>3, <1>4, <1>5, FirstReceived
<1>6. CASE io_thread_[q] = MainThread /\ session_handler_map_[session_id_[q]] # q
  BY <1>1, <1>2, <1>3, <1>6, NotIndexedAgain
<1>7. CASE waits(tasks, io_thread_[q], deliver(q)) /\ ~ waits(tasks', io_thread_[q], deliver(q))
  <2>1. Takes(io_thread_[q]) /\ Head(tasks[io_thread_[q]]) = deliver(q)
    BY <1>2, <1>7, LeftByRunning
  <2>2. CASE io_thread_[q] # MainThread
    <3>1. deliver(q).op = "session.PackMessageList" /\ deliver(q).s = q
      BY <2>2 DEF deliver
    <3>2. session_PackMessageList(q)
      BY <2>1, <3>1 DEF Takes
    <3> QED
      BY <3>2
      DEF session_PackMessageList, IdsInv, ServerTypeOK, SessionTypeOK, ReadTypeOK
  <2>3. CASE io_thread_[q] = MainThread
    <3>1. deliver(q).op = "session.SendMessageListDirectly" /\ deliver(q).s = q
      BY <2>3 DEF deliver
    <3>2. session_SendMessageListDirectly(q)
      BY <2>1, <3>1 DEF Takes
    <3>3. session_handler_map_[session_id_[q]] = nullptr
      BY <3>2
      DEF session_SendMessageListDirectly, IdsInv, ServerTypeOK, SessionTypeOK, ReadTypeOK
    <3>4. session_handler_map_[session_id_[q]] # q
      BY <3>3, IdFacts
    <3> QED BY <1>1, <1>2, <1>3, <2>3, <3>4, NotIndexedAgain
  <2> QED BY <2>2, <2>3
<1> QED BY <1>1, <1>2, <1>3, <1>4, <1>5, <1>6, <1>7 DEF InboundBatch

\* A session that has left does not come back.
LEMMA GoneStays ==
  ASSUME IdsInv, IdsInv', [Next]_vars, NEW h \in Session, handler_thread_id_[h] # 0, Gone(h)
  PROVE  Gone(h)'
<1> DEFINE t == handler_thread_id_[h]
           id == handler_session_id_'[h]
<1>1. /\ handler_thread_id_'[h] = t /\ t \in Threads /\ id \in Id
      /\ id \in {handler_session_id_[h], 0}
  BY BuiltOnce DEF IdsInv, ServerTypeOK, ManagerTypeOK
<1>2. CASE id = 0
  <2>1. session_handler_map_'[0] = nullptr
    <3>1. LiveIds' \subseteq 1 .. next_' - 1
      BY DEF IdsInv, IInv, GP!IInv, GP!IdsConserved
    <3> QED BY <3>1, SameIds DEF LiveIds
  <2>2. session_queue_'[t][0] = nullptr
    BY <1>1, <2>1, SameIds DEF IdsInv, IdsNameOnePair
  <2> QED BY <1>1, <1>2, <2>2 DEF Gone, session_of
<1>3. CASE id # 0
  <2>1. /\ session_id_[h] = id /\ io_thread_[h] = t
        /\ session_queue_[t][id] = nullptr
    BY <1>1, <1>3 DEF Gone, session_of, IdsInv, Binding
  <2>2. ~ Registered(h)
    BY <2>1, IdFacts DEF Registered
  <2>3. ~ Registered(h)'
    BY <1>3, <2>1, <2>2, KeptStep DEF Kept
  <2>4. session_id_'[h] = id
    BY <1>3, <2>1, EffectStep
    DEF Effect, Rests, Opens, Closes, Writes, Posts, Enqueues, Starts, StaysOpen
  <2>5. io_thread_'[h] = t
    BY <2>1, BuiltOnce
  <2>6. session_queue_'[t][id] # h
    BY <1>3, <2>3, <2>4, <2>5 DEF Registered
  <2>7. session_handler_map_'[id] = h
    BY <1>1, <1>3 DEF IdsInv, IInv, HandlersIndexed
  <2>8. session_queue_'[t][id] = nullptr
    BY <1>1, <2>6, <2>7 DEF IdsInv, IdsNameOnePair
  <2> QED BY <1>1, <1>3, <2>4, <2>8 DEF Gone, session_of
<1> QED BY <1>2, <1>3

LEMMA OutboundStep ==
  ASSUME IdsInv, IdsInv', DirectNames, OutboundBatch, [Next]_vars
  PROVE  OutboundBatch'
<1> SUFFICES ASSUME NEW h \in Session, messages_to_be_sent_'[h] # <<>>
    PROVE  /\ handler_thread_id_'[h] # 0
           /\ IF handler_thread_id_'[h] = MainThread
              THEN waits(tasks', MainThread, direct(h)) \/ Gone(h)'
              ELSE waits(tasks', MainThread, pack(h))
  BY DEF OutboundBatch, waits, direct, pack
<1>0. ServerTypeOK /\ MainThread \in Threads
  BY MainThreadIsThread DEF IdsInv
<1>1. handler_thread_id_[h] # 0
  BY FirstSent DEF OutboundBatch
<1>2. handler_thread_id_'[h] = handler_thread_id_[h]
  BY <1>1, BuiltOnce
<1>3. CASE messages_to_be_sent_[h] = <<>>
  BY <1>1, <1>2, <1>3, FirstSent
<1>4. CASE messages_to_be_sent_[h] # <<>> /\ handler_thread_id_[h] # MainThread
  <2>1. waits(tasks, MainThread, pack(h))
    BY <1>4 DEF OutboundBatch
  <2>2. ASSUME ~ waits(tasks', MainThread, pack(h)) PROVE FALSE
    <3>1. Takes(MainThread) /\ Head(tasks[MainThread]) = pack(h)
      BY <1>0, <2>1, <2>2, LeftByRunning
    <3>2. pack(h).op = "handler.PackMessageList" /\ pack(h).s = h
      BY DEF pack
    <3>3. handler_PackMessageList(h)
      BY <3>1, <3>2 DEF Takes
    <3> QED BY <1>0, <3>3 DEF handler_PackMessageList, ServerTypeOK, HandlerTypeOK
  <2> QED BY <1>1, <1>2, <1>4, <2>2
<1>5. CASE messages_to_be_sent_[h] # <<>> /\ handler_thread_id_[h] = MainThread
  <2>1. CASE Gone(h)
    BY <1>1, <1>2, <1>5, <2>1, GoneStays
  <2>2. CASE waits(tasks, MainThread, direct(h)) /\ ~ waits(tasks', MainThread, direct(h))
    <3>1. Takes(MainThread) /\ Head(tasks[MainThread]) = direct(h)
      BY <1>0, <2>2, LeftByRunning
    <3>2. /\ direct(h).op = "handler.SendMessageListDirectly" /\ direct(h).s = h
          /\ \A id : direct(h) # initTask(h, id)
      <4>1. \A id : initTask(h, id).op = "init"
        BY DEF initTask
      <4> QED BY <4>1 DEF direct
    <3>3. handler_SendMessageListDirectly(h)
      BY <3>1, <3>2 DEF Takes
    <3>4. session_of(h) = nullptr
      BY <1>0, <3>3 DEF handler_SendMessageListDirectly, ServerTypeOK, HandlerTypeOK
    <3>5. ASSUME session_id_[h] = 0, handler_session_id_[h] # 0 PROVE FALSE
      <4> DEFINE id == handler_session_id_[h]
                 q == tasks[MainThread]
      <4>1. waits(tasks, MainThread, initTask(h, id)) /\ id \in Id
        BY <1>0, <1>5, <3>5 DEF IdsInv, Carried, ServerTypeOK, ManagerTypeOK
      <4>2. PICK j \in DOMAIN q : q[j] = initTask(h, id)
        BY <4>1 DEF waits
      <4>3. q \in Seq(Task) /\ q # <<>> /\ q[1] = direct(h)
        BY <1>0, <3>1 DEF Takes, ServerTypeOK, IoTypeOK
      <4>4. DOMAIN q = 1 .. Len(q) /\ Len(q) \in Nat
        BY <4>3, LenProperties
      <4>5. 1 \in DOMAIN q /\ 1 < j
        BY <3>2, <4>2, <4>3, <4>4
      <4> QED BY <4>1, <4>2, <4>3, <4>5 DEF Behind, DirectNames
    <3>6. Gone(h)
      BY <3>4, <3>5 DEF Gone
    <3> QED BY <1>1, <1>2, <1>5, <3>6, GoneStays
  <2> QED BY <1>1, <1>2, <1>5, <2>1, <2>2 DEF OutboundBatch
<1> QED BY <1>3, <1>4, <1>5

LEMMA BatchInitially == Init => BatchInv
<1> SUFFICES ASSUME Init PROVE BatchInv
  OBVIOUS
<1>1. \A t \in Threads : DOMAIN tasks[t] = {}
  BY DEF Init
<1>2. DirectNames
  BY <1>1, MainThreadIsThread DEF DirectNames, waits, Behind
<1>3. InboundBatch /\ OutboundBatch
  BY DEF Init, SessionInit, HandlerInit, InboundBatch, OutboundBatch
<1> QED BY <1>2, <1>3, IdsInitially DEF BatchInv

LEMMA BatchStep == ASSUME BatchInv, [Next]_vars PROVE BatchInv'
BY IdsStep, DirectNamesStep, InboundStep, OutboundStep DEF BatchInv

LEMMA BatchInvariance == Spec => []BatchInv
BY BatchInitially, BatchStep, PTL DEF Spec

\* Whatever waits in messages_received_ or in messages_to_be_sent_ has a
\* task that will take it, although only the first message of a batch posts
\* one, unless the connection is gone (tcp_session.cpp:214-235,
\* tcp_session_handler.cpp:126-141).
THEOREM BatchesAreTaken == Spec => []NoStrandedBatch
<1>1. ASSUME BatchInv PROVE NoStrandedBatch
  <2>1. ASSUME NEW s \in Session, messages_received_[s] # <<>>
        PROVE  IF io_thread_[s] = MainThread
               THEN \/ queued(MainThread, [op |-> "session.SendMessageListDirectly", s |-> s])
                    \/ session_handler_map_[session_id_[s]] # s
               ELSE queued(io_thread_[s], [op |-> "session.PackMessageList", s |-> s])
    BY <1>1, <2>1 DEF BatchInv, InboundBatch, deliver, waits, queued
  <2>2. ASSUME NEW h \in Session, messages_to_be_sent_[h] # <<>>
        PROVE  IF handler_thread_id_[h] = MainThread
               THEN \/ queued(MainThread, [op |-> "handler.SendMessageListDirectly", s |-> h])
                    \/ session_of(h) = nullptr
               ELSE queued(MainThread, [op |-> "handler.PackMessageList", s |-> h])
    BY <1>1, <2>2 DEF BatchInv, OutboundBatch, Gone, direct, pack, waits, queued
  <2> QED BY <2>1, <2>2 DEF NoStrandedBatch
<1> QED BY <1>1, BatchInvariance, PTL
=============================================================================
