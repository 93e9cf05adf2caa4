------------------------- MODULE IDGenerator_proofs -------------------------
(***************************************************************************)
(* What IDGenerator promises a caller that returns only ids it holds, for  *)
(* every width of T and every threshold, as long as the range is large     *)
(* enough for the caller and the pool together (Capacity).                 *)
(***************************************************************************)
EXTENDS IDGenerator, FiniteSetTheorems, TLAPS

\* The ids minted so far are as many as those that wait and those held.
Counted ==
  /\ IsFiniteSet(pools_) /\ IsFiniteSet(issued)
  /\ next_ - MinId = Cardinality(pools_) + Cardinality(issued)

IInv ==
  /\ TypeOK
  /\ IdsConserved
  /\ MintingBounded
  /\ MinId <= next_
  /\ IsFiniteSet(pools_) /\ IsFiniteSet(issued)
  /\ Cardinality(issued) <= MaxLive

\* Counting both sides of IdsConserved.
LEMMA Counting == IInv => Counted
<1> SUFFICES ASSUME IInv PROVE Counted
  OBVIOUS
<1>1. Cardinality(MinId .. next_ - 1) = next_ - MinId
  <2>1. MinId \in Int /\ next_ - 1 \in Int /\ next_ \in Int /\ MinId <= next_
    BY IdAssumption DEF IInv, TypeOK, T
  <2>2. Cardinality(MinId .. next_ - 1)
          = IF MinId > next_ - 1 THEN 0 ELSE next_ - 1 - MinId + 1
    BY <2>1, FS_Interval
  <2> QED BY <2>1, <2>2
<1>2. Cardinality(pools_ \cup issued) = Cardinality(pools_) + Cardinality(issued)
  <2>1. IsFiniteSet(pools_) /\ IsFiniteSet(issued)
    BY DEF IInv
  <2>2. Cardinality(pools_ \cup issued)
          = Cardinality(pools_) + Cardinality(issued) - Cardinality(pools_ \cap issued)
    BY <2>1, FS_Union
  <2>3. Cardinality(pools_ \cap issued) = 0
    BY FS_EmptySet DEF IInv, IdsConserved
  <2>4. Cardinality(pools_) \in Nat /\ Cardinality(issued) \in Nat
    BY <2>1, FS_CardinalityType
  <2> QED BY <2>2, <2>3, <2>4
<1> QED BY <1>1, <1>2 DEF IInv, IdsConserved, Counted

\* No step of a caller below its limit makes next_ wrap.
LEMMA MintingFits ==
  ASSUME Capacity, IInv, Cardinality(issued) < MaxLive, Cardinality(pools_) < Threshold
  PROVE  /\ next_ < MaxId
         /\ (next_ + 1) % Modulus = next_ + 1
         /\ next_ + 1 < MinId + MaxLive + Threshold
<1>1. Counted
  BY Counting
<1>2. Cardinality(issued) \in Nat /\ Cardinality(pools_) \in Nat
  BY FS_CardinalityType DEF IInv
<1> QED
  BY <1>1, <1>2, IdAssumption DEF IInv, TypeOK, T, Capacity, Counted

LEMMA Initially == Init => IInv
<1> SUFFICES ASSUME Init PROVE IInv
  OBVIOUS
<1>1. Cardinality({}) = 0 /\ IsFiniteSet({})
  BY FS_EmptySet
<1>2. MinId .. next_ - 1 = {}
  BY IdAssumption DEF Init
<1> QED
  BY <1>1, <1>2, IdAssumption
  DEF Init, IInv, TypeOK, T, IdsConserved, MintingBounded

\* What get() returns is neither held nor below min_.
LEMMA GetIsFresh ==
  ASSUME IInv, NEW id \in T, Get(id)
  PROVE  id \notin issued /\ id >= MinId
<1>1. pools_ \cup issued = MinId .. next_ - 1 /\ pools_ \cap issued = {}
  BY DEF IInv, IdsConserved
<1>2. MinId <= next_ /\ next_ \in Nat /\ MinId \in Nat
  BY IdAssumption DEF IInv, TypeOK, T
<1>3. CASE id \in pools_
  BY <1>1, <1>2, <1>3
<1>4. CASE id = next_
  BY <1>1, <1>2, <1>4
<1> QED BY <1>3, <1>4 DEF Get, get

\* A recycled id moves from the pool to the caller, a minted one extends the
\* range by one.
LEMMA GetPreserves ==
  ASSUME Capacity, IInv, NEW id \in T, Get(id)
  PROVE  IInv'
<1> USE IdAssumption
<1>1. /\ IsFiniteSet(issued') 
      /\ id \notin issued => Cardinality(issued') = Cardinality(issued) + 1
  BY FS_AddElement DEF Get, IInv
<1>2. Cardinality(issued) \in Nat /\ Cardinality(issued) < MaxLive
  BY FS_CardinalityType DEF IInv, Get
<1>3. CASE /\ id \in pools_ /\ pools_' = pools_ \ {id} /\ next_' = next_
  <2>1. id \notin issued
    BY <1>3 DEF IInv, IdsConserved
  <2>2. IsFiniteSet(pools_')
    BY <1>3, FS_Subset DEF IInv
  <2>3. IdsConserved'
    BY <1>3, <2>1 DEF IInv, IdsConserved, Get
  <2> QED
    BY <1>1, <1>2, <1>3, <2>1, <2>2, <2>3
    DEF IInv, TypeOK, MintingBounded, Get
<1>4. CASE /\ Cardinality(pools_) < Threshold /\ id = next_
           /\ next_' = (next_ + 1) % Modulus /\ pools_' = pools_
  <2>1. next_ < MaxId /\ next_' = next_ + 1 /\ next_' < MinId + MaxLive + Threshold
    BY <1>2, <1>4, MintingFits
  <2>2. next_ \in Nat /\ MinId <= next_
    BY DEF IInv, TypeOK, T
  <2>3. MinId .. next_' - 1 = (MinId .. next_ - 1) \cup {next_}
    BY <2>1, <2>2
  <2>4. next_ \notin MinId .. next_ - 1
    BY <2>2
  <2>5. IdsConserved'
    BY <1>4, <2>3, <2>4 DEF IInv, IdsConserved, Get
  <2>6. id \notin issued
    BY <1>4, <2>4 DEF IInv, IdsConserved
  <2> QED
    BY <1>1, <1>2, <1>4, <2>1, <2>2, <2>5, <2>6
    DEF IInv, TypeOK, T, MintingBounded, Get
<1> QED
  BY <1>3, <1>4 DEF Get, get

LEMMA PutPreserves ==
  ASSUME IInv, NEW id \in T, Put(id)
  PROVE  IInv'
<1>1. /\ IsFiniteSet(issued') /\ IsFiniteSet(pools_')
      /\ Cardinality(issued') = Cardinality(issued) - 1
  BY FS_AddElement, FS_RemoveElement DEF IInv, Put, put
<1>2. Cardinality(issued) \in Nat
  BY FS_CardinalityType DEF IInv
<1>3. IdsConserved'
  BY DEF IInv, IdsConserved, Put, put
<1> QED
  BY <1>1, <1>2, <1>3, IdAssumption DEF IInv, TypeOK, MintingBounded, Put, put

LEMMA Inductive ==
  ASSUME Capacity, IInv, [Next]_vars
  PROVE  IInv'
<1>1. CASE UNCHANGED vars
  BY <1>1 DEF vars, IInv, TypeOK, IdsConserved, MintingBounded
<1>2. CASE Next
  BY <1>2, GetPreserves, PutPreserves DEF Next
<1> QED BY <1>1, <1>2

LEMMA Invariance == ASSUME Capacity PROVE Spec => []IInv
BY Initially, Inductive, PTL DEF Spec

----------------------------------------------------------------------------
\* No id is lost and none is both waiting and held (id_generator.h:25-51).
THEOREM Conservation == ASSUME Capacity PROVE Spec => []IdsConserved
BY Invariance, PTL DEF IInv

\* Recycling bounds how many ids are ever minted (id_generator.h:27-39).
THEOREM BoundedMinting == ASSUME Capacity PROVE Spec => []MintingBounded
BY Invariance, PTL DEF IInv

\* get() cannot fail for a caller below its limit: the exception of
\* on_session_connected is unreachable (io_service_thread_manager.cpp:124-127).
THEOREM Availability == ASSUME Capacity PROVE Spec => []NeverExhausted
<1>1. IInv => NeverExhausted
  BY MintingFits, IdAssumption DEF NeverExhausted, getFails, IInv, TypeOK, T
<1> QED BY <1>1, Invariance, PTL

\* get() never hands out an id that is still held (id_generator.h:25-41).
THEOREM Freshness == ASSUME Capacity PROVE Spec => FreshId
<1>1. IInv /\ [Next]_vars =>
        [\A id \in T : Get(id) => id \notin issued /\ id >= MinId]_vars
  BY GetIsFresh
<1> QED BY <1>1, Invariance, PTL DEF Spec, FreshId
=============================================================================
