---------------------------- MODULE IDGenerator ----------------------------
(***************************************************************************)
(* IDGenerator<T> of id_generator.h: ids are minted in order from MinId,   *)
(* returned ids wait in pools_, and a waiting id is handed out again only  *)
(* once at least Threshold of them wait.                                   *)
(*                                                                         *)
(* T is an unsigned integer of Modulus values, so ++next_ wraps.  The      *)
(* generator does not remember which ids are out; `issued' is what its     *)
(* caller holds, and MaxLive bounds how many ids a caller holds at once.   *)
(***************************************************************************)
EXTENDS Naturals, FiniteSets

CONSTANTS
  MinId,      \* min_
  MaxId,      \* max_
  Modulus,    \* number of values of T: numeric_limits<T>::max() + 1
  Threshold,  \* threshold_
  MaxLive     \* most ids the caller holds at the same time

\* Threshold 0 would dereference the begin() of an empty set.
ASSUME IdAssumption ==
  /\ MinId \in Nat /\ MaxId \in Nat /\ Modulus \in Nat
  /\ MinId <= MaxId /\ MaxId < Modulus
  /\ Threshold \in Nat \ {0}
  /\ MaxLive \in Nat

VARIABLES next_, pools_, issued

vars == <<next_, pools_, issued>>

T == 0 .. Modulus - 1

Init ==
  /\ next_ = MinId
  /\ pools_ = {}
  /\ issued = {}

\* Minting, for the mutants of get; by itself one that never uses the pool.
get_never_recycles(result) ==
  /\ next_ <= MaxId
  /\ result = next_
  /\ next_' = next_ + 1
  /\ UNCHANGED pools_

\* Mutant of get: recycling starts one id late.
get_recycles_late(result) ==
  \/ /\ Cardinality(pools_) > Threshold
     /\ result \in pools_
     /\ pools_' = pools_ \ {result}
     /\ UNCHANGED next_
  \/ Cardinality(pools_) <= Threshold /\ get_never_recycles(result)

\* Mutant of get: the id is not erased from the pool.
get_keeps_pooled(result) ==
  \/ Cardinality(pools_) >= Threshold /\ result \in pools_ /\ UNCHANGED <<next_, pools_>>
  \/ Cardinality(pools_) < Threshold /\ get_never_recycles(result)

\* Mutant of get: an id is returned and another one erased.
get_erases_another(result) ==
  \/ /\ Cardinality(pools_) >= Threshold
     /\ \E other \in pools_ : result \in pools_ \ {other} /\ pools_' = pools_ \ {other}
     /\ UNCHANGED next_
  \/ Cardinality(pools_) < Threshold /\ get_never_recycles(result)

\* Mutant of get: the pool is cleared, not only one id erased.
get_clears_pool(result) ==
  \/ /\ Cardinality(pools_) >= Threshold
     /\ result \in pools_
     /\ pools_' = {}
     /\ UNCHANGED next_
  \/ Cardinality(pools_) < Threshold /\ get_never_recycles(result)

\* get(result) returning true.  *pools_.begin() of an unordered_set is any
\* element.
get(result) ==
  \/ /\ Cardinality(pools_) >= Threshold
     /\ result \in pools_
     /\ pools_' = pools_ \ {result}
     /\ UNCHANGED next_
  \/ /\ Cardinality(pools_) < Threshold
     /\ next_ <= MaxId
     /\ result = next_
     /\ next_' = (next_ + 1) % Modulus
     /\ UNCHANGED pools_

\* get(result) returning false.
getFails == Cardinality(pools_) < Threshold /\ next_ > MaxId

put(id) ==
  /\ pools_' = pools_ \cup {id}
  /\ UNCHANGED next_

----------------------------------------------------------------------------
(* The generator with a caller that returns only ids it holds.             *)

Get(id) ==
  /\ Cardinality(issued) < MaxLive
  /\ get(id)
  /\ issued' = issued \cup {id}

Put(id) ==
  /\ id \in issued
  /\ put(id)
  /\ issued' = issued \ {id}

Next == \E id \in T : Get(id) \/ Put(id)

Spec == Init /\ [][Next]_vars

----------------------------------------------------------------------------
TypeOK ==
  /\ next_ \in T
  /\ pools_ \subseteq T
  /\ issued \subseteq T

\* Enough ids for the caller and for those that wait: ++next_ cannot wrap.
Capacity == MinId + MaxLive + Threshold <= MaxId + 1

\* Every id minted so far is either waiting or held, never both and never
\* lost (id_generator.h:25-51).
IdsConserved ==
  /\ pools_ \cap issued = {}
  /\ pools_ \cup issued = MinId .. next_ - 1

\* However long the generator runs, it mints no more ids than the caller may
\* hold plus the threshold: recycling starts before the range runs out.
MintingBounded == next_ < MinId + MaxLive + Threshold

\* get() never fails for a caller below its limit (the throw in
\* io_service_thread_manager.cpp:124-127 is unreachable).
NeverExhausted == Cardinality(issued) < MaxLive => ~getFails

\* get() never returns an id that the caller still holds, nor one below min_.
FreshId == [][\A id \in T : Get(id) => id \notin issued /\ id >= MinId]_vars
=============================================================================
