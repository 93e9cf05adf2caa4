----------------------------- MODULE EddyTypes -----------------------------
(***************************************************************************)
(* Names shared by the modules of eddyserver (types.h).                    *)
(***************************************************************************)
EXTENDS Naturals, FiniteSets

CONSTANTS
  Session,     \* TCPSession objects; a session's handler has its name
  nullptr,
  NumThreads,  \* thread_num of IOServiceThreadManager's constructor
  Modulus      \* 2^32: number of values of uint32_t

ASSUME TypesAssumption ==
  /\ IsFiniteSet(Session) /\ nullptr \notin Session
  /\ NumThreads \in Nat \ {0}
  /\ Modulus \in Nat \ {0, 1}

Threads == 1 .. NumThreads         \* IOThreadID: index + 1
MainThread == 1                    \* kMainThreadIndex + 1
Workers == Threads \ {MainThread}
Id == 0 .. Modulus - 1             \* TCPSessionID
=============================================================================
