------------------------ MODULE SessionCache_proofs -------------------------
(***************************************************************************)
(* Proofs about SessionCache, for any lives of the sessions and of the     *)
(* cache's entries, any latency and any number of clients.                 *)
(***************************************************************************)
EXTENDS SessionCache, TLAPS

USE TimesAssumption

(* The cache is empty and nobody has a session. *)
LEMMA InitIInv == Init => IInv
  BY DEF Init, IInv, TypeOK, SessionHasBuffer

(* An entry is handed out for CacheLife only, which leaves the buffer.     *)
LEMMA NextIInv == IInv /\ [Next]_vars => IInv'
<1> SUFFICES ASSUME IInv, [Next]_vars PROVE IInv'
  OBVIOUS
<1> USE DEF IInv, TypeOK, SessionHasBuffer, Buffer
<1>1. CASE UNCHANGED vars
  BY <1>1 DEF vars
<1>2. ASSUME NEW c \in Clients, Hit(c) PROVE IInv'
  BY <1>2 DEF Hit, Go, Fresh
<1>3. ASSUME NEW c \in Clients, Issue(c) PROVE IInv'
  BY <1>3 DEF Issue, Go
<1>4. ASSUME NEW c \in Clients, Store(c) PROVE IInv'
  BY <1>4 DEF Store, Go
<1>5. ASSUME NEW c \in Clients, Finish(c) PROVE IInv'
  BY <1>5 DEF Finish, Go
<1>6. CASE Tick
  BY <1>6 DEF Tick
<1> QED
  BY <1>1, <1>2, <1>3, <1>4, <1>5, <1>6 DEF Next

(* IInv holds in every reachable state. *)
THEOREM Invariance == Spec => []IInv
  BY InitIInv, NextIInv, PTL DEF Spec

(* assumeRole never returns a session with less than the buffer left.      *)
THEOREM BufferIsKept == Spec => []SessionHasBuffer
<1>1. IInv => SessionHasBuffer
  BY DEF IInv
<1> QED
  BY <1>1, Invariance, PTL

(* An orchestration that is no longer than the buffer never sees its       *)
(* session end.                                                            *)
THEOREM BufferIsEnough == Spec => []NoTerminatedSession
<1>1. IInv => NoTerminatedSession
  BY DEF IInv, TypeOK, SessionHasBuffer, NoTerminatedSession, Buffer
<1> QED
  BY <1>1, Invariance, PTL
=============================================================================
