---------------------------- MODULE SessionCache ----------------------------
(***************************************************************************)
(* assumeRole of api/role.go: the sessions of one role and policy, shared  *)
(* by the requests of the server through a cache.  STS gives a session a   *)
(* fixed life; the cache hands it out for a shorter time, so that a        *)
(* request that gets an old session still has a rest of its life to work   *)
(* with.  A session is never renewed: an orchestration keeps the one its   *)
(* request got until it ends.                                              *)
(***************************************************************************)
EXTENDS Integers

CONSTANTS
    Clients,        \* requests and their orchestrations
    SessionLife,    \* 900 seconds in the code
    CacheLife,      \* 600 seconds in the code
    Latency,        \* bound: time between the issue of a session and its caching
    HoldTime,       \* bound: how long each of them works with its session
    MaxTime         \* bound: where the clock stops

ASSUME TimesAssumption ==
    /\ SessionLife \in Nat /\ CacheLife \in Nat /\ Latency \in Nat
    /\ HoldTime \in [Clients -> Nat] /\ MaxTime \in Nat

VARIABLES
    now,
    cache,          \* the cached session's end, and until when it is handed out
    at,             \* where each client is
    session,        \* the end of the session a client got
    since           \* when it got it

vars == <<now, cache, at, session, since>>

TypeOK ==
    /\ now \in Nat
    /\ cache \in [end : Nat, until : Nat]
    /\ at \in [Clients -> {"idle", "issued", "holds"}]
    /\ session \in [Clients -> Nat]
    /\ since \in [Clients -> Nat]

(* An entry that has expired is as good as none. *)
Init ==
    /\ now = 1
    /\ cache = [end |-> 0, until |-> 0]
    /\ at = [c \in Clients |-> "idle"]
    /\ session = [c \in Clients |-> 0]
    /\ since = [c \in Clients |-> 0]

Fresh == now <= cache.until

Go(c, from, to) == at[c] = from /\ at' = [at EXCEPT ![c] = to]

-----------------------------------------------------------------------------
(* Mutant: a hit renews the entry. *)
HitAndRenew(c) ==
    /\ Fresh
    /\ Go(c, "idle", "holds")
    /\ session' = [session EXCEPT ![c] = cache.end]
    /\ since' = [since EXCEPT ![c] = now]
    /\ cache' = [cache EXCEPT !.until = now + CacheLife]
    /\ UNCHANGED now

(* A session is found in the cache. *)
Hit(c) ==
    /\ Fresh
    /\ Go(c, "idle", "holds")
    /\ session' = [session EXCEPT ![c] = cache.end]
    /\ since' = [since EXCEPT ![c] = now]
    /\ UNCHANGED <<now, cache>>

(* None is found, and STS issues one.  Several clients may be here at once. *)
Issue(c) ==
    /\ ~Fresh
    /\ Go(c, "idle", "issued")
    /\ session' = [session EXCEPT ![c] = now + SessionLife]
    /\ since' = [since EXCEPT ![c] = now]
    /\ UNCHANGED <<now, cache>>

(* Mutant: the entry is kept for as long as the session lives. *)
StoreForLife(c) ==
    /\ Go(c, "issued", "holds")
    /\ cache' = [end |-> session[c], until |-> now + SessionLife]
    /\ since' = [since EXCEPT ![c] = now]
    /\ UNCHANGED <<now, session>>

(* The new session is cached over whatever is there, and returned. *)
Store(c) ==
    /\ Go(c, "issued", "holds")
    /\ cache' = [end |-> session[c], until |-> now + CacheLife]
    /\ since' = [since EXCEPT ![c] = now]
    /\ UNCHANGED <<now, session>>

(* The orchestration ends. *)
Finish(c) ==
    /\ Go(c, "holds", "idle")
    /\ UNCHANGED <<now, cache, session, since>>

Tick ==
    /\ now < MaxTime
    /\ \A c \in Clients :
          /\ at[c] = "issued" => now < since[c] + Latency
          /\ at[c] = "holds" => now < since[c] + HoldTime[c]
    /\ now' = now + 1
    /\ UNCHANGED <<cache, at, session, since>>

Next ==
    \/ \E c \in Clients : Hit(c) \/ Issue(c) \/ Store(c) \/ Finish(c)
    \/ Tick

Spec == Init /\ [][Next]_vars

-----------------------------------------------------------------------------
(* What a session has left when assumeRole returns it, at least. *)
Buffer == SessionLife - CacheLife - Latency

(* Cached or new, a session is returned with the buffer the comment of     *)
(* assumeRole promises, also when clients that missed the cache together   *)
(* overwrite each other's entries.                                         *)
SessionHasBuffer ==
    \A c \in Clients : at[c] = "holds" => session[c] >= since[c] + Buffer

(* No orchestration that is no longer than the buffer works with a session *)
(* that has ended, whoever else uses the cache, and for however long.      *)
NoTerminatedSession ==
    \A c \in Clients : at[c] = "holds" /\ HoldTime[c] <= Buffer => now <= session[c]

(* The invariant behind both. *)
IInv ==
    /\ TypeOK
    /\ cache.until > 0 => cache.end >= cache.until + Buffer
    /\ \A c \in Clients :
          /\ at[c] # "idle" => since[c] <= now
          /\ at[c] = "issued" =>
                session[c] = since[c] + SessionLife /\ now <= since[c] + Latency
          /\ at[c] = "holds" => now <= since[c] + HoldTime[c]
    /\ SessionHasBuffer
    /\ now > 0
=============================================================================
