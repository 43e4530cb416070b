--------------------------- MODULE MCSessionCache ---------------------------
(***************************************************************************)
(* SessionCache for TLC: in units of 100 seconds, a client that is no      *)
(* longer than the buffer and one that waits for its filesystem with       *)
(* retry(10, 2 * time.Second, ...), whose sleeps add up to 1022 seconds at *)
(* least.                                                                  *)
(***************************************************************************)
EXTENDS SessionCache

CONSTANTS Short, Long

ShortAndLong == [c \in Clients |-> IF c = Short THEN 2 ELSE 10]
=============================================================================
