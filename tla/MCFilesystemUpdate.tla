------------------------- MODULE MCFilesystemUpdate -------------------------
(***************************************************************************)
(* FilesystemUpdate for TLC: neither updates nor users are told apart, and *)
(* a request asks for both a backup policy and an access policy or for     *)
(* neither; its other settings are independent.                            *)
(***************************************************************************)
EXTENDS FilesystemUpdate, TLC

Symmetric == Permutations(Updates) \cup Permutations(Users)

PoliciesTogether == {w \in SUBSET Settings : "backup" \in w <=> "policy" \in w}
=============================================================================
