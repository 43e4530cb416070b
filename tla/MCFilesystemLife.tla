-------------------------- MODULE MCFilesystemLife --------------------------
(***************************************************************************)
(* FilesystemLife for TLC: one subnet for each zone.                       *)
(***************************************************************************)
EXTENDS FilesystemLife

OwnZone == [s \in Subnets |-> s]
=============================================================================
