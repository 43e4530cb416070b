------------------------- MODULE MCFilesystemDelete -------------------------
(***************************************************************************)
(* FilesystemDelete for TLC: one subnet for each zone.                     *)
(***************************************************************************)
EXTENDS FilesystemDelete

OwnZone == [s \in Subnets |-> s]
=============================================================================
