------------------------- MODULE MCFilesystemCreate -------------------------
(***************************************************************************)
(* FilesystemCreate for TLC: two subnets, of two zones or of one.          *)
(***************************************************************************)
EXTENDS FilesystemCreate

TwoZones == [s \in Subnets |-> s]
SameZone == [s \in Subnets |-> "zone"]
=============================================================================
