--------------------------- MODULE MCCovertChannel ---------------------------
(***************************************************************************)
(* The covert channels for TLC, with three units and a handful of data     *)
(* points, one of them a warmup.                                           *)
(***************************************************************************)
EXTENDS CovertChannel, Channels
=============================================================================
