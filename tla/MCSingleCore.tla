----------------------------- MODULE MCSingleCore -----------------------------
(***************************************************************************)
(* The single-core channels for TLC, with three units and a handful of     *)
(* data points, two of them warmups.                                       *)
(***************************************************************************)
EXTENDS SingleCore, Channels

\* The theorems about labels and fresh secrets hold for this instance.
ASSUME SliceFitsHere == SliceFits
=============================================================================
