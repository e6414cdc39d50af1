--------------------------- MODULE MCCacheMapLists ---------------------------
(***************************************************************************)
(* The search on lists, for TLC.                                           *)
(***************************************************************************)
EXTENDS CacheMapLists, CacheMachines
=============================================================================
