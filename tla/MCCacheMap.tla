----------------------------- MODULE MCCacheMap -----------------------------
(***************************************************************************)
(* The search for cache sets, for TLC.                                     *)
(***************************************************************************)
EXTENDS CacheMap, CacheMachines
=============================================================================
