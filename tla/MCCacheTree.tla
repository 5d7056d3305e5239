---------------------------- MODULE MCCacheTree ----------------------------
(* Instances of CacheTree for TLC. *)
EXTENDS CacheTree
=============================================================================
