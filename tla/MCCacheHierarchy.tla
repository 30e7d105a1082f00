------------------------- MODULE MCCacheHierarchy --------------------------
(* An instance of CacheHierarchy for TLC.                                  *)
EXTENDS CacheHierarchy
=============================================================================
