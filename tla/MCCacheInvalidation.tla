------------------------ MODULE MCCacheInvalidation ------------------------
(* Small instances of CacheInvalidation. *)
EXTENDS CacheInvalidation, TLC

=============================================================================
