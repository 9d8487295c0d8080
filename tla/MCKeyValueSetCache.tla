------------------------- MODULE MCKeyValueSetCache -------------------------
(***************************************************************************)
(* Instances of KeyValueSetCache.  Two mutators, one clean-up (only the    *)
(* data loader thread calls RemoveDeletedKeys) and one lookup.             *)
(***************************************************************************)
EXTENDS KeyValueSetCache

MCTimes == 1..2
=============================================================================
