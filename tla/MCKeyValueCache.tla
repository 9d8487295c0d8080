--------------------------- MODULE MCKeyValueCache ---------------------------
(* KeyValueCache on a small instance.  Two keys can be deleted at the same  *)
(* commit time, which is what hides an entry of deleted_nodes_; time 0 is   *)
(* the boundary of the initial cutoff.                                      *)
EXTENDS KeyValueCache

MCTimes == 0..4
=============================================================================
