------------------------- MODULE MCDataOrchestrator -------------------------
(***************************************************************************)
(* Model values for DataOrchestrator.                                      *)
(***************************************************************************)
EXTENDS DataOrchestrator

\* A bucket without snapshots, and one whose newest snapshots cannot be used.
MCSnapshots ==
    LET snapshot(ok, own, f) ==
            [well_formed |-> ok, own_shard |-> own, ending_delta_file |-> f]
    IN {<<>>,
        <<snapshot(TRUE, TRUE, 1), snapshot(TRUE, FALSE, 2),
          snapshot(FALSE, TRUE, 3)>>}
=============================================================================
