--------------------------- MODULE MCDocumentSync ---------------------------
(* Instances of DocumentSync for TLC. *)
EXTENDS DocumentSyncRefinement, TLC

\* Requests are interchangeable (used by the runs that check no liveness).
Interchangeable == Permutations(Reqs)

\* Operations that take the document lock.
Serialised == {"create", "update", "delete", "keep_filesystem"}

\* Everything, the paths that take no lock and other programs included.
EveryOp == {"create", "update", "delete", "reindex", "bulk", "edit",
            "keep_database"}

=============================================================================
