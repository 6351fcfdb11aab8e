--------------------------- MODULE MCGhostTables ---------------------------
(* A visitor and a worker, one table that is linked at first, and one      *)
(* registrar of any kind beside one upset.                                 *)
EXTENDS GhostTables

CONSTANTS v, w, i, s, c, A, B, X

MCProc == Visitor \cup Worker \cup Importer \cup Syncer \cup Creator
MCNotifier == Visitor \cup Worker
MCLinked == <<A>>
MCTempName == [p \in Syncer |-> X]
MCAttempts == [p \in MCProc |-> 1]
=============================================================================
