------------------------- MODULE MCSynchronization --------------------------
(* Model values for the synchronizations of a user: the configurations say *)
(* how many rows, workers and web processes there are beside the rake task.*)
EXTENDS Synchronization, TLC

CONSTANTS s1, s2, s3, w1, w2, h1

MCClient == Web \cup {Cron}
Symmetric == Permutations(Sync) \cup Permutations(Worker)
=============================================================================
