------------------------------- MODULE MCBolt -------------------------------
(* Three callers of one bolt key: a plain one with two attempts and two    *)
(* that pass a fail_function and make one attempt, as GhostTablesManager   *)
(* does.                                                                   *)
EXTENDS Bolt

CONSTANTS a, b, c

MCProc == {a, b, c}
MCNotifier == {b, c}
MCAttempts == [p \in MCProc |-> IF p = a THEN 2 ELSE 1]

=============================================================================
