---------------------------- MODULE ImportLimit -----------------------------
(***************************************************************************)
(* The limit on the imports a user has at once,                            *)
(* services/platform-limits/lib/importer/user_concurrent_imports_amount.rb *)
(* over abstract_limit.rb: a Redis list with one element per slot in use.  *)
(* A request takes its slot first and looks at the length afterwards, in   *)
(* three commands (EXISTS, a push, LLEN) that others get in between. The   *)
(* list expires a fixed time after its creation, and Redis removes it when *)
(* its last element goes.                                                  *)
(***************************************************************************)
EXTENDS Integers, FiniteSets

CONSTANTS
  Web,         \* processes that call is_over_limit!
  MaxImports   \* max_concurrent_import_count of the user

ASSUME ImportLimitAssumption ==
  /\ IsFiniteSet(Web)
  /\ MaxImports \in Nat \ {0}

VARIABLES
  slots,   \* length of the list, 0 when the key does not exist
  push     \* the command each process is about to send, "none" outside increase

limitVars == <<slots, push>>

Pushes == {"none", "exists", "rpush", "rpushx"}

LimitTypeOK ==
  /\ slots \in Nat
  /\ push \in [Web -> Pushes]

LimitInit ==
  /\ slots = 0
  /\ push = [h \in Web |-> "none"]

Increase(h) ==
  /\ push[h] = "none"
  /\ push' = [push EXCEPT ![h] = "exists"]
  /\ UNCHANGED slots

(* EXISTS chooses between RPUSHX and, in one MULTI, RPUSH and EXPIRE.      *)
IncreaseExists(h) ==
  /\ push[h] = "exists"
  /\ push' = [push EXCEPT ![h] = IF slots > 0 THEN "rpushx" ELSE "rpush"]
  /\ UNCHANGED slots

(* Mutant: the loop for larger amounts runs `amount` times, not amount - 1. *)
IncreaseTwice(h) ==
  /\ push[h] \in {"rpush", "rpushx"}
  /\ slots' = IF push[h] = "rpush" \/ slots > 0 THEN slots + 2 ELSE 0
  /\ push' = [push EXCEPT ![h] = "none"]

(* RPUSHX does nothing when the key has gone in the meantime.              *)
IncreasePush(h) ==
  /\ push[h] \in {"rpush", "rpushx"}
  /\ slots' = IF push[h] = "rpush" \/ slots > 0 THEN slots + 1 ELSE 0
  /\ push' = [push EXCEPT ![h] = "none"]

IsOverLimit == slots > MaxImports

(* RPOP of a list that may be empty or gone: whatever EXISTS said before   *)
(* it, decrease takes one element or none.                                 *)
Decrease ==
  /\ slots' = IF slots > 0 THEN slots - 1 ELSE 0
  /\ UNCHANGED push

(* A process dies before its command.                                      *)
Abandon(h) ==
  /\ push' = [push EXCEPT ![h] = "none"]
  /\ UNCHANGED slots

(* Redis drops the list, whatever slots are still in use.                  *)
KeyExpires ==
  /\ slots > 0
  /\ slots' = 0
  /\ UNCHANGED push
=============================================================================
