----------------------------- MODULE SyncLimit ------------------------------
(***************************************************************************)
(* The limit on the synchronizations a user has at once,                   *)
(* services/platform-limits/lib/importer/user_concurrent_syncs_amount.rb:  *)
(* a Redis list with one element per slot in use. Reading its length,      *)
(* asking whether it exists and pushing are separate commands, so several  *)
(* clients may push after reading the same length; the whole list expires  *)
(* KEY_TTL after its creation.                                             *)
(***************************************************************************)
EXTENDS Integers, FiniteSets

CONSTANTS
  Client,    \* processes that call increment!
  MaxSyncs   \* MAX_SYNCS_PER_USER

ASSUME SyncLimitAssumption ==
  /\ IsFiniteSet(Client)
  /\ MaxSyncs \in Nat \ {0}

VARIABLES
  slots,   \* length of the list, 0 when the key does not exist
  push     \* the command each client is about to send, "none" if it is not in increase

limitVars == <<slots, push>>

Pushes == {"none", "exists", "rpush", "rpushx"}

LimitTypeOK ==
  /\ slots \in Nat
  /\ push \in [Client -> Pushes]

LimitInit ==
  /\ slots = 0
  /\ push = [c \in Client |-> "none"]

(* Mutant: only more than the maximum is over the limit.                   *)
WithinLimitOffByOne == slots <= MaxSyncs

(* is_within_limit?                                                        *)
WithinLimit == slots < MaxSyncs

(* increase reads the length: nothing to do at the maximum.                *)
IncreaseRead(c) ==
  /\ push[c] = "none"
  /\ push' = [push EXCEPT ![c] = IF WithinLimit THEN "exists" ELSE "none"]
  /\ UNCHANGED slots

(* EXISTS chooses between RPUSHX and, in one MULTI, RPUSH and EXPIRE.      *)
IncreaseExists(c) ==
  /\ push[c] = "exists"
  /\ push' = [push EXCEPT ![c] = IF slots > 0 THEN "rpushx" ELSE "rpush"]
  /\ UNCHANGED slots

(* RPUSHX does nothing when the key has gone in the meantime.              *)
IncreasePush(c) ==
  /\ push[c] \in {"rpush", "rpushx"}
  /\ slots' = IF push[c] = "rpush" \/ slots > 0 THEN slots + 1 ELSE 0
  /\ push' = [push EXCEPT ![c] = "none"]

(* A client dies before its command.                                       *)
Abandon(c) ==
  /\ push' = [push EXCEPT ![c] = "none"]
  /\ UNCHANGED slots

(* RPOP of a list that may be empty or gone: whatever LLEN and EXISTS said *)
(* before it, decrease takes one element or none.                          *)
Decrease ==
  /\ slots' = IF slots > 0 THEN slots - 1 ELSE 0
  /\ UNCHANGED push

(* Redis drops the list, whatever slots are still in use.                  *)
KeyExpires ==
  /\ slots > 0
  /\ slots' = 0
  /\ UNCHANGED push

LimitNext ==
  \/ \E c \in Client : IncreaseRead(c) \/ IncreaseExists(c) \/ IncreasePush(c) \/ Abandon(c)
  \/ Decrease
  \/ KeyExpires

LimitSpec == LimitInit /\ [][LimitNext]_limitVars

-----------------------------------------------------------------------------

Pushing == {c \in Client : push[c] # "none"}

(* Checking the length and pushing are not atomic, yet the list never has  *)
(* more than one element too many per additional concurrent client.        *)
SlotsBounded == slots <= MaxSyncs - 1 + Cardinality(Client)
=============================================================================
