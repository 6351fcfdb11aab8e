-------------------------------- MODULE Bolt --------------------------------
(***************************************************************************)
(* Carto::Bolt, the Redis mutex of lib/carto/bolt.rb, for one bolt key.    *)
(* Every Redis command and every block is a step of its own.               *)
(*                                                                         *)
(* In Redis the bolt key holds `true`: `lock` records, for the properties, *)
(* whose SET created the key, and no action of the code reads the owner.   *)
(* `overruns` and `claims` are history variables.                          *)
(***************************************************************************)
EXTENDS Integers, FiniteSets

CONSTANTS
  Proc,         \* processes that may call run_locked on this key
  Notifier,     \* those that pass a fail_function
  Attempts,     \* the attempts: argument of each process
  NoProc,
  MaxOverruns   \* bound: leases that end under their holder

ASSUME BoltAssumption ==
  /\ IsFiniteSet(Proc)
  /\ NoProc \notin Proc
  /\ Notifier \subseteq Proc
  /\ Attempts \in [Proc -> Nat \ {0}]
  /\ MaxOverruns \in Nat

VARIABLES
  lock,      \* creator of the bolt key, NoProc when the key does not exist
  retry,     \* the "<key>:retry" flag exists
  pc,        \* where each process is inside run_locked
  tries,     \* attempts of acquire_lock that found the key, 0 outside of it
  overruns,  \* leases that have ended while their holder was inside
  claims     \* set_retry calls that found no flag since the key was last set

boltVars == <<lock, retry, pc, tries, overruns, claims>>

Where == {"idle", "acquiring", "sleeping", "acquired", "running", "releasing",
          "denied", "rescheduling"}

(* From the SET that succeeded to the DEL of the ensure clause.            *)
Inside == {p \in Proc : pc[p] \in {"acquired", "running", "releasing"}}

Orphans == {p \in Inside : lock # p}

BoltInit ==
  /\ lock = NoProc
  /\ retry = FALSE
  /\ pc = [p \in Proc |-> "idle"]
  /\ tries = [p \in Proc |-> 0]
  /\ overruns = 0
  /\ claims = 0

Goto(p, where) == pc' = [pc EXCEPT ![p] = where]

-----------------------------------------------------------------------------

Call(p) ==
  /\ pc[p] = "idle"
  /\ Goto(p, "acquiring")
  /\ UNCHANGED <<lock, retry, tries, overruns, claims>>

(* Mutant: SET without NX.                                                 *)
GetLockWithoutNX(p) ==
  /\ pc[p] = "acquiring"
  /\ lock' = p
  /\ claims' = 0
  /\ Goto(p, "acquired")
  /\ UNCHANGED <<retry, tries, overruns>>

(* SET key true PX ttl NX creates the key.                                 *)
GetLock(p) ==
  /\ pc[p] = "acquiring"
  /\ lock = NoProc
  /\ lock' = p
  /\ claims' = 0
  /\ tries' = [tries EXCEPT ![p] = 0]
  /\ Goto(p, "acquired")
  /\ UNCHANGED <<retry, overruns>>

(* Mutant: one attempt too many.                                           *)
MissLockOffByOne(p) ==
  /\ pc[p] = "acquiring"
  /\ lock # NoProc
  /\ tries' = [tries EXCEPT ![p] = @ + 1]
  /\ \/ tries[p] < Attempts[p] /\ Goto(p, "sleeping")
     \/ tries[p] = Attempts[p] /\ Goto(p, IF p \in Notifier THEN "denied" ELSE "idle")
  /\ UNCHANGED <<lock, retry, overruns, claims>>

(* SET ... NX finds the key: sleep unless this was the last attempt, then  *)
(* go on to set_retry if there is a fail_function, else return false.      *)
MissLock(p) ==
  /\ pc[p] = "acquiring"
  /\ lock # NoProc
  /\ \/ /\ tries[p] + 1 < Attempts[p]
        /\ tries' = [tries EXCEPT ![p] = @ + 1]
        /\ Goto(p, "sleeping")
     \/ /\ tries[p] + 1 = Attempts[p]
        /\ tries' = [tries EXCEPT ![p] = 0]
        /\ Goto(p, IF p \in Notifier THEN "denied" ELSE "idle")
  /\ UNCHANGED <<lock, retry, overruns, claims>>

Wake(p) ==
  /\ pc[p] = "sleeping"
  /\ Goto(p, "acquiring")
  /\ UNCHANGED <<lock, retry, tries, overruns, claims>>

(* Mutant: deletes the bolt key instead of the flag.                       *)
RetriedOnLockKey(p) ==
  /\ pc[p] = "acquired"
  /\ lock' = NoProc
  /\ Goto(p, "running")
  /\ UNCHANGED <<retry, tries, overruns, claims>>

(* DEL key:retry, then the block starts.                                   *)
Retried(p) ==
  /\ pc[p] = "acquired"
  /\ retry' = FALSE
  /\ Goto(p, "running")
  /\ UNCHANGED <<lock, tries, overruns, claims>>

(* The block returns or raises: the ensure clause is next either way.      *)
Finish(p) ==
  /\ pc[p] = "running"
  /\ Goto(p, "releasing")
  /\ UNCHANGED <<lock, retry, tries, overruns, claims>>

(* DEL key, whoever created it.                                            *)
Unlock(p) ==
  /\ pc[p] = "releasing"
  /\ lock' = NoProc
  /\ Goto(p, "idle")
  /\ UNCHANGED <<retry, tries, overruns, claims>>

(* Mutant: GET instead of GETSET.                                          *)
SetRetryWithGet(p) ==
  /\ pc[p] = "denied"
  /\ \/ ~retry /\ claims' = claims + 1 /\ Goto(p, "rescheduling")
     \/ retry /\ UNCHANGED claims /\ Goto(p, "idle")
  /\ UNCHANGED <<lock, retry, tries, overruns>>

(* GETSET key:retry true: the fail_function is called only if the flag was *)
(* not there.                                                              *)
SetRetry(p) ==
  /\ pc[p] = "denied"
  /\ retry' = TRUE
  /\ \/ ~retry /\ claims' = claims + 1 /\ Goto(p, "rescheduling")
     \/ retry /\ UNCHANGED claims /\ Goto(p, "idle")
  /\ UNCHANGED <<lock, tries, overruns>>

FailFunction(p) ==
  /\ pc[p] = "rescheduling"
  /\ Goto(p, "idle")
  /\ UNCHANGED <<lock, retry, tries, overruns, claims>>

-----------------------------------------------------------------------------

(* Mutant: SET without PX, so the key of a dead holder stays.              *)
ExpireWithoutTTL ==
  /\ lock \in Inside
  /\ overruns < MaxOverruns
  /\ lock' = NoProc
  /\ overruns' = overruns + 1
  /\ UNCHANGED <<retry, pc, tries, claims>>

(* Redis drops the key ttl_ms after the SET: after its holder died, or     *)
(* under a holder that is still inside.                                    *)
Expire ==
  /\ lock # NoProc
  /\ lock' = NoProc
  /\ \/ /\ lock \in Inside
        /\ overruns < MaxOverruns
        /\ overruns' = overruns + 1
     \/ lock \notin Inside /\ UNCHANGED overruns
  /\ UNCHANGED <<retry, pc, tries, claims>>

(* The process dies: no ensure clause runs and Redis keeps both keys.      *)
Crash(p) ==
  /\ pc[p] # "idle"
  /\ Goto(p, "idle")
  /\ tries' = [tries EXCEPT ![p] = 0]
  /\ UNCHANGED <<lock, retry, overruns, claims>>

(* What a process does once it has called run_locked.                      *)
Step(p) ==
  \/ GetLock(p) \/ MissLock(p) \/ Wake(p)
  \/ Retried(p) \/ Finish(p) \/ Unlock(p)
  \/ SetRetry(p) \/ FailFunction(p)

BoltNext == (\E p \in Proc : Call(p) \/ Step(p) \/ Crash(p)) \/ Expire

BoltSpec == BoltInit /\ [][BoltNext]_boltVars

(* sleep returns, blocks end, Redis and Ruby answer; Redis expires keys.   *)
(* Nobody has to call run_locked and nobody has to crash.                  *)
BoltFairness == (\A p \in Proc : WF_boltVars(Step(p))) /\ WF_boltVars(Expire)

BoltFairSpec == BoltSpec /\ BoltFairness

-----------------------------------------------------------------------------

BoltTypeOK ==
  /\ lock \in Proc \cup {NoProc}
  /\ retry \in BOOLEAN
  /\ pc \in [Proc -> Where]
  /\ tries \in [Proc -> Nat]
  /\ \A p \in Proc : pc[p] \in {"acquiring", "sleeping"} => tries[p] < Attempts[p]
  /\ \A p \in Proc : pc[p] \notin {"acquiring", "sleeping"} => tries[p] = 0
  /\ overruns \in 0..MaxOverruns
  /\ claims \in Nat

(* Every caller inside without the key stands for a lease that ended too   *)
(* early: the owner-blind DEL of unlock passes an overrun on to the next   *)
(* holder but never multiplies it. With no overrun this is mutual          *)
(* exclusion.                                                              *)
OrphansBounded == Cardinality(Orphans) <= overruns

(* run_locked's fail_function is called at most twice between two SETs of  *)
(* the key, once before and once after `retried` drops the flag, plus once *)
(* for every holder that overran before it got to `retried`.               *)
ClaimsBounded == claims <= 2 + overruns

(* bolt.rb promises a mutex that leaks one place per overrun.              *)
Promise == INSTANCE LeasedMutex WITH holders <- Inside
KeepsPromise == Promise!Spec

(* The key never stays for ever, even when its holder died (px: @ttl_ms).  *)
KeyFreed == (lock # NoProc) ~> (lock = NoProc)
=============================================================================
