---------------------------- MODULE LeasedMutex ----------------------------
(***************************************************************************)
(* What Carto::Bolt (lib/carto/bolt.rb) promises to the code that runs     *)
(* under it, with Redis, retries and the retry flag abstracted away: at    *)
(* most one caller is inside, plus one for every lease that ran out under  *)
(* the caller that held it.                                                *)
(***************************************************************************)
EXTENDS Integers, FiniteSets

CONSTANTS Proc, MaxOverruns

VARIABLES holders, overruns

lmvars == <<holders, overruns>>

Init == holders = {} /\ overruns = 0

Enter(p) ==
  /\ p \notin holders
  /\ Cardinality(holders) <= overruns
  /\ holders' = holders \cup {p}
  /\ UNCHANGED overruns

Leave(p) ==
  /\ p \in holders
  /\ holders' = holders \ {p}
  /\ UNCHANGED overruns

(* The lease of some caller inside ends before the caller does.            *)
Overrun ==
  /\ holders # {}
  /\ overruns < MaxOverruns
  /\ overruns' = overruns + 1
  /\ UNCHANGED holders

Next == (\E p \in Proc : Enter(p) \/ Leave(p)) \/ Overrun

Spec == Init /\ [][Next]_lmvars
=============================================================================
