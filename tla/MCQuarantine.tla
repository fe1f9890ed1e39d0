---------------------------- MODULE MCQuarantine ----------------------------
(* Quarantine with two sessions and two payloads of two bytes: both fit      *)
(* under the global cap and one under the cap of a session, so the sessions  *)
(* race for one file as well as for the last room under the cap.             *)
EXTENDS Quarantine, TLC

OneByte  == [p \in Payloads |-> 1]
TwoBytes == [p \in Payloads |-> 2]
Symm == Permutations(Sessions) \cup Permutations(Payloads)
=============================================================================
