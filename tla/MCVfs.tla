------------------------------- MODULE MCVfs -------------------------------
(* Vfs with a handful of nodes and two names: enough for a directory moved   *)
(* into another, under a removed one, or onto an existing name, and for the  *)
(* caps to be met.                                                           *)
EXTENDS Vfs, TLC

Symm == Permutations(Names)
=============================================================================
