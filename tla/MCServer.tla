------------------------------ MODULE MCServer ------------------------------
(* Server on small instances: fewer slots than connections, so that refusals *)
(* and releases meet, and ages on both sides of the three deadlines.         *)
EXTENDS Server, TLC

Symm == Permutations(Conns) \cup Permutations(Ips)
=============================================================================
