---------------------------- MODULE MCVertexPool ----------------------------
(***************************************************************************)
(* A bind that two keys own and an effect of a system key, two callers and *)
(* the governor.                                                           *)
(***************************************************************************)
EXTENDS VertexPool, TLC

CONSTANTS a, s, k1, k2

MCKeysOf == [t \in Tips |-> IF t = a THEN {k1, k2} ELSE {k1}]

Symmetric == Permutations(Objs) \cup Permutations(Threads)
=============================================================================
