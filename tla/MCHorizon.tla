----------------------------- MODULE MCHorizon -----------------------------
(* A small instance of Horizon: one local transaction and two remote ones.   *)
(* The local transaction competes with one remote transaction for tip p and  *)
(* with the other for tip q, so that its bind links their two groups, and    *)
(* its abort must leave them linked.                                         *)
EXTENDS Horizon, TLC

CONSTANTS l1, r1, r2, p, q

MCLocal == {l1}
MCRemote == {r1, r2}
MCTip == {p, q}
MCBase == (l1 :> {p, q}) @@ (r1 :> {p}) @@ (r2 :> {q})
MCDefeated == (r1 :> {l1}) @@ (r2 :> {})
Symmetry == Permutations(Group) \cup Permutations(Timer)
MCAbortDeps == (r1 :> {l1}) @@ (r2 :> {})

=============================================================================
