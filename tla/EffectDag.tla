----------------------------- MODULE EffectDag -----------------------------
(***************************************************************************)
(* The effects of one key that a read reduces: a dag whose nodes are       *)
(* numbered so that an effect names only lower ones.  Every dag of the     *)
(* bound is an initial state of the walks over it.                         *)
(***************************************************************************)
EXTENDS Integers, Sequences, SequencesExt, FiniteSets, FiniteSetsExt

CONSTANTS
    Size,           \* effects
    MaxDeps,        \* effects that one names
    MaxSnapshots,   \* snapshots with a state among them
    Hash            \* Hash[n]: the place of n in fork-choice order

VARIABLES
    deps,           \* deps[n]: the effects that n names for the key (keyDeps)
    snaps,          \* the snapshots that carry a state
    subs,           \* the subscriptions
    tips            \* the tips the walk starts from, in the order given

dag == <<deps, snaps, subs, tips>>

Nodes == 1..Size

Dags ==
    LET Deps(n) == {s \in SUBSET (1..(n - 1)) : Cardinality(s) <= MaxDeps}
        upto[n \in 0..Size] ==
            IF n = 0 THEN {<<>>} ELSE {Append(d, s) : d \in upto[n - 1], s \in Deps(n)}
    IN upto[Size]

(* The last effect is a tip; another may be one too, even an ancestor.     *)
TipLists == {<<Size>>} \union
    UNION {{<<Size, n>>, <<n, Size>>} : n \in 1..(Size - 1)}

(* Subscriptions are roots here: the first effect may be one.              *)
DagInit ==
    /\ deps \in Dags /\ tips \in TipLists
    /\ snaps \in {s \in SUBSET Nodes : Cardinality(s) <= MaxSnapshots}
    /\ subs \in SUBSET ({1} \ snaps)

(* keyDeps in the order the effect lists them.                             *)
DepOrders(n) == SetToSeqs(deps[n])

Standalone(n) == n \in subs /\ deps[n] = {}

----------------------------------------------------------------------------
(* What the walks are compared with: reachability.                         *)
Ancestors ==
    LET anc[n \in Nodes] == deps[n] \union UNION {anc[d] : d \in deps[n]} IN anc

Upto(n) == {n} \union Ancestors[n]
Reached == UNION {Upto(t) : t \in Range(tips)}

(* The effects below set, through those of within only (the stack of       *)
(* trimAncestorsOfLCA and trimAncestry).                                   *)
Below(start, within) ==
    LET below[n \in Nodes] ==
            IF n \notin within THEN {} ELSE {n} \union UNION {below[d] : d \in deps[n]}
    IN UNION {below[n] : n \in start}

(* Effects in an order where none precedes one of its ancestors.           *)
Causal(order) ==
    \A i, j \in DOMAIN order : i < j => order[j] \notin Ancestors[order[i]]
=============================================================================
