----------------------------- MODULE VertexRefs -----------------------------
(***************************************************************************)
(* What the vertex pool promises to the rest of the engine, in one step    *)
(* per operation: an effect stays in the pool as long as somebody holds    *)
(* it.  A holder is either a key that owns the effect (a creation          *)
(* reference) or a pin (a cached read DAG or a cloud upload that adopted   *)
(* it).  VertexPool implements this with reference counts, tombstones and  *)
(* a reclaim queue.                                                        *)
(***************************************************************************)
CONSTANTS
    Tips,       \* identities of effects
    Holders     \* keys and pins

VARIABLES
    resident,   \* the tips whose effect is in the pool and may be acquired
    holds       \* holds[t]: who holds the effect at t

poolVars == <<resident, holds>>

PoolInit ==
    /\ resident = {}
    /\ holds = [t \in Tips |-> {}]

(***************************************************************************)
(* VertexPool.Put and PutSizedCache: the effect becomes or stays resident, *)
(* held by the keys that took ownership.  No owner means a cache entry.    *)
(***************************************************************************)
Store(t, owners) ==
    /\ resident' = resident \cup {t}
    /\ holds' = [holds EXCEPT ![t] = @ \cup owners]

(***************************************************************************)
(* VertexPool.incref taking a reference: only on a resident effect.        *)
(***************************************************************************)
Hold(t, h) ==
    /\ t \in resident
    /\ holds' = [holds EXCEPT ![t] = @ \cup {h}]
    /\ UNCHANGED resident

(***************************************************************************)
(* VertexPool.decref and decrefChainNode: the holder lets go.              *)
(***************************************************************************)
LetGo(t, h) ==
    /\ h \in holds[t]
    /\ holds' = [holds EXCEPT ![t] = @ \ {h}]
    /\ UNCHANGED resident

(***************************************************************************)
(* VertexPool.claimAndDelete: an effect leaves only when nobody holds it.  *)
(***************************************************************************)
Reclaim(t) ==
    /\ t \in resident
    /\ holds[t] = {}
    /\ resident' = resident \ {t}
    /\ UNCHANGED holds

PoolNext ==
    \E t \in Tips :
        \/ \E owners \in SUBSET Holders : Store(t, owners)
        \/ \E h \in Holders : Hold(t, h) \/ LetGo(t, h)
        \/ Reclaim(t)

PoolSpec == PoolInit /\ [][PoolNext]_poolVars
=============================================================================
