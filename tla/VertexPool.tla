----------------------------- MODULE VertexPool -----------------------------
(***************************************************************************)
(* effects/vertexpool.go: the reference-counted store of deserialized      *)
(* effects, with the reclaim queue its single consumer (the memory         *)
(* governor) drains and the durability mirror it writes through to.        *)
(*                                                                         *)
(* A vertex is an object; the pool maps a tip to at most one of them, and  *)
(* an effect that was reclaimed and ingested again is a new object, so a   *)
(* thread can be left with a pointer to the old one.  Every access to      *)
(* shared state (the map, a count, the queue) is a step; the two locks,    *)
(* creationMu of an object and the mirror lock of a tip, are held over     *)
(* several steps.                                                          *)
(***************************************************************************)
EXTENDS Integers, Sequences, FiniteSets

CONSTANTS
    Tips,        \* identities of effects
    SystemTips,  \* the tips whose effect belongs to a system key
    Keys,        \* keys that can own an effect
    KeysOf,      \* KeysOf[t]: the keys whose tipset the effect at t occupies
    Pins,        \* slots of read DAGs and of the cloud outbox that hold one tip
    Objs,        \* identities of vertex objects
    Threads,     \* callers of the pool
    Gov,         \* the governor goroutine, the only consumer of the queue
    None,        \* no tip, no object, no pin, nobody
    Mirrored,    \* whether a durability store is configured
    MaxQueue     \* bound: entries of the reclaim queue, those on the way included

ASSUME FiniteHolders == IsFiniteSet(Keys) /\ IsFiniteSet(Pins) /\ Keys \cap Pins = {}

ASSUME FiniteThreads == IsFiniteSet(Threads) /\ Gov \notin Threads

ASSUME NoneIsNothing ==
    None \notin Tips \cup Objs \cup Pins \cup Threads \cup {Gov}

Actors == Threads \cup {Gov}

VARIABLES
    map,        \* VertexPool.m
    refs,       \* vertex.refs
    creation,   \* vertex.creationKeys
    mu,         \* mu[o]: who holds vertex.creationMu
    lock,       \* lock[t]: who holds the mirror lock of t
    durable,    \* the tips the mirror has a record of
    queue,      \* reclaimQueue
    pending,    \* reclaimPending
    left,       \* entries drainReclaim has still to dequeue
    bytes,      \* vertexBytes: one unit per vertex and one per creation key
    call,       \* call[a]: the operation actor a is in, and where
    pinned,     \* pinned[p]: the tip pin p holds
    owed        \* owed[t]: the keys told that they own t, and not yet released

vars == <<map, refs, creation, mu, lock, durable, queue, pending, left, bytes,
          call, pinned, owed>>

-----------------------------------------------------------------------------
(* Calls *)

(***************************************************************************)
(* An operation in progress: the next step, the tip, the vertex it loaded, *)
(* the creation keys it is about to take or to drop and the pin it fills.  *)
(***************************************************************************)
Frame(step, t, o, K, p) == [pc |-> step, tip |-> t, obj |-> o, keys |-> K, pin |-> p]

Idle == Frame("idle", None, None, {}, None)

Steps == {"idle", "store", "own", "record", "incref", "chain", "drop",
          "enqueue", "count", "claim", "delete"}

Frames == [pc : Steps, tip : Tips \cup {None}, obj : Objs \cup {None},
           keys : SUBSET Keys, pin : Pins \cup {None}]

Goto(a, step) == call' = [call EXCEPT ![a].pc = step]

(***************************************************************************)
(* Returning releases whatever the deferred unlocks release.               *)
(***************************************************************************)
Unlock(a) ==
    /\ mu' = [o \in Objs |-> IF mu[o] = a THEN None ELSE mu[o]]
    /\ lock' = [t \in Tips |-> IF lock[t] = a THEN None ELSE lock[t]]

Return(a) == call' = [call EXCEPT ![a] = Idle] /\ Unlock(a)

(***************************************************************************)
(* math.MinInt32 / 2, a value that no count of references has.  It is not  *)
(* -1, which is what a decref without a reference leaves behind.           *)
(***************************************************************************)
vertexTombstone == -2

Fresh(o) ==
    /\ \A t \in Tips : map[t] # o
    /\ \A a \in Actors : call[a].obj # o

(***************************************************************************)
(* An operation starts when its thread is idle.                            *)
(***************************************************************************)
CanStart(a) ==
    /\ call[a] = Idle
    /\ Len(queue) + Cardinality({b \in Actors : call[b] # Idle}) < MaxQueue

-----------------------------------------------------------------------------
(* VertexPool.put: owned and cache-only effects *)

(***************************************************************************)
(* Up to the first look at the map.  K are the keys of the effect that owns *)
(* accepts, none of them for a cache entry.  A failing mirror returns an   *)
(* error before anything changed.                                          *)
(***************************************************************************)
PutLoad(a, t, K) ==
    /\ CanStart(a)
    /\ K \subseteq KeysOf[t]
    /\ Mirrored => lock[t] = None
    /\ durable' = IF Mirrored THEN durable \cup {t} ELSE durable
    /\ lock' = IF Mirrored /\ (map[t] = None \/ K # {})
               THEN [lock EXCEPT ![t] = a] ELSE lock
    /\ call' = [call EXCEPT ![a] =
                  IF map[t] = None THEN Frame("store", t, None, K, None)
                  ELSE IF K # {} THEN Frame("own", t, map[t], K, None)
                  ELSE Idle]
    /\ UNCHANGED <<map, refs, creation, mu, queue, pending, left, bytes, pinned, owed>>

(***************************************************************************)
(* LoadOrStore publishes a new vertex with its references already counted, *)
(* or finds the one another thread published.                              *)
(***************************************************************************)
PutStore(a) ==
    LET t == call[a].tip
        K == call[a].keys
    IN
    /\ call[a].pc = "store"
    /\ \/ /\ map[t] = None
          /\ \E o \in Objs :
                /\ Fresh(o)
                /\ map' = [map EXCEPT ![t] = o]
                /\ refs' = [refs EXCEPT ![o] = Cardinality(K)]
                /\ creation' = [creation EXCEPT ![o] = K]
          /\ bytes' = bytes + 1 + Cardinality(K)
          /\ owed' = [owed EXCEPT ![t] = @ \cup K]
          /\ IF K = {} THEN Goto(a, "enqueue") /\ UNCHANGED <<mu, lock>> ELSE Return(a)
       \/ /\ map[t] # None
          /\ IF K = {} THEN Return(a)
             ELSE /\ call' = [call EXCEPT ![a].pc = "own", ![a].obj = map[t]]
                  /\ UNCHANGED <<mu, lock>>
          /\ UNCHANGED <<map, refs, creation, bytes, owed>>
    /\ UNCHANGED <<durable, queue, pending, left, pinned>>

(* Mutant: the keys already recorded are counted again. *)
AllCreationKeys(K, existing) == K

missingCreationKeys(K, existing) == K \ existing

(***************************************************************************)
(* A resident vertex: take the references that are missing.  The caller is *)
(* told that the keys own the effect even when reclaim claimed the vertex. *)
(***************************************************************************)
PutOwn(a) ==
    LET t == call[a].tip
        o == call[a].obj
        missing == missingCreationKeys(call[a].keys, creation[o])
    IN
    /\ call[a].pc = "own"
    /\ mu[o] = None
    /\ owed' = [owed EXCEPT ![t] = @ \cup call[a].keys]
    /\ IF missing = {} \/ refs[o] < 0
       THEN Return(a) /\ UNCHANGED refs
       ELSE /\ refs' = [refs EXCEPT ![o] = @ + Cardinality(missing)]
            /\ mu' = [mu EXCEPT ![o] = a]
            /\ call' = [call EXCEPT ![a].pc = "record", ![a].keys = missing]
            /\ UNCHANGED lock
    /\ UNCHANGED <<map, creation, durable, queue, pending, left, bytes, pinned>>

PutRecord(a) ==
    LET o == call[a].obj IN
    /\ call[a].pc = "record"
    /\ creation' = [creation EXCEPT ![o] = @ \cup call[a].keys]
    /\ bytes' = bytes + Cardinality(call[a].keys)
    /\ Return(a)
    /\ UNCHANGED <<map, refs, durable, queue, pending, left, pinned, owed>>

-----------------------------------------------------------------------------
(* References *)

(***************************************************************************)
(* incref of a tip that is not resident changes nothing.                   *)
(***************************************************************************)
increfLoad(a, t, p) ==
    /\ CanStart(a)
    /\ pinned[p] = None
    /\ \A b \in Actors : call[b].pin # p
    /\ map[t] # None
    /\ call' = [call EXCEPT ![a] = Frame("incref", t, map[t], {}, p)]
    /\ UNCHANGED <<map, refs, creation, mu, lock, durable, queue, pending, left,
                   bytes, pinned, owed>>

increfSwap(a) ==
    LET o == call[a].obj IN
    /\ call[a].pc = "incref"
    /\ IF refs[o] < 0
       THEN UNCHANGED <<refs, pinned>>
       ELSE /\ refs' = [refs EXCEPT ![o] = @ + 1]
            /\ pinned' = [pinned EXCEPT ![call[a].pin] = call[a].tip]
    /\ Return(a)
    /\ UNCHANGED <<map, creation, durable, queue, pending, left, bytes, owed>>

(***************************************************************************)
(* decref of the vertex at t, and whether this was the last reference.     *)
(***************************************************************************)
Decrement(t) ==
    refs' = IF map[t] = None THEN refs ELSE [refs EXCEPT ![map[t]] = @ - 1]

ReachesZero(t) == map[t] # None /\ refs[map[t]] = 1

(* Mutant: the last reference is dropped without queueing the vertex. *)
decrefForgetting(a, p) ==
    /\ CanStart(a)
    /\ pinned[p] # None
    /\ Decrement(pinned[p])
    /\ pinned' = [pinned EXCEPT ![p] = None]
    /\ UNCHANGED <<map, creation, mu, lock, durable, queue, pending, left, bytes,
                   call, owed>>

(***************************************************************************)
(* decref of a pin: a read DAG was displaced or an upload acknowledged.    *)
(***************************************************************************)
decref(a, p) ==
    LET t == pinned[p] IN
    /\ CanStart(a)
    /\ t # None
    /\ Decrement(t)
    /\ pinned' = [pinned EXCEPT ![p] = None]
    /\ call' = [call EXCEPT ![a] = IF ReachesZero(t)
                                   THEN Frame("enqueue", t, map[t], {}, None)
                                   ELSE Idle]
    /\ UNCHANGED <<map, creation, mu, lock, durable, queue, pending, left, bytes, owed>>

(***************************************************************************)
(* decrefChainNode: the eviction of key k reaches the effect at t.         *)
(***************************************************************************)
ChainLoad(a, t, k) ==
    /\ CanStart(a)
    /\ map[t] # None
    /\ call' = [call EXCEPT ![a] = Frame("chain", t, map[t], {k}, None)]
    /\ UNCHANGED <<map, refs, creation, mu, lock, durable, queue, pending, left,
                   bytes, pinned, owed>>

ChainRemove(a) ==
    LET t == call[a].tip
        o == call[a].obj
        K == call[a].keys
    IN
    /\ call[a].pc = "chain"
    /\ mu[o] = None
    /\ owed' = [owed EXCEPT ![t] = @ \ K]
    /\ IF K \subseteq creation[o]
       THEN /\ creation' = [creation EXCEPT ![o] = @ \ K]
            /\ bytes' = bytes - Cardinality(K)
            /\ mu' = [mu EXCEPT ![o] = a]
            /\ Goto(a, "drop")
            /\ UNCHANGED lock
       ELSE Return(a) /\ UNCHANGED <<creation, bytes>>
    /\ UNCHANGED <<map, refs, durable, queue, pending, left, pinned>>

(***************************************************************************)
(* The decref in decrefChainNode, with creationMu held.                    *)
(***************************************************************************)
ChainDecref(a) ==
    LET t == call[a].tip IN
    /\ call[a].pc = "drop"
    /\ Decrement(t)
    /\ IF ReachesZero(t)
       THEN call' = [call EXCEPT ![a].pc = "enqueue", ![a].keys = {}] /\ UNCHANGED <<mu, lock>>
       ELSE Return(a)
    /\ UNCHANGED <<map, creation, durable, queue, pending, left, bytes, pinned, owed>>

-----------------------------------------------------------------------------
(* Reclaim *)

(***************************************************************************)
(* enqueueReclaim: the entry first, then the count.                        *)
(***************************************************************************)
Enqueue(a) ==
    /\ call[a].pc = "enqueue"
    /\ queue' = Append(queue, call[a].tip)
    /\ Goto(a, "count")
    /\ UNCHANGED <<map, refs, creation, mu, lock, durable, pending, left, bytes,
                   pinned, owed>>

CountPending(a) ==
    /\ call[a].pc = "count"
    /\ pending' = pending + 1
    /\ Return(a)
    /\ UNCHANGED <<map, refs, creation, durable, queue, left, bytes, pinned, owed>>

(* Mutant: the count is read, not taken. *)
DrainLoad ==
    /\ call[Gov] = Idle
    /\ left = 0
    /\ pending > 0
    /\ left' = pending
    /\ UNCHANGED <<map, refs, creation, mu, lock, durable, queue, pending, bytes,
                   call, pinned, owed>>

(***************************************************************************)
(* drainReclaim takes the whole count, then dequeues as many entries.      *)
(***************************************************************************)
DrainSwap ==
    /\ call[Gov] = Idle
    /\ left = 0
    /\ pending > 0
    /\ left' = pending
    /\ pending' = 0
    /\ UNCHANGED <<map, refs, creation, mu, lock, durable, queue, bytes, call,
                   pinned, owed>>

(***************************************************************************)
(* Dequeue blocks on an empty queue.  System keys are pinned defensively.  *)
(***************************************************************************)
DrainDequeue ==
    LET t == Head(queue) IN
    /\ call[Gov] = Idle
    /\ left > 0
    /\ queue # <<>>
    /\ queue' = Tail(queue)
    /\ left' = left - 1
    /\ call' = [call EXCEPT ![Gov] = IF map[t] = None \/ t \in SystemTips
                                     THEN Idle
                                     ELSE Frame("claim", t, map[t], {}, None)]
    /\ UNCHANGED <<map, refs, creation, mu, lock, durable, pending, bytes, pinned, owed>>

(* Mutant: check-then-delete, the vertex is claimed whatever its count. *)
ClaimUnchecked ==
    LET t == call[Gov].tip IN
    /\ call[Gov].pc = "claim"
    /\ Mirrored => lock[t] = None
    /\ refs' = [refs EXCEPT ![call[Gov].obj] = vertexTombstone]
    /\ lock' = IF Mirrored THEN [lock EXCEPT ![t] = Gov] ELSE lock
    /\ Goto(Gov, "delete")
    /\ UNCHANGED <<map, creation, mu, durable, queue, pending, left, bytes, pinned, owed>>

(* Mutant: the mirror lock is not held from the claim to the removal. *)
ClaimUnlocked ==
    LET o == call[Gov].obj IN
    /\ call[Gov].pc = "claim"
    /\ IF refs[o] = 0
       THEN /\ refs' = [refs EXCEPT ![o] = vertexTombstone]
            /\ Goto(Gov, "delete")
            /\ UNCHANGED <<mu, lock>>
       ELSE Return(Gov) /\ UNCHANGED refs
    /\ UNCHANGED <<map, creation, durable, queue, pending, left, bytes, pinned, owed>>

(***************************************************************************)
(* claimAndDelete, up to its compare-and-swap.                             *)
(***************************************************************************)
Claim ==
    LET t == call[Gov].tip
        o == call[Gov].obj
    IN
    /\ call[Gov].pc = "claim"
    /\ Mirrored => lock[t] = None
    /\ IF refs[o] = 0
       THEN /\ refs' = [refs EXCEPT ![o] = vertexTombstone]
            /\ lock' = IF Mirrored THEN [lock EXCEPT ![t] = Gov] ELSE lock
            /\ Goto(Gov, "delete")
            /\ UNCHANGED mu
       ELSE Return(Gov) /\ UNCHANGED refs
    /\ UNCHANGED <<map, creation, durable, queue, pending, left, bytes, pinned, owed>>

(* Mutant: the vertex goes although its record could not be removed. *)
DeleteFailsIgnored ==
    /\ call[Gov].pc = "delete"
    /\ Mirrored
    /\ map' = [map EXCEPT ![call[Gov].tip] = None]
    /\ Return(Gov)
    /\ UNCHANGED <<refs, creation, durable, queue, pending, left, bytes, pinned, owed>>

(***************************************************************************)
(* delete when the mirror cannot remove the record: the claim is undone.   *)
(***************************************************************************)
DeleteFails ==
    LET t == call[Gov].tip IN
    /\ call[Gov].pc = "delete"
    /\ Mirrored
    /\ IF map[t] # None
       THEN /\ refs' = [refs EXCEPT ![map[t]] = 0]
            /\ Goto(Gov, "enqueue")
            /\ UNCHANGED <<mu, lock>>
       ELSE Return(Gov) /\ UNCHANGED refs
    /\ UNCHANGED <<map, creation, durable, queue, pending, left, bytes, pinned, owed>>

Delete ==
    LET t == call[Gov].tip IN
    /\ call[Gov].pc = "delete"
    /\ durable' = durable \ {t}
    /\ map' = [map EXCEPT ![t] = None]
    /\ bytes' = IF map[t] = None THEN bytes
                ELSE bytes - 1 - Cardinality(creation[map[t]])
    /\ Return(Gov)
    /\ UNCHANGED <<refs, creation, queue, pending, left, pinned, owed>>

(***************************************************************************)
(* FlushIndex resets the mirror as a whole, without its per-tip locks.     *)
(***************************************************************************)
MirrorReset ==
    /\ Mirrored
    /\ durable # {}
    /\ durable' = {}
    /\ UNCHANGED <<map, refs, creation, mu, lock, queue, pending, left, bytes, call,
                   pinned, owed>>

-----------------------------------------------------------------------------
Init ==
    /\ map = [t \in Tips |-> None]
    /\ refs = [o \in Objs |-> vertexTombstone]
    /\ creation = [o \in Objs |-> {}]
    /\ mu = [o \in Objs |-> None]
    /\ lock = [t \in Tips |-> None]
    /\ durable = {}
    /\ queue = <<>>
    /\ pending = 0
    /\ left = 0
    /\ bytes = 0
    /\ call = [a \in Actors |-> Idle]
    /\ pinned = [p \in Pins |-> None]
    /\ owed = [t \in Tips |-> {}]

Continue(a) ==
    \/ PutStore(a) \/ PutOwn(a) \/ PutRecord(a)
    \/ increfSwap(a)
    \/ ChainRemove(a) \/ ChainDecref(a)
    \/ Enqueue(a) \/ CountPending(a)

Governor == DrainSwap \/ DrainDequeue \/ Claim \/ DeleteFails \/ Delete

Next ==
    \/ \E a \in Threads, t \in Tips :
          \/ \E K \in SUBSET Keys : PutLoad(a, t, K)
          \/ \E p \in Pins : increfLoad(a, t, p)
          \/ \E k \in Keys : ChainLoad(a, t, k)
    \/ \E a \in Threads, p \in Pins : decref(a, p)
    \/ \E a \in Actors : Continue(a)
    \/ Governor
    \/ MirrorReset

Spec == Init /\ [][Next]_vars

Live(t) == map[t] # None /\ refs[map[t]] >= 0

(***************************************************************************)
(* A caller finishes what it started, and the governor drains the queue on *)
(* every tick.                                                             *)
(***************************************************************************)
Fairness == (\A a \in Actors : WF_vars(Continue(a))) /\ WF_vars(Governor)

FairSpec == Spec /\ Fairness

-----------------------------------------------------------------------------
(* Properties *)

(***************************************************************************)
(* The type invariant.  Its range for refs is the assertion of decref: a   *)
(* count never goes below zero other than by the claim of the governor.    *)
(***************************************************************************)
TypeOK ==
    /\ map \in [Tips -> Objs \cup {None}]
    /\ refs \in [Objs -> Nat \cup {vertexTombstone}]
    /\ creation \in [Objs -> SUBSET Keys]
    /\ mu \in [Objs -> Actors \cup {None}]
    /\ lock \in [Tips -> Actors \cup {None}]
    /\ durable \subseteq Tips
    /\ queue \in Seq(Tips) /\ pending \in Nat /\ left \in Nat /\ bytes \in Int
    /\ call \in [Actors -> Frames]
    /\ pinned \in [Pins -> Tips \cup {None}]
    /\ owed \in [Tips -> SUBSET Keys]

(***************************************************************************)
(* Who holds the vertex at t: its creation keys, with those counted but    *)
(* not yet recorded, or removed but not yet uncounted, and the pins.       *)
(***************************************************************************)
Midway(o) == {a \in Actors : call[a].pc \in {"record", "drop"} /\ call[a].obj = o}

KeysMidway(o) == UNION {call[a].keys : a \in Midway(o)}

PinsOf(t) == {p \in Pins : pinned[p] = t}

HeldBy(t) ==
    IF Live(t) THEN creation[map[t]] \cup KeysMidway(map[t]) \cup PinsOf(t) ELSE {}

(***************************************************************************)
(* The count of a live vertex is the number of its holders, whatever puts, *)
(* pins, evictions and redeliveries overlap: none is counted twice (a      *)
(* leak) and none is forgotten (a premature free).                         *)
(***************************************************************************)
RefsExact == \A t \in Tips : Live(t) => refs[map[t]] = Cardinality(HeldBy(t))

(***************************************************************************)
(* A successful incref keeps the effect in the pool until its decref: the  *)
(* claim of the governor and the increment exclude each other.             *)
(***************************************************************************)
PinnedIsResident == \A p \in Pins : pinned[p] # None => Live(pinned[p])

(***************************************************************************)
(* There is no full-map scan, so every vertex nobody holds is a candidate: *)
(* queued, about to be queued, or in the hands of the governor.            *)
(***************************************************************************)
ZeroIsCandidate ==
    \A t \in Tips :
        Live(t) /\ refs[map[t]] = 0 =>
            \/ t \in SystemTips
            \/ \E i \in 1..Len(queue) : queue[i] = t
            \/ \E a \in Actors : call[a].pc \in {"enqueue", "claim"} /\ call[a].tip = t

(***************************************************************************)
(* Every queued entry is counted once, so that drainReclaim neither blocks *)
(* in Dequeue on an empty queue nor leaves an entry behind for good.       *)
(***************************************************************************)
QueueCounted ==
    Len(queue) = pending + left + Cardinality({a \in Actors : call[a].pc = "count"})

(***************************************************************************)
(* A put that succeeded keeps the effect for each owning key until that    *)
(* key is evicted.  claimAndDelete holds the mirror lock over claim and    *)
(* removal so that a re-ingestion cannot succeed in between.               *)
(***************************************************************************)
OwnedIsResident ==
    \A t \in Tips : owed[t] # {} => Live(t) /\ owed[t] \subseteq HeldBy(t)

(***************************************************************************)
(* Outside of a put or a claim in progress the mirror has no record of an  *)
(* effect that left the pool: what was reclaimed does not come back at the *)
(* next start.                                                             *)
(***************************************************************************)
RecordIsResident ==
    \A t \in Tips : t \in durable /\ lock[t] = None => map[t] # None

(***************************************************************************)
(* vertexBytes is the cost of the resident vertices and of their recorded  *)
(* creation keys: a delete subtracts what was added and not yet released.  *)
(***************************************************************************)
AccountingExact ==
    bytes = Cardinality({t \in Tips : map[t] # None})
            + Cardinality({tk \in Tips \X Keys :
                             map[tk[1]] # None /\ tk[2] \in creation[map[tk[1]]]})

(***************************************************************************)
(* Counts are exact in every interleaving: the count of a resident vertex  *)
(* is the number of its holders, which never makes decref panic, and who   *)
(* holds an effect finds it resident.                                      *)
(***************************************************************************)
HoldersCounted == TypeOK /\ RefsExact /\ PinnedIsResident

(***************************************************************************)
(* Nothing that reclaim is owed is lost: a vertex nobody holds is a        *)
(* candidate, every candidate in the queue is counted, and the bytes that  *)
(* trigger a reclaim are those of the resident vertices.                   *)
(***************************************************************************)
ReclaimAccounted == ZeroIsCandidate /\ QueueCounted /\ AccountingExact

(***************************************************************************)
(* A vertex that nobody holds is reclaimed unless it is acquired again.    *)
(***************************************************************************)
UnreferencedIsReclaimed ==
    \A t \in Tips \ SystemTips :
        (Live(t) /\ refs[map[t]] = 0) ~> (~Live(t) \/ refs[map[t]] > 0)

(***************************************************************************)
(* The pool as VertexRefs sees it: an effect is resident while its vertex  *)
(* is published without a tombstone, and its holders are the ones the      *)
(* count stands for.                                                       *)
(***************************************************************************)
Abstract == INSTANCE VertexRefs WITH
    Holders <- Keys \cup Pins,
    resident <- {t \in Tips : Live(t)},
    holds <- [t \in Tips |-> HeldBy(t)]

(***************************************************************************)
(* The pool implements its abstract specification: in every interleaving   *)
(* an operation takes effect in one step, and an effect leaves the pool    *)
(* only when nobody holds it.                                              *)
(***************************************************************************)
Implements == Abstract!PoolSpec
=============================================================================
