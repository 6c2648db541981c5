---------------------------- MODULE MemoryTarget ----------------------------
(***************************************************************************)
(* The loops that steer the cache's capacity by memory: by the memory of   *)
(* the whole process (memory_target.go) or by that of the cache alone      *)
(* (cloxcache.go, EnforceMemoryCapacity).  Once a second a loop reads what *)
(* is used and sets a new capacity; records go and come with later Puts.   *)
(* Records have one size, so the tracked and the estimated size agree.     *)
(***************************************************************************)
EXTENDS Integers

CONSTANTS NumShards,
          Target,        \* bytes: targetBytes or memoryLimit
          ItemSize,      \* bytes of a record, avgItemSize
          AppSizes,      \* bytes the application may use besides the cache
          MaxPerShard,   \* bound on the initial capacity of a shard
          WholeProcess   \* which of the two loops runs

VARIABLES perShard,      \* capacity of every shard
          entries,       \* live records
          app            \* bytes of the application

vars == <<perShard, entries, app>>

Most(a, b) == IF a > b THEN a ELSE b
Least(a, b) == IF a < b THEN a ELSE b

Capacity == perShard * NumShards
CacheBytes == entries * ItemSize
ProcessRSS == CacheBytes + app

Init ==
    /\ perShard \in 1 .. MaxPerShard
    /\ entries = 0 /\ app \in AppSizes

----------------------------------------------------------------------------
(* Puts fill the cache up, or evict down to the capacity.                  *)
Fill ==
    /\ entries # Capacity
    /\ entries' = IF entries < Capacity THEN entries + 1 ELSE entries - 1
    /\ UNCHANGED <<perShard, app>>

(* The application takes or gives back memory.                             *)
AppMoves ==
    /\ app' \in AppSizes \ {app}
    /\ UNCHANGED <<perShard, entries>>

(* SetCapacity: evenly over the shards, rounded up.                        *)
PerShard(total) == Most((Most(total, NumShards) + NumShards - 1) \div NumShards, 1)

SetCapacity(total) == perShard' = PerShard(total)

(* The records that fit beside the application.                            *)
TargetCapacity ==
    IF WholeProcess
    THEN Most(Most(Target - app, ItemSize * NumShards) \div ItemSize, NumShards)
    ELSE Most(Target \div ItemSize, NumShards)

(* Mutant: the reduction is one record. *)
ShrunkByOne == Most(Capacity - 1, NumShards)

(* Over the target: by 10% more than the usage is over, at most by 60%.    *)
Shrunk ==
    LET over == Least(10 * (ProcessRSS - Target), 5 * Target)
        maxReduction == (Capacity * (9 * Target - over)) \div (10 * Target)
    IN  Most(Least(TargetCapacity, maxReduction), NumShards)

(* Well below the target: 10% more, but no more than four times what is    *)
(* in use.                                                                 *)
Grown == Least(Least(TargetCapacity, Most(entries * 4, NumShards)), Capacity + Most(1, Capacity \div 10))

(* adjustForMemoryTarget.                                                  *)
AdjustForTarget ==
    /\ entries > 0 /\ WholeProcess
    /\ \/ ProcessRSS > Target /\ Shrunk < Capacity /\ SetCapacity(Shrunk)
       \/ 100 * ProcessRSS < 85 * Target /\ Grown > Capacity /\ SetCapacity(Grown)
    /\ UNCHANGED <<entries, app>>

(* adjustCapacityForMemory: only for a change of more than 10%.            *)
AdjustForCache ==
    /\ entries > 0 /\ ~WholeProcess
    /\ \/ CacheBytes > Target /\ TargetCapacity < (Capacity * 9) \div 10 /\ SetCapacity(TargetCapacity)
       \/ /\ CacheBytes < (Target * 8) \div 10 /\ TargetCapacity > Capacity
          /\ SetCapacity(Least(TargetCapacity, (Capacity * 11) \div 10))
    /\ UNCHANGED <<entries, app>>

Next == Fill \/ AppMoves \/ AdjustForTarget \/ AdjustForCache

(* The ticker keeps firing, traffic keeps the cache at its capacity, and   *)
(* the application settles.                                                *)
Spec == Init /\ [][Next]_vars
        /\ WF_vars(Fill) /\ WF_vars(AdjustForTarget \/ AdjustForCache)
        /\ <>[][~AppMoves]_vars

----------------------------------------------------------------------------
(* Every shard can hold a record, and the cache does not get room for more *)
(* records than fit the target, or than it began with.                     *)
TypeOK ==
    /\ perShard \in 1 .. Most(MaxPerShard, Target \div (ItemSize * NumShards) + 1)
    /\ entries \in Nat /\ app \in AppSizes

(* With a settled application the process does not stay over its target by *)
(* more than what rounding up to all shards can hold, unless the cache is  *)
(* at its floor of one record per shard.                                   *)
SettlesNearTarget ==
    <>[](perShard = 1 \/ ProcessRSS <= Target + NumShards * ItemSize)

(* "Only adjust if significantly different (>10% change needed)": the cache *)
(* does not stay over its limit by more than a tenth and a record.         *)
SettlesNearLimit == <>[](perShard = 1 \/ entries <= (10 * Target) \div (9 * ItemSize) + 1)
=============================================================================
