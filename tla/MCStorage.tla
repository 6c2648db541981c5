----------------------------- MODULE MCStorage -----------------------------
(***************************************************************************)
(* What holds effects and values: the durable store, recovery from it and  *)
(* the cache.  They share no state here; part says which instance moves,   *)
(* and the others rest in an initial state.                                *)
(***************************************************************************)
EXTENDS Integers, Sequences, TLC

CONSTANTS None, e1, e2, d1, d2, x1, x2, t0, lost, k1, k2

VARIABLES
    part,
    cache, disk, len, name, status, opened, entries, free, cursor, lastPage, dirty, due, punches,
    pc, slot, pos, sync, durable, gone, crashes,
    mirror, phase, decoded, adds, tips, index, cause, corrupt,
    node, head, order, mu, hand, entryCount, ghostCount, bytes, t, done, ver, put, dead, steady, sweep

storeVars == <<cache, disk, len, name, status, opened, entries, free, cursor, lastPage, dirty, due, punches,
    pc, slot, pos, sync, durable, gone, crashes>>
recoveryVars == <<mirror, phase, decoded, adds, tips, index, cause, corrupt>>
cacheVars == <<node, head, order, mu, hand, entryCount, ghostCount, bytes, t, done, ver, put, dead, steady, sweep>>
vars == <<part, storeVars, recoveryVars, cacheVars>>

IDs == {e1, e2}
MaxCrashes == 1
Perms == Permutations(IDs)

(* Power is lost, with failing syncs and punches; a page holds two records. *)
Power == INSTANCE DurabilityStore WITH MaxBlocks <- 4, PerPage <- 2,
    Crashes <- {"power"}, Faults <- {"sync", "punch"}

(* The process is killed, with failing maps, closes and unlinks.           *)
Kill == INSTANCE DurabilityStore WITH MaxBlocks <- 3, PerPage <- 1,
    Crashes <- {"kill"}, Faults <- {"map", "close", "unlink"}

(* d2 follows d1 on k1; the transaction t0 binds x1 on k1 and x2 on k2,    *)
(* where it consumed an effect that is no longer mirrored.                 *)
Consumes ==
    (d1 :> (k1 :> {})) @@ (d2 :> (k1 :> {d1})) @@ (x1 :> (k1 :> {d1})) @@ (x2 :> (k2 :> {lost})) @@
    (t0 :> ((k1 :> {d1, x1}) @@ (k2 :> {lost, x2})))

Recovery == INSTANCE DurableRecovery WITH Effects <- {d1, d2, x1, x2, t0}, Keys <- {k1, k2}

CacheKeys == {"a", "b", "c"}
SlotOf == "a" :> 1 @@ "b" :> 1 @@ "c" :> 2
Ops(op, keys) == [i \in 1..Len(keys) |-> <<op, keys[i]>>]
Capacity == 2
MaxScan == 1
K == 0
MaxFrequency == 2
Sized == FALSE

(* Two putters that evict each other's keys, a reader and the sweeper.     *)
Race == INSTANCE CloxCache WITH gone <- dead, Keys <- CacheKeys, Slots <- 1..2, Threads <- 1..3,
    GhostCapacity <- 1, Pinned <- {}, Sweeps <- 1,
    Script <- 1 :> Ops("put", <<"a", "c", "a">>) @@ 2 :> Ops("put", <<"b", "b">>) @@ 3 :> Ops("get", <<"a", "a">>)

(* First Puts of one key, updates, a compare-and-swap and an eviction.     *)
Same == INSTANCE CloxCache WITH gone <- dead, Keys <- CacheKeys, Slots <- 1..2, Threads <- 1..3,
    GhostCapacity <- 0, Pinned <- {"a", "c"}, Sweeps <- 0,
    Script <- 1 :> Ops("put", <<"a", "b">>) @@ 2 :> (Ops("put", <<"a">>) \o Ops("putback", <<"a">>))
              @@ 3 :> (Ops("cas", <<"a">>) \o Ops("put", <<"c">>) \o Ops("evict", <<"c">>))

Init ==
    /\ part \in {"power", "kill", "recovery", "race", "same"}
    /\ IF part = "kill" THEN Kill!Init ELSE Power!Init
    /\ Recovery!Init /\ (part # "recovery" => mirror = {})
    /\ IF part = "same" THEN Same!Init ELSE Race!Init

Next ==
    \/ part = "power" /\ Power!Next /\ UNCHANGED <<part, recoveryVars, cacheVars>>
    \/ part = "kill" /\ Kill!Next /\ UNCHANGED <<part, recoveryVars, cacheVars>>
    \/ part = "recovery" /\ Recovery!Next /\ UNCHANGED <<part, storeVars, cacheVars>>
    \/ part = "race" /\ Race!Next /\ UNCHANGED <<part, storeVars, recoveryVars>>
    \/ part = "same" /\ Same!Next /\ UNCHANGED <<part, storeVars, recoveryVars>>

Spec == Init /\ [][Next]_vars

----------------------------------------------------------------------------
(* The local mirror keeps its promises across kills and losses of power:   *)
(* Sync returns with the records on disk, a deleted effect does not come   *)
(* back, a payload is punched only once its tombstone is on disk, no two   *)
(* records share a slot or a block, what is unsynced has a sync scheduled, *)
(* and a killed process finds its records again (durability.Open).         *)
MirrorDurable ==
    /\ part = "power" =>
        /\ Power!TypeOK /\ Power!SyncedIsOnDisk /\ Power!DeletedStaysDeleted
        /\ Power!PunchAfterTombstone /\ Power!SlotsOwnedOnce /\ Power!DirtyHasDeadline
    /\ part = "kill" => Kill!RestartRecovers

(* Recovery serves the whole mirror with exactly its frontier, or nothing  *)
(* of it (effects/durability.go).                                          *)
RecoveryExact == part = "recovery" => Recovery!TypeOK /\ Recovery!ServesWholeMirror /\ Recovery!FrontierExact

(* The cache is a map: one record per key, no lookup misses a key that is  *)
(* live throughout or returns an overwritten value, and the counts are     *)
(* exact when the shard is unlocked (cloxcache.go).                        *)
CacheIsMap ==
    /\ part = "same" => Same!UniqueKey
    /\ part = "race" => Race!TypeOK /\ Race!GetFindsLive /\ Race!NoStaleRead /\ Race!CountsExact
=============================================================================
