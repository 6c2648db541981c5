----------------------------- MODULE MCKeytrie -----------------------------
(***************************************************************************)
(* The key trie: its tree under concurrent inserts, maintenance and scans, *)
(* the arena its nodes live in, and lookups by prefix.  The three share no *)
(* state here; part says which instance moves, and the others rest.        *)
(***************************************************************************)
EXTENDS Integers, Sequences, TLC

CONSTANTS u1, u2, w1, w2, w3, h1, Nobody

VARIABLES
    part,
    root, leaf, inner, size, deletedCount, ghostCount, queue, dropped, batch, w, scan, held, acked,
    moves, closed,
    next, dir, free, freeCount, growMu, taken, pc, idx, slot, todo, cleared,
    linked, live, query, answer

treeVars == <<root, leaf, inner, size, deletedCount, ghostCount, queue, dropped, batch, w, scan, held, acked,
    moves, closed>>
arenaVars == <<next, dir, free, freeCount, growMu, taken, pc, idx, slot, todo, cleared>>
seekVars == <<linked, live, query, answer>>
vars == <<part, treeVars, arenaVars, seekVars>>

(* A key, a key it is a prefix of and whose next byte is zero, and a third. *)
TreeKeys == {<<1>>, <<1, 0>>, <<2>>}
ForkKeys == {<<0>>, <<2>>, <<2, 0>>, <<4>>}

(* Three writers, two of which may meet on a key, an eviction and a pin.   *)
Evict == INSTANCE Critbit WITH Keys <- TreeKeys, ByteBits <- 2, Writers <- {w1, w2, w3},
    WritesTo <- w1 :> {<<1>>} @@ w2 :> {<<1>>, <<1, 0>>} @@ w3 :> {<<2>>}, MaxWrites <- 1,
    Holders <- {h1}, QueueCap <- 2,
    ScanBatch <- 0, MaxMoves <- 1, Ops <- {"evict", "close"}

(* Writers whose keys branch off at different bits of one path.            *)
Fork == INSTANCE Critbit WITH Keys <- ForkKeys, ByteBits <- 3, Writers <- {w1, w2},
    WritesTo <- w1 :> {<<4>>, <<2>>} @@ w2 :> ForkKeys, MaxWrites <- 2, Holders <- {},
    QueueCap <- 2, ScanBatch <- 0, MaxMoves <- 0, Ops <- {}

(* Deletions, evictions and removals of tips with a reap queue of one.     *)
Reap == INSTANCE Critbit WITH Keys <- TreeKeys, ByteBits <- 2, Writers <- {w1, w2},
    WritesTo <- w1 :> {<<1>>} @@ w2 :> {<<1, 0>>}, MaxWrites <- 2, Holders <- {},
    QueueCap <- 1, ScanBatch <- 0, MaxMoves <- 1, Ops <- {"delete", "evict", "removetips"}

(* A scan in batches of one key.                                           *)
Scan == INSTANCE Critbit WITH Keys <- TreeKeys, ByteBits <- 2, Writers <- {w1},
    WritesTo <- w1 :> TreeKeys, MaxWrites <- 3, Holders <- {}, QueueCap <- 2, ScanBatch <- 1,
    MaxMoves <- 0, Ops <- {"delete"}

(* A scan during which compaction relocates a node.                        *)
Moved == INSTANCE Critbit WITH Keys <- TreeKeys, ByteBits <- 2, Writers <- {w1},
    WritesTo <- w1 :> TreeKeys, MaxWrites <- 3, Holders <- {}, QueueCap <- 2, ScanBatch <- 1,
    MaxMoves <- 1, Ops <- {}

(* Two allocators, chunks of two slots, and a free list of three.          *)
Arena == INSTANCE TrieArena WITH linked <- taken, closed <- cleared, Threads <- {u1, u2},
    ChunkSize <- 2, FreeCap <- 3, MaxNext <- 5

(* Every trie of these keys, with any of them dead, and every question.    *)
Seek == INSTANCE TrieSeek WITH ByteBits <- 2, Keys <- {<<>>, <<0>>, <<0, 0>>, <<0, 2>>, <<2, 1>>},
    Strings <- {<<>>, <<0>>, <<0, 0>>, <<0, 1>>, <<0, 2>>, <<0, 3>>, <<1>>, <<2>>, <<3>>}

Init ==
    /\ part \in {"evict", "fork", "reap", "scan", "moved", "arena", "seek"}
    /\ CASE part = "fork" -> Fork!Init [] part = "reap" -> Reap!Init [] part = "scan" -> Scan!Init
         [] part = "moved" -> Moved!Init
         [] OTHER -> Evict!Init
    /\ Arena!Init
    /\ IF part = "seek" THEN Seek!Init ELSE linked = {} /\ Seek!Init

Next ==
    \/ part = "evict" /\ Evict!Next /\ UNCHANGED <<part, arenaVars, seekVars>>
    \/ part = "fork" /\ Fork!Next /\ UNCHANGED <<part, arenaVars, seekVars>>
    \/ part = "reap" /\ Reap!Next /\ UNCHANGED <<part, arenaVars, seekVars>>
    \/ part = "scan" /\ Scan!Next /\ UNCHANGED <<part, arenaVars, seekVars>>
    \/ part = "moved" /\ Moved!Next /\ UNCHANGED <<part, arenaVars, seekVars>>
    \/ part = "arena" /\ Arena!Next /\ UNCHANGED <<part, treeVars, seekVars>>
    \/ part = "seek" /\ Seek!Next /\ UNCHANGED <<part, treeVars, arenaVars>>

Spec == Init /\ [][Next]_vars

----------------------------------------------------------------------------
(* Inserts that race one another, evictions and reaps lose nothing: every  *)
(* linked leaf is found by its key, every branch splits its leaves at its  *)
(* critical bit, and an acknowledged tip stays until it is removed.        *)
NoLostTips ==
    /\ part = "evict" => Evict!TypeOK /\ Evict!EveryLeafIsFound
    /\ part = "fork" => Fork!BranchesSplit
    /\ part = "reap" => Reap!NoLostTips

(* A leaf counts the holders of its key, live, dead and ghost leaves are   *)
(* counted, and a dead leaf is queued or a traversal is due (reclaim.go).  *)
LeavesAccounted ==
    /\ part = "evict" => Evict!PinsExact
    /\ part = "reap" => Reap!CountsExact /\ Reap!DeadIsQueued

(* A scan delivers every key that is live throughout, in ascending order,  *)
(* and a lookup answers with the nearest live key (range.go,               *)
(* navigation.go).                                                         *)
OrderedReadsExact ==
    /\ part = "scan" => Scan!ScanComplete /\ Scan!ScanAscending
    /\ part = "moved" => Moved!ScanComplete
    /\ part = "seek" => Seek!TypeOK /\ Seek!SeekExact

(* The arena drops and recycles no chunk under a live slot, gives a slot   *)
(* to one owner, accounts for every slot, and its enqueues find room       *)
(* (arena.go).                                                             *)
ArenaSound ==
    part = "arena" =>
        /\ Arena!TypeOK /\ Arena!NoDropUnderLive /\ Arena!SlotHasOneOwner
        /\ Arena!NoChunkLeaks /\ Arena!EnqueueNeverFails
=============================================================================
