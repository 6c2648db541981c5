----------------------------- MODULE TrieArena -----------------------------
(***************************************************************************)
(* The slot arena of the key trie (keytrie/arena.go): a directory of       *)
(* chunks that only grows, a counter of claimed slots, and a bounded free  *)
(* list that hands out the slots of recycled chunks.                       *)
(*                                                                         *)
(* Inserters run under the shared reap lock: each allocates a slot and     *)
(* links it, or loses the publishing CAS and retires it.  The maintenance  *)
(* goroutine holds the lock exclusively, so its steps happen between whole *)
(* inserter operations: it retires a linked slot, or evacuates a chunk.    *)
(*                                                                         *)
(* A slot is <<index, gen>>: recycling replaces the chunk's array, so the  *)
(* same index in the next generation is another slot.  One bit tells a     *)
(* generation from the next.                                               *)
(***************************************************************************)
EXTENDS Integers, Sequences, FiniteSets, SequencesExt

CONSTANTS Threads,     \* the inserters
          ChunkSize,   \* slots per chunk
          FreeCap,     \* freeSlotCapacity
          MaxNext,     \* bound on slots claimed from next
          Nobody       \* growMu is free

VARIABLES next,        \* slots claimed so far
          dir,         \* list: the chunk at each index; NoChunk once dropped
          free,        \* freeList
          freeCount,   \* its atomic occupancy count
          growMu,      \* who holds the growth lock
          linked,      \* slots reachable from the tree
          pc, idx, slot, todo,  \* per inserter: step, index, slot, indices to enqueue
          closed

vars == <<next, dir, free, freeCount, growMu, linked, pc, idx, slot, todo, closed>>
threadVars == <<pc, idx, slot, todo>>

NoChunk == [gen |-> 2, reaped |-> 0, outstanding |-> 0]
NoSlot == <<-1, 2>>
ChunkOf(i) == i \div ChunkSize
IndicesOf(c) == [k \in 1 .. ChunkSize |-> c * ChunkSize + k - 1]
Chunk(d, c) == d[c + 1]

Init ==
    /\ next = 0 /\ dir = <<>>
    /\ free = <<>> /\ freeCount = 0
    /\ growMu = Nobody
    /\ linked = {}
    /\ pc = [t \in Threads |-> "idle"]
    /\ idx = [t \in Threads |-> 0]
    /\ slot = [t \in Threads |-> NoSlot]
    /\ todo = [t \in Threads |-> <<>>]
    /\ closed = FALSE

----------------------------------------------------------------------------
(* Growth and recycling, as functions of the directory.                    *)

NewChunk(g) == [gen |-> g, reaped |-> 0, outstanding |-> 0]

(* grow: append chunks until the needed one exists.                        *)
Grown(d, needed) ==
    IF needed < Len(d) THEN d
    ELSE d \o [k \in 1 .. (needed + 1 - Len(d)) |-> NewChunk(0)]

(* dropChunk's room check: a whole chunk must fit the free list.           *)
HasRoom(count) == count + ChunkSize <= FreeCap

(* dropChunk: a fresh generation takes the place of the dead chunk and its *)
(* slots are outstanding, or the entry becomes nil for good.               *)
Dropped(d, c, count) ==
    IF HasRoom(count)
    THEN [d EXCEPT ![c + 1] = [gen |-> 1 - @.gen, reaped |-> 0, outstanding |-> ChunkSize]]
    ELSE [d EXCEPT ![c + 1] = NoChunk]

(* recordReaped's atomic increment.                                        *)
Counted(d, c) == [d EXCEPT ![c + 1].reaped = @ + 1]

----------------------------------------------------------------------------
(* The inserters.                                                          *)

Holding(t) == pc[t] # "idle"

(* Mutant: the index is read but stays in the free list. *)
DequeuePeeks(t) ==
    /\ pc[t] = "idle" /\ ~closed
    /\ free # <<>>
    /\ idx' = [idx EXCEPT ![t] = Head(free)]
    /\ pc' = [pc EXCEPT ![t] = "dequeued"]
    /\ UNCHANGED <<next, dir, free, freeCount, growMu, linked, slot, todo, closed>>

(* alloc, the recycled path: TryDequeue.                                   *)
Dequeue(t) ==
    /\ pc[t] = "idle" /\ ~closed
    /\ free # <<>>
    /\ idx' = [idx EXCEPT ![t] = Head(free)]
    /\ free' = Tail(free)
    /\ pc' = [pc EXCEPT ![t] = "dequeued"]
    /\ UNCHANGED <<next, dir, freeCount, growMu, linked, slot, todo, closed>>

(* alloc, after the dequeue: the counts are lowered and the slot is taken  *)
(* from the directory as it now is.                                        *)
TakeRecycled(t) ==
    /\ pc[t] = "dequeued"
    /\ freeCount' = freeCount - 1
    /\ LET c == ChunkOf(idx[t]) IN
       /\ dir' = [dir EXCEPT ![c + 1].outstanding = @ - 1]
       /\ slot' = [slot EXCEPT ![t] = <<idx[t], Chunk(dir, c).gen>>]
    /\ pc' = [pc EXCEPT ![t] = "filled"]
    /\ UNCHANGED <<next, free, growMu, linked, idx, todo, closed>>

(* alloc, the fresh path: the index is claimed with one atomic add.        *)
Claim(t) ==
    /\ pc[t] = "idle" /\ ~closed
    /\ free = <<>> /\ next < MaxNext
    /\ idx' = [idx EXCEPT ![t] = next]
    /\ next' = next + 1
    /\ pc' = [pc EXCEPT ![t] = "claimed"]
    /\ UNCHANGED <<dir, free, freeCount, growMu, linked, slot, todo, closed>>

(* alloc, with the claimed index: the chunk exists, or grow adds it under  *)
(* growMu, where another allocator may have added it meanwhile.            *)
TakeClaimed(t) ==
    /\ pc[t] = "claimed"
    /\ ChunkOf(idx[t]) >= Len(dir) => growMu = Nobody
    /\ dir' = Grown(dir, ChunkOf(idx[t]))
    /\ slot' = [slot EXCEPT ![t] = <<idx[t], Chunk(dir', ChunkOf(idx[t])).gen>>]
    /\ pc' = [pc EXCEPT ![t] = "filled"]
    /\ UNCHANGED <<next, free, freeCount, growMu, linked, idx, todo, closed>>

(* Insert publishes the slot with its CAS.                                 *)
Publish(t) ==
    /\ pc[t] = "filled"
    /\ linked' = linked \union {slot[t]}
    /\ pc' = [pc EXCEPT ![t] = "idle"]
    /\ slot' = [slot EXCEPT ![t] = NoSlot]
    /\ UNCHANGED <<next, dir, free, freeCount, growMu, idx, todo, closed>>

(* Insert lost its CAS and retires the unpublished slot: recordReaped, and *)
(* the drop when it was the chunk's last.                                  *)
Lose(t) ==
    /\ pc[t] = "filled"
    /\ LET c == ChunkOf(idx[t]) IN
       /\ dir' = Counted(dir, c)
       /\ pc' = [pc EXCEPT ![t] = IF Chunk(dir', c).reaped = ChunkSize THEN "drop" ELSE "idle"]
    /\ slot' = [slot EXCEPT ![t] = NoSlot]
    /\ UNCHANGED <<next, free, freeCount, growMu, linked, idx, todo, closed>>

(* dropChunk under growMu, up to the publication of the fresh chunk and    *)
(* the reservation of its room.                                            *)
Drop(t) ==
    /\ pc[t] = "drop" /\ growMu = Nobody
    /\ LET c == ChunkOf(idx[t]) IN
       /\ dir' = Dropped(dir, c, freeCount)
       /\ IF HasRoom(freeCount)
          THEN /\ freeCount' = freeCount + ChunkSize
               /\ todo' = [todo EXCEPT ![t] = IndicesOf(c)]
               /\ growMu' = t
               /\ pc' = [pc EXCEPT ![t] = "enqueue"]
          ELSE /\ pc' = [pc EXCEPT ![t] = "idle"]
               /\ UNCHANGED <<freeCount, todo, growMu>>
    /\ UNCHANGED <<next, free, linked, idx, slot, closed>>

(* dropChunk's loop: one TryEnqueue, and the unlock after the last.        *)
Enqueue(t) ==
    /\ pc[t] = "enqueue"
    /\ free' = IF Len(free) < FreeCap THEN Append(free, Head(todo[t])) ELSE free
    /\ todo' = [todo EXCEPT ![t] = Tail(@)]
    /\ growMu' = IF Len(todo[t]) = 1 THEN Nobody ELSE growMu
    /\ pc' = [pc EXCEPT ![t] = IF Len(todo[t]) = 1 THEN "idle" ELSE "enqueue"]
    /\ UNCHANGED <<next, dir, freeCount, linked, idx, slot, closed>>

----------------------------------------------------------------------------
(* The maintenance goroutine, exclusive of every inserter.                 *)

Exclusive == \A t \in Threads : ~Holding(t)

(* recordReaped with no other thread inside: the drop is one step with it. *)
Retired(a, s) ==
    LET c == ChunkOf(s[1])
        d == Counted(a.dir, c)
        last == Chunk(d, c).reaped = ChunkSize
        room == HasRoom(a.count)
    IN  [a EXCEPT !.dir = IF last THEN Dropped(d, c, a.count) ELSE d,
                  !.count = IF last /\ room THEN @ + ChunkSize ELSE @,
                  !.free = IF last /\ room THEN @ \o IndicesOf(c) ELSE @,
                  !.linked = @ \ {s}]

(* alloc with no other thread inside.                                      *)
Allocated(a) ==
    IF a.free # <<>>
    THEN LET i == Head(a.free)
             c == ChunkOf(i)
         IN  [a EXCEPT !.free = Tail(@), !.count = @ - 1,
                       !.dir = [@ EXCEPT ![c + 1].outstanding = @ - 1],
                       !.linked = @ \union {<<i, Chunk(a.dir, c).gen>>}]
    ELSE LET c == ChunkOf(a.next)
             d == Grown(a.dir, c)
         IN  [a EXCEPT !.next = @ + 1, !.dir = d,
                       !.linked = @ \union {<<a.next, Chunk(d, c).gen>>}]

Arena == [next |-> next, dir |-> dir, free |-> free, count |-> freeCount, linked |-> linked]

Becomes(a) ==
    /\ next' = a.next /\ dir' = a.dir /\ free' = a.free
    /\ freeCount' = a.count /\ linked' = a.linked
    /\ UNCHANGED <<growMu, threadVars, closed>>

(* pruneLeaf unlinks a dead slot and retires it.                           *)
Reap(s) ==
    /\ Exclusive /\ ~closed
    /\ s \in linked
    /\ Becomes(Retired(Arena, s))

(* compactLeafChunks' choice: a full chunk before the tail, none of whose  *)
(* slots waits in the free list.  How sparse it must be is a tuning, so     *)
(* any occupancy may be chosen.                                            *)
Sparse(c) ==
    /\ c < next \div ChunkSize
    /\ Chunk(dir, c) # NoChunk
    /\ Chunk(dir, c).outstanding = 0

LinkedIn(c) == {s \in linked : ChunkOf(s[1]) = c}

(* One batch of evacuateLeafChunk: every linked slot of the chunk is       *)
(* copied to a fresh slot, and the old one is retired.                     *)
Evacuate(c) ==
    /\ Exclusive /\ ~closed
    /\ Sparse(c)
    /\ LinkedIn(c) # {}
    /\ next + Cardinality(LinkedIn(c)) <= MaxNext
    /\ Becomes(FoldLeft(LAMBDA a, s : Retired(Allocated(a), s),
                        Arena, SetToSeq(LinkedIn(c))))

(* clear, under the exclusive lock of Close.                               *)
Clear ==
    /\ Exclusive /\ ~closed
    /\ closed' = TRUE
    /\ dir' = <<>> /\ next' = 0 /\ free' = <<>> /\ freeCount' = 0
    /\ linked' = {}
    /\ UNCHANGED <<growMu, threadVars>>

Step(t) ==
    \/ Dequeue(t) \/ TakeRecycled(t) \/ Claim(t) \/ TakeClaimed(t)
    \/ Publish(t) \/ Lose(t) \/ Drop(t) \/ Enqueue(t)

Next ==
    \/ \E t \in Threads : Step(t)
    \/ \E s \in linked : Reap(s)
    \/ \E c \in 0 .. Len(dir) - 1 : Evacuate(c)
    \/ Clear

Spec == Init /\ [][Next]_vars

----------------------------------------------------------------------------
Slots == (0 .. MaxNext - 1) \X {0, 1}

(* Every variable keeps its shape; a chunk never counts more dead slots    *)
(* than it has (arena.go, recordReaped).                                   *)
TypeOK ==
    /\ next \in 0 .. MaxNext
    /\ \A c \in DOMAIN dir : /\ dir[c].gen \in 0 .. 2
                             /\ dir[c].reaped \in 0 .. ChunkSize
                             /\ dir[c].outstanding \in 0 .. ChunkSize
    /\ freeCount \in 0 .. FreeCap
    /\ growMu \in Threads \union {Nobody}
    /\ linked \subseteq Slots
    /\ \A t \in Threads : slot[t] \in Slots \union {NoSlot}

Held == {slot[t] : t \in {u \in Threads : slot[u] # NoSlot}}

(* A slot that is linked or being filled belongs to the generation its     *)
(* directory entry holds: no chunk is dropped or recycled under a live     *)
(* slot ("no reader can be mid-read on them", arena.go, dropChunk).        *)
NoDropUnderLive ==
    \A s \in linked \union Held : Chunk(dir, ChunkOf(s[1])).gen = s[2]

Waiting == Range(free) \union UNION {Range(todo[t]) : t \in Threads}
               \union {idx[t] : t \in {u \in Threads : pc[u] = "dequeued"}}

(* alloc hands a slot to one owner at a time: two inserters never hold the *)
(* same slot, a held slot is not linked, and no index that waits in the    *)
(* free list names a slot of the current generation that someone has.      *)
SlotHasOneOwner ==
    /\ \A t, u \in Threads : t # u /\ slot[t] # NoSlot => slot[t] # slot[u]
    /\ Held \intersect linked = {}
    /\ \A i \in Waiting : <<i, Chunk(dir, ChunkOf(i)).gen>> \notin linked \union Held

(* "freeCount ... never understates occupancy", so dropChunk's room check  *)
(* makes every TryEnqueue succeed: the queue and what is still to be       *)
(* enqueued fit the count, and no index is lost or queued twice.           *)
EnqueueNeverFails ==
    /\ Len(free) + FoldSet(LAMBDA t, n : n + Len(todo[t]), 0, Threads) <= freeCount
    /\ \A i, j \in DOMAIN free : free[i] = free[j] => i = j
    /\ \A c \in 0 .. Len(dir) - 1 :
         Chunk(dir, c).outstanding = Cardinality({i \in Waiting : ChunkOf(i) = c})

(* Every slot of a chunk is accounted for: claimed slots that died are     *)
(* counted once, so that a full chunk with nothing live, held or waiting   *)
(* has been dropped and none leaks (arena.go, recordReaped).               *)
NoChunkLeaks ==
    \A c \in 0 .. Len(dir) - 1 :
        Chunk(dir, c) # NoChunk =>
            Chunk(dir, c).reaped
              + Cardinality({s \in linked \union Held : ChunkOf(s[1]) = c})
              + Cardinality({i \in Waiting : ChunkOf(i) = c})
              + Cardinality({i \in next .. (c + 1) * ChunkSize - 1 : ChunkOf(i) = c})
              + Cardinality({t \in Threads : pc[t] = "claimed" /\ ChunkOf(idx[t]) = c})
            = ChunkSize
=============================================================================
