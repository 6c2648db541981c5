------------------------------ MODULE Critbit ------------------------------
(***************************************************************************)
(* The key index (keytrie): a crit-bit trie whose inserters publish with   *)
(* CAS under the shared reap lock, while deletion, eviction, unlinking and *)
(* relocation hold that lock exclusively.                                  *)
(*                                                                         *)
(* Writers run the engine's merge loop (context.go, installTips): read the *)
(* key's tip set, add a tip, Insert, and start over when the CAS fails.    *)
(* Every atomic access of an Insert is a step.  What runs under the        *)
(* exclusive lock is one step, taken when no writer is inside the shared   *)
(* one.  A scan (range.go) reads the tree in batches and keeps node        *)
(* pointers in between; the reap queue keeps pointers too, so a node is    *)
(* handed out again only when nobody points at it.                         *)
(*                                                                         *)
(* A key is a sequence of bytes of ByteBits bits.  Frequencies are cut     *)
(* down to the ghost mark (freq < 0) and payloads are left out.  The       *)
(* refDelta hook is not installed by the engine.                           *)
(***************************************************************************)
EXTENDS CritBits, FiniteSets, SequencesExt

CONSTANTS Keys,        \* the keys in use
          Writers,
          WritesTo,    \* WritesTo[x]: the keys writer x writes
          MaxWrites,   \* bound: writes of one writer
          Holders,     \* outbox entries that may pin a key, once each
          QueueCap,    \* reapQueueCapacity
          ScanBatch,   \* keys of one batch of a scan; 0: nothing scans
          MaxMoves,    \* bound: nodes relocated by compaction
          Ops          \* the exclusive operations that happen

MaxNodes == Cardinality(Keys) + 3
LeafIds == 1 .. MaxNodes
InnerIds == MaxNodes + 1 .. 2 * MaxNodes
Nil == 0
RootLink == <<Nil, 0>>
NoTips == {<<>>}       \* a nil TipSet; a live leaf may have an empty one
Husk == [key |-> <<>>, tips |-> NoTips, deleted |-> TRUE, ghost |-> FALSE, pins |-> 0]
NoInner == [crit |-> <<0, 0>>, child |-> <<Nil, Nil>>]

VARIABLES root, leaf, inner,
          size, deletedCount, ghostCount,
          queue, dropped,   \* reapQueue and reapDropped
          batch,            \* what drainReap dequeued and has not unlinked
          w,                \* per writer: where it is in its write
          scan,             \* the scan in progress
          held,             \* the key each holder has pinned
          acked,            \* <<key, tip>> pairs a writer was told are in
          moves,            \* nodes relocated so far
          closed

vars == <<root, leaf, inner, size, deletedCount, ghostCount, queue, dropped,
          batch, w, scan, held, acked, moves, closed>>
tree == <<root, leaf, inner>>
counts == <<size, deletedCount, ghostCount>>
reaping == <<queue, dropped, batch>>

----------------------------------------------------------------------------
(* The tree as a value: [root, inner].                                     *)

IsLeaf(n) == n \in LeafIds
T == [root |-> root, inner |-> inner]

(* The link <<n, d>> is child d of n, or the root pointer.                 *)
Follow(t, link) == IF link = RootLink THEN t.root ELSE t.inner[link[1]].child[link[2] + 1]

Relink(t, link, n) ==
    IF link = RootLink THEN [t EXCEPT !.root = n]
    ELSE [t EXCEPT !.inner[link[1]].child[link[2] + 1] = n]

(* The links of findBestMatch's descent for a key, the leaf's link last.   *)
Path(t, key) ==
    LET RECURSIVE Down(_, _)
        Down(link, path) ==
            LET n == Follow(t, link) IN
            IF n = Nil \/ IsLeaf(n) THEN Append(path, link)
            ELSE Down(<<n, GetDirection(key, t.inner[n].crit)>>, Append(path, link))
    IN  Down(RootLink, <<>>)

(* The nodes below a link.                                                 *)
Under(t, n) ==
    LET RECURSIVE Below(_)
        Below(m) == IF m \in InnerIds
                    THEN {m} \union Below(t.inner[m].child[1]) \union Below(t.inner[m].child[2])
                    ELSE {m} \ {Nil}
    IN  Below(n)

Linked == {n \in Under(T, root) : IsLeaf(n)}

(* liveLeaf: the live leaf of a key, Nil when there is none.               *)
LiveLeaf(key) ==
    LET n == Follow(T, Last(Path(T, key)))
    IN  IF n # Nil /\ leaf[n].key = key /\ ~leaf[n].deleted THEN n ELSE Nil

(* Contains: the tip set of a live key.                                    *)
TipsAt(key) == IF LiveLeaf(key) = Nil THEN NoTips ELSE leaf[LiveLeaf(key)].tips

(* Nodes the allocator may hand out: unused, and nobody points at them.    *)
FreeLeaves == {n \in LeafIds : leaf[n] = Husk /\ n \notin Range(queue) \union batch
                                 \union Range(scan.stack) \union Linked}
FreeInners == {n \in InnerIds : inner[n] = NoInner /\ n \notin Range(scan.stack)}
Lowest(S) == CHOOSE n \in S : \A m \in S : n <= m

----------------------------------------------------------------------------
Released == <<-1>>     \* a holder that is done
Idle == [pc |-> "idle", key |-> <<>>, tip |-> <<>>, old |-> NoTips, new |-> NoTips,
         cur |-> Nil, rootNode |-> Nil, link |-> RootLink, crit |-> <<0, 0>>]
NoScan == [pc |-> "off", stack |-> <<>>, fresh |-> FALSE, after |-> <<>>, n |-> 0,
           got |-> <<>>, owed |-> {}]

Init ==
    /\ root = Nil
    /\ leaf = [n \in LeafIds |-> Husk]
    /\ inner = [n \in InnerIds |-> NoInner]
    /\ size = 0 /\ deletedCount = 0 /\ ghostCount = 0
    /\ queue = <<>> /\ dropped = FALSE /\ batch = {}
    /\ w = [x \in Writers |-> [Idle EXCEPT !.tip = <<x, MaxWrites>>]]
    /\ scan = NoScan
    /\ held = [h \in Holders |-> <<>>]
    /\ acked = {}
    /\ moves = 0 /\ closed = FALSE

Goes(x, to) == w' = [w EXCEPT ![x] = to]
Stays == UNCHANGED <<tree, counts, reaping, scan, held, acked, moves, closed>>

----------------------------------------------------------------------------
(* Insert, one step per atomic access.                                     *)

(* The merge loop reads the tip set: a new write, or one whose CAS failed. *)
Read(x, k) ==
    /\ \/ w[x].pc = "idle" /\ w[x].tip[2] > 0 /\ k \in WritesTo[x]
       \/ w[x].pc = "again" /\ k = w[x].key
    /\ Goes(x, [w[x] EXCEPT !.pc = "insert", !.key = k, !.old = TipsAt(k),
                            !.new = (TipsAt(k) \ NoTips) \union {w[x].tip}])
    /\ Stays

(* Insert starts over; the merge loop starts over.                         *)
Retry(x) == [Idle EXCEPT !.pc = "insert", !.key = w[x].key, !.tip = w[x].tip,
                         !.old = w[x].old, !.new = w[x].new]
Again(x) == [Idle EXCEPT !.pc = "again", !.key = w[x].key, !.tip = w[x].tip]
Finished(x) == [Idle EXCEPT !.tip = <<x, w[x].tip[2] - 1>>]

(* Insert fails at once on a closed trie, and the loop gives up.           *)
GiveUp(x) ==
    /\ closed /\ w[x].pc = "insert"
    /\ Goes(x, Finished(x))
    /\ Stays

(* The shared lock is taken and the root loaded.                           *)
Enter(x) ==
    /\ ~closed /\ w[x].pc = "insert"
    /\ Goes(x, [w[x] EXCEPT !.pc = "seek", !.cur = root, !.rootNode = root])
    /\ Stays

(* findBestMatch, one link at a time.                                      *)
Seek(x) ==
    /\ w[x].pc = "seek"
    /\ LET n == w[x].cur IN
       Goes(x, IF n \in InnerIds
               THEN [w[x] EXCEPT !.cur = Follow(T, <<n, GetDirection(w[x].key, inner[n].crit)>>)]
               ELSE [w[x] EXCEPT !.pc = "match"])
    /\ Stays

(* The best match is the key: its current tips stand for a nil old when    *)
(* the leaf is deleted.  Or it is another key, and the place for a new     *)
(* leaf is looked for from the root that was loaded first.                 *)
Match(x) ==
    /\ w[x].pc = "match"
    /\ LET n == w[x].cur
           there == [w[x] EXCEPT !.link = RootLink, !.cur = w[x].rootNode]
       IN  Goes(x, IF n # Nil /\ leaf[n].key = w[x].key
                   THEN [w[x] EXCEPT !.pc = "swap",
                            !.old = IF @ = NoTips /\ leaf[n].deleted THEN leaf[n].tips ELSE @]
                   ELSE IF n # Nil
                   THEN [there EXCEPT !.pc = "place", !.crit = FindCritBit(w[x].key, leaf[n].key)]
                   ELSE [there EXCEPT !.pc = "link"])
    /\ Stays

(* The descent to the link that the new branch replaces.  What it finds    *)
(* there must still differ from the key at the critical bit; otherwise a   *)
(* concurrent insert came first and Insert starts over.                    *)
Place(x) ==
    /\ w[x].pc = "place"
    /\ LET n == w[x].cur
           deeper == <<n, GetDirection(w[x].key, inner[n].crit)>>
           taken == \/ n = Nil
                    \/ n \in InnerIds /\ ~ShouldInsertBefore(w[x].crit, inner[n].crit)
                    \/ IsLeaf(n) /\ FindCritBit(w[x].key, leaf[n].key) # w[x].crit
       IN  Goes(x, IF n \in InnerIds /\ ShouldInsertBefore(inner[n].crit, w[x].crit)
                   THEN [w[x] EXCEPT !.link = deeper, !.cur = Follow(T, deeper)]
                   ELSE IF taken THEN Retry(x)
                   ELSE [w[x] EXCEPT !.pc = "link"])
    /\ Stays

(* The tree with a new leaf n for the key at the writer's link: alone, or  *)
(* below a new branch i beside the node found there.                       *)
Grafted(x, n, i) ==
    LET dir == GetDirection(w[x].key, w[x].crit)
        pair == IF dir = 0 THEN <<n, w[x].cur>> ELSE <<w[x].cur, n>>
    IN  IF w[x].cur = Nil THEN Relink(T, w[x].link, n)
        ELSE [Relink(T, w[x].link, i) EXCEPT !.inner[i] = [crit |-> w[x].crit, child |-> pair]]

(* The CAS of the link.  The new leaf is linked while still deleted; the   *)
(* loser retires its slots and starts over.                                *)
Link(x) ==
    /\ w[x].pc = "link"
    /\ IF Follow(T, w[x].link) = w[x].cur
       THEN LET n == Lowest(FreeLeaves)
                t == Grafted(x, n, Lowest(FreeInners))
            IN  /\ root' = t.root /\ inner' = t.inner
                /\ leaf' = [leaf EXCEPT ![n] = [Husk EXCEPT !.key = w[x].key, !.tips = w[x].new]]
                /\ Goes(x, [w[x] EXCEPT !.pc = "publish", !.cur = n])
       ELSE /\ Goes(x, Retry(x))
            /\ UNCHANGED tree
    /\ UNCHANGED <<counts, reaping, scan, held, acked, moves, closed>>

Acknowledge(x) == acked' = acked \union {<<w[x].key, w[x].tip>>}

(* The linked leaf becomes live, the lock is released, and Insert returns. *)
Publish(x) ==
    /\ w[x].pc = "publish"
    /\ leaf' = [leaf EXCEPT ![w[x].cur].deleted = FALSE]
    /\ size' = size + 1
    /\ Acknowledge(x)
    /\ Goes(x, Finished(x))
    /\ UNCHANGED <<root, inner, deletedCount, ghostCount, reaping, scan, held, moves, closed>>

(* The CAS of an existing leaf's tips; its failure is the merge loop's     *)
(* reason to read them again.                                              *)
Swap(x) ==
    /\ w[x].pc = "swap"
    /\ IF leaf[w[x].cur].tips = w[x].old
       THEN /\ leaf' = [leaf EXCEPT ![w[x].cur].tips = w[x].new]
            /\ Acknowledge(x)
            /\ Goes(x, [w[x] EXCEPT !.pc = "revive"])
       ELSE /\ Goes(x, Again(x))
            /\ UNCHANGED <<leaf, acked>>
    /\ UNCHANGED <<root, inner, counts, reaping, scan, held, moves, closed>>

(* The CAS of the deleted flag: a ghost is promoted, a leaf that waits to  *)
(* be unlinked is taken back from the deleted count.                       *)
Revive(x) ==
    /\ w[x].pc = "revive"
    /\ LET n == w[x].cur
           dead == leaf[n].deleted
       IN  /\ leaf' = [leaf EXCEPT ![n].deleted = FALSE, ![n].ghost = IF dead THEN FALSE ELSE @]
           /\ size' = IF dead THEN size + 1 ELSE size
           /\ ghostCount' = IF dead /\ leaf[n].ghost THEN ghostCount - 1 ELSE ghostCount
           /\ deletedCount' = IF dead /\ ~leaf[n].ghost THEN deletedCount - 1 ELSE deletedCount
    /\ Goes(x, Finished(x))
    /\ UNCHANGED <<root, inner, reaping, scan, held, acked, moves, closed>>

Write(x) ==
    \/ \E k \in Keys : Read(x, k)
    \/ GiveUp(x) \/ Enter(x) \/ Seek(x) \/ Match(x) \/ Place(x)
    \/ Link(x) \/ Publish(x) \/ Swap(x) \/ Revive(x)

----------------------------------------------------------------------------
(* The other operations under the shared lock, each one atomic access.     *)

(* RemoveTips: the tip is taken out of the live leaf's set.                *)
RemoveTip(k, tip) ==
    /\ "removetips" \in Ops
    /\ tip \in TipsAt(k)
    /\ leaf' = [leaf EXCEPT ![LiveLeaf(k)].tips = @ \ {tip}]
    /\ acked' = acked \ {<<k, tip>>}
    /\ UNCHANGED <<root, inner, counts, reaping, w, scan, held, moves, closed>>

(* Pin, by a holder that has not pinned before.                            *)
Pin(h, k) ==
    /\ held[h] = <<>>
    /\ LiveLeaf(k) # Nil
    /\ leaf' = [leaf EXCEPT ![LiveLeaf(k)].pins = @ + 1]
    /\ held' = [held EXCEPT ![h] = k]
    /\ UNCHANGED <<root, inner, counts, reaping, w, scan, acked, moves, closed>>

(* Unpin: a missing or deleted leaf is a no-op.                            *)
Unpin(h) ==
    /\ held[h] \in Keys
    /\ leaf' = LET n == LiveLeaf(held[h])
               IN  IF n = Nil THEN leaf ELSE [leaf EXCEPT ![n].pins = @ - 1]
    /\ held' = [held EXCEPT ![h] = Released]
    /\ UNCHANGED <<root, inner, counts, reaping, w, scan, acked, moves, closed>>

----------------------------------------------------------------------------
(* Under the exclusive lock.                                               *)

(* A writer is inside the shared lock between Enter and its last access.   *)
Inside(x) == w[x].pc \in {"seek", "match", "place", "link", "publish", "swap", "revive"}
Exclusive == /\ \A x \in Writers : ~Inside(x)
             /\ scan.pc # "read"
             /\ ~closed

(* The tree, the leaves and the deleted count, for what changes them all.  *)
S == [t |-> T, leaf |-> leaf, deleted |-> deletedCount]

(* pruneLeaf: the leaf's sibling takes its parent's place; both are        *)
(* retired and cleared.                                                    *)
Pruned(s, n) ==
    LET path == Path(s.t, s.leaf[n].key)
        link == Last(path)
        above == path[Len(path) - 1]
        sibling == s.t.inner[link[1]].child[2 - link[2]]
    IN  [t |-> IF Len(path) = 1 THEN [s.t EXCEPT !.root = Nil]
               ELSE [Relink(s.t, above, sibling) EXCEPT !.inner[link[1]] = NoInner],
         leaf |-> [s.leaf EXCEPT ![n] = Husk],
         deleted |-> s.deleted - 1]

(* Mutant: a revived leaf is unlinked because it is still queued. *)
UnlinkableQueued(s, n) == Follow(s.t, Last(Path(s.t, s.leaf[n].key))) = n

(* unlinkLeaf's checks: still deleted, no ghost, and the leaf of its key.  *)
Unlinkable(s, n) ==
    /\ s.leaf[n].deleted /\ ~s.leaf[n].ghost
    /\ Follow(s.t, Last(Path(s.t, s.leaf[n].key))) = n

Unlinked(s, n) == IF Unlinkable(s, n) THEN Pruned(s, n) ELSE s

Becomes(s) ==
    /\ root' = s.t.root /\ inner' = s.t.inner
    /\ leaf' = s.leaf
    /\ deletedCount' = s.deleted
    /\ scan' = IF s.t = T THEN scan ELSE [scan EXCEPT !.fresh = FALSE]

(* enqueueReap: a full queue is noted, for a full traversal.               *)
EnqueueReap(n) ==
    /\ queue' = IF Len(queue) < QueueCap THEN Append(queue, n) ELSE queue
    /\ dropped' = (dropped \/ Len(queue) >= QueueCap)

(* What deletion and eviction do to a live leaf: tips and payload go.      *)
Kill(n, ghost) ==
    /\ leaf' = [leaf EXCEPT ![n].deleted = TRUE, ![n].tips = NoTips, ![n].ghost = ghost]
    /\ size' = size - 1
    /\ acked' = {a \in acked : a[1] # leaf[n].key}
    /\ scan' = [scan EXCEPT !.owed = @ \ {leaf[n].key}]
    /\ UNCHANGED <<root, inner, batch, w, held, moves, closed>>

(* DeleteAndSnapshot, with the tips as they are.                           *)
Delete(k) ==
    /\ "delete" \in Ops /\ Exclusive
    /\ LiveLeaf(k) # Nil
    /\ Kill(LiveLeaf(k), FALSE)
    /\ deletedCount' = deletedCount + 1
    /\ EnqueueReap(LiveLeaf(k))
    /\ UNCHANGED ghostCount

(* EvictBatch takes an unpinned live leaf and leaves a ghost.              *)
EvictToGhost(k) ==
    /\ "evict" \in Ops /\ Exclusive
    /\ LiveLeaf(k) # Nil
    /\ leaf[LiveLeaf(k)].pins = 0
    /\ Kill(LiveLeaf(k), TRUE)
    /\ ghostCount' = ghostCount + 1
    /\ UNCHANGED <<deletedCount, queue, dropped>>

(* EvictBatch at the ghost limit, or on its protected fallback: the leaf   *)
(* goes to the reaper.                                                     *)
EvictToReap(k) ==
    /\ "evict" \in Ops /\ Exclusive
    /\ LiveLeaf(k) # Nil
    /\ leaf[LiveLeaf(k)].pins = 0
    /\ Kill(LiveLeaf(k), FALSE)
    /\ deletedCount' = deletedCount + 1
    /\ EnqueueReap(LiveLeaf(k))
    /\ UNCHANGED ghostCount

(* reclaimGhost: the ghost becomes a plain deleted leaf.                   *)
ReclaimGhost(n) ==
    /\ "evict" \in Ops /\ Exclusive
    /\ n \in Linked /\ leaf[n].deleted /\ leaf[n].ghost
    /\ leaf' = [leaf EXCEPT ![n].ghost = FALSE]
    /\ ghostCount' = ghostCount - 1
    /\ deletedCount' = deletedCount + 1
    /\ EnqueueReap(n)
    /\ UNCHANGED <<root, inner, size, batch, w, scan, held, acked, moves, closed>>

(* drainReap dequeues a batch without a lock.                              *)
Drain ==
    /\ ~closed /\ batch = {} /\ queue # <<>>
    /\ batch' = ToSet(queue)
    /\ queue' = <<>>
    /\ UNCHANGED <<tree, counts, dropped, w, scan, held, acked, moves, closed>>

(* drainReap unlinks what it dequeued.                                     *)
UnlinkBatch ==
    /\ Exclusive /\ batch # {}
    /\ Becomes(FoldLeft(Unlinked, S, SetToSeq(batch)))
    /\ batch' = {}
    /\ UNCHANGED <<size, ghostCount, queue, dropped, w, held, acked, moves, closed>>

(* The full traversal that a dropped entry asks for, after the queue ran   *)
(* empty: every dead leaf of the tree is pruned.                           *)
Reap ==
    /\ Exclusive /\ dropped
    /\ queue = <<>> /\ batch = {}
    /\ dropped' = FALSE
    /\ Becomes(FoldLeft(Unlinked, S, SetToSeq(Linked)))
    /\ UNCHANGED <<size, ghostCount, queue, batch, w, held, acked, moves, closed>>

(* Mutant: the copy starts without the holds of the original. *)
RelocatedUnpinned(s, n, m) ==
    [s EXCEPT !.t = Relink(@, Last(Path(@, s.leaf[n].key)), m),
              !.leaf = [@ EXCEPT ![m] = [s.leaf[n] EXCEPT !.pins = 0], ![n] = Husk]]

(* relocateLeaf: a copy m takes the leaf's link, the original is retired.  *)
Relocated(s, n, m) ==
    [s EXCEPT !.t = Relink(@, Last(Path(@, s.leaf[n].key)), m),
              !.leaf = [@ EXCEPT ![m] = s.leaf[n], ![n] = Husk]]

(* One slot of evacuateLeafBatch: a live leaf is relocated, a ghost gives  *)
(* up its mark and is unlinked, a dead one is unlinked.                    *)
EvacuateLeaf(n) ==
    /\ moves < MaxMoves /\ Exclusive
    /\ n \in Linked
    /\ LET shed == [S EXCEPT !.leaf[n].ghost = FALSE, !.deleted = @ + 1]
       IN  Becomes(IF ~leaf[n].deleted THEN Relocated(S, n, Lowest(FreeLeaves))
                   ELSE IF leaf[n].ghost THEN Unlinked(shed, n)
                   ELSE Unlinked(S, n))
    /\ ghostCount' = IF leaf[n].deleted /\ leaf[n].ghost THEN ghostCount - 1 ELSE ghostCount
    /\ moves' = moves + 1
    /\ UNCHANGED <<size, reaping, w, held, acked, closed>>

(* relocateInternal: the incoming link is found with the key of the first  *)
(* leaf below.                                                             *)
EvacuateInner(n) ==
    /\ moves < MaxMoves /\ Exclusive
    /\ n \in Under(T, root) \intersect InnerIds
    /\ LET RECURSIVE FirstLeaf(_)
           FirstLeaf(m) == IF IsLeaf(m) THEN m ELSE FirstLeaf(inner[m].child[1])
           path == Path(T, leaf[FirstLeaf(n)].key)
           i == CHOOSE i \in DOMAIN path : Follow(T, path[i]) = n
           m == Lowest(FreeInners)
       IN  Becomes([S EXCEPT !.t = [Relink(T, path[i], m) EXCEPT
                                       !.inner = [@ EXCEPT ![m] = inner[n], ![n] = NoInner]]])
    /\ moves' = moves + 1
    /\ UNCHANGED <<size, ghostCount, reaping, w, held, acked, closed>>

(* Close drops everything.                                                 *)
Close ==
    /\ "close" \in Ops /\ Exclusive
    /\ closed' = TRUE
    /\ root' = Nil /\ leaf' = [n \in LeafIds |-> Husk] /\ inner' = [n \in InnerIds |-> NoInner]
    /\ size' = 0 /\ queue' = <<>> /\ acked' = {}
    /\ scan' = [scan EXCEPT !.fresh = FALSE, !.owed = {}]
    /\ UNCHANGED <<deletedCount, ghostCount, dropped, batch, w, held, moves>>

----------------------------------------------------------------------------
(* rangeKeys over the whole index.                                         *)

(* The order of keys.                                                      *)
Less(a, b) ==
    \/ \E i \in 1 .. Len(a) : i <= Len(b) /\ a[i] < b[i] /\ SubSeq(a, 1, i - 1) = SubSeq(b, 1, i - 1)
    \/ Len(a) < Len(b) /\ SubSeq(b, 1, Len(a)) = a

LiveKeys == {leaf[n].key : n \in {m \in Linked : ~leaf[m].deleted}}

ScanStart ==
    /\ scan.pc = "off" /\ ScanBatch > 0
    /\ scan' = [scan EXCEPT !.pc = "call", !.owed = LiveKeys]
    /\ UNCHANGED <<tree, counts, reaping, w, held, acked, moves, closed>>

(* Mutant: the cursor goes on with the pointers it has. *)
ScanEnterStale ==
    /\ scan.pc = "call"
    /\ scan' = IF closed THEN [scan EXCEPT !.pc = "done"]
               ELSE [scan EXCEPT !.pc = "read", !.n = 0, !.fresh = TRUE,
                        !.stack = IF scan.got # <<>> \/ root = Nil THEN @ ELSE <<root>>]
    /\ UNCHANGED <<tree, counts, reaping, w, held, acked, moves, closed>>

(* The next batch takes the shared lock.  After a revision the cursor      *)
(* starts again at the root.                                               *)
ScanEnter ==
    /\ scan.pc = "call"
    /\ scan' = IF closed THEN [scan EXCEPT !.pc = "done"]
               ELSE [scan EXCEPT !.pc = "read", !.n = 0, !.fresh = TRUE,
                        !.stack = IF scan.fresh THEN @ ELSE IF root = Nil THEN <<>> ELSE <<root>>]
    /\ UNCHANGED <<tree, counts, reaping, w, held, acked, moves, closed>>

(* A leaf is delivered when it is live and after the last key delivered.   *)
Deliverable(n) == ~leaf[n].deleted /\ (scan.after = <<>> \/ Less(scan.after, leaf[n].key))

(* One node of the cursor: a leaf's key, or the children of a branch, the  *)
(* left one on top.                                                        *)
ScanPop ==
    /\ scan.pc = "read" /\ scan.stack # <<>> /\ scan.n < ScanBatch
    /\ LET n == Last(scan.stack)
           rest == Front(scan.stack)
       IN  scan' = IF n \in InnerIds
                   THEN [scan EXCEPT !.stack = rest \o SelectSeq(<<inner[n].child[2], inner[n].child[1]>>,
                                                                 LAMBDA m : m # Nil)]
                   ELSE IF Deliverable(n)
                   THEN [scan EXCEPT !.stack = rest, !.n = @ + 1, !.got = Append(@, leaf[n].key)]
                   ELSE [scan EXCEPT !.stack = rest]
    /\ UNCHANGED <<tree, counts, reaping, w, held, acked, moves, closed>>

(* The batch is full or the tree is done: the lock is released and the     *)
(* callbacks run.                                                          *)
ScanLeave ==
    /\ scan.pc = "read" /\ (scan.stack = <<>> \/ scan.n = ScanBatch)
    /\ scan' = [scan EXCEPT !.pc = IF scan.stack = <<>> THEN "done" ELSE "call", !.n = 0,
                            !.after = IF scan.got = <<>> THEN @ ELSE Last(scan.got)]
    /\ UNCHANGED <<tree, counts, reaping, w, held, acked, moves, closed>>

Scan == ScanStart \/ ScanEnter \/ ScanPop \/ ScanLeave

Tips == Writers \X (1 .. MaxWrites)

Next ==
    \/ \E x \in Writers : Write(x)
    \/ \E k \in Keys, tip \in Tips : RemoveTip(k, tip)
    \/ \E h \in Holders : Unpin(h) \/ \E k \in Keys : Pin(h, k)
    \/ \E k \in Keys : Delete(k) \/ EvictToGhost(k) \/ EvictToReap(k)
    \/ \E n \in LeafIds : ReclaimGhost(n) \/ EvacuateLeaf(n)
    \/ \E n \in InnerIds : EvacuateInner(n)
    \/ Drain \/ UnlinkBatch \/ Reap \/ Close
    \/ Scan

Spec == Init /\ [][Next]_vars

----------------------------------------------------------------------------
(* Nodes, counters and queues keep their shape: the tree has one branch    *)
(* fewer than leaves, and slots that are not linked are cleared            *)
(* (memory.go, retireLeaf and retireInternal).                             *)
TypeOK ==
    /\ root \in LeafIds \union InnerIds \union {Nil}
    /\ \A n \in LeafIds : leaf[n] # Husk => n \in Linked
    /\ Cardinality(Under(T, root) \intersect InnerIds) =
           IF root = Nil THEN 0 ELSE Cardinality(Linked) - 1
    /\ \A n \in InnerIds : inner[n] # NoInner <=> n \in Under(T, root)
    /\ Len(queue) <= QueueCap

(* Whatever the order of concurrent inserts, unlinking and relocation, the *)
(* search path of every linked leaf's key ends at that leaf: no leaf is    *)
(* linked into a detached subtree, and no key has two leaves (critbit.go,  *)
(* Insert and findBestMatch).                                              *)
EveryLeafIsFound ==
    \A n \in Linked : Follow(T, Last(Path(T, leaf[n].key))) = n

(* Every branch splits its leaves at its critical bit, and below another   *)
(* branch at a later one, so an in-order walk is sorted (critbit.go,       *)
(* shouldInsertBefore).                                                    *)
BranchesSplit ==
    \A n \in Under(T, root) \intersect InnerIds : \A d \in {0, 1} :
        \A m \in Under(T, inner[n].child[d + 1]) :
            IF IsLeaf(m) THEN GetDirection(leaf[m].key, inner[n].crit) = d
            ELSE ShouldInsertBefore(inner[n].crit, inner[m].crit)

DeadLeaves == {n \in Linked : leaf[n].deleted /\ ~leaf[n].ghost}

(* "On overflow a push is dropped and a full-tree reap is scheduled as a   *)
(* backstop, so nothing leaks": outside of an insert, a dead leaf that is  *)
(* still linked is queued, in the drained batch, or a traversal is due.    *)
DeadIsQueued ==
    Exclusive /\ ~dropped => DeadLeaves \subseteq Range(queue) \union batch

(* When no insert is under way, size, deletedCount and ghostCount are the  *)
(* numbers of live, dead and ghost leaves of the tree; eviction, the ghost *)
(* limit and compaction are steered by them.                               *)
CountsExact ==
    Exclusive =>
        /\ size = Cardinality(LiveKeys)
        /\ deletedCount = Cardinality(DeadLeaves)
        /\ ghostCount = Cardinality({n \in Linked : leaf[n].deleted /\ leaf[n].ghost})

(* A tip whose Insert succeeded stays in the tip set of its key until it   *)
(* is removed, or the key is deleted or evicted: "On CAS failure: returns  *)
(* (currentTips, false)" (critbit.go, Insert).                             *)
NoLostTips ==
    Exclusive => \A a \in acked : a[2] \in TipsAt(a[1])

(* As long as no key is deleted, a live leaf counts exactly the holders of *)
(* its key, across relocation and revival; eviction relies on it           *)
(* (access.go, Pin; compact.go, relocateLeaf).                             *)
PinsExact ==
    \A n \in Linked : leaf[n].pins = Cardinality({h \in Holders : held[h] = leaf[n].key})

(* A scan delivers every key that is live from its start to its end,       *)
(* whatever is inserted, unlinked or relocated between its batches         *)
(* (range.go, rangeKeys).                                                  *)
ScanComplete == scan.pc = "done" => scan.owed \subseteq Range(scan.got)

(* A scan delivers keys in ascending order, so no key twice.               *)
ScanAscending ==
    \A i, j \in DOMAIN scan.got : i < j => Less(scan.got[i], scan.got[j])
====
