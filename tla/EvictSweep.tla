----------------------------- MODULE EvictSweep -----------------------------
(***************************************************************************)
(* The trie's bounded eviction (keytrie/evict.go, evict_sample.go): a      *)
(* clock hand over the leaf arena, a window spread over segments, victims  *)
(* by recency among the cold leaves, ghosts that remember a frequency, and *)
(* frequency decay driven by evictions.                                    *)
(*                                                                         *)
(* EvictBatch runs under evictMu and the exclusive reap lock, so it is one *)
(* step; accesses, inserts and pins come between.  Recency is kept as the  *)
(* order of last accesses, and a leaf's decay epoch as its distance to the *)
(* current one, capped where more makes no difference.  The threshold k is *)
(* a constant here; the tuning of it (maybeAdaptK) is not modelled.        *)
(***************************************************************************)
EXTENDS Integers, Sequences, FiniteSets, SequencesExt

CONSTANTS Slots,        \* number of leaf slots
          ChunkSize,
          MinSweep,     \* floor of the sweep window
          SweepSegments,
          Want,         \* what one EvictBatch asks for
          K,            \* protected-frequency threshold
          MaxLeafFreq,
          GhostFloor, GhostShare,   \* ghostCap: max(size / GhostShare, GhostFloor)
          DecayInterval,
          Pinnable,     \* slots whose key can be pinned
          Watched       \* slots NoSquatter is about

VARIABLES leaf,       \* slot -> [st, freq, pins, lag, fresh]
          order,      \* occupied slots, least recently accessed first
          chunkGone,  \* chunks reclaimed and not recycled
          hand,       \* evictHand, modulo twice the arena: every batch changes it
          clock       \* evictClock

vars == <<leaf, order, chunkGone, hand, clock>>

SlotIds == 0 .. Slots - 1
ChunkIds == 0 .. (Slots \div ChunkSize) - 1
Most(a, b) == IF a > b THEN a ELSE b
Least(a, b) == IF a < b THEN a ELSE b
Empty == [st |-> "empty", freq |-> 0, pins |-> 0, lag |-> 0, fresh |-> FALSE]
Born == [st |-> "live", freq |-> 1, pins |-> 0, lag |-> 0, fresh |-> TRUE]

Init ==
    /\ leaf = [i \in SlotIds |-> Empty]
    /\ order = <<>> /\ chunkGone = {}
    /\ hand = 0 /\ clock = 0

Live(l) == {i \in SlotIds : l[i].st = "live"}
Ghosts(l) == {i \in SlotIds : l[i].st = "ghost"}
Drop(seq, i) == SelectSeq(seq, LAMBDA j : j # i)
OldestFirst(S) == SelectSeq(order, LAMBDA i : i \in S)

----------------------------------------------------------------------------
(* allocLeafNode and publication: a new leaf in a free slot.               *)
Insert(i) ==
    /\ leaf[i].st = "empty" /\ (i \div ChunkSize) \notin chunkGone
    /\ leaf' = [leaf EXCEPT ![i] = Born]
    /\ order' = Append(order, i)
    /\ UNCHANGED <<chunkGone, hand, clock>>

(* bumpAccess on a live leaf.                                              *)
Access(i) ==
    /\ leaf[i].st = "live"
    /\ leaf' = [leaf EXCEPT ![i].freq = Least(@ + 1, MaxLeafFreq)]
    /\ order' = Append(Drop(order, i), i)
    /\ UNCHANGED <<chunkGone, hand, clock>>

(* promoteIfGhost: the remembered frequency plus one, no decay debt.  The  *)
(* access stamp is the one from before the eviction.                       *)
Promote(i) ==
    /\ leaf[i].st = "ghost"
    /\ leaf' = [leaf EXCEPT ![i] = [Born EXCEPT !.freq = Least(leaf[i].freq + 1, MaxLeafFreq)]]
    /\ UNCHANGED <<order, chunkGone, hand, clock>>

Pin(i) ==
    /\ i \in Pinnable /\ leaf[i].st = "live" /\ leaf[i].pins = 0
    /\ leaf' = [leaf EXCEPT ![i].pins = 1]
    /\ UNCHANGED <<order, chunkGone, hand, clock>>

Unpin(i) ==
    /\ leaf[i].st = "live" /\ leaf[i].pins = 1
    /\ leaf' = [leaf EXCEPT ![i].pins = 0]
    /\ UNCHANGED <<order, chunkGone, hand, clock>>

(* The arena gives up a chunk without live leaves or ghosts, or takes it   *)
(* into use again.                                                         *)
ChunkDropped(c) ==
    /\ \A i \in SlotIds : i \div ChunkSize = c => leaf[i].st = "empty"
    /\ chunkGone' = IF c \in chunkGone THEN chunkGone \ {c} ELSE chunkGone \union {c}
    /\ UNCHANGED <<leaf, order, hand, clock>>

----------------------------------------------------------------------------
(* sweepLeaves: one segment of at most span slots from origin, until want  *)
(* occupied leaves were seen; a missing chunk is crossed in one step.      *)
Segment(origin, want, span) ==
    LET RECURSIVE Walk(_, _)
        Walk(j, seen) ==
            LET i == (origin + j) % Slots IN
            IF Len(seen) >= want \/ j >= span THEN [seen |-> seen, j |-> j]
            ELSE IF (i \div ChunkSize) \in chunkGone THEN Walk(j + (ChunkSize - (i % ChunkSize)), seen)
            ELSE IF leaf[i].st = "empty" THEN Walk(j + 1, seen)
            ELSE Walk(j + 1, Append(seen, i))
    IN  Walk(0, <<>>)

Window == Most(Want * 2, MinSweep)
Segments == IF Window >= Cardinality(Live(leaf)) \/ Window < SweepSegments THEN 1 ELSE SweepSegments
SegmentLen == Window \div Segments
SegmentGap == IF Slots \div Segments = 0 THEN Slots ELSE Slots \div Segments

(* All segments: the last one takes the remainder of the window.           *)
SegmentAt(s) ==
    Segment(hand + s * SegmentGap,
            IF s = Segments - 1 THEN Window - SegmentLen * (Segments - 1) ELSE SegmentLen,
            SegmentGap)

(* The hand moves by what the first segment spanned, at least one slot.    *)
HandAdvanced(span) == (hand + Most(span, 1)) % (2 * Slots)

(* Mutant: decay is not applied on a visit. *)
DecayedNever(l) == l

(* decayLeaf: one step down per epoch since the last visit, never below 1. *)
Decayed(l) == [l EXCEPT !.freq = IF @ <= 1 THEN @ ELSE @ - Least(l.lag, @ - 1), !.lag = 0]

(* What the sample does to the leaves: live ones absorb their decay.       *)
Considered(sampled) ==
    [i \in SlotIds |-> IF i \in sampled /\ leaf[i].st = "live" THEN Decayed(leaf[i]) ELSE leaf[i]]

GhostCap(l) == Most(Cardinality(Live(l)) \div GhostShare, GhostFloor)

(* advanceDecay: one reclaim; after DecayInterval of them an epoch passes. *)
Aged(s) ==
    IF s.clock + 1 < DecayInterval THEN [s EXCEPT !.clock = @ + 1]
    ELSE [s EXCEPT !.clock = 0,
                   !.leaf = [i \in SlotIds |-> IF s.leaf[i].st = "empty" THEN Empty
                                ELSE [s.leaf[i] EXCEPT !.lag = Least(@ + 1, MaxLeafFreq - 1),
                                                       !.fresh = FALSE]]]

(* reclaimOldestGhost: the oldest sampled ghost that is left.              *)
GhostReclaimed(s) ==
    IF s.ghosts = <<>> THEN s
    ELSE [s EXCEPT !.ghosts = Tail(@), !.leaf[Head(s.ghosts)] = Empty]

(* A ghost remembers a frequency only.                                     *)
GhostOf(l) == [Empty EXCEPT !.st = "ghost", !.freq = l.freq, !.lag = l.lag]

(* One cold victim: room is made among the ghosts before it becomes one;   *)
(* without room it goes to the reaper.                                     *)
VictimTaken(s, i) ==
    LET out == [s EXCEPT !.leaf[i] = Empty]
        room == IF Cardinality(Ghosts(out.leaf)) >= GhostCap(out.leaf) THEN GhostReclaimed(out) ELSE out
    IN  Aged(IF Cardinality(Ghosts(room.leaf)) < GhostCap(room.leaf)
             THEN [room EXCEPT !.leaf[i] = GhostOf(s.leaf[i])] ELSE room)

(* The batch: the oldest cold leaves; without any, the oldest ghost; and   *)
(* only with neither, the oldest protected leaf.                           *)
Evicted(sampled) ==
    LET s == [leaf |-> Considered(sampled), clock |-> clock,
              ghosts |-> OldestFirst({i \in sampled : leaf[i].st = "ghost"})]
        candidates == {i \in sampled : s.leaf[i].st = "live" /\ s.leaf[i].pins = 0}
        cold == OldestFirst({i \in candidates : K = 0 \/ s.leaf[i].freq <= K})
    IN  IF cold # <<>> THEN FoldLeft(VictimTaken, s, SubSeq(cold, 1, Least(Want, Len(cold))))
        ELSE IF s.ghosts # <<>> THEN Aged(GhostReclaimed(s))
        ELSE IF candidates # {} THEN Aged([s EXCEPT !.leaf[Head(OldestFirst(candidates))] = Empty])
        ELSE s

EvictBatch ==
    \E segment \in {[s \in 0 .. Segments - 1 |-> SegmentAt(s)]} :
    \E done \in {Evicted(UNION {Range(segment[s].seen) : s \in DOMAIN segment})} :
        /\ leaf' = done.leaf
        /\ clock' = done.clock
        /\ hand' = HandAdvanced(segment[0].j)
        /\ order' = SelectSeq(order, LAMBDA i : done.leaf[i].st # "empty")
        /\ UNCHANGED chunkGone

Touch(i) == Insert(i) \/ Access(i) \/ Promote(i) \/ Pin(i) \/ Unpin(i)

Next ==
    \/ EvictBatch
    \/ \E i \in SlotIds : Touch(i)
    \/ \E c \in ChunkIds : ChunkDropped(c)

(* The governor calls EvictBatch again and again while it is over its      *)
(* target: the action is always enabled, and only it moves the hand.       *)
Spec == Init /\ [][Next]_vars /\ []<><<hand' # hand>>_vars

----------------------------------------------------------------------------
(* Frequencies of live leaves stay in 1 .. MaxLeafFreq, and the order      *)
(* names every occupied slot once (evict.go, decayLeaf: "floor 1").        *)
TypeOK ==
    /\ \A i \in SlotIds : leaf[i].st \in {"empty", "live", "ghost"}
                          /\ (leaf[i].st # "empty" => leaf[i].freq \in 1 .. MaxLeafFreq)
    /\ Len(order) = Cardinality(Live(leaf) \union Ghosts(leaf))
    /\ Range(order) = Live(leaf) \union Ghosts(leaf)
    /\ hand \in 0 .. 2 * Slots - 1 /\ clock \in 0 .. DecayInterval

(* A batch makes no ghost beyond the limit that holds when it ends, unless *)
(* there were more before: "newly evicted leaves are not in the sample",   *)
(* so room comes from older ghosts only (evict.go, EvictBatch).            *)
GhostsBounded ==
    [][Cardinality(Ghosts(leaf')) > Cardinality(Ghosts(leaf))
          => Cardinality(Ghosts(leaf')) <= GhostCap(leaf)]_vars

(* "The ghost period is not decay debt": a leaf that was inserted or       *)
(* promoted in this decay epoch is not decayed by a sweep (evict.go,       *)
(* promoteIfGhost and critbit.go, allocLeafNode).                          *)
FreshKeepsFreq ==
    [][\A i \in SlotIds : leaf[i].fresh /\ leaf[i].st = "live" /\ leaf'[i].st = "live"
          => leaf'[i].freq >= leaf[i].freq]_vars

(* No squatter: a leaf that is never touched again does not stay live and  *)
(* unpinned for good, however hot it was, whatever is inserted and         *)
(* accessed around it, and wherever the hand and the holes are; successive *)
(* sweeps cover the arena and decay reaches every leaf (evict.go,          *)
(* defaultDecayInterval and sweepSegments).  Ghosts that keep returning    *)
(* are left out: they come back with their old access stamp and go first.  *)
NoSquatter ==
    \A i \in Watched :
        <>[][~Touch(i) /\ \A j \in SlotIds : ~Promote(j)]_vars
            => []<>(leaf[i].st # "live" \/ leaf[i].pins > 0)
=============================================================================
