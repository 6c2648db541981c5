----------------------------- MODULE CloxCache -----------------------------
(***************************************************************************)
(* One shard of the adaptive cache (cache/cloxcache.go, ghost_sweeper.go): *)
(* chains of records that readers and updaters walk without a lock, while  *)
(* insertion, eviction and the ghost sweeper hold the shard's mutex.       *)
(*                                                                         *)
(* A walk takes one step per record.  A record whose frequency is negative *)
(* is a ghost.  Values are version numbers, which also stand for sizes.    *)
(* Frequency decay is switched off (DecayInterval < 0), and k stays what   *)
(* it is: adaptation needs a thousand evictions.  EvictAdapt is about the  *)
(* same policy in the key index.                                           *)
(***************************************************************************)
EXTENDS Integers, Sequences, FiniteSets, SequencesExt

CONSTANTS Keys, Slots,
          SlotOf,          \* key -> slot
          Threads,
          Script,          \* thread -> what it does: a sequence of <<op, key>>
          Capacity, GhostCapacity,
          MaxScan,         \* slots of a partial sweep
          K,               \* protection threshold
          MaxFrequency,
          Pinned,          \* keys the evict decider refuses
          Sized,           \* a size function is set
          Sweeps           \* bound: passes of the ghost sweeper

Nodes == 1 .. Cardinality(Keys) + Cardinality(Threads)
Nil == 0
NoNode == [key |-> Nil, val |-> 0, freq |-> 0, next |-> Nil]
Rest == [pc |-> "rest", node |-> Nil, val |-> 0, f |-> 0, floor |-> 0]

VARIABLES node, head,
          order,                   \* records by lastAccess, oldest first
          mu,                      \* holder of the shard mutex: {} or {who}
          hand, entryCount, ghostCount, bytes,
          t,                       \* per thread: where it is
          done,                    \* operations finished, per thread
          ver,                     \* history: last version written, per key
          put,                     \* history: last version whose Put is over
          gone,                    \* history: keys evicted and not put since
          steady,                  \* history: walks whose key was live all along
          sweep                    \* the ghost sweeper: [target, slot, left]

shared == <<node, head, order, hand, entryCount, ghostCount, bytes>>
history == <<ver, put, gone>>
vars == <<shared, mu, t, done, history, steady, sweep>>

Least(a, b) == IF a < b THEN a ELSE b
Fresh(S) == CHOOSE n \in S : \A m \in S : n <= m
Last1(seq, n) == Append(SelectSeq(seq, LAMBDA m : m # n), n)
Op(x) == Script[x][done[x] + 1][1]
Key(x) == Script[x][done[x] + 1][2]
Busy(x) == t[x].pc # "rest"

(* The records from n on, in chain order.                                  *)
RECURSIVE From(_)
From(n) == IF n = Nil THEN <<>> ELSE <<n>> \o From(node[n].next)

Chain(s) == From(head[s])
Linked == UNION {Range(Chain(s)) : s \in Slots}
IsLive(n) == node[n].freq > 0
LiveKeys == {node[n].key : n \in {m \in Linked : IsLive(m)}}

(* Records the collector may hand out again: nobody reaches them.          *)
Free == Nodes \ (Linked \union UNION {Range(From(t[x].node)) : x \in Threads})

Init ==
    /\ node = [n \in Nodes |-> NoNode] /\ head = [s \in Slots |-> Nil] /\ order = <<>>
    /\ mu = {} /\ hand = 0 /\ entryCount = 0 /\ ghostCount = 0 /\ bytes = 0
    /\ t = [x \in Threads |-> Rest] /\ done = [x \in Threads |-> 0]
    /\ ver = [k \in Keys |-> 0] /\ put = [k \in Keys |-> 0] /\ gone = {}
    /\ steady = {} /\ sweep = [target |-> 0, slot |-> 0, left |-> Sweeps]

----------------------------------------------------------------------------
Goes(x, to) == t' = [t EXCEPT ![x] = to]
Ends(x) == t' = [t EXCEPT ![x] = Rest] /\ done' = [done EXCEPT ![x] = @ + 1]

(* An operation hashes its key and loads the head of the chain.            *)
Start(x) ==
    /\ ~Busy(x) /\ done[x] < Len(Script[x])
    /\ LET writes == Op(x) \in {"put", "putback", "cas"}
           v == IF writes THEN ver[Key(x)] + 1 ELSE 0
       IN  /\ Goes(x, [Rest EXCEPT !.pc = "walk", !.node = head[SlotOf[Key(x)]], !.val = v,
                                   !.floor = put[Key(x)]])
           /\ ver' = IF writes THEN [ver EXCEPT ![Key(x)] = v] ELSE ver
           /\ gone' = IF writes THEN gone \ {Key(x)} ELSE gone
    /\ UNCHANGED <<shared, mu, done, put, sweep>>

(* One record of the walk: a live record of the key ends it, ghosts and    *)
(* other keys are passed.                                                  *)
Visit(x) ==
    LET n == t[x].node IN
    /\ t[x].pc = "walk" /\ n # Nil
    /\ Goes(x, IF node[n].key = Key(x) /\ IsLive(n) THEN [t[x] EXCEPT !.pc = "found", !.f = node[n].freq]
               ELSE [t[x] EXCEPT !.node = node[n].next])
    /\ UNCHANGED <<shared, mu, done, history, sweep>>

(* The end of the chain: only Put goes on, to the lock.                    *)
Missed(x) ==
    /\ t[x].pc = "walk" /\ t[x].node = Nil
    /\ IF Op(x) = "put" THEN Goes(x, [t[x] EXCEPT !.pc = "lock"]) /\ UNCHANGED done ELSE Ends(x)
    /\ UNCHANGED <<shared, mu, history, sweep>>

(* Get on a live record: one attempt to bump the frequency; the value is   *)
(* returned whatever became of the record.                                 *)
GetHit(x) ==
    LET n == t[x].node
        bump == t[x].f < MaxFrequency /\ node[n].freq = t[x].f
    IN  /\ t[x].pc = "found" /\ Op(x) = "get"
        /\ node' = IF bump THEN [node EXCEPT ![n].freq = @ + 1] ELSE node
        /\ order' = IF bump THEN Last1(order, n) ELSE order
        /\ Goes(x, [t[x] EXCEPT !.pc = "got", !.val = node[n].val])
        /\ UNCHANGED <<head, hand, entryCount, ghostCount, bytes, mu, done, history, sweep>>

Got(x) == t[x].pc = "got" /\ Ends(x) /\ UNCHANGED <<shared, mu, history, sweep>>

(* Put and PutBack on a live record: the bytes first.                      *)
Account(x) ==
    /\ t[x].pc = "found" /\ Op(x) \in {"put", "putback"}
    /\ bytes' = IF Sized THEN bytes + t[x].val - node[t[x].node].val ELSE bytes
    /\ Goes(x, [t[x] EXCEPT !.pc = "store"])
    /\ UNCHANGED <<node, head, order, hand, entryCount, ghostCount, mu, done, history, sweep>>

(* Then value, access time and frequency; a record that became a ghost in  *)
(* between keeps its negative frequency.                                   *)
StoreValue(x) ==
    LET n == t[x].node IN
    /\ t[x].pc = "store"
    /\ node' = [node EXCEPT ![n].val = t[x].val,
                            ![n].freq = IF @ < 1 THEN @ ELSE Least(@ + 1, MaxFrequency)]
    /\ order' = IF n \in Range(order) THEN Last1(order, n) ELSE order
    /\ put' = [put EXCEPT ![Key(x)] = t[x].val]
    /\ Ends(x)
    /\ UNCHANGED <<head, hand, entryCount, ghostCount, bytes, mu, ver, gone, sweep>>

(* CompareAndSwap against the value it read: succeeds or reports.          *)
Swap(x) ==
    LET n == t[x].node IN
    /\ t[x].pc = "found" /\ Op(x) = "cas"
    /\ \/ /\ node' = [node EXCEPT ![n].val = t[x].val]
          /\ order' = IF n \in Range(order) THEN Last1(order, n) ELSE order
          /\ put' = [put EXCEPT ![Key(x)] = t[x].val]
       \/ UNCHANGED <<node, order, put>>     \* expected is another value
    /\ Ends(x)
    /\ UNCHANGED <<head, hand, entryCount, ghostCount, bytes, mu, ver, gone, sweep>>

(* Evict on a live record: the bytes of the value it reads ...             *)
EvictBytes(x) ==
    /\ t[x].pc = "found" /\ Op(x) = "evict"
    /\ bytes' = IF Sized THEN bytes - node[t[x].node].val ELSE bytes
    /\ Goes(x, [t[x] EXCEPT !.pc = "negate"])
    /\ UNCHANGED <<node, head, order, hand, entryCount, ghostCount, mu, done, history, sweep>>

(* ... then the CAS that makes it a ghost, unless it is one, and the       *)
(* counters; true is returned in both cases.                               *)
EvictNegate(x) ==
    LET n == t[x].node IN
    /\ t[x].pc = "negate"
    /\ IF IsLive(n)
       THEN /\ node' = [node EXCEPT ![n].freq = -@]
            /\ entryCount' = entryCount - 1 /\ ghostCount' = ghostCount + 1
       ELSE UNCHANGED <<node, entryCount, ghostCount>>
    /\ gone' = IF \E y \in Threads : Busy(y) /\ Key(y) = Key(x) /\ Op(y) \in {"put", "putback", "cas"}
               THEN gone ELSE gone \union {Key(x)}
    /\ Ends(x)
    /\ UNCHANGED <<head, order, hand, bytes, mu, ver, put, sweep>>

----------------------------------------------------------------------------
(* Put under the lock.                                                     *)

(* Lock, and search the chain again, ghosts included.                      *)
Recheck(x) ==
    LET same == {n \in Range(Chain(SlotOf[Key(x)])) : node[n].key = Key(x)} IN
    /\ t[x].pc = "lock" /\ mu = {}
    /\ mu' = {x}
    /\ Goes(x, IF same = {} THEN [t[x] EXCEPT !.pc = "room"]
               ELSE [t[x] EXCEPT !.node = Fresh(same),
                                 !.pc = IF IsLive(Fresh(same)) THEN "late" ELSE "promote"])
    /\ UNCHANGED <<shared, done, history, sweep>>

(* A ghost: the value first ...                                            *)
PromoteValue(x) ==
    LET n == t[x].node IN
    /\ t[x].pc = "promote"
    /\ node' = [node EXCEPT ![n].val = t[x].val]
    /\ bytes' = IF Sized THEN bytes + t[x].val ELSE bytes
    /\ Goes(x, [t[x] EXCEPT !.pc = "promoted"])
    /\ UNCHANGED <<head, order, hand, entryCount, ghostCount, mu, done, history, sweep>>

(* ... then the remembered frequency and one, and the counters.            *)
PromoteFreq(x) ==
    LET n == t[x].node IN
    /\ t[x].pc = "promoted"
    /\ node' = [node EXCEPT ![n].freq = Least(-@ + 1, MaxFrequency)]
    /\ order' = Last1(order, n)
    /\ entryCount' = entryCount + 1 /\ ghostCount' = ghostCount - 1
    /\ mu' = {} /\ put' = [put EXCEPT ![Key(x)] = t[x].val] /\ Ends(x)
    /\ UNCHANGED <<head, hand, bytes, ver, gone, sweep>>

(* A live record after all: value and access time.                         *)
UpdateLate(x) ==
    LET n == t[x].node IN
    /\ t[x].pc = "late"
    /\ node' = [node EXCEPT ![n].val = t[x].val]
    /\ bytes' = IF Sized THEN bytes + t[x].val - node[n].val ELSE bytes
    /\ order' = Last1(order, n)
    /\ mu' = {} /\ put' = [put EXCEPT ![Key(x)] = t[x].val] /\ Ends(x)
    /\ UNCHANGED <<head, hand, entryCount, ghostCount, ver, gone, sweep>>

(* Insert at the head when there is room.  (The record's access time is    *)
(* taken before the lock; nothing told apart here depends on it.)          *)
InsertHead(x) ==
    /\ t[x].pc = "room" /\ entryCount < Capacity
    /\ LET n == Fresh(Free)  s == SlotOf[Key(x)] IN
       /\ node' = [node EXCEPT ![n] = [key |-> Key(x), val |-> t[x].val, freq |-> 1, next |-> head[s]]]
       /\ head' = [head EXCEPT ![s] = n]
       /\ order' = Append(order, n)
    /\ entryCount' = entryCount + 1
    /\ bytes' = IF Sized THEN bytes + t[x].val ELSE bytes
    /\ mu' = {} /\ put' = [put EXCEPT ![Key(x)] = t[x].val] /\ Ends(x)
    /\ UNCHANGED <<hand, ghostCount, ver, gone, sweep>>

----------------------------------------------------------------------------
(* evictFromShard.                                                         *)

SlotAt(i) == (i % Cardinality(Slots)) + 1
HandNow == hand + (MaxScan + 1) \div 2
Candidates(i, n) ==
    {m \in UNION {Range(Chain(SlotAt(j))) : j \in i .. i + n - 1} : IsLive(m) /\ node[m].key \notin Pinned}

(* How many slots the scan covers: the window, or on to the first slot     *)
(* with a candidate.                                                       *)
Scanned ==
    LET enough == {n \in MaxScan .. Cardinality(Slots) : Candidates(HandNow, n) # {}}
    IN  IF enough = {} THEN Cardinality(Slots) ELSE Fresh(enough)

Oldest(S) == SelectSeq(order, LAMBDA n : n \in S)[1]

(* The scan: the oldest unprotected record, else the oldest of all; also   *)
(* the oldest ghost.  Put gives up when there is no candidate.             *)
EvictScan(x) ==
    LET candidates == Candidates(HandNow, Scanned)
        low == {n \in candidates : K = 0 \/ node[n].freq <= K}
        ghosts == {n \in UNION {Range(Chain(SlotAt(j))) : j \in HandNow .. HandNow + Scanned - 1} : ~IsLive(n)}
    IN  /\ t[x].pc = "room" /\ entryCount >= Capacity
        /\ hand' = HandNow % Cardinality(Slots)
        /\ IF candidates = {}
           THEN mu' = {} /\ Ends(x)
           ELSE /\ Goes(x, [t[x] EXCEPT !.pc = "claim",
                               !.node = Oldest(IF low # {} THEN low ELSE candidates),
                               !.f = IF low = {} THEN 0 ELSE IF ghosts = {} THEN -1 ELSE Oldest(ghosts)])
                /\ UNCHANGED <<mu, done>>
        /\ UNCHANGED <<node, head, order, entryCount, ghostCount, bytes, history, sweep>>

(* Mutant: an unlinked record no longer leads to the rest of its chain. *)
UnlinkedCut(nd, hd, n) ==
    LET s == SlotOf[nd[n].key]
        before == {m \in Nodes : nd[m].next = n /\ m \in Linked}
    IN  [node |-> [m \in Nodes |-> IF m \in before THEN [nd[m] EXCEPT !.next = nd[n].next]
                                   ELSE IF m = n THEN [nd[m] EXCEPT !.next = Nil] ELSE nd[m]],
         head |-> IF hd[s] = n THEN [hd EXCEPT ![s] = nd[n].next] ELSE hd]

(* Unlinking leaves the record's own next pointer to walks that stand on   *)
(* it.                                                                     *)
Unlinked(nd, hd, n) ==
    LET s == SlotOf[nd[n].key]
        before == {m \in Nodes : nd[m].next = n /\ m \in Linked}
    IN  [node |-> [m \in Nodes |-> IF m \in before THEN [nd[m] EXCEPT !.next = nd[n].next] ELSE nd[m]],
         head |-> IF hd[s] = n THEN [hd EXCEPT ![s] = nd[n].next] ELSE hd]

(* The victim: an unprotected one becomes a ghost when there is room, made *)
(* by dropping the oldest ghost if needed; otherwise it is unlinked.  The  *)
(* frequency is negated whatever its sign is by now.                       *)
EvictClaim(x) ==
    LET n == t[x].node
        unprotected == t[x].f # 0
        room == ~Sized /\ unprotected /\ GhostCapacity > 0 /\ ghostCount < GhostCapacity
        swaps == unprotected /\ GhostCapacity > 0 /\ ~room /\ t[x].f > 0
        cut == IF swaps THEN Unlinked(node, head, t[x].f) ELSE [node |-> node, head |-> head]
        ghosts == ghostCount - (IF swaps THEN 1 ELSE 0)
        out == Unlinked(node, head, n)
    IN  /\ t[x].pc = "claim"
        /\ bytes' = IF Sized THEN bytes - node[n].val ELSE bytes
        /\ entryCount' = entryCount - 1
        /\ IF room \/ swaps
           THEN /\ node' = [cut.node EXCEPT ![n].freq = -@] /\ head' = cut.head
                /\ ghostCount' = ghosts + 1
                /\ order' = IF swaps THEN SelectSeq(order, LAMBDA m : m # t[x].f) ELSE order
           ELSE /\ node' = out.node /\ head' = out.head
                /\ order' = SelectSeq(order, LAMBDA m : m # n)
                /\ UNCHANGED ghostCount
        /\ Goes(x, [t[x] EXCEPT !.pc = "room", !.node = Nil, !.f = 0])
        /\ UNCHANGED <<hand, mu, done, history, sweep>>

----------------------------------------------------------------------------
(* The ghost sweeper: how many to cull is read before the lock; it takes   *)
(* all of them under memory pressure, the excess otherwise.                *)
SweepStart(pressure) ==
    LET target == IF pressure THEN ghostCount ELSE ghostCount - GhostCapacity IN
    /\ sweep.slot = 0 /\ sweep.left > 0 /\ target > 0
    /\ sweep' = [target |-> target, slot |-> 1, left |-> sweep.left - 1]
    /\ UNCHANGED <<shared, mu, t, done, history>>

(* One batch under the lock, here one slot.                                *)
SweepSlot ==
    LET ghosts == SelectSeq(Chain(sweep.slot), LAMBDA n : ~IsLive(n))
        culled == SubSeq(ghosts, 1, Least(sweep.target, Len(ghosts)))
        left == sweep.target - Len(culled)
        cut == FoldLeft(LAMBDA s, n : Unlinked(s.node, s.head, n), [node |-> node, head |-> head], culled)
    IN  /\ sweep.slot > 0 /\ mu = {}
        /\ node' = cut.node /\ head' = cut.head
        /\ order' = SelectSeq(order, LAMBDA n : n \notin Range(culled))
        /\ ghostCount' = ghostCount - Len(culled)
        /\ sweep' = IF left = 0 \/ sweep.slot = Cardinality(Slots)
                    THEN [sweep EXCEPT !.target = 0, !.slot = 0]
                    ELSE [sweep EXCEPT !.target = left, !.slot = @ + 1]
        /\ UNCHANGED <<hand, entryCount, bytes, mu, t, done, history>>

----------------------------------------------------------------------------
Step(x) ==
    \/ Start(x) \/ Visit(x) \/ Missed(x) \/ GetHit(x) \/ Got(x)
    \/ Account(x) \/ StoreValue(x) \/ Swap(x) \/ EvictBytes(x) \/ EvictNegate(x)
    \/ Recheck(x) \/ PromoteValue(x) \/ PromoteFreq(x) \/ UpdateLate(x) \/ InsertHead(x)
    \/ EvictScan(x) \/ EvictClaim(x)

(* History: which walks have had a live record to find since they began.   *)
StillLive ==
    steady' = {x \in Threads : t'[x].pc = "walk" /\ (x \in steady \/ ~Busy(x)) /\ Key(x) \in LiveKeys'}

Next ==
    \/ \E x \in Threads : Step(x) /\ StillLive
    \/ \E pressure \in BOOLEAN : SweepStart(pressure) /\ StillLive
    \/ SweepSlot /\ StillLive

Spec == Init /\ [][Next]_vars

----------------------------------------------------------------------------
Quiet == mu = {} /\ \A x \in Threads : ~Busy(x)
LiveNodes == {n \in Linked : IsLive(n)}
GhostNodes == Linked \ LiveNodes

(* Records are well formed, the access order names the linked ones, and    *)
(* the mutex has one holder.                                               *)
TypeOK ==
    /\ \A n \in Linked : node[n].freq \in (-MaxFrequency .. MaxFrequency) \ {0}
    /\ Range(order) = Linked /\ Len(order) = Cardinality(Linked)
    /\ Cardinality(mu) <= 1 /\ hand \in 0 .. Cardinality(Slots) - 1

(* A key has at most one record, live or ghost, however its first Puts     *)
(* race: the chain is searched again under the lock (Put).                 *)
UniqueKey == \A m, n \in Linked : node[m].key = node[n].key => m = n

(* A walk without a lock does not miss a key that is live from its start   *)
(* to its end, although records it stands on are unlinked under it (Get).  *)
GetFindsLive == \A x \in Threads : t[x].pc = "walk" /\ t[x].node = Nil => x \notin steady

(* With one writer of a key, Get never returns a value older than the last *)
(* Put that was over when it began, across eviction and promotion.         *)
NoStaleRead == \A x \in Threads : t[x].pc = "got" => t[x].val >= t[x].floor

(* Without explicit Evicts, live and ghost counts are exact whenever the   *)
(* mutex is free, whatever lookups and updates are under way; eviction and *)
(* the sweeper are steered by them.                                        *)
CountsExact ==
    mu = {} => entryCount = Cardinality(LiveNodes) /\ ghostCount = Cardinality(GhostNodes)
=============================================================================
