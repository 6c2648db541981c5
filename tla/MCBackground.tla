--------------------------- MODULE MCBackground ---------------------------
(***************************************************************************)
(* What runs by itself and must get somewhere: the horizon's timers and    *)
(* readers, the reclaiming of vertices, the eviction sweep and the         *)
(* adjustment of the cache's capacity.  They share no state here; part     *)
(* says which instance moves, and the others rest.                         *)
(***************************************************************************)
EXTENDS Integers, Sequences, TLC

CONSTANTS None, NoGroup, NoTimer, Gov, a, g1, g2, k1, k2, l1, o1, o2, p, pin, r1, rd, t1, x1, x2

VARIABLES
    part,
    groups, members, bases, timer, groupOf, timerGroup, phase, waiters, blocked, pc, decision,
    deliveries, toSchedule, toIndex, pendingTx, indexed, cleared,
    map, refs, creation, mu, lock, durable, queue, pending, left, bytes, call, pinned, owed,
    leaf, order, chunkGone, hand, clock,
    perShard, entries, app

horizonVars == <<groups, members, bases, timer, groupOf, timerGroup, phase, waiters, blocked, pc, decision,
    deliveries, toSchedule, toIndex, pendingTx, indexed, cleared>>
poolVars == <<map, refs, creation, mu, lock, durable, queue, pending, left, bytes, call, pinned, owed>>
sweepVars == <<leaf, order, chunkGone, hand, clock>>
memoryVars == <<perShard, entries, app>>
vars == <<part, horizonVars, poolVars, sweepVars, memoryVars>>

(* A local transaction and a remote one that compete for a tip.            *)
Held == INSTANCE Horizon WITH Local <- {l1}, Remote <- {r1}, Tip <- {p}, Base <- l1 :> {p} @@ r1 :> {p},
    AbortDeps <- r1 :> {l1}, Defeated <- r1 :> {l1}, Group <- {g1, g2}, Timer <- {x1, x2}, Reader <- {rd},
    MaxDeliveries <- 2

(* A caller and the governor, on an effect that two keys own.              *)
Reclaim == INSTANCE VertexPool WITH Tips <- {a}, SystemTips <- {}, Keys <- {k1, k2}, KeysOf <- a :> {k1, k2},
    Pins <- {pin}, Objs <- {o1, o2}, Threads <- {t1}, Mirrored <- FALSE, MaxQueue <- 3

(* Four leaves in two chunks, and a window smaller than the arena.         *)
Sweep == INSTANCE EvictSweep WITH Slots <- 4, ChunkSize <- 2, MinSweep <- 2, SweepSegments <- 2, Want <- 1,
    K <- 1, MaxLeafFreq <- 2, GhostFloor <- 1, GhostShare <- 2, DecayInterval <- 1, Pinnable <- {0}, Watched <- {1}

NumShards == 2
Target == 40
ItemSize == 2
AppSizes == {0, 5, 21}

(* The target of the whole process; the limit of the cache.                *)
Process == INSTANCE MemoryTarget WITH MaxPerShard <- 12, WholeProcess <- TRUE
Cache == INSTANCE MemoryTarget WITH MaxPerShard <- 20, WholeProcess <- FALSE

Init ==
    /\ part \in {"horizon", "reclaim", "sweep", "process", "cache"}
    /\ Held!Init /\ Reclaim!Init /\ Sweep!Init
    /\ CASE part = "process" -> Process!Init
         [] part = "cache" -> Cache!Init
         [] OTHER -> perShard = 1 /\ entries = 0 /\ app = 0

Held1(step) == part = "horizon" /\ step /\ UNCHANGED <<part, poolVars, sweepVars, memoryVars>>
Reclaim1(step) == part = "reclaim" /\ step /\ UNCHANGED <<part, horizonVars, sweepVars, memoryVars>>
Sweep1(step) == part = "sweep" /\ step /\ UNCHANGED <<part, horizonVars, poolVars, memoryVars>>
Process1(step) == part = "process" /\ step /\ UNCHANGED <<part, horizonVars, poolVars, sweepVars>>
Cache1(step) == part = "cache" /\ step /\ UNCHANGED <<part, horizonVars, poolVars, sweepVars>>

Next ==
    \/ Held1(Held!Next) \/ Reclaim1(Reclaim!Next) \/ Sweep1(Sweep!Next)
    \/ Process1(Process!Next) \/ Cache1(Cache!Next)

(* The fairness of the modules.  A behaviour is of one part, so weak       *)
(* fairness of a step of each part is weak fairness of their disjunction.  *)
Fairness ==
    /\ WF_vars(Held1(Held!LocalStep(l1)) \/ Reclaim1(Reclaim!Continue(t1))
               \/ Process1(Process!Fill) \/ Cache1(Cache!Fill))
    /\ WF_vars(Held1(Held!RemoteBindSchedule(r1)) \/ Reclaim1(Reclaim!Continue(Gov))
               \/ Process1(Process!AdjustForTarget) \/ Cache1(Cache!AdjustForCache))
    /\ WF_vars(Held1(Held!RemoteBindIndex(r1)) \/ Reclaim1(Reclaim!Governor))
    /\ \A x \in {x1, x2} : WF_vars(Held1(Held!TimerFires(x))) /\ WF_vars(Held1(Held!TimerCallback(x)))
    \* only EvictBatch moves the hand, and it always can
    /\ WF_hand(part = "sweep" /\ hand' \in 0..7 /\ hand' # hand)
    /\ <>[][(part \in {"process", "cache"}) => ~Process!AppMoves]_vars

Spec == Init /\ [][Next]_vars /\ Fairness

----------------------------------------------------------------------------
(* Every bind leaves the horizon, and a reader that waits for one is       *)
(* woken: the timers, aborts and verdicts of horizon.go leave nobody       *)
(* behind.                                                                 *)
HorizonClears == part = "horizon" => Held!EveryEntryResolves /\ Held!BlockedReaderWakes

(* An effect nobody refers to is reclaimed (drainReclaim).                 *)
UnreferencedIsReclaimed == part = "reclaim" => Reclaim!UnreferencedIsReclaimed

(* A leaf that is not touched does not stay (EvictBatch), ...              *)
NoSquatter ==
    <>[][part = "sweep" => ~Sweep!Touch(1) /\ \A j \in 0..3 : ~Sweep!Promote(j)]_vars
        => []<>(part = "sweep" => leaf[1].st # "live" \/ leaf[1].pins > 0)

(* ... and the sweep that evicts it makes no ghost beyond the limit and    *)
(* does not decay a leaf of the current epoch.                             *)
EvictionSound ==
    [](part = "sweep" => Sweep!TypeOK) /\ Sweep!GhostsBounded /\ Sweep!FreshKeepsFreq /\ NoSquatter

(* The capacity settles: the process does not stay over its target, nor    *)
(* the cache over its limit, and capacity grows only for a cache that used *)
(* what it had (cache/memory_target.go).                                   *)
CapacitySettles ==
    /\ [](part = "process" => Process!TypeOK)
    /\ [][part = "process" /\ perShard' > perShard => perShard' * 2 < Process!Most(entries * 4, 2) + 2]_vars
    /\ part = "process" => Process!SettlesNearTarget
    /\ part = "cache" => Cache!SettlesNearLimit
=============================================================================
