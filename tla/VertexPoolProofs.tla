-------------------------- MODULE VertexPoolProofs --------------------------
(***************************************************************************)
(* The invariants of the vertex pool, and that it implements VertexRefs,   *)
(* for every set of effects, keys, pins and threads.                       *)
(***************************************************************************)
EXTENDS VertexPoolLocks, FiniteSetTheorems

-----------------------------------------------------------------------------
(* References *)

(***************************************************************************)
(* A step of a call without the lock of its tip, that takes none.          *)
(***************************************************************************)
LEMMA OutsideStep ==
    ASSUME PInv, LInv, NEW a \in Actors, NEW f,
           call' = [call EXCEPT ![a] = f],
           call[a].pc \notin Holding, f.pc \notin Busy,
           UNCHANGED <<map, durable>>, UNCHANGED lock \/ (Unlock(a) /\ f.pc = "idle"),
           \A o \in Objs : refs'[o] = Tomb <=> refs[o] = Tomb,
           \A t \in Tips : owed'[t] \subseteq owed[t],
           Same \/ OwnedIsResident',
           f.pc = "drop" => f.keys \cap owed'[f.tip] = {}
    PROVE  LInv'
  <1>1. call'[a] = f
    BY DEF PInv, TypeOK
  <1>2. LockStep(a)
    BY <1>1 DEF LockStep
  <1>3. call[a].pc # "delete" /\ f.pc \notin {"own", "record"}
    BY DEF Holding, Busy
  <1>4. \A t \in Tips : lock[t] # a
    BY DEF LInv, Locking
  <1> QED BY <1>2, <1>3, <1>4, CallStep, ZenonT(60)

(***************************************************************************)
(* incref finds the vertex without a lock.                                 *)
(***************************************************************************)
LEMMA IncrefLoadLocks ==
    ASSUME PInv, LInv, NEW a \in Threads, NEW t \in Tips, NEW p \in Pins, increfLoad(a, t, p)
    PROVE  LInv'
  <1> DEFINE f == Frame("incref", t, map[t], {}, p)
  <1>1. /\ a \in Actors /\ call' = [call EXCEPT ![a] = f]
        /\ UNCHANGED <<map, durable>> /\ UNCHANGED lock
        /\ \A u \in Tips : owed'[u] \subseteq owed[u]
        /\ \A o \in Objs : refs'[o] = Tomb <=> refs[o] = Tomb
    BY DEF increfLoad, Actors
  <1>2. call[a].pc \notin Holding
    BY DEF increfLoad, CanStart, Idle, Frame, Holding, Busy
  <1>3. f.pc \notin Busy /\ f.pc # "drop"
    BY DEF Frame, Busy
  <1>4. Same
    BY IncrefLoadInv
  <1> HIDE DEF f
  <1> QED BY <1>1, <1>2, <1>3, <1>4, OutsideStep, ZenonT(60)

(***************************************************************************)
(* decrefChainNode finds the vertex without a lock.                        *)
(***************************************************************************)
LEMMA ChainLoadLocks ==
    ASSUME PInv, LInv, NEW a \in Threads, NEW t \in Tips, NEW k \in Keys, ChainLoad(a, t, k)
    PROVE  LInv'
  <1> DEFINE f == Frame("chain", t, map[t], {k}, None)
  <1>1. /\ a \in Actors /\ call' = [call EXCEPT ![a] = f]
        /\ UNCHANGED <<map, durable>> /\ UNCHANGED lock
        /\ \A u \in Tips : owed'[u] \subseteq owed[u]
        /\ \A o \in Objs : refs'[o] = Tomb <=> refs[o] = Tomb
    BY DEF ChainLoad, Actors
  <1>2. call[a].pc \notin Holding
    BY DEF ChainLoad, CanStart, Idle, Frame, Holding, Busy
  <1>3. f.pc \notin Busy /\ f.pc # "drop"
    BY DEF Frame, Busy
  <1>4. Same
    BY ChainLoadInv
  <1> HIDE DEF f
  <1> QED BY <1>1, <1>2, <1>3, <1>4, OutsideStep, ZenonT(60)

(***************************************************************************)
(* incref adds a holder, or gives up on a claimed vertex.                  *)
(***************************************************************************)
LEMMA IncrefSwapLocks ==
    ASSUME PInv, Counting, LInv, NEW a \in Actors, increfSwap(a)
    PROVE  LInv'
  <1>0. /\ call[a].pc = "incref" /\ call[a].obj \in Objs
        /\ refs \in [Objs -> Nat \cup {vertexTombstone}]
        /\ UNCHANGED <<map, durable, owed>> /\ Return(a)
    BY DEF PInv, FrameInv, WellFormed, TypeOK, increfSwap
  <1>1. /\ call' = [call EXCEPT ![a] = Idle] /\ Idle.pc = "idle" /\ Unlock(a)
        /\ call[a].pc \notin Holding /\ Idle.pc \notin Busy
    BY <1>0 DEF Return, Idle, Frame, Holding, Busy
  <1>2. \A o \in Objs : refs'[o] = Tomb <=> refs[o] = Tomb
    <2>1. CASE UNCHANGED refs
      BY <2>1
    <2>2. CASE refs' = [refs EXCEPT ![call[a].obj] = @ + 1] /\ ~(refs[call[a].obj] < 0)
      BY <1>0, <2>2 DEF Tomb, vertexTombstone
    <2> QED BY <2>1, <2>2 DEF increfSwap
  <1>3. Same \/ OwnedIsResident'
    <2>1. CASE \E t \in Tips, p \in Pins : t = call[a].tip /\ Held(t, p)
      <3>1. PICK t \in Tips, p \in Pins : Held(t, p)
        BY <2>1
      <3>2. Others(t) /\ Live(t)' /\ HeldBy(t) \subseteq HeldBy(t)'
        BY <3>1 DEF Held
      <3> QED BY <1>0, <3>2, OwnedStepAt DEF LInv, OwnedIsResident
    <2> QED BY <2>1, IncrefSwapInv
  <1>4. \A t \in Tips : owed'[t] \subseteq owed[t]
    BY <1>0
  <1> HIDE DEF Idle
  <1> QED BY <1>0, <1>1, <1>2, <1>3, <1>4, OutsideStep, ZenonT(60)

(***************************************************************************)
(* A decrement of a resident vertex claims none.                           *)
(***************************************************************************)
LEMMA DecrementTomb ==
    ASSUME PInv, NEW t \in Tips, Live(t), Decrement(t)
    PROVE  \A o \in Objs : refs'[o] = Tomb <=> refs[o] = Tomb
  <1>1. map[t] \in Objs /\ refs[map[t]] \in Nat /\ refs' = [refs EXCEPT ![map[t]] = @ - 1]
    BY NoneIsNothing DEF PInv, TypeOK, Live, Decrement, vertexTombstone
  <1>2. refs \in [Objs -> Nat \cup {vertexTombstone}]
    BY DEF PInv, TypeOK
  <1> QED BY <1>1, <1>2 DEF Tomb, vertexTombstone

(***************************************************************************)
(* A holder that owns nothing lets go without anything owned losing its    *)
(* vertex.                                                                 *)
(***************************************************************************)
LEMMA LetGoOwned ==
    ASSUME OwnedIsResident, UNCHANGED owed, NEW t \in Tips, NEW h, LetGo(t, h), h \notin owed[t]
    PROVE  OwnedIsResident'
  <1>1. Others(t) /\ Live(t)' /\ HeldBy(t)' = HeldBy(t) \ {h}
    BY DEF LetGo
  <1>2. owed[t] \subseteq HeldBy(t)
    BY DEF OwnedIsResident
  <1> QED BY <1>1, <1>2, OwnedStepAt

(***************************************************************************)
(* decref lets a pin go, which owns nothing.                               *)
(***************************************************************************)
LEMMA DecrefLocks ==
    ASSUME PInv, Counting, LInv, NEW a \in Threads, NEW p \in Pins, decref(a, p)
    PROVE  LInv'
  <1>1. PICK t \in Tips : t = pinned[p] /\ LetGo(t, p)
    BY DecrefInv
  <1> DEFINE f == IF ReachesZero(t) THEN Frame("enqueue", t, map[t], {}, None) ELSE Idle
  <1>2. /\ a \in Actors /\ call' = [call EXCEPT ![a] = f]
        /\ UNCHANGED <<map, durable>> /\ UNCHANGED lock /\ UNCHANGED owed /\ Decrement(t)
    BY <1>1 DEF decref, Actors
  <1>3. call[a].pc \notin Holding
    BY DEF decref, CanStart, Idle, Frame, Holding, Busy
  <1>4. f.pc \notin Busy /\ f.pc # "drop"
    BY DEF Frame, Idle, Busy
  <1>5. \A o \in Objs : refs'[o] = Tomb <=> refs[o] = Tomb
    BY <1>1, <1>2, DecrementTomb DEF LetGo
  <1>6. OwnedIsResident'
    <2>1. p \notin owed[t]
      BY FiniteHolders DEF PInv, TypeOK
    <2> QED BY <1>1, <1>2, <2>1, LetGoOwned DEF LInv
  <1>7. \A u \in Tips : owed'[u] \subseteq owed[u]
    BY <1>2
  <1> HIDE DEF f
  <1> QED BY <1>2, <1>3, <1>4, <1>5, <1>6, <1>7, OutsideStep, ZenonT(60)

(***************************************************************************)
(* decrefChainNode removes the key from the owners with the creation key,  *)
(* and drops its reference.                                                *)
(***************************************************************************)
LEMMA ChainRemoveLocks ==
    ASSUME PInv, Counting, LInv, NEW a \in Actors, ChainRemove(a)
    PROVE  LInv'
  <1>0. /\ call[a].pc = "chain" /\ call[a] \in Frames /\ call[a].tip \in Tips
        /\ owed \in [Tips -> SUBSET Keys] /\ call \in [Actors -> Frames]
        /\ UNCHANGED <<map, durable>> /\ UNCHANGED refs
        /\ owed' = [owed EXCEPT ![call[a].tip] = @ \ call[a].keys]
    BY DEF PInv, FrameInv, WellFormed, TypeOK, ChainRemove
  <1>1. call[a].pc \notin Holding
    BY <1>0 DEF Holding, Busy
  <1>2. /\ owed'[call[a].tip] = owed[call[a].tip] \ call[a].keys
        /\ \A u \in Tips : owed'[u] \subseteq owed[u]
    BY <1>0
  <1>3. Same
    BY ChainRemoveInv
  <1>4. \A o \in Objs : refs'[o] = Tomb <=> refs[o] = Tomb
    BY <1>0
  <1> DEFINE f == [call[a] EXCEPT !.pc = "drop"]
  <1>5. CASE Goto(a, "drop") /\ UNCHANGED lock
    <2>1. call' = [call EXCEPT ![a] = f]
      BY <1>0, <1>5 DEF Goto
    <2>2. f.pc \notin Busy /\ f.keys \cap owed'[f.tip] = {}
      BY <1>0, <1>2 DEF Frames, Busy
    <2> HIDE DEF f
    <2> QED BY <1>0, <1>1, <1>2, <1>3, <1>4, <1>5, <2>1, <2>2, OutsideStep, ZenonT(60)
  <1>6. CASE Return(a)
    <2>1. call' = [call EXCEPT ![a] = Idle] /\ Idle.pc = "idle" /\ Unlock(a) /\ Idle.pc \notin Busy
      BY <1>6 DEF Return, Idle, Frame, Busy
    <2> HIDE DEF Idle
    <2> QED BY <1>0, <1>1, <1>2, <1>3, <1>4, <2>1, OutsideStep, ZenonT(60)
  <1> QED BY <1>5, <1>6, ZenonT(60) DEF ChainRemove

(***************************************************************************)
(* decrefChainNode lets go of a reference whose owner has been removed,    *)
(* and so owns nothing.                                                    *)
(***************************************************************************)
LEMMA ChainDecrefLocks ==
    ASSUME PInv, Counting, LInv, NEW a \in Actors, ChainDecref(a)
    PROVE  LInv'
  <1>1. PICK t \in Tips, k \in Keys : t = call[a].tip /\ call[a].keys = {k} /\ LetGo(t, k)
    BY ChainDecrefInv
  <1>0. /\ call[a].pc = "drop" /\ call[a] \in Frames /\ call \in [Actors -> Frames]
        /\ UNCHANGED <<map, durable>> /\ UNCHANGED owed /\ Decrement(t)
    BY <1>1 DEF PInv, FrameInv, WellFormed, TypeOK, ChainDecref
  <1>2. call[a].pc \notin Holding
    BY <1>0 DEF Holding, Busy
  <1>3. \A o \in Objs : refs'[o] = Tomb <=> refs[o] = Tomb
    BY <1>0, <1>1, DecrementTomb DEF LetGo
  <1>4. OwnedIsResident'
    <2>1. k \notin owed[t]
      BY <1>0, <1>1 DEF LInv, DroppedOwnsNothing
    <2> QED BY <1>0, <1>1, <2>1, LetGoOwned DEF LInv
  <1>5. \A u \in Tips : owed'[u] \subseteq owed[u]
    BY <1>0
  <1> DEFINE f == [call[a] EXCEPT !.pc = "enqueue", !.keys = {}]
  <1>6. CASE call' = [call EXCEPT ![a].pc = "enqueue", ![a].keys = {}] /\ UNCHANGED lock
    <2>1. call' = [call EXCEPT ![a] = f]
      BY <1>6
    <2>2. f.pc \notin Busy /\ f.pc # "drop"
      BY <1>0 DEF Frames, Busy
    <2> HIDE DEF f
    <2> QED BY <1>0, <1>2, <1>3, <1>4, <1>5, <1>6, <2>1, <2>2, OutsideStep, ZenonT(60)
  <1>7. CASE Return(a)
    <2>1. /\ call' = [call EXCEPT ![a] = Idle] /\ Idle.pc = "idle" /\ Unlock(a)
          /\ Idle.pc \notin Busy /\ Idle.pc # "drop"
      BY <1>7 DEF Return, Idle, Frame, Busy
    <2> HIDE DEF Idle
    <2> QED BY <1>0, <1>2, <1>3, <1>4, <1>5, <2>1, OutsideStep, ZenonT(60)
  <1> QED BY <1>6, <1>7, ZenonT(60) DEF ChainDecref

-----------------------------------------------------------------------------
(* Reclaim *)

(***************************************************************************)
(* A candidate is put in the reclaim queue, by a put with the lock of its  *)
(* tip or by a call without one.                                           *)
(***************************************************************************)
LEMMA EnqueueLocks ==
    ASSUME PInv, LInv, NEW a \in Actors, Enqueue(a)
    PROVE  LInv'
  <1> DEFINE f == [call[a] EXCEPT !.pc = "count"]
  <1>0. /\ call[a].pc = "enqueue" /\ call[a] \in Frames /\ call \in [Actors -> Frames]
        /\ UNCHANGED <<map, durable>> /\ UNCHANGED <<refs, owed>> /\ UNCHANGED lock
        /\ call' = [call EXCEPT ![a] = f]
    BY DEF PInv, FrameInv, WellFormed, TypeOK, Enqueue, Goto
  <1>1. f.pc = "count" /\ f.tip = call[a].tip /\ call'[a] = f
    BY <1>0 DEF Frames
  <1>2. LockStep(a)
    BY <1>0, <1>1 DEF LockStep, Holding, Busy
  <1>3. Same
    BY EnqueueInv
  <1>4. \A t \in Tips : lock[t] = a => map[t] # None
    BY <1>0 DEF LInv, Locking
  <1>5. /\ \A u \in Tips : owed'[u] \subseteq owed[u]
        /\ \A o \in Objs : refs'[o] = Tomb <=> refs[o] = Tomb
        /\ call[a].pc # "delete" /\ f.pc \notin {"own", "record", "drop"}
    BY <1>0, <1>1
  <1> HIDE DEF f
  <1> QED BY <1>0, <1>2, <1>3, <1>4, <1>5, CallStep, ZenonT(60)

(***************************************************************************)
(* The candidate is counted and the call returns, with the lock released   *)
(* when it had one.                                                        *)
(***************************************************************************)
LEMMA CountPendingLocks ==
    ASSUME PInv, LInv, NEW a \in Actors, CountPending(a)
    PROVE  LInv'
  <1>0. /\ call[a].pc = "count" /\ call \in [Actors -> Frames]
        /\ UNCHANGED <<map, durable>> /\ UNCHANGED <<refs, owed>> /\ Return(a)
    BY DEF PInv, TypeOK, CountPending
  <1>1. call' = [call EXCEPT ![a] = Idle] /\ Idle.pc = "idle" /\ Unlock(a)
    BY <1>0 DEF Return, Idle, Frame
  <1>2. LockStep(a)
    BY <1>0, <1>1 DEF LockStep
  <1>3. Same
    BY CountPendingInv
  <1>4. \A t \in Tips : lock[t] = a => map[t] # None
    BY <1>0 DEF LInv, Locking
  <1>5. /\ \A u \in Tips : owed'[u] \subseteq owed[u]
        /\ \A o \in Objs : refs'[o] = Tomb <=> refs[o] = Tomb
        /\ call[a].pc # "delete"
    BY <1>0
  <1> HIDE DEF Idle
  <1> QED BY <1>0, <1>1, <1>2, <1>3, <1>4, <1>5, CallStep, ZenonT(60)

(***************************************************************************)
(* The governor's swap of the counter and a reset of the mirror touch no   *)
(* vertex; a reset only loses records.                                     *)
(***************************************************************************)
LEMMA DrainLocks ==
    ASSUME PInv, LInv, DrainSwap \/ MirrorReset \/ UNCHANGED vars
    PROVE  LInv'
  <1>1. /\ UNCHANGED <<map, refs, creation, pinned, mu, call>> /\ UNCHANGED <<lock, owed>>
        /\ durable' \subseteq durable
    BY DEF DrainSwap, MirrorReset, vars
  <1>2. Same
    BY <1>1, Untouched
  <1>3. OwnedIsResident'
    BY <1>1, <1>2, OwnedStep DEF LInv
  <1>4. RecordIsResident'
    BY <1>1 DEF LInv, RecordIsResident
  <1> QED BY <1>1, <1>3, <1>4 DEF LInv, Locking, Unclaimed, DroppedOwnsNothing

(***************************************************************************)
(* The governor takes a candidate from the queue and finds its vertex,     *)
(* without a lock.                                                         *)
(***************************************************************************)
LEMMA DrainDequeueLocks ==
    ASSUME PInv, LInv, DrainDequeue
    PROVE  LInv'
  <1> DEFINE t == Head(queue)
             f == IF map[t] = None \/ t \in SystemTips THEN Idle
                  ELSE Frame("claim", t, map[t], {}, None)
  <1>1. /\ Gov \in Actors /\ call' = [call EXCEPT ![Gov] = f]
        /\ UNCHANGED <<map, durable>> /\ UNCHANGED lock
        /\ \A u \in Tips : owed'[u] \subseteq owed[u]
        /\ \A o \in Objs : refs'[o] = Tomb <=> refs[o] = Tomb
    BY DEF DrainDequeue, Actors
  <1>2. call[Gov].pc \notin Holding
    BY DEF DrainDequeue, Idle, Frame, Holding, Busy
  <1>3. f.pc \notin Busy /\ f.pc # "drop"
    BY DEF Frame, Idle, Busy
  <1>4. Same
    BY DrainDequeueInv
  <1> HIDE DEF f
  <1> QED BY <1>1, <1>2, <1>3, <1>4, OutsideStep, ZenonT(60)

(***************************************************************************)
(* A claimed vertex had no holder, so nobody owns it; no put is between    *)
(* finding it and returning, for it would have the lock.                   *)
(***************************************************************************)
LEMMA ClaimLocks ==
    ASSUME Mirrored, PInv, Counting, LInv, Claim
    PROVE  LInv'
  <1>0. /\ call[Gov].pc = "claim" /\ call[Gov] \in Frames /\ Gov \in Actors
        /\ call[Gov].tip \in Tips /\ call[Gov].obj \in Objs /\ lock[call[Gov].tip] = None
        /\ map[call[Gov].tip] = call[Gov].obj
        /\ UNCHANGED <<map, durable>> /\ UNCHANGED owed /\ call \in [Actors -> Frames]
        /\ refs \in [Objs -> Nat \cup {vertexTombstone}] /\ owed \in [Tips -> SUBSET Keys]
    BY DEF PInv, FrameInv, WellFormed, TypeOK, TombInv, Claim, Actors
  <1>1. call[Gov].pc \notin Holding
    BY <1>0 DEF Holding, Busy
  <1>2. CASE Return(Gov) /\ UNCHANGED refs
    <2>1. /\ call' = [call EXCEPT ![Gov] = Idle] /\ Idle.pc = "idle" /\ Unlock(Gov)
          /\ Idle.pc \notin Busy /\ Idle.pc # "drop"
      BY <1>2 DEF Return, Idle, Frame, Busy
    <2>2. Same \/ OwnedIsResident'
      <3>1. CASE \E t \in Tips : t = call[Gov].tip /\ Reclaimed(t)
        <4>1. PICK t \in Tips : t = call[Gov].tip /\ Reclaimed(t)
          BY <3>1
        <4>2. Live(t)' <=> Live(t)
          BY <1>0, <1>2 DEF Live
        <4> QED BY <4>1, <4>2 DEF Reclaimed
      <3> QED BY <3>1, ClaimInv
    <2>3. /\ \A u \in Tips : owed'[u] \subseteq owed[u]
          /\ \A o \in Objs : refs'[o] = Tomb <=> refs[o] = Tomb
      BY <1>0, <1>2
    <2> HIDE DEF Idle
    <2> QED BY <1>0, <1>1, <2>1, <2>2, <2>3, OutsideStep, ZenonT(60)
  <1>3. CASE /\ refs[call[Gov].obj] = 0
             /\ refs' = [refs EXCEPT ![call[Gov].obj] = vertexTombstone]
             /\ lock' = [lock EXCEPT ![call[Gov].tip] = Gov]
             /\ Goto(Gov, "delete")
    <2>1. PICK t \in Tips, o \in Objs : t = call[Gov].tip /\ o = call[Gov].obj
      BY <1>0
    <2>2. /\ call'[Gov].pc = "delete" /\ call'[Gov].tip = t
          /\ \A b \in Actors : b # Gov => call'[b] = call[b]
      BY <1>0, <1>3, <2>1 DEF Goto, Frames
    <2>3. LockStep(Gov)
      <3>1. lock[t] = None /\ lock' = [lock EXCEPT ![t] = Gov]
        BY <1>0, <1>3, <2>1
      <3>2. call'[Gov].pc \in Busy
        BY <2>2 DEF Busy
      <3> QED BY <1>1, <2>2, <3>1, <3>2, ZenonT(60) DEF LockStep
    <2>4. \A u \in Tips : lock[u] # Gov
      BY <1>0, <1>1 DEF LInv, Locking
    <2>5. Locking'
      BY <1>0, <2>2, <2>3, <2>4, LockingStep DEF LInv
    <2>6. RecordIsResident'
      BY <1>0, <2>3, <2>4, RecordStep DEF LInv
    <2>7. refs'[o] = Tomb /\ \A q \in Objs : q # o => refs'[q] = refs[q]
      BY <1>0, <1>3, <2>1 DEF Tomb
    <2>8. Unclaimed'
      <3>1. ASSUME NEW b \in Actors, call'[b].pc \in {"own", "record"}
            PROVE  map'[call'[b].tip] = call'[b].obj /\ refs'[call'[b].obj] # Tomb
        <4>1. /\ b # Gov /\ call'[b] = call[b] /\ b # None
              /\ call[b].tip \in Tips /\ call[b].obj \in Objs
          BY <2>2, <3>1, NoneIsNothing DEF PInv, FrameInv, WellFormed, Actors
        <4>2. lock[call[b].tip] = b /\ map[call[b].tip] = call[b].obj /\ refs[call[b].obj] # Tomb
          BY <3>1, <4>1 DEF LInv, Locking, Unclaimed, Busy
        <4>3. call[b].tip # t
          BY <1>0, <2>1, <4>1, <4>2
        <4>4. call[b].obj # o
          BY <1>0, <2>1, <4>1, <4>2, <4>3, NoneIsNothing DEF PInv, MapInv
        <4> QED BY <1>0, <2>7, <4>1, <4>2, <4>4
      <3>2. ASSUME NEW u \in Tips, map'[u] # None, refs'[map'[u]] = Tomb
            PROVE  call'[Gov].pc = "delete" /\ call'[Gov].tip = u
        <4>1. map[u] \in Objs
          BY <1>0, <3>2 DEF PInv, TypeOK
        <4>2. CASE map[u] = o
          BY <1>0, <2>1, <2>2, <4>2, NoneIsNothing DEF PInv, MapInv
        <4>3. CASE map[u] # o
          BY <1>0, <2>7, <3>2, <4>1, <4>3 DEF LInv, Unclaimed
        <4> QED BY <4>2, <4>3
      <3> QED BY <3>1, <3>2 DEF Unclaimed
    <2>9. DroppedOwnsNothing'
      BY <1>0, <2>2 DEF LInv, DroppedOwnsNothing
    <2>10. OwnedIsResident'
      <3>1. ~Live(t)'
        BY <1>0, <2>1, <2>7, NoneIsNothing DEF Live, Tomb, vertexTombstone
      <3>2. Live(t)
        BY <1>0, <1>3, <2>1, NoneIsNothing DEF Live
      <3>3. CASE Same
        BY <3>1, <3>2, <3>3 DEF Same
      <3>4. CASE \E u \in Tips : u = call[Gov].tip /\ Reclaimed(u)
        <4>1. Others(t) /\ HeldBy(t) = {}
          BY <2>1, <3>4 DEF Reclaimed
        <4>2. owed'[t] = {}
          BY <1>0, <4>1 DEF LInv, OwnedIsResident
        <4> QED BY <1>0, <4>1, <4>2, OwnedStepAt DEF LInv
      <3> QED BY <3>3, <3>4, ClaimInv
    <2> QED BY <2>5, <2>6, <2>8, <2>9, <2>10 DEF LInv
  <1> QED BY <1>2, <1>3, ZenonT(60) DEF Claim

(***************************************************************************)
(* The claim is undone when the mirror cannot remove the record.           *)
(***************************************************************************)
LEMMA DeleteFailsLocks ==
    ASSUME PInv, Counting, LInv, DeleteFails
    PROVE  LInv'
  <1>1. PICK t \in Tips : t = call[Gov].tip /\ map[t] # None /\ Stored(t, {})
    BY DeleteFailsInv
  <1>0. /\ call[Gov].pc = "delete" /\ call[Gov] \in Frames /\ Gov \in Actors
        /\ map[t] \in Objs /\ call \in [Actors -> Frames]
        /\ UNCHANGED <<map, durable>> /\ UNCHANGED owed /\ UNCHANGED lock
        /\ refs \in [Objs -> Nat \cup {vertexTombstone}]
        /\ refs' = [refs EXCEPT ![map[t]] = 0] /\ Goto(Gov, "enqueue")
    BY <1>1 DEF PInv, TypeOK, DeleteFails, Actors
  <1>2. /\ call'[Gov].pc = "enqueue" /\ call'[Gov].tip = call[Gov].tip
        /\ \A b \in Actors : b # Gov => call'[b] = call[b]
    BY <1>0 DEF Goto, Frames
  <1>3. LockStep(Gov)
    BY <1>0, <1>2 DEF LockStep, Holding, Busy
  <1>4. \A u \in Tips : lock[u] = Gov => map[u] # None
    BY <1>0, <1>1 DEF LInv, Locking
  <1>5. Locking'
    BY <1>0, <1>2, <1>3, <1>4, LockingStep DEF LInv
  <1>6. RecordIsResident'
    BY <1>0, <1>2, <1>3, <1>4, RecordStep DEF LInv
  <1>7. refs'[map[t]] # Tomb /\ \A q \in Objs : q # map[t] => refs'[q] = refs[q]
    BY <1>0 DEF Tomb, vertexTombstone
  <1>8. Unclaimed'
    <2>1. ASSUME NEW b \in Actors, call'[b].pc \in {"own", "record"}
          PROVE  map'[call'[b].tip] = call'[b].obj /\ refs'[call'[b].obj] # Tomb
      <3>1. b # Gov /\ call'[b] = call[b] /\ call[b].obj \in Objs
        BY <1>2, <2>1 DEF PInv, FrameInv, WellFormed
      <3>2. map[call[b].tip] = call[b].obj /\ refs[call[b].obj] # Tomb
        BY <2>1, <3>1 DEF LInv, Unclaimed
      <3> QED BY <1>0, <1>7, <3>1, <3>2
    <2>2. ASSUME NEW u \in Tips, map'[u] # None, refs'[map'[u]] = Tomb
          PROVE  FALSE
      <3>1. map[u] \in Objs /\ map[u] # map[t] /\ refs[map[u]] = Tomb
        BY <1>0, <1>7, <2>2 DEF PInv, TypeOK
      <3>2. u = t
        BY <1>0, <1>1, <2>2, <3>1 DEF LInv, Unclaimed
      <3> QED BY <3>1, <3>2
    <2> QED BY <2>1, <2>2 DEF Unclaimed
  <1>9. DroppedOwnsNothing'
    BY <1>0, <1>2 DEF LInv, DroppedOwnsNothing
  <1>10. OwnedIsResident'
    <2>1. Others(t) /\ Live(t)' /\ HeldBy(t)' = HeldBy(t)
      BY <1>1 DEF Stored
    <2>2. owed[t] \subseteq HeldBy(t)
      BY DEF LInv, OwnedIsResident
    <2> QED BY <1>0, <2>1, <2>2, OwnedStepAt DEF LInv
  <1> QED BY <1>5, <1>6, <1>8, <1>9, <1>10 DEF LInv

(***************************************************************************)
(* The record goes with the vertex, before the lock is released.           *)
(***************************************************************************)
LEMMA DeleteLocks ==
    ASSUME Mirrored, PInv, Counting, LInv, Delete
    PROVE  LInv'
  <1>0. /\ call[Gov].pc = "delete" /\ Gov \in Actors /\ call[Gov].tip \in Tips
        /\ call \in [Actors -> Frames] /\ map \in [Tips -> Objs \cup {None}]
        /\ lock[call[Gov].tip] = Gov
    BY DEF PInv, FrameInv, WellFormed, TypeOK, Delete, Actors, LInv, Locking, Busy
  <1>1. PICK t \in Tips : t = call[Gov].tip
    BY <1>0
  <1>2. /\ map' = [map EXCEPT ![t] = None] /\ durable' = durable \ {t}
        /\ UNCHANGED refs /\ UNCHANGED owed
        /\ call' = [call EXCEPT ![Gov] = Idle] /\ Unlock(Gov)
    BY <1>1 DEF Delete, Return
  <1>3. map'[t] = None /\ \A u \in Tips : u # t => map'[u] = map[u]
    BY <1>0, <1>2
  <1>4. call'[Gov].pc = "idle" /\ \A b \in Actors : b # Gov => call'[b] = call[b]
    BY <1>0, <1>2 DEF Idle, Frame
  <1>5. LockStep(Gov)
    BY <1>2, <1>4 DEF LockStep
  <1>6. Locking'
    BY <1>0, <1>1, <1>3, <1>4, <1>5, LockingStep DEF LInv
  <1>7. RecordIsResident'
    <2>1. ASSUME NEW u \in Tips, u \in durable', lock'[u] = None
          PROVE  map'[u] # None
      <3>1. u # t /\ u \in durable
        BY <1>2, <2>1
      <3>2. lock[u] # Gov
        BY <1>0, <1>1, <3>1 DEF LInv, Locking
      <3>3. lock[u] = None
        BY <1>2, <2>1, <3>2 DEF Unlock
      <3> QED BY <1>3, <3>1, <3>3 DEF LInv, RecordIsResident
    <2> QED BY <2>1 DEF RecordIsResident
  <1>8. Unclaimed'
    <2>1. ASSUME NEW b \in Actors, call'[b].pc \in {"own", "record"}
          PROVE  map'[call'[b].tip] = call'[b].obj /\ refs'[call'[b].obj] # Tomb
      <3>1. b # Gov /\ call'[b] = call[b] /\ call[b].tip \in Tips
        BY <1>4, <2>1 DEF PInv, FrameInv, WellFormed
      <3>2. /\ lock[call[b].tip] = b
            /\ map[call[b].tip] = call[b].obj /\ refs[call[b].obj] # Tomb
        BY <2>1, <3>1 DEF LInv, Locking, Unclaimed, Busy
      <3>3. call[b].tip # t
        BY <1>0, <1>1, <3>1, <3>2
      <3> QED BY <1>2, <1>3, <3>1, <3>2, <3>3
    <2>2. ASSUME NEW u \in Tips, map'[u] # None, refs'[map'[u]] = Tomb
          PROVE  FALSE
      <3>1. u # t /\ map'[u] = map[u]
        BY <1>3, <2>2
      <3> QED BY <1>1, <1>2, <2>2, <3>1 DEF LInv, Unclaimed
    <2> QED BY <2>1, <2>2 DEF Unclaimed
  <1>9. DroppedOwnsNothing'
    BY <1>2, <1>4 DEF LInv, DroppedOwnsNothing
  <1>10. OwnedIsResident'
    BY <1>2, DeleteInv, OwnedStep DEF LInv
  <1> QED BY <1>6, <1>7, <1>8, <1>9, <1>10 DEF LInv

-----------------------------------------------------------------------------
(* The theorems *)

(***************************************************************************)
(* Counting follows from the finiteness of the keys and the pins.          *)
(***************************************************************************)
LEMMA HoldersCount == Counting
  <1>1. IsFiniteSet(Keys \cup Pins)
    BY FiniteHolders, FS_Union, ZenonT(60)
  <1>2. \A S \in SUBSET (Keys \cup Pins) : IsFiniteSet(S)
    BY <1>1, FS_Subset, ZenonT(60)
  <1>3. Cardinality({}) = 0
    BY FS_EmptySet
  <1>4. ASSUME NEW S \in SUBSET (Keys \cup Pins)
        PROVE  /\ Cardinality(S) \in Nat
               /\ Cardinality(S) = 0 => S = {}
               /\ \A x \in S : Cardinality(S \ {x}) = Cardinality(S) - 1
    <2>1. IsFiniteSet(S)
      BY <1>2
    <2>2. Cardinality(S) \in Nat
      BY <2>1, FS_CardinalityType, SMTT(60)
    <2>3. Cardinality(S) = 0 => S = {}
      BY <2>1, FS_EmptySet, SMTT(60)
    <2>4. \A x \in S : Cardinality(S \ {x}) = Cardinality(S) - 1
      BY <2>1, FS_RemoveElement, SMTT(60)
    <2> QED BY <2>2, <2>3, <2>4, SMTT(60)
  <1>5. ASSUME NEW S \in SUBSET (Keys \cup Pins), NEW x \in (Keys \cup Pins) \ S
        PROVE  Cardinality(S \cup {x}) = Cardinality(S) + 1
    BY <1>2, FS_AddElement, SMTT(60)
  <1>6. ASSUME NEW S \in SUBSET (Keys \cup Pins), NEW T \in SUBSET (Keys \cup Pins),
               S \cap T = {}
        PROVE  Cardinality(S \cup T) = Cardinality(S) + Cardinality(T)
    <2>1. IsFiniteSet(S) /\ IsFiniteSet(T)
      BY <1>2, SMTT(60)
    <2>2. Cardinality(S \cup T) = Cardinality(S) + Cardinality(T) - Cardinality(S \cap T)
      BY <2>1, FS_Union
    <2>3. Cardinality(S) \in Nat /\ Cardinality(T) \in Nat
      BY <1>4
    <2>4. Cardinality(S \cap T) = 0
      BY <1>3, <1>6
    <2> QED BY <2>2, <2>3, <2>4, SMTT(60)
  <1> QED BY <1>3, <1>4, <1>5, <1>6, ZenonT(60) DEF Counting

(***************************************************************************)
(* The empty pool satisfies the invariant.                                 *)
(***************************************************************************)
LEMMA InitInv == Init => PInv
  <1> SUFFICES ASSUME Init PROVE PInv
    OBVIOUS
  <1>1. Idle \in Frames /\ Idle.pc = "idle" /\ Idle.pin = None /\ Idle.obj = None
    BY DEF Idle, Frame, Frames, Steps
  <1>2. TypeOK
    BY <1>1 DEF Init, TypeOK
  <1>3. FrameInv
    BY IdleFrame DEF Init, FrameInv
  <1>4. \A a \in Actors : call[a] = Idle
    BY DEF Init
  <1>5. Gov \in Actors
    BY DEF Actors
  <1>6. PinsApart /\ MapInv /\ MuInv
    BY <1>1, <1>4, ZenonT(60) DEF Init, PinsApart, MapInv, MuInv
  <1>7. TombInv
    BY <1>1, <1>4, <1>5, ZenonT(60) DEF Init, TombInv, Tomb
  <1>8. PinnedIsResident /\ RefsExact
    BY DEF Init, PinnedIsResident, RefsExact, Live
  <1> QED BY <1>2, <1>3, <1>6, <1>7, <1>8, SMTT(60) DEF PInv

(***************************************************************************)
(* Every step of a caller, of the governor and of FlushIndex preserves it, *)
(* and is a step of VertexRefs or none.                                    *)
(***************************************************************************)
LEMMA NextInv == PInv /\ [Next]_vars => PInv' /\ AbstractStep
  <1> SUFFICES ASSUME PInv, [Next]_vars PROVE PInv' /\ AbstractStep
    OBVIOUS
  <1>1. ASSUME NEW a \in Threads, NEW t \in Tips, NEW K \in SUBSET Keys, PutLoad(a, t, K)
        PROVE  PInv' /\ AbstractStep
    BY <1>1, PutLoadInv, SMTT(60) DEF AbstractStep
  <1>2. ASSUME NEW a \in Threads, NEW t \in Tips, NEW p \in Pins, increfLoad(a, t, p)
        PROVE  PInv' /\ AbstractStep
    BY <1>2, IncrefLoadInv DEF AbstractStep
  <1>3. ASSUME NEW a \in Threads, NEW t \in Tips, NEW k \in Keys, ChainLoad(a, t, k)
        PROVE  PInv' /\ AbstractStep
    BY <1>3, ChainLoadInv, SMTT(60) DEF AbstractStep
  <1>4. ASSUME NEW a \in Threads, NEW p \in Pins, decref(a, p)
        PROVE  PInv' /\ AbstractStep
    BY <1>4, HoldersCount, DecrefInv, SMTT(60) DEF AbstractStep
  <1>5. ASSUME NEW a \in Actors, PutStore(a)
        PROVE  PInv' /\ AbstractStep
    <2>1. CASE map[call[a].tip] = None
      BY <1>5, <2>1, HoldersCount, PutStoreNew, ZenonT(60) DEF AbstractStep
    <2>2. CASE map[call[a].tip] # None
      BY <1>5, <2>2, PutStoreFound, ZenonT(60) DEF AbstractStep
    <2> QED BY <2>1, <2>2, Zenon
  <1>6. ASSUME NEW a \in Actors, PutOwn(a) \/ PutRecord(a)
        PROVE  PInv' /\ AbstractStep
    <2>1. CASE PutOwn(a)
      BY <2>1, HoldersCount, PutOwnInv, ZenonT(60) DEF AbstractStep
    <2>2. CASE PutRecord(a)
      BY <2>2, HoldersCount, PutRecordInv, ZenonT(60) DEF AbstractStep
    <2> QED BY <1>6, <2>1, <2>2, Zenon
  <1>7. ASSUME NEW a \in Actors, increfSwap(a) \/ ChainRemove(a) \/ ChainDecref(a)
        PROVE  PInv' /\ AbstractStep
    <2>1. CASE increfSwap(a)
      BY <2>1, HoldersCount, IncrefSwapInv, ZenonT(60) DEF AbstractStep
    <2>2. CASE ChainRemove(a)
      BY <2>2, HoldersCount, ChainRemoveInv, ZenonT(60) DEF AbstractStep
    <2>3. CASE ChainDecref(a)
      BY <2>3, HoldersCount, ChainDecrefInv, ZenonT(60) DEF AbstractStep
    <2> QED BY <1>7, <2>1, <2>2, <2>3, Zenon
  <1>8. ASSUME NEW a \in Actors, Enqueue(a) \/ CountPending(a)
        PROVE  PInv' /\ AbstractStep
    BY <1>8, EnqueueInv, CountPendingInv, SMTT(60) DEF AbstractStep
  <1>9. ASSUME NEW a \in Actors, Continue(a)
        PROVE  PInv' /\ AbstractStep
    BY <1>5, <1>6, <1>7, <1>8, <1>9, ZenonT(60) DEF Continue
  <1>10. ASSUME Governor PROVE PInv' /\ AbstractStep
    BY <1>10, HoldersCount, DrainSwapInv, DrainDequeueInv, ClaimInv, DeleteFailsInv, DeleteInv,
       ZenonT(60) DEF Governor, AbstractStep
  <1>11. ASSUME MirrorReset PROVE PInv' /\ AbstractStep
    BY <1>11, DrainSwapInv, SMTT(60) DEF AbstractStep
  <1>12. CASE UNCHANGED vars
    <2>1. UNCHANGED <<map, refs, creation, pinned, mu, call>>
      BY <1>12, SMTT(60) DEF vars
    <2>2. TypeOK'
      BY <1>12 DEF PInv, TypeOK, vars
    <2> QED BY <2>1, <2>2, Untouched, SMTT(60) DEF PInv, AbstractStep
  <1> QED BY <1>1, <1>2, <1>3, <1>4, <1>9, <1>10, <1>11, <1>12, ZenonT(60) DEF Next

(***************************************************************************)
(* PInv is an invariant of the pool.                                       *)
(***************************************************************************)
THEOREM Invariance == Spec => []PInv
  BY InitInv, NextInv, PTL DEF Spec

(***************************************************************************)
(* decref never finds a count of zero: its assertion holds for any number  *)
(* of keys, pins and threads.                                              *)
(***************************************************************************)
THEOREM NoUnderflow == Spec => []TypeOK
  <1>1. PInv => TypeOK
    BY SMTT(60) DEF PInv
  <1> QED BY <1>1, Invariance, PTL

(***************************************************************************)
(* The count of a live vertex is the number of its holders, in every       *)
(* interleaving of put, incref, decref and decrefChainNode.                *)
(***************************************************************************)
THEOREM CountsHolders == Spec => []RefsExact
  <1>1. PInv => RefsExact
    BY SMTT(60) DEF PInv
  <1> QED BY <1>1, Invariance, PTL

(***************************************************************************)
(* What incref pinned stays in the pool: claimAndDelete never removes it.  *)
(***************************************************************************)
THEOREM PinnedStays == Spec => []PinnedIsResident
  <1>1. PInv => PinnedIsResident
    BY DEF PInv
  <1> QED BY <1>1, Invariance, PTL

-----------------------------------------------------------------------------
(* The pool implements VertexRefs *)

(***************************************************************************)
(* What the lemmas say of the holders of single effects, in the terms of   *)
(* VertexRefs: put is Store, incref is Hold, decref and decrefChainNode    *)
(* are LetGo, and the claim of the governor is Reclaim.                    *)
(***************************************************************************)
LEMMA StepRefines ==
    ASSUME AbstractStep
    PROVE  Abstract!PoolNext \/ UNCHANGED Abstract!poolVars
  <1> DEFINE R == {t \in Tips : Live(t)}
             H == [t \in Tips |-> HeldBy(t)]
  <1>0. /\ \A t \in Tips : t \in R <=> Live(t)
        /\ \A t \in Tips : t \in R' <=> Live(t)'
        /\ R \subseteq Tips /\ R' \subseteq Tips
    OBVIOUS
  <1>1. ASSUME NEW t \in Tips, Others(t)
        PROVE  /\ \A u \in Tips : u # t => (u \in R' <=> u \in R)
               /\ H' = [H EXCEPT ![t] = HeldBy(t)']
    <2>1. \A u \in Tips : u # t => (u \in R' <=> u \in R)
      BY <1>0, <1>1, Zenon DEF Others
    <2>2. \A u \in Tips : H'[u] = [H EXCEPT ![t] = HeldBy(t)'][u]
      BY <1>1, ZenonT(60) DEF Others
    <2> QED BY <2>1, <2>2, ZenonT(60)
  <1>2. CASE Same
    <2>1. R' = R
      BY <1>2 DEF Same
    <2>2. H' = H
      BY <1>2 DEF Same
    <2> QED BY <2>1, <2>2 DEF Abstract!poolVars
  <1>3. ASSUME NEW t \in Tips, NEW K \in SUBSET Keys, Stored(t, K)
        PROVE  Abstract!PoolNext
    <2>1. Others(t) /\ Live(t)' /\ HeldBy(t)' = HeldBy(t) \cup K
      BY <1>3 DEF Stored
    <2>2. R' = R \cup {t}
      BY <1>0, <1>1, <2>1, ZenonT(60)
    <2>3. H' = [H EXCEPT ![t] = @ \cup K]
      BY <1>1, <2>1, ZenonT(60)
    <2>4. Abstract!Store(t, K)
      BY <2>2, <2>3 DEF Abstract!Store
    <2>5. K \in SUBSET (Keys \cup Pins)
      OBVIOUS
    <2> QED BY <2>4, <2>5 DEF Abstract!PoolNext
  <1>4. ASSUME NEW t \in Tips, NEW h \in Keys \cup Pins, Held(t, h)
        PROVE  Abstract!PoolNext
    <2>1. Others(t) /\ Live(t) /\ Live(t)' /\ HeldBy(t)' = HeldBy(t) \cup {h}
      BY <1>4 DEF Held
    <2>2. R' = R /\ t \in R
      BY <1>0, <1>1, <2>1, ZenonT(60)
    <2>3. H' = [H EXCEPT ![t] = @ \cup {h}]
      BY <1>1, <2>1, ZenonT(60)
    <2>4. Abstract!Hold(t, h)
      BY <2>2, <2>3 DEF Abstract!Hold
    <2> QED BY <2>4 DEF Abstract!PoolNext
  <1>5. ASSUME NEW t \in Tips, NEW h \in Keys \cup Pins, LetGo(t, h)
        PROVE  Abstract!PoolNext
    <2>1. /\ Others(t) /\ Live(t) /\ Live(t)' /\ h \in HeldBy(t)
          /\ HeldBy(t)' = HeldBy(t) \ {h}
      BY <1>5 DEF LetGo
    <2>2. R' = R
      BY <1>0, <1>1, <2>1, ZenonT(60)
    <2>3. H' = [H EXCEPT ![t] = @ \ {h}] /\ h \in H[t]
      BY <1>1, <2>1, ZenonT(60)
    <2>4. Abstract!LetGo(t, h)
      BY <2>2, <2>3 DEF Abstract!LetGo
    <2> QED BY <2>4 DEF Abstract!PoolNext
  <1>6. ASSUME NEW t \in Tips, Reclaimed(t)
        PROVE  Abstract!PoolNext
    <2>1. Others(t) /\ Live(t) /\ ~Live(t)' /\ HeldBy(t) = {} /\ HeldBy(t)' = {}
      BY <1>6 DEF Reclaimed
    <2>2. R' = R \ {t} /\ t \in R
      BY <1>0, <1>1, <2>1, ZenonT(60)
    <2>3. H' = H /\ H[t] = {}
      BY <1>1, <2>1, ZenonT(60)
    <2>4. Abstract!Reclaim(t)
      BY <2>2, <2>3 DEF Abstract!Reclaim
    <2> QED BY <2>4 DEF Abstract!PoolNext
  <1> QED BY <1>2, <1>3, <1>4, <1>5, <1>6, ZenonT(60) DEF AbstractStep

(* In every interleaving a vertex counts exactly its holders, the count is *)
(* never driven below zero, and a pinned effect stays (HoldersCounted).    *)
THEOREM HoldersStayCounted == Spec => []HoldersCounted
  BY NoUnderflow, CountsHolders, PinnedStays, PTL DEF HoldersCounted

(***************************************************************************)
(* The pool with its counts, tombstones, locks and queue implements        *)
(* VertexRefs: every operation takes effect in one step whatever it        *)
(* overlaps with, and only an effect that nobody holds is reclaimed.       *)
(***************************************************************************)
THEOREM PoolImplementsRefs == Spec => Implements
  <1>1. Init => Abstract!PoolInit
    BY DEF Init, Abstract!PoolInit, Live, HeldBy
  <1>2. PInv /\ [Next]_vars => [Abstract!PoolNext]_(Abstract!poolVars)
    BY NextInv, StepRefines
  <1> QED BY <1>1, <1>2, Invariance, PTL DEF Spec, Implements, Abstract!PoolSpec

-----------------------------------------------------------------------------
(* The mirrored pool *)

(***************************************************************************)
(* The pool starts empty, with every mirror lock free.                     *)
(***************************************************************************)
LEMMA LocksInit == Init => LInv
  <1> SUFFICES ASSUME Init PROVE LInv
    OBVIOUS
  <1>1. \A a \in Actors : call[a].pc = "idle" /\ a # None
    BY NoneIsNothing DEF Init, Idle, Frame, Actors
  <1>2. \A t \in Tips : lock[t] = None /\ map[t] = None /\ owed[t] = {}
    BY DEF Init
  <1>3. Locking
    BY <1>1, <1>2 DEF Locking, Busy
  <1> QED BY <1>1, <1>2, <1>3 DEF LInv, Init, Unclaimed, DroppedOwnsNothing, OwnedIsResident,
                                 RecordIsResident

(***************************************************************************)
(* Every step of a mirrored pool keeps what the mirror locks guarantee.    *)
(***************************************************************************)
LEMMA LocksNext == Mirrored /\ PInv /\ LInv /\ [Next]_vars => LInv'
  <1> SUFFICES ASSUME Mirrored, PInv, LInv, [Next]_vars PROVE LInv'
    OBVIOUS
  <1>1. ASSUME NEW a \in Threads, NEW t \in Tips, NEW K \in SUBSET Keys, PutLoad(a, t, K)
        PROVE  LInv'
    BY <1>1, PutLoadLocks
  <1>2. ASSUME NEW a \in Threads, NEW t \in Tips, NEW p \in Pins, increfLoad(a, t, p)
        PROVE  LInv'
    BY <1>2, IncrefLoadLocks
  <1>3. ASSUME NEW a \in Threads, NEW t \in Tips, NEW k \in Keys, ChainLoad(a, t, k)
        PROVE  LInv'
    BY <1>3, ChainLoadLocks
  <1>4. ASSUME NEW a \in Threads, NEW p \in Pins, decref(a, p)
        PROVE  LInv'
    BY <1>4, HoldersCount, DecrefLocks
  <1>5. ASSUME NEW a \in Actors, Continue(a)
        PROVE  LInv'
    BY <1>5, HoldersCount, PutStoreNewLocks, PutStoreFoundLocks, PutOwnLocks, PutRecordLocks, IncrefSwapLocks,
       ChainRemoveLocks, ChainDecrefLocks, EnqueueLocks, CountPendingLocks, ZenonT(60) DEF Continue
  <1>6. ASSUME Governor \/ MirrorReset \/ UNCHANGED vars
        PROVE  LInv'
    BY <1>6, HoldersCount, DrainLocks, DrainDequeueLocks, ClaimLocks, DeleteFailsLocks, DeleteLocks, ZenonT(60)
       DEF Governor
  <1> QED BY <1>1, <1>2, <1>3, <1>4, <1>5, <1>6, ZenonT(60) DEF Next

(***************************************************************************)
(* With a durability store, an effect that put reported as owned stays in  *)
(* the pool, counted for each of its owners, until decrefChainNode evicts  *)
(* that owner: no interleaving of puts and reclaims loses it.              *)
(***************************************************************************)
THEOREM OwnedStays == Mirrored => (Spec => []OwnedIsResident)
  <1> SUFFICES ASSUME Mirrored PROVE Spec => []OwnedIsResident
    OBVIOUS
  <1>1. PInv /\ LInv /\ [Next]_vars => LInv'
    BY LocksNext
  <1>2. LInv => OwnedIsResident
    BY DEF LInv
  <1> QED BY <1>1, <1>2, LocksInit, Invariance, PTL DEF Spec

(***************************************************************************)
(* With a durability store, no record outlives its vertex unless a put or  *)
(* a removal of that effect is under way.                                  *)
(***************************************************************************)
THEOREM NoRecordLeftBehind == Mirrored => (Spec => []RecordIsResident)
  <1> SUFFICES ASSUME Mirrored PROVE Spec => []RecordIsResident
    OBVIOUS
  <1>1. PInv /\ LInv /\ [Next]_vars => LInv'
    BY LocksNext
  <1>2. LInv => RecordIsResident
    BY DEF LInv
  <1> QED BY <1>1, <1>2, LocksInit, Invariance, PTL DEF Spec
=============================================================================
