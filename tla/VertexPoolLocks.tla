------------------------- MODULE VertexPoolLocks ----------------------------
(***************************************************************************)
(* The mirror lock of the vertex pool, for every set of effects, keys,     *)
(* pins and threads: with a durability store the lock of a tip orders puts *)
(* and reclaims of its effect. First, the governor's removal of a claimed  *)
(* vertex.                                                                 *)
(***************************************************************************)
EXTENDS VertexPoolDrops

(***************************************************************************)
(* delete undoes the claim when the mirror fails.                          *)
(***************************************************************************)
LEMMA DeleteFailsInv ==
    ASSUME PInv, Counting, DeleteFails
    PROVE  PInv' /\ \E t \in Tips : t = call[Gov].tip /\ map[t] # None /\ Stored(t, {})
  <1>a. /\ TypeOK /\ Gov \in Actors /\ WellFormed(Gov, call[Gov]) /\ call[Gov] \in Frames
        /\ call[Gov].tip \in Tips /\ call[Gov].obj \in Objs /\ call[Gov].pin = None
        /\ map[call[Gov].tip] = call[Gov].obj /\ call[Gov].pc = "delete"
        /\ refs[call[Gov].obj] = Tomb
        /\ UNCHANGED <<map, creation, durable, queue, pending, left, bytes, pinned, owed>>
    BY GovHolds DEF DeleteFails
  <1>b. PICK t \in Tips : t = call[Gov].tip
    BY <1>a, ZenonT(60)
  <1>c. PICK o \in Objs : o = call[Gov].obj
    BY <1>a, SMTT(60)
  <1>d. map[t] = o /\ o # None /\ refs[o] = Tomb
    BY <1>a, <1>b, <1>c, NoneIsNothing, SMTT(60)
  <1> DEFINE f == [call[Gov] EXCEPT !.pc = "enqueue"]
  <1>1. /\ refs' = [refs EXCEPT ![o] = 0]
        /\ call' = [call EXCEPT ![Gov] = f]
        /\ UNCHANGED <<mu, lock>>
    BY <1>a, <1>b, <1>d, SMTT(60) DEF DeleteFails, Goto, TypeOK
  <1>2. f.pc = "enqueue" /\ f.tip = t /\ f.obj = o /\ f.pin = None /\ f \in Frames
    BY <1>a, <1>b, <1>c, SMTT(60) DEF Frames, Steps
  <1>3. WellFormed(Gov, f)
    BY <1>a, <1>2, SMTT(60) DEF WellFormed
  <1> HIDE DEF f
  <1>4. /\ call'[Gov] = f /\ call' \in [Actors -> Frames]
        /\ \A b \in Actors : b # Gov => call'[b] = call[b]
    BY <1>a, <1>1, <1>3, OneFrame, ZenonT(60)
  <1>5. creation[o] = {} /\ Midway(o) = {} /\ PinsOf(t) = {}
    BY <1>d, TombUnheld, SMTT(60)
  <1>6. /\ refs'[o] = 0 /\ refs'[o] # Tomb /\ refs'[o] >= 0
        /\ \A q \in Objs : q # o => refs'[q] = refs[q]
        /\ refs' \in [Objs -> Nat \cup {vertexTombstone}]
    BY <1>a, <1>1, SMTT(60) DEF TypeOK, Tomb, vertexTombstone
  <1>7. Live(t)' /\ HeldBy(t)' = {} /\ refs'[o] = Cardinality(HeldBy(t)')
    <2>1. Midway(o)' = {}
      BY <1>2, <1>4, <1>5, SMTT(60) DEF Midway
    <2>2. KeysMidway(o)' = {}
      BY <2>1, SMTT(60) DEF KeysMidway
    <2>3. PinsOf(t)' = {}
      BY <1>a, <1>5 DEF PinsOf
    <2>4. HeldBy(t)' = {}
      BY <1>a, <1>d, <1>5, <2>2, <2>3, ZenonT(60) DEF HeldBy
    <2>5. Live(t)'
      BY <1>a, <1>d, <1>6 DEF Live
    <2> QED BY <1>6, <2>4, <2>5, SMTT(60) DEF Counting
  <1>8. HolderStep(Gov, f, t, o)
    <2>1. /\ pinned' = pinned /\ pinned \in [Pins -> Tips \cup {None}]
          /\ \A q \in Objs : creation'[q] = creation[q]
      BY <1>a, ZenonT(60) DEF TypeOK
    <2>2. \A p \in Pins : pinned'[p] = pinned[p]
      BY <2>1, SMTT(60)
    <2>3. call[Gov].pc \notin {"record", "drop"}
      BY <1>a
    <2> QED BY <1>a, <1>d, <1>1, <1>2, <1>5, <1>6, <1>7, <2>1, <2>2, <2>3, ZenonT(60) DEF HolderStep
  <1>9. /\ FrameInv' /\ PinsApart' /\ MapInv' /\ TombInv' /\ MuInv'
        /\ PinnedIsResident' /\ RefsExact' /\ Others(t)
    BY <1>a, <1>3, <1>8, HolderStepInv, ZenonT(60)
  <1>10. TypeOK'
    BY <1>a, <1>1, <1>4, <1>6, ZenonT(60) DEF TypeOK
  <1>11. Stored(t, {})
    <2>1. HeldBy(t) = {}
      BY <1>d DEF HeldBy, Live, Tomb, vertexTombstone
    <2> QED BY <1>7, <1>9, <2>1 DEF Stored
  <1> QED BY <1>b, <1>d, <1>9, <1>10, <1>11, ZenonT(60) DEF PInv

(***************************************************************************)
(* delete takes the vertex out of the map.                                 *)
(***************************************************************************)
LEMMA DeleteInv ==
    ASSUME PInv, Counting, Delete
    PROVE  PInv' /\ Same
  <1>a. /\ TypeOK /\ Gov \in Actors /\ WellFormed(Gov, call[Gov]) /\ call[Gov] \in Frames
        /\ call[Gov].tip \in Tips /\ call[Gov].obj \in Objs /\ call[Gov].pin = None
        /\ map[call[Gov].tip] = call[Gov].obj /\ call[Gov].pc = "delete"
        /\ refs[call[Gov].obj] = Tomb
        /\ UNCHANGED <<refs, creation, queue, pending, left, pinned, owed>>
        /\ call' = [call EXCEPT ![Gov] = Idle] /\ Unlock(Gov)
    BY GovHolds, Zenon DEF Delete, Return
  <1>b. PICK t \in Tips : t = call[Gov].tip
    BY <1>a, ZenonT(60)
  <1>c. PICK o \in Objs : o = call[Gov].obj
    BY <1>a, SMTT(60)
  <1>d. map[t] = o /\ o # None /\ refs[o] = Tomb
    BY <1>a, <1>b, <1>c, NoneIsNothing, SMTT(60)
  <1>1. /\ map' = [map EXCEPT ![t] = None] /\ durable' = durable \ {t}
        /\ bytes' = bytes - 1 - Cardinality(creation[o])
    BY <1>b, <1>d, SMTT(60) DEF Delete
  <1>2. /\ map'[t] = None /\ \A u \in Tips : u # t => map'[u] = map[u]
        /\ map' \in [Tips -> Objs \cup {None}]
    BY <1>a, <1>1, ZenonT(60) DEF TypeOK
  <1>3. /\ FrameInv' /\ call'[Gov] = Idle /\ call' \in [Actors -> Frames]
        /\ \A b \in Actors : b # Gov => call'[b] = call[b]
    BY <1>a, IdleFrame, OneFrame, ZenonT(60)
  <1>4. /\ mu' \in [Objs -> Actors \cup {None}]
        /\ lock' \in [Tips -> Actors \cup {None}]
        /\ \A b \in Actors, q \in Objs : b # Gov /\ mu[q] = b => mu'[q] = b
    BY <1>a, UnlockKeeps, SMTT(60)
  <1>5. Idle.pc = "idle" /\ Idle.obj = None /\ Idle.pin = None
    BY SMTT(60) DEF Idle, Frame
  <1>6. creation[o] = {} /\ Midway(o) = {} /\ PinsOf(t) = {}
    BY <1>d, TombUnheld
  <1>7. PinsApart'
    BY <1>a, <1>3, <1>5, ZenonT(60) DEF PInv, PinsApart
  <1>8. MapInv'
    BY <1>2, <1>3, <1>5, SMTT(60) DEF PInv, MapInv
  <1>9. TombInv'
    <2>1. \A q \in Objs : refs'[q] # Tomb => \E u \in Tips : map'[u] = q
      <3>1. ASSUME NEW q \in Objs, refs[q] # Tomb PROVE \E u \in Tips : map'[u] = q
        <4>1. PICK u \in Tips : map[u] = q
          BY <3>1, SMTT(60) DEF PInv, TombInv
        <4>2. u # t
          BY <1>d, <3>1, <4>1, SMTT(60)
        <4> QED BY <1>2, <4>1, <4>2, SMTT(60)
      <3> QED BY <1>a, <3>1, SMTT(60)
    <2>2. \A q \in Objs : refs'[q] = Tomb => creation'[q] = {}
      BY <1>a, SMTT(60) DEF PInv, TombInv
    <2> QED BY <1>3, <1>5, <2>1, <2>2, ZenonT(60) DEF TombInv
  <1>10. MuInv'
    <2>1. ASSUME NEW b \in Actors, call'[b].pc \in {"record", "drop"}
          PROVE  b # Gov /\ call'[b] = call[b] /\ call[b].obj \in Objs
      BY <1>3, <1>5, <2>1, ZenonT(60) DEF PInv, FrameInv, WellFormed
    <2> QED BY <1>a, <1>4, <2>1, SMTT(60) DEF PInv, MuInv
  <1>11. Elsewhere(Gov, t, o)
    BY <1>a, <1>d, <1>2, <1>3, <1>5, <1>6, NoneIsNothing, ZenonT(60) DEF Elsewhere, PInv, MapInv
  <1>12. ~Live(t)' /\ \A p \in Pins : pinned'[p] # t
    BY <1>a, <1>2, <1>6, ZenonT(60) DEF Live, PinsOf
  <1>13. PinnedIsResident' /\ RefsExact'
    <2>1. pinned' \in [Pins -> Tips \cup {None}]
      BY <1>a, ZenonT(60) DEF TypeOK
    <2> QED BY <1>a, <1>11, <1>12, <2>1, ElsewhereCounts, ZenonT(60)
  <1>14. TypeOK'
    <2>1. bytes' \in Int /\ durable' \subseteq Tips
      <3>1. creation[o] \in SUBSET Keys
        BY <1>a, Zenon DEF TypeOK
      <3>2. Cardinality(creation[o]) \in Nat
        BY <3>1, KeySets, ZenonT(60)
      <3> QED BY <1>a, <1>1, <3>2, SMTT(60) DEF TypeOK
    <2> QED BY <1>a, <1>2, <1>3, <1>4, <2>1, ZenonT(60) DEF TypeOK
  <1>15. Same
    <2>1. Others(t)
      BY <1>a, <1>11, ElsewhereHolders, ZenonT(60) DEF Others
    <2>2. ~Live(t)
      BY <1>d DEF Live, Tomb, vertexTombstone
    <2>3. HeldBy(t) = {} /\ HeldBy(t)' = {}
      BY <1>12, <2>2, ZenonT(60) DEF HeldBy
    <2> QED BY <1>12, <2>1, <2>2, <2>3 DEF Same, Others
  <1> QED BY <1>3, <1>7, <1>8, <1>9, <1>10, <1>13, <1>14, <1>15, ZenonT(60) DEF PInv

-----------------------------------------------------------------------------
(* What the mirror lock guarantees *)

(***************************************************************************)
(* The steps of a call at which it has the mirror lock of its tip, and     *)
(* those at which it may have it.                                          *)
(***************************************************************************)
Busy == {"store", "own", "record", "delete"}

Holding == Busy \cup {"enqueue", "count"}

(***************************************************************************)
(* The lock of a tip is held by a put of that tip, from its first look at  *)
(* the map to its return, or by the governor from the claim to the removal. *)
(***************************************************************************)
Locking ==
    /\ \A t \in Tips, a \in Actors : lock[t] = a =>
          /\ call[a].tip = t
          /\ call[a].pc \in Holding
          /\ call[a].pc \in {"enqueue", "count"} => map[t] # None
    /\ \A a \in Actors : call[a].pc \in Busy => lock[call[a].tip] = a

(***************************************************************************)
(* So the vertex a put found stays published and unclaimed, and a vertex   *)
(* with the tombstone is the one the governor is about to remove.          *)
(***************************************************************************)
Unclaimed ==
    /\ \A a \in Actors : call[a].pc \in {"own", "record"} =>
          map[call[a].tip] = call[a].obj /\ refs[call[a].obj] # Tomb
    /\ \A t \in Tips : map[t] # None /\ refs[map[t]] = Tomb =>
          call[Gov].pc = "delete" /\ call[Gov].tip = t

(***************************************************************************)
(* A key whose eviction removed it from the creation keys owns nothing.    *)
(***************************************************************************)
DroppedOwnsNothing ==
    \A a \in Actors : call[a].pc = "drop" => call[a].keys \cap owed[call[a].tip] = {}

LInv == Locking /\ Unclaimed /\ DroppedOwnsNothing /\ OwnedIsResident /\ RecordIsResident

-----------------------------------------------------------------------------
(* The step of one call *)

(***************************************************************************)
(* What a step of actor a does to the locks: it keeps the one it has,      *)
(* takes that of its tip, or returns.                                      *)
(***************************************************************************)
LockStep(a) ==
    \/ /\ UNCHANGED lock
       /\ call[a].pc \in Holding => call'[a].tip = call[a].tip /\ call'[a].pc \in Holding
       /\ call'[a].pc \in Busy => call[a].pc \in Busy
    \/ /\ call[a].pc \notin Holding
       /\ \E t \in Tips : /\ lock[t] = None
                          /\ lock' = [lock EXCEPT ![t] = a]
                          /\ call'[a].tip = t
       /\ call'[a].pc \in Busy
    \/ Unlock(a) /\ call'[a].pc = "idle"

(***************************************************************************)
(* Such a step preserves Locking when the vertices stay published that     *)
(* others rely on.                                                         *)
(***************************************************************************)
LEMMA LockingStep ==
    ASSUME PInv, Locking, NEW a \in Actors, LockStep(a),
           \A b \in Actors : b # a => call'[b] = call[b],
           \A t \in Tips : map[t] # None /\ lock[t] # a => map'[t] # None,
           \A t \in Tips : lock[t] = a /\ call'[a].pc \in {"enqueue", "count"} => map'[t] # None
    PROVE  Locking'
  <1>1. \A b \in Actors : b # None
    BY NoneIsNothing DEF Actors
  <1>2. \A b \in Actors : call[b].pc \in Busy => call[b].tip \in Tips
    BY DEF PInv, FrameInv, WellFormed, Busy
  <1>3. lock \in [Tips -> Actors \cup {None}]
    BY DEF PInv, TypeOK
  <1>4. CASE /\ UNCHANGED lock
             /\ call[a].pc \in Holding => call'[a].tip = call[a].tip /\ call'[a].pc \in Holding
             /\ call'[a].pc \in Busy => call[a].pc \in Busy
    <2>1. Busy \subseteq Holding
      BY DEF Holding
    <2> QED BY <1>2, <1>4, <2>1 DEF Locking
  <1>5. CASE /\ call[a].pc \notin Holding
             /\ \E t \in Tips : /\ lock[t] = None
                                /\ lock' = [lock EXCEPT ![t] = a]
                                /\ call'[a].tip = t
             /\ call'[a].pc \in Busy
    <2>1. PICK t \in Tips : lock[t] = None /\ lock' = [lock EXCEPT ![t] = a] /\ call'[a].tip = t
      BY <1>5, Zenon
    <2>2. lock'[t] = a /\ \A u \in Tips : u # t => lock'[u] = lock[u]
      BY <1>3, <2>1
    <2>3. \A u \in Tips : lock[u] # a
      BY <1>5 DEF Locking
    <2>4. call'[a].pc \in Holding /\ call'[a].pc \notin {"enqueue", "count"}
      BY <1>5 DEF Holding, Busy
    <2> QED BY <1>1, <1>2, <2>1, <2>2, <2>3, <2>4 DEF Locking
  <1>6. CASE Unlock(a) /\ call'[a].pc = "idle"
    <2>1. \A t \in Tips : lock'[t] = IF lock[t] = a THEN None ELSE lock[t]
      BY <1>6 DEF Unlock
    <2>2. "idle" \notin Busy
      BY DEF Busy
    <2> QED BY <1>1, <1>2, <1>6, <2>1, <2>2 DEF Locking
  <1> QED BY <1>4, <1>5, <1>6 DEF LockStep

(***************************************************************************)
(* A step that leaves the map and the tombstones alone, and at whose end   *)
(* actor a relies only on what is published, preserves Unclaimed.          *)
(***************************************************************************)
LEMMA UnclaimedStep ==
    ASSUME PInv, Unclaimed, NEW a \in Actors, UNCHANGED map,
           \A b \in Actors : b # a => call'[b] = call[b],
           \A o \in Objs : refs'[o] = Tomb <=> refs[o] = Tomb,
           a = Gov => call[Gov].pc # "delete",
           call'[a].pc \in {"own", "record"} =>
              /\ call'[a].obj \in Objs
              /\ map[call'[a].tip] = call'[a].obj /\ refs[call'[a].obj] # Tomb
    PROVE  Unclaimed'
  <1>1. \A b \in Actors : call[b].pc \in {"own", "record"} => call[b].obj \in Objs
    BY DEF PInv, FrameInv, WellFormed
  <1>2. \A t \in Tips : map[t] # None => map[t] \in Objs
    BY DEF PInv, TypeOK
  <1>3. Gov \in Actors
    BY DEF Actors
  <1> QED BY <1>1, <1>2, <1>3 DEF Unclaimed

(***************************************************************************)
(* A step that returns only with the vertex published leaves no record     *)
(* without a vertex.                                                       *)
(***************************************************************************)
LEMMA RecordStep ==
    ASSUME PInv, RecordIsResident, NEW a \in Actors, LockStep(a),
           \A t \in Tips : map[t] # None => map'[t] # None,
           \A t \in durable' : t \in durable \/ map'[t] # None \/ lock'[t] # None,
           \A t \in Tips : lock[t] = a /\ call'[a].pc = "idle" => map'[t] # None
    PROVE  RecordIsResident'
  <1>1. lock \in [Tips -> Actors \cup {None}] /\ a # None
    BY NoneIsNothing DEF PInv, TypeOK, Actors
  <1>2. ASSUME NEW t \in Tips, t \in durable, lock'[t] = None
        PROVE  lock[t] = None \/ (lock[t] = a /\ call'[a].pc = "idle")
    <2>1. CASE UNCHANGED lock
      BY <1>2, <2>1
    <2>2. CASE \E u \in Tips : lock[u] = None /\ lock' = [lock EXCEPT ![u] = a]
      BY <1>1, <1>2, <2>2
    <2>3. CASE Unlock(a) /\ call'[a].pc = "idle"
      BY <1>2, <2>3 DEF Unlock
    <2> QED BY <2>1, <2>2, <2>3, Zenon DEF LockStep
  <1> QED BY <1>2 DEF RecordIsResident

(***************************************************************************)
(* Owners keep what they own in a step that takes no holder away.          *)
(***************************************************************************)
LEMMA OwnedStep ==
    ASSUME OwnedIsResident, Same, \A t \in Tips : owed'[t] \subseteq owed[t]
    PROVE  OwnedIsResident'
  BY DEF OwnedIsResident, Same

(***************************************************************************)
(* The same for a step that changes the holders of the effect at t.        *)
(***************************************************************************)
LEMMA OwnedStepAt ==
    ASSUME OwnedIsResident, NEW t \in Tips, Others(t),
           \A u \in Tips : u # t => owed'[u] \subseteq owed[u],
           owed'[t] # {} => Live(t)' /\ owed'[t] \subseteq HeldBy(t)'
    PROVE  OwnedIsResident'
  BY DEF OwnedIsResident, Others

(***************************************************************************)
(* A step of actor a that leaves the map, the tombstones, the owners and   *)
(* the mirror's records alone and ends in a frame f.                       *)
(***************************************************************************)
LEMMA CallStep ==
    ASSUME PInv, LInv, NEW a \in Actors, NEW f,
           call' = [call EXCEPT ![a] = f],
           UNCHANGED <<map, durable>>,
           \A o \in Objs : refs'[o] = Tomb <=> refs[o] = Tomb,
           \A t \in Tips : owed'[t] \subseteq owed[t],
           LockStep(a), Same \/ OwnedIsResident',
           a = Gov => call[Gov].pc # "delete",
           f.pc \in {"own", "record"} =>
              f.obj \in Objs /\ map[f.tip] = f.obj /\ refs[f.obj] # Tomb,
           f.pc = "drop" => f.keys \cap owed'[f.tip] = {},
           \A t \in Tips : lock[t] = a /\ f.pc \in {"enqueue", "count", "idle"} => map[t] # None
    PROVE  LInv'
  <1>1. call'[a] = f /\ \A b \in Actors : b # a => call'[b] = call[b]
    BY DEF PInv, TypeOK
  <1>2. Locking'
    BY <1>1, LockingStep DEF LInv
  <1>3. Unclaimed'
    <2>1. Unclaimed /\ map' = map
      BY DEF LInv
    <2>2. call'[a].pc \in {"own", "record"} =>
             /\ call'[a].obj \in Objs
             /\ map[call'[a].tip] = call'[a].obj /\ refs[call'[a].obj] # Tomb
      BY <1>1
    <2> QED BY <1>1, <2>1, <2>2, UnclaimedStep
  <1>4. DroppedOwnsNothing'
    <2>1. \A b \in Actors : call[b].pc = "drop" => call[b].tip \in Tips
      BY DEF PInv, FrameInv, WellFormed
    <2> QED BY <1>1, <2>1 DEF LInv, DroppedOwnsNothing
  <1>5. RecordIsResident'
    BY <1>1, RecordStep DEF LInv
  <1>6. OwnedIsResident'
    BY OwnedStep DEF LInv
  <1> QED BY <1>2, <1>3, <1>4, <1>5, <1>6 DEF LInv

-----------------------------------------------------------------------------
(* Puts *)

(***************************************************************************)
(* A tip whose lock is free has no claimed vertex.                         *)
(***************************************************************************)
LEMMA FreeIsUnclaimed ==
    ASSUME PInv, LInv, NEW t \in Tips, map[t] # None, lock[t] # Gov
    PROVE  map[t] \in Objs /\ refs[map[t]] # Tomb
  <1>1. Gov \in Actors
    BY DEF Actors
  <1>2. map[t] \in Objs
    BY DEF PInv, TypeOK
  <1> QED BY <1>1, <1>2 DEF LInv, Locking, Unclaimed, Busy

(***************************************************************************)
(* put takes the lock before it looks at the map.                          *)
(***************************************************************************)
LEMMA PutLoadLocks ==
    ASSUME Mirrored, PInv, LInv, NEW a \in Threads, NEW t \in Tips, NEW K \in SUBSET Keys,
           PutLoad(a, t, K)
    PROVE  LInv'
  <1>0. /\ a \in Actors /\ a # Gov /\ call[a] = Idle /\ lock[t] = None /\ Gov \in Actors
        /\ UNCHANGED <<map, refs, creation, owed>> /\ durable' = durable \cup {t}
    BY FiniteThreads DEF PutLoad, CanStart, Actors
  <1>3. call[a].pc = "idle"
    <2>1. Idle.pc = "idle"
      BY DEF Frame, Idle
    <2> QED BY <1>0, <2>1, Zenon
  <1> DEFINE f == IF map[t] = None THEN Frame("store", t, None, K, None)
                  ELSE IF K # {} THEN Frame("own", t, map[t], K, None) ELSE Idle
  <1>1. call' = [call EXCEPT ![a] = f]
    BY DEF PutLoad
  <1>2. /\ map[t] = None => f.pc = "store" /\ f.tip = t
        /\ map[t] # None /\ K # {} => f.pc = "own" /\ f.tip = t /\ f.obj = map[t]
        /\ map[t] # None /\ K = {} => f.pc = "idle"
    BY DEF Frame, Idle
  <1> HIDE DEF f
  <1>4. call'[a] = f /\ \A b \in Actors : b # a => call'[b] = call[b]
    BY <1>0, <1>1 DEF PInv, TypeOK
  <1>5. LockStep(a)
    <2>1. CASE map[t] = None \/ K # {}
      <3>1. lock' = [lock EXCEPT ![t] = a]
        BY <2>1 DEF PutLoad
      <3> QED BY <1>0, <1>2, <1>3, <1>4, <2>1, <3>1, ZenonT(60) DEF LockStep, Busy, Holding
    <2>2. CASE map[t] # None /\ K = {}
      <3>1. lock' = lock
        BY <2>2 DEF PutLoad
      <3> QED BY <1>2, <1>3, <1>4, <2>2, <3>1 DEF LockStep, Busy, Holding
    <2> QED BY <2>1, <2>2
  <1>6. \A u \in Tips : lock[u] # a
    BY <1>0, <1>3 DEF LInv, Locking, Holding, Busy
  <1>7. Locking'
    BY <1>0, <1>4, <1>5, <1>6, LockingStep DEF LInv
  <1>8. Unclaimed'
    <2>1. map[t] # None => map[t] \in Objs /\ refs[map[t]] # Tomb
      BY <1>0, FreeIsUnclaimed, NoneIsNothing
    <2> QED BY <1>0, <1>2, <1>4, <2>1, UnclaimedStep DEF LInv
  <1>9. DroppedOwnsNothing'
    BY <1>0, <1>2, <1>4 DEF LInv, DroppedOwnsNothing
  <1>10. RecordIsResident'
    <2>1. map[t] # None \/ lock'[t] # None
      BY <1>0, NoneIsNothing DEF PutLoad, PInv, TypeOK, Actors
    <2> QED BY <1>0, <1>5, <1>6, <2>1, RecordStep DEF LInv
  <1>11. OwnedIsResident'
    BY <1>0, PutLoadInv, OwnedStep DEF LInv
  <1> QED BY <1>7, <1>8, <1>9, <1>10, <1>11 DEF LInv

(***************************************************************************)
(* LoadOrStore finds a vertex.                                             *)
(***************************************************************************)
LEMMA PutStoreFoundLocks ==
    ASSUME Mirrored, PInv, LInv, NEW a \in Actors, PutStore(a), map[call[a].tip] # None
    PROVE  LInv'
  <1>0. /\ call[a].pc = "store" /\ a # Gov /\ call[a].tip \in Tips /\ call[a] \in Frames
        /\ lock[call[a].tip] = a /\ call \in [Actors -> Frames]
        /\ UNCHANGED <<map, refs, owed, durable>>
    BY DEF PInv, FrameInv, WellFormed, TypeOK, PutStore, LInv, Locking, Busy
  <1>1. map[call[a].tip] \in Objs /\ refs[map[call[a].tip]] # Tomb
    BY <1>0, FreeIsUnclaimed
  <1>2. Same
    BY PutStoreFound
  <1>3. \A t \in Tips : lock[t] = a => map[t] # None
    BY <1>0 DEF LInv, Locking
  <1>4. CASE call[a].keys = {}
    <2>1. call' = [call EXCEPT ![a] = Idle] /\ Unlock(a)
      BY <1>4 DEF PutStore, Return
    <2>2. Idle.pc = "idle" /\ call'[a] = Idle
      BY <1>0, <2>1 DEF Idle, Frame
    <2>3. LockStep(a)
      BY <2>1, <2>2 DEF LockStep
    <2> QED BY <1>0, <1>2, <1>3, <2>1, <2>2, <2>3, CallStep, ZenonT(60)
  <1>5. CASE call[a].keys # {}
    <2> DEFINE f == [call[a] EXCEPT !.pc = "own", !.obj = map[call[a].tip]]
    <2>1. call' = [call EXCEPT ![a] = f] /\ UNCHANGED lock
      BY <1>0, <1>5, ZenonT(60) DEF PutStore
    <2>2. f.pc = "own" /\ f.tip = call[a].tip /\ f.obj = map[call[a].tip]
      BY <1>0 DEF Frames
    <2> HIDE DEF f
    <2>3. call'[a] = f
      BY <1>0, <2>1
    <2>4. LockStep(a)
      BY <1>0, <2>1, <2>2, <2>3 DEF LockStep, Busy, Holding
    <2> QED BY <1>0, <1>1, <1>2, <2>1, <2>2, <2>4, CallStep, ZenonT(60)
  <1> QED BY <1>4, <1>5

(***************************************************************************)
(* LoadOrStore publishes a new vertex.                                     *)
(***************************************************************************)
LEMMA PutStoreNewLocks ==
    ASSUME Mirrored, PInv, Counting, LInv, NEW a \in Actors, PutStore(a), map[call[a].tip] = None
    PROVE  LInv'
  <1>0. /\ call[a].pc = "store" /\ a # Gov /\ call[a].tip \in Tips /\ call[a] \in Frames
        /\ lock[call[a].tip] = a /\ call \in [Actors -> Frames] /\ UNCHANGED durable
        /\ map \in [Tips -> Objs \cup {None}] /\ owed \in [Tips -> SUBSET Keys]
        /\ refs \in [Objs -> Nat \cup {vertexTombstone}] /\ Gov \in Actors
    BY DEF PInv, FrameInv, WellFormed, TypeOK, PutStore, LInv, Locking, Busy, Actors
  <1>1. PICK t \in Tips, K \in SUBSET Keys : t = call[a].tip /\ K = call[a].keys /\ Stored(t, K)
    BY PutStoreNew
  <1>2. PICK o \in Objs :
           /\ Fresh(o)
           /\ map' = [map EXCEPT ![t] = o]
           /\ refs' = [refs EXCEPT ![o] = Cardinality(K)]
    BY <1>1 DEF PutStore
  <1>3. owed' = [owed EXCEPT ![t] = @ \cup K]
    BY <1>1 DEF PutStore
  <1>4. /\ map'[t] = o /\ o # None /\ refs'[o] # Tomb /\ owed'[t] = owed[t] \cup K
        /\ \A u \in Tips : u # t => map'[u] = map[u] /\ map[u] # o /\ owed'[u] = owed[u]
        /\ \A q \in Objs : q # o => refs'[q] = refs[q]
        /\ \A b \in Actors : call[b].obj # o
    <2>1. Cardinality(K) \in Nat
      BY KeySets
    <2> QED BY <1>0, <1>2, <1>3, <2>1, NoneIsNothing DEF Fresh, Tomb, vertexTombstone
  <1>5. /\ call'[a].pc \in {"idle", "enqueue"}
        /\ \A b \in Actors : b # a => call'[b] = call[b]
        /\ LockStep(a)
    <2>1. CASE K = {}
      <3>1. call' = [call EXCEPT ![a].pc = "enqueue"] /\ UNCHANGED lock
        BY <1>1, <2>1 DEF PutStore, Goto
      <3>2. call'[a].pc = "enqueue" /\ call'[a].tip = call[a].tip
        BY <1>0, <3>1 DEF Frames
      <3>3. \A b \in Actors : b # a => call'[b] = call[b]
        BY <1>0, <3>1
      <3> QED BY <3>1, <3>2, <3>3 DEF LockStep, Holding, Busy
    <2>2. CASE K # {}
      <3>1. call' = [call EXCEPT ![a] = Idle] /\ Unlock(a)
        BY <1>1, <2>2 DEF PutStore, Return
      <3>2. call'[a].pc = "idle" /\ \A b \in Actors : b # a => call'[b] = call[b]
        BY <1>0, <3>1 DEF Idle, Frame
      <3> QED BY <3>1, <3>2 DEF LockStep
    <2> QED BY <2>1, <2>2
  <1>6. \A u \in Tips : (map[u] # None => map'[u] # None) /\ (lock[u] = a => map'[u] # None)
    <2>1. \A u \in Tips : lock[u] = a => u = t
      BY <1>0, <1>1 DEF LInv, Locking
    <2> QED BY <1>4, <2>1, Zenon
  <1>7. Locking'
    BY <1>5, <1>6, LockingStep DEF LInv
  <1>8. RecordIsResident'
    BY <1>0, <1>5, <1>6, RecordStep DEF LInv
  <1>9. Unclaimed'
    <2>1. ASSUME NEW b \in Actors, call'[b].pc \in {"own", "record"}
          PROVE  map'[call'[b].tip] = call'[b].obj /\ refs'[call'[b].obj] # Tomb
      <3>1. b # a /\ call'[b] = call[b]
        BY <1>5, <2>1
      <3>2. call[b].tip \in Tips /\ call[b].obj \in Objs /\ lock[call[b].tip] = b
        BY <2>1, <3>1 DEF PInv, FrameInv, WellFormed, LInv, Locking, Busy
      <3>3. map[call[b].tip] = call[b].obj /\ refs[call[b].obj] # Tomb
        BY <2>1, <3>1 DEF LInv, Unclaimed
      <3>4. call[b].tip # t /\ call[b].obj # o
        BY <1>0, <1>1, <1>4, <3>1, <3>2
      <3> QED BY <1>4, <3>1, <3>2, <3>3, <3>4, Zenon
    <2>2. ASSUME NEW u \in Tips, map'[u] # None, refs'[map'[u]] = Tomb
          PROVE  call'[Gov].pc = "delete" /\ call'[Gov].tip = u
      <3>0. u # t /\ map'[u] = map[u] /\ map[u] # o
        BY <1>4, <2>2, Zenon
      <3>1. map[u] \in Objs /\ map[u] # None
        BY <1>0, <2>2, <3>0
      <3>2. refs[map[u]] = Tomb
        BY <1>4, <2>2, <3>0, <3>1, Zenon
      <3>3. call[Gov].pc = "delete" /\ call[Gov].tip = u
        BY <3>1, <3>2, Zenon DEF LInv, Unclaimed
      <3>4. call'[Gov] = call[Gov]
        BY <1>0, <1>5, <3>3, Zenon
      <3> QED BY <3>3, <3>4, Zenon
    <2> QED BY <2>1, <2>2 DEF Unclaimed
  <1>10. DroppedOwnsNothing'
    <2>1. ASSUME NEW b \in Actors, call'[b].pc = "drop"
          PROVE  call'[b].keys \cap owed'[call'[b].tip] = {}
      <3>1. b # a /\ call'[b] = call[b]
        BY <1>5, <2>1
      <3>2. call[b].tip \in Tips /\ call[b].obj \in Objs /\ map[call[b].tip] = call[b].obj
        BY <2>1, <3>1, MidwayLive
      <3>3. call[b].tip # t
        BY <1>1, <3>2, NoneIsNothing
      <3>4. call[b].keys \cap owed[call[b].tip] = {}
        BY <2>1, <3>1 DEF LInv, DroppedOwnsNothing
      <3>5. owed'[call[b].tip] = owed[call[b].tip]
        BY <1>4, <3>2, <3>3
      <3> QED BY <3>1, <3>4, <3>5
    <2> QED BY <2>1 DEF DroppedOwnsNothing
  <1>11. OwnedIsResident'
    <2>1. Others(t) /\ Live(t)' /\ HeldBy(t)' = HeldBy(t) \cup K
      BY <1>1 DEF Stored
    <2>2. owed[t] \subseteq HeldBy(t)
      BY DEF LInv, OwnedIsResident
    <2> QED BY <1>4, <2>1, <2>2, OwnedStepAt DEF LInv
  <1> QED BY <1>7, <1>8, <1>9, <1>10, <1>11 DEF LInv

(***************************************************************************)
(* Under the mirror lock the vertex that put found is not claimed, so the  *)
(* keys it reports as owners have their references.                        *)
(***************************************************************************)
LEMMA PutOwnLocks ==
    ASSUME Mirrored, PInv, Counting, LInv, NEW a \in Actors, PutOwn(a)
    PROVE  LInv'
  <1>a. /\ call[a].pc = "own" /\ a # Gov /\ call[a].tip \in Tips /\ call[a].obj \in Objs
        /\ call[a].keys \in SUBSET Keys /\ call[a] \in Frames /\ Gov \in Actors
        /\ call \in [Actors -> Frames] /\ owed \in [Tips -> SUBSET Keys]
        /\ refs \in [Objs -> Nat \cup {vertexTombstone}]
    BY DEF PInv, FrameInv, WellFormed, TypeOK, PutOwn, Actors, Frames
  <1>b. PICK t \in Tips, o \in Objs, K \in SUBSET Keys :
           t = call[a].tip /\ o = call[a].obj /\ K = call[a].keys
    BY <1>a
  <1>c. /\ lock[t] = a /\ map[t] = o /\ refs[o] # Tomb /\ map[t] # None
        /\ UNCHANGED <<map, durable>> /\ mu[o] = None
    BY <1>a, <1>b, NoneIsNothing DEF PutOwn, LInv, Locking, Unclaimed, Busy
  <1>0. /\ call[a].pc = "own" /\ a # Gov /\ call[a] \in Frames /\ Gov \in Actors
        /\ lock[t] = a /\ map[t] = o /\ refs[o] # Tomb /\ map[t] # None
        /\ UNCHANGED <<map, durable>> /\ mu[o] = None
        /\ call \in [Actors -> Frames] /\ owed \in [Tips -> SUBSET Keys]
        /\ refs \in [Objs -> Nat \cup {vertexTombstone}]
    BY <1>a, <1>c
  <1>1. owed' = [owed EXCEPT ![t] = @ \cup K]
    BY <1>b DEF PutOwn
  <1>2. owed'[t] = owed[t] \cup K /\ \A u \in Tips : u # t => owed'[u] = owed[u]
    BY <1>0, <1>1
  <1>3. /\ call'[a].pc \in {"idle", "record"}
        /\ call'[a].pc = "record" => call'[a].tip = t /\ call'[a].obj = o
        /\ \A b \in Actors : b # a => call'[b] = call[b]
        /\ LockStep(a)
        /\ \A q \in Objs : refs'[q] = Tomb <=> refs[q] = Tomb
    <2>1. CASE Return(a) /\ UNCHANGED refs
      BY <1>0, <2>1 DEF Return, Idle, Frame, LockStep
    <2>2. CASE /\ refs' = [refs EXCEPT ![o] = @ + Cardinality(missingCreationKeys(K, creation[o]))]
               /\ call' = [call EXCEPT ![a].pc = "record",
                                       ![a].keys = missingCreationKeys(K, creation[o])]
               /\ UNCHANGED lock
      <3>1. Cardinality(missingCreationKeys(K, creation[o])) \in Nat
        BY <1>0, KeySets DEF missingCreationKeys
      <3>2. call'[a].pc = "record" /\ call'[a].tip = t /\ call'[a].obj = o
        BY <1>0, <1>b, <2>2 DEF Frames
      <3>3. \A b \in Actors : b # a => call'[b] = call[b]
        BY <1>0, <2>2
      <3>4. LockStep(a)
        BY <1>0, <1>b, <2>2, <3>2 DEF LockStep, Holding, Busy
      <3>5. \A q \in Objs : refs'[q] = Tomb <=> refs[q] = Tomb
        BY <1>0, <2>2, <3>1 DEF Tomb, vertexTombstone
      <3> QED BY <3>2, <3>3, <3>4, <3>5
    <2> QED BY <1>b, <2>1, <2>2 DEF PutOwn
  <1>4. \A u \in Tips : lock[u] = a => map[u] # None
    BY <1>0, <1>b DEF LInv, Locking
  <1>5. Locking'
    BY <1>0, <1>3, <1>4, LockingStep DEF LInv
  <1>6. RecordIsResident'
    BY <1>0, <1>3, <1>4, RecordStep DEF LInv
  <1>7. Unclaimed'
    BY <1>0, <1>3, UnclaimedStep DEF LInv
  <1>8. DroppedOwnsNothing'
    <2>1. ASSUME NEW b \in Actors, call'[b].pc = "drop"
          PROVE  call'[b].keys \cap owed'[call'[b].tip] = {}
      <3>1. b # a /\ call'[b] = call[b]
        BY <1>3, <2>1
      <3>2. /\ call[b].tip \in Tips /\ call[b].obj \in Objs /\ map[call[b].tip] = call[b].obj
            /\ mu[call[b].obj] = b /\ b # None
        BY <2>1, <3>1, MidwayLive, NoneIsNothing DEF PInv, MuInv, Midway, Actors
      <3>3. call[b].tip # t
        BY <1>0, <3>2
      <3> QED BY <1>2, <2>1, <3>1, <3>2, <3>3 DEF LInv, DroppedOwnsNothing
    <2> QED BY <2>1 DEF DroppedOwnsNothing
  <1>9. OwnedIsResident'
    <2>1. owed[t] \subseteq HeldBy(t)
      BY <1>0 DEF LInv, OwnedIsResident
    <2>2. creation[o] \subseteq HeldBy(t) /\ Live(t)
      BY <1>0 DEF HeldBy, Live, Tomb
    <2>3. CASE Same /\ K \subseteq creation[o]
      <3>1. Others(t) /\ Live(t)' /\ HeldBy(t)' = HeldBy(t)
        BY <1>0, <2>2, <2>3 DEF Same, Others
      <3> QED BY <1>0, <1>2, <2>1, <2>2, <2>3, <3>1, OwnedStepAt DEF LInv
    <2>4. CASE \E u \in Tips, M \in SUBSET Keys :
                  /\ u = t /\ M = K \ creation[o] /\ Stored(u, M)
      <3>1. PICK u \in Tips, M \in SUBSET Keys : u = t /\ M = K \ creation[o] /\ Stored(u, M)
        BY <2>4
      <3>2. Others(u) /\ Live(u)' /\ HeldBy(u)' = HeldBy(u) \cup M
        BY <3>1 DEF Stored
      <3> QED BY <1>2, <2>1, <2>2, <3>1, <3>2, OwnedStepAt DEF LInv
    <2> QED BY <1>0, <1>b, <2>3, <2>4, PutOwnInv
  <1> QED BY <1>5, <1>6, <1>7, <1>8, <1>9 DEF LInv

(***************************************************************************)
(* recordLocked writes the record of the vertex its caller holds the lock  *)
(* of, and put returns: the record has its vertex.                         *)
(***************************************************************************)
LEMMA PutRecordLocks ==
    ASSUME Mirrored, PInv, Counting, LInv, NEW a \in Actors, PutRecord(a)
    PROVE  LInv'
  <1>a. Same
    BY PutRecordInv
  <1>0. /\ call[a].pc = "record" /\ a # Gov /\ Return(a) /\ Same
        /\ UNCHANGED <<map, refs, owed, durable>>
    BY <1>a DEF PInv, FrameInv, WellFormed, PutRecord
  <1>1. \A t \in Tips : lock[t] = a => map[t] # None
    <2>1. call[a].obj \in Objs /\ map[call[a].tip] = call[a].obj
      BY <1>0, NoneIsNothing, MidwayLive
    <2>2. \A t \in Tips : lock[t] = a => call[a].tip = t
      BY <1>0 DEF LInv, Locking, Busy
    <2> QED BY <2>1, <2>2, NoneIsNothing
  <1>2. call' = [call EXCEPT ![a] = Idle] /\ Idle.pc = "idle"
    BY <1>0 DEF Return, Idle, Frame
  <1>3. LockStep(a)
    BY <1>0, <1>2 DEF LockStep, Return, PInv, TypeOK
  <1> HIDE DEF Idle
  <1> QED BY <1>0, <1>1, <1>2, <1>3, CallStep, ZenonT(60)
=============================================================================
