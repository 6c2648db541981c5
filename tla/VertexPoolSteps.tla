-------------------------- MODULE VertexPoolSteps ---------------------------
(***************************************************************************)
(* The steps that publish a vertex, give it its owners or add a reference  *)
(* preserve the invariant.                                                 *)
(***************************************************************************)
EXTENDS VertexPoolInv

(***************************************************************************)
(* LoadOrStore publishes a new vertex.                                     *)
(***************************************************************************)
LEMMA PutStoreNew ==
    ASSUME PInv, Counting, NEW a \in Actors, PutStore(a), map[call[a].tip] = None
    PROVE  /\ PInv'
           /\ \E t \in Tips, K \in SUBSET Keys :
                 t = call[a].tip /\ K = call[a].keys /\ Stored(t, K)
  <1>a. /\ TypeOK /\ WellFormed(a, call[a]) /\ call[a].pc = "store" /\ call[a] \in Frames
        /\ call[a].tip \in Tips /\ call[a].keys \in SUBSET Keys /\ call[a].pin = None /\ a # Gov
    BY DEF PInv, FrameInv, WellFormed, PutStore, Frames
  <1>b. PICK t \in Tips : t = call[a].tip
    BY <1>a
  <1>c. PICK K \in SUBSET Keys : K = call[a].keys
    BY <1>a, SMTT(60)
  <1> DEFINE f == IF K = {} THEN [call[a] EXCEPT !.pc = "enqueue"] ELSE Idle
  <1>0. /\ TypeOK /\ WellFormed(a, call[a]) /\ call[a].pc = "store" /\ call[a] \in Frames
        /\ t \in Tips /\ K \in SUBSET Keys /\ call[a].pin = None /\ a # Gov
        /\ t = call[a].tip /\ K = call[a].keys /\ map[t] = None
    BY <1>a, <1>b, <1>c
  <1>1. PICK o \in Objs :
           /\ Fresh(o)
           /\ map' = [map EXCEPT ![t] = o]
           /\ refs' = [refs EXCEPT ![o] = Cardinality(K)]
           /\ creation' = [creation EXCEPT ![o] = K]
    BY <1>0 DEF PutStore
  <1>2. /\ call' = [call EXCEPT ![a] = f] /\ UNCHANGED <<pinned, durable, queue, pending, left>>
        /\ bytes' = bytes + 1 + Cardinality(K) /\ owed' = [owed EXCEPT ![t] = @ \cup K]
        /\ K # {} => Unlock(a)
        /\ K = {} => UNCHANGED <<mu, lock>>
    BY <1>0, SMTT(60) DEF PutStore, Goto, Return, TypeOK
  <1>3. Cardinality(K) \in Nat /\ o # None
    BY <1>0, KeySets, NoneIsNothing, SMTT(60)
  <1>4. /\ map'[t] = o /\ refs'[o] = Cardinality(K) /\ creation'[o] = K
        /\ \A u \in Tips : u # t => map'[u] = map[u]
        /\ \A q \in Objs : q # o => refs'[q] = refs[q] /\ creation'[q] = creation[q]
        /\ map' \in [Tips -> Objs \cup {None}]
        /\ refs' \in [Objs -> Nat \cup {vertexTombstone}]
        /\ creation' \in [Objs -> SUBSET Keys]
    BY <1>0, <1>1, <1>3 DEF TypeOK
  <1>5. WellFormed(a, f) /\ f.pc \in {"idle", "enqueue"} /\ f.pin = None /\ f.obj # o
    <2>1. CASE K = {}
      <3>1. /\ f.pc = "enqueue" /\ f.tip = t /\ f.obj = call[a].obj
            /\ f.keys = K /\ f.pin = call[a].pin /\ f \in Frames
        BY <1>0, <2>1, Zenon DEF Frames, Steps
      <3>2. f.obj # o
        BY <1>1, <3>1 DEF Fresh
      <3> QED BY <1>0, <3>1, <3>2 DEF WellFormed
    <2>2. CASE K # {}
      BY <1>3, <2>2, IdleFrame, SMTT(60) DEF Idle, Frame
    <2> QED BY <2>1, <2>2
  <1> HIDE DEF f
  <1>6. /\ FrameInv' /\ call' \in [Actors -> Frames] /\ call'[a] = f
        /\ \A b \in Actors : b # a => call'[b] = call[b]
    BY <1>2, <1>5, OneFrame, Zenon
  <1>7. /\ mu' \in [Objs -> Actors \cup {None}]
        /\ lock' \in [Tips -> Actors \cup {None}]
        /\ \A b \in Actors, q \in Objs : b # a /\ mu[q] = b => mu'[q] = b
    BY <1>0, <1>2, UnlockKeeps, SMTT(60) DEF TypeOK
  <1>8. \A b \in Actors : call'[b].obj # o
    BY <1>1, <1>5, <1>6, SMTT(60) DEF Fresh
  <1>9. PinsApart'
    BY <1>2, <1>5, <1>6, SMTT(60) DEF PInv, PinsApart
  <1>10. MapInv'
    <2>1. \A u \in Tips : map[u] # o
      BY <1>1, SMTT(60) DEF Fresh
    <2>2. \A u, v \in Tips : map'[u] # None /\ map'[u] = map'[v] => u = v
      BY <1>4, <2>1, SMTT(60) DEF PInv, MapInv
    <2>3. \A b \in Actors, u \in Tips :
             call'[b].obj # None /\ map'[u] = call'[b].obj => u = call'[b].tip
      <3>1. f.obj # None => f.obj = call[a].obj /\ f.tip = call[a].tip
        BY <1>0, SMTT(60) DEF f, Idle, Frame, Frames
      <3> QED BY <1>4, <1>6, <1>8, <3>1 DEF PInv, MapInv
    <2> QED BY <2>2, <2>3 DEF MapInv
  <1>11. TombInv'
    <2>0. Gov \in Actors /\ call'[Gov] = call[Gov] /\ call[Gov].obj # o
      BY <1>0, <1>1, <1>6, SMTT(60) DEF Actors, Fresh
    <2>1. call[Gov].pc \in {"claim", "delete"} => call[Gov].obj \in Objs /\ call[Gov].tip \in Tips
      BY <2>0, SMTT(60) DEF PInv, FrameInv, WellFormed
    <2>2. call[Gov].pc \in {"claim", "delete"} => call[Gov].tip # t
      BY <1>0, <2>1, NoneIsNothing, SMTT(60) DEF PInv, TombInv
    <2>3. refs'[o] # Tomb
      BY <1>3, <1>4, SMTT(60) DEF Tomb, vertexTombstone
    <2>4. \A q \in Objs : refs'[q] # Tomb => \E u \in Tips : map'[u] = q
      <3>1. ASSUME NEW q \in Objs, q # o, refs[q] # Tomb PROVE \E u \in Tips : map'[u] = q
        <4>1. PICK u \in Tips : map[u] = q
          BY <3>1, SMTT(60) DEF PInv, TombInv
        <4>2. u # t
          BY <1>0, <3>1, <4>1, NoneIsNothing, SMTT(60)
        <4> QED BY <1>4, <4>1, <4>2, SMTT(60)
      <3> QED BY <1>0, <1>4, <3>1, SMTT(60)
    <2>5. \A q \in Objs : refs'[q] = Tomb => creation'[q] = {}
      BY <1>4, <2>3, SMTT(60) DEF PInv, TombInv
    <2>6. call'[Gov].pc \in {"claim", "delete"} => map'[call'[Gov].tip] = call'[Gov].obj
      BY <1>4, <2>0, <2>1, <2>2, SMTT(60) DEF PInv, TombInv
    <2>7. call'[Gov].pc = "delete" => refs'[call'[Gov].obj] = Tomb
      BY <1>4, <2>0, <2>1, SMTT(60) DEF PInv, TombInv
    <2> QED BY <2>4, <2>5, <2>6, <2>7, SMTT(60) DEF TombInv
  <1>12. MuInv'
    <2>1. ASSUME NEW b \in Actors, call'[b].pc \in {"record", "drop"}
          PROVE  b # a /\ call'[b] = call[b] /\ call[b].obj \in Objs /\ call[b].obj # o
      BY <1>1, <1>5, <1>6, <2>1, ZenonT(60) DEF PInv, FrameInv, WellFormed, Fresh
    <2>2. ASSUME NEW b \in Actors, call'[b].pc \in {"record", "drop"}
          PROVE  /\ mu'[call'[b].obj] = b /\ refs'[call'[b].obj] # Tomb
                 /\ call'[b].keys \cap creation'[call'[b].obj] = {}
      <3>1. /\ mu[call[b].obj] = b /\ refs[call[b].obj] # Tomb
            /\ call[b].keys \cap creation[call[b].obj] = {}
        BY <2>1, <2>2, ZenonT(60) DEF PInv, MuInv
      <3>2. b # a /\ call'[b] = call[b] /\ call[b].obj \in Objs /\ call[b].obj # o
        BY <2>1, <2>2, ZenonT(60)
      <3> QED BY <1>4, <1>7, <3>1, <3>2, SMTT(60)
    <2> QED BY <2>2, SMTT(60) DEF MuInv
  <1>13. Elsewhere(a, t, o)
    BY <1>0, <1>1, <1>2, <1>4, <1>5, <1>6, ZenonT(60) DEF Elsewhere, Fresh
  <1>14. Live(t)' /\ ~Live(t) /\ HeldBy(t)' = K
    <2>1. Midway(o)' = {}
      BY <1>8 DEF Midway
    <2>2. KeysMidway(o)' = {}
      BY <2>1, SMTT(60) DEF KeysMidway
    <2>3. ~Live(t)
      BY <1>0, ZenonT(60) DEF Live
    <2>4. PinsOf(t)' = {}
      BY <1>0, <1>2, <2>3, NoneIsNothing, ZenonT(60) DEF PInv, PinnedIsResident, PinsOf
    <2>5. Live(t)'
      BY <1>3, <1>4 DEF Live
    <2>6. HeldBy(t)' = K
      BY <1>4, <2>2, <2>4, <2>5, SMTT(60) DEF HeldBy
    <2> QED BY <2>3, <2>5, <2>6
  <1>15. Stored(t, K)
    <2>1. Others(t)
      BY <1>13, ElsewhereHolders, ZenonT(60) DEF Others
    <2>2. HeldBy(t)' = HeldBy(t) \cup K
      BY <1>14, SMTT(60) DEF HeldBy
    <2> QED BY <1>14, <2>1, <2>2 DEF Stored
  <1>16. PinnedIsResident' /\ RefsExact'
    <2>1. pinned' \in [Pins -> Tips \cup {None}]
      BY <1>0, <1>2, Zenon DEF TypeOK
    <2>2. refs'[map'[t]] = Cardinality(HeldBy(t)')
      BY <1>4, <1>14
    <2> QED BY <1>13, <1>14, <2>1, <2>2, ElsewhereCounts, Zenon
  <1>17. TypeOK'
    <2>1. bytes' \in Int /\ owed' \in [Tips -> SUBSET Keys]
      BY <1>0, <1>2, <1>3, SMTT(60) DEF TypeOK
    <2> QED BY <1>0, <1>2, <1>4, <1>6, <1>7, <2>1, ZenonT(60) DEF TypeOK
  <1> QED BY <1>0, <1>6, <1>9, <1>10, <1>11, <1>12, <1>15, <1>16, <1>17, ZenonT(60) DEF PInv

(***************************************************************************)
(* put on a resident vertex counts the keys that are missing.              *)
(***************************************************************************)
LEMMA PutOwnInv ==
    ASSUME PInv, Counting, NEW a \in Actors, PutOwn(a)
    PROVE  /\ PInv'
           /\ \/ Same /\ (refs[call[a].obj] # Tomb => call[a].keys \subseteq creation[call[a].obj])
              \/ \E t \in Tips, M \in SUBSET Keys :
                    /\ t = call[a].tip /\ map[t] = call[a].obj
                    /\ M = call[a].keys \ creation[call[a].obj] /\ Stored(t, M)
  <1>a. /\ TypeOK /\ WellFormed(a, call[a]) /\ call[a].pc = "own" /\ call[a] \in Frames
        /\ call[a].tip \in Tips /\ call[a].obj \in Objs /\ call[a].keys \in SUBSET Keys
        /\ call[a].pin = None /\ a # Gov /\ mu[call[a].obj] = None
    BY DEF PInv, FrameInv, WellFormed, PutOwn, Frames
  <1>b. PICK t \in Tips : t = call[a].tip
    BY <1>a
  <1>c. PICK o \in Objs : o = call[a].obj
    BY <1>a
  <1>d. PICK M \in SUBSET Keys : M = call[a].keys \ creation[o]
    BY <1>a, Zenon
  <1>e. /\ owed' \in [Tips -> SUBSET Keys]
        /\ UNCHANGED <<map, creation, durable, queue, pending, left, bytes, pinned>>
    BY <1>a DEF PutOwn, TypeOK
  <1>1. CASE M = {} \/ refs[o] < 0
    <2>1. Return(a) /\ UNCHANGED refs
      BY <1>1, <1>c, <1>d, SMTT(60) DEF PutOwn, missingCreationKeys
    <2>0. call[a].pc \notin {"record", "drop"} /\ UNCHANGED <<map, refs, creation, pinned>>
      BY <1>a, <1>e, <2>1
    <2>2. /\ FrameInv' /\ PinsApart' /\ MapInv' /\ TombInv' /\ MuInv'
          /\ PinnedIsResident' /\ RefsExact' /\ Same
          /\ call' \in [Actors -> Frames]
          /\ mu' \in [Objs -> Actors \cup {None}]
          /\ lock' \in [Tips -> Actors \cup {None}]
      BY <1>e, <2>0, <2>1, QuietReturn, ZenonT(60)
    <2>3. TypeOK'
      BY <1>a, <1>e, <2>1, <2>2 DEF TypeOK
    <2>4. refs[o] # Tomb => call[a].keys \subseteq creation[o]
      BY <1>1, <1>a, <1>d DEF TypeOK, Tomb
    <2> QED BY <1>c, <2>2, <2>3, <2>4, ZenonT(60) DEF PInv
  <1>2. CASE M # {} /\ ~(refs[o] < 0)
    <2> DEFINE f == [call[a] EXCEPT !.pc = "record", !.keys = M]
    <2>1. /\ refs' = [refs EXCEPT ![o] = @ + Cardinality(M)]
          /\ mu' = [mu EXCEPT ![o] = a]
          /\ call' = [call EXCEPT ![a] = f]
          /\ UNCHANGED lock
      BY <1>2, <1>a, <1>c, <1>d, Zenon DEF PutOwn, missingCreationKeys, TypeOK
    <2>2. /\ f.pc = "record" /\ f.tip = t /\ f.obj = o /\ f.keys = M /\ f.pin = None
          /\ f \in Frames
      BY <1>a, <1>b, <1>c, <1>d, Zenon DEF Frames, Steps
    <2>3. WellFormed(a, f)
      BY <1>2, <1>a, <2>2, SMTT(60) DEF WellFormed
    <2> HIDE DEF f
    <2>4. Cardinality(M) \in Nat /\ refs[o] \in Nat /\ mu[o] = None
      BY <1>2, <1>a, <1>c, KeySets, SMTT(60) DEF TypeOK, vertexTombstone
    <2>5. /\ refs'[o] = refs[o] + Cardinality(M) /\ refs'[o] \in Nat
          /\ \A q \in Objs : q # o => refs'[q] = refs[q]
          /\ refs' \in [Objs -> Nat \cup {vertexTombstone}]
          /\ mu' \in [Objs -> Actors \cup {None}] /\ mu'[o] = a
          /\ \A b \in Actors, q \in Objs : b # a /\ mu[q] = b => mu'[q] = b
      BY <1>a, <2>1, <2>4, NoneIsNothing, SMTT(60) DEF TypeOK, Actors
    <2>6. refs[o] # Tomb /\ refs'[o] # Tomb /\ refs'[o] >= 0
      BY <2>4, <2>5, SMTT(60) DEF Tomb, vertexTombstone
    <2>7. map[t] = o /\ Live(t)
      BY <1>b, <1>c, <2>6, LoadedIsPublished, SMTT(60)
    <2>8. Midway(o) = {}
      BY <2>4, NoneIsNothing DEF PInv, MuInv, Midway, Actors
    <2>9. /\ call'[a] = f /\ call' \in [Actors -> Frames]
          /\ \A b \in Actors : b # a => call'[b] = call[b]
      BY <2>1, <2>3, OneFrame, Zenon
    <2>10. Live(t)' /\ HeldBy(t)' = HeldBy(t) \cup M /\ refs'[o] = Cardinality(HeldBy(t)')
      <3>1. HeldBy(t) = creation[o] \cup PinsOf(t)
        BY <2>4, <2>7, HeldByFree
      <3>2. Midway(o)' = {a}
        BY <2>2, <2>8, <2>9 DEF Midway
      <3>3. KeysMidway(o)' = M
        BY <2>2, <2>9, <3>2, SMTT(60) DEF KeysMidway
      <3>0. Live(t)'
        BY <1>e, <2>6, <2>7 DEF Live
      <3>4. HeldBy(t)' = HeldBy(t) \cup M
        BY <1>e, <2>7, <3>0, <3>1, <3>3 DEF HeldBy, PinsOf
      <3>5. HeldBy(t) \in SUBSET (Keys \cup Pins) /\ M \in SUBSET (Keys \cup Pins)
        BY HoldersOnly
      <3>6. HeldBy(t) \cap M = {}
        BY <1>d, <3>1, FiniteHolders DEF PinsOf
      <3>7. Cardinality(HeldBy(t) \cup M) = Cardinality(HeldBy(t)) + Cardinality(M)
        BY <3>5, <3>6 DEF Counting
      <3>8. refs[o] = Cardinality(HeldBy(t))
        BY <2>7, SMTT(60) DEF PInv, RefsExact
      <3> QED BY <2>5, <3>0, <3>4, <3>7, <3>8, ZenonT(60)
    <2>11. HolderStep(a, f, t, o)
      <3>1. M \cap creation[o] = {}
        BY <1>d, SMTT(60)
      <3>2. pinned' \in [Pins -> Tips \cup {None}] /\ \A p \in Pins : pinned'[p] = pinned[p]
        BY <1>a, <1>e, SMTT(60) DEF TypeOK
      <3>3. call[a].pc \notin {"record", "drop"} /\ a # Gov
        BY <1>a
      <3>4. f.pc \notin {"claim", "delete"} /\ \A q \in Objs : creation'[q] = creation[q]
        BY <1>e, <2>2
      <3>5. f.keys \cap creation'[o] = {}
        BY <2>2, <3>1, <3>4, Zenon
      <3>6. \A b \in Midway(o) : FALSE
        BY <2>8, Zenon
      <3>7. map' = map
        BY <1>e, Zenon
      <3> QED BY <2>1, <2>2, <2>5, <2>6, <2>7, <2>10, <3>2, <3>3, <3>4, <3>5, <3>6, <3>7,
                 ZenonT(60) DEF HolderStep
    <2>12. /\ FrameInv' /\ PinsApart' /\ MapInv' /\ TombInv' /\ MuInv'
           /\ PinnedIsResident' /\ RefsExact' /\ Others(t)
      BY <2>3, <2>11, HolderStepInv, ZenonT(60)
    <2>13. TypeOK'
      BY <1>a, <1>e, <2>1, <2>5, <2>9, ZenonT(60) DEF TypeOK
    <2>14. Stored(t, M)
      BY <2>10, <2>12, ZenonT(60) DEF Stored
    <2> QED BY <1>b, <1>c, <1>d, <2>7, <2>12, <2>13, <2>14, ZenonT(60) DEF PInv
  <1> QED BY <1>1, <1>2, <1>a, <1>c, SMTT(60) DEF TypeOK

(***************************************************************************)
(* put records the keys it counted.                                        *)
(***************************************************************************)
LEMMA PutRecordInv ==
    ASSUME PInv, Counting, NEW a \in Actors, PutRecord(a)
    PROVE  PInv' /\ Same
  <1>a. /\ TypeOK /\ WellFormed(a, call[a]) /\ call[a].pc = "record"
        /\ call[a].keys \in SUBSET Keys /\ a # Gov
    <2>1. TypeOK /\ WellFormed(a, call[a]) /\ call[a].pc = "record"
      BY Zenon DEF PInv, FrameInv, PutRecord
    <2>2. call[a].keys \in SUBSET Keys /\ a # Gov
      BY <2>1, SMTT(60) DEF WellFormed, Frames
    <2> QED BY <2>1, <2>2, Zenon
  <1>b. /\ call[a].tip \in Tips /\ call[a].obj \in Objs
        /\ map[call[a].tip] = call[a].obj /\ Live(call[a].tip)
        /\ a \in Midway(map[call[a].tip])
        /\ mu[call[a].obj] = a
    BY <1>a, MidwayLive
  <1>c. PICK t \in Tips : t = call[a].tip
    BY <1>b
  <1>d. PICK o \in Objs : o = call[a].obj
    BY <1>b
  <1>e. PICK M \in SUBSET Keys : M = call[a].keys
    BY <1>a, SMTT(60)
  <1>1. /\ creation' = [creation EXCEPT ![o] = @ \cup M]
        /\ bytes' = bytes + Cardinality(M)
        /\ call' = [call EXCEPT ![a] = Idle] /\ Unlock(a)
        /\ UNCHANGED <<map, refs, durable, queue, pending, left, pinned, owed>>
    BY <1>d, <1>e, SMTT(60) DEF PutRecord, Return
  <1>2. /\ creation'[o] = creation[o] \cup M
        /\ \A q \in Objs : q # o => creation'[q] = creation[q]
        /\ creation' \in [Objs -> SUBSET Keys]
        /\ bytes' \in Int
    <2>1. creation \in [Objs -> SUBSET Keys] /\ bytes \in Int
      BY <1>a, Zenon DEF TypeOK
    <2>2. creation' = [creation EXCEPT ![o] = @ \cup M] /\ bytes' = bytes + Cardinality(M)
      BY <1>1, Zenon
    <2>3. Cardinality(M) \in Nat
      BY KeySets
    <2> QED BY <2>1, <2>2, <2>3
  <1>3. /\ mu' \in [Objs -> Actors \cup {None}]
        /\ lock' \in [Tips -> Actors \cup {None}]
        /\ \A b \in Actors, q \in Objs : b # a /\ mu[q] = b => mu'[q] = b
    BY <1>1, UnlockKeeps, SMTT(60)
  <1>4. WellFormed(a, Idle) /\ Idle.pc = "idle" /\ Idle.obj = None /\ Idle.pin = None
    BY IdleFrame, SMTT(60) DEF Idle, Frame
  <1>5. map[t] = o /\ Live(t) /\ Midway(o) = {a} /\ refs[o] # Tomb
    BY <1>a, <1>b, <1>c, <1>d DEF PInv, MuInv, Midway
  <1>6. /\ call'[a] = Idle /\ call' \in [Actors -> Frames]
        /\ \A b \in Actors : b # a => call'[b] = call[b]
    BY <1>1, <1>4, OneFrame, ZenonT(60)
  <1>7. Live(t)' /\ HeldBy(t)' = HeldBy(t) /\ refs'[o] = Cardinality(HeldBy(t)')
    <2>1. HeldBy(t) = creation[o] \cup M \cup PinsOf(t)
      BY <1>b, <1>c, <1>d, <1>e, <1>5, HeldByOne, SMTT(60)
    <2>2. Midway(o)' = {}
      BY <1>4, <1>5, <1>6 DEF Midway
    <2>3. KeysMidway(o)' = {}
      BY <2>2, SMTT(60) DEF KeysMidway
    <2>4. Live(t)'
      BY <1>1, <1>5 DEF Live
    <2>5. HeldBy(t)' = HeldBy(t)
      BY <1>1, <1>2, <1>5, <2>1, <2>3, <2>4, SMTT(60) DEF HeldBy, PinsOf
    <2>6. refs[o] = Cardinality(HeldBy(t))
      BY <1>5, ZenonT(60) DEF PInv, RefsExact
    <2>7. refs' = refs
      BY <1>1, Zenon
    <2> QED BY <2>4, <2>5, <2>6, <2>7, Zenon
  <1>8. HolderStep(a, Idle, t, o)
    <2>1. pinned' \in [Pins -> Tips \cup {None}] /\ \A p \in Pins : pinned'[p] = pinned[p]
      BY <1>a, <1>1 DEF TypeOK
    <2>2. refs' = refs /\ refs[o] >= 0
      BY <1>1, <1>5, Zenon DEF Live
    <2>3. call[a].obj = o /\ refs' = refs /\ map' = map
      BY <1>d, <1>1, Zenon
    <2>4. \A b \in Midway(o) : b = a
      BY <1>5, Zenon
    <2>5. Idle.pc \notin {"claim", "delete", "record", "drop"}
      BY <1>4
    <2> QED BY <1>a, <1>1, <1>2, <1>3, <1>4, <1>5, <1>7, <2>1, <2>2, <2>3, <2>4, <2>5, ZenonT(60)
            DEF HolderStep
  <1>9. /\ FrameInv' /\ PinsApart' /\ MapInv' /\ TombInv' /\ MuInv'
        /\ PinnedIsResident' /\ RefsExact' /\ Others(t)
    BY <1>4, <1>8, HolderStepInv, ZenonT(60)
  <1>10. TypeOK'
    BY <1>a, <1>1, <1>2, <1>3, <1>6 DEF TypeOK
  <1>11. Same
    BY <1>5, <1>7, <1>9 DEF Same, Others
  <1> QED BY <1>9, <1>10, <1>11 DEF PInv

(***************************************************************************)
(* incref counts the pin, or finds the tombstone.                          *)
(***************************************************************************)
LEMMA IncrefSwapInv ==
    ASSUME PInv, Counting, NEW a \in Actors, increfSwap(a)
    PROVE  PInv' /\ (Same \/ \E t \in Tips, p \in Pins : t = call[a].tip /\ Held(t, p))
  <1>a. /\ TypeOK /\ WellFormed(a, call[a]) /\ call[a].pc = "incref"
        /\ call[a].obj \in Objs /\ call[a].tip \in Tips
        /\ call[a].pin \in Pins /\ pinned[call[a].pin] = None /\ a # Gov
    <2>1. TypeOK /\ FrameInv /\ PinsApart
      BY Zenon DEF PInv
    <2>2. WellFormed(a, call[a]) /\ call[a].pc = "incref"
      BY <2>1, Zenon DEF FrameInv, increfSwap
    <2>3. call[a].obj \in Objs /\ call[a].tip \in Tips /\ call[a].pin \in Pins /\ a # Gov
      BY <2>2, SMTT(60) DEF WellFormed, Frames
    <2>4. pinned[call[a].pin] = None
      BY <2>1, <2>3, NoneIsNothing, Zenon DEF PinsApart
    <2> QED BY <2>1, <2>2, <2>3, <2>4, Zenon
  <1>b. PICK t \in Tips : t = call[a].tip
    BY <1>a
  <1>c. PICK o \in Objs : o = call[a].obj
    BY <1>a
  <1>d. PICK p \in Pins : p = call[a].pin
    BY <1>a
  <1>e. Return(a) /\ UNCHANGED <<map, creation, durable, queue, pending, left, bytes, owed>>
    BY DEF increfSwap
  <1>1. CASE refs[o] < 0
    <2>1. UNCHANGED <<refs, pinned>>
      BY <1>1, <1>c, SMTT(60) DEF increfSwap
    <2>0. call[a].pc \notin {"record", "drop"} /\ UNCHANGED <<map, refs, creation, pinned>>
      BY <1>a, <1>e, <2>1
    <2>2. /\ FrameInv' /\ PinsApart' /\ MapInv' /\ TombInv' /\ MuInv'
          /\ PinnedIsResident' /\ RefsExact' /\ Same
          /\ call' \in [Actors -> Frames]
          /\ mu' \in [Objs -> Actors \cup {None}]
          /\ lock' \in [Tips -> Actors \cup {None}]
      BY <1>e, <2>0, <2>1, QuietReturn, ZenonT(60)
    <2>3. TypeOK'
      BY <1>a, <1>e, <2>1, <2>2 DEF TypeOK
    <2> QED BY <2>2, <2>3, SMTT(60) DEF PInv
  <1>2. CASE ~(refs[o] < 0)
    <2>1. /\ refs' = [refs EXCEPT ![o] = @ + 1]
          /\ pinned' = [pinned EXCEPT ![p] = t]
          /\ call' = [call EXCEPT ![a] = Idle] /\ Unlock(a)
      BY <1>2, <1>b, <1>c, <1>d, <1>e, SMTT(60) DEF increfSwap, Return
    <2>2. refs[o] \in Nat
      BY <1>2, <1>a, <1>c, SMTT(60) DEF TypeOK, vertexTombstone
    <2>3. /\ refs'[o] = refs[o] + 1 /\ refs'[o] \in Nat
          /\ \A q \in Objs : q # o => refs'[q] = refs[q]
          /\ refs' \in [Objs -> Nat \cup {vertexTombstone}]
      BY <1>a, <2>1, <2>2, SMTT(60) DEF TypeOK
    <2>4. /\ pinned'[p] = t /\ \A q \in Pins : q # p => pinned'[q] = pinned[q]
          /\ pinned' \in [Pins -> Tips \cup {None}]
      BY <1>a, <2>1, SMTT(60) DEF TypeOK
    <2>5. /\ mu' \in [Objs -> Actors \cup {None}]
          /\ lock' \in [Tips -> Actors \cup {None}]
          /\ \A b \in Actors, q \in Objs : b # a /\ mu[q] = b => mu'[q] = b
      BY <2>1, UnlockKeeps, SMTT(60)
    <2>6. WellFormed(a, Idle) /\ Idle.pc = "idle" /\ Idle.obj = None /\ Idle.pin = None
      BY IdleFrame DEF Idle, Frame
    <2>7. refs[o] # Tomb /\ refs'[o] # Tomb /\ refs'[o] >= 0
      BY <2>2, <2>3, SMTT(60) DEF Tomb, vertexTombstone
    <2>8. map[t] = o /\ Live(t)
      BY <1>b, <1>c, <2>7, LoadedIsPublished
    <2>9. /\ call'[a] = Idle /\ call' \in [Actors -> Frames]
          /\ \A b \in Actors : b # a => call'[b] = call[b]
      BY <2>1, <2>6, OneFrame, Zenon
    <2>10. Live(t)' /\ HeldBy(t)' = HeldBy(t) \cup {p} /\ refs'[o] = Cardinality(HeldBy(t)')
      <3>1. KeysMidway(o)' = KeysMidway(o)
        <4>1. Midway(o)' = Midway(o)
          BY <1>a, <2>6, <2>9, SMTT(60) DEF Midway
        <4>2. \A b \in Midway(o) : call'[b] = call[b]
          BY <1>a, <2>9 DEF Midway
        <4> QED BY <4>1, <4>2, ZenonT(60) DEF KeysMidway
      <3>2. PinsOf(t)' = PinsOf(t) \cup {p}
        BY <2>4, SMTT(60) DEF PinsOf
      <3>0. Live(t)'
        BY <1>e, <2>7, <2>8 DEF Live
      <3>3. HeldBy(t)' = HeldBy(t) \cup {p}
        BY <1>e, <2>8, <3>0, <3>1, <3>2, SMTT(60) DEF HeldBy
      <3>4. p \notin HeldBy(t)
        <4>1. p \notin PinsOf(t) /\ p \notin Keys
          BY <1>a, <1>d, FiniteHolders, NoneIsNothing, SMTT(60) DEF PinsOf
        <4>2. creation[o] \subseteq Keys
          BY <1>a, SMTT(60) DEF TypeOK
        <4>3. KeysMidway(o) \subseteq Keys
          BY <1>a DEF KeysMidway, Midway, TypeOK, Frames
        <4> QED BY <2>8, <4>1, <4>2, <4>3, SMTT(60) DEF HeldBy
      <3>5. Cardinality(HeldBy(t) \cup {p}) = Cardinality(HeldBy(t)) + 1
        BY <3>4, HoldersOnly DEF Counting
      <3>6. refs[o] = Cardinality(HeldBy(t))
        BY <2>8 DEF PInv, RefsExact
      <3> QED BY <2>3, <3>0, <3>3, <3>5, <3>6, Zenon
    <2>11. HolderStep(a, Idle, t, o)
      <3>1. \A q \in Pins : \/ pinned'[q] = pinned[q]
                            \/ pinned[q] = None /\ pinned'[q] = t /\ q = call[a].pin
        BY <1>a, <1>d, <2>4, SMTT(60)
      <3>2. call[a].pc \notin {"record", "drop"} /\ a # Gov
        BY <1>a
      <3> QED BY <1>e, <2>1, <2>3, <2>4, <2>5, <2>6, <2>7, <2>8, <2>10, <3>1, <3>2, ZenonT(60)
              DEF HolderStep
    <2>12. /\ FrameInv' /\ PinsApart' /\ MapInv' /\ TombInv' /\ MuInv'
           /\ PinnedIsResident' /\ RefsExact' /\ Others(t)
      BY <2>6, <2>11, HolderStepInv, ZenonT(60)
    <2>13. TypeOK'
      BY <1>a, <1>e, <2>3, <2>4, <2>5, <2>9, ZenonT(60) DEF TypeOK
    <2>14. Held(t, p)
      BY <2>8, <2>10, <2>12, ZenonT(60) DEF Held
    <2> QED BY <1>b, <2>12, <2>13, <2>14, ZenonT(60) DEF PInv
  <1> QED BY <1>1, <1>2, SMTT(60)

=============================================================================
