-------------------------- MODULE VertexPoolDrops ---------------------------
(***************************************************************************)
(* The steps that drop a reference, and the one that claims a vertex       *)
(* nobody refers to, preserve the invariant.                               *)
(***************************************************************************)
EXTENDS VertexPoolSteps

(***************************************************************************)
(* decref of a pin.                                                        *)
(***************************************************************************)
LEMMA DecrefInv ==
    ASSUME PInv, Counting, NEW a \in Threads, NEW p \in Pins, decref(a, p)
    PROVE  PInv' /\ \E t \in Tips : t = pinned[p] /\ LetGo(t, p)
  <1>a. /\ TypeOK /\ a \in Actors /\ a # Gov /\ call[a] = Idle
        /\ pinned[p] \in Tips /\ Live(pinned[p]) /\ map[pinned[p]] \in Objs
    BY FiniteThreads, SMTT(60) DEF PInv, TypeOK, decref, CanStart, Actors, PinnedIsResident, Live
  <1>b. PICK t \in Tips : t = pinned[p]
    BY <1>a
  <1>c. PICK o \in Objs : o = map[t]
    BY <1>a, <1>b, SMTT(60)
  <1>d. o # None /\ refs[o] >= 0
    BY <1>a, <1>b, <1>c, SMTT(60) DEF Live
  <1> DEFINE f == IF refs[o] = 1 THEN Frame("enqueue", t, o, {}, None) ELSE Idle
  <1>1. /\ refs' = [refs EXCEPT ![o] = @ - 1]
        /\ pinned' = [pinned EXCEPT ![p] = None]
        /\ call' = [call EXCEPT ![a] = f]
        /\ UNCHANGED <<map, creation, mu, lock, durable, queue, pending, left, bytes, owed>>
    BY <1>b, <1>c, <1>d DEF decref, Decrement, ReachesZero
  <1>2. WellFormed(a, f)
    BY <1>a, IdleFrame, ZenonT(60) DEF WellFormed, Frame, Frames, Steps, Idle
  <1>3. /\ f.pc \in {"idle", "enqueue"} /\ f.pin = None
        /\ f.obj # None => f.obj = o /\ f.tip = t
    BY DEF Frame, Idle
  <1> HIDE DEF f
  <1>4. /\ call'[a] = f /\ call' \in [Actors -> Frames]
        /\ \A b \in Actors : b # a => call'[b] = call[b]
    BY <1>a, <1>1, <1>2, OneFrame, ZenonT(60)
  <1>5. call[a].pc = "idle" /\ call[a].pin = None
    BY <1>a DEF Idle, Frame
  <1>6. p \in HeldBy(t) /\ refs[o] = Cardinality(HeldBy(t)) /\ HeldBy(t) \in SUBSET (Keys \cup Pins)
    BY <1>a, <1>b, <1>c, HoldersOnly, ZenonT(60) DEF PInv, RefsExact, HeldBy, PinsOf
  <1>7. /\ Cardinality(HeldBy(t)) \in Nat /\ Cardinality(HeldBy(t)) >= 1
        /\ Cardinality(HeldBy(t) \ {p}) = Cardinality(HeldBy(t)) - 1
    BY <1>6, OneLess, SMTT(60)
  <1>8. /\ refs'[o] = refs[o] - 1 /\ refs'[o] \in Nat
        /\ \A q \in Objs : q # o => refs'[q] = refs[q]
        /\ refs' \in [Objs -> Nat \cup {vertexTombstone}]
    BY <1>a, <1>1, <1>6, <1>7, SMTT(60) DEF TypeOK
  <1>9. /\ pinned'[p] = None /\ \A q \in Pins : q # p => pinned'[q] = pinned[q]
        /\ pinned' \in [Pins -> Tips \cup {None}]
    BY <1>a, <1>1 DEF TypeOK
  <1>10. Live(t)' /\ HeldBy(t)' = HeldBy(t) \ {p} /\ refs'[o] = Cardinality(HeldBy(t)')
    <2>1. KeysMidway(o)' = KeysMidway(o)
      <3>1. Midway(o)' = Midway(o)
        BY <1>3, <1>4, <1>5, SMTT(60) DEF Midway
      <3>2. \A b \in Midway(o) : call'[b] = call[b]
        BY <1>4, <1>5 DEF Midway
      <3> QED BY <3>1, <3>2, ZenonT(60) DEF KeysMidway
    <2>2. PinsOf(t)' = PinsOf(t) \ {p}
      BY <1>9, NoneIsNothing, SMTT(60) DEF PinsOf
    <2>3. p \notin creation[o] /\ p \notin KeysMidway(o)
      BY <1>a, FiniteHolders, SMTT(60) DEF TypeOK, KeysMidway, Midway, Frames
    <2>4. Live(t)'
      BY <1>c, <1>d, <1>1, <1>8 DEF Live
    <2>5. HeldBy(t)' = HeldBy(t) \ {p}
      BY <1>a, <1>b, <1>c, <1>1, <2>1, <2>2, <2>3, <2>4 DEF HeldBy
    <2> QED BY <1>6, <1>7, <1>8, <2>4, <2>5, Zenon
  <1>11. HolderStep(a, f, t, o)
    <2>1. \A q \in Pins : pinned'[q] = pinned[q] \/ (pinned[q] = t /\ pinned'[q] = None)
      BY <1>b, <1>9
    <2>2. refs[o] # Tomb /\ refs'[o] # Tomb /\ refs'[o] >= 0
      BY <1>d, <1>8 DEF Tomb, vertexTombstone
    <2>3. map[t] = o
      BY <1>c
    <2> QED BY <1>a, <1>1, <1>3, <1>5, <1>8, <1>9, <1>10, <2>1, <2>2, <2>3, ZenonT(60) DEF HolderStep
  <1>12. /\ FrameInv' /\ PinsApart' /\ MapInv' /\ TombInv' /\ MuInv'
         /\ PinnedIsResident' /\ RefsExact' /\ Others(t)
    BY <1>a, <1>2, <1>11, HolderStepInv, ZenonT(60)
  <1>13. TypeOK'
    BY <1>a, <1>1, <1>4, <1>8, <1>9, SMTT(60) DEF TypeOK
  <1>14. LetGo(t, p)
    BY <1>a, <1>b, <1>6, <1>10, <1>12, ZenonT(60) DEF LetGo
  <1> QED BY <1>b, <1>12, <1>13, <1>14, ZenonT(60) DEF PInv

(***************************************************************************)
(* decrefChainNode takes the evicted key off the creation keys, or finds   *)
(* that it owns nothing.                                                   *)
(***************************************************************************)
LEMMA ChainRemoveInv ==
    ASSUME PInv, Counting, NEW a \in Actors, ChainRemove(a)
    PROVE  PInv' /\ Same
  <1>a. /\ TypeOK /\ WellFormed(a, call[a]) /\ call[a].pc = "chain" /\ call[a] \in Frames
        /\ call[a].obj \in Objs /\ call[a].tip \in Tips /\ call[a].pin = None /\ a # Gov
        /\ \E k \in Keys : call[a].keys = {k}
    BY Zenon DEF PInv, FrameInv, WellFormed, ChainRemove, Frames
  <1>b. PICK t \in Tips : t = call[a].tip
    BY <1>a, SMTT(60)
  <1>c. PICK o \in Objs : o = call[a].obj
    BY <1>a
  <1>d. PICK k \in Keys : call[a].keys = {k}
    BY <1>a, SMTT(60)
  <1>e. /\ mu[o] = None /\ owed' = [owed EXCEPT ![t] = @ \ {k}]
        /\ UNCHANGED <<map, refs, durable, queue, pending, left, pinned>>
    BY <1>b, <1>c, <1>d, SMTT(60) DEF ChainRemove
  <1>f. owed' \in [Tips -> SUBSET Keys]
    BY <1>a, <1>e, SMTT(60) DEF TypeOK
  <1>1. CASE k \notin creation[o]
    <2>1. Return(a) /\ UNCHANGED <<creation, bytes>>
      BY <1>1, <1>c, <1>d, SMTT(60) DEF ChainRemove
    <2>2. /\ FrameInv' /\ PinsApart' /\ MapInv' /\ TombInv' /\ MuInv'
          /\ PinnedIsResident' /\ RefsExact' /\ Same
          /\ call' \in [Actors -> Frames]
          /\ mu' \in [Objs -> Actors \cup {None}]
          /\ lock' \in [Tips -> Actors \cup {None}]
      BY <1>a, <1>e, <2>1, QuietReturn, SMTT(60)
    <2>3. TypeOK'
      BY <1>a, <1>e, <1>f, <2>1, <2>2 DEF TypeOK
    <2> QED BY <2>2, <2>3 DEF PInv
  <1>2. CASE k \in creation[o]
    <2> DEFINE f == [call[a] EXCEPT !.pc = "drop"]
    <2>1. /\ creation' = [creation EXCEPT ![o] = @ \ {k}]
          /\ bytes' = bytes - Cardinality({k})
          /\ mu' = [mu EXCEPT ![o] = a]
          /\ call' = [call EXCEPT ![a] = f]
          /\ UNCHANGED lock
      BY <1>2, <1>a, <1>c, <1>d, Zenon DEF ChainRemove, Goto, TypeOK
    <2>2. /\ f.pc = "drop" /\ f.tip = t /\ f.obj = o /\ f.keys = {k} /\ f.pin = None
          /\ f \in Frames
      BY <1>a, <1>b, <1>c, <1>d DEF Frames, Steps
    <2>3. WellFormed(a, f)
      BY <1>a, <2>2 DEF WellFormed
    <2> HIDE DEF f
    <2>4. /\ call'[a] = f /\ call' \in [Actors -> Frames]
          /\ \A b \in Actors : b # a => call'[b] = call[b]
      BY <2>1, <2>3, OneFrame, ZenonT(60)
    <2>5. /\ creation'[o] = creation[o] \ {k} /\ mu'[o] = a
          /\ creation' \in [Objs -> SUBSET Keys] /\ mu' \in [Objs -> Actors \cup {None}]
          /\ \A q \in Objs : q # o => creation'[q] = creation[q] /\ mu'[q] = mu[q]
      BY <1>a, <2>1, SMTT(60) DEF TypeOK
    <2>6. refs[o] # Tomb
      BY <1>2, SMTT(60) DEF PInv, TombInv
    <2>7. map[t] = o /\ Live(t)
      BY <1>b, <1>c, <2>6, LoadedIsPublished
    <2>8. \A b \in Actors : b # None
      BY NoneIsNothing, SMTT(60) DEF Actors
    <2>9. Midway(o) = {}
      BY <1>e, <2>8, SMTT(60) DEF PInv, MuInv, Midway
    <2>10. Midway(o)' = {a}
      BY <2>2, <2>4, <2>9, SMTT(60) DEF Midway
    <2>11. Live(t)' /\ HeldBy(t)' = HeldBy(t) /\ refs'[o] = Cardinality(HeldBy(t)')
      <3>1. KeysMidway(o)' = {k}
        BY <2>2, <2>4, <2>10, SMTT(60) DEF KeysMidway
      <3>2. PinsOf(t)' = PinsOf(t)
        BY <1>e, SMTT(60) DEF PinsOf
      <3>3. HeldBy(t) = creation[o] \cup PinsOf(t)
        BY <1>e, <2>7, HeldByFree, SMTT(60)
      <3>0. Live(t)'
        BY <1>e, <2>7 DEF Live
      <3>4. HeldBy(t)' = (creation[o] \ {k}) \cup {k} \cup PinsOf(t)
        BY <1>e, <2>5, <2>7, <3>0, <3>1, <3>2, SMTT(60) DEF HeldBy
      <3>5. (creation[o] \ {k}) \cup {k} = creation[o]
        BY <1>2
      <3>6. refs[o] = Cardinality(HeldBy(t))
        BY <2>7 DEF PInv, RefsExact
      <3> QED BY <1>e, <3>0, <3>3, <3>4, <3>5, <3>6, SMTT(60)
    <2>12. HolderStep(a, f, t, o)
      <3>1. /\ refs'[o] = refs[o] /\ pinned' = pinned /\ pinned \in [Pins -> Tips \cup {None}]
            /\ \A q \in Objs : q # o => refs'[q] = refs[q] /\ creation'[q] = creation[q]
        BY <1>a, <1>e, <2>5, Zenon DEF TypeOK
      <3>2. \A b \in Actors, q \in Objs : b # a /\ mu[q] = b => mu'[q] = b
        BY <1>e, <2>5, <2>8, ZenonT(60)
      <3>3. \A p \in Pins : pinned'[p] = pinned[p]
        BY <3>1, SMTT(60)
      <3>4. refs'[o] >= 0
        BY <2>7, <3>1, SMTT(60) DEF Live
      <3>5. f.keys \cap creation'[o] = {}
        BY <2>2, <2>5, SMTT(60)
      <3>6. call[a].pc \notin {"record", "drop"} /\ f.pc \notin {"claim", "delete"}
        BY <1>a, <2>2
      <3> QED BY <1>a, <1>e, <2>1, <2>2, <2>5, <2>6, <2>7, <2>9, <2>11,
                 <3>1, <3>2, <3>3, <3>4, <3>5, <3>6, ZenonT(60) DEF HolderStep
    <2>13. /\ FrameInv' /\ PinsApart' /\ MapInv' /\ TombInv' /\ MuInv'
           /\ PinnedIsResident' /\ RefsExact' /\ Others(t)
      BY <2>3, <2>12, HolderStepInv, ZenonT(60)
    <2>14. bytes' \in Int
      <3>1. {k} \in SUBSET Keys
        OBVIOUS
      <3>2. Cardinality({k}) \in Nat
        BY <3>1, KeySets, Zenon
      <3> QED BY <1>a, <2>1, <3>2 DEF TypeOK
    <2>15. TypeOK'
      BY <1>a, <1>e, <1>f, <2>1, <2>4, <2>5, <2>14, Zenon DEF TypeOK
    <2>16. Same
      BY <2>7, <2>11, <2>13 DEF Same, Others
    <2> QED BY <2>13, <2>15, <2>16 DEF PInv
  <1> QED BY <1>1, <1>2

(***************************************************************************)
(* decrefChainNode drops the reference of the key it removed.              *)
(***************************************************************************)
LEMMA ChainDecrefInv ==
    ASSUME PInv, Counting, NEW a \in Actors, ChainDecref(a)
    PROVE  /\ PInv'
           /\ \E t \in Tips, k \in Keys : t = call[a].tip /\ call[a].keys = {k} /\ LetGo(t, k)
  <1>a. /\ TypeOK /\ WellFormed(a, call[a]) /\ call[a].pc = "drop" /\ call[a] \in Frames
        /\ call[a].pin = None /\ a # Gov
        /\ \E k \in Keys : call[a].keys = {k}
    BY DEF PInv, FrameInv, WellFormed, ChainDecref, Frames
  <1>b. /\ call[a].tip \in Tips /\ call[a].obj \in Objs
        /\ map[call[a].tip] = call[a].obj /\ Live(call[a].tip)
        /\ a \in Midway(map[call[a].tip]) /\ mu[call[a].obj] = a
    BY <1>a, MidwayLive
  <1>c. PICK t \in Tips : t = call[a].tip
    BY <1>b
  <1>d. PICK o \in Objs : o = call[a].obj
    BY <1>b
  <1>e. PICK k \in Keys : call[a].keys = {k}
    BY <1>a, SMTT(60)
  <1>g. map[t] = o /\ o # None /\ refs[o] >= 0 /\ Live(t) /\ a \in Midway(o) /\ mu[o] = a
    BY <1>b, <1>c, <1>d, SMTT(60) DEF Live
  <1> DEFINE z == [call[a] EXCEPT !.pc = "enqueue", !.keys = {}]
             f == IF refs[o] = 1 THEN z ELSE Idle
  <1>1. /\ refs' = [refs EXCEPT ![o] = @ - 1]
        /\ UNCHANGED <<map, creation, durable, queue, pending, left, bytes, pinned, owed>>
    BY <1>c, <1>g DEF ChainDecref, Decrement
  <1>2. /\ call' = [call EXCEPT ![a] = f]
        /\ UNCHANGED <<mu, lock>> \/ Unlock(a)
    <2>1. CASE refs[o] = 1
      BY <2>1, <1>a, <1>c, <1>g, ZenonT(60) DEF ChainDecref, ReachesZero, TypeOK
    <2>2. CASE refs[o] # 1
      BY <2>2, <1>c, <1>g, SMTT(60) DEF ChainDecref, ReachesZero, Return
    <2> QED BY <2>1, <2>2
  <1>3. /\ mu' \in [Objs -> Actors \cup {None}]
        /\ lock' \in [Tips -> Actors \cup {None}]
        /\ \A b \in Actors, q \in Objs : b # a /\ mu[q] = b => mu'[q] = b
    BY <1>a, <1>2, UnlockKeeps, SMTT(60) DEF TypeOK
  <1>4. /\ z.pc = "enqueue" /\ z.tip = t /\ z.obj = o /\ z.keys = {} /\ z.pin = None
        /\ z \in Frames
    BY <1>a, <1>c, <1>d, ZenonT(60) DEF Frames, Steps
  <1>5. WellFormed(a, z)
    BY <1>a, <1>4, SMTT(60) DEF WellFormed
  <1>6. /\ WellFormed(a, f) /\ f.pc \in {"idle", "enqueue"} /\ f.pin = None
        /\ f.obj # None => f.obj = o /\ f.tip = t
    <2>1. CASE refs[o] = 1
      BY <2>1, <1>4, <1>5, SMTT(60)
    <2>2. CASE refs[o] # 1
      BY <2>2, IdleFrame DEF Idle, Frame
    <2> QED BY <2>1, <2>2
  <1> HIDE DEF f, z
  <1>7. /\ call'[a] = f /\ call' \in [Actors -> Frames]
        /\ \A b \in Actors : b # a => call'[b] = call[b]
    BY <1>2, <1>6, OneFrame, ZenonT(60)
  <1>8. Midway(o) = {a}
    BY <1>g DEF PInv, MuInv, Midway
  <1>9. Midway(o)' = {}
    BY <1>6, <1>7, <1>8, SMTT(60) DEF Midway
  <1>10. HeldBy(t) = creation[o] \cup {k} \cup PinsOf(t)
    BY <1>e, <1>g, HeldByOne, SMTT(60)
  <1>11. refs[o] = Cardinality(HeldBy(t)) /\ HeldBy(t) \in SUBSET (Keys \cup Pins) /\ k \in HeldBy(t)
    BY <1>g, <1>10, HoldersOnly, ZenonT(60) DEF PInv, RefsExact
  <1>12. /\ Cardinality(HeldBy(t)) \in Nat /\ Cardinality(HeldBy(t)) >= 1
         /\ Cardinality(HeldBy(t) \ {k}) = Cardinality(HeldBy(t)) - 1
    BY <1>11, OneLess, SMTT(60)
  <1>13. /\ refs'[o] = refs[o] - 1 /\ refs'[o] \in Nat
         /\ \A q \in Objs : q # o => refs'[q] = refs[q]
         /\ refs' \in [Objs -> Nat \cup {vertexTombstone}]
    BY <1>a, <1>1, <1>11, <1>12, SMTT(60) DEF TypeOK
  <1>14. Live(t)' /\ HeldBy(t)' = HeldBy(t) \ {k} /\ refs'[o] = Cardinality(HeldBy(t)')
    <2>1. KeysMidway(o)' = {}
      BY <1>9 DEF KeysMidway
    <2>2. PinsOf(t)' = PinsOf(t) /\ k \notin PinsOf(t)
      BY <1>1, FiniteHolders, ZenonT(60) DEF PinsOf
    <2>3. k \notin creation[o]
      BY <1>a, <1>d, <1>e, SMTT(60) DEF PInv, MuInv
    <2>4. Live(t)'
      BY <1>1, <1>g, <1>13 DEF Live
    <2>5. HeldBy(t)' = HeldBy(t) \ {k}
      BY <1>1, <1>g, <1>10, <2>1, <2>2, <2>3, <2>4, SMTT(60) DEF HeldBy
    <2> QED BY <1>11, <1>12, <1>13, <2>4, <2>5, ZenonT(60)
  <1>15. HolderStep(a, f, t, o)
    <2>1. /\ pinned' = pinned /\ pinned \in [Pins -> Tips \cup {None}]
          /\ \A q \in Objs : creation'[q] = creation[q]
      BY <1>a, <1>1, ZenonT(60) DEF TypeOK
    <2>2. refs[o] # Tomb /\ refs'[o] # Tomb /\ refs'[o] >= 0
      BY <1>g, <1>13, SMTT(60) DEF Tomb, vertexTombstone
    <2>3. \A p \in Pins : pinned'[p] = pinned[p]
      BY <2>1
    <2> QED BY <1>a, <1>d, <1>g, <1>1, <1>2, <1>3, <1>6, <1>8, <1>13, <1>14, <2>1, <2>2, <2>3, ZenonT(60)
            DEF HolderStep
  <1>16. /\ FrameInv' /\ PinsApart' /\ MapInv' /\ TombInv' /\ MuInv'
         /\ PinnedIsResident' /\ RefsExact' /\ Others(t)
    BY <1>6, <1>15, HolderStepInv, ZenonT(60)
  <1>17. TypeOK'
    BY <1>a, <1>1, <1>3, <1>7, <1>13, ZenonT(60) DEF TypeOK
  <1>18. LetGo(t, k)
    BY <1>g, <1>11, <1>14, <1>16, ZenonT(60) DEF LetGo
  <1> QED BY <1>c, <1>e, <1>16, <1>17, <1>18, ZenonT(60) DEF PInv

(***************************************************************************)
(* The vertex in the hands of the governor.                                *)
(***************************************************************************)
LEMMA GovHolds ==
    ASSUME PInv, call[Gov].pc \in {"claim", "delete"}
    PROVE  /\ TypeOK /\ Gov \in Actors /\ WellFormed(Gov, call[Gov]) /\ call[Gov] \in Frames
           /\ call[Gov].tip \in Tips /\ call[Gov].obj \in Objs /\ call[Gov].pin = None
           /\ map[call[Gov].tip] = call[Gov].obj
           /\ call[Gov].pc = "delete" => refs[call[Gov].obj] = Tomb
  <1>1. Gov \in Actors
    BY DEF Actors
  <1> QED BY <1>1, ZenonT(60) DEF PInv, FrameInv, WellFormed, Frames, TombInv

(***************************************************************************)
(* A vertex with the tombstone has no holders: no key, recorded or midway, *)
(* and no pin.                                                             *)
(***************************************************************************)
LEMMA TombUnheld ==
    ASSUME PInv, NEW t \in Tips, NEW o \in Objs, map[t] = o, refs[o] = Tomb
    PROVE  creation[o] = {} /\ Midway(o) = {} /\ PinsOf(t) = {}
  <1>1. creation[o] = {} /\ Midway(o) = {}
    BY DEF PInv, TombInv, MuInv, Midway
  <1>2. ~Live(t)
    BY DEF Live, Tomb, vertexTombstone
  <1> QED BY <1>1, <1>2, NoneIsNothing, ZenonT(60) DEF PInv, PinnedIsResident, PinsOf

(***************************************************************************)
(* Nor has one whose count is zero.                                        *)
(***************************************************************************)
LEMMA ZeroUnheld ==
    ASSUME PInv, Counting, NEW t \in Tips, NEW o \in Objs, map[t] = o, refs[o] = 0
    PROVE  creation[o] = {} /\ Midway(o) = {} /\ PinsOf(t) = {}
  <1>1. Live(t)
    BY NoneIsNothing DEF Live
  <1>2. HeldBy(t) = {}
    <2>1. Cardinality(HeldBy(t)) = 0
      BY <1>1 DEF PInv, RefsExact
    <2> QED BY <2>1, HoldersOnly, SMTT(60) DEF Counting
  <1>3. creation[o] = {} /\ KeysMidway(o) = {} /\ PinsOf(t) = {}
    BY <1>1, <1>2, SMTT(60) DEF HeldBy
  <1>4. \A b \in Midway(o) : call[b].keys # {}
    BY DEF PInv, FrameInv, WellFormed, Midway
  <1>5. \A b \in Midway(o) : call[b].keys \subseteq KeysMidway(o)
    BY DEF KeysMidway
  <1> QED BY <1>3, <1>4, <1>5, SMTT(60)

(***************************************************************************)
(* claimAndDelete swaps a count of zero for the tombstone.                 *)
(***************************************************************************)
LEMMA ClaimInv ==
    ASSUME PInv, Counting, Claim
    PROVE  PInv' /\ (Same \/ \E t \in Tips : t = call[Gov].tip /\ Reclaimed(t))
  <1>a. /\ TypeOK /\ Gov \in Actors /\ WellFormed(Gov, call[Gov]) /\ call[Gov] \in Frames
        /\ call[Gov].tip \in Tips /\ call[Gov].obj \in Objs /\ call[Gov].pin = None
        /\ map[call[Gov].tip] = call[Gov].obj /\ call[Gov].pc = "claim"
        /\ UNCHANGED <<map, creation, durable, queue, pending, left, bytes, pinned, owed>>
    BY GovHolds DEF Claim
  <1>b. PICK t \in Tips : t = call[Gov].tip
    BY <1>a, SMTT(60)
  <1>c. PICK o \in Objs : o = call[Gov].obj
    BY <1>a
  <1>1. CASE refs[o] # 0
    <2>1. Return(Gov) /\ UNCHANGED refs
      BY <1>1, <1>c, ZenonT(60) DEF Claim
    <2>2. /\ FrameInv' /\ PinsApart' /\ MapInv' /\ TombInv' /\ MuInv'
          /\ PinnedIsResident' /\ RefsExact' /\ Same
          /\ call' \in [Actors -> Frames]
          /\ mu' \in [Objs -> Actors \cup {None}]
          /\ lock' \in [Tips -> Actors \cup {None}]
      <3>1. call[Gov].pc \notin {"record", "drop"} /\ UNCHANGED <<map, refs, creation, pinned>>
        BY <1>a, <2>1
      <3> QED BY <1>a, <2>1, <3>1, QuietReturn, ZenonT(60)
    <2>3. TypeOK'
      BY <1>a, <2>1, <2>2, ZenonT(60) DEF TypeOK
    <2> QED BY <2>2, <2>3, SMTT(60) DEF PInv
  <1>2. CASE refs[o] = 0
    <2> DEFINE f == [call[Gov] EXCEPT !.pc = "delete"]
    <2>1. /\ refs' = [refs EXCEPT ![o] = vertexTombstone]
          /\ call' = [call EXCEPT ![Gov] = f]
          /\ lock' = lock \/ lock' = [lock EXCEPT ![t] = Gov]
          /\ UNCHANGED mu
      BY <1>2, <1>a, <1>b, <1>c, SMTT(60) DEF Claim, Goto, TypeOK
    <2>2. /\ f.pc = "delete" /\ f.tip = t /\ f.obj = o /\ f.pin = None /\ f \in Frames
      BY <1>a, <1>b, <1>c, SMTT(60) DEF Frames, Steps
    <2>3. WellFormed(Gov, f)
      BY <1>a, <2>2, SMTT(60) DEF WellFormed
    <2> HIDE DEF f
    <2>4. call' \in [Actors -> Frames]
      BY <1>a, <2>1, <2>3, OneFrame, ZenonT(60)
    <2>5. creation[o] = {} /\ Midway(o) = {} /\ PinsOf(t) = {} /\ map[t] = o
      <3>1. map[t] = o
        BY <1>a, <1>b, <1>c, Zenon
      <3> QED BY <1>2, <3>1, ZeroUnheld, ZenonT(60)
    <2>6. /\ refs'[o] = Tomb
          /\ \A q \in Objs : q # o => refs'[q] = refs[q]
          /\ refs' \in [Objs -> Nat \cup {vertexTombstone}]
      BY <1>a, <2>1, SMTT(60) DEF TypeOK, Tomb
    <2>11. ~Live(t)'
      <3>1. refs'[map'[t]] = -2
        BY <1>a, <2>5, <2>6, ZenonT(60) DEF Tomb, vertexTombstone
      <3> QED BY <3>1 DEF Live
    <2>7. HolderStep(Gov, f, t, o)
      <3>1. /\ pinned' = pinned /\ pinned \in [Pins -> Tips \cup {None}]
            /\ \A q \in Objs : creation'[q] = creation[q]
        BY <1>a, ZenonT(60) DEF TypeOK
      <3>2. \A p \in Pins : pinned'[p] = pinned[p] /\ pinned'[p] # t
        BY <2>5, <3>1, SMTT(60) DEF PinsOf
      <3>4. call[Gov].pc \notin {"record", "drop"}
        BY <1>a, Zenon
      <3> QED BY <1>a, <2>1, <2>2, <2>5, <2>6, <2>11, <3>1, <3>2, <3>4, ZenonT(60) DEF HolderStep
    <2>8. /\ FrameInv' /\ PinsApart' /\ MapInv' /\ TombInv' /\ MuInv'
          /\ PinnedIsResident' /\ RefsExact' /\ Others(t)
      BY <1>a, <2>3, <2>7, HolderStepInv, ZenonT(60)
    <2>9. lock' \in [Tips -> Actors \cup {None}]
      BY <1>a, <2>1, ZenonT(60) DEF TypeOK
    <2>10. TypeOK'
      BY <1>a, <2>1, <2>4, <2>6, <2>9, SMTT(60) DEF TypeOK
    <2>12. Reclaimed(t)
      <3>1. Live(t)
        BY <1>2, <2>5, NoneIsNothing DEF Live
      <3>2. KeysMidway(o) = {}
        BY <2>5 DEF KeysMidway
      <3>3. HeldBy(t) = {} /\ HeldBy(t)' = {}
        BY <2>5, <2>11, <3>2 DEF HeldBy
      <3> QED BY <2>8, <2>11, <3>1, <3>3, ZenonT(60) DEF Reclaimed
    <2> QED BY <1>b, <2>8, <2>10, <2>12, ZenonT(60) DEF PInv
  <1> QED BY <1>1, <1>2, SMTT(60)

=============================================================================
