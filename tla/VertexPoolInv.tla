--------------------------- MODULE VertexPoolInv ---------------------------
(***************************************************************************)
(* The inductive invariant of VertexPool and the proof that every step     *)
(* preserves it.                                                           *)
(***************************************************************************)
EXTENDS VertexPool, TLAPS

Tomb == vertexTombstone

(***************************************************************************)
(* What the frame of a call holds at each of its steps.                    *)
(***************************************************************************)
WellFormed(a, f) ==
    /\ f \in Frames
    /\ f.pc = "idle" => f = Idle
    /\ f.pc # "idle" => f.tip \in Tips
    /\ f.pc \in {"own", "record", "incref", "chain", "drop", "claim", "delete"} => f.obj \in Objs
    /\ f.pc \in {"own", "record"} => f.keys # {}
    /\ f.pc \in {"chain", "drop"} => \E k \in Keys : f.keys = {k}
    /\ f.pc = "incref" <=> f.pin # None
    /\ a = Gov => f.pc \in {"idle", "enqueue", "count", "claim", "delete"}
    /\ a # Gov => f.pc \notin {"claim", "delete"}

FrameInv == \A a \in Actors : WellFormed(a, call[a])

(***************************************************************************)
(* A call fills a pin that is empty, and two calls never fill one pin.     *)
(***************************************************************************)
PinsApart ==
    /\ \A a \in Actors : call[a].pin # None => pinned[call[a].pin] = None
    /\ \A a, b \in Actors : call[a].pin # None /\ call[a].pin = call[b].pin => a = b

(***************************************************************************)
(* A vertex is published under one tip; a pointer to it was loaded from    *)
(* there.                                                                  *)
(***************************************************************************)
MapInv ==
    /\ \A t, u \in Tips : map[t] # None /\ map[t] = map[u] => t = u
    /\ \A a \in Actors, t \in Tips :
          call[a].obj # None /\ map[t] = call[a].obj => t = call[a].tip

(***************************************************************************)
(* A vertex that was never published, was deleted or is claimed has the    *)
(* tombstone and no creation keys.                                         *)
(***************************************************************************)
TombInv ==
    /\ \A o \in Objs : refs[o] # Tomb => \E t \in Tips : map[t] = o
    /\ \A o \in Objs : refs[o] = Tomb => creation[o] = {}
    /\ call[Gov].pc \in {"claim", "delete"} => map[call[Gov].tip] = call[Gov].obj
    /\ call[Gov].pc = "delete" => refs[call[Gov].obj] = Tomb

(***************************************************************************)
(* A call between counting and recording creation keys holds creationMu,   *)
(* and the keys it moves are not among the recorded ones.                  *)
(***************************************************************************)
MuInv ==
    \A a \in Actors :
        call[a].pc \in {"record", "drop"} =>
            /\ mu[call[a].obj] = a
            /\ refs[call[a].obj] # Tomb
            /\ call[a].keys \cap creation[call[a].obj] = {}

PInv ==
    /\ TypeOK /\ FrameInv /\ PinsApart /\ MapInv /\ TombInv /\ MuInv
    /\ PinnedIsResident /\ RefsExact

-----------------------------------------------------------------------------
(* What a step is to the pool of VertexRefs *)

(***************************************************************************)
(* Every effect is as resident as before, and held by the same holders.    *)
(***************************************************************************)
Same == \A u \in Tips : (Live(u)' <=> Live(u)) /\ HeldBy(u)' = HeldBy(u)

(***************************************************************************)
(* So is every effect but the one at t.                                    *)
(***************************************************************************)
Others(t) == \A u \in Tips : u # t => (Live(u)' <=> Live(u)) /\ HeldBy(u)' = HeldBy(u)

Stored(t, K) == Others(t) /\ Live(t)' /\ HeldBy(t)' = HeldBy(t) \cup K

Held(t, p) == Others(t) /\ Live(t) /\ Live(t)' /\ HeldBy(t)' = HeldBy(t) \cup {p}

LetGo(t, h) ==
    Others(t) /\ Live(t) /\ Live(t)' /\ h \in HeldBy(t) /\ HeldBy(t)' = HeldBy(t) \ {h}

Reclaimed(t) == Others(t) /\ Live(t) /\ ~Live(t)' /\ HeldBy(t) = {} /\ HeldBy(t)' = {}

AbstractStep ==
    \/ Same
    \/ \E t \in Tips :
          \/ \E K \in SUBSET Keys : Stored(t, K)
          \/ \E h \in Keys \cup Pins : Held(t, h) \/ LetGo(t, h)
          \/ Reclaimed(t)

-----------------------------------------------------------------------------
(* Steps that leave the holders alone *)

(***************************************************************************)
(* Actor a moves between two steps at which it neither counts nor drops    *)
(* creation keys.                                                          *)
(***************************************************************************)
Quiet(a) ==
    /\ UNCHANGED <<map, refs, creation, pinned>>
    /\ \A b \in Actors \ {a} : call'[b] = call[b]
    /\ call[a].pc \notin {"record", "drop"}
    /\ call'[a].pc \notin {"record", "drop"}

(***************************************************************************)
(* A quiet step changes neither which vertices are live nor who holds them. *)
(***************************************************************************)
LEMMA QuietHolders ==
    ASSUME NEW a \in Actors, Quiet(a)
    PROVE  \A t \in Tips : (Live(t)' <=> Live(t)) /\ HeldBy(t)' = HeldBy(t)
  <1>1. \A o : Midway(o)' = Midway(o)
    BY DEF Quiet, Midway
  <1>2. \A b \in Actors : call[b].pc \in {"record", "drop"} => call'[b] = call[b]
    BY DEF Quiet
  <1>3. \A o : {call[b].keys : b \in Midway(o)}' = {call[b].keys : b \in Midway(o)}
    BY <1>1, <1>2, ZenonT(60) DEF Midway
  <1>4. \A o : KeysMidway(o)' = KeysMidway(o)
    BY <1>3, Zenon DEF KeysMidway
  <1>5. \A t \in Tips : (Live(t)' <=> Live(t)) /\ PinsOf(t)' = PinsOf(t)
    BY DEF Quiet, Live, PinsOf
  <1> QED BY <1>4, <1>5, SMTT(60) DEF Quiet, HeldBy

(***************************************************************************)
(* So it preserves the counts, keeps pinned effects resident and leaves    *)
(* what creationMu guarantees to its holder.                               *)
(***************************************************************************)
LEMMA QuietCounts ==
    ASSUME NEW a \in Actors, Quiet(a), PInv,
           \A b \in Actors, o \in Objs : b # a /\ mu[o] = b => mu'[o] = b
    PROVE  PinnedIsResident' /\ RefsExact' /\ MuInv'
  <1>1. \A t \in Tips : (Live(t)' <=> Live(t)) /\ HeldBy(t)' = HeldBy(t)
    BY QuietHolders
  <1>2. \A p \in Pins : pinned[p] # None => pinned[p] \in Tips
    BY DEF PInv, TypeOK
  <1>3. PinnedIsResident'
    BY <1>1, <1>2 DEF PInv, PinnedIsResident, Quiet
  <1>4. RefsExact'
    BY <1>1 DEF PInv, RefsExact, Quiet
  <1>5. \A b \in Actors : call[b].pc \in {"record", "drop"} => call[b].obj \in Objs
    BY DEF PInv, FrameInv, WellFormed
  <1>6. MuInv'
    BY <1>5 DEF PInv, MuInv, Quiet
  <1> QED BY <1>3, <1>4, <1>6

(***************************************************************************)
(* A call moves to a well-formed frame; the other calls do not change.     *)
(***************************************************************************)
LEMMA OneFrame ==
    ASSUME PInv, NEW a \in Actors, NEW f, WellFormed(a, f),
           call' = [call EXCEPT ![a] = f]
    PROVE  /\ FrameInv'
           /\ call' \in [Actors -> Frames]
           /\ call'[a] = f
           /\ \A b \in Actors : b # a => call'[b] = call[b]
  <1>1. call \in [Actors -> Frames] /\ f \in Frames
    BY DEF PInv, TypeOK, WellFormed
  <1>2. call'[a] = f /\ \A b \in Actors : b # a => call'[b] = call[b]
    BY <1>1
  <1>3. FrameInv'
    BY <1>2 DEF PInv, FrameInv
  <1> QED BY <1>1, <1>2, <1>3

(***************************************************************************)
(* The frame of a call that returned.                                      *)
(***************************************************************************)
LEMMA IdleFrame == \A a \in Actors : WellFormed(a, Idle)
  BY NoneIsNothing DEF WellFormed, Idle, Frame, Frames, Steps, Actors

(***************************************************************************)
(* Returning keeps the locks of the others and their types.                *)
(***************************************************************************)
LEMMA UnlockKeeps ==
    ASSUME PInv, NEW a \in Actors, Unlock(a)
    PROVE  /\ mu' \in [Objs -> Actors \cup {None}]
           /\ lock' \in [Tips -> Actors \cup {None}]
           /\ \A b \in Actors, o \in Objs : b # a /\ mu[o] = b => mu'[o] = b
  BY DEF PInv, TypeOK, Unlock

(***************************************************************************)
(* A quiet step to a frame whose vertex, if any, was loaded from the map,  *)
(* and whose pin, if any, is free, preserves everything but the types.     *)
(***************************************************************************)
LEMMA QuietStep ==
    ASSUME PInv, NEW a \in Actors, NEW f, WellFormed(a, f),
           call' = [call EXCEPT ![a] = f],
           UNCHANGED <<map, refs, creation, pinned>>,
           call[a].pc \notin {"record", "drop"},
           f.pc \notin {"record", "drop", "delete"},
           f.obj # None => map[f.tip] = f.obj \/ (f.obj = call[a].obj /\ f.tip = call[a].tip),
           f.pc = "claim" => map[f.tip] = f.obj,
           f.pin # None => pinned[f.pin] = None /\ \A b \in Actors : call[b].pin # f.pin,
           \A b \in Actors, o \in Objs : b # a /\ mu[o] = b => mu'[o] = b
    PROVE  /\ FrameInv' /\ PinsApart' /\ MapInv' /\ TombInv' /\ MuInv'
           /\ PinnedIsResident' /\ RefsExact' /\ Same
           /\ call' \in [Actors -> Frames]
  <1>1. /\ FrameInv'
        /\ call' \in [Actors -> Frames]
        /\ call'[a] = f
        /\ \A b \in Actors : b # a => call'[b] = call[b]
    BY OneFrame, Zenon
  <1>2. PinnedIsResident' /\ RefsExact' /\ MuInv' /\ Same
    <2>1. Quiet(a)
      BY <1>1 DEF Quiet
    <2>2. Same
      BY <2>1, QuietHolders DEF Same
    <2> QED BY <2>1, <2>2, QuietCounts
  <1>3. PinsApart'
    BY <1>1 DEF PInv, PinsApart
  <1>4. MapInv'
    <2>1. f.obj # None => f.tip \in Tips
      BY DEF WellFormed, Idle, Frame
    <2>2. \A t \in Tips : f.obj # None /\ map[t] = f.obj => t = f.tip
      BY <2>1 DEF PInv, MapInv
    <2> QED BY <1>1, <2>2 DEF PInv, MapInv
  <1>5. TombInv'
    <2>1. Gov \in Actors
      BY DEF Actors
    <2>2. CASE a = Gov
      BY <1>1, <2>2 DEF PInv, TombInv
    <2>3. CASE a # Gov
      BY <1>1, <2>1, <2>3 DEF PInv, TombInv
    <2> QED BY <2>2, <2>3
  <1> QED BY <1>1, <1>2, <1>3, <1>4, <1>5

(***************************************************************************)
(* put, up to the first look at the map.                                   *)
(***************************************************************************)
LEMMA PutLoadInv ==
    ASSUME PInv, NEW a \in Threads, NEW t \in Tips, NEW K \in SUBSET Keys, PutLoad(a, t, K)
    PROVE  PInv' /\ Same
  <1> DEFINE f == IF map[t] = None THEN Frame("store", t, None, K, None)
                  ELSE IF K # {} THEN Frame("own", t, map[t], K, None) ELSE Idle
  <1>0. a \in Actors /\ a # Gov /\ call[a] = Idle /\ TypeOK /\ map[t] \in Objs \cup {None}
    BY FiniteThreads DEF Actors, PutLoad, CanStart, PInv, TypeOK
  <1>1. WellFormed(a, f)
    BY <1>0, IdleFrame, NoneIsNothing, ZenonT(60) DEF WellFormed, Frame, Frames, Steps, Idle
  <1>2. /\ FrameInv' /\ PinsApart' /\ MapInv' /\ TombInv' /\ MuInv'
        /\ PinnedIsResident' /\ RefsExact' /\ Same
        /\ call' \in [Actors -> Frames]
    <2>1. call' = [call EXCEPT ![a] = f] /\ UNCHANGED <<map, refs, creation, pinned, mu>>
      BY DEF PutLoad
    <2>2. /\ f.pc \notin {"record", "drop", "delete", "claim"}
          /\ f.pin = None
          /\ f.obj # None => map[f.tip] = f.obj
      BY DEF Frame, Idle
    <2> HIDE DEF f
    <2>3. call[a].pc \notin {"record", "drop"}
      BY <1>0 DEF Idle, Frame
    <2> QED BY <1>0, <1>1, <2>1, <2>2, <2>3, QuietStep, Zenon
  <1>3. TypeOK'
    BY <1>0, <1>2 DEF TypeOK, PutLoad
  <1> QED BY <1>2, <1>3 DEF PInv

(***************************************************************************)
(* incref, up to the look at the map.                                      *)
(***************************************************************************)
LEMMA IncrefLoadInv ==
    ASSUME PInv, NEW a \in Threads, NEW t \in Tips, NEW p \in Pins, increfLoad(a, t, p)
    PROVE  PInv' /\ Same
  <1> DEFINE f == Frame("incref", t, map[t], {}, p)
  <1>0. a \in Actors /\ a # Gov /\ call[a] = Idle /\ TypeOK /\ map[t] \in Objs /\ p # None
    BY FiniteThreads, NoneIsNothing, SMTT(60) DEF Actors, increfLoad, CanStart, PInv, TypeOK
  <1>1. WellFormed(a, f)
    BY <1>0 DEF WellFormed, Frame, Frames, Steps, Idle
  <1>2. /\ FrameInv' /\ PinsApart' /\ MapInv' /\ TombInv' /\ MuInv'
        /\ PinnedIsResident' /\ RefsExact' /\ Same
        /\ call' \in [Actors -> Frames]
    <2>1. /\ call' = [call EXCEPT ![a] = f] /\ UNCHANGED <<map, refs, creation, pinned, mu>>
          /\ pinned[p] = None /\ \A b \in Actors : call[b].pin # p
      BY DEF increfLoad
    <2>2. f.pc = "incref" /\ f.pin = p /\ map[f.tip] = f.obj
      BY DEF Frame
    <2> HIDE DEF f
    <2>3. call[a].pc \notin {"record", "drop"}
      BY <1>0 DEF Idle, Frame
    <2> QED BY <1>0, <1>1, <2>1, <2>2, <2>3, QuietStep, ZenonT(60)
  <1>3. TypeOK'
    BY <1>0, <1>2 DEF TypeOK, increfLoad
  <1> QED BY <1>2, <1>3 DEF PInv

(***************************************************************************)
(* decrefChainNode, up to the look at the map.                             *)
(***************************************************************************)
LEMMA ChainLoadInv ==
    ASSUME PInv, NEW a \in Threads, NEW t \in Tips, NEW k \in Keys, ChainLoad(a, t, k)
    PROVE  PInv' /\ Same
  <1> DEFINE f == Frame("chain", t, map[t], {k}, None)
  <1>0. a \in Actors /\ a # Gov /\ call[a] = Idle /\ TypeOK /\ map[t] \in Objs
    BY FiniteThreads DEF Actors, ChainLoad, CanStart, PInv, TypeOK
  <1>1. WellFormed(a, f)
    BY <1>0 DEF WellFormed, Frame, Frames, Steps, Idle
  <1>2. /\ FrameInv' /\ PinsApart' /\ MapInv' /\ TombInv' /\ MuInv'
        /\ PinnedIsResident' /\ RefsExact' /\ Same
        /\ call' \in [Actors -> Frames]
    <2>1. call' = [call EXCEPT ![a] = f] /\ UNCHANGED <<map, refs, creation, pinned, mu>>
      BY DEF ChainLoad
    <2>2. f.pc = "chain" /\ f.pin = None /\ map[f.tip] = f.obj
      BY DEF Frame
    <2> HIDE DEF f
    <2>3. call[a].pc \notin {"record", "drop"}
      BY <1>0 DEF Idle, Frame
    <2> QED BY <1>0, <1>1, <2>1, <2>2, <2>3, QuietStep, Zenon
  <1>3. TypeOK'
    BY <1>0, <1>2 DEF TypeOK, ChainLoad
  <1> QED BY <1>2, <1>3 DEF PInv

(***************************************************************************)
(* A call that returns from a quiet step, having touched nothing but its   *)
(* own locks.                                                              *)
(***************************************************************************)
LEMMA QuietReturn ==
    ASSUME PInv, NEW a \in Actors, call[a].pc \notin {"record", "drop"}, Return(a),
           UNCHANGED <<map, refs, creation, pinned>>
    PROVE  /\ FrameInv' /\ PinsApart' /\ MapInv' /\ TombInv' /\ MuInv'
           /\ PinnedIsResident' /\ RefsExact' /\ Same
           /\ call' \in [Actors -> Frames]
           /\ mu' \in [Objs -> Actors \cup {None}]
           /\ lock' \in [Tips -> Actors \cup {None}]
  <1>1. call' = [call EXCEPT ![a] = Idle] /\ Unlock(a)
    BY DEF Return
  <1>2. WellFormed(a, Idle)
    BY IdleFrame, SMTT(60)
  <1>3. Idle.pc = "idle" /\ Idle.obj = None /\ Idle.pin = None
    BY DEF Idle, Frame
  <1>4. /\ mu' \in [Objs -> Actors \cup {None}]
        /\ lock' \in [Tips -> Actors \cup {None}]
        /\ \A b \in Actors, o \in Objs : b # a /\ mu[o] = b => mu'[o] = b
    BY <1>1, UnlockKeeps
  <1> QED BY <1>1, <1>2, <1>3, <1>4, QuietStep, Zenon

(***************************************************************************)
(* The two halves of enqueueReclaim.                                       *)
(***************************************************************************)
LEMMA EnqueueInv ==
    ASSUME PInv, NEW a \in Actors, Enqueue(a)
    PROVE  PInv' /\ Same
  <1> DEFINE f == [call[a] EXCEPT !.pc = "count"]
  <1>0. TypeOK /\ WellFormed(a, call[a]) /\ call[a] \in Frames /\ call[a].pc = "enqueue"
    BY DEF PInv, FrameInv, Enqueue, TypeOK
  <1>1. /\ f.pc = "count" /\ f.tip = call[a].tip /\ f.obj = call[a].obj
        /\ f.keys = call[a].keys /\ f.pin = call[a].pin /\ f \in Frames
    BY <1>0 DEF Frames, Steps
  <1>2. WellFormed(a, f) /\ f.pin = None /\ call[a].tip \in Tips
    BY <1>0, <1>1 DEF WellFormed
  <1>3. call' = [call EXCEPT ![a] = f] /\ UNCHANGED <<map, refs, creation, pinned, mu>>
    BY <1>0 DEF Enqueue, Goto, TypeOK
  <1>4. /\ FrameInv' /\ PinsApart' /\ MapInv' /\ TombInv' /\ MuInv'
        /\ PinnedIsResident' /\ RefsExact' /\ Same
        /\ call' \in [Actors -> Frames]
    <2> HIDE DEF f
    <2> QED BY <1>0, <1>1, <1>2, <1>3, QuietStep, Zenon
  <1>5. queue' \in Seq(Tips)
    BY <1>0, <1>2 DEF Enqueue, TypeOK
  <1>6. TypeOK'
    BY <1>0, <1>4, <1>5 DEF TypeOK, Enqueue
  <1> QED BY <1>4, <1>6 DEF PInv

(***************************************************************************)
(* enqueueReclaim counting the entry it queued.                            *)
(***************************************************************************)
LEMMA CountPendingInv ==
    ASSUME PInv, NEW a \in Actors, CountPending(a)
    PROVE  PInv' /\ Same
  <1>1. call[a].pc = "count" /\ Return(a) /\ UNCHANGED <<map, refs, creation, pinned>> /\ TypeOK
    BY SMTT(60) DEF CountPending, PInv
  <1>2. /\ FrameInv' /\ PinsApart' /\ MapInv' /\ TombInv' /\ MuInv'
        /\ PinnedIsResident' /\ RefsExact' /\ Same
        /\ call' \in [Actors -> Frames]
        /\ mu' \in [Objs -> Actors \cup {None}]
        /\ lock' \in [Tips -> Actors \cup {None}]
    BY <1>1, QuietReturn
  <1>3. TypeOK'
    BY <1>1, <1>2 DEF TypeOK, CountPending
  <1> QED BY <1>2, <1>3 DEF PInv

(***************************************************************************)
(* A step that touches neither vertices, nor calls, nor pins, nor          *)
(* creationMu.                                                             *)
(***************************************************************************)
LEMMA Untouched ==
    ASSUME PInv, UNCHANGED <<map, refs, creation, pinned, mu, call>>
    PROVE  /\ FrameInv' /\ PinsApart' /\ MapInv' /\ TombInv' /\ MuInv'
           /\ PinnedIsResident' /\ RefsExact' /\ Same
  <1>1. FrameInv' /\ PinsApart'
    BY SMTT(60) DEF PInv, FrameInv, PinsApart
  <1>2. MapInv' /\ TombInv' /\ MuInv'
    BY DEF PInv, MapInv, TombInv, MuInv
  <1>3. \A t \in Tips : (Live(t)' <=> Live(t)) /\ HeldBy(t)' = HeldBy(t)
    BY DEF Live, HeldBy, Midway, KeysMidway, PinsOf
  <1>4. PinnedIsResident'
    BY DEF PInv, PinnedIsResident, Live
  <1>5. RefsExact' /\ Same
    BY <1>3 DEF PInv, RefsExact, Same
  <1> QED BY <1>1, <1>2, <1>4, <1>5

(***************************************************************************)
(* drainReclaim taking the count, and the reset of the mirror.             *)
(***************************************************************************)
LEMMA DrainSwapInv ==
    ASSUME PInv, DrainSwap \/ MirrorReset
    PROVE  PInv' /\ Same
  <1>1. UNCHANGED <<map, refs, creation, pinned, mu, call>>
    BY DEF DrainSwap, MirrorReset
  <1>2. TypeOK'
    BY DEF PInv, TypeOK, DrainSwap, MirrorReset
  <1> QED BY <1>1, <1>2, Untouched DEF PInv

(***************************************************************************)
(* drainReclaim taking an entry off the queue.                             *)
(***************************************************************************)
LEMMA DrainDequeueInv ==
    ASSUME PInv, DrainDequeue
    PROVE  PInv' /\ Same
  <1> DEFINE t == Head(queue)
             f == IF map[t] = None \/ t \in SystemTips
                  THEN Idle ELSE Frame("claim", t, map[t], {}, None)
  <1>0. /\ TypeOK /\ Gov \in Actors /\ call[Gov] = Idle /\ queue \in Seq(Tips)
        /\ queue # <<>> /\ t \in Tips /\ Tail(queue) \in Seq(Tips)
    BY DEF PInv, TypeOK, DrainDequeue, Actors
  <1>1. map[t] \in Objs \cup {None} /\ left' \in Nat
    BY <1>0 DEF TypeOK, DrainDequeue
  <1>2. /\ call' = [call EXCEPT ![Gov] = f] /\ queue' = Tail(queue)
        /\ UNCHANGED <<map, refs, creation, pinned, mu>>
    BY DEF DrainDequeue
  <1> HIDE DEF t
  <1>3. WellFormed(Gov, f)
    BY <1>0, <1>1, IdleFrame, ZenonT(60) DEF WellFormed, Frame, Frames, Steps, Idle
  <1>4. /\ f.pc \notin {"record", "drop", "delete"}
        /\ f.pin = None
        /\ f.obj # None => map[f.tip] = f.obj
        /\ f.pc = "claim" => map[f.tip] = f.obj
    BY Zenon DEF Frame, Idle
  <1>5. call[Gov].pc \notin {"record", "drop"}
    BY <1>0 DEF Idle, Frame
  <1>6. /\ FrameInv' /\ PinsApart' /\ MapInv' /\ TombInv' /\ MuInv'
        /\ PinnedIsResident' /\ RefsExact' /\ Same
        /\ call' \in [Actors -> Frames]
    <2> HIDE DEF f
    <2> QED BY <1>0, <1>2, <1>3, <1>4, <1>5, QuietStep, ZenonT(60)
  <1>7. TypeOK'
    BY <1>0, <1>1, <1>2, <1>6 DEF TypeOK, DrainDequeue
  <1> QED BY <1>6, <1>7 DEF PInv

-----------------------------------------------------------------------------
(* Steps that change who holds one vertex *)

(***************************************************************************)
(* Actor a moves to frame f and changes nothing but the vertex o published *)
(* under t, or about to be, and the pins that hold t.                      *)
(***************************************************************************)
Elsewhere(a, t, o) ==
    /\ \A u \in Tips : u # t => map'[u] = map[u] /\ map[u] # o
    /\ \A q \in Objs : q # o => refs'[q] = refs[q] /\ creation'[q] = creation[q]
    /\ \A p \in Pins, u \in Tips : u # t => (pinned'[p] = u <=> pinned[p] = u)
    /\ \A b \in Actors : b # a => call'[b] = call[b]
    /\ call[a].pc \in {"record", "drop"} => call[a].obj = o
    /\ call'[a].pc \in {"record", "drop"} => call'[a].obj = o

(***************************************************************************)
(* Other tips are as live, and held by the same holders, as before.        *)
(***************************************************************************)
LEMMA ElsewhereHolders ==
    ASSUME PInv, NEW a \in Actors, NEW t \in Tips, NEW o \in Objs, Elsewhere(a, t, o),
           NEW u \in Tips, u # t
    PROVE  (Live(u)' <=> Live(u)) /\ HeldBy(u)' = HeldBy(u)
  <1>0. map'[u] = map[u] /\ map[u] # o /\ map[u] \in Objs \cup {None}
    BY DEF Elsewhere, PInv, TypeOK
  <1>1. Live(u)' <=> Live(u)
    BY <1>0 DEF Elsewhere, Live
  <1>2. CASE ~Live(u)
    BY <1>1, <1>2, SMTT(60) DEF HeldBy
  <1>3. CASE Live(u)
    <2>0. map[u] \in Objs
      BY <1>0, <1>3 DEF Live
    <2>1. creation'[map[u]] = creation[map[u]]
      BY <1>0, <2>0 DEF Elsewhere
    <2>2. \A b \in Actors : b \in Midway(map[u]) => call'[b] = call[b]
      BY <1>0 DEF Elsewhere, Midway
    <2>3. Midway(map[u])' = Midway(map[u])
      BY <1>0 DEF Elsewhere, Midway
    <2>4. {call[b].keys : b \in Midway(map[u])}' = {call[b].keys : b \in Midway(map[u])}
      BY <2>2, <2>3, Zenon DEF Midway
    <2>5. KeysMidway(map[u])' = KeysMidway(map[u])
      BY <2>4, Zenon DEF KeysMidway
    <2>6. PinsOf(u)' = PinsOf(u)
      BY DEF Elsewhere, PinsOf
    <2> QED BY <1>0, <1>1, <1>3, <2>1, <2>5, <2>6 DEF HeldBy
  <1> QED BY <1>1, <1>2, <1>3, SMTT(60)

(***************************************************************************)
(* So it is enough to look at t.                                           *)
(***************************************************************************)
LEMMA ElsewhereCounts ==
    ASSUME PInv, NEW a \in Actors, NEW t \in Tips, NEW o \in Objs, Elsewhere(a, t, o),
           pinned' \in [Pins -> Tips \cup {None}],
           Live(t)' => refs'[map'[t]] = Cardinality(HeldBy(t)'),
           \A p \in Pins : pinned'[p] = t => Live(t)'
    PROVE  PinnedIsResident' /\ RefsExact'
  <1>1. \A u \in Tips : u # t => (Live(u)' <=> Live(u)) /\ HeldBy(u)' = HeldBy(u)
    BY ElsewhereHolders
  <1>2. ASSUME NEW p \in Pins, pinned'[p] # None
        PROVE  Live(pinned[p])'
    <2>1. pinned'[p] \in Tips
      BY <1>2
    <2>2. CASE pinned'[p] = t
      BY <2>2, SMTT(60)
    <2>3. CASE pinned'[p] # t
      <3>1. pinned[p] = pinned'[p] /\ pinned[p] # None
        BY <1>2, <2>1, <2>3, SMTT(60) DEF Elsewhere
      <3>2. Live(pinned[p])
        BY <3>1 DEF PInv, PinnedIsResident
      <3>3. pinned[p] \in Tips /\ pinned[p] # t
        BY <2>1, <2>3, <3>1, SMTT(60)
      <3>4. \A u \in Tips : u # t /\ Live(u) => Live(u)'
        BY <1>1, SMTT(60)
      <3> QED BY <3>1, <3>2, <3>3, <3>4, SMTT(60) DEF Live
    <2> QED BY <2>2, <2>3
  <1>3. PinnedIsResident'
    BY <1>2, SMTT(60) DEF PinnedIsResident
  <1>4. ASSUME NEW u \in Tips, Live(u)'
        PROVE  refs'[map'[u]] = Cardinality(HeldBy(u)')
    <2>1. CASE u = t
      BY <1>4, <2>1, SMTT(60)
    <2>2. CASE u # t
      <3>1. Live(u) /\ HeldBy(u)' = HeldBy(u)
        BY <1>1, <1>4, <2>2, SMTT(60)
      <3>2. map'[u] = map[u] /\ map[u] # o /\ map[u] \in Objs
        <4>1. map'[u] = map[u] /\ map[u] # o
          BY <2>2, Zenon DEF Elsewhere
        <4>2. map[u] # None /\ map[u] \in Objs \cup {None}
          BY <3>1 DEF Live, PInv, TypeOK
        <4> QED BY <4>1, <4>2, Zenon
      <3>3. refs'[map[u]] = refs[map[u]]
        BY <3>2, Zenon DEF Elsewhere
      <3>4. RefsExact
        BY Zenon DEF PInv
      <3> QED BY <3>1, <3>2, <3>3, <3>4, Zenon DEF RefsExact
    <2> QED BY <2>1, <2>2
  <1>5. RefsExact'
    BY <1>4 DEF RefsExact
  <1> QED BY <1>3, <1>5, SMTT(60)

(***************************************************************************)
(* The holders of a live vertex whose creationMu is free.                  *)
(***************************************************************************)
LEMMA HeldByFree ==
    ASSUME PInv, NEW t \in Tips, Live(t), mu[map[t]] = None
    PROVE  HeldBy(t) = creation[map[t]] \cup PinsOf(t)
  <1>1. \A b \in Actors : b # None
    BY NoneIsNothing DEF Actors
  <1>2. Midway(map[t]) = {}
    BY <1>1 DEF PInv, MuInv, Midway
  <1>3. KeysMidway(map[t]) = {}
    BY <1>2 DEF KeysMidway
  <1> QED BY <1>3 DEF HeldBy

(***************************************************************************)
(* While a call that moves creation keys holds creationMu, those are the   *)
(* only keys between the count and the record.                             *)
(***************************************************************************)
LEMMA HeldByOne ==
    ASSUME PInv, NEW t \in Tips, Live(t), NEW a \in Midway(map[t])
    PROVE  HeldBy(t) = creation[map[t]] \cup call[a].keys \cup PinsOf(t)
  <1>1. Midway(map[t]) = {a}
    BY DEF PInv, MuInv, Midway
  <1>2. KeysMidway(map[t]) = call[a].keys
    BY <1>1, SMTT(60) DEF KeysMidway
  <1> QED BY <1>2 DEF HeldBy

(***************************************************************************)
(* A call at "record" or "drop" works on a live vertex.                    *)
(***************************************************************************)
LEMMA MidwayLive ==
    ASSUME PInv, NEW a \in Actors, call[a].pc \in {"record", "drop"}
    PROVE  /\ call[a].tip \in Tips /\ call[a].obj \in Objs
           /\ map[call[a].tip] = call[a].obj /\ Live(call[a].tip)
           /\ a \in Midway(map[call[a].tip])
           /\ mu[call[a].obj] = a
  <1>1. call[a].tip \in Tips /\ call[a].obj \in Objs /\ call[a].obj # None
    BY NoneIsNothing, SMTT(60) DEF PInv, FrameInv, WellFormed
  <1>2. refs[call[a].obj] # Tomb /\ mu[call[a].obj] = a
    BY SMTT(60) DEF PInv, MuInv
  <1>3. map[call[a].tip] = call[a].obj
    BY <1>1, <1>2, SMTT(60) DEF PInv, TombInv, MapInv
  <1>4. refs[call[a].obj] \in Nat
    BY <1>1, <1>2 DEF PInv, TypeOK, Tomb
  <1>5. Live(call[a].tip)
    BY <1>1, <1>3, <1>4, SMTT(60) DEF Live
  <1> QED BY <1>1, <1>2, <1>3, <1>5, SMTT(60) DEF Midway

-----------------------------------------------------------------------------
(* The steps of put *)

(***************************************************************************)
(* A vertex that some call loaded and that has no tombstone is the one     *)
(* published under the tip of the call.                                    *)
(***************************************************************************)
LEMMA LoadedIsPublished ==
    ASSUME PInv, NEW a \in Actors, call[a].obj \in Objs, refs[call[a].obj] # Tomb
    PROVE  /\ call[a].tip \in Tips
           /\ map[call[a].tip] = call[a].obj
           /\ Live(call[a].tip)
           /\ \A u \in Tips : u # call[a].tip => map[u] # call[a].obj
  <1>1. call[a].obj # None
    BY NoneIsNothing
  <1>2. PICK t \in Tips : map[t] = call[a].obj
    BY DEF PInv, TombInv
  <1>3. t = call[a].tip
    BY <1>1, <1>2 DEF PInv, MapInv
  <1>4. refs[call[a].obj] >= 0
    BY DEF PInv, TypeOK, Tomb
  <1> QED BY <1>1, <1>2, <1>3, <1>4 DEF Live, PInv, MapInv

(***************************************************************************)
(* LoadOrStore finds a vertex.                                             *)
(***************************************************************************)
LEMMA PutStoreFound ==
    ASSUME PInv, NEW a \in Actors, PutStore(a), map[call[a].tip] # None
    PROVE  PInv' /\ Same
  <1> DEFINE t == call[a].tip
             f == [call[a] EXCEPT !.pc = "own", !.obj = map[t]]
  <1>0. /\ TypeOK /\ WellFormed(a, call[a]) /\ call[a].pc = "store" /\ call[a] \in Frames
        /\ t \in Tips /\ call[a].pin = None /\ a # Gov
        /\ UNCHANGED <<map, refs, creation, pinned, bytes, owed, durable, queue, pending, left>>
    BY DEF PInv, FrameInv, WellFormed, PutStore, TypeOK
  <1>1. CASE call[a].keys = {}
    <2>1. Return(a)
      BY <1>1, SMTT(60) DEF PutStore
    <2>2. /\ FrameInv' /\ PinsApart' /\ MapInv' /\ TombInv' /\ MuInv'
          /\ PinnedIsResident' /\ RefsExact' /\ Same
          /\ call' \in [Actors -> Frames]
          /\ mu' \in [Objs -> Actors \cup {None}]
          /\ lock' \in [Tips -> Actors \cup {None}]
      BY <1>0, <2>1, QuietReturn
    <2>3. TypeOK'
      BY <1>0, <2>2, Zenon DEF TypeOK
    <2> QED BY <2>2, <2>3 DEF PInv
  <1>2. CASE call[a].keys # {}
    <2>1. call' = [call EXCEPT ![a] = f] /\ UNCHANGED <<mu, lock>>
      BY <1>0, <1>2, ZenonT(60) DEF PutStore, TypeOK
    <2>2. map[t] \in Objs
      BY <1>0 DEF TypeOK
    <2>3. /\ f.pc = "own" /\ f.tip = t /\ f.obj = map[t]
          /\ f.keys = call[a].keys /\ f.pin = None /\ f \in Frames
      BY <1>0, <2>2, Zenon DEF Frames, Steps
    <2>4. WellFormed(a, f)
      BY <1>0, <1>2, <2>2, <2>3 DEF WellFormed
    <2> HIDE DEF f
    <2>5. /\ FrameInv' /\ PinsApart' /\ MapInv' /\ TombInv' /\ MuInv'
          /\ PinnedIsResident' /\ RefsExact' /\ Same
          /\ call' \in [Actors -> Frames]
      BY <1>0, <2>1, <2>3, <2>4, QuietStep, ZenonT(60)
    <2>6. TypeOK'
      BY <1>0, <2>1, <2>5 DEF TypeOK
    <2> QED BY <2>5, <2>6, Zenon DEF PInv
  <1> QED BY <1>1, <1>2, SMTT(60)

-----------------------------------------------------------------------------
(* A step on one published vertex *)

(***************************************************************************)
(* What a step of actor a to frame f on the vertex o, published under t,   *)
(* has to respect: the vertex keeps its count right, the tombstone stays   *)
(* with the governor, and a call that moves creation keys holds creationMu. *)
(***************************************************************************)
HolderStep(a, f, t, o) ==
    /\ call' = [call EXCEPT ![a] = f]
    /\ f.pin = None
    /\ f.obj # None => f.obj = o /\ f.tip = t
    /\ map[t] = o /\ UNCHANGED map
    /\ \A q \in Objs : q # o => refs'[q] = refs[q] /\ creation'[q] = creation[q]
    /\ pinned' \in [Pins -> Tips \cup {None}]
    /\ \A p \in Pins : \/ pinned'[p] = pinned[p]
                       \/ pinned[p] = t /\ pinned'[p] = None
                       \/ pinned[p] = None /\ pinned'[p] = t /\ p = call[a].pin
    /\ refs'[o] = Tomb => creation'[o] = {}
    /\ a # Gov => refs[o] # Tomb /\ refs'[o] # Tomb
    /\ f.pc # "claim"
    /\ f.pc = "delete" => f.obj = o /\ refs'[o] = Tomb
    /\ f.pc \in {"record", "drop"} =>
          f.obj = o /\ mu'[o] = a /\ refs'[o] # Tomb /\ f.keys \cap creation'[o] = {}
    /\ call[a].pc \in {"record", "drop"} => call[a].obj = o
    /\ \A b \in Midway(o) : b # a => creation'[o] = creation[o] /\ refs'[o] # Tomb
    /\ \A b \in Actors, q \in Objs : b # a /\ mu[q] = b => mu'[q] = b
    /\ Live(t)' => refs'[o] = Cardinality(HeldBy(t)')
    /\ (\E p \in Pins : pinned'[p] = t) => refs'[o] >= 0

(***************************************************************************)
(* Such a step preserves everything but the types.                         *)
(***************************************************************************)
LEMMA HolderStepInv ==
    ASSUME PInv, NEW a \in Actors, NEW f, WellFormed(a, f), NEW t \in Tips, NEW o \in Objs,
           HolderStep(a, f, t, o)
    PROVE  /\ FrameInv' /\ PinsApart' /\ MapInv' /\ TombInv' /\ MuInv'
           /\ PinnedIsResident' /\ RefsExact' /\ Others(t)
           /\ call' \in [Actors -> Frames]
  <1>1. /\ FrameInv' /\ call' \in [Actors -> Frames] /\ call'[a] = f
        /\ \A b \in Actors : b # a => call'[b] = call[b]
    BY OneFrame, Zenon DEF HolderStep
  <1>2. PinsApart'
    <2>1. ASSUME NEW b \in Actors, call'[b].pin # None
          PROVE  b # a /\ call'[b] = call[b] /\ pinned'[call[b].pin] = None
      <3>1. b # a /\ call'[b] = call[b]
        BY <1>1, <2>1, Zenon DEF HolderStep
      <3>2. pinned[call[b].pin] = None /\ call[b].pin \in Pins /\ call[b].pin # call[a].pin
        BY <2>1, <3>1, ZenonT(60) DEF PInv, PinsApart, TypeOK, Frames
      <3>3. t # None
        BY NoneIsNothing
      <3> QED BY <3>1, <3>2, <3>3, Zenon DEF HolderStep
    <2> QED BY <1>1, <2>1, ZenonT(60) DEF PInv, PinsApart
  <1>3. MapInv'
    <2>0. o # None
      BY NoneIsNothing
    <2>1. \A u \in Tips : map[u] = o => u = t
      BY <2>0, Zenon DEF PInv, MapInv, HolderStep
    <2>2. \A u \in Tips : f.obj # None /\ map[u] = f.obj => u = f.tip
      BY <2>1, ZenonT(60) DEF HolderStep
    <2>3. UNCHANGED map
      BY Zenon DEF HolderStep
    <2>4. MapInv
      BY Zenon DEF PInv
    <2>5. ASSUME NEW b \in Actors, NEW u \in Tips, call'[b].obj # None, map[u] = call'[b].obj
          PROVE  u = call'[b].tip
      <3>1. CASE b = a
        BY <1>1, <2>2, <2>5, <3>1, Zenon
      <3>2. CASE b # a
        BY <1>1, <2>4, <2>5, <3>2, Zenon DEF MapInv
      <3> QED BY <3>1, <3>2, Zenon
    <2> QED BY <2>3, <2>4, <2>5, ZenonT(60) DEF MapInv
  <1>4. TombInv'
    <2>0. Gov \in Actors /\ UNCHANGED map /\ map[t] = o
      BY ZenonT(60) DEF Actors, HolderStep
    <2>1. \A q \in Objs : refs'[q] # Tomb => \E u \in Tips : map'[u] = q
      <3>1. \A q \in Objs : q # o => refs'[q] = refs[q]
        BY ZenonT(60) DEF HolderStep
      <3>2. \A q \in Objs : refs[q] # Tomb => \E u \in Tips : map[u] = q
        BY ZenonT(60) DEF PInv, TombInv
      <3> QED BY <2>0, <3>1, <3>2, SMTT(60)
    <2>2. \A q \in Objs : refs'[q] = Tomb => creation'[q] = {}
      BY ZenonT(60) DEF PInv, TombInv, HolderStep
    <2>3. /\ call'[Gov].pc \in {"claim", "delete"} => map'[call'[Gov].tip] = call'[Gov].obj
          /\ call'[Gov].pc = "delete" => refs'[call'[Gov].obj] = Tomb
      <3>1. CASE a = Gov
        <4>1. f.pc = "delete" => f.obj = o /\ refs'[o] = Tomb /\ f.tip = t
          BY NoneIsNothing, Zenon DEF HolderStep
        <4> QED BY <1>1, <2>0, <3>1, <4>1, Zenon DEF HolderStep
      <3>2. CASE a # Gov
        <4>1. call'[Gov] = call[Gov]
          BY <1>1, <2>0, <3>2
        <4>2. call[Gov].pc = "delete" => call[Gov].obj \in Objs
          BY <2>0 DEF PInv, FrameInv, WellFormed
        <4>3. call[Gov].pc = "delete" => call[Gov].obj # o
          BY <3>2, Zenon DEF PInv, TombInv, HolderStep
        <4>4. call[Gov].pc = "delete" => refs'[call[Gov].obj] = Tomb
          BY <4>2, <4>3, Zenon DEF PInv, TombInv, HolderStep
        <4> QED BY <2>0, <4>1, <4>4, Zenon DEF PInv, TombInv
      <3> QED BY <3>1, <3>2, Zenon
    <2> QED BY <2>1, <2>2, <2>3, Zenon DEF TombInv
  <1>5. MuInv'
    <2>1. ASSUME NEW b \in Actors, b # a, call[b].pc \in {"record", "drop"}
          PROVE  /\ mu'[call[b].obj] = b
                 /\ refs'[call[b].obj] # Tomb
                 /\ call[b].keys \cap creation'[call[b].obj] = {}
      <3>1. /\ call[b].obj \in Objs /\ mu[call[b].obj] = b /\ refs[call[b].obj] # Tomb
            /\ call[b].keys \cap creation[call[b].obj] = {}
        BY <2>1, Zenon DEF PInv, FrameInv, WellFormed, MuInv
      <3>2. mu'[call[b].obj] = b
        BY <2>1, <3>1, Zenon DEF HolderStep
      <3>3. CASE call[b].obj = o
        <4>1. b \in Midway(o)
          BY <2>1, <3>3 DEF Midway
        <4> QED BY <2>1, <3>1, <3>2, <3>3, <4>1, ZenonT(60) DEF HolderStep
      <3>4. CASE call[b].obj # o
        BY <3>1, <3>2, <3>4, Zenon DEF HolderStep
      <3> QED BY <3>3, <3>4, Zenon
    <2>2. f.pc \in {"record", "drop"} =>
             f.obj = o /\ mu'[o] = a /\ refs'[o] # Tomb /\ f.keys \cap creation'[o] = {}
      BY Zenon DEF HolderStep
    <2> QED BY <1>1, <2>1, <2>2, Zenon DEF MuInv
  <1>6. PinnedIsResident' /\ RefsExact' /\ Others(t)
    <2>0. o # None /\ t # None
      BY NoneIsNothing
    <2>1. Elsewhere(a, t, o)
      <3>1. \A u \in Tips : u # t => map'[u] = map[u] /\ map[u] # o
        BY <2>0, ZenonT(60) DEF HolderStep, PInv, MapInv
      <3>2. \A p \in Pins, u \in Tips : u # t => (pinned'[p] = u <=> pinned[p] = u)
        <4>1. \A p \in Pins : \/ pinned'[p] = pinned[p]
                              \/ pinned[p] = t /\ pinned'[p] = None
                              \/ pinned[p] = None /\ pinned'[p] = t
          BY Zenon DEF HolderStep
        <4>2. \A u \in Tips : u # None
          BY NoneIsNothing
        <4> QED BY <4>1, <4>2
      <3>3. /\ \A q \in Objs : q # o => refs'[q] = refs[q] /\ creation'[q] = creation[q]
            /\ call[a].pc \in {"record", "drop"} => call[a].obj = o
            /\ f.pc \in {"record", "drop"} => f.obj = o
        BY Zenon DEF HolderStep
      <3> QED BY <1>1, <3>1, <3>2, <3>3, Zenon DEF Elsewhere
    <2>2. map'[t] = o
      BY ZenonT(60) DEF HolderStep
    <2>3. Live(t)' <=> refs'[o] >= 0
      BY <2>0, <2>2 DEF Live
    <2>4. \A p \in Pins : pinned'[p] = t => Live(t)'
      BY <2>3, Zenon DEF HolderStep
    <2>5. Live(t)' => refs'[map'[t]] = Cardinality(HeldBy(t)')
      BY <2>2, Zenon DEF HolderStep
    <2>6. pinned' \in [Pins -> Tips \cup {None}]
      BY ZenonT(60) DEF HolderStep
    <2>7. Others(t)
      BY <2>1, ElsewhereHolders, ZenonT(60) DEF Others
    <2> QED BY <2>1, <2>4, <2>5, <2>6, <2>7, ElsewhereCounts, Zenon
  <1> QED BY <1>1, <1>2, <1>3, <1>4, <1>5, <1>6

-----------------------------------------------------------------------------
(* Counting holders *)

(***************************************************************************)
(* What the steps need to know about the number of members of a set of     *)
(* holders.  It follows from the finiteness of Keys and Pins; the proof is *)
(* in VertexPoolProofs, with the theorems on finite sets it rests on.      *)
(***************************************************************************)
Counting ==
    /\ Cardinality({}) = 0
    /\ \A S \in SUBSET (Keys \cup Pins) :
          /\ Cardinality(S) \in Nat
          /\ Cardinality(S) = 0 => S = {}
          /\ \A x \in S : Cardinality(S \ {x}) = Cardinality(S) - 1
          /\ \A x \in (Keys \cup Pins) \ S : Cardinality(S \cup {x}) = Cardinality(S) + 1
          /\ \A T \in SUBSET (Keys \cup Pins) :
                S \cap T = {} => Cardinality(S \cup T) = Cardinality(S) + Cardinality(T)

(***************************************************************************)
(* Holders are keys and pins.                                              *)
(***************************************************************************)
LEMMA HoldersOnly ==
    ASSUME PInv, NEW t \in Tips
    PROVE  HeldBy(t) \in SUBSET (Keys \cup Pins)
  <1>1. \A b \in Actors : call[b].keys \subseteq Keys
    BY DEF PInv, TypeOK, Frames
  <1>2. Live(t) => creation[map[t]] \subseteq Keys
    BY DEF PInv, TypeOK, Live
  <1>3. KeysMidway(map[t]) \subseteq Keys
    BY <1>1 DEF KeysMidway, Midway
  <1>4. PinsOf(t) \subseteq Pins
    BY DEF PinsOf
  <1> QED BY <1>2, <1>3, <1>4 DEF HeldBy

(***************************************************************************)
(* A set of keys has a natural number of members.                          *)
(***************************************************************************)
LEMMA KeySets ==
    ASSUME Counting
    PROVE  \A K \in SUBSET Keys : Cardinality(K) \in Nat
  <1>1. \A K \in SUBSET Keys : K \in SUBSET (Keys \cup Pins)
    OBVIOUS
  <1> QED BY <1>1 DEF Counting

(***************************************************************************)
(* A set of holders that lost one of its members.                          *)
(***************************************************************************)
LEMMA OneLess ==
    ASSUME Counting, NEW S \in SUBSET (Keys \cup Pins), NEW x \in S
    PROVE  /\ Cardinality(S) \in Nat /\ Cardinality(S) >= 1
           /\ Cardinality(S \ {x}) = Cardinality(S) - 1
  <1>1. Cardinality(S) \in Nat /\ Cardinality(S) # 0
    BY DEF Counting
  <1>2. Cardinality(S \ {x}) = Cardinality(S) - 1
    BY DEF Counting
  <1> QED BY <1>1, <1>2

=============================================================================
