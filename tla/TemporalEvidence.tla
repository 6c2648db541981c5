-------------------------- MODULE TemporalEvidence --------------------------
(***************************************************************************)
(* How readers and ingestion share what they learn of the clocks           *)
(* (effects/temporal.go): evidence is an immutable version behind an       *)
(* atomic pointer, here the set of inequalities it was made from, and a    *)
(* resident vertex keeps flags of what was observed of it. Clocks are      *)
(* within their contract, so no inequality is refused (ElapsedClocks).     *)
(***************************************************************************)
EXTENDS Integers, FiniteSets, TLAPS

CONSTANTS
    Threads,
    Effects,
    Deps,           \* Deps[e]: the effects e names
    Remote,         \* the effects of other nodes
    None,
    MaxObserves, MaxEvicts

VARIABLES
    pool,           \* pool[e]: the vertex of e, of its generation and flags, or None
    current,        \* the evidence, None before the first
    run,            \* run[t]: what thread t has at hand
    observes, evicts

vars == <<pool, current, run, observes, evicts>>

Received == "received"
Inequalities == (Effects \X Effects) \union (Effects \X {Received})
Idle == [pc |-> "idle"]

(* The vertex that a pointer taken earlier leads to: evicted, it is not    *)
(* the one in the pool.                                                    *)
Holds(vertex, e) == vertex # None /\ pool[e] # None /\ pool[e].gen = vertex.gen

Init ==
    /\ pool = [e \in Effects |-> None] /\ current = None
    /\ run = [t \in Threads |-> Idle] /\ observes = 0 /\ evicts = 0

Step(t, next) == run' = [run EXCEPT ![t] = next]

(* The pool takes an effect, or drops one; neither asks the observers.     *)
Load(e) ==
    /\ pool[e] = None /\ pool' = [pool EXCEPT ![e] = [gen |-> evicts, flags |-> {}]]
    /\ UNCHANGED <<current, run, observes, evicts>>

Evict(e) ==
    /\ evicts < MaxEvicts /\ pool[e] # None
    /\ pool' = [pool EXCEPT ![e] = None] /\ evicts' = evicts + 1
    /\ UNCHANGED <<current, run, observes>>

(* observeTemporal, from ingestion with receipt and from a read without.   *)
Observe(t, e, receipt) ==
    LET flags == IF pool[e] = None THEN {} ELSE pool[e].flags
        sample == receipt /\ e \in Remote /\ Received \notin flags
    IN
    /\ run[t] = Idle /\ observes < MaxObserves /\ observes' = observes + 1
    /\ "deps" \notin flags \/ sample
    /\ Step(t, [pc |-> "deps", tip |-> e, vertex |-> pool[e], receipt |-> sample, got |-> {}, base |-> None,
                left |-> IF "deps" \in flags THEN {} ELSE Deps[e],
                completed |-> IF "deps" \in flags THEN {} ELSE {"deps"}])
    /\ UNCHANGED <<pool, current, evicts>>

(* A parent that is not resident leaves the dependencies unobserved.       *)
Parent(t, d) ==
    /\ run[t].pc = "deps" /\ d \in run[t].left
    /\ Step(t, IF pool[d] = None THEN [run[t] EXCEPT !.left = @ \ {d}, !.completed = @ \ {"deps"}]
               ELSE [run[t] EXCEPT !.left = @ \ {d}, !.got = @ \union {<<d, run[t].tip>>}])
    /\ UNCHANGED <<pool, current, observes, evicts>>

(* The receipt is sampled and the evidence loaded, the first version made  *)
(* when there is none (clockEvidence).                                     *)
Base(t) ==
    LET r == run[t]
        got == r.got \union (IF r.receipt THEN {<<r.tip, Received>>} ELSE {})
    IN
    /\ r.pc = "deps" /\ r.left = {}
    /\ current' = IF got # {} /\ current = None THEN {} ELSE current
    /\ Step(t, [r EXCEPT !.pc = IF got = {} THEN "mark" ELSE "merge", !.got = got,
                         !.completed = @ \union (IF r.receipt THEN {Received} ELSE {}), !.base = current'])
    /\ UNCHANGED <<pool, observes, evicts>>

(* merge: one turn of the compare-and-swap.                                *)
Merge(t) ==
    LET r == run[t]
        next == r.base \union r.got
    IN
    /\ r.pc = "merge"
    /\ IF next = r.base \/ current = r.base
       THEN /\ current' = IF next = r.base THEN current ELSE next
            /\ Step(t, [r EXCEPT !.pc = "mark"])
       ELSE UNCHANGED current /\ Step(t, [r EXCEPT !.base = current])
    /\ UNCHANGED <<pool, observes, evicts>>

(* The flags of the vertex are set after the evidence is out.              *)
Mark(t) ==
    LET r == run[t] IN
    /\ r.pc = "mark" /\ Step(t, Idle)
    /\ pool' = IF Holds(r.vertex, r.tip) THEN [pool EXCEPT ![r.tip].flags = @ \union r.completed] ELSE pool
    /\ UNCHANGED <<current, observes, evicts>>

Work(t) == (\E d \in Effects : Parent(t, d)) \/ Base(t) \/ Merge(t) \/ Mark(t)

Next ==
    \/ \E e \in Effects : Load(e) \/ Evict(e)
    \/ \E t \in Threads, e \in Effects, receipt \in BOOLEAN : Observe(t, e, receipt)
    \/ \E t \in Threads : Work(t)

Spec == Init /\ [][Next]_vars

----------------------------------------------------------------------------
Evidence == IF current = None THEN {} ELSE current

(* Types; only the effects of others are received.                         *)
TypeOK ==
    /\ current = None \/ current \subseteq Inequalities
    /\ \A e \in Effects : pool[e] # None =>
            pool[e].flags \subseteq {"deps"} \union (IF e \in Remote THEN {Received} ELSE {})

(* "Concurrent observers may repeat work, but never skip evidence that is  *)
(* still waiting to publish": what a vertex is flagged for is in the       *)
(* evidence, parents that were away when it was first observed included.   *)
FlaggedIsPublished ==
    \A e \in Effects : pool[e] # None =>
        /\ "deps" \in pool[e].flags => \A d \in Deps[e] : <<d, e>> \in Evidence
        /\ Received \in pool[e].flags => <<e, Received>> \in Evidence

(* "replay against that version so neither writer's constraints are        *)
(* overwritten": evidence only grows.                                      *)
NothingOverwritten == [][Evidence \subseteq Evidence']_vars

----------------------------------------------------------------------------
(***************************************************************************)
(* The proofs: the flags of a vertex never promise more than the current   *)
(* version holds, and no version drops what an earlier one had, for every  *)
(* set of effects and threads and any number of observations and           *)
(* evictions.                                                              *)
(***************************************************************************)
Flags == {"deps", Received}

Vertices == [gen : Nat, flags : SUBSET Flags]

(***************************************************************************)
(* What the proofs assume of the constants: the nil pointer is neither a   *)
(* version of the evidence nor a vertex, and effects name effects.         *)
(***************************************************************************)
ConstantsOK ==
    /\ None \notin SUBSET Inequalities /\ None \notin Vertices
    /\ Deps \in [Effects -> SUBSET Effects]

-----------------------------------------------------------------------------
(* The inductive invariant *)

Runs ==
    [pc : {"deps", "merge", "mark"}, tip : Effects, vertex : Vertices \cup {None},
     receipt : BOOLEAN, got : SUBSET Inequalities, base : (SUBSET Inequalities) \cup {None},
     left : SUBSET Effects, completed : SUBSET Flags]

Types ==
    /\ pool \in [Effects -> Vertices \cup {None}]
    /\ current \in (SUBSET Inequalities) \cup {None}
    /\ run \in [Threads -> Runs \cup {Idle}]
    /\ observes \in Nat /\ evicts \in Nat

(***************************************************************************)
(* S has everything that effect e is flagged for with the flags F.         *)
(***************************************************************************)
Covers(S, F, e) ==
    /\ "deps" \in F => \A d \in Deps[e] : <<d, e>> \in S
    /\ Received \in F => <<e, Received>> \in S

(***************************************************************************)
(* An observation in progress: what it will flag is among the parents it   *)
(* still has to visit or in its hands, then in its hands, then published;  *)
(* the version it builds on is an earlier one.                             *)
(***************************************************************************)
RunInv(r) ==
    /\ r.pc = "deps" =>
        /\ Received \notin r.completed
        /\ "deps" \in r.completed => \A d \in Deps[r.tip] : d \in r.left \/ <<d, r.tip>> \in r.got
    /\ r.pc = "merge" =>
        /\ current # None /\ r.base # None /\ r.base \subseteq current
        /\ Covers(r.got, r.completed, r.tip)
    /\ r.pc = "mark" => Covers(Evidence, r.completed, r.tip)

EInv ==
    /\ Types
    /\ \A t \in Threads : RunInv(run[t])
    /\ FlaggedIsPublished

(***************************************************************************)
(* Flagged effects are covered by the evidence.                            *)
(***************************************************************************)
LEMMA FlagsCovered ==
    FlaggedIsPublished <=>
        \A e \in Effects : pool[e] # None => Covers(Evidence, pool[e].flags, e)
  BY DEF FlaggedIsPublished, Covers

(***************************************************************************)
(* More evidence covers as much.                                           *)
(***************************************************************************)
LEMMA MoreCovers ==
    ASSUME NEW S, NEW T, S \subseteq T, NEW F, NEW e, Covers(S, F, e)
    PROVE  Covers(T, F, e)
  BY DEF Covers

(***************************************************************************)
(* A step that keeps the evidence or adds to it, and moves thread t alone, *)
(* preserves what the other threads and the flags rely on.                 *)
(***************************************************************************)
LEMMA GrowingStep ==
    ASSUME ConstantsOK, EInv, NEW t \in Threads,
           run'[t] \in Runs \cup {Idle}, run' = [run EXCEPT ![t] = run'[t]],
           current' \in (SUBSET Inequalities) \cup {None},
           current # None => current' # None /\ current \subseteq current',
           RunInv(run[t])', UNCHANGED <<pool, evicts>>, observes' \in Nat
    PROVE  EInv' /\ Evidence \subseteq Evidence'
  <1>1. Evidence \subseteq Evidence'
    BY DEF Evidence
  <1>2. Types'
    BY DEF EInv, Types
  <1>3. ASSUME NEW s \in Threads PROVE RunInv(run[s])'
    <2>1. CASE s = t
      BY <2>1 DEF EInv, Types
    <2>2. CASE s # t
      <3>1. run'[s] = run[s] /\ RunInv(run[s])
        BY <2>2 DEF EInv, Types
      <3>2. run[s].pc = "mark" => Covers(Evidence', run[s].completed, run[s].tip)
        BY <1>1, <3>1, MoreCovers DEF RunInv
      <3>3. run[s].pc = "merge" =>
               /\ current' # None /\ run[s].base # None /\ run[s].base \subseteq current'
               /\ Covers(run[s].got, run[s].completed, run[s].tip)
        BY <3>1 DEF RunInv
      <3> QED BY <3>1, <3>2, <3>3 DEF RunInv, Covers
    <2> QED BY <2>1, <2>2
  <1>4. FlaggedIsPublished'
    BY <1>1 DEF EInv, FlaggedIsPublished
  <1> QED BY <1>1, <1>2, <1>3, <1>4 DEF EInv

(***************************************************************************)
(* observeTemporal starts with the parents it still has to visit.          *)
(***************************************************************************)
LEMMA ObserveInv ==
    ASSUME ConstantsOK, EInv, NEW t \in Threads, NEW e \in Effects, NEW receipt \in BOOLEAN,
           Observe(t, e, receipt)
    PROVE  EInv' /\ Evidence \subseteq Evidence'
  <1> DEFINE flags == IF pool[e] = None THEN {} ELSE pool[e].flags
             next == [pc |-> "deps", tip |-> e, vertex |-> pool[e],
                      receipt |-> receipt /\ e \in Remote /\ Received \notin flags,
                      got |-> {}, base |-> None,
                      left |-> IF "deps" \in flags THEN {} ELSE Deps[e],
                      completed |-> IF "deps" \in flags THEN {} ELSE {"deps"}]
  <1>1. /\ run' = [run EXCEPT ![t] = next] /\ run'[t] = next /\ observes' = observes + 1
        /\ UNCHANGED <<pool, current, evicts>>
    BY DEF Observe, Step, EInv, Types
  <1>2. next \in Runs
    <2>1. Deps[e] \subseteq Effects
      BY DEF ConstantsOK
    <2>2. pool[e] \in Vertices \cup {None}
      BY DEF EInv, Types
    <2>3. (receipt /\ e \in Remote /\ Received \notin flags) \in BOOLEAN
      OBVIOUS
    <2>4. /\ (IF "deps" \in flags THEN {} ELSE Deps[e]) \in SUBSET Effects
          /\ (IF "deps" \in flags THEN {} ELSE {"deps"}) \in SUBSET Flags
      BY <2>1 DEF Flags
    <2> HIDE DEF flags
    <2> QED BY <2>2, <2>3, <2>4 DEF Runs
  <1>3. RunInv(run[t])'
    BY <1>1 DEF RunInv, Received
  <1>4. observes' \in Nat /\ current' \in (SUBSET Inequalities) \cup {None}
    BY <1>1 DEF EInv, Types
  <1> HIDE DEF next
  <1> QED BY <1>1, <1>2, <1>3, <1>4, GrowingStep

(***************************************************************************)
(* One parent visited: its inequality is at hand, or the dependencies are  *)
(* not to be flagged.                                                      *)
(***************************************************************************)
LEMMA ParentInv ==
    ASSUME ConstantsOK, EInv, NEW t \in Threads, NEW d \in Effects, Parent(t, d)
    PROVE  EInv' /\ Evidence \subseteq Evidence'
  <1> DEFINE next == IF pool[d] = None
                     THEN [run[t] EXCEPT !.left = @ \ {d}, !.completed = @ \ {"deps"}]
                     ELSE [run[t] EXCEPT !.left = @ \ {d}, !.got = @ \union {<<d, run[t].tip>>}]
  <1>1. /\ run' = [run EXCEPT ![t] = next] /\ run'[t] = next
        /\ UNCHANGED <<pool, current, observes, evicts>>
    BY DEF Parent, Step, EInv, Types
  <1>2. run[t] \in Runs /\ run[t].pc = "deps" /\ RunInv(run[t])
    BY DEF Parent, EInv, Types, Idle
  <1>3. next \in Runs
    <2>1. /\ run[t].left \ {d} \in SUBSET Effects /\ run[t].completed \ {"deps"} \in SUBSET Flags
          /\ run[t].got \union {<<d, run[t].tip>>} \in SUBSET Inequalities
      BY <1>2 DEF Runs, Inequalities
    <2>2. CASE pool[d] = None
      BY <1>2, <2>1, <2>2 DEF Runs
    <2>3. CASE pool[d] # None
      BY <1>2, <2>1, <2>3 DEF Runs
    <2> QED BY <2>2, <2>3
  <1>4. /\ next.pc = "deps" /\ next.tip = run[t].tip /\ next.left = run[t].left \ {d}
        /\ next.completed \subseteq run[t].completed /\ run[t].got \subseteq next.got
        /\ "deps" \in next.completed => <<d, next.tip>> \in next.got
    BY <1>2 DEF Runs
  <1>5. observes' \in Nat /\ current' \in (SUBSET Inequalities) \cup {None}
    BY <1>1 DEF EInv, Types
  <1> HIDE DEF next
  <1>6. RunInv(run[t])'
    BY <1>1, <1>2, <1>4 DEF RunInv
  <1> QED BY <1>1, <1>3, <1>5, <1>6, GrowingStep

(***************************************************************************)
(* With every parent visited, the version to build on is the current one.  *)
(***************************************************************************)
LEMMA BaseInv ==
    ASSUME ConstantsOK, EInv, NEW t \in Threads, Base(t)
    PROVE  EInv' /\ Evidence \subseteq Evidence'
  <1> DEFINE got == run[t].got \union (IF run[t].receipt THEN {<<run[t].tip, Received>>} ELSE {})
             completed == run[t].completed \union (IF run[t].receipt THEN {Received} ELSE {})
             next == [run[t] EXCEPT !.pc = IF got = {} THEN "mark" ELSE "merge", !.got = got,
                                    !.completed = @ \union (IF run[t].receipt THEN {Received} ELSE {}),
                                    !.base = current']
  <1>1. /\ run[t].pc = "deps" /\ run[t].left = {}
        /\ run' = [run EXCEPT ![t] = next] /\ run'[t] = next
        /\ UNCHANGED <<pool, observes, evicts>>
        /\ current' = IF got # {} /\ current = None THEN {} ELSE current
    BY DEF Base, Step, EInv, Types
  <1>2. run[t] \in Runs /\ RunInv(run[t])
    BY <1>1 DEF EInv, Types, Idle
  <1>3. /\ current' \in (SUBSET Inequalities) \cup {None}
        /\ current # None => current' # None /\ current \subseteq current'
        /\ got # {} => current' # None
    BY <1>1 DEF EInv, Types, ConstantsOK
  <1>4. got \in SUBSET Inequalities
    BY <1>2 DEF Runs, Inequalities
  <1>5. completed \in SUBSET Flags
    BY <1>2 DEF Runs, Flags
  <1>6. /\ next.pc = IF got = {} THEN "mark" ELSE "merge"
        /\ next.tip = run[t].tip /\ next.got = got /\ next.completed = completed
        /\ next.base = current'
    BY <1>2 DEF Runs
  <1>7. next \in Runs
    <2> HIDE DEF got
    <2> QED BY <1>2, <1>3, <1>4, <1>5 DEF Runs
  <1>8. Covers(got, completed, run[t].tip)
    BY <1>1, <1>2 DEF RunInv, Covers, Received
  <1>9. observes' \in Nat
    BY <1>1 DEF EInv, Types
  <1> HIDE DEF next, got, completed
  <1>10. RunInv(run[t])'
    <2>1. CASE got = {}
      <3>1. run'[t].pc = "mark"
        BY <2>1, <1>1, <1>6
      <3>2. Covers(Evidence', completed, run[t].tip)
        BY <2>1, <1>8, MoreCovers
      <3> QED BY <3>1, <3>2, <1>1, <1>6 DEF RunInv, Covers
    <2>2. CASE got # {}
      BY <2>2, <1>1, <1>3, <1>6, <1>8 DEF RunInv, Covers
    <2> QED BY <2>1, <2>2
  <1> QED BY <1>1, <1>3, <1>7, <1>9, <1>10, GrowingStep

(***************************************************************************)
(* The swap publishes only onto the version it was made from; otherwise it *)
(* is replayed on the newer one.                                           *)
(***************************************************************************)
LEMMA MergeInv ==
    ASSUME ConstantsOK, EInv, NEW t \in Threads, Merge(t)
    PROVE  EInv' /\ Evidence \subseteq Evidence'
  <1> DEFINE r == run[t]
             next == r.base \union r.got
  <1>1. /\ r.pc = "merge" /\ r \in Runs /\ RunInv(r) /\ UNCHANGED <<pool, observes, evicts>>
        /\ run \in [Threads -> Runs \cup {Idle}]
    BY DEF Merge, EInv, Types, Idle
  <1>2. /\ current # None /\ r.base # None /\ r.base \subseteq current
        /\ Covers(r.got, r.completed, r.tip)
        /\ r.base \in SUBSET Inequalities /\ r.got \in SUBSET Inequalities
        /\ current \in SUBSET Inequalities
    BY <1>1 DEF RunInv, Runs, EInv, Types
  <1>3. CASE next = r.base \/ current = r.base
    <2>1. /\ current' = IF next = r.base THEN current ELSE next
          /\ run' = [run EXCEPT ![t] = [r EXCEPT !.pc = "mark"]]
          /\ run'[t] = [r EXCEPT !.pc = "mark"]
      BY <1>1, <1>3 DEF Merge, Step
    <2>2. current' \in SUBSET Inequalities /\ current \subseteq current' /\ r.got \subseteq current'
      BY <1>2, <1>3, <2>1
    <2>3. current' # None
      BY <2>2 DEF ConstantsOK
    <2>4. Covers(Evidence', r.completed, r.tip)
      BY <1>2, <2>2, <2>3, MoreCovers DEF Evidence
    <2>5. /\ run'[t] \in Runs /\ run'[t].pc = "mark"
          /\ run'[t].tip = r.tip /\ run'[t].completed = r.completed
      BY <1>1, <2>1 DEF Runs
    <2>6. RunInv(run[t])'
      BY <2>4, <2>5 DEF RunInv, Covers
    <2>7. observes' \in Nat
      BY <1>1 DEF EInv, Types
    <2> QED BY <1>1, <2>1, <2>2, <2>3, <2>5, <2>6, <2>7, GrowingStep
  <1>4. CASE ~(next = r.base \/ current = r.base)
    <2>1. /\ UNCHANGED current
          /\ run' = [run EXCEPT ![t] = [r EXCEPT !.base = current]]
          /\ run'[t] = [r EXCEPT !.base = current]
      BY <1>1, <1>4 DEF Merge, Step
    <2>2. /\ run'[t] \in Runs /\ run'[t].pc = "merge" /\ run'[t].base = current
          /\ run'[t].tip = r.tip /\ run'[t].completed = r.completed /\ run'[t].got = r.got
      BY <1>1, <1>2, <2>1 DEF Runs
    <2>3. RunInv(run[t])'
      BY <1>2, <2>1, <2>2 DEF RunInv, Covers
    <2>4. observes' \in Nat
      BY <1>1 DEF EInv, Types
    <2> QED BY <1>1, <1>2, <2>1, <2>2, <2>3, <2>4, GrowingStep
  <1> QED BY <1>3, <1>4

(***************************************************************************)
(* Flags are set once what they stand for is published.                    *)
(***************************************************************************)
LEMMA MarkInv ==
    ASSUME ConstantsOK, EInv, NEW t \in Threads, Mark(t)
    PROVE  EInv' /\ Evidence \subseteq Evidence'
  <1> DEFINE r == run[t]
  <1>1. /\ r.pc = "mark" /\ r \in Runs /\ RunInv(r)
        /\ run' = [run EXCEPT ![t] = Idle] /\ UNCHANGED <<current, observes, evicts>>
    BY DEF Mark, Step, EInv, Types, Idle
  <1>2. r.tip \in Effects /\ r.completed \in SUBSET Flags /\ Covers(Evidence, r.completed, r.tip)
    BY <1>1 DEF Runs, RunInv
  <1>3. Evidence' = Evidence
    BY <1>1 DEF Evidence
  <1>4. ASSUME NEW e \in Effects
        PROVE  /\ pool'[e] \in Vertices \cup {None}
               /\ pool'[e] # None => Covers(Evidence, pool'[e].flags, e)
    <2>1. /\ pool[e] \in Vertices \cup {None}
          /\ pool[e] # None => Covers(Evidence, pool[e].flags, e)
      BY FlagsCovered DEF EInv, Types
    <2>2. CASE Holds(r.vertex, r.tip) /\ e = r.tip
      <3>1. pool' = [pool EXCEPT ![e].flags = @ \union r.completed] /\ pool[e] # None
        BY <2>2 DEF Mark, Holds
      <3>2. pool'[e] = [pool[e] EXCEPT !.flags = @ \union r.completed]
        BY <3>1 DEF EInv, Types
      <3>3. pool'[e] \in Vertices /\ pool'[e].flags = pool[e].flags \union r.completed
        BY <1>2, <2>1, <3>1, <3>2 DEF Vertices
      <3> QED BY <1>2, <2>1, <2>2, <3>1, <3>3 DEF Covers
    <2>3. CASE ~(Holds(r.vertex, r.tip) /\ e = r.tip)
      <3>1. pool'[e] = pool[e]
        BY <2>3 DEF Mark, EInv, Types
      <3> QED BY <2>1, <3>1
    <2> QED BY <2>2, <2>3
  <1>5. Types'
    <2>1. pool' \in [Effects -> Vertices \cup {None}]
      <3>1. pool' = [e \in Effects |-> pool'[e]]
        BY DEF Mark, EInv, Types
      <3> QED BY <3>1, <1>4
    <2> QED BY <1>1, <2>1 DEF EInv, Types
  <1>6. \A s \in Threads : RunInv(run[s])'
    <2> TAKE s \in Threads
    <2>1. run'[s] = IF s = t THEN Idle ELSE run[s]
      BY <1>1 DEF EInv, Types
    <2>2. RunInv(run[s])
      BY DEF EInv
    <2> QED BY <1>1, <1>3, <2>1, <2>2 DEF RunInv, Idle, Covers
  <1>7. FlaggedIsPublished'
    BY <1>3, <1>4 DEF FlaggedIsPublished, Covers
  <1> QED BY <1>3, <1>5, <1>6, <1>7 DEF EInv

(***************************************************************************)
(* The pool takes a vertex without flags, or drops one.                    *)
(***************************************************************************)
LEMMA PoolInv ==
    ASSUME ConstantsOK, EInv, NEW e \in Effects, Load(e) \/ Evict(e)
    PROVE  EInv' /\ Evidence \subseteq Evidence'
  <1>1. /\ pool' \in [Effects -> Vertices \cup {None}] /\ UNCHANGED <<current, run, observes>>
        /\ evicts' \in Nat
    BY DEF Load, Evict, EInv, Types, Vertices
  <1>2. \A f \in Effects : pool'[f] # None => pool'[f] = pool[f] \/ pool'[f].flags = {}
    BY DEF Load, Evict, EInv, Types
  <1>3. Evidence' = Evidence
    BY <1>1 DEF Evidence
  <1>4. \A s \in Threads : RunInv(run[s])'
    BY <1>1, <1>3 DEF RunInv, Covers, EInv
  <1>5. FlaggedIsPublished'
    BY <1>2, <1>3 DEF FlaggedIsPublished, EInv
  <1> QED BY <1>1, <1>3, <1>4, <1>5 DEF EInv, Types

-----------------------------------------------------------------------------
(***************************************************************************)
(* The engine starts without evidence and with an empty pool.              *)
(***************************************************************************)
LEMMA EvidenceInit ==
    ASSUME ConstantsOK, Init
    PROVE  EInv
  BY DEF Init, EInv, Types, RunInv, Idle, FlaggedIsPublished

(***************************************************************************)
(* Every step keeps the invariant and the evidence.                        *)
(***************************************************************************)
LEMMA EvidenceStep ==
    ASSUME ConstantsOK, EInv, [Next]_vars
    PROVE  EInv' /\ Evidence \subseteq Evidence'
  <1>1. CASE Next
    BY <1>1, ObserveInv, ParentInv, BaseInv, MergeInv, MarkInv, PoolInv DEF Next, Work
  <1>2. CASE UNCHANGED vars
    <2>1. EInv'
      BY <1>2 DEF vars, EInv, Types, RunInv, Covers, Evidence, FlaggedIsPublished
    <2> QED BY <1>2, <2>1 DEF vars, Evidence
  <1> QED BY <1>1, <1>2

(***************************************************************************)
(* However observers, evictions and reloads interleave, what a resident    *)
(* vertex is flagged for is in the current version of the evidence, so an  *)
(* observer that skips it skips nothing (observeTemporal's early return).  *)
(***************************************************************************)
THEOREM FlagsNeverAhead == ConstantsOK => (Spec => []FlaggedIsPublished)
  <1> SUFFICES ASSUME ConstantsOK PROVE Spec => []FlaggedIsPublished
    OBVIOUS
  <1>1. Init => EInv
    BY EvidenceInit
  <1>2. EInv /\ [Next]_vars => EInv'
    BY EvidenceStep
  <1>3. EInv => FlaggedIsPublished
    BY DEF EInv
  <1> QED BY <1>1, <1>2, <1>3, PTL DEF Spec

(***************************************************************************)
(* No writer's inequalities are lost: every version of the evidence        *)
(* contains the one before it (merge's compare-and-swap and replay).       *)
(***************************************************************************)
THEOREM EvidenceOnlyGrows == ConstantsOK => (Spec => NothingOverwritten)
  <1> SUFFICES ASSUME ConstantsOK PROVE Spec => NothingOverwritten
    OBVIOUS
  <1>1. Init => EInv
    BY EvidenceInit
  <1>2. EInv /\ [Next]_vars => EInv'
    BY EvidenceStep
  <1>3. EInv /\ [Next]_vars => [Evidence \subseteq Evidence']_vars
    BY EvidenceStep
  <1> QED BY <1>1, <1>2, <1>3, PTL DEF Spec, NothingOverwritten

=============================================================================
