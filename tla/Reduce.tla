------------------------------- MODULE Reduce -------------------------------
(***************************************************************************)
(* The reduction of a key's effects to its value (effects/reduce.go), as   *)
(* reconstruct drives it: effects in causal order, one at a time, and the  *)
(* effects of a transaction's bind together, each on top of the result so  *)
(* far.  Values are integers; compression and time stamps are left out.    *)
(***************************************************************************)
EXTENDS Integers, Sequences, SequencesExt, FiniteSets, FiniteSetsExt

CONSTANTS
    Effects,        \* the effects that may be in the chain (see DataOf and MetaOf)
    None, Root,     \* no value; the root partition
    MaxChain, MayBind

VARIABLES
    chain,          \* the effects reduced so far
    result          \* reconstruct's result

vars == <<chain, result>>

----------------------------------------------------------------------------
(* Effects, of which the reduction tells apart these fields.               *)
DataOf(virtual, op, coll, merge, id, val, place, ref) ==
    [kind |-> "data", virtual |-> virtual, op |-> op, coll |-> coll, merge |-> merge,
     id |-> id, val |-> val, place |-> place, ref |-> ref]
MetaOf(virtual, id, tag, exp) ==
    [kind |-> "meta", virtual |-> virtual, id |-> id, tag |-> tag, exp |-> exp]
LeaderOf(node) == [kind |-> "leader", virtual |-> Root, node |-> node]
Subscription == [kind |-> "sub", virtual |-> Root]

(* A ReducedEffect with nothing in it.                                     *)
Blank ==
    [op |-> "unknown", merge |-> "lww", coll |-> "scalar", scalar |-> None, adds |-> <<>>,
     removes |-> {}, ordered |-> <<>>, tag |-> None, exp |-> None, leader |-> None,
     parts |-> <<>>]

With(f, x, v) == [y \in DOMAIN f \union {x} |-> IF y = x THEN v ELSE f[y]]
Without(f, x) == [y \in DOMAIN f \ {x} |-> f[y]]

(* Key-level DEL.                                                          *)
IsDel(e) == e.kind = "data" /\ e.op = "remove" /\ e.coll = "scalar"

(* A DEL of the whole key.                                                 *)
IsRootKeyDel(e) == IsDel(e) /\ e.virtual = Root /\ e.id = None

----------------------------------------------------------------------------
Additive == {"int", "float"}
MaxOf(a, b) == IF b > a THEN b ELSE a

(* reduceScalar: an increment on a written value makes a written value.    *)
ReduceScalar(r, d) ==
    IF r.scalar = None THEN [r EXCEPT !.scalar = d.val, !.merge = d.merge]
    ELSE CASE d.merge \in Additive ->
                IF r.merge \in {d.merge, "lww"} THEN [r EXCEPT !.scalar = @ + d.val] ELSE r
           [] d.merge = "lww" -> [r EXCEPT !.scalar = d.val, !.merge = "lww", !.exp = None]
           [] d.merge = "fww" -> r
           [] d.merge = "max" -> [r EXCEPT !.scalar = MaxOf(@, d.val)]

Element(d) == [val |-> d.val, exp |-> None]

(* reduceKeyed: a remove of what this chain added leaves no trace.         *)
ReduceKeyed(r, d) ==
    IF d.op = "remove"
    THEN IF d.id \in DOMAIN r.adds THEN [r EXCEPT !.adds = Without(@, d.id)]
         ELSE [r EXCEPT !.removes = @ \union {d.id}]
    ELSE IF d.id \notin DOMAIN r.adds
    THEN [r EXCEPT !.adds = With(@, d.id, Element(d)), !.removes = @ \ {d.id}]
    ELSE CASE d.merge \in Additive -> [r EXCEPT !.adds[d.id].val = @ + d.val]
           [] d.merge = "max" -> [r EXCEPT !.adds[d.id].val = MaxOf(@, d.val)]
           [] OTHER -> [r EXCEPT !.adds[d.id] = Element(d)]

(* findOrderedByID, 0 when there is none.                                  *)
Find(list, id) == SelectInSeq(list, LAMBDA x : x.id = id)

(* reduceOrdered: without its reference an element goes to an end.         *)
ReduceOrdered(r, d) ==
    LET x == [id |-> d.id, val |-> d.val]
        own == Find(r.ordered, d.id)
        ref == Find(r.ordered, d.ref)
    IN
    IF d.op = "remove"
    THEN IF own # 0 THEN [r EXCEPT !.ordered = RemoveAt(@, own)]
         ELSE [r EXCEPT !.removes = @ \union {d.id}]
    ELSE CASE d.place = "head" \/ (d.place = "before" /\ ref = 0) ->
                [r EXCEPT !.ordered = <<x>> \o @]
           [] d.place = "tail" \/ (d.place = "after" /\ ref = 0) -> [r EXCEPT !.ordered = Append(@, x)]
           [] d.place = "before" /\ ref # 0 -> [r EXCEPT !.ordered = InsertAt(@, ref, x)]
           [] d.place = "after" /\ ref # 0 -> [r EXCEPT !.ordered = InsertAt(@, ref + 1, x)]
           [] d.place = "self" -> IF own = 0 THEN r ELSE [r EXCEPT !.ordered[own] = x]

(* reduceFirst.                                                            *)
ReduceFirst(d) ==
    LET r == [Blank EXCEPT !.op = d.op, !.merge = d.merge, !.coll = d.coll] IN
    CASE d.coll = "scalar" -> [r EXCEPT !.scalar = d.val]
      [] d.coll = "keyed" /\ d.op = "insert" -> [r EXCEPT !.adds = With(<<>>, d.id, Element(d))]
      [] d.coll = "keyed" /\ d.op = "remove" -> [r EXCEPT !.removes = {d.id}]
      [] d.coll = "ordered" ->
            IF d.op = "remove" THEN r
            ELSE [r EXCEPT !.ordered = <<[id |-> d.id, val |-> d.val]>>]

(* reduceAccumulate: a scalar write replaces a collection.                 *)
ReduceAccumulate(r, d) ==
    LET over == IF d.coll = "scalar" /\ r.coll # "scalar"
                THEN [r EXCEPT !.adds = <<>>, !.removes = {}, !.ordered = <<>>, !.coll = d.coll]
                ELSE [r EXCEPT !.coll = d.coll]
    IN CASE d.coll = "scalar" -> ReduceScalar(over, d)
         [] d.coll = "keyed" -> ReduceKeyed(over, d)
         [] d.coll = "ordered" -> ReduceOrdered(over, d)

(* A MetaEffect: type tag, TTL of an element or of the key.                *)
ReduceMeta(r, m) ==
    LET tagged == IF m.tag = None THEN r ELSE [r EXCEPT !.tag = m.tag] IN
    IF m.id # None
    THEN IF m.id \in DOMAIN r.adds THEN [tagged EXCEPT !.adds[m.id].exp = m.exp] ELSE tagged
    ELSE IF m.exp # None \/ m.tag = None THEN [tagged EXCEPT !.exp = m.exp] ELSE tagged

(* One turn of reduceFlatOwned; None before the first effect that counts.  *)
Step(r, e) ==
    LET base == IF r = None THEN Blank ELSE r IN
    IF IsDel(e) THEN None
    ELSE CASE e.kind = "meta" -> ReduceMeta(base, e)
           [] e.kind = "sub" -> r
           [] e.kind = "leader" -> [base EXCEPT !.leader = e.node]
           [] e.kind = "data" -> IF r = None THEN ReduceFirst(e) ELSE ReduceAccumulate(r, e)

(* reduceFlatOwned: a seed that is a DEL marker starts afresh, and a chain *)
(* that ends in nothing after a DEL is one.                                *)
ReduceFlat(seed, es) ==
    LET marker == seed # None /\ seed.op = "remove" /\ es # <<>>
        end == FoldLeft(Step, IF marker THEN None ELSE seed, es)
        deleted == marker \/ \E i \in DOMAIN es : IsDel(es[i])
    IN IF end = None /\ deleted THEN [Blank EXCEPT !.op = "remove"] ELSE end

(* Mutant: a partition that the chain does not touch is dropped. *)
ReducePartitionedDrops(seed, es) ==
    LET dels == {i \in DOMAIN es : IsRootKeyDel(es[i])}
        liveSeed == IF dels = {} THEN seed ELSE None
        live == IF dels = {} THEN es ELSE SubSeq(es, Max(dels), Len(es))
        Chain(v) == SelectSeq(live, LAMBDA e : e.virtual = v)
        touched == {live[i].virtual : i \in DOMAIN live} \ {Root}
        carried == IF liveSeed = None THEN <<>> ELSE liveSeed.parts
        Base(v) == IF v \in DOMAIN carried THEN carried[v] ELSE None
        parts == [v \in {w \in touched : ReduceFlat(Base(w), Chain(w)) # None} |->
                    ReduceFlat(Base(v), Chain(v))]
        flat == IF liveSeed = None THEN None ELSE [liveSeed EXCEPT !.parts = <<>>]
        root == ReduceFlat(flat, Chain(Root))
    IN IF DOMAIN parts = {} THEN root
       ELSE [(IF root = None THEN Blank ELSE root) EXCEPT !.parts = parts]

(* reducePartitioned: every partition on its own, from the last DEL of the *)
(* key on; those without an effect are carried over.                       *)
ReducePartitioned(seed, es) ==
    LET dels == {i \in DOMAIN es : IsRootKeyDel(es[i])}
        liveSeed == IF dels = {} THEN seed ELSE None
        live == IF dels = {} THEN es ELSE SubSeq(es, Max(dels), Len(es))
        Chain(v) == SelectSeq(live, LAMBDA e : e.virtual = v)
        touched == {live[i].virtual : i \in DOMAIN live} \ {Root}
        carried == IF liveSeed = None THEN <<>> ELSE liveSeed.parts
        Base(v) == IF v \in DOMAIN carried THEN carried[v] ELSE None
        parts == [v \in {w \in touched : ReduceFlat(Base(w), Chain(w)) # None}
                        \union (DOMAIN carried \ touched) |->
                    IF v \in touched THEN ReduceFlat(Base(v), Chain(v)) ELSE carried[v]]
        flat == IF liveSeed = None THEN None ELSE [liveSeed EXCEPT !.parts = <<>>]
        root == ReduceFlat(flat, Chain(Root))
    IN IF DOMAIN parts = {} THEN root
       ELSE [(IF root = None THEN Blank ELSE root) EXCEPT !.parts = parts]

(* ReduceChain and reduceChainOwned.                                       *)
ReduceChain(seed, es) ==
    IF (seed = None \/ DOMAIN seed.parts = {}) /\ \A i \in DOMAIN es : es[i].virtual = Root
    THEN ReduceFlat(seed, es)
    ELSE ReducePartitioned(seed, es)

----------------------------------------------------------------------------
Init == chain = <<>> /\ result = None

(* reconstruct meets an effect that no transaction holds,                  *)
Single(e) ==
    /\ Len(chain) < MaxChain /\ chain' = Append(chain, e)
    /\ result' = ReduceChain(result, <<e>>)

(* or a bind, whose effects on the key are reduced together.               *)
Bind(e, f) ==
    /\ MayBind /\ Len(chain) + 1 < MaxChain /\ chain' = chain \o <<e, f>>
    /\ result' = ReduceChain(result, <<e, f>>)

Next ==
    \/ \E e \in Effects : Single(e)
    \/ \E e, f \in Effects : Bind(e, f)

Spec == Init /\ [][Next]_vars

----------------------------------------------------------------------------
(* What filterSnapshot leaves of a result, but for expiry.                 *)
Exists(r) ==
    /\ r # None
    /\ \/ r.tag = "json"
       \/ /\ r.coll = "keyed" => DOMAIN r.adds # {} \/ r.scalar # None
          /\ r.coll = "ordered" => r.ordered # <<>> \/ r.scalar # None
          /\ r.scalar # None \/ DOMAIN r.adds # {} \/ r.ordered # <<>> \/ r.op = "insert"

Seen(r) ==
    IF ~Exists(r) THEN None
    ELSE [scalar |-> r.scalar, adds |-> r.adds, ordered |-> r.ordered, tag |-> r.tag, exp |-> r.exp]

Part(r, v) == IF r = None \/ v \notin DOMAIN r.parts THEN None ELSE r.parts[v]

Partitions == {e.virtual : e \in Effects} \ {Root}

(* Types; an element is not both added and removed.                        *)
TypeOK ==
    \/ result = None
    \/ /\ result.op \in {"unknown", "insert", "remove"} /\ DOMAIN result.parts \subseteq Partitions
       /\ DOMAIN result.adds \intersect result.removes = {}

(* "effects are the linear chain above" a seed (ReduceChain): however the  *)
(* chain was cut into reads, snapshots and binds, a reader sees what the   *)
(* reduction of the whole chain shows.                                     *)
FoldsAsChain ==
    LET whole == ReduceChain(None, chain) IN
    /\ Seen(result) = Seen(whole)
    /\ \A v \in Partitions : Seen(Part(result, v)) = Seen(Part(whole, v))

(* "each partition reduces independently via reduceFlat, with a root       *)
(* key-level DEL wiping all partitions" (ReduceChain).                     *)
PartitionsIndependent ==
    LET dels == {0} \union {i \in DOMAIN chain : IsDel(chain[i]) /\ chain[i].virtual = Root}
        live == SubSeq(chain, Max(dels) + 1, Len(chain))
    IN \A v \in Partitions :
        Seen(Part(result, v)) = Seen(ReduceFlat(None, SelectSeq(live, LAMBDA e : e.virtual = v)))
=============================================================================
