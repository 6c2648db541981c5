---------------------------- MODULE CausalIndex ----------------------------
(***************************************************************************)
(* The reachability index of a read (effects/causal_index.go): a search    *)
(* down the deps gives every effect a place on a chain and the furthest    *)
(* place it reaches on each.  A missing effect is one without deps, and a  *)
(* history with a cycle is left out.                                       *)
(***************************************************************************)
EXTENDS EffectDag

VARIABLES
    stack,          \* frames of add: the effect, the deps to go to
    nodes,          \* nodes[n]: clock, chain and seq of the effects done
    heads           \* heads[c]: the last place on chain c

vars == <<dag, stack, nodes, heads>>

Done == DOMAIN nodes
OnStack == {stack[i].id : i \in DOMAIN stack}

(* Snapshots and subscriptions are effects like others here.               *)
Init ==
    /\ deps \in Dags /\ tips = <<>> /\ snaps = {} /\ subs = {}
    /\ stack = <<>> /\ nodes = <<>> /\ heads = <<>>

(* push, with the deps in the order the effect lists them.                 *)
Push(n, rest) ==
    \E order \in DepOrders(n) : stack' = Append(rest, [id |-> n, next |-> order])

(* add takes the next of its tips.                                         *)
Add(tip) ==
    /\ stack = <<>> /\ tip \notin Done /\ Push(tip, <<>>)
    /\ UNCHANGED <<dag, nodes, heads>>

(* The next dep of the effect on top: seen before, or pushed.              *)
Visit ==
    /\ stack # <<>> /\ Last(stack).next # <<>>
    /\ LET top == Last(stack)
           rest == Append(Front(stack), [top EXCEPT !.next = Tail(@)])
       IN IF Head(top.next) \in Done THEN stack' = rest ELSE Push(Head(top.next), rest)
    /\ UNCHANGED <<dag, nodes, heads>>

At(clock, c) == IF c \in DOMAIN clock THEN clock[c] ELSE 0

(* The first chain whose last effect is an ancestor, or a new one.         *)
ChainFor(clock) ==
    LET ends == {c \in DOMAIN heads : clock[c] = heads[c]} IN
    IF ends = {} THEN Len(heads) + 1 ELSE Min(ends)

(* Its deps done, the effect merges their clocks and goes on a chain.      *)
Finish ==
    /\ stack # <<>> /\ Last(stack).next = <<>>
    /\ LET n == Last(stack).id
           merged == [c \in 1..(Len(heads) + 1) |-> Max({0} \union {At(nodes[d].clock, c) : d \in deps[n]})]
           chain == ChainFor(merged)
           seq == At(heads, chain) + 1
       IN /\ heads' = (IF chain > Len(heads) THEN Append(heads, 1) ELSE [heads EXCEPT ![chain] = seq])
          /\ nodes' = [m \in Done \union {n} |->
                IF m # n THEN nodes[m]
                ELSE [clock |-> SubSeq([merged EXCEPT ![chain] = seq], 1, Len(heads')),
                      chain |-> chain, seq |-> seq]]
    /\ stack' = Front(stack) /\ UNCHANGED dag

Next == (\E tip \in Nodes : Add(tip)) \/ Visit \/ Finish

Spec == Init /\ [][Next]_vars

----------------------------------------------------------------------------
(* reaches, for an effect that was added.                                  *)
Reaches(from, target) ==
    \/ from = target
    \/ target \in Done /\ At(nodes[from].clock, nodes[target].chain) >= nodes[target].seq

(* Mutant: the candidates of a chain are left in fork-choice order. *)
CandidateChainUnsorted(candidates, c) ==
    SetToSortSeq({n \in candidates : nodes[n].chain = c}, LAMBDA m, n : Hash[m] < Hash[n])

(* candidateChains: the candidates on a chain, by place.                   *)
CandidateChain(candidates, c) ==
    SetToSortSeq({n \in candidates : nodes[n].chain = c}, LAMBDA m, n : nodes[m].seq < nodes[n].seq)

(* sort.Search: halving, the least index where Holds, should it be upward  *)
(* closed.                                                                 *)
Search(list, Holds(_)) ==
    LET find[lo, hi \in 1..(Len(list) + 1)] ==
            IF lo >= hi THEN lo
            ELSE LET mid == (lo + hi) \div 2 IN
                 IF Holds(list[mid]) THEN find[lo, mid] ELSE find[mid + 1, hi]
    IN find[1, Len(list) + 1]

(* concurrentRange.                                                        *)
ConcurrentRange(tip, list) ==
    LET first == Search(list, LAMBDA n : ~Reaches(tip, n))
        last == Search(list, LAMBDA n : Reaches(n, tip))
    IN {list[i] : i \in first..(last - 1)}

----------------------------------------------------------------------------
(* Types; the effects of a chain have the places up to its head.           *)
TypeOK ==
    /\ Done \subseteq Nodes /\ OnStack \intersect Done = {}
    /\ \A c \in DOMAIN heads : {nodes[n].seq : n \in {m \in Done : nodes[m].chain = c}} = 1..heads[c]

(* The index stands for "one full ancestor set per transaction": one       *)
(* effect reaches another there when it does in the dag.                   *)
ReachesExactly ==
    \A from \in Done, target \in Nodes : Reaches(from, target) <=> target \in Upto(from)

(* "A candidate's ancestors occupy a prefix of each chain and its          *)
(* descendants a suffix, so only the interval between them needs conflict  *)
(* checks" (candidateChains): the interval holds the concurrent ones.      *)
RangeIsConcurrent ==
    stack = <<>> =>
        \A candidates \in SUBSET Done : \A tip \in candidates, c \in DOMAIN heads :
            ConcurrentRange(tip, CandidateChain(candidates, c)) =
                {n \in candidates : /\ nodes[n].chain = c
                                    /\ n \notin Upto(tip) /\ tip \notin Upto(n)}
=============================================================================
