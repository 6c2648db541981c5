------------------------------ MODULE DagWalk ------------------------------
(***************************************************************************)
(* dag.walk: the breadth-first search from a key's tips to the snapshot    *)
(* where every path has converged, the trimming of what that snapshot has  *)
(* folded in, and the causal order in which the rest is reduced.           *)
(***************************************************************************)
EXTENDS EffectDag

CONSTANTS None

VARIABLES
    nodes,          \* d.nodes
    frontier,       \* dependency paths that have not converged
    queue, pending, \* ordinary effects and state snapshots to visit
    lca,            \* d.lcaTip
    order,          \* d.topoOrder
    pc

vars == <<dag, nodes, frontier, queue, pending, lca, order, pc>>

(* The tips enter nodes and the two queues; a standalone subscription has  *)
(* no data ancestry and starts no path.                                    *)
Start(ts) ==
    [nodes |-> Range(ts), frontier |-> {t \in Range(ts) : ~Standalone(t)},
     queue |-> SelectSeq(ts, LAMBDA n : n \notin snaps),
     pending |-> SelectSeq(ts, LAMBDA n : n \in snaps)]

Init ==
    /\ DagInit
    /\ LET s == Start(tips) IN
       /\ nodes = s.nodes /\ frontier = s.frontier
       /\ queue = s.queue /\ pending = s.pending
    /\ lca = None /\ order = <<>> /\ pc = "bfs"

----------------------------------------------------------------------------
(* Mutant: the walk ends at a snapshot that is visited last. *)
IsLCALast(cur) == cur \in snaps /\ Len(queue) + Len(pending) = 1

(* A snapshot ends the walk when it is the sole frontier entry.            *)
IsLCA(cur) == cur \in snaps /\ Cardinality(frontier) = 1

(* The paths after cur is expanded; a root keeps its place.                *)
PathsAfter(cur) ==
    IF deps[cur] = {} THEN frontier
    ELSE (frontier \ {cur}) \union {d \in deps[cur] : d \notin nodes \/ Standalone(d)}

(* One turn of the loop; ordinary effects go before snapshots.             *)
Visit ==
    /\ pc = "bfs" /\ queue \o pending # <<>>
    /\ LET cur == Head(queue \o pending) IN
       IF IsLCA(cur)
       THEN lca' = cur /\ pc' = "trim" /\ UNCHANGED <<nodes, frontier, queue, pending>>
       ELSE /\ nodes' = nodes \union deps[cur] /\ frontier' = PathsAfter(cur)
            /\ \E ds \in DepOrders(cur) :
                LET new == SelectSeq(ds, LAMBDA d : d \notin nodes) IN
                /\ queue' = (IF queue = <<>> THEN <<>> ELSE Tail(queue))
                                \o SelectSeq(new, LAMBDA d : d \notin snaps)
                /\ pending' = (IF queue = <<>> THEN Tail(pending) ELSE pending)
                                \o SelectSeq(new, LAMBDA d : d \in snaps)
            /\ UNCHANGED <<lca, pc>>
    /\ UNCHANGED <<dag, order>>

(* A root snapshot may be the one path left when the queues are empty.     *)
EndBfs ==
    /\ pc = "bfs" /\ queue \o pending = <<>> /\ pc' = "trim"
    /\ lca' = IF \E n \in snaps : frontier = {n} THEN CHOOSE n \in snaps : frontier = {n} ELSE None
    /\ UNCHANGED <<dag, nodes, frontier, queue, pending, order>>

(* trimAncestorsOfLCA.                                                     *)
Trimmed == IF lca = None THEN nodes ELSE nodes \ Below(deps[lca], nodes)

ByHash(set) == SetToSortSeq(set, LAMBDA a, b : Hash[a] < Hash[b])

(* topoCollect of the tips in turn: depth first and deps before their      *)
(* dependents, by fork-choice hash; not past the LCA.                      *)
RECURSIVE Collect(_, _, _)
Collect(ts, within, done) ==
    IF ts = <<>> THEN done
    ELSE LET t == Head(ts) IN
         IF t \in Range(done) \/ t \notin within THEN Collect(Tail(ts), within, done)
         ELSE Collect(Tail(ts), within,
                  IF t = lca THEN Append(done, t)
                  ELSE Append(Collect(ByHash(deps[t] \intersect within), within, done), t))

TopoOrder ==
    /\ pc = "trim" /\ pc' = "done" /\ nodes' = Trimmed
    /\ order' = Collect(ByHash(Range(tips) \intersect Trimmed), Trimmed, <<>>)
    /\ UNCHANGED <<dag, frontier, queue, pending, lca>>

Next == Visit \/ EndBfs \/ TopoOrder

Spec == Init /\ [][Next]_vars

----------------------------------------------------------------------------

(* shouldEmit: a snapshot that is not the LCA is passed over.              *)
Emitted == SelectSeq(order, LAMBDA n : n \notin snaps \/ n = lca)

(* Types; the search has not lost sight of a path: what it has not         *)
(* collected is below the frontier.                                        *)
TypeOK ==
    /\ nodes \subseteq Nodes /\ frontier \subseteq nodes /\ lca \in snaps \union {None}
    /\ pc = "bfs" => Reached = nodes \union UNION {Upto(n) : n \in frontier}

(* "leaving them in d.nodes makes ReduceChain process the same data        *)
(* effects twice" (prepare): a read reduces every effect that its tips     *)
(* reach and the snapshot has not folded in, and each of them once.        *)
(* Subscriptions carry no data.                                            *)
ReducesExactly ==
    pc = "done" =>
        LET folded == IF lca = None THEN {} ELSE Ancestors[lca] IN
        /\ Range(Emitted) \ (subs \union {lca}) = (Reached \ folded) \ (subs \union snaps)
        /\ Len(Emitted) = Cardinality(Range(Emitted))

(* "in causal order (LCA snapshot -> tips)" (walk).                        *)
ReducesInOrder ==
    pc = "done" =>
        /\ Causal(order)
        /\ lca # None => \A n \in Range(order) \ {lca} : Standalone(n) \/ lca \in Ancestors[n]
=============================================================================
