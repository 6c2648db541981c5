------------------------------ MODULE MCReads ------------------------------
(***************************************************************************)
(* What a read does with the effects of a key, and the evidence of time    *)
(* that orders them: the walk over the DAG, the causal index, the walk     *)
(* over the cloud's blobs, the reduction, simple temporal networks, the    *)
(* clocks built on them and their observation, and the patterns that keys  *)
(* are looked up by.  They share no state here; part says which instance   *)
(* moves, and the variables of the others rest.                            *)
(***************************************************************************)
EXTENDS Integers, Sequences, TLC

CONSTANTS None, Root, e1, e2, e3, d1, d2, t1, t2

VARIABLES
    part,
    deps, snaps, subs, tips, nodes, frontier, queue, pending, lca, order, pc, stack, heads,
    missing, visited, fetched, chain,
    result,
    net, given, calls,
    now, steps, tick, samples, clocks, refused,
    pool, current, run, observes, evicts,
    text, pattern, si, pi, starIdx, matchIdx, verdict, turns

dagVars == <<deps, snaps, subs, tips, nodes, frontier, queue, pending, lca, order, pc, stack, heads,
    missing, visited, fetched>>
netVars == <<net, given, calls>>
clockVars == <<now, steps, tick, samples, clocks, refused>>
evidenceVars == <<pool, current, run, observes, evicts>>
globVars == <<text, pattern, si, pi, starIdx, matchIdx, verdict, turns>>
vars == <<part, dagVars, chain, result, netVars, clockVars, evidenceVars, globVars>>

Mixed(size) == [n \in 1..size |-> (2 * n) % (size + 1)]

(* All DAGs of four effects, of which some are snapshots; of five without. *)
Dag == INSTANCE DagWalk WITH Size <- 4, MaxDeps <- 2, MaxSnapshots <- 2, Hash <- Mixed(4)
Cdn == INSTANCE CloudDiscovery WITH Size <- 4, MaxDeps <- 2, MaxSnapshots <- 1, Hash <- Mixed(4), MaxMissing <- 1
Chains == INSTANCE CausalIndex WITH Size <- 5, MaxDeps <- 2, MaxSnapshots <- 0, Hash <- [n \in 1..5 |-> 5 - n]

(* Writes of a scalar, a hash, a list and a nested partition, with         *)
(* deletes, tags and TTLs.                                                 *)
Shape == INSTANCE Reduce WITH Effects <- {}, MaxChain <- 0, MayBind <- FALSE
Scalar(op, merge, val) == Shape!DataOf(Root, op, "scalar", merge, None, val, "none", None)
Keyed(v, op, merge, id, val) == Shape!DataOf(v, op, "keyed", merge, id, val, "none", None)
Ordered(op, id, val, place, ref) == Shape!DataOf(Root, op, "ordered", "lww", id, val, place, ref)

Scalars == {Scalar("insert", "lww", 2), Scalar("remove", "lww", 0), Scalar("insert", "int", 1),
            Scalar("insert", "max", 3), Scalar("insert", "fww", 4), Scalar("insert", "float", 1)}
Hashes == {Keyed(Root, "insert", "lww", "f", 1), Keyed(Root, "insert", "int", "f", 1),
           Keyed(Root, "insert", "max", "g", 2), Keyed(Root, "remove", "lww", "f", 0)}
Lists == {Ordered("insert", "x", 1, "head", None), Ordered("insert", "y", 1, "before", "x"),
          Ordered("insert", "z", 1, "after", "x"), Ordered("remove", "x", 0, "none", None),
          Ordered("insert", "w", 1, "tail", None)}
Nested == {Keyed("p", "insert", "lww", "f", 1), Keyed("p", "remove", "lww", "f", 0),
           Shape!DataOf("p", "remove", "scalar", "lww", None, 0, "none", None),
           Keyed("q", "insert", "int", "f", 1)}
Metas == {Shape!MetaOf(Root, None, None, 9), Shape!MetaOf(Root, "f", None, 9), Shape!MetaOf(Root, None, "json", None)}
Others == {Shape!Subscription, Shape!LeaderOf(1)}

Fold == INSTANCE Reduce WITH MaxChain <- 3, MayBind <- FALSE,
    Effects <- Scalars \union Hashes \union Lists \union Nested \union Metas \union Others
Binds == INSTANCE Reduce WITH MaxChain <- 4, MayBind <- TRUE,
    Effects <- {e \in Scalars \union Hashes \union Nested \union Metas :
                    e.kind = "data" => e.op = "insert" \/ e.coll = "scalar"}

(* A path of three points that becomes a network of four; a ring of five.  *)
Path == INSTANCE Stn WITH Infinity <- 71, Budget <- 9, Weights <- {-1, 1, 5}, MaxPoints <- 4, MaxCalls <- 5,
    Starts <- {[n |-> 3, edges |-> {<<1, 2>>, <<2, 3>>}]}
Ring == INSTANCE Stn WITH Infinity <- 95, Budget <- 12, Weights <- {-1, 2}, MaxPoints <- 5, MaxCalls <- 2,
    Starts <- {[n |-> 5, edges |-> {<<1, 2>>, <<2, 3>>, <<3, 4>>, <<4, 5>>, <<1, 5>>}]}

(* Two clocks of unequal rates.                                            *)
Clocks == INSTANCE ElapsedClocks WITH Infinity <- 8000, Budget <- 1000, Domains <- {d1, d2}, Million <- 4, PPM <- 1,
    Unit <- 15, Steps <- {12, 60}, MaxSteps <- 2, MaxSamples <- 3

(* Two threads observe three effects, each of which names the earlier.     *)
Evid == INSTANCE TemporalEvidence WITH Effects <- {e1, e2, e3}, Remote <- {e2, e3}, Threads <- {t1, t2},
    Deps <- e1 :> {} @@ e2 :> {e1} @@ e3 :> {e1, e2}, MaxObserves <- 2, MaxEvicts <- 1

(* All patterns of up to four characters, the special ones included.       *)
Match == INSTANCE Glob WITH s <- text, result <- verdict, steps <- turns,
    Star <- 11, Any <- 12, Open <- 13, Close <- 14, Caret <- 15, Dash <- 16, Escape <- 17, Letters <- {1, 2},
    MaxText <- 2, MaxPattern <- 4

Symmetry == Permutations({d1, d2}) \union Permutations({t1, t2})

----------------------------------------------------------------------------
NoDag == deps = None /\ snaps = None /\ subs = None /\ tips = None
NoWalk == frontier = None /\ pending = None /\ order = None
NoIndex == stack = None /\ heads = None
NoCloud == missing = None /\ visited = None /\ fetched = None
NoPlace == queue = None /\ lca = None /\ pc = None
NoText ==
    /\ text = None /\ pattern = None /\ si = 0 /\ pi = 0
    /\ starIdx = 0 /\ matchIdx = 0 /\ verdict = None /\ turns = 0
NoNet == net = None /\ given = None /\ calls = None

Init ==
    /\ part \in {"walk", "cdn", "index", "fold", "binds", "path", "ring", "clocks", "evidence", "glob"}
    /\ CASE part = "walk" -> Dag!Init /\ NoIndex /\ NoCloud /\ chain = None
         [] part = "cdn" -> Cdn!Init /\ nodes = None /\ NoWalk /\ NoIndex
         [] part = "index" -> Chains!Init /\ NoWalk /\ NoPlace /\ NoCloud /\ chain = None
         [] OTHER -> NoDag /\ nodes = None /\ NoWalk /\ NoPlace /\ NoIndex /\ NoCloud
    /\ CASE part \in {"fold", "binds"} -> Fold!Init
         [] part \in {"walk", "cdn", "index"} -> result = None
         [] OTHER -> chain = None /\ result = None
    /\ CASE part = "path" -> Path!Init [] part = "ring" -> Ring!Init [] OTHER -> NoNet
    /\ Clocks!Init /\ Evid!Init
    /\ IF part = "glob" THEN Match!Init ELSE NoText

Next ==
    \/ /\ \/ part = "walk" /\ Dag!Next /\ UNCHANGED <<stack, heads, missing, visited, fetched, chain>>
          \/ part = "cdn" /\ Cdn!Next /\ UNCHANGED <<nodes, frontier, pending, order, stack, heads>>
          \/ part = "index" /\ Chains!Next
             /\ UNCHANGED <<frontier, queue, pending, lca, order, pc, missing, visited, fetched, chain>>
       /\ UNCHANGED <<part, result, netVars, clockVars, evidenceVars, globVars>>
    \/ /\ (part = "fold" /\ Fold!Next) \/ (part = "binds" /\ Binds!Next)
       /\ UNCHANGED <<part, dagVars, netVars, clockVars, evidenceVars, globVars>>
    \/ /\ (part = "path" /\ Path!Next) \/ (part = "ring" /\ Ring!Next)
       /\ UNCHANGED <<part, dagVars, chain, result, clockVars, evidenceVars, globVars>>
    \/ part = "clocks" /\ Clocks!Next /\ UNCHANGED <<part, dagVars, chain, result, netVars, evidenceVars, globVars>>
    \/ part = "evidence" /\ Evid!Next /\ UNCHANGED <<part, dagVars, chain, result, netVars, clockVars, globVars>>
    \/ part = "glob" /\ Match!Next /\ UNCHANGED <<part, dagVars, chain, result, netVars, clockVars, evidenceVars>>

Spec == Init /\ [][Next]_vars

----------------------------------------------------------------------------
(* A walk emits what its tips reach beyond the snapshot, once each and     *)
(* after what it depends on; the walk over the cloud's blobs keeps the     *)
(* maximal tips, leaves out nothing it should have read and gives a causal *)
(* chain (dag.go, cloud_discovery.go).                                     *)
WalksExact ==
    /\ part = "walk" => Dag!TypeOK /\ Dag!ReducesExactly /\ Dag!ReducesInOrder
    /\ part = "cdn" => Cdn!RealTipsAreMaximal /\ Cdn!NothingCut /\ Cdn!ChainIsCausal

(* Reducing piecewise is reducing the whole chain, and nested partitions   *)
(* do not affect one another (reduce.go).                                  *)
FoldsAsChain ==
    /\ part = "fold" => Fold!TypeOK /\ Fold!FoldsAsChain /\ Fold!PartitionsIndependent
    /\ part = "binds" => Binds!FoldsAsChain

(* Evidence of time is true and complete: a network keeps its elimination  *)
(* perfect, refuses exactly what contradicts it, its bounds are shortest   *)
(* paths and do not overflow; the clocks refuse nothing that happened and  *)
(* bound elapsed time; a vertex is flagged only for published evidence.    *)
ClockEvidenceTrue ==
    /\ part = "path" =>
        Path!TypeOK /\ Path!OrderIsPerfect /\ Path!RefusesContradictions /\ Path!UpperIsTight /\ Path!BoundsFit
    /\ part = "ring" => Ring!RefusesContradictions /\ Ring!UpperIsTight
    /\ part = "clocks" => Clocks!TypeOK /\ Clocks!AcceptsTruth /\ Clocks!BoundsHold
    /\ part = "evidence" => Evid!TypeOK /\ Evid!FlaggedIsPublished

(* The causal index knows exactly the paths of the DAG and the range       *)
(* concurrent to an effect; the glob matcher accepts exactly the texts of  *)
(* a pattern, within text times pattern steps.                             *)
AlgorithmsExact ==
    /\ part = "index" => Chains!TypeOK /\ Chains!ReachesExactly /\ Chains!RangeIsConcurrent
    /\ part = "glob" => Match!MatchExact /\ Match!StepsBounded
=============================================================================
