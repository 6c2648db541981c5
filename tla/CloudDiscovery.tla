-------------------------- MODULE CloudDiscovery --------------------------
(***************************************************************************)
(* DiscoverMembers: the membership roster read from the cloud.  Cloud's    *)
(* markers are reduced to the real tips, their dag is walked to a snapshot *)
(* and what is above it is reduced in causal order; blobs may be missing.  *)
(***************************************************************************)
EXTENDS EffectDag

CONSTANTS None, MaxMissing

VARIABLES
    missing,    \* effects whose blob the CDN does not have
    queue, visited, fetched,
    lca,
    chain,      \* what ReduceChain is given
    pc          \* "normalize", "walk", "reduce", "done", "error"

vars == <<dag, missing, queue, visited, fetched, lca, chain, pc>>

Init ==
    /\ DagInit
    /\ missing \in {m \in SUBSET Nodes : Cardinality(m) <= MaxMissing}
    /\ queue = <<>> /\ visited = {} /\ fetched = {} /\ lca = None /\ chain = <<>>
    /\ pc = "normalize"

----------------------------------------------------------------------------
(* The effects NormalizeCloudTipCandidates visits: below the candidates,   *)
(* through those it can read.                                              *)
Walked == Below(Range(tips), Nodes \ missing)

(* NormalizeCloudTipCandidates: a candidate named by an effect that can be *)
(* read is not a tip.                                                      *)
Superseded == Range(tips) \intersect UNION {deps[n] : n \in Walked}

RealTips == SelectSeq(tips, LAMBDA t : t \notin Superseded)

(* reduceDiscoveredTips begins: a real tip whose blob is missing is an     *)
(* error; a standalone subscription is not walked.                         *)
Normalize ==
    /\ pc = "normalize"
    /\ IF Range(RealTips) \intersect missing # {}
       THEN pc' = "error" /\ UNCHANGED <<queue, visited>>
       ELSE /\ pc' = "walk" /\ visited' = Range(RealTips)
            /\ queue' = SelectSeq(RealTips, LAMBDA t : ~Standalone(t))
    /\ UNCHANGED <<dag, missing, fetched, lca, chain>>

(* One turn of the walk; a state snapshot that leaves the queue empty ends *)
(* it, and an effect that cannot be fetched fails it.                      *)
Visit ==
    /\ pc = "walk" /\ queue # <<>>
    /\ LET tip == Head(queue) IN
       IF tip \in missing
       THEN pc' = "error" /\ UNCHANGED <<queue, visited, fetched, lca>>
       ELSE /\ fetched' = fetched \union {tip}
            /\ IF tip \in snaps /\ Len(queue) = 1
               THEN lca' = tip /\ pc' = "reduce" /\ UNCHANGED <<queue, visited>>
               ELSE /\ \E ds \in DepOrders(tip) :
                        queue' = Tail(queue) \o SelectSeq(ds, LAMBDA d : d \notin visited)
                    /\ visited' = visited \union deps[tip] /\ UNCHANGED <<lca, pc>>
    /\ UNCHANGED <<dag, missing, chain>>

WalkDone ==
    /\ pc = "walk" /\ queue = <<>> /\ pc' = "reduce"
    /\ UNCHANGED <<dag, missing, queue, visited, fetched, lca, chain>>

(* trimAncestry, and the LCA itself, which seeds the reduction.            *)
Trimmed == IF lca = None THEN fetched ELSE (fetched \ Below(deps[lca], fetched)) \ {lca}

(* topoOrder: repeatedly the ready effect with the lowest fork-choice      *)
(* hash.                                                                   *)
RECURSIVE Kahn(_, _)
Kahn(left, done) ==
    IF left = {} THEN done
    ELSE LET ready == {n \in left : deps[n] \intersect left = {}}
             next == CHOOSE n \in ready : \A m \in ready : Hash[n] <= Hash[m]
         IN Kahn(left \ {next}, Append(done, next))

ReduceChain ==
    /\ pc = "reduce" /\ pc' = "done" /\ chain' = Kahn(Trimmed, <<>>)
    /\ UNCHANGED <<dag, missing, queue, visited, fetched, lca>>

Next == Normalize \/ Visit \/ WalkDone \/ ReduceChain

Spec == Init /\ [][Next]_vars

----------------------------------------------------------------------------
(* "a marker is removed as non-maximal before a missing fetch is allowed   *)
(* to become a repair verdict" (DiscoverMembers): a marker is dropped only *)
(* for a tip that is kept and has it in its ancestry, and every marker     *)
(* that is not maximal is dropped when all blobs are there.                *)
RealTipsAreMaximal ==
    /\ \A t \in Superseded : \E k \in Range(RealTips) : t \in Ancestors[k]
    /\ missing = {} => \A t, k \in Range(RealTips) : t \notin Ancestors[k]

(* "reducing a truncated sub-DAG resurrects any member whose REMOVE was    *)
(* cut while its INSERT survived" (DiscoverMembers): the roster is reduced *)
(* from everything the snapshot has not folded in.                         *)
NothingCut ==
    pc = "done" =>
        LET folded == IF lca = None THEN {} ELSE Upto(lca) IN
        (Reached \ folded) \ subs \subseteq Range(chain)

(* "an orphan tip that is also an ancestor would otherwise reduce after    *)
(* its own descendants" (topoOrder).                                       *)
ChainIsCausal == pc = "done" => Causal(chain)
=============================================================================
