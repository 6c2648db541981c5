------------------------------- MODULE Beacon -------------------------------
(***************************************************************************)
(* Joining a cluster and following its membership.                         *)
(*                                                                         *)
(* Membership is an ordinary replicated key: a set of insertions and       *)
(* removals of node ids, of which every node knows a part.  A starting     *)
(* node dials the addresses discovery gave it, under synthetic ids,        *)
(* subscribes to the key, registers itself, exchanges the key with every   *)
(* peer it comes to know, and only then serves.  From there on its         *)
(* connection table is a projection of what it knows of the key.           *)
(*                                                                         *)
(* A node id is used by one run of the process; ids may share an address.  *)
(***************************************************************************)
EXTENDS Integers, FiniteSets

CONSTANTS
    Ids,
    Addresses, Addr,      \* Addr[n]: the address n advertises
    Reborn,               \* Reborn[n]: the ids that must be gone before n starts
    Crashes,              \* the nodes that may crash
    Leavers,              \* the nodes that may be stopped
    Removed,              \* the ids the cloud may ask to remove
    MaySeekInVain,        \* nodes whose discovery may fail or find nobody
    MayFail               \* nodes whose join may fail

VARIABLES
    phase,       \* phase[n]: how far Start has come
    ins, outs,   \* ins[n], outs[n]: the insertions and removals n knows
    topo,        \* topo[n]: the peers of the PeerManager, ids or, if synthetic, addresses
    attempted,   \* attempted[n]: joinMembership's peers tried
    expected,    \* expected[n]: expectedPeers > 0
    registered,  \* registered[n]: selfRegistered
    subscribed,  \* subscribed[n]: n has touched the key and takes in what others send
    refresh,     \* refresh[n]: a signal in topoRefresh
    loop, seen,  \* loop[n]: topologyLoop's place; seen[n]: the roster it read
    removeQ, removeSignal

key == <<ins, outs>>
own == <<registered, subscribed>>
projection == <<loop, seen>>
queue == <<removeQ, removeSignal>>
vars == <<phase, key, topo, attempted, expected, own, refresh, projection, queue>>

Init ==
    /\ phase = [n \in Ids |-> "off"]
    /\ ins = [n \in Ids |-> {}] /\ outs = [n \in Ids |-> {}]
    /\ topo = [n \in Ids |-> {}] /\ attempted = [n \in Ids |-> {}]
    /\ expected = [n \in Ids |-> FALSE] /\ registered = [n \in Ids |-> FALSE]
    /\ subscribed = [n \in Ids |-> FALSE] /\ refresh = [n \in Ids |-> FALSE]
    /\ loop = [n \in Ids |-> "read"] /\ seen = [n \in Ids |-> {}]
    /\ removeQ = [n \in Ids |-> {}] /\ removeSignal = [n \in Ids |-> FALSE]

----------------------------------------------------------------------------
Up == {n \in Ids : phase[n] \notin {"off", "gone"}}
AddrOf(x) == IF x \in Ids THEN Addr[x] ELSE x
Reached(n, x) == {m \in Up \ {n} : Addr[m] = AddrOf(x)}
PeersReached(n) == UNION {Reached(n, x) : x \in topo[n]}
Linked(n, m) == m \in PeersReached(n) \/ n \in PeersReached(m)

(* parseMembership of the key as a node knows it.                          *)
Roster(n) == ins[n] \ outs[n]
(* syncMembership: the PeerManager is told when the roster has changed;    *)
(* the members last told are the ids among its peers.                      *)
Synced(n, roster) == IF roster = topo[n] \intersect Ids THEN topo[n] ELSE roster

(* The key changed here: SetOnKeyChanged signals, coalescing.              *)
Notified(ns) == [n \in Ids |-> refresh[n] \/ n \in ns]

(* n and m know of the key what either knew.                               *)
Shared(f, ns) == [n \in Ids |-> IF n \in ns THEN UNION {f[m] : m \in ns} ELSE f[n]]
Changed(ns) == {n \in ns : \E m \in ns : ~(ins[m] \subseteq ins[n] /\ outs[m] \subseteq outs[n])}

(* NewRuntime: the engine and the listener are up.                         *)
Launch(n) ==
    /\ phase[n] = "off" /\ \A m \in Reborn[n] : phase[m] = "gone"
    /\ phase' = [phase EXCEPT ![n] = "bootstrap"]
    /\ UNCHANGED <<key, topo, attempted, expected, own, refresh, projection, queue>>

(* What discovery resolves to, without our own address.                    *)
Candidates(n) == Addresses \ {Addr[n]}

(* bootstrap: the addresses other than our own become a temporary          *)
(* topology; without any, or when resolving fails, we start solo.          *)
Bootstrap(n) ==
    /\ phase[n] = "bootstrap"
    /\ \/ /\ topo' = [topo EXCEPT ![n] = Candidates(n)]
          /\ expected' = [expected EXCEPT ![n] = TRUE]
          /\ phase' = [phase EXCEPT ![n] = "dial"]
       \/ /\ n \in MaySeekInVain
          /\ phase' = [phase EXCEPT ![n] = "register"]
          /\ UNCHANGED <<topo, expected>>
    /\ UNCHANGED <<key, attempted, own, refresh, projection, queue>>

(* WaitForAnyPeer: a candidate answers, or none does within the timeout    *)
(* and the candidates are dropped.  The timeout outlasts the starts of the *)
(* others, but for the nodes of MaySeekInVain.                             *)
WaitForAnyPeer(n) ==
    /\ phase[n] = "dial"
    /\ \/ /\ PeersReached(n) # {}
          /\ phase' = [phase EXCEPT ![n] = "prime"]
          /\ UNCHANGED <<topo, expected>>
       \/ /\ PeersReached(n) = {}
          /\ n \in MaySeekInVain \/ \A m \in Ids \ {n} : phase[m] = "gone"
          /\ phase' = [phase EXCEPT ![n] = "register"]
          /\ topo' = [topo EXCEPT ![n] = {}] /\ expected' = [expected EXCEPT ![n] = FALSE]
    /\ UNCHANGED <<key, attempted, own, refresh, projection, queue>>

(* The first read of the key, once a peer is alive, with the answers of    *)
(* the peers that answer.                                                  *)
Prime(n) ==
    /\ phase[n] = "prime"
    /\ \E from \in SUBSET PeersReached(n) :
        /\ ins' = [ins EXCEPT ![n] = UNION {ins[m] : m \in from \union {n}}]
        /\ outs' = [outs EXCEPT ![n] = UNION {outs[m] : m \in from \union {n}}]
    /\ subscribed' = [subscribed EXCEPT ![n] = TRUE]
    /\ phase' = [phase EXCEPT ![n] = "register"]
    /\ UNCHANGED <<topo, attempted, expected, registered, refresh, projection, queue>>

(* registerSelf: an insertion, which Spread takes to the others.           *)
RegisterSelf(n) ==
    /\ phase[n] = "register"
    /\ ins' = [ins EXCEPT ![n] = @ \union {n}] /\ refresh' = Notified({n})
    /\ registered' = [registered EXCEPT ![n] = TRUE]
    /\ subscribed' = [subscribed EXCEPT ![n] = TRUE]
    /\ phase' = [phase EXCEPT ![n] = "join"]
    /\ UNCHANGED <<outs, topo, attempted, expected, projection, queue>>

ToAttempt(n) == topo[n] \ (attempted[n] \union {n})

(* exchangeMembership with every peer not yet attempted: our tips to it,   *)
(* which it refuses unless subscribed, and its frontier to us.             *)
Exchange(n) ==
    LET taking == {m \in UNION {Reached(n, x) : x \in ToAttempt(n)} : subscribed[m]}
        After(f) == [m \in Ids |-> CASE m = n -> UNION {f[k] : k \in taking \union {n}}
                                     [] m \in taking -> f[m] \union f[n]
                                     [] OTHER -> f[m]]
    IN
    /\ phase[n] = "join" /\ ToAttempt(n) # {}
    /\ ins' = After(ins) /\ outs' = After(outs)
    /\ refresh' = Notified({m \in Ids : ins'[m] # ins[m] \/ outs'[m] # outs[m]})
    /\ attempted' = [attempted EXCEPT ![n] = @ \union ToAttempt(n)]
    /\ phase' = [phase EXCEPT ![n] = "project"]
    /\ UNCHANGED <<topo, expected, own, projection, queue>>

(* projectJoinMembership: the roster becomes the topology.  The join ends  *)
(* with a projection that no exchange precedes and that leaves no peer to  *)
(* attempt.                                                                *)
ProjectJoin(n) ==
    LET topology == Synced(n, Roster(n)) IN
    /\ phase[n] \in {"join", "project"} /\ (phase[n] = "join" => ToAttempt(n) = {})
    /\ topo' = [topo EXCEPT ![n] = topology]
    /\ phase' = [phase EXCEPT ![n] =
            IF @ = "join" /\ topology \subseteq attempted[n] \union {n} THEN "running" ELSE "join"]
    /\ UNCHANGED <<key, attempted, expected, own, refresh, projection, queue>>

(* A join that fails runs Stop: an entry that was registered is removed.   *)
(* With AsyncJoin the process goes on.                                     *)
JoinFails(n) ==
    /\ n \in MayFail /\ phase[n] \in {"register", "project"}
    /\ phase' = [phase EXCEPT ![n] = "failed"]
    /\ outs' = IF registered[n] THEN [outs EXCEPT ![n] = @ \union {n}] ELSE outs
    /\ registered' = [registered EXCEPT ![n] = FALSE]
    /\ UNCHANGED <<ins, topo, attempted, expected, subscribed, refresh, projection, queue>>

----------------------------------------------------------------------------
(* topologyLoop: it waits for a signal, and refreshTopology reads the key; *)
(* the first read needs no signal.                                         *)
ReadRoster(n) ==
    /\ phase[n] = "running" /\ loop[n] \in {"read", "wait"} /\ (loop[n] = "wait" => refresh[n])
    /\ refresh' = [refresh EXCEPT ![n] = IF loop[n] = "wait" THEN FALSE ELSE @]
    /\ loop' = [loop EXCEPT ![n] = "apply"] /\ seen' = [seen EXCEPT ![n] = Roster(n)]
    /\ UNCHANGED <<phase, key, topo, attempted, expected, own, queue>>

(* Dead incarnations at our own address, in the roster read.               *)
Predecessors(n) == {m \in seen[n] \ {n} : Addr[m] = Addr[n]}

(* Mutant: the signal is drained once the projection is done. *)
RefreshTopologyDrained(n) ==
    /\ phase[n] = "running" /\ loop[n] = "apply"
    /\ outs' = [outs EXCEPT ![n] = @ \union Predecessors(n)]
    /\ topo' = [topo EXCEPT ![n] = Synced(n, seen[n])]
    /\ refresh' = [refresh EXCEPT ![n] = FALSE]
    /\ loop' = [loop EXCEPT ![n] = "wait"] /\ seen' = [seen EXCEPT ![n] = {}]
    /\ UNCHANGED <<phase, ins, attempted, expected, own, queue>>

(* refreshTopology: predecessors are removed, and the roster as it was     *)
(* read becomes the topology.                                              *)
RefreshTopology(n) ==
    /\ phase[n] = "running" /\ loop[n] = "apply"
    /\ outs' = [outs EXCEPT ![n] = @ \union Predecessors(n)]
    /\ refresh' = IF Predecessors(n) = {} THEN refresh ELSE Notified({n})
    /\ topo' = [topo EXCEPT ![n] = Synced(n, seen[n])]
    /\ loop' = [loop EXCEPT ![n] = "wait"] /\ seen' = [seen EXCEPT ![n] = {}]
    /\ UNCHANGED <<phase, ins, attempted, expected, own, queue>>

(* removeMember: the cloud asks for a removal, which is queued.            *)
RemoveMember(n, id) ==
    /\ n \in Up \ Removed /\ id \in Removed \ (removeQ[n] \union outs[n])
    /\ removeQ' = [removeQ EXCEPT ![n] = @ \union {id}]
    /\ removeSignal' = [removeSignal EXCEPT ![n] = TRUE]
    /\ UNCHANGED <<phase, key, topo, attempted, expected, own, refresh, projection>>

(* applyQueuedRemovals: the batch, without what is absent already.         *)
ApplyQueuedRemovals(n) ==
    LET batch == removeQ[n] \intersect Roster(n) IN
    /\ phase[n] = "running" /\ removeSignal[n]
    /\ removeSignal' = [removeSignal EXCEPT ![n] = FALSE] /\ removeQ' = [removeQ EXCEPT ![n] = {}]
    /\ outs' = [outs EXCEPT ![n] = @ \union batch]
    /\ refresh' = IF batch = {} THEN refresh ELSE Notified({n})
    /\ UNCHANGED <<phase, ins, topo, attempted, expected, own, projection>>

(* Stop: the entry is removed, which one connected peer at least learns.   *)
Stop(n) ==
    /\ n \in Leavers /\ phase[n] = "running"
    /\ \E to \in SUBSET {m \in Up \ {n} : Linked(n, m) /\ subscribed[m]} :
        /\ to = {} => \A m \in Up \ {n} : ~(Linked(n, m) /\ subscribed[m])
        /\ outs' = [m \in Ids |-> IF m \in to THEN outs[m] \union {n} ELSE outs[m]]
        /\ refresh' = Notified(to)
    /\ phase' = [phase EXCEPT ![n] = "gone"]
    /\ registered' = [registered EXCEPT ![n] = FALSE]
    /\ UNCHANGED <<ins, topo, attempted, expected, subscribed, projection, queue>>

Crash(n) ==
    /\ n \in Crashes /\ phase[n] = "running"
    /\ phase' = [phase EXCEPT ![n] = "gone"]
    /\ UNCHANGED <<key, topo, attempted, expected, own, refresh, projection, queue>>

(* Replication and anti-entropy between connected subscribers.             *)
Spread(n, m) ==
    /\ {n, m} \subseteq Up /\ subscribed[n] /\ subscribed[m] /\ Linked(n, m)
    /\ Changed({n, m}) # {}
    /\ ins' = Shared(ins, {n, m}) /\ outs' = Shared(outs, {n, m})
    /\ refresh' = Notified(Changed({n, m}))
    /\ UNCHANGED <<phase, topo, attempted, expected, own, projection, queue>>

Start(n) ==
    Launch(n) \/ Bootstrap(n) \/ WaitForAnyPeer(n) \/ Prime(n) \/ RegisterSelf(n)
    \/ Exchange(n) \/ ProjectJoin(n)

Next ==
    \/ \E n \in Ids :
        \/ Start(n) \/ JoinFails(n) \/ ReadRoster(n) \/ RefreshTopology(n)
        \/ ApplyQueuedRemovals(n) \/ Stop(n) \/ Crash(n)
    \/ \E n, id \in Ids : RemoveMember(n, id)
    \/ \E n, m \in Ids : n # m /\ Spread(n, m)

Fairness ==
    /\ \A n \in Ids :
        WF_vars(Start(n)) /\ WF_vars(ReadRoster(n)) /\ WF_vars(RefreshTopology(n))
        /\ WF_vars(ApplyQueuedRemovals(n))
    /\ \A n, m \in Ids : WF_vars(n # m /\ Spread(n, m))

Spec == Init /\ [][Next]_vars /\ Fairness

----------------------------------------------------------------------------
Running(n) == phase[n] = "running"

(* The types of the state; a node serves only with its entry in the key,   *)
(* and an id that never ran is nowhere in it.                              *)
TypeOK ==
    /\ loop \in [Ids -> {"read", "apply", "wait"}]
    /\ \A n \in Ids :
        /\ Running(n) => registered[n]
        /\ topo[n] \subseteq Ids \/ topo[n] \subseteq Addresses
        /\ \A m \in ins[n] \union outs[n] : phase[m] # "off"

(* Two nodes that have both joined know of each other, on one side at      *)
(* least, however their starts interleave (Start registers before          *)
(* joinMembership exchanges; MaySeekInVain is empty).                      *)
JoinedAware ==
    \A n, m \in Ids : n # m /\ Running(n) /\ Running(m) =>
        m \in ins[n] \/ n \in ins[m]

(* Every launched node comes to serve: simultaneous starts do not wait for *)
(* each other (bootstrap "does NOT read authoritative membership").        *)
StartCompletes == \A n \in Ids : phase[n] = "dial" ~> phase[n] \in {"running", "gone", "failed"}

(* The connection table follows the membership: nodes that keep running    *)
(* end up in each other's topology (topologyLoop never misses a change).   *)
TopologyConverges ==
    \A n, m \in Ids : n # m =>
        (<>[](Running(n) /\ Running(m)) => <>[](m \in topo[n]))

(* A removal of a member it knows, pushed by the cloud to a node that      *)
(* comes to serve, reaches the topology of every node that keeps running   *)
(* ("Nothing is missed meanwhile", Start).                                 *)
RemovalApplied ==
    \A id \in Removed : \A n, m \in Ids \ Removed :
        id \in removeQ[n] \intersect Roster(n)
            ~> (id \notin topo[m] \/ ~Running(m) \/ phase[n] \in {"failed", "gone"})
=============================================================================
