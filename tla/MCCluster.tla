----------------------------- MODULE MCCluster -----------------------------
(***************************************************************************)
(* The cluster layer: replication calls, clock ticks, failure detection,   *)
(* connections, membership and the routing of published messages.  They    *)
(* share no state here; part says which instance moves, the others rest.   *)
(***************************************************************************)
EXTENDS Integers, Sequences, TLC

CONSTANTS None, p1, p2, q

VARIABLES
    part,
    regions, targets, link, call, future, pending, drops, wire, heard, refused, stop, flaps,
    now, skew, seq, ring, obs, in, out, stepped, started, jumped, ticks,
    since, gaps, alive, recovered, handler, sweep, swept, up, interval, toAdjust, phase, flight, missed, crashes,
    loop, conn, dialed, cancelled, attempted, open, made, theirs, watched, streams, inbound, current, configured,
    registered, stops, stopped, todo, down, losses,
    stage, ins, outs, topo, tried, expected, entered, subscribed, refresh, turn, seen, removeQ, removeSignal,
    subs, count, announce, conf, adding, owed, usable, sent, lost, known, table, messages

replVars == <<regions, targets, link, call, future, pending, drops, wire, heard, refused, stop, flaps>>
clockVars == <<now, skew, seq, ring, obs, in, out, stepped, started, jumped, ticks>>
aliveVars == <<since, gaps, alive, recovered, handler, sweep, swept, up, interval, toAdjust, phase, flight, missed, crashes>>
linkVars == <<loop, conn, dialed, cancelled, attempted, open, made, theirs, watched, streams, inbound, current, configured,
    registered, stops, stopped, todo, down, losses>>
beaconVars == <<stage, ins, outs, topo, tried, expected, entered, subscribed, refresh, turn, seen, removeQ, removeSignal>>
routeVars == <<subs, count, announce, conf, adding, owed, usable, sent, lost, known, table, messages>>
vars == <<part, replVars, clockVars, aliveVars, linkVars, beaconVars, routeVars>>

Perms == Permutations({p1, p2})

----------------------------------------------------------------------------
Outcomes == {"applied", "notsub"}

(* A write replicated to two peers of the region.                          *)
Near == INSTANCE Replication WITH net <- wire, Peers <- {p1, p2}, Far <- {}, Calls <- {1},
    Kind <- 1 :> "replicate", To <- 1 :> p1, CanStop <- FALSE, MaxFlaps <- 1

(* A write replicated to a peer of the region and one of another.          *)
Abroad == INSTANCE Replication WITH net <- wire, Peers <- {p1, q}, Far <- {q}, Calls <- {1},
    Kind <- 1 :> "replicate", To <- 1 :> p1, CanStop <- FALSE, MaxFlaps <- 1

(* A bind and a one-way message, with the replicator stopping.             *)
Halt == INSTANCE Replication WITH net <- wire, Peers <- {p1}, Far <- {}, Calls <- {1, 2},
    Kind <- 1 :> "to" @@ 2 :> "oneway", To <- 1 :> p1 @@ 2 :> p1, CanStop <- TRUE, MaxFlaps <- 2

Nodes == {"a", "b"}
Peer == "a" :> "b" @@ "b" :> "a"
Skews == "a" :> 0 @@ "b" :> 3
MinDelay == 1
Jumps == {-10, 10}
MaxNow == 5

(* Ticks are lost, overtake each other and start again with a connection.  *)
Clock == INSTANCE ClockSync WITH net <- ticks, MaxDelay <- 2, WindowSize <- 1, Jumpers <- {},
    Faults <- {"loss", "overtaking", "reconnect"}, Observers <- {"a", "b"}, MaxTicks <- "a" :> 2 @@ "b" :> 2

(* The clock of one node steps.                                            *)
Jump == INSTANCE ClockSync WITH net <- ticks, MaxDelay <- 2, WindowSize <- 2, Jumpers <- {"b"},
    Faults <- {}, Observers <- {"a"}, MaxTicks <- "a" :> 1 @@ "b" :> 4

Interval == 2
IntervalFloor == 2
IntervalCeil == 4
AdjustEvery == 1
MissedIntervals == 3
MinTimeout == 1
MaxTimeout == 8
Cadence == 1

(* Single ticks are missed; the peer crashes while its interval changes;   *)
(* ticks are missed until there are false alarms.                          *)
Miss == INSTANCE PeerLiveness WITH Targets <- {}, MaxDelay <- 1, MaxMisses <- 1, MaxCrashes <- 0,
    WindowSize <- 5, MinSamples <- 5
Silent == INSTANCE PeerLiveness WITH Targets <- {2, 4}, MaxDelay <- 1, MaxMisses <- 1, MaxCrashes <- 1,
    WindowSize <- 2, MinSamples <- 2
Alarm == INSTANCE PeerLiveness WITH Targets <- {}, MaxDelay <- 1, MaxMisses <- 3, MaxCrashes <- 1,
    WindowSize <- 2, MinSamples <- 2

Conns == {1, 2, 3}

(* Changes of configuration; a loss with one change; a peer that dials us. *)
Change == INSTANCE PeerLinks WITH Links <- {1, 2, 3}, DialBack <- FALSE, ReturnTraffic <- FALSE, MaxLosses <- 0
Redial == INSTANCE PeerLinks WITH Links <- {1, 2}, DialBack <- FALSE, ReturnTraffic <- FALSE, MaxLosses <- 1
Back == INSTANCE PeerLinks WITH Links <- {1}, DialBack <- TRUE, ReturnTraffic <- TRUE, MaxLosses <- 1

Addresses == {"A", "B", "C"}
At == ("a1" :> "A") @@ ("a2" :> "A") @@ ("b1" :> "B") @@ ("c1" :> "C")
On(ids) == [n \in ids |-> At[n]]

(* Three nodes start together.                                             *)
Trio == INSTANCE Beacon WITH phase <- stage, attempted <- tried, registered <- entered, loop <- turn,
    Ids <- {"a1", "b1", "c1"}, Addr <- On({"a1", "b1", "c1"}), Reborn <- [n \in {"a1", "b1", "c1"} |-> {}],
    Crashes <- {}, Leavers <- {}, Removed <- {}, MaySeekInVain <- {}, MayFail <- {}

(* Of two nodes one may fail to join or leave; may crash and be removed.   *)
Pair == INSTANCE Beacon WITH phase <- stage, attempted <- tried, registered <- entered, loop <- turn,
    Ids <- {"a1", "b1"}, Addr <- On({"a1", "b1"}), Reborn <- [n \in {"a1", "b1"} |-> {}],
    Crashes <- {}, Leavers <- {"b1"}, Removed <- {}, MaySeekInVain <- {}, MayFail <- {"b1"}
Gone == INSTANCE Beacon WITH phase <- stage, attempted <- tried, registered <- entered, loop <- turn,
    Ids <- {"a1", "b1"}, Addr <- On({"a1", "b1"}), Reborn <- [n \in {"a1", "b1"} |-> {}],
    Crashes <- {"a1"}, Leavers <- {}, Removed <- {"a1"}, MaySeekInVain <- {}, MayFail <- {}

(* A node crashes and comes back with another id at its address.           *)
Again == INSTANCE Beacon WITH phase <- stage, attempted <- tried, registered <- entered, loop <- turn,
    Ids <- {"a1", "a2", "b1"}, Addr <- On({"a1", "a2", "b1"}),
    Reborn <- [n \in {"a1", "a2", "b1"} |-> IF n = "a2" THEN {"a1"} ELSE {}],
    Crashes <- {"a1"}, Leavers <- {}, Removed <- {}, MaySeekInVain <- {"b1"}, MayFail <- {}

Subscribers == {"s"}
Channels == {"news", "logs"}
Patterns == {"n*"}
Matches == {<<"news", "n*">>}

(* Announcements in order, and with losses and out of order.               *)
Route == INSTANCE PubSubRouter WITH made <- count, call <- announce, todo <- owed, up <- usable, net <- sent,
    InOrder <- TRUE, MaxSubscribes <- 2, MaxPublishes <- 1, LinkFirst <- TRUE, Unsubscribes <- "settled",
    MayDrop <- FALSE, MayLeave <- TRUE
Learn == INSTANCE PubSubRouter WITH made <- count, call <- announce, todo <- owed, up <- usable, net <- sent,
    InOrder <- FALSE, MaxSubscribes <- 2, MaxPublishes <- 0, LinkFirst <- FALSE, Unsubscribes <- "never",
    MayDrop <- TRUE, MayLeave <- TRUE

----------------------------------------------------------------------------
Init ==
    /\ CASE part = "far" -> Abroad!Init [] part = "stop" -> Halt!Init [] OTHER -> Near!Init
    /\ part \notin {"near", "far", "stop"} => targets = {} /\ link = {}
    /\ IF part = "jump" THEN Jump!Init ELSE Clock!Init
    /\ CASE part = "crash" -> Silent!Init [] part = "alarm" -> Alarm!Init [] OTHER -> Miss!Init
    /\ CASE part = "dial" -> Redial!Init [] part = "back" -> Back!Init [] OTHER -> Change!Init
    /\ CASE part = "pair" -> Pair!Init [] part = "gone" -> Gone!Init [] part = "again" -> Again!Init [] OTHER -> Trio!Init
    /\ IF part = "learn" THEN Learn!Init ELSE Route!Init

NextRepl ==
    /\ \/ part = "near" /\ Near!Next
       \/ part = "far" /\ Abroad!Next
       \/ part = "stop" /\ Halt!Next
    /\ UNCHANGED <<part, clockVars, aliveVars, linkVars, beaconVars, routeVars>>
NextClock ==
    /\ \/ part = "clock" /\ Clock!Next
       \/ part = "jump" /\ Jump!Next
    /\ UNCHANGED <<part, replVars, aliveVars, linkVars, beaconVars, routeVars>>
NextAlive ==
    /\ \/ part = "miss" /\ Miss!Next
       \/ part = "crash" /\ Silent!Next
       \/ part = "alarm" /\ Alarm!Next
    /\ UNCHANGED <<part, replVars, clockVars, linkVars, beaconVars, routeVars>>
NextLink ==
    /\ \/ part = "change" /\ Change!Next
       \/ part = "dial" /\ Redial!Next
       \/ part = "back" /\ Back!Next
    /\ UNCHANGED <<part, replVars, clockVars, aliveVars, beaconVars, routeVars>>
NextBeacon ==
    /\ \/ part = "trio" /\ Trio!Next
       \/ part = "pair" /\ Pair!Next
       \/ part = "gone" /\ Gone!Next
       \/ part = "again" /\ Again!Next
    /\ UNCHANGED <<part, replVars, clockVars, aliveVars, linkVars, routeVars>>
NextRoute ==
    /\ \/ part = "route" /\ Route!Next
       \/ part = "learn" /\ Learn!Next
    /\ UNCHANGED <<part, replVars, clockVars, aliveVars, linkVars, beaconVars>>

Next == NextRepl \/ NextClock \/ NextAlive \/ NextLink \/ NextBeacon \/ NextRoute

SafetyInit == part \in {"near", "clock", "jump", "miss", "crash", "change", "trio", "route"} /\ Init
CallsInit == part \in {"far", "stop", "alarm"} /\ Init
LinksInit == part \in {"dial", "back", "pair", "gone", "again", "learn"} /\ Init

Spec == SafetyInit /\ [][Next]_vars

(* The fairness of the modules, for the instances with liveness.  Streams  *)
(* and nodes have one condition per kind of step, not one per stream or    *)
(* node: less than the goroutines of the code give.                        *)
FarFair ==
    /\ WF_replVars(part = "far" /\ Abroad!Caller(1))
    /\ WF_replVars(part = "far" /\ \E d \in drops : Abroad!DropTest(d))
    /\ \A p \in {p1, q} :
        /\ WF_replVars(part = "far" /\ Abroad!Sweeps(<<1, p>>))
        /\ WF_replVars(part = "far" /\ \E m \in wire : m.call = 1 /\ m.peer = p /\ Abroad!Delivered(m))
        /\ WF_replVars(part = "far" /\ \E m \in wire : m.call = 1 /\ m.peer = p /\ Abroad!Answered(m))
        /\ WF_replVars(part = "far" /\ Abroad!PeerDead(p))
StopFair ==
    /\ WF_replVars(part = "stop" /\ \E d \in drops : Halt!DropTest(d))
    /\ WF_replVars(part = "stop" /\ Halt!SweepStop) /\ WF_replVars(part = "stop" /\ Halt!PeerDead(p1))
    /\ \A c \in {1, 2} :
        /\ WF_replVars(part = "stop" /\ Halt!Caller(c)) /\ WF_replVars(part = "stop" /\ Halt!Sweeps(<<c, p1>>))
        /\ WF_replVars(part = "stop" /\ \E m \in wire : m.call = c /\ m.peer = p1 /\ Halt!Delivered(m))
        /\ WF_replVars(part = "stop" /\ \E m \in wire : m.call = c /\ m.peer = p1 /\ Halt!Answered(m))
AlarmFair ==
    /\ WF_aliveVars(part = "alarm" /\ Alarm!Pass) /\ WF_aliveVars(part = "alarm" /\ Alarm!TickDue(FALSE))
    /\ WF_aliveVars(part = "alarm" /\ Alarm!TickArrives) /\ WF_aliveVars(part = "alarm" /\ Alarm!TickHandled)
    /\ WF_aliveVars(part = "alarm" /\ Alarm!CheckLiveness) /\ WF_aliveVars(part = "alarm" /\ Alarm!MarkDead)
DialFair ==
    /\ \A l \in {1, 2} :
        /\ WF_linkVars(part = "dial" /\ Redial!Dial(l)) /\ SF_linkVars(part = "dial" /\ Redial!DialSucceeds(l))
        /\ WF_linkVars(part = "dial" /\ Redial!DialFails(l)) /\ WF_linkVars(part = "dial" /\ Redial!Publish(l))
        /\ WF_linkVars(part = "dial" /\ Redial!Ready(l)) /\ WF_linkVars(part = "dial" /\ Redial!Closed(l))
        /\ WF_linkVars(part = "dial" /\ Redial!StopLink(l))
    /\ WF_linkVars(part = "dial" /\ Redial!Register)
BackFair ==
    /\ WF_linkVars(part = "back" /\ \E c \in Conns : Back!Stream(c))
    /\ WF_linkVars(part = "back" /\ \E c \in Conns : Back!RegisterInboundConn(c))
    /\ WF_linkVars(part = "back" /\ \E c \in Conns : Back!ForgetInboundConn(c))
BeaconFair ==
    /\ WF_beaconVars(
        \/ part = "pair" /\ \E n \in {"a1", "b1"} : Pair!Start(n)
        \/ part = "gone" /\ \E n \in {"a1", "b1"} : Gone!Start(n)
        \/ part = "again" /\ \E n \in {"a1", "a2", "b1"} : Again!Start(n))
    /\ WF_beaconVars(
        \/ part = "pair" /\ \E n \in {"a1", "b1"} : Pair!ReadRoster(n)
        \/ part = "gone" /\ \E n \in {"a1", "b1"} : Gone!ReadRoster(n)
        \/ part = "again" /\ \E n \in {"a1", "a2", "b1"} : Again!ReadRoster(n))
    /\ WF_beaconVars(
        \/ part = "pair" /\ \E n \in {"a1", "b1"} : Pair!RefreshTopology(n)
        \/ part = "gone" /\ \E n \in {"a1", "b1"} : Gone!RefreshTopology(n)
        \/ part = "again" /\ \E n \in {"a1", "a2", "b1"} : Again!RefreshTopology(n))
    /\ WF_beaconVars(
        \/ part = "pair" /\ \E n \in {"a1", "b1"} : Pair!ApplyQueuedRemovals(n)
        \/ part = "gone" /\ \E n \in {"a1", "b1"} : Gone!ApplyQueuedRemovals(n)
        \/ part = "again" /\ \E n \in {"a1", "a2", "b1"} : Again!ApplyQueuedRemovals(n))
    /\ WF_beaconVars(
        \/ part = "pair" /\ \E n, m \in {"a1", "b1"} : n # m /\ Pair!Spread(n, m)
        \/ part = "gone" /\ \E n, m \in {"a1", "b1"} : n # m /\ Gone!Spread(n, m)
        \/ part = "again" /\ \E n, m \in {"a1", "a2", "b1"} : n # m /\ Again!Spread(n, m))
LearnFair ==
    /\ WF_routeVars(part = "learn" /\ Learn!Announce("s")) /\ WF_routeVars(part = "learn" /\ Learn!AddPeer("s"))
    /\ WF_routeVars(part = "learn" /\ Learn!OnPeerAdded("s")) /\ WF_routeVars(part = "learn" /\ Learn!SendAnnounce("s"))
    /\ WF_routeVars(part = "learn" /\ Learn!Connect("s")) /\ WF_routeVars(part = "learn" /\ Learn!Receive("s"))

CallsSpec == CallsInit /\ [][Next]_vars /\ FarFair /\ StopFair /\ AlarmFair

LinksSpec == LinksInit /\ [][Next]_vars /\ DialFair /\ BackFair /\ BeaconFair /\ LearnFair

----------------------------------------------------------------------------
(* A call that succeeds was accepted by a peer, and one that fails had no  *)
(* tracked peer left (replication.go).                                     *)
CallsTellTruth == part = "near" => Near!TypeOK /\ Near!AckedByOne /\ Near!FailsWhenNoneIsLeft

(* Heartbeats tell the truth: round trip times do not depend on the        *)
(* clocks, a skew estimate is off by half a round trip at most, the        *)
(* samples of a window are from one side of a clock step, one missed tick  *)
(* kills no peer and silence does within the longest timeout               *)
(* (heartbeat.go).                                                         *)
HeartbeatsTell ==
    /\ part = "clock" => Clock!TypeOK /\ Clock!RTTSkewFree /\ Clock!SkewWithinBound
    /\ part = "jump" => Jump!InOneSkew
    /\ part = "miss" => Miss!TypeOK /\ Miss!OneMissKeepsAlive
    /\ part = "crash" => Silent!SilentIsDead

(* The links are those of the membership: a stopped connection loop waits  *)
(* for no open connection, the other components know the peers of the      *)
(* configuration, and of two nodes that joined one knows the other.        *)
LinksFollowMembers ==
    /\ part = "change" => Change!TypeOK /\ Change!StopLeaksNothing /\ Change!RegisteredAsConfigured
    /\ part = "trio" => Trio!TypeOK /\ Trio!JoinedAware

(* With nothing under way the table says what the broker holds, and no     *)
(* message is sent twice to a node (pubsub_router.go).                     *)
TableIsTrue == part = "route" => Route!TypeOK /\ Route!TableIsTrue /\ Route!SentOnce

(* Every call returns, also when the replicator stops; every tracked peer  *)
(* hears of a write or is dead, and no request stays in the tracker.       *)
CallsComplete ==
    /\ part = "far" => Abroad!EveryCallReturns /\ Abroad!HeardOrDead /\ Abroad!TrackerDrains
    /\ \A c \in {1, 2} : part = "stop" /\ call[c].pc # "idle" ~> part = "stop" /\ call[c].pc = "return"

(* A peer that ticks is alive in the end.                                  *)
UpIsAlive == part = "alarm" => Alarm!UpIsAlive

(* Every connection loop reports a first attempt, a configured peer is     *)
(* connected in the end, and the way back to a peer that dials us stays    *)
(* open (peer_manager.go).                                                 *)
LinksRecover ==
    /\ \A l \in {1, 2} : part = "dial" /\ loop[l] # "new" ~> l \in attempted
    /\ part = "dial" => Redial!Reconnects
    /\ part = "back" => Back!WayBackIsLive

(* Every launched node comes to serve, after it has tried its peers;       *)
(* topologies follow joins and removals, and a dead incarnation leaves the *)
(* topology of its successor (beacon).                                     *)
MembershipConverges ==
    /\ [][part = "pair" => \A n \in {"a1", "b1"} :
            Pair!Running(n)' /\ ~Pair!Running(n) => topo'[n] \subseteq tried'[n] \union {n}]_vars
    /\ part \in {"pair", "gone"} => Pair!StartCompletes
    /\ part = "pair" => Pair!TopologyConverges
    /\ part = "gone" => Gone!RemovalApplied
    /\ <>[](part = "again" /\ Again!Running("a2")) => <>[](part = "again" /\ "a1" \notin topo["a2"])

(* A subscription is learned in the end.                                   *)
SubscriptionLearned == part = "learn" => Learn!SubscriptionLearned
=============================================================================
