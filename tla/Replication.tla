----------------------------- MODULE Replication -----------------------------
(***************************************************************************)
(* Sending one write to the peers: the Replicator, its request tracker and *)
(* the futures its callers wait on.                                        *)
(*                                                                         *)
(* Replicate tracks one request per live peer of the region and returns    *)
(* when the first of them acknowledges; a request whose send failed is     *)
(* held and retransmitted by the sweep until the peer answers or is        *)
(* declared dead.  Peers of other regions get the write under a deadline   *)
(* and nobody waits for them.  replicateBody waits for one named peer,     *)
(* under a deadline too.  SendOneWay is not tracked.                       *)
(*                                                                         *)
(* A call makes at most one request per peer, so the pair of call and peer *)
(* stands for the request ID.  A stream is delivered once and in any       *)
(* order; what is on its way is lost with the connection.  A deadline may  *)
(* pass at any time.                                                       *)
(***************************************************************************)
EXTENDS Naturals, FiniteSets

CONSTANTS
    Peers, Far,     \* the peers, and those of them in another region
    Calls, Kind,    \* Kind[c]: "replicate", "to" or "oneway"
    To,             \* To[c]: the peer a "to" or "oneway" call names
    Outcomes,       \* what a handler may make of a notification
    CanStop,        \* whether the replicator is stopped
    MaxFlaps        \* how often connections and health may change

VARIABLES
    regions,   \* peerRegions: the peers replication knows
    targets,   \* the peers whose health entry is alive and symmetric
    link,      \* the peers a connection can be found for
    call,      \* call[c]: where the caller is, and the goroutines it started
    future,    \* future[c]
    pending,   \* tracker.pending
    drops,     \* drop calls between their Add and their test
    net,       \* notifications and answers on their way
    heard,     \* heard[c]: the peers whose handler accepted the write
    refused,   \* refused[c]: the peers whose NotSubscribed was received
    stop,      \* "no", "closed" (stopCh) or "swept" (the loop has returned)
    flaps

envVars == <<regions, targets, link, flaps>>
vars == <<envVars, call, future, pending, drops, net, heard, refused, stop>>

Tracked(c) == {p \in Peers : <<c, p>> \in pending}
Retransmit(r) == Kind[r[1]] = "replicate" /\ r[2] \notin Far
Done(c) == future[c].err # "none"

Init ==
    /\ regions = Peers /\ targets \in SUBSET Peers /\ link \in SUBSET Peers /\ flaps = 0
    /\ call = [c \in Calls |-> [pc |-> "idle", todo |-> {}, send |-> {}, far |-> {}]]
    /\ future = [c \in Calls |-> [err |-> "none", expected |-> 0, dropped |-> 0, setup |-> FALSE]]
    /\ pending = {} /\ drops = {} /\ net = {} /\ stop = "no"
    /\ heard = [c \in Calls |-> {}] /\ refused = [c \in Calls |-> {}]

----------------------------------------------------------------------------
(* The future: the first of resolve and reject wins.                       *)
Settled(f, err) == IF f.err = "none" THEN [f EXCEPT !.err = err] ELSE f
Registered(f) == [f EXCEPT !.expected = @ + 1]

(* Mutant: drop compares before registration is over. *)
DropTestEarly(d) ==
    LET f == future[d.call] IN
    /\ d \in drops
    /\ drops' = drops \ {d}
    /\ future' = IF d.n = f.expected THEN [future EXCEPT ![d.call] = Settled(@, d.err)] ELSE future
    /\ UNCHANGED <<envVars, call, pending, net, heard, refused, stop>>

(* The second half of drop: setupDone and expected are read after Add.     *)
DropTest(d) ==
    LET f == future[d.call] IN
    /\ d \in drops
    /\ drops' = drops \ {d}
    /\ future' = IF f.setup /\ d.n = f.expected THEN [future EXCEPT ![d.call] = Settled(@, d.err)] ELSE future
    /\ UNCHANGED <<envVars, call, pending, net, heard, refused, stop>>

(* The first half, in the steps below.                                     *)
DropAdd(c, err) ==
    /\ future' = [future EXCEPT ![c].dropped = @ + 1]
    /\ drops' = drops \union {[call |-> c, n |-> future[c].dropped + 1, err |-> err]}

----------------------------------------------------------------------------
(* AliveSymmetricPeers of the local region.                                *)
LocalTargets == {p \in regions \ Far : p \in targets}

(* Replicate up to its fan-out.  Goroutines register and send: one per     *)
(* target, and one for all the peers of other regions.                     *)
Replicate(c) ==
    /\ call[c].pc = "idle" /\ Kind[c] = "replicate"
    /\ call' = [call EXCEPT ![c] = [pc |-> IF LocalTargets = {} THEN "return" ELSE "fanout",
                                    todo |-> LocalTargets, send |-> {}, far |-> regions \intersect Far]]
    /\ future' = IF LocalTargets = {} THEN [future EXCEPT ![c].err = "NoPeers"] ELSE future
    /\ UNCHANGED <<envVars, pending, drops, net, heard, refused, stop>>

(* A goroutine's register, before its send.                                *)
FanOutRegister(c, p) ==
    /\ call[c].pc = "fanout" /\ p \in call[c].todo
    /\ call' = [call EXCEPT ![c].todo = @ \ {p}, ![c].send = @ \union {p}]
    /\ future' = [future EXCEPT ![c] = Registered(@)]
    /\ pending' = pending \union {<<c, p>>}
    /\ UNCHANGED <<envVars, drops, net, heard, refused, stop>>

Notify(c, p) == [type |-> "notify", call |-> c, peer |-> p, what |-> "write"]
Sent(c, p) == IF p \in link THEN net \union {Notify(c, p)} ELSE net

(* ... and its send.  A failed one leaves the request to the sweep.        *)
FanOutSend(c, p) ==
    /\ call[c].pc = "fanout" /\ p \in call[c].send
    /\ call' = [call EXCEPT ![c].send = @ \ {p}]
    /\ net' = Sent(c, p)
    /\ UNCHANGED <<envVars, future, pending, drops, heard, refused, stop>>

(* wg.Wait, then setupDone.                                                *)
SetupDone(c) ==
    /\ call[c].pc = "fanout" /\ call[c].todo = {} /\ call[c].send = {}
    /\ future' = [future EXCEPT ![c].setup = TRUE]
    /\ call' = [call EXCEPT ![c].pc = "recheck"]
    /\ UNCHANGED <<envVars, pending, drops, net, heard, refused, stop>>

(* Mutant: the answers that came before setupDone are not looked at. *)
RecheckNothing(c) ==
    /\ call[c].pc = "recheck"
    /\ call' = [call EXCEPT ![c].pc = "wait"]
    /\ UNCHANGED <<envVars, future, pending, drops, net, heard, refused, stop>>

(* The test for peers that all answered before setupDone was set.          *)
Recheck(c) ==
    /\ call[c].pc = "recheck"
    /\ call' = [call EXCEPT ![c].pc = "wait"]
    /\ future' = IF future[c].dropped = future[c].expected
                 THEN [future EXCEPT ![c] = Settled(@, "AllNotSubscribed")] ELSE future
    /\ UNCHANGED <<envVars, pending, drops, net, heard, refused, stop>>

(* sendCrossRegion: one peer; its future is resolved from the start.       *)
SendCrossRegion(c, p) ==
    /\ p \in call[c].far
    /\ call' = [call EXCEPT ![c].far = @ \ {p}]
    /\ net' = Sent(c, p)
    /\ pending' = IF p \in link THEN pending \union {<<c, p>>} ELSE pending
    /\ UNCHANGED <<envVars, future, drops, heard, refused, stop>>

(* replicateBody: setupDone is set and the request registered, ...         *)
ReplicateBody(c) ==
    /\ call[c].pc = "idle" /\ Kind[c] = "to"
    /\ call' = [call EXCEPT ![c].pc = "send"]
    /\ future' = [future EXCEPT ![c] = [Registered(@) EXCEPT !.setup = TRUE]]
    /\ pending' = pending \union {<<c, To[c]>>}
    /\ UNCHANGED <<envVars, drops, net, heard, refused, stop>>

(* ... sent, ...                                                           *)
ReplicateBodySend(c) ==
    LET r == <<c, To[c]>> IN
    /\ call[c].pc = "send"
    /\ net' = Sent(c, To[c])
    /\ IF To[c] \in link
       THEN call' = [call EXCEPT ![c].pc = "wait"] /\ UNCHANGED <<future, pending>>
       ELSE /\ call' = [call EXCEPT ![c].pc = "return"]
            /\ future' = [future EXCEPT ![c].err = "SendFailed"]
            /\ pending' = pending \ {r}
    /\ UNCHANGED <<envVars, drops, heard, refused, stop>>

(* ... and withdrawn when the replicator stops, unless an answer has       *)
(* claimed it.                                                             *)
ReplicateBodyStop(c) ==
    LET r == <<c, To[c]>> IN
    /\ call[c].pc = "wait" /\ Kind[c] = "to" /\ stop # "no" /\ ~Done(c)
    /\ r \in pending
    /\ pending' = pending \ {r}
    /\ future' = [future EXCEPT ![c] = Settled(@, "Timeout")]
    /\ UNCHANGED <<envVars, call, drops, net, heard, refused, stop>>

Return(c) ==
    /\ call[c].pc = "wait" /\ Done(c)
    /\ call' = [call EXCEPT ![c].pc = "return"]
    /\ UNCHANGED <<envVars, future, pending, drops, net, heard, refused, stop>>

SendOneWay(c) ==
    /\ call[c].pc = "idle" /\ Kind[c] = "oneway"
    /\ net' = Sent(c, To[c])
    /\ call' = [call EXCEPT ![c].pc = "return"]
    /\ future' = [future EXCEPT ![c].err = IF To[c] \in link THEN "ok" ELSE "SendFailed"]
    /\ UNCHANGED <<envVars, pending, drops, heard, refused, stop>>

----------------------------------------------------------------------------
(* HandleNotify on the peer.  The handler's error is logged and the answer *)
(* is an ACK all the same.                                                 *)
HandleNotify(m, outcome) ==
    LET answer == [m EXCEPT !.type = "answer", !.what = IF outcome = "notsub" THEN "notsub" ELSE "ack"] IN
    /\ m \in net /\ m.type = "notify"
    /\ net' = (net \ {m}) \union (IF m.peer \in link THEN {answer} ELSE {})
    /\ heard' = IF outcome = "applied" THEN [heard EXCEPT ![m.call] = @ \union {m.peer}] ELSE heard
    /\ UNCHANGED <<envVars, call, future, pending, drops, refused, stop>>

(* An answer claims its request; a late one finds none.                    *)
HandleNotifyACK(m) ==
    LET r == <<m.call, m.peer>> IN
    /\ m \in net /\ m.type = "answer" /\ m.what = "ack"
    /\ net' = net \ {m} /\ pending' = pending \ {r}
    /\ future' = IF r \in pending /\ m.peer \notin Far THEN [future EXCEPT ![m.call] = Settled(@, "ok")] ELSE future
    /\ UNCHANGED <<envVars, call, drops, heard, refused, stop>>

(* NotSubscribed does not satisfy the future; it counts the peer out.      *)
HandleNotifyACKWithData(m) ==
    LET r == <<m.call, m.peer>> IN
    /\ m \in net /\ m.type = "answer" /\ m.what = "notsub"
    /\ net' = net \ {m} /\ pending' = pending \ {r}
    /\ IF r \in pending /\ m.peer \notin Far
       THEN DropAdd(m.call, "AllNotSubscribed") /\ refused' = [refused EXCEPT ![m.call] = @ \union {m.peer}]
       ELSE UNCHANGED <<future, drops, refused>>
    /\ UNCHANGED <<envVars, call, heard, stop>>

----------------------------------------------------------------------------

(* sweep, one entry: a deadline has passed, ...                            *)
SweepExpire(r) ==
    /\ stop # "swept" /\ r \in pending /\ ~Retransmit(r)
    /\ pending' = pending \ {r}
    /\ future' = IF r[2] \in Far /\ Kind[r[1]] = "replicate" THEN future
                 ELSE [future EXCEPT ![r[1]] = Settled(@, "Timeout")]
    /\ UNCHANGED <<envVars, call, drops, net, heard, refused, stop>>

(* ... the peer of a held request is no longer a target, ...               *)
SweepGiveUp(r) ==
    /\ stop # "swept" /\ r \in pending /\ Retransmit(r) /\ r[2] \notin targets
    /\ pending' = pending \ {r}
    /\ DropAdd(r[1], "NoPeers")
    /\ UNCHANGED <<envVars, call, net, heard, refused, stop>>

(* ... or it is and the request is sent again.                             *)
SweepRetransmit(r) ==
    /\ stop # "swept" /\ r \in pending /\ Retransmit(r) /\ r[2] \in targets \intersect link
    /\ net' = Sent(r[1], r[2])
    /\ UNCHANGED <<envVars, call, future, pending, drops, heard, refused, stop>>

Stop ==
    /\ CanStop /\ stop = "no"
    /\ stop' = "closed"
    /\ UNCHANGED <<envVars, call, future, pending, drops, net, heard, refused>>

(* sweepLoop on its way out rejects whatever is registered by then.        *)
SweepStop ==
    /\ stop = "closed"
    /\ stop' = "swept" /\ pending' = {}
    /\ future' = [c \in Calls |-> IF Tracked(c) \ (IF Kind[c] = "replicate" THEN Far ELSE {}) = {} THEN future[c]
                                  ELSE Settled(future[c], "Timeout")]
    /\ UNCHANGED <<envVars, call, drops, net, heard, refused>>

----------------------------------------------------------------------------
(* The world changes while a call or a request is under way.               *)
Flaps == flaps < MaxFlaps /\ flaps' = flaps + 1 /\ (pending # {} \/ \E c \in Calls : call[c].pc # "return")

(* Connections come and go, and with them what is on its way.              *)
LinkChanges(p) ==
    /\ Flaps
    /\ link' = IF p \in link THEN link \ {p} ELSE link \union {p}
    /\ net' = IF p \in link THEN {m \in net : m.peer # p} ELSE net
    /\ UNCHANGED <<regions, targets, call, future, pending, drops, heard, refused, stop>>

(* A tick of a connected peer makes it a target, ...                       *)
PeerAlive(p) ==
    /\ Flaps /\ p \in link \ targets
    /\ targets' = targets \union {p}
    /\ UNCHANGED <<regions, link, call, future, pending, drops, net, heard, refused, stop>>

(* ... and one that cannot be heard stops being one (CheckLiveness).       *)
PeerDead(p) ==
    /\ p \in targets \ link
    /\ targets' = targets \ {p}
    /\ UNCHANGED <<regions, link, flaps, call, future, pending, drops, net, heard, refused, stop>>

AddPeer(p) ==
    /\ Flaps /\ p \notin regions
    /\ regions' = regions \union {p}
    /\ UNCHANGED <<targets, link, call, future, pending, drops, net, heard, refused, stop>>

(* A peer leaves: its health entry goes first (unregisterPeer).            *)
RemovePeer(p) ==
    /\ Flaps /\ p \in regions
    /\ regions' = regions \ {p} /\ targets' = targets \ {p}
    /\ UNCHANGED <<link, call, future, pending, drops, net, heard, refused, stop>>

----------------------------------------------------------------------------
Caller(c) ==
    \/ Replicate(c) \/ SetupDone(c) \/ Recheck(c) \/ Return(c) \/ SendOneWay(c)
    \/ ReplicateBody(c) \/ ReplicateBodySend(c) \/ ReplicateBodyStop(c)
    \/ \E p \in Peers : FanOutRegister(c, p) \/ FanOutSend(c, p) \/ SendCrossRegion(c, p)

Delivered(m) == \E o \in Outcomes : HandleNotify(m, o)
Answered(m) == HandleNotifyACK(m) \/ HandleNotifyACKWithData(m)
Sweeps(r) == SweepExpire(r) \/ SweepGiveUp(r) \/ SweepRetransmit(r)

Next ==
    \/ \E c \in Calls : Caller(c)
    \/ \E d \in drops : DropTest(d)
    \/ \E m \in net : Delivered(m) \/ Answered(m)
    \/ \E r \in pending : Sweeps(r)
    \/ Stop \/ SweepStop
    \/ \E p \in Peers : LinkChanges(p) \/ PeerAlive(p) \/ PeerDead(p) \/ AddPeer(p) \/ RemovePeer(p)

(* Goroutines run, streams are delivered and handled, the sweep visits     *)
(* every entry and the liveness check every peer.                          *)
Fairness ==
    /\ \A c \in Calls : WF_vars(Caller(c))
    /\ WF_vars(\E d \in drops : DropTest(d))
    /\ \A c \in Calls, p \in Peers :
          /\ WF_vars(Sweeps(<<c, p>>))
          /\ WF_vars(\E m \in net : m.call = c /\ m.peer = p /\ Delivered(m))
          /\ WF_vars(\E m \in net : m.call = c /\ m.peer = p /\ Answered(m))
    /\ WF_vars(SweepStop) /\ \A p \in Peers : WF_vars(PeerDead(p))

Spec == Init /\ [][Next]_vars
FairSpec == Spec /\ Fairness

----------------------------------------------------------------------------
(* A future counts no more peers out than it tracks.                       *)
TypeOK ==
    /\ pending \subseteq Calls \X Peers /\ targets \subseteq Peers /\ link \subseteq Peers
    /\ \A c \in Calls : future[c].dropped <= future[c].expected /\ future[c].expected <= Cardinality(Peers)

(* "It must not satisfy first-ACK semantics - wait for a real accepting    *)
(* peer" (HandleNotifyACKWithData): a call that succeeds was accepted by a *)
(* peer that was tracked for it.                                           *)
AckedByOne == \A c \in Calls : future[c].err = "ok" /\ Kind[c] # "oneway" => heard[c] \ Far # {}

(* Replicate fails only once every peer it tracks, registered by then or   *)
(* not, has been counted out.                                              *)
FailsWhenNoneIsLeft ==
    \A c \in Calls : future[c].err \in {"NoPeers", "AllNotSubscribed"} /\ Kind[c] = "replicate" =>
        call[c].todo = {} /\ Tracked(c) \subseteq Far

(* "We must NOT drop it: an un-replicated tip that a later effect depends  *)
(* on becomes an unrecoverable orphan" (Replicate): every peer a write was *)
(* tracked for hears of it, or has been declared dead meanwhile.           *)
HeardOrDead ==
    \A c \in Calls, p \in Peers \ Far : Kind[c] = "replicate" =>
        (p \in call[c].todo ~> p \in heard[c] \union refused[c] \/ p \notin targets)

(* "Blocks until at least one same-region peer ACKs or all tracked peers   *)
(* give up" (PeerManager.Replicate): every call returns.                   *)
EveryCallReturns == \A c \in Calls : call[c].pc # "idle" ~> call[c].pc = "return"

(* No request stays in the tracker for ever, and with it its packet.       *)
TrackerDrains == \A c \in Calls, p \in Peers : <<c, p>> \in pending ~> <<c, p>> \notin pending
==============================================================================
