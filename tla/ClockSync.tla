------------------------------ MODULE ClockSync ------------------------------
(***************************************************************************)
(* What two nodes learn of each other's clocks from their heartbeats.      *)
(*                                                                         *)
(* A tick carries a sequence number, the sender's wall clock, a flag when  *)
(* that clock was seen to step, and the sender's last observation of the   *)
(* receiver's ticks.  Arrival minus send time is a sample of one           *)
(* direction, an echoed observation minus the send time remembered in the  *)
(* ring of own ticks a sample of the other; the minima of the two windows  *)
(* give the round trip time, in which the skew cancels, and the skew.      *)
(*                                                                         *)
(* Time is discrete; a tick takes MinDelay to MaxDelay.  Faults says       *)
(* whether ticks are lost or overtake each other and whether a connection  *)
(* is made anew, with a tick of its own outside the regular series.        *)
(***************************************************************************)
EXTENDS Integers, Sequences, SequencesExt, FiniteSetsExt

CONSTANTS
    Nodes, Peer,          \* two nodes; Peer[n] is the other one
    Skews,                \* Skews[n]: by how much n's wall clock is ahead at first
    MinDelay, MaxDelay,
    WindowSize,
    Jumps,                \* the steps a wall clock may take
    Jumpers,              \* the nodes whose clock may step, once
    Faults,               \* any of "loss", "overtaking", "reconnect"
    Observers,            \* the nodes whose measurements are looked at
    MaxTicks, MaxNow      \* bounds on the ticks of each node and on time

NoObs == [seq |-> 0, at |-> 0]

VARIABLES
    now,
    skew,     \* skew[n]: wall clock minus true time
    seq,      \* seq[n]: the last tick n made
    ring,     \* ring[n]: ownTicks, by slot
    obs,      \* obs[n]: pendingObs, n's last observation of its peer
    in, out,  \* in[n], out[n]: offsetIn and offsetOut, newest last
    stepped,  \* stepped[n]: the step since n's last regular tick
    started,  \* the nodes that made a regular tick
    jumped,   \* the nodes whose clock has stepped
    net       \* ticks on their way

vars == <<now, skew, seq, ring, obs, in, out, stepped, started, jumped, net>>

Wall(n) == now + skew[n]

Init ==
    /\ now = 0 /\ skew = Skews
    /\ seq = [n \in Nodes |-> 0]
    /\ ring = [n \in Nodes |-> [s \in 0 .. WindowSize - 1 |-> [seq |-> 0, wall |-> 0]]]
    /\ obs = [n \in Nodes |-> NoObs]
    /\ in = [n \in Nodes |-> <<>>] /\ out = [n \in Nodes |-> <<>>]
    /\ stepped = [n \in Nodes |-> 0] /\ started = {}
    /\ jumped = {} /\ net = {}

----------------------------------------------------------------------------

(* clockWindow.push: the oldest sample makes room.                         *)
Push(w, v) == IF Len(w) < WindowSize THEN Append(w, v) ELSE Append(Tail(w), v)
MinOf(w) == Min(Range(w))

(* tickRing.put.                                                           *)
RingPut(n, s, wall) == [ring EXCEPT ![n][s % WindowSize] = [seq |-> s, wall |-> wall]]

(* tickRing.get: a slot that was reused misses.                            *)
RingHas(n, s) == s # 0 /\ ring[n][s % WindowSize].seq = s

Tick(n, jump, o) ==
    [from |-> n, seq |-> seq[n] + 1, wall |-> Wall(n), jump |-> jump, obs |-> o, sent |-> now]

(* sendTick: the step of the wall clock against the monotonic one is       *)
(* flagged, and the pending observation drained.                           *)
SendTick(n) ==
    /\ seq[n] < MaxTicks[n]
    /\ net' = net \union {Tick(n, stepped[n], obs[n])}
    /\ seq' = [seq EXCEPT ![n] = @ + 1]
    /\ ring' = RingPut(n, seq[n] + 1, Wall(n))
    /\ stepped' = [stepped EXCEPT ![n] = 0] /\ started' = started \union {n}
    /\ obs' = [obs EXCEPT ![n] = NoObs]
    /\ UNCHANGED <<now, skew, in, out, jumped>>

(* SendTickTo on a new connection: no observation, no look at the clock.   *)
SendTickTo(n) ==
    /\ seq[n] < MaxTicks[n] /\ "reconnect" \in Faults
    /\ net' = net \union {Tick(n, 0, NoObs)}
    /\ seq' = [seq EXCEPT ![n] = @ + 1]
    /\ ring' = RingPut(n, seq[n] + 1, Wall(n))
    /\ UNCHANGED <<now, skew, obs, in, out, stepped, started, jumped>>

(* Mutant: a flagged step is logged and the samples are kept. *)
ObservedInKept(n, t) == Push(in[n], Wall(n) - t.wall)

(* observeTick: the windows an arriving tick leaves.                       *)
ObservedIn(n, t) == Push(IF t.jump # 0 THEN <<>> ELSE in[n], Wall(n) - t.wall)

ResetOut(n, t) == IF t.jump # 0 THEN <<>> ELSE out[n]

(* The echo of an own tick, when the ring still knows it (observeEcho).    *)
ObservedOut(n, t) ==
    IF RingHas(n, t.obs.seq)
    THEN Push(ResetOut(n, t), t.obs.at - ring[n][t.obs.seq % WindowSize].wall)
    ELSE ResetOut(n, t)

(* ProcessInboundTick.                                                     *)
ProcessInboundTick(t) ==
    LET n == Peer[t.from] IN
    /\ t \in net /\ now - t.sent >= MinDelay
    /\ "overtaking" \notin Faults => \A u \in net : u.from = t.from => t.seq <= u.seq
    /\ net' = net \ {t}
    /\ in' = [in EXCEPT ![n] = ObservedIn(n, t)]
    /\ out' = [out EXCEPT ![n] = ObservedOut(n, t)]
    /\ obs' = [obs EXCEPT ![n] = [seq |-> t.seq, at |-> Wall(n)]]
    /\ UNCHANGED <<now, skew, seq, ring, stepped, started, jumped>>

(* RemovePeer, then AddPeer: a new health entry with empty windows.        *)
Reregister(n) ==
    /\ in[n] # <<>> /\ "reconnect" \in Faults
    /\ in' = [in EXCEPT ![n] = <<>>] /\ out' = [out EXCEPT ![n] = <<>>]
    /\ obs' = [obs EXCEPT ![n] = NoObs]
    /\ UNCHANGED <<now, skew, seq, ring, stepped, started, jumped, net>>

(* A send that fails, or a tick the network drops.                         *)
Lost(t) ==
    /\ t \in net /\ "loss" \in Faults
    /\ net' = net \ {t}
    /\ UNCHANGED <<now, skew, seq, ring, obs, in, out, stepped, started, jumped>>

(* A clock step, large enough to be told from drift; the first regular     *)
(* tick has nothing to be compared with.                                   *)
Jump(n, by) ==
    /\ n \in Jumpers \ jumped
    /\ skew' = [skew EXCEPT ![n] = @ + by]
    /\ stepped' = IF n \in started THEN [stepped EXCEPT ![n] = @ + by] ELSE stepped
    /\ jumped' = jumped \union {n}
    /\ UNCHANGED <<now, started, seq, ring, obs, in, out, net>>

(* Time passes, but not past the delay of a tick on its way.               *)
Pass ==
    /\ now < MaxNow /\ \A t \in net : now - t.sent < MaxDelay
    /\ now' = now + 1
    /\ UNCHANGED <<skew, seq, ring, obs, in, out, stepped, started, jumped, net>>

Next ==
    \/ \E n \in Nodes : SendTick(n) \/ SendTickTo(n) \/ Reregister(n)
    \/ \E n \in Nodes, by \in Jumps : Jump(n, by)
    \/ \E t \in net : ProcessInboundTick(t) \/ Lost(t)
    \/ Pass

Spec == Init /\ [][Next]_vars

----------------------------------------------------------------------------
Sampled(n) == in[n] # <<>> /\ out[n] # <<>>
RTT(n) == Max({MinOf(in[n]) + MinOf(out[n]), 0})
Primed(n) == Sampled(n) /\ RTT(n) > 0

TwiceSkewEst(n) == MinOf(out[n]) - MinOf(in[n])
Abs(x) == IF x < 0 THEN -x ELSE x

(* An echo is always of a tick that was sent, and windows keep their size. *)
TypeOK ==
    \A n \in Nodes :
        /\ Len(in[n]) <= WindowSize /\ Len(out[n]) <= WindowSize
        /\ obs[n].seq <= seq[Peer[n]]

(* "RTTMin is skew-free" (ClockStats): once both directions are sampled,   *)
(* the round trip time is one the path can have, whatever the clocks say.  *)
RTTSkewFree ==
    \A n \in Observers : Sampled(n) => RTT(n) >= 2 * MinDelay /\ RTT(n) <= 2 * MaxDelay

(* "SkewEst carries an error of at most half the path asymmetry            *)
(* (<= RTTMin/2)" (ClockStats), here with both sides doubled.              *)
SkewWithinBound ==
    \A n \in Observers : Primed(n) =>
        Abs(TwiceSkewEst(n) - 2 * (skew[Peer[n]] - skew[n])) <= RTT(n)

(* "pre- and post-jump samples carry different skews, and a min-filter     *)
(* over the mixture corrupts both SkewEst and RTTMin" (observeTick): the   *)
(* samples of one direction differ by delays only, never by a clock step.  *)
InOneSkew ==
    \A n \in Observers : in[n] # <<>> =>
        Max(Range(in[n])) - MinOf(in[n]) <= MaxDelay - MinDelay
==============================================================================
