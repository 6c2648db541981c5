---------------------------- MODULE PeerLiveness ----------------------------
(***************************************************************************)
(* How a node tells a dead peer from a slow one.                           *)
(*                                                                         *)
(* The peer ticks once per interval, which it may retune; a tick takes up  *)
(* to MaxDelay, and up to MaxMisses in a row are missed.  The node keeps a *)
(* window of the gaps between arrivals and derives from it the timeout     *)
(* after which the sweep of CheckLiveness marks the peer dead.  The sweep  *)
(* and the handler of a tick share no lock: each reads the alive flag,     *)
(* then decides, then writes it.                                           *)
(*                                                                         *)
(* Time is discrete; a handler or sweep once begun ends before time moves. *)
(***************************************************************************)
EXTENDS Integers, Sequences, SequencesExt, FiniteSetsExt

CONSTANTS
    None,
    Interval,             \* the configured tick interval
    IntervalFloor, IntervalCeil,
    Targets,              \* the intervals the peer's round trip times suggest
    AdjustEvery,          \* ticks between two adjustments
    MaxDelay,
    MaxMisses,            \* ticks missed in a row
    MaxCrashes,
    MissedIntervals, MinTimeout, MaxTimeout,
    WindowSize, MinSamples,
    Cadence               \* a sweep at least this often

(* Gaps above Horizon are all the same to every timeout.                   *)
Horizon == MaxTimeout + Cadence + 1

VARIABLES
    since,      \* time since the last arrival (lastArrival), None before the first
    gaps,       \* interArrival, newest last
    alive,      \* the alive flag
    recovered,  \* OnPeerRecovered has been called since the peer was last dead
    handler,    \* None, or what the handler of a tick has read of the flag
    sweep,      \* "idle", or "dead": the flag is to be cleared
    swept,      \* time since the last sweep
    up,         \* the peer runs
    interval, toAdjust, \* the peer's interval, its ticks since the last adjustment
    phase,      \* time since the peer's last tick was due
    flight,     \* time the tick on its way has taken, or None
    missed,     \* ticks missed in a row
    crashes

vars == <<since, gaps, alive, recovered, handler, sweep, swept,
          up, interval, toAdjust, phase, flight, missed, crashes>>
peer == <<up, interval, toAdjust, phase, flight, missed, crashes>>

Init ==
    /\ since = None /\ gaps = <<>> /\ alive = FALSE /\ recovered = FALSE
    /\ handler = None /\ sweep = "idle" /\ swept = 0
    /\ up = TRUE /\ interval = Interval /\ toAdjust = 0 /\ phase = Interval
    /\ flight = None /\ missed = 0 /\ crashes = 0

----------------------------------------------------------------------------
Clamp(d, lo, hi) == IF d < lo THEN lo ELSE IF d > hi THEN hi ELSE d

(* clockWindow.quantile, of q hundredths.                                  *)
Quantile(w, q) == SortSeq(w, <)[1 + (q * (Len(w) - 1)) \div 100]

(* livenessTimeout, with the fallback of CheckLiveness.                    *)
Timeout ==
    IF Len(gaps) < MinSamples
    THEN Clamp(MissedIntervals * Interval, MinTimeout, MaxTimeout)
    ELSE LET median == Quantile(gaps, 50) IN
         Clamp(MissedIntervals * median + (Quantile(gaps, 99) - median), MinTimeout, MaxTimeout)

(* observeTick, as far as the gaps go.                                     *)
Observed ==
    LET w == IF Len(gaps) < WindowSize THEN gaps ELSE Tail(gaps) IN
    IF since = None THEN gaps ELSE Append(w, since)

(* The peer's sendLoop: a tick is due; it is sent, or missed.              *)
TickDue(miss) ==
    /\ up /\ phase = interval /\ flight = None
    /\ miss => missed < MaxMisses
    /\ flight' = IF miss THEN None ELSE 0
    /\ missed' = IF miss THEN missed + 1 ELSE missed
    /\ phase' = 0 /\ toAdjust' = IF toAdjust < AdjustEvery THEN toAdjust + 1 ELSE toAdjust
    /\ UNCHANGED <<since, gaps, alive, recovered, handler, sweep, swept, up, interval, crashes>>

(* adjustInterval, after a tick: at most a factor of two per step.         *)
AdjustInterval(rtt) ==
    LET next == Clamp(Clamp(rtt, IntervalFloor, IntervalCeil), interval \div 2, interval * 2) IN
    /\ up /\ phase = 0 /\ toAdjust >= AdjustEvery /\ next # interval
    /\ interval' = next /\ toAdjust' = 0
    /\ UNCHANGED <<since, gaps, alive, recovered, handler, sweep, swept,
                   up, phase, flight, missed, crashes>>

Crash ==
    /\ up /\ crashes < MaxCrashes
    /\ up' = FALSE /\ crashes' = crashes + 1 /\ flight' = None
    /\ UNCHANGED <<since, gaps, alive, recovered, handler, sweep, swept,
                   interval, toAdjust, phase, missed>>

Restart ==
    /\ ~up
    /\ up' = TRUE /\ phase' = Interval /\ interval' = Interval /\ toAdjust' = 0 /\ missed' = 0
    /\ UNCHANGED <<since, gaps, alive, recovered, handler, sweep, swept, flight, crashes>>

----------------------------------------------------------------------------
(* ProcessInboundTick: first the flag is read ...                          *)
TickArrives ==
    /\ flight # None /\ handler = None
    /\ handler' = [wasAlive |-> alive] /\ flight' = None /\ missed' = 0
    /\ UNCHANGED <<since, gaps, alive, recovered, sweep, swept, up, interval, toAdjust, phase, crashes>>

(* Mutant: a peer once marked dead is not marked alive by a tick. *)
TickHandledDead ==
    /\ handler # None
    /\ gaps' = Observed /\ since' = 0 /\ alive' = (handler.wasAlive \/ since = None)
    /\ recovered' = (recovered \/ ~handler.wasAlive)
    /\ handler' = None
    /\ UNCHANGED <<sweep, swept, peer>>

(* ... then the tick is observed, the flag set and the recovery announced. *)
TickHandled ==
    /\ handler # None
    /\ gaps' = Observed /\ since' = 0 /\ alive' = TRUE
    /\ recovered' = (recovered \/ ~handler.wasAlive)
    /\ handler' = None
    /\ UNCHANGED <<sweep, swept, peer>>

(* CheckLiveness, of this peer: a peer alive and heard of is measured ...  *)
CheckLiveness ==
    /\ sweep = "idle"
    /\ sweep' = IF alive /\ since # None /\ since > Timeout THEN "dead" ELSE "idle"
    /\ swept' = 0
    /\ UNCHANGED <<since, gaps, alive, recovered, handler, peer>>

(* ... and the flag cleared.                                               *)
MarkDead ==
    /\ sweep = "dead"
    /\ sweep' = "idle" /\ alive' = FALSE /\ recovered' = FALSE
    /\ UNCHANGED <<since, gaps, handler, swept, peer>>

Pass ==
    /\ handler = None /\ sweep = "idle" /\ swept < Cadence
    /\ flight # None => flight < MaxDelay
    /\ up => phase < interval
    /\ since' = IF since = None \/ since = Horizon THEN since ELSE since + 1
    /\ swept' = swept + 1
    /\ phase' = IF up THEN phase + 1 ELSE phase
    /\ flight' = IF flight = None THEN None ELSE flight + 1
    /\ UNCHANGED <<gaps, alive, recovered, handler, sweep, up, interval, toAdjust, missed, crashes>>

Next ==
    \/ \E miss \in BOOLEAN : TickDue(miss)
    \/ \E rtt \in Targets : AdjustInterval(rtt)
    \/ Crash \/ Restart
    \/ TickArrives \/ TickHandled \/ CheckLiveness \/ MarkDead \/ Pass

(* Time and the peer's clock move on, its messages arrive in time and the  *)
(* two loops of the heartbeat manager keep running.                        *)
Fairness ==
    /\ WF_vars(Pass) /\ WF_vars(TickDue(FALSE)) /\ WF_vars(TickArrives)
    /\ WF_vars(TickHandled) /\ WF_vars(CheckLiveness) /\ WF_vars(MarkDead)

Spec == Init /\ [][Next]_vars /\ Fairness

----------------------------------------------------------------------------
(* A measured gap is one the sampled window can hold.                      *)
TypeOK ==
    /\ Len(gaps) <= WindowSize /\ \A i \in DOMAIN gaps : gaps[i] \in 0 .. Horizon
    /\ since \in {None} \union (0 .. Horizon) /\ interval \in IntervalFloor .. IntervalCeil

(* "A single missed tick never trips detection" (CheckLiveness): a peer    *)
(* that was heard and runs, with no two ticks missed in a row, stays alive.*)
OneMissKeepsAlive == since # None /\ crashes = 0 /\ missed <= 1 => alive

(* A silent peer is marked dead within MaxTimeout and one sweep, whatever  *)
(* gaps were measured before (livenessTimeout's clamp).                    *)
SilentIsDead ==
    since # None /\ since > MaxTimeout + Cadence /\ handler = None => ~alive

(* A peer that keeps ticking, and whose ticks are no longer missed, is in  *)
(* the end alive for good, even after false alarms (ProcessInboundTick).   *)
UpIsAlive == <>[](up /\ missed = 0) => <>[]alive
==============================================================================
