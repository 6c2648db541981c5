--------------------------- MODULE ElapsedClocks ---------------------------
(***************************************************************************)
(* What is known of the clocks of several nodes (stn/clocks.go): a network *)
(* with a point per node, which causal observations tighten, beside the    *)
(* true times.  Clocks tick at rates within the bound that is assumed of   *)
(* them; observations come in any order.                                   *)
(***************************************************************************)
EXTENDS Integers, FiniteSets

CONSTANTS
    Infinity, Budget,
    Domains,
    Million, PPM,   \* 1_000_000 and the rate error
    Unit, Steps,    \* parts of a tick that true time is told in, and passes in
    MaxSteps, MaxSamples

VARIABLES
    now, steps,     \* true time
    tick,           \* tick[d]: what clock d shows
    samples,        \* readings, each with the true time of it
    clocks,         \* Clocks: the network, and the point and tick of each node's anchor
    refused         \* whether an observation was refused

vars == <<now, steps, tick, samples, clocks, refused>>

(* The operations of a network; its owner here is Clocks.                  *)
Net == INSTANCE Stn WITH net <- clocks.net, given <- <<>>, calls <- 0,
    Starts <- {}, Weights <- {}, MaxPoints <- Cardinality(Domains), MaxCalls <- MaxSteps

CeilDiv(a, b) == (a + b - 1) \div b

(* elapsed: true time between two ticks of a clock, rounded outwards.      *)
Elapsed(t, anchor) ==
    LET d == t - anchor
        size == IF d < 0 THEN -d ELSE d
        low == (size * Million) \div (Million + PPM)
        high == CeilDiv(size * Million, Million - PPM)
    IN IF d < 0 THEN [lower |-> -high, upper |-> -low] ELSE [lower |-> low, upper |-> high]

(* anchor: a node's first reading is its point's.                          *)
Anchored(c, s) ==
    IF s.domain \in DOMAIN c.anchors THEN {c}
    ELSE {[net |-> n, anchors |-> [d \in DOMAIN c.anchors \union {s.domain} |->
                IF d = s.domain THEN [vertex |-> n.n, tick |-> s.tick] ELSE c.anchors[d]]] :
            n \in Net!AddPoint(c.net)}

(* The point of e is not much before that of p.                            *)
Bound(c, p, e) ==
    LET From(s) == IF s.domain \in DOMAIN c.anchors THEN c.anchors[s.domain].tick ELSE s.tick
    IN Elapsed(e.tick, From(e)).upper - Elapsed(p.tick, From(p)).lower

(* Before: the evidence with p before e; none when it is refused.          *)
Before(c, p, e) ==
    LET upper == Bound(c, p, e)
        known == {p.domain, e.domain} \subseteq DOMAIN c.anchors
        Take(n) ==
            LET from == n.anchors[e.domain].vertex
                to == n.anchors[p.domain].vertex
                After(m) == CASE Net!Verdict(m, from, to, upper) = "tighten" -> Net!Tightened(m, from, to, upper)
                              [] Net!Verdict(m, from, to, upper) = "redundant" -> {m}
                              [] OTHER -> {}
            IN UNION {After(m) : m \in Net!Connect(n.net, from, to)}
    IN IF p.domain = e.domain THEN {x \in {c} : p.tick <= e.tick}
       ELSE IF known /\ upper >= Net!Upper(c.net, c.anchors[e.domain].vertex, c.anchors[p.domain].vertex) THEN {c}
       ELSE UNION {{[n EXCEPT !.net = m] : m \in Take(n)} :
                n \in UNION {Anchored(n1, e) : n1 \in Anchored(c, p)}}

(* Difference: bounds on how much later b is than a.                       *)
Difference(c, a, b) ==
    IF a.domain = b.domain THEN Elapsed(b.tick, a.tick)
    ELSE IF ~{a.domain, b.domain} \subseteq DOMAIN c.anchors THEN [lower |-> -Infinity, upper |-> Infinity]
    ELSE LET va == c.anchors[a.domain]
             vb == c.anchors[b.domain]
             ea == Elapsed(a.tick, va.tick)
             eb == Elapsed(b.tick, vb.tick)
             ab == Net!Upper(c.net, va.vertex, vb.vertex)
             ba == Net!Upper(c.net, vb.vertex, va.vertex)
         IN [lower |-> IF ba = Infinity THEN -Infinity ELSE -(ba + ea.upper - eb.lower),
             upper |-> IF ab = Infinity THEN Infinity ELSE ab + eb.upper - ea.lower]

----------------------------------------------------------------------------
Init ==
    /\ now = 0 /\ steps = 0 /\ tick = [d \in Domains |-> 0] /\ samples = {} /\ refused = FALSE
    /\ clocks = [net |-> CHOOSE n \in Net!NewNetwork(0, {}) : TRUE, anchors |-> <<>>]

(* Readings are taken before the first observation: they commute with it.  *)
Untouched == clocks.anchors = <<>>

(* Time passes, on every clock at a rate within the bound.                 *)
Elapse ==
    /\ Untouched /\ steps < MaxSteps /\ steps' = steps + 1
    /\ \E t \in Steps :
        /\ now' = now + t
        /\ \E passed \in [Domains -> {d \in 0..t : (Million - PPM) * t <= d * Million * Unit
                                              /\ d * Million * Unit <= (Million + PPM) * t}] :
                tick' = [d \in Domains |-> tick[d] + passed[d]]
    /\ UNCHANGED <<samples, clocks, refused>>

(* A node stamps an effect.                                                *)
Stamp(d) ==
    /\ Untouched /\ Cardinality(samples) < MaxSamples
    /\ samples' = samples \union {[domain |-> d, tick |-> tick[d], at |-> now]}
    /\ UNCHANGED <<now, steps, tick, clocks, refused>>

(* An effect is seen to depend on another.                                 *)
Observe(p, e) ==
    /\ p.at <= e.at /\ p # e
    /\ LET next == Before(clocks, p, e) IN
        IF next = {} THEN refused' = TRUE /\ UNCHANGED clocks
        ELSE clocks' \in next /\ UNCHANGED refused
    /\ UNCHANGED <<now, steps, tick, samples>>

Next ==
    \/ Elapse
    \/ \E d \in Domains : Stamp(d)
    \/ \E p, e \in samples : Observe(p, e)

Spec == Init /\ [][Next]_vars

----------------------------------------------------------------------------
(* Types; an anchor per point.                                             *)
TypeOK ==
    /\ now \in Nat /\ steps \in 0..MaxSteps /\ tick \in [Domains -> Nat] /\ refused \in BOOLEAN
    /\ {clocks.anchors[d].vertex : d \in DOMAIN clocks.anchors} = Net!Points(clocks.net)

(* "A violated clock assumption supplies no numerical evidence": while the *)
(* assumption holds, no observation is refused, in whatever order they     *)
(* are made.                                                               *)
AcceptsTruth == ~refused

(* "Difference bounds T(b)-T(a)" and anchoring "never strengthens them":   *)
(* the true difference is within the bounds of every two readings.         *)
BoundsHold ==
    \A a, b \in samples :
        LET d == Difference(clocks, a, b) IN d.lower * Unit <= b.at - a.at /\ b.at - a.at <= d.upper * Unit
=============================================================================
