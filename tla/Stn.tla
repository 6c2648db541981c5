-------------------------------- MODULE Stn --------------------------------
(***************************************************************************)
(* Simple temporal networks (package stn): points, and upper bounds on     *)
(* their differences, kept tight on the edges of a chordal graph.  A       *)
(* network is a value here; an operation whose outcome may depend on the   *)
(* order of a Go map gives the set of its outcomes.  The state is a        *)
(* network under the calls its owner makes, beside the constraints it has  *)
(* taken.                                                                  *)
(***************************************************************************)
EXTENDS Integers, Sequences, SequencesExt, FiniteSets, FiniteSetsExt

CONSTANTS
    Infinity,       \* math.MaxInt64
    Budget,         \* 1 << 60
    Starts,         \* the topologies New is called with, each with a number of points
    Weights,        \* the bounds asked for
    MaxPoints, MaxCalls

VARIABLES
    net,            \* the network
    given,          \* given[p]: the least bound taken for the pair
    calls

vars == <<net, given, calls>>

LesserOf(a, b) == IF a < b THEN a ELSE b

(* pathSum: what overflows counts as unbounded.                            *)
PathSum(a, b) == IF a = Infinity \/ b = Infinity \/ a + b > Infinity THEN Infinity ELSE a + b

(* A network: points 1..n, the bounds adj of its edges in both directions, *)
(* an elimination order and the largest bound taken.                       *)
Points(s) == 1..s.n
Edges(s) == DOMAIN s.adj
Neighbors(s, v) == {u \in Points(s) : <<v, u>> \in Edges(s)}
Rank(order, v) == CHOOSE i \in DOMAIN order : order[i] = v

(* WeightLimit: no path over n points sums to more than the budget.        *)
WeightLimit(n) == Budget \div (n + 1)

(* The visits by maximum cardinality that begin with start (the buckets    *)
(* of cardinality; a bucket is in no order to rely on).                    *)
Visits(s, start) ==
    LET Seen(p, i) == {p[j] : j \in 1..(i - 1)}
        Count(p, i, v) == Cardinality(Neighbors(s, v) \intersect Seen(p, i))
    IN {p \in {start \o q : q \in SetToSeqs(Points(s) \ Range(start))} :
            \A i \in (Len(start) + 1)..s.n : \A j \in i..s.n : Count(p, i, p[i]) >= Count(p, i, p[j])}

(* Every point's neighbours above it are linked with one another.          *)
Higher(s, order, v) == {u \in Neighbors(s, v) : Rank(order, u) > Rank(order, v)}

IsPerfect(s, order) ==
    \A v \in Points(s) :
        LET above == Higher(s, order, v)
            parent == CHOOSE u \in above : \A w \in above : Rank(order, u) <= Rank(order, w)
        IN above # {} => \A u \in above \ {parent} : <<parent, u>> \in Edges(s)

----------------------------------------------------------------------------
(* Mutant: only the end the path starts from is followed upwards. *)
RisingBoundForward(s, from, to) ==
    LET Visit(fwd, v) ==
            LET above == Higher(s, s.order, v) IN
            [u \in Points(s) |-> IF u \notin above THEN fwd[u]
                ELSE LesserOf(fwd[u], PathSum(fwd[v], s.adj[<<v, u>>]))]
    IN FoldLeft(Visit, [u \in Points(s) |-> IF u = from THEN 0 ELSE Infinity], s.order)[to]

(* upper: along edges that rise in the order, from both ends to a peak.    *)
RisingBound(s, from, to) ==
    LET Visit(d, v) ==
            LET above == Higher(s, s.order, v) IN
            [bound |-> LesserOf(d.bound, PathSum(d.fwd[v], d.bwd[v])),
             fwd |-> [u \in Points(s) |-> IF u \notin above THEN d.fwd[u]
                        ELSE LesserOf(d.fwd[u], PathSum(d.fwd[v], s.adj[<<v, u>>]))],
             bwd |-> [u \in Points(s) |-> IF u \notin above THEN d.bwd[u]
                        ELSE LesserOf(d.bwd[u], PathSum(d.bwd[v], s.adj[<<u, v>>]))]]
        begin == [bound |-> Infinity, fwd |-> [u \in Points(s) |-> IF u = from THEN 0 ELSE Infinity],
                  bwd |-> [u \in Points(s) |-> IF u = to THEN 0 ELSE Infinity]]
    IN FoldLeft(Visit, begin, s.order).bound

(* Upper and bounds.                                                       *)
Upper(s, from, to) ==
    IF from = to THEN 0 ELSE IF <<from, to>> \in Edges(s) THEN s.adj[<<from, to>>]
    ELSE RisingBound(s, from, to)

WithEdge(s, a, b) ==
    LET adj == [e \in Edges(s) \union {<<a, b>>, <<b, a>>} |->
                    IF e \in Edges(s) THEN s.adj[e] ELSE Upper(s, e[1], e[2])]
    IN [s EXCEPT !.adj = adj]

(* triangulate, where recognition fails: the point of least degree goes    *)
(* first and its neighbours are linked; the bounds of the fill are found   *)
(* in the old order.  Up to five points, one link at most is missing.      *)
Eliminated(s) ==
    LET Degree(t, gone, v) == Cardinality(Neighbors(t, v) \ gone)
        Turn(st, i) ==
            LET left == Points(s) \ Range(st.order)
                Less(u, v) == LET du == Degree(st.net, Range(st.order), u)
                                  dv == Degree(st.net, Range(st.order), v)
                              IN du < dv \/ (du = dv /\ u < v)
                v == CHOOSE u \in left : \A w \in left \ {u} : Less(u, w)
                around == Neighbors(st.net, v) \ Range(st.order)
                fill == {p \in around \X around : p[1] < p[2] /\ p \notin Edges(st.net)}
            IN [net |-> FoldSet(LAMBDA p, t : WithEdge(t, p[1], p[2]), st.net, fill),
                order |-> Append(st.order, v)]
        end == FoldLeft(Turn, [net |-> s, order |-> <<>>], [i \in 1..s.n |-> i])
    IN [end.net EXCEPT !.order = end.order]

(* chordalOrder and triangulate: a chordal graph takes the reverse of the  *)
(* visit, which begins with the last point, for its order.                 *)
Triangulated(s) ==
    {IF IsPerfect(s, Reverse(p)) THEN [s EXCEPT !.order = Reverse(p)] ELSE Eliminated(s) :
        p \in Visits(s, IF s.n = 0 THEN <<>> ELSE <<s.n>>)}

NewNetwork(n, topology) ==
    Triangulated([n |-> n, order |-> [i \in 1..n |-> i], maxInput |-> 0,
                  adj |-> [e \in topology \union {<<e[2], e[1]>> : e \in topology} |-> Infinity]])

(* AddPoint, refused when a bound taken before is too large for one more.  *)
AddPoint(s) ==
    IF s.maxInput > WeightLimit(s.n + 1) THEN {}
    ELSE {[s EXCEPT !.n = @ + 1, !.order = Append(@, s.n + 1)]}

(* Connect: an edge with the bounds that hold already.                     *)
Connect(s, a, b) ==
    IF a = b \/ <<a, b>> \in Edges(s) THEN {s} ELSE Triangulated(WithEdge(s, a, b))

(* What Constrain decides before it changes a bound, for an edge.          *)
Verdict(s, from, to, upper) ==
    CASE upper < -WeightLimit(s.n) \/ upper > WeightLimit(s.n) -> "weight"
      [] from = to -> IF upper < 0 THEN "inconsistent" ELSE "redundant"
      [] OTHER -> IF PathSum(upper, s.adj[<<to, from>>]) < 0 THEN "inconsistent"
                  ELSE IF upper >= s.adj[<<from, to>>] THEN "redundant" ELSE "tighten"

(* Constrain's visits: a point not yet seen learns how far it is from both *)
(* ends, an edge between points seen takes the bound through the new one.  *)
Tightened(s, from, to, upper) ==
    LET Visit(d, v) ==
            LET near == Neighbors(s, v)
                ahead == near \ d.seen
                Far(u, w) == PathSum(PathSum(d.fwd[u], upper), d.bwd[w])
            IN [seen |-> d.seen \union {v},
                fwd |-> [u \in Points(s) |-> IF u \notin ahead THEN d.fwd[u]
                            ELSE LesserOf(d.fwd[u], PathSum(d.adj[<<u, v>>], d.fwd[v]))],
                bwd |-> [u \in Points(s) |-> IF u \notin ahead THEN d.bwd[u]
                            ELSE LesserOf(d.bwd[u], PathSum(d.bwd[v], d.adj[<<v, u>>]))],
                adj |-> [e \in Edges(s) |->
                            IF v \notin {e[1], e[2]} \/ {e[1], e[2]} \subseteq ahead \union {v} THEN d.adj[e]
                            ELSE LesserOf(d.adj[e], Far(e[1], e[2]))]]
        begin == [seen |-> {}, adj |-> s.adj, fwd |-> [u \in Points(s) |-> IF u = from THEN 0 ELSE Infinity],
                  bwd |-> [u \in Points(s) |-> IF u = to THEN 0 ELSE Infinity]]
        maxInput == Max({s.maxInput, upper, -upper})
    IN {[s EXCEPT !.adj = FoldLeft(Visit, begin, p).adj, !.maxInput = maxInput] : p \in Visits(s, <<from, to>>)}

----------------------------------------------------------------------------
Init ==
    /\ \E start \in Starts : net \in NewNetwork(start.n, start.edges)
    /\ given = <<>> /\ calls = 0

(* The calls that change the network; one that is refused, or redundant,   *)
(* leaves it as it is.                                                     *)
Call == calls < MaxCalls /\ calls' = calls + 1

DoAddPoint ==
    /\ Call /\ net.n < MaxPoints /\ net' \in AddPoint(net) /\ UNCHANGED given

DoConnect(a, b) ==
    /\ Call /\ <<a, b>> \notin Edges(net) /\ a # b
    /\ net' \in Connect(net, a, b) /\ UNCHANGED given

DoConstrain(from, to, upper) ==
    /\ Call /\ <<from, to>> \in Edges(net)
    /\ Verdict(net, from, to, upper) = "tighten"
    /\ net' \in Tightened(net, from, to, upper)
    /\ given' = [p \in DOMAIN given \union {<<from, to>>} |-> IF p = <<from, to>> THEN upper ELSE given[p]]

Next ==
    \/ DoAddPoint
    \/ \E a, b \in Points(net) : DoConnect(a, b)
    \/ \E a, b \in Points(net), w \in Weights : DoConstrain(a, b, w)

Spec == Init /\ [][Next]_vars

----------------------------------------------------------------------------
(* The least sums over the constraints taken, by way of points 1..k.       *)
Distances ==
    LET Direct(p) == IF p[1] = p[2] THEN 0 ELSE IF p \in DOMAIN given THEN given[p] ELSE Infinity
        Plus(a, b) == IF a = Infinity \/ b = Infinity THEN Infinity ELSE a + b
        pairs == Points(net) \X Points(net)
        upto[k \in 0..net.n] ==
            IF k = 0 THEN [p \in pairs |-> Direct(p)]
            ELSE [p \in pairs |-> LesserOf(upto[k - 1][p], Plus(upto[k - 1][<<p[1], k>>], upto[k - 1][<<k, p[2]>>]))]
    IN upto[net.n]

(* Types; edges go both ways, and the order is one of all points.          *)
TypeOK ==
    /\ net.n \in 0..MaxPoints /\ Range(net.order) = Points(net) /\ Len(net.order) = net.n
    /\ \A e \in Edges(net) : e[1] # e[2] /\ <<e[2], e[1]>> \in Edges(net)

(* "order []int // perfect elimination order", which Upper goes up along:  *)
(* it stays one as edges are connected.                                    *)
OrderIsPerfect ==
    \A v \in Points(net) : \A a, b \in Higher(net, net.order, v) : a # b => <<a, b>> \in Edges(net)

(* "Contradictions are detected before mutation": a bound is refused when  *)
(* it closes a negative cycle of the constraints taken, and only then.     *)
RefusesContradictions ==
    LET shortest == Distances IN
    \A e \in Edges(net), w \in Weights :
        LET verdict == Verdict(net, e[1], e[2], w) IN
        verdict # "weight" => (verdict = "inconsistent" <=> w + shortest[<<e[2], e[1]>>] < 0)

(* "Upper returns the tight upper bound": of every pair, linked or not,    *)
(* the shortest path over the constraints taken.                           *)
UpperIsTight ==
    LET shortest == Distances IN
    \A a, b \in Points(net) : Upper(net, a, b) = shortest[<<a, b>>]

(* "every finite shortest-path bound is within V*maxInput (< 1<<60)": so   *)
(* no sum of the bounds wraps.                                             *)
BoundsFit ==
    \A e \in Edges(net) : net.adj[e] # Infinity => net.adj[e] \in (-Budget)..Budget
=============================================================================
