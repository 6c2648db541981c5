----------------------------- MODULE BindCommit -----------------------------
(***************************************************************************)
(* The commit protocol of transactions: Context.flushTx on the node a      *)
(* transaction runs on, Engine.HandleRemote on the nodes that subscribe to *)
(* its keys, and the NACKs that travel back.                               *)
(*                                                                         *)
(* A transaction writes one data effect per key and then a bind, which     *)
(* names for every key the tips it consumed and the tip it made.  The bind *)
(* is sent to every subscriber.  A subscriber that knows of other tips     *)
(* answers with them (a NACK); the originator decides on the answers: a    *)
(* concurrent bind with a lower fork-choice hash makes it abort, one with  *)
(* a higher hash is beaten and is called LOST in the verdict snapshot the  *)
(* originator publishes when it commits.                                   *)
(*                                                                         *)
(* Every node subscribes to every key and every effect can be fetched, so  *)
(* an effect is known by its identity and `deps`.  The steps of one        *)
(* flushTx are separate actions wherever other threads of the node can run *)
(* between them.                                                           *)
(***************************************************************************)
EXTENDS Naturals, FiniteSets, SequencesExt

CONSTANTS
    Nodes,      \* the members of the cluster
    Keys,
    Txns,       \* transactions
    Writes,     \* non-transactional writes
    Origin,     \* Origin[x]: the node that runs transaction or write x
    KeysOf,     \* KeysOf[x]: the keys x touches
    KeyOrder,   \* the keys in byte order
    Hashes      \* the orders of the fork-choice hashes to consider

Base(k)    == <<"base", k>>
Data(x, k) == <<"data", x, k>>
Bind(x)    == <<"bind", x>>
Snap(x, k) == <<"snap", x, k>>

(***************************************************************************)
(* An answer to a bind: none yet, none in time, or the tips of each key    *)
(* that diverged (none diverged: an ACK).                                  *)
(***************************************************************************)
NoReply  == [status |-> "none", nack |-> [k \in Keys |-> {}]]
TimedOut == [status |-> "failed", nack |-> [k \in Keys |-> {}]]

Effects ==
    {Base(k) : k \in Keys}
      \cup {Data(x, k) : x \in Txns \cup Writes, k \in Keys}
      \cup {Bind(x) : x \in Txns}
      \cup {Snap(x, k) : x \in Txns, k \in Keys}

IsBind(e)   == e[1] = "bind"
IsSnap(e)   == e[1] = "snap"
IsTxData(e) == e[1] = "data" /\ e[2] \in Txns
IsPlain(e)  == e[1] = "data" /\ e[2] \in Writes

Canonical(x) == Head(SelectSeq(KeyOrder, LAMBDA k : k \in KeysOf[x]))

(***************************************************************************)
(* State.                                                                  *)
(***************************************************************************)
VARIABLES
    hash,       \* ForkChoiceHash of each bind: any order (SHA-256 of node and clock)
    deps,       \* deps[e]: Effect.Deps
    consumed,   \* consumed[x][k]: KeyBind.ConsumedTips
    abortDeps,  \* abortDeps[x]: TransactionalBindEffect.AbortDeps
    beaten,     \* beaten[x]: the transactions that x's verdict snapshots call LOST
    index,      \* index[n][k]: the tips of k at node n
    pendingTx,  \* pendingTx[n]: Engine.pendingTxTips, a tip and its deps before the transaction
    groups,     \* groups[n]: HorizonSet.groups; members wait, binds link them
    heard,      \* heard[n]: the remote binds in spokenBinds
    halfway,    \* halfway[n]: remote binds HandleRemote stored but did not index yet
    pc,         \* pc[x]: where flushTx (or flushNonTx) is
    todo,       \* todo[x]: the keys flushTx has still to publish, in map order
    initial,    \* initial[x][k]: contextKey.initialTips
    state,      \* state[x]: pendingTxn.state
    net,        \* effects on their way to a node
    reply,      \* reply[x][n]: n's answer to the bind of x
    crossed     \* history: transactions that met a bind after their check (see Crossing)

effectVars == <<hash, deps, consumed, abortDeps, beaten>>
nodeVars   == <<index, pendingTx, groups, heard, halfway>>
txVars     == <<pc, todo, initial, state, reply, crossed>>
vars       == <<effectVars, nodeVars, txVars, net>>

-----------------------------------------------------------------------------
(* The DAG *)

(***************************************************************************)
(* What can be reached from S by following succ.                           *)
(***************************************************************************)
Closure(S, succ(_)) ==
    LET grow[T \in SUBSET DOMAIN deps] ==
            LET U == T \cup UNION {succ(e) : e \in T} IN IF U = T THEN T ELSE grow[U]
    IN  grow[S]

Reach(S) == Closure(S, LAMBDA e : deps[e])

(***************************************************************************)
(* keyDeps: a bind leads only to its new tip on the key.                   *)
(***************************************************************************)
keyDeps(k, e) ==
    IF IsBind(e) THEN {Data(e[2], j) : j \in KeysOf[e[2]] \cap {k}} ELSE deps[e]

ReachOn(k, S) ==
    Closure(S, LAMBDA e : IF IsBind(e) \/ e[Len(e)] = k THEN keyDeps(k, e) ELSE {})

(***************************************************************************)
(* bindsShareBase.                                                         *)
(***************************************************************************)
bindsShareBase(x, y) == \E k \in KeysOf[x] \cap KeysOf[y] : consumed[x][k] \cap consumed[y][k] # {}

(***************************************************************************)
(* lookupSnapshotVerdict: what the snapshots on the key call LOST.         *)
(***************************************************************************)
VerdictLost(n, k) ==
    UNION {beaten[e[2]] : e \in {d \in ReachOn(k, index[n][k]) : IsSnap(d)}}

-----------------------------------------------------------------------------
(* One node: tips, pending tips and the horizon, as a record that a thread *)
(* changes in steps                                                        *)

Engine(n) == [index |-> index[n], pending |-> pendingTx[n], groups |-> groups[n]]

Install(n, s) ==
    /\ index' = [index EXCEPT ![n] = s.index]
    /\ pendingTx' = [pendingTx EXCEPT ![n] = s.pending]
    /\ groups' = [groups EXCEPT ![n] = s.groups]

(***************************************************************************)
(* updateIndex: drop the consumed tips, keep the others, add the new one.  *)
(***************************************************************************)
(* Mutant: concurrent tips are overwritten. *)
updateIndexReplacing(s, k, gone, e) == [s EXCEPT !.index[k] = {e}]

updateIndex(s, k, gone, e) == [s EXCEPT !.index[k] = (@ \ gone) \cup {e}]

(***************************************************************************)
(* pendingTxTips.Store and Delete.                                         *)
(***************************************************************************)
StorePending(s, e, before) ==
    [s EXCEPT !.pending = [d \in DOMAIN @ \cup {e} |-> IF d = e THEN before ELSE @[d]]]

DeletePending(s, tips) == [s EXCEPT !.pending = RestrictDomain(@, LAMBDA e : e \notin tips)]

NewTips(xs) == {Data(x, k) : x \in xs, k \in Keys}

(***************************************************************************)
(* HorizonSet.Add joins the groups that compete with the bind; MakeVisible *)
(* releases the whole group and its pending tips; Abort removes the one.   *)
(***************************************************************************)
HorizonAdd(s, x) ==
    LET linked == {g \in s.groups : \E y \in g.binds : bindsShareBase(x, y)}
        joined == [members |-> UNION {g.members : g \in linked} \cup {x},
                   binds   |-> UNION {g.binds : g \in linked} \cup {x}]
    IN  IF \E g \in s.groups : x \in g.members
        THEN s
        ELSE [s EXCEPT !.groups = (@ \ linked) \cup {joined}]

MakeVisible(s, xs) ==
    LET done == {g \in s.groups : g.members \cap xs # {}}
    IN  DeletePending([s EXCEPT !.groups = @ \ done], NewTips(UNION {g.members : g \in done}))

HorizonAbort(s, x) ==
    LET left == {[g EXCEPT !.members = @ \ {x}] : g \in s.groups}
    IN  IF \E g \in s.groups : x \in g.members
        THEN DeletePending([s EXCEPT !.groups = {g \in left : g.members # {}}], NewTips({x}))
        ELSE s

Invisible(n) == UNION {g.members : g \in groups[n]}

(***************************************************************************)
(* resolveTipDeps: a tip of a transaction in progress stands for what lay  *)
(* below it before, unless nothing did.                                    *)
(***************************************************************************)
resolveTipDeps(n, tips) ==
    LET Below(e) == IF e \in DOMAIN pendingTx[n] THEN pendingTx[n][e] ELSE {}
    IN  {e \in Closure(tips, Below) : Below(e) = {}}

(***************************************************************************)
(* A read of the key waits while it meets a bind that is not visible.      *)
(***************************************************************************)
ReadClear(n, k) == \A x \in Invisible(n) : Bind(x) \notin ReachOn(k, index[n][k])

Others(n) == Nodes \ {n}

Send(es, n) == {<<e, m>> : e \in es, m \in Others(n)}

-----------------------------------------------------------------------------
Init ==
    /\ hash \in Hashes
    /\ deps = [e \in Effects |-> {}]
    /\ consumed = [x \in Txns |-> [k \in Keys |-> {}]]
    /\ abortDeps = [x \in Txns |-> {}]
    /\ beaten = [x \in Txns |-> {}]
    /\ index = [n \in Nodes |-> [k \in Keys |-> {Base(k)}]]
    /\ pendingTx = [n \in Nodes |-> << >>]
    /\ groups = [n \in Nodes |-> {}]
    /\ heard = [n \in Nodes |-> {}]
    /\ halfway = [n \in Nodes |-> {}]
    /\ pc = [x \in Txns \cup Writes |-> "idle"]
    /\ todo = [x \in Txns |-> << >>]
    /\ initial = [x \in Txns \cup Writes |-> [k \in Keys |-> {}]]
    /\ state = [x \in Txns |-> "pending"]
    /\ net = {}
    /\ reply = [x \in Txns |-> [n \in Nodes |-> NoReply]]
    /\ crossed = {}

-----------------------------------------------------------------------------
(* flushTx *)

(***************************************************************************)
(* BeginTx and the writes: the tips read for each key become initialTips   *)
(* and, without tips of transactions in progress, the deps of the effect.  *)
(***************************************************************************)
Begin(x) ==
    LET n == Origin[x]
    IN  /\ pc[x] = "idle"
        /\ \A k \in KeysOf[x] : ReadClear(n, k)
        /\ initial' = [initial EXCEPT ![x] = [k \in Keys |-> IF k \in KeysOf[x] THEN index[n][k] ELSE {}]]
        /\ deps' = [e \in DOMAIN deps |-> IF e \in {Data(x, k) : k \in KeysOf[x]}
                                      THEN resolveTipDeps(n, index[n][e[3]]) ELSE deps[e]]
        /\ pc' = [pc EXCEPT ![x] = "begun"]
        /\ UNCHANGED <<hash, consumed, abortDeps, beaten, nodeVars, todo, state, reply, crossed, net>>

Own(x) == {Data(x, k) : k \in KeysOf[x]}

GiveUp(x, tips) ==
    /\ Install(Origin[x], DeletePending(Engine(Origin[x]), tips))
    /\ pc' = [pc EXCEPT ![x] = "done"]
    /\ state' = [state EXCEPT ![x] = "aborted"]
    /\ UNCHANGED <<effectVars, heard, halfway, todo, initial, reply, crossed, net>>

Proceed(x, step) ==
    /\ pc' = [pc EXCEPT ![x] = step]
    /\ UNCHANGED <<hash, deps, beaten, nodeVars, initial, state, reply, crossed, net>>

(***************************************************************************)
(* Before anything is published: the tips read are still the tips, and     *)
(* every bind heard of that consumed one of them is in our past.           *)
(***************************************************************************)
SpokenBinds(x) ==
    {y \in heard[Origin[x]] :
        \E k \in KeysOf[x] : initial[x][k] \cap UNION {consumed[y][j] : j \in KeysOf[y]} # {}}

Stale(x) ==
    \/ \E k \in KeysOf[x] : initial[x][k] \notin {{}, index[Origin[x]][k]}
    \/ \E y \in SpokenBinds(x) : Bind(y) \notin Reach(Own(x))

Preflight(x) ==
    /\ pc[x] = "begun"
    /\ IF Stale(x) THEN GiveUp(x, Own(x))
                   ELSE /\ todo' \in {[todo EXCEPT ![x] = order] : order \in SetToSeqs(KeysOf[x])}
                        /\ Proceed(x, "publishing") /\ UNCHANGED <<consumed, abortDeps>>

(***************************************************************************)
(* Step 1, key by key: the data effect becomes a tip, and then it is       *)
(* marked as in progress and broadcast.                                    *)
(***************************************************************************)
PublishTip(x) ==
    LET k == Head(todo[x])
    IN  /\ pc[x] = "publishing"
        /\ Install(Origin[x], updateIndex(Engine(Origin[x]), k, initial[x][k], Data(x, k)))
        /\ pc' = [pc EXCEPT ![x] = "marking"]
        /\ UNCHANGED <<effectVars, heard, halfway, todo, initial, state, reply, crossed, net>>

MarkTip(x) ==
    LET k == Head(todo[x])
    IN  /\ pc[x] = "marking"
        /\ Install(Origin[x], StorePending(Engine(Origin[x]), Data(x, k), initial[x][k]))
        /\ net' = net \cup Send({Data(x, k)}, Origin[x])
        /\ todo' = [todo EXCEPT ![x] = Tail(@)]
        /\ pc' = [pc EXCEPT ![x] = IF todo'[x] = << >> THEN "published" ELSE "publishing"]
        /\ UNCHANGED <<effectVars, heard, halfway, initial, state, reply, crossed>>

(***************************************************************************)
(* Step 1.5: a tip that is not ours on any key is a concurrent write.      *)
(***************************************************************************)
Validate(x) ==
    /\ pc[x] = "published"
    /\ IF \E k \in KeysOf[x] : index[Origin[x]][k] \ Own(x) # {}
       THEN GiveUp(x, Own(x))
       ELSE Proceed(x, "valid") /\ UNCHANGED <<consumed, abortDeps, todo>>

CompetingBind(n, x, base) ==
    \E k \in KeysOf[x] :
        LET past     == Reach(base[k])
            Walk(e)  == IF IsBind(e) THEN keyDeps(k, e) \cap past ELSE deps[e]
            Bound(e) == IF IsBind(e) THEN keyDeps(k, e) ELSE {}
        IN  \E e \in Closure(index[n][k], Walk) : Bound(e) \ past # {}

(***************************************************************************)
(* Steps 2 and 3: the bind names the foreign tips in progress it would     *)
(* abort and, for each key, the committed tips it consumes.  If a          *)
(* competing bind is known it is not published.  The pending tips are then *)
(* left behind (they are deleted only without a horizon).                  *)
(***************************************************************************)
Check(x) ==
    LET n    == Origin[x]
        base == [k \in Keys |-> resolveTipDeps(n, initial[x][k])]
    IN  /\ pc[x] = "valid"
        /\ IF CompetingBind(n, x, base)
           THEN GiveUp(x, {})
           ELSE /\ consumed' = [consumed EXCEPT ![x] = base]
                /\ abortDeps' = [abortDeps EXCEPT ![x] =
                     UNION {index[n][k] \cap DOMAIN pendingTx[n] : k \in KeysOf[x]} \ Own(x)]
                /\ Proceed(x, "checked") /\ UNCHANGED todo

(***************************************************************************)
(* History: the bind of x becomes a tip at n after a transaction of n had  *)
(* checked for competing binds and before its own bind is a tip.           *)
(***************************************************************************)
Crossing(n, x) ==
    crossed' = crossed \cup {y \in Txns \ {x} : Origin[y] = n /\ pc[y] = "checked"}

(***************************************************************************)
(* The bind is minted and replaces the data tip on every key.              *)
(***************************************************************************)
EmitBind(x) ==
    LET n == Origin[x]
        Put(k, s) == updateIndex(s, k, {Data(x, k)}, Bind(x))
    IN  /\ pc[x] = "checked"
        /\ deps' = [deps EXCEPT ![Bind(x)] = Own(x)]
        /\ Install(n, FoldSet(Put, Engine(n), KeysOf[x]))
        /\ pc' = [pc EXCEPT ![x] = "bound"]
        /\ Crossing(n, x)
        /\ UNCHANGED <<hash, consumed, abortDeps, beaten, heard, halfway, todo, initial, state, reply,
                       net>>

(***************************************************************************)
(* evaluateBindForkChoice: a bind among the tips that shares our base and  *)
(* has the lower hash, or a plain write that is not in our past or future, *)
(* voids the bind.                                                         *)
(***************************************************************************)
Voided(n, x) ==
    \E k \in KeysOf[x] : \E e \in index[n][k] \ {Bind(x)} :
        \/ /\ IsBind(e) /\ bindsShareBase(x, e[2])
           /\ e[2] \notin VerdictLost(n, k)
           /\ hash[e[2]] < hash[x]
        \/ /\ IsPlain(e) /\ e \notin consumed[x][k]
           /\ Reach({e}) \cap {Bind(x), Data(x, k)} = {}

Evaluate(x) ==
    /\ pc[x] = "bound"
    /\ IF Voided(Origin[x], x)
       THEN GiveUp(x, Own(x))
       ELSE Proceed(x, "evaluated") /\ UNCHANGED <<consumed, abortDeps, todo>>

(***************************************************************************)
(* Steps 4 and 5: the transaction waits for answers.  Without subscribers  *)
(* it commits at once.                                                     *)
(***************************************************************************)
Register(x) ==
    LET n == Origin[x]
    IN  /\ pc[x] = "evaluated"
        /\ IF Others(n) = {}
           THEN /\ state' = [state EXCEPT ![x] = "committed"]
                /\ pc' = [pc EXCEPT ![x] = "returning"]
                /\ UNCHANGED <<index, pendingTx, groups, net>>
           ELSE /\ Install(n, HorizonAdd(Engine(n), x))
                /\ net' = net \cup Send({Bind(x)}, n)
                /\ pc' = [pc EXCEPT ![x] = "waiting"]
                /\ UNCHANGED state
        /\ UNCHANGED <<effectVars, heard, halfway, todo, initial, reply, crossed>>

-----------------------------------------------------------------------------
(* HandleRemote *)

(***************************************************************************)
(* A data effect: marked in progress when it belongs to a transaction; its *)
(* deps stop being tips.  A verdict snapshot first ends the horizon wait   *)
(* of the transactions it decides on.                                      *)
(***************************************************************************)
Decides(e) == IF IsSnap(e) THEN {e[2]} \cup beaten[e[2]] ELSE {}

Ingested(s, e) ==
    LET seen == MakeVisible(s, Decides(e))
    IN  updateIndex(IF IsTxData(e) THEN StorePending(seen, e, deps[e]) ELSE seen,
                    e[Len(e)], deps[e], e)

Deliver(n, e) ==
    /\ <<e, n>> \in net
    /\ ~IsBind(e)
    /\ Install(n, Ingested(Engine(n), e))
    /\ net' = net \ {<<e, n>>}
    /\ UNCHANGED <<effectVars, heard, halfway, txVars>>

(***************************************************************************)
(* A bind, first half (handleRemoteBind): it is held invisible, the tips   *)
(* it aborts are dropped together with a local transaction that waits with *)
(* one of them, and the bind is remembered as spoken for.                  *)
(***************************************************************************)
Waiting(n) == {y \in Txns : Origin[y] = n /\ pc[y] \in {"waiting", "verdict", "returning"}}

HearBind(n, x) ==
    /\ <<Bind(x), n>> \in net
    /\ Install(n, DeletePending(HorizonAdd(Engine(n), x), abortDeps[x]))
    /\ state' = [y \in Txns |-> IF /\ y \in Waiting(n) /\ state[y] = "pending"
                                   /\ abortDeps[x] \cap Own(y) # {}
                                THEN "aborted" ELSE state[y]]
    /\ heard' = [heard EXCEPT ![n] = @ \cup {x}]
    /\ halfway' = [halfway EXCEPT ![n] = @ \cup {x}]
    /\ net' = net \ {<<Bind(x), n>>}
    /\ UNCHANGED <<effectVars, pc, todo, initial, reply, crossed>>

IndexedBind(s, x) ==
    LET Put(k, t) == updateIndex(t, k, IF k = Canonical(x) THEN {Data(x, k)} ELSE {}, Bind(x))
    IN  FoldSet(Put, s, KeysOf[x])

(* Mutant: foreign binds are not reported. *)
DivergedIgnoringBinds(tips, x, k) ==
    {e \in tips \ ({Data(x, k)} \cup consumed[x][k]) : ~IsBind(e)} # {}

Diverged(tips, x, k) == tips \ ({Data(x, k), Bind(x)} \cup consumed[x][k]) # {}

Answer(tips, x) ==
    [status |-> "answered",
     nack   |-> [k \in Keys |-> IF k \in KeysOf[x] /\ Diverged(tips[k], x, k) THEN tips[k] ELSE {}]]

IndexBind(n, x) ==
    LET s == IndexedBind(Engine(n), x)
    IN  /\ x \in halfway[n]
        /\ Install(n, s)
        /\ halfway' = [halfway EXCEPT ![n] = @ \ {x}]
        /\ reply' = [reply EXCEPT ![x][n] = IF @ = NoReply THEN Answer(s.index, x) ELSE @]
        /\ Crossing(n, x)
        /\ UNCHANGED <<effectVars, heard, pc, todo, initial, state, net>>

-----------------------------------------------------------------------------
(* The answers *)

(***************************************************************************)
(* The request or its answer is lost, or the answer comes after the        *)
(* replication timeout.                                                    *)
(***************************************************************************)
ReplyLost(x, m) ==
    /\ pc[x] = "waiting" /\ m # Origin[x]
    /\ reply[x][m] = NoReply
    /\ reply' = [reply EXCEPT ![x][m] = TimedOut]
    /\ UNCHANGED <<effectVars, nodeVars, pc, todo, initial, state, crossed, net>>

(***************************************************************************)
(* handleBackfill: what HandleRemote does, without the horizon and without *)
(* an answer; a bind ends the progress of its tips.                        *)
(***************************************************************************)
Backfilled(s, e) ==
    IF IsBind(e) THEN IndexedBind(DeletePending(s, NewTips({e[2]})), e[2]) ELSE Ingested(s, e)

(***************************************************************************)
(* ingestNackTips: breadth first from the tips in the order they are       *)
(* listed, down to the roots, every effect is backfilled.                  *)
(***************************************************************************)
NackWalk(k, listed) ==
    LET grow[i \in 0..Cardinality(DOMAIN deps)] ==
            IF i = 0 THEN listed
            ELSE LET q == grow[i - 1]
                 IN  IF i > Len(q) THEN q ELSE q \o SetToSeq(keyDeps(k, q[i]) \ ToSet(q))
    IN  grow[Cardinality(DOMAIN deps)]

IngestNackTips(s, k, listed) == FoldLeft(Backfilled, s, NackWalk(k, listed))

(***************************************************************************)
(* nackTipOrdered, classifyNackTip and checkNackConflict: below a snapshot *)
(* what the peer knows and we do not reach is compared with us.            *)
(***************************************************************************)
nackTipOrdered(past, x, k, e) ==
    e \in past \/ ReachOn(k, deps[e]) \cap {Bind(x), Data(x, k)} # {}

NackRivals(x, k, tips) ==
    LET past     == ReachOn(k, {Bind(x), Data(x, k)})
        Under(e) == IF IsSnap(e) /\ e \notin past THEN deps[e] \ past ELSE {}
    IN  {e \in Closure(tips, Under) :
            /\ IsBind(e) \/ IsPlain(e)
            /\ ~nackTipOrdered(past, x, k, e)}

checkNackConflict(x, rivals) == \E e \in rivals : IsPlain(e) \/ hash[e[2]] < hash[x]

Defeated(x, rivals) == {e[2] : e \in {b \in rivals : IsBind(b) /\ hash[x] < hash[b[2]]}}

(***************************************************************************)
(* One NACK of the replies, taken when every subscriber answered or timed  *)
(* out: its tips are ingested, then each is compared with the transaction. *)
(* Once the transaction is aborted the other NACKs are not looked at.      *)
(***************************************************************************)
AllIn(x) == \A m \in Others(Origin[x]) : reply[x][m] # NoReply

TakeNack(x, m, k) ==
    LET n      == Origin[x]
        tips   == reply[x][m].nack[k]
        rivals == NackRivals(x, k, tips)
        lost   == checkNackConflict(x, rivals)
        over   == lost \/ state[x] = "aborted"
    IN  /\ pc[x] = "waiting" /\ AllIn(x)
        /\ tips # {}
        /\ state' = [state EXCEPT ![x] = IF @ = "pending" /\ lost THEN "aborted" ELSE @]
        /\ beaten' = [beaten EXCEPT ![x] = IF over THEN @ ELSE @ \cup Defeated(x, rivals)]
        /\ reply' = [reply EXCEPT ![x] =
                        IF over THEN [i \in Nodes |-> [@[i] EXCEPT !.nack = NoReply.nack]]
                                ELSE [@ EXCEPT ![m].nack[k] = {}]]
        /\ \E listed \in SetToSeqs(tips) : Install(n, IngestNackTips(Engine(n), k, listed))
        /\ UNCHANGED <<hash, deps, consumed, abortDeps, heard, halfway, pc, todo, initial, crossed, net>>

(***************************************************************************)
(* pendingTxn.finish and the horizon: the decision that came first stands. *)
(***************************************************************************)
Outcome(x) ==
    IF state[x] # "pending" THEN state[x]
    ELSE IF \E m \in Others(Origin[x]) : reply[x][m] = TimedOut THEN "ambiguous" ELSE "committed"

Decide(x) ==
    LET n == Origin[x]
    IN  /\ pc[x] = "waiting" /\ AllIn(x)
        /\ \A m \in Nodes : reply[x][m].nack = NoReply.nack
        /\ state' = [state EXCEPT ![x] = Outcome(x)]
        /\ Install(n, IF Outcome(x) = "committed" THEN MakeVisible(Engine(n), {x})
                                                  ELSE HorizonAbort(Engine(n), x))
        /\ pc' = [pc EXCEPT ![x] = IF Outcome(x) = "committed" THEN "verdict" ELSE "returning"]
        /\ UNCHANGED <<effectVars, heard, halfway, todo, initial, reply, crossed, net>>

(***************************************************************************)
(* emitSnapshot: the verdicts, on every key of the winner and the beaten,  *)
(* in place of all tips of the key.                                        *)
(***************************************************************************)
VerdictKeys(x) == UNION {KeysOf[y] : y \in {x} \cup beaten[x]}

EmitVerdict(x, k) ==
    LET n == Origin[x]
    IN  /\ pc[x] = "verdict"
        /\ k \in VerdictKeys(x) /\ deps[Snap(x, k)] = {}
        /\ deps' = [deps EXCEPT ![Snap(x, k)] = resolveTipDeps(n, index[n][k])]
        /\ Install(n, updateIndex(Engine(n), k, index[n][k], Snap(x, k)))
        /\ net' = net \cup Send({Snap(x, k)}, n)
        /\ UNCHANGED <<hash, consumed, abortDeps, beaten, heard, halfway, txVars>>

(***************************************************************************)
(* Step 6.                                                                 *)
(***************************************************************************)
Return(x) ==
    /\ \/ pc[x] = "returning"
       \/ pc[x] = "verdict" /\ \A k \in VerdictKeys(x) : deps[Snap(x, k)] # {}
    /\ pc' = [pc EXCEPT ![x] = "done"]
    /\ UNCHANGED <<effectVars, nodeVars, todo, initial, state, reply, crossed, net>>

-----------------------------------------------------------------------------
(* Reads *)

(***************************************************************************)
(* bindKeyClosure: the binds a read of k meets, on k and on the keys that  *)
(* binds met on the way touch.                                             *)
(***************************************************************************)
BindsIn(S) == {e[2] : e \in {b \in S : IsBind(b)}}

bindKeyClosure(n, k) ==
    LET Anchors(B, j) == {Bind(y) : y \in {b \in B : j \in KeysOf[b]}}
        Met(B, j)     == BindsIn(ReachOn(j, index[n][j] \cup Anchors(B, j)))
        widen[B \in SUBSET Txns] ==
            LET C == UNION {Met(B, j) : j \in {k} \cup UNION {KeysOf[b] : b \in B}}
            IN  IF C = B THEN B ELSE widen[C]
    IN  widen[{}]

(***************************************************************************)
(* losersOnKey: a bind with a LOST verdict, or one with a visible bind on  *)
(* the key that is concurrent with it and has the lower hash.              *)
(***************************************************************************)
ConcurrentOn(k, x, y) ==
    /\ Data(x, k) \notin ReachOn(k, {Data(y, k)})
    /\ Data(y, k) \notin ReachOn(k, {Data(x, k)})

(* Mutant: the higher hash wins. *)
losersOnKeyHighest(j, candidates) ==
    {x \in candidates : \E y \in candidates :
        j \in KeysOf[x] \cap KeysOf[y] /\ hash[x] < hash[y] /\ ConcurrentOn(j, x, y)}

losersOnKey(j, candidates) ==
    {x \in candidates : \E y \in candidates :
        j \in KeysOf[x] \cap KeysOf[y] /\ hash[y] < hash[x] /\ ConcurrentOn(j, x, y)}

Lost(n, k) ==
    LET met        == bindKeyClosure(n, k)
        adjudged   == met \cap UNION {VerdictLost(n, j) : j \in Keys}
        candidates == met \ (adjudged \cup Invisible(n))
    IN  adjudged \cup UNION {losersOnKey(j, candidates) : j \in Keys}

(***************************************************************************)
(* reconstruct: the transactions whose writes a read of k at n returns.    *)
(***************************************************************************)
reconstruct(n, k) ==
    {x \in BindsIn(ReachOn(k, index[n][k])) \ (Lost(n, k) \cup Invisible(n)) :
        /\ k \in KeysOf[x]
        /\ \A y \in Invisible(n) : Bind(y) \notin ReachOn(k, {Bind(x)})}

-----------------------------------------------------------------------------
(* Everything else that moves tips *)

(***************************************************************************)
(* A non-transactional write: Emit, then flushNonTx.                       *)
(***************************************************************************)
EmitPlain(w) ==
    LET n == Origin[w]
        k == Canonical(w)
    IN  /\ pc[w] = "idle"
        /\ initial' = [initial EXCEPT ![w][k] = index[n][k]]
        /\ deps' = [deps EXCEPT ![Data(w, k)] = resolveTipDeps(n, index[n][k])]
        /\ pc' = [pc EXCEPT ![w] = "emitted"]
        /\ UNCHANGED <<hash, consumed, abortDeps, beaten, nodeVars, todo, state, reply, crossed, net>>

FlushPlain(w) ==
    LET n == Origin[w]
        k == Canonical(w)
    IN  /\ pc[w] = "emitted"
        /\ Install(n, updateIndex(Engine(n), k, initial[w][k], Data(w, k)))
        /\ net' = net \cup Send({Data(w, k)}, n)
        /\ pc' = [pc EXCEPT ![w] = "done"]
        /\ UNCHANGED <<effectVars, heard, halfway, todo, initial, state, reply, crossed>>

(***************************************************************************)
(* The fallback timer of a group: there is one once a remote bind joined.  *)
(***************************************************************************)
HorizonTimer(n) ==
    /\ \E g \in groups[n] :
        /\ \E x \in g.binds : Origin[x] # n
        /\ Install(n, MakeVisible(Engine(n), g.members))
    /\ UNCHANGED <<effectVars, heard, halfway, txVars, net>>

(***************************************************************************)
(* A read of the live state drops the tips that lie below others.          *)
(***************************************************************************)
Read(n, k) ==
    LET met   == ReachOn(k, index[n][k])
        stale == index[n][k] \cap UNION {deps[e] : e \in met}
    IN  /\ Cardinality(index[n][k]) > 1
        /\ ReadClear(n, k)
        /\ stale # {} /\ index[n][k] \ stale # {}
        /\ index' = [index EXCEPT ![n][k] = @ \ stale]
        /\ UNCHANGED <<effectVars, pendingTx, groups, heard, halfway, txVars, net>>

-----------------------------------------------------------------------------
FlushStep(x) ==
    \/ Preflight(x) \/ PublishTip(x) \/ MarkTip(x) \/ Validate(x) \/ Check(x) \/ EmitBind(x)
    \/ Evaluate(x) \/ Register(x) \/ Decide(x) \/ Return(x)
    \/ \E m \in Nodes, k \in Keys : TakeNack(x, m, k)
    \/ \E k \in Keys : EmitVerdict(x, k)

Next ==
    \/ \E x \in Txns : Begin(x) \/ FlushStep(x) \/ \E m \in Nodes : ReplyLost(x, m)
    \/ \E m \in net : Deliver(m[2], m[1])
    \/ \E n \in Nodes, x \in Txns : HearBind(n, x) \/ IndexBind(n, x)
    \/ \E w \in Writes : EmitPlain(w) \/ FlushPlain(w)
    \/ \E n \in Nodes : HorizonTimer(n)
    \/ \E n \in Nodes, k \in Keys : Read(n, k)

Spec == Init /\ [][Next]_vars

-----------------------------------------------------------------------------
(* Properties *)

(***************************************************************************)
(* The types of the state.  The tip index of a key is never left without a *)
(* tip, only tips of transactions are in pendingTxTips, and flushTx never  *)
(* returns without an outcome.                                             *)
(***************************************************************************)
TypeOK ==
    /\ deps \in [Effects -> SUBSET Effects]
    /\ consumed \in [Txns -> [Keys -> SUBSET Effects]]
    /\ abortDeps \in [Txns -> SUBSET Effects]
    /\ beaten \in [Txns -> SUBSET Txns]
    /\ index \in [Nodes -> [Keys -> SUBSET Effects \ {{}}]]
    /\ \A n \in Nodes : \A e \in DOMAIN pendingTx[n] : IsTxData(e) /\ pendingTx[n][e] \subseteq Effects
    /\ heard \in [Nodes -> SUBSET Txns] /\ halfway \in [Nodes -> SUBSET Txns]
    /\ state \in [Txns -> {"pending", "committed", "aborted", "ambiguous"}]
    /\ \A x \in Txns : pc[x] = "done" => state[x] # "pending"
    /\ net \subseteq Effects \X Nodes

\* What the caller of Flush was told.
Told(x, what) == pc[x] = "done" /\ state[x] = what

(***************************************************************************)
(* Two transactions whose callers were told "committed" are ordered on     *)
(* every key they share: one saw the other.  This is the AtMostOneCommit   *)
(* that the comment in flushTx derives from "once you've spoken".          *)
(***************************************************************************)
Compete(x, y) == \E k \in KeysOf[x] \cap KeysOf[y] : ConcurrentOn(k, x, y)

AtMostOneCommit ==
    \A x, y \in Txns : x # y /\ Told(x, "committed") /\ Told(y, "committed") => ~Compete(x, y)

(***************************************************************************)
(* The three windows in which the protocol does not see a rival: a bind    *)
(* became a tip between a transaction's check and its own bind; what       *)
(* flushTx consumed is not what Emit depended on; or Emit depended on a    *)
(* tip in progress that was not marked (or not marked any more).  Once one *)
(* of them was hit it stays so.                                            *)
(***************************************************************************)
Rebased(x)   == \E k \in KeysOf[x] : consumed[x][k] \notin {{}, deps[Data(x, k)]}
DirtyBase(x) == \E k \in KeysOf[x] : \E e \in deps[Data(x, k)] : IsTxData(e)

Orderly == \A x \in Txns : x \notin crossed /\ ~Rebased(x) /\ ~DirtyBase(x)

(***************************************************************************)
(* Outside these windows the checks, answers and fork choice of flushTx    *)
(* and HandleRemote together never let two rivals commit.                  *)
(***************************************************************************)
OneCommitWhenOrderly == Orderly => AtMostOneCommit

(***************************************************************************)
(* What was committed is read: outside the windows, every node whose read  *)
(* of the key does not wait returns the writes of a transaction whose      *)
(* caller was told "committed".  reconstruct's fork choice and flushTx's   *)
(* decision agree.                                                         *)
(***************************************************************************)
CommittedIsRead ==
    Orderly => \A x \in Txns : Told(x, "committed") =>
        \A n \in Nodes, k \in KeysOf[x] : ReadClear(n, k) => x \in reconstruct(n, k)

\* Nothing is on its way, held or in progress.
Quiet ==
    /\ net = {} /\ \A n \in Nodes : halfway[n] = {} /\ groups[n] = {}
    /\ \A x \in Txns \cup Writes : pc[x] \in {"idle", "done"}

(***************************************************************************)
(* Replicas converge: with everything delivered, all nodes read the same   *)
(* transactions, whatever windows were hit (the comment on isRealConflict: *)
(* all call sites reach the same answer).                                  *)
(***************************************************************************)
SameView == Quiet => \A n, m \in Nodes, k \in Keys : reconstruct(n, k) = reconstruct(m, k)
=============================================================================
