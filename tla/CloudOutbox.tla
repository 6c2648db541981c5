---------------------------- MODULE CloudOutbox ----------------------------
(***************************************************************************)
(* Uploading a node's effects to the cloud: the outbox that holds an       *)
(* effect until the cloud has stored it, the sender that walks unsent      *)
(* history and keeps parents ahead of children, acks, nacks and fetch      *)
(* requests, streams that break, and the draining at shutdown.             *)
(***************************************************************************)
EXTENDS Integers, Sequences, SequencesExt, FiniteSets, FiniteSetsExt, Functions

CONSTANTS
    Effects, Deps,      \* Deps[e]: the effects e names
    Own,                \* the effects this node authored
    Keys, KeyOf,
    Unsubscribes,       \* those minted when a key is evicted, with no leaf left
    IndexFirst,         \* subscriptions, in the index before the hook runs
    Old,                \* those in the pool before CloudSync starts
    Asked,              \* those the cloud may ask for
    GenSize,            \* cloudHasGenSize
    MaxNacks, MaxBreaks,
    MayStall, MayEvict, MayStop, SealFails,
    None

VARIABLES
    pool,       \* the effects in the vertex pool
    leaf,       \* the keys with a leaf in the index
    pin,        \* pin[k]: the eviction pins of k
    pending,    \* pending[e]: for an effect in the outbox, whether its ancestry is walked
    entries,    \* entries[k]: for a key in pendingKeys, its tips and whether it holds a pin
    sendQ, wake,
    cur, prev,  \* the generations of knownInCloud
    pc, tip, remaining,  \* the sender, its effect and its bound
    stream,     \* "up", "down"
    wire,       \* effects sent that the cloud has not answered
    acks,       \* answers under way: <<effect, ok>>
    retries,    \* effects whose retry timer runs
    stored,     \* effects the cloud holds
    asked,      \* fetch requests made
    repaired,   \* effects put in the outbox because the cloud asked
    minting,    \* effects in the pool whose hook has not run
    hooked,     \* effects handed to the hook
    nacks, breaks, stop, panicked

box == <<pool, leaf, pin, pending, entries, sendQ, wake>>
known == <<cur, prev>>
sender == <<pc, tip, remaining>>
cloud == <<stream, wire, acks, stored, asked, nacks, breaks>>
mints == <<minting, hooked, panicked>>
vars == <<box, known, sender, retries, repaired, cloud, stop, mints>>

Init ==
    /\ pool = Old /\ leaf = {KeyOf[e] : e \in Old} /\ pin = [k \in Keys |-> 0]
    /\ pending = <<>> /\ entries = <<>> /\ sendQ = <<>> /\ wake = FALSE
    /\ cur = {} /\ prev = {}
    /\ pc = "select" /\ tip = None /\ remaining = 0
    /\ stream = "down" /\ wire = {} /\ acks = {} /\ retries = {} /\ stored = {} /\ asked = {}
    /\ repaired = {} /\ minting = {} /\ hooked = {} /\ nacks = 0 /\ breaks = 0
    /\ stop = "no" /\ panicked = FALSE

----------------------------------------------------------------------------
Pending == DOMAIN pending
Known == cur \union prev
With(f, x, v) == [y \in DOMAIN f \union {x} |-> IF y = x THEN v ELSE f[y]]
Without(f, x) == [y \in DOMAIN f \ {x} |-> f[y]]

(* An effect that can be referenced and is not queued yet.                 *)
Queueable(e) == e \in pool \ Pending

(* expandAncestry: the deps we authored, that the cloud is not known to    *)
(* hold.                                                                   *)
Unsent(e) == {d \in Deps[e] \intersect Own : d \notin Known /\ Queueable(d)}

(* The outbox after enqueueUpload of the effects of an ancestry walk.      *)
Ancestry(ds) == [y \in Pending \union ds |-> IF y \in Pending THEN pending[y] ELSE TRUE]

(* The entry of the key of a first un-acked write takes the eviction pin,  *)
(* if the key has a leaf.                                                  *)
EntryWith(e, hasLeaf) ==
    IF KeyOf[e] \in DOMAIN entries
    THEN [entries[KeyOf[e]] EXCEPT !.tips = @ \union {e}]
    ELSE [tips |-> {e}, pinned |-> hasLeaf]

(* handleLocalEffect of e, minted with or without a leaf: the first level  *)
(* of ancestry, then e itself as part of the frontier.                     *)
HandleLocalEffect(e, hasLeaf) ==
    LET k == KeyOf[e] IN
    /\ pool' = pool \union {e}
    /\ pending' = With(Ancestry(Unsent(e)), e, TRUE)
    /\ entries' = With(entries, k, EntryWith(e, hasLeaf))
    /\ pin' = [pin EXCEPT ![k] = @ + (IF k \notin DOMAIN entries /\ hasLeaf THEN 1 ELSE 0)]
    /\ \E ds \in SetToSeqs(Unsent(e)) : sendQ' = sendQ \o ds \o <<e>>
    /\ wake' = TRUE

(* A local write: the hook runs (rawEmit), then the index is updated       *)
(* (flushNonTx).                                                           *)
Mint(e) ==
    /\ stop = "no"
    /\ e \in Own \ (Old \union Unsubscribes \union IndexFirst \union hooked)
    /\ Deps[e] \subseteq pool
    /\ HandleLocalEffect(e, KeyOf[e] \in leaf) /\ leaf' = leaf \union {KeyOf[e]}
    /\ hooked' = hooked \union {e}
    /\ UNCHANGED <<known, sender, retries, repaired, cloud, stop, minting, panicked>>

(* A subscription (ensureSubscribed, mintLocalEffect) enters the index,    *)
(* where any reader finds it, before its hook runs.                        *)
Publish(e) ==
    /\ stop = "no" /\ e \in IndexFirst \ (minting \union hooked) /\ Deps[e] \subseteq pool
    /\ pool' = pool \union {e} /\ leaf' = leaf \union {KeyOf[e]}
    /\ minting' = minting \union {e}
    /\ UNCHANGED <<pin, pending, entries, sendQ, wake, known, sender, retries, repaired, cloud,
                   stop, hooked, panicked>>

(* Its hook runs, if it is still attached; an effect that is queued        *)
(* already panics.                                                         *)
Fire(e) ==
    /\ e \in minting /\ minting' = minting \ {e} /\ hooked' = hooked \union {e}
    /\ IF stop = "no" /\ Queueable(e)
       THEN HandleLocalEffect(e, KeyOf[e] \in leaf) /\ UNCHANGED panicked
       ELSE /\ panicked' = (panicked \/ stop = "no")
            /\ UNCHANGED <<pool, pin, pending, entries, sendQ, wake>>
    /\ UNCHANGED <<leaf, known, sender, retries, repaired, cloud, stop>>

(* An unpinned key is evicted; the hook of its unsubscribe effect runs     *)
(* later, on a goroutine of its own.                                       *)
EvictKey(e) ==
    /\ stop = "no" /\ MayEvict /\ e \in Unsubscribes \ (minting \union hooked)
    /\ KeyOf[e] \in leaf /\ pin[KeyOf[e]] = 0
    /\ leaf' = leaf \ {KeyOf[e]} /\ pool' = pool \union {e} /\ minting' = minting \union {e}
    /\ UNCHANGED <<pin, pending, entries, sendQ, wake, known, sender, retries, repaired, cloud,
                   stop, hooked, panicked>>

(* A vertex without references leaves the pool; children and the outbox    *)
(* hold references.                                                        *)
EvictVertex(e) ==
    /\ MayEvict /\ e \in pool \ (Pending \union minting \union UNION {Deps[c] : c \in pool})
    /\ pool' = pool \ {e}
    /\ UNCHANGED <<leaf, pin, pending, entries, sendQ, wake, known, sender, retries, repaired,
                   cloud, stop, mints>>

----------------------------------------------------------------------------
(* runStream's select, and nextEnvelope: a pass over what is queued when   *)
(* it begins.                                                              *)
PassBegin ==
    /\ \/ pc = "select" /\ stream = "up" /\ wake /\ wake' = FALSE
       \/ pc = "next" /\ UNCHANGED wake
    /\ pc' = "loop" /\ remaining' = Len(sendQ)
    /\ UNCHANGED <<pool, leaf, pin, pending, entries, sendQ, tip, known, retries, repaired, cloud, stop, mints>>

(* Pop the next upload; an effect acked while queued is skipped.           *)
Pop ==
    /\ pc = "loop"
    /\ IF sendQ = <<>> \/ remaining = 0
       THEN pc' = "select" /\ remaining' = 0 /\ UNCHANGED <<tip, sendQ>>
       ELSE /\ sendQ' = Tail(sendQ) /\ remaining' = remaining - 1
            /\ IF Head(sendQ) \in Pending
               THEN tip' = Head(sendQ) /\ pc' = IF pending[tip'] THEN "expand" ELSE "block"
               ELSE UNCHANGED <<pc, tip>>
    /\ UNCHANGED <<pool, leaf, pin, pending, entries, wake, known, retries, repaired, cloud, stop, mints>>

(* Mutant: a final-slot expansion is not counted. *)
ExpandUncounted ==
    LET deps == Unsent(tip) IN
    /\ pc = "expand"
    /\ IF deps = {} THEN pc' = "block" /\ UNCHANGED <<pending, sendQ, tip, remaining>>
       ELSE /\ pending' = Ancestry(deps)
            /\ \E ds \in SetToSeqs(deps) :
                sendQ' = ds \o <<tip>> \o SelectSeq(sendQ, LAMBDA e : e # tip /\ e \notin deps)
            /\ remaining' = remaining
            /\ pc' = "loop" /\ tip' = None
    /\ UNCHANGED <<pool, leaf, pin, entries, wake, known, retries, repaired, cloud, stop, mints>>

(* Continue the walk; what it queues goes ahead of tip, and both ahead of  *)
(* the rest (deferUploadBehind).                                           *)
Expand ==
    LET deps == Unsent(tip) IN
    /\ pc = "expand"
    /\ IF deps = {} THEN pc' = "block" /\ UNCHANGED <<pending, sendQ, tip, remaining>>
       ELSE /\ pending' = Ancestry(deps)
            /\ \E ds \in SetToSeqs(deps) :
                sendQ' = ds \o <<tip>> \o SelectSeq(sendQ, LAMBDA e : e # tip /\ e \notin deps)
            /\ remaining' = remaining + Cardinality(deps)
            /\ pc' = "loop" /\ tip' = None
    /\ UNCHANGED <<pool, leaf, pin, entries, wake, known, retries, repaired, cloud, stop, mints>>

(* Mutant: stream order is taken for commit order. *)
BlockNever ==
    /\ pc = "block" /\ pc' = "send"
    /\ UNCHANGED <<pool, leaf, pin, pending, entries, wake, sendQ, tip, remaining, known, retries,
                   repaired, cloud, stop, mints>>

(* An effect with a dep in the outbox goes back to the queue; sealing may  *)
(* fail and is retried.                                                    *)
Block ==
    /\ pc = "block"
    /\ \/ /\ Deps[tip] \intersect Pending # {}
          /\ sendQ' = Append(sendQ, tip) /\ pc' = "loop" /\ tip' = None
          /\ UNCHANGED <<retries, nacks>>
       \/ /\ Deps[tip] \intersect Pending = {}
          /\ \/ pc' = "send" /\ UNCHANGED <<tip, retries, nacks>>
             \/ /\ SealFails /\ nacks < MaxNacks /\ nacks' = nacks + 1
                /\ retries' = retries \union {tip}
                /\ pc' = "loop" /\ tip' = None
          /\ UNCHANGED sendQ
    /\ UNCHANGED <<pool, leaf, pin, pending, entries, wake, remaining, known, repaired,
                   stream, wire, acks, stored, asked, breaks, stop, mints>>

(* stream.Send, which fails on a stream that broke.                        *)
Send ==
    /\ pc = "send"
    /\ IF stream = "up" THEN wire' = wire \union {tip} /\ pc' = "next"
       ELSE pc' = "select" /\ UNCHANGED wire
    /\ tip' = None /\ remaining' = 0
    /\ UNCHANGED <<box, known, retries, repaired, stream, acks, stored, asked, nacks, breaks, stop, mints>>

(* A new stream, with everything pending queued again.                     *)
RunStream ==
    /\ pc = "select" /\ stream = "down" /\ stop \notin {"cancelled", "abandoned"}
    /\ stream' = "up" /\ wake' = TRUE
    /\ sendQ' \in SetToSeqs(Pending)
    /\ UNCHANGED <<pool, leaf, pin, pending, entries, known, sender, retries, repaired,
                   wire, acks, stored, asked, nacks, breaks, stop, mints>>

----------------------------------------------------------------------------
(* tipGenSet.add: two generations, the older dropped when the newer fills. *)
MarkCloudHolds(e) ==
    IF Cardinality(cur) >= GenSize THEN prev' = cur /\ cur' = {e}
    ELSE prev' = prev /\ cur' = cur \union {e}

(* retire: with the last un-acked write of its key the pin is released.    *)
Retire(e) ==
    LET k == KeyOf[e]
        left == IF k \in DOMAIN entries THEN entries[k].tips \ {e} ELSE {}
    IN
    /\ pending' = Without(pending, e)
    /\ sendQ' = IF Pending = {e} THEN <<>> ELSE sendQ
    /\ IF e \in Pending /\ k \in DOMAIN entries
       THEN /\ entries' = IF left = {} THEN Without(entries, k)
                          ELSE [entries EXCEPT ![k].tips = left]
            /\ pin' = [pin EXCEPT ![k] = @ - (IF left = {} /\ entries[k].pinned THEN 1 ELSE 0)]
       ELSE UNCHANGED <<entries, pin>>

(* handleAck.                                                              *)
HandleAck(e) ==
    \/ /\ <<e, TRUE>> \in acks /\ acks' = acks \ {<<e, TRUE>>}
       /\ MarkCloudHolds(e) /\ Retire(e) /\ wake' = (wake \/ e \in Pending)
       /\ UNCHANGED <<pool, leaf, sender, retries, repaired, stream, wire, stored, asked, nacks,
                      breaks, stop, mints>>
    \/ /\ <<e, FALSE>> \in acks /\ acks' = acks \ {<<e, FALSE>>}
       /\ retries' = IF e \in Pending THEN retries \union {e} ELSE retries
       /\ UNCHANGED <<box, known, sender, repaired, stream, wire, stored, asked, nacks, breaks, stop, mints>>

(* retryUpload's timer.                                                    *)
RetryUpload(e) ==
    /\ e \in retries /\ retries' = retries \ {e}
    /\ sendQ' = IF e \in Pending THEN Append(sendQ, e) ELSE sendQ
    /\ wake' = TRUE
    /\ UNCHANGED <<pool, leaf, pin, pending, entries, known, sender, repaired, cloud, stop, mints>>

(* handleFetch: exactly the effect asked for, if it is there.              *)
HandleFetch(e) ==
    /\ e \in Asked \ asked /\ stream = "up" /\ asked' = asked \union {e}
    /\ IF Queueable(e)
       THEN /\ pending' = With(pending, e, FALSE) /\ sendQ' = Append(sendQ, e) /\ wake' = TRUE
            /\ repaired' = repaired \union {e}
       ELSE UNCHANGED <<pending, sendQ, wake, repaired>>
    /\ UNCHANGED <<pool, leaf, pin, entries, known, sender, retries, stream, wire, acks, stored,
                   nacks, breaks, stop, mints>>

----------------------------------------------------------------------------
(* The cloud's workers take effects in any order, and may fail.            *)
CloudStores(e) ==
    /\ e \in wire /\ wire' = wire \ {e}
    /\ \/ stored' = stored \union {e} /\ acks' = acks \union {<<e, TRUE>>} /\ UNCHANGED nacks
       \/ /\ nacks < MaxNacks /\ nacks' = nacks + 1
          /\ acks' = acks \union {<<e, FALSE>>} /\ UNCHANGED stored
    /\ UNCHANGED <<box, known, sender, retries, repaired, stream, asked, breaks, stop, mints>>

(* The stream breaks: what is under way is stored or not, and answers are  *)
(* lost or still read.                                                     *)
StreamBreaks ==
    /\ stream = "up" /\ breaks < MaxBreaks /\ breaks' = breaks + 1 /\ stream' = "down"
    /\ \E done \in SUBSET wire : stored' = stored \union done
    /\ wire' = {} /\ acks' \in {acks, {}}
    /\ UNCHANGED <<box, known, sender, retries, repaired, asked, nacks, stop, mints>>

(* Stop: the hook is detached, the outbox drained, and the loop cancelled. *)
Detach ==
    /\ MayStop /\ stop = "no" /\ stop' = "draining"
    /\ UNCHANGED <<box, known, sender, retries, repaired, cloud, mints>>

(* waitDrained gives up on a cloud that acks nothing for a whole timeout.  *)
Stalled ==
    /\ MayStall /\ stop = "draining" /\ Pending # {} /\ stop' = "abandoned"
    /\ UNCHANGED <<box, known, sender, retries, repaired, cloud, mints>>

Drained ==
    /\ stop = "draining" /\ Pending = {} /\ stop' = "cancelled"
    /\ UNCHANGED <<box, known, sender, retries, repaired, cloud, mints>>

Sender == PassBegin \/ Pop \/ Expand \/ Block \/ Send \/ RunStream

(* A panic ends the process.                                               *)
Next ==
    /\ ~panicked
    /\ \/ \E e \in Effects :
           \/ Mint(e) \/ Publish(e) \/ Fire(e) \/ EvictKey(e) \/ EvictVertex(e) \/ HandleAck(e)
           \/ RetryUpload(e) \/ HandleFetch(e) \/ CloudStores(e)
       \/ PassBegin \/ Pop \/ Expand \/ Block \/ Send \/ RunStream
       \/ StreamBreaks \/ Detach \/ Drained \/ Stalled

(* The sender's goroutine, the reader, the timers and the cloud go on.     *)
Spec ==
    /\ Init /\ [][Next]_vars
    /\ WF_vars(Sender) /\ WF_vars(Drained)
    /\ \A e \in Effects :
        WF_vars(HandleAck(e)) /\ WF_vars(RetryUpload(e)) /\ WF_vars(CloudStores(e))

----------------------------------------------------------------------------
(* Types; the outbox refers to effects in the pool, the index of keys to   *)
(* effects in the outbox, and no pin is released that was not taken.       *)
TypeOK ==
    /\ Pending \subseteq pool /\ tip \in Effects \union {None}
    /\ \A k \in DOMAIN entries : entries[k].tips # {} /\ entries[k].tips \subseteq Pending
    /\ \A k \in Keys : pin[k] = IF k \in DOMAIN entries /\ entries[k].pinned THEN 1 ELSE 0

(* "tips the cloud demonstrably holds" (knownInCloud): the walk stops only *)
(* at effects the cloud has stored.                                        *)
KnownIsStored == Known \subseteq stored

(* "a bootstrapping node walking the cloud frontier dies on the missing    *)
(* blob" (expandAncestry): an effect of ours the cloud holds has all the   *)
(* history we authored there too, but for what the cloud asked for itself. *)
NoHole ==
    \A e \in stored \ repaired : Deps[e] \intersect Own \subseteq stored

(* The same for a key that had a leaf when its first un-acked write was    *)
(* queued: the pin is kept until the last ack.                             *)
PinnedIsFindable == \A k \in DOMAIN entries : entries[k].pinned => k \in leaf

(* "an effect stays in the outbox ... until the cloud acks it as stored.   *)
(* Nacks and stream failures re-send" (CloudSync): it is stored in the     *)
(* end, and leaves the outbox.                                             *)
Drains ==
    \A e \in Effects :
        e \in Pending ~> (e \notin Pending /\ e \in stored) \/ stop \in {"cancelled", "abandoned"}

(* "a deep backlog on a live cloud flushes fully" (Stop): the loop is      *)
(* cancelled with every effect of the outbox stored.                       *)
StopKeepsAll == stop = "cancelled" => hooked \subseteq stored
=============================================================================
