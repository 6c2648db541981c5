----------------------------- MODULE CloudReads -----------------------------
(***************************************************************************)
(* A read that finds nothing in the cluster asks the cloud: one key, its   *)
(* readers, the consult that each residency of its leaf makes once, blobs  *)
(* the cloud has lost, outages, and the loop that reconciles the key when  *)
(* the cloud's answer was incomplete.                                      *)
(***************************************************************************)
EXTENDS Integers, FiniteSets

CONSTANTS
    Readers, None,
    Data,               \* the effects with the key's value
    Stored, Lost,       \* those the cloud's index names at first, and has no blob of
    Subscribed,         \* whether the node has subscribed already
    MaxReads, MaxEvicts, MaxOutages,
    MayHeal, MayPrune, MayGain, Pushes

VARIABLES
    cloud, holes,       \* the tips in the cloud's index, and those without a blob
    up,                 \* the cloud answers
    bulk,               \* filterBulk: "none", or whether it "has" or "lacks" the key
    index,              \* the data tips of the key's leaf
    leaf,               \* the number of the leaf, 0 for none
    leaves,             \* leaves so far
    marks,              \* marks[g]: cloudConsulted and cloudPending of leaf g
    lock,               \* lock[g]: the reader holding cloudMu of leaf g
    subscribed, outbox, \* a subscription record; its effect waits for the cloud's ack
    pc, ls,             \* a reader and its leaf
    tips, missing,      \* the tips it was given, those named as having no blob
    due,                \* the cloud may hold the key as far as the read can tell
    ret,                \* a read's result
    reconcile, answer,  \* the key is pending, the reconcile loop's answer
    blind,              \* an outbox-only read that no later answer has made up for
    answers,            \* answers[g]: consults answered for leaf g
    reads, evicts, outages

cloudVars == <<cloud, holes, up, bulk>>
leafVars == <<index, leaf, leaves, marks, lock, subscribed, outbox>>
readVars == <<pc, ls, tips, missing, due, ret>>
bounds == <<reads, evicts, outages>>
vars == <<cloudVars, leafVars, readVars, reconcile, answer, blind, answers, bounds>>

MaxLeaves == 1 + MaxEvicts
Gens == 0..MaxLeaves
Unmarked == [consulted |-> FALSE, pending |-> FALSE]

Init ==
    /\ cloud = Stored /\ holes = Lost /\ up = TRUE /\ bulk = "none"
    /\ index = {} /\ subscribed = Subscribed /\ outbox = FALSE
    /\ leaf = (IF Subscribed THEN 1 ELSE 0) /\ leaves = leaf
    /\ marks = [g \in Gens |-> Unmarked] /\ lock = [g \in Gens |-> None]
    /\ pc = [r \in Readers |-> "idle"] /\ ls = [r \in Readers |-> 0]
    /\ tips = [r \in Readers |-> {}] /\ missing = tips /\ due = [r \in Readers |-> FALSE]
    /\ ret = [r \in Readers |-> None]
    /\ reconcile = FALSE /\ answer = None /\ blind = "no" /\ answers = [g \in Gens |-> 0]
    /\ reads = 0 /\ evicts = 0 /\ outages = 0

----------------------------------------------------------------------------
(* cloudMayHold; the subscription of the key is not in filterOwn.          *)
MayHold == bulk # "lacks"

(* A leaf for the key, when it has none.                                   *)
NewLeaf ==
    IF leaf # 0 THEN UNCHANGED <<leaf, leaves>>
    ELSE leaf' = leaves + 1 /\ leaves' = leaves + 1

(* ensureSubscribed: the subscription effect enters index and outbox.      *)
EnsureSubscribed ==
    /\ NewLeaf /\ subscribed' = TRUE /\ outbox' = (outbox \/ ~subscribed)

(* A read returns; a nil result under a leaf with a hole is an error.      *)
Result(found, mark) ==
    IF found # {} THEN "value"
    ELSE IF mark.pending /\ ~mark.consulted THEN "error" ELSE "miss"

Return(r, res) ==
    /\ pc' = [pc EXCEPT ![r] = "idle"] /\ ret' = [ret EXCEPT ![r] = res]
    /\ ls' = [ls EXCEPT ![r] = 0] /\ tips' = [tips EXCEPT ![r] = {}]
    /\ missing' = [missing EXCEPT ![r] = {}] /\ UNCHANGED due

(* GetSnapshot subscribes, unless nothing is here and no filter admits the *)
(* key (freeMissEligible).                                                 *)
BeginRead(r) ==
    /\ pc[r] = "idle" /\ reads < MaxReads /\ reads' = reads + 1
    /\ IF ~subscribed /\ leaf = 0 /\ ~MayHold
       THEN UNCHANGED <<leaf, leaves, subscribed, outbox>>
       ELSE EnsureSubscribed
    /\ due' = [due EXCEPT ![r] = cloud # {} /\ MayHold]
    /\ pc' = [pc EXCEPT ![r] = "local"] /\ ret' = [ret EXCEPT ![r] = None]
    /\ UNCHANGED <<cloudVars, index, marks, lock, ls, tips, missing, reconcile, answer, blind, answers,
                   evicts, outages>>

(* reconstructLocal; with subscriptions only, the leaf's markers decide    *)
(* whether the cloud is asked.                                             *)
ReadLocal(r) ==
    /\ pc[r] = "local"
    /\ IF index # {} \/ marks[leaf].consulted \/ marks[leaf].pending
       THEN Return(r, Result(index, marks[leaf]))
       ELSE pc' = [pc EXCEPT ![r] = "lock"] /\ ls' = [ls EXCEPT ![r] = leaf]
            /\ UNCHANGED <<tips, missing, due, ret>>
    /\ UNCHANGED <<cloudVars, leafVars, reconcile, answer, blind, answers, bounds>>

(* cloudMu, and the markers again: a reader that lost the race serves the  *)
(* winner's result.  The outbox's tips are taken before the cloud is       *)
(* asked.                                                                  *)
LockCloud(r) ==
    LET g == ls[r] IN
    /\ pc[r] = "lock" /\ lock[g] = None
    /\ IF marks[g].consulted \/ marks[g].pending
       THEN Return(r, Result(index, marks[g])) /\ UNCHANGED lock
       ELSE /\ lock' = [lock EXCEPT ![g] = IF g = 0 THEN None ELSE r]
            /\ pc' = [pc EXCEPT ![r] = "rpc"]
            /\ tips' = [tips EXCEPT ![r] = IF outbox THEN {"sub"} ELSE {}]
            /\ UNCHANGED <<ls, missing, due, ret>>
    /\ UNCHANGED <<cloudVars, index, leaf, leaves, marks, subscribed, outbox, reconcile, answer,
                   blind, answers, bounds>>

(* The read fails and leaves no marker.                                    *)
FailRead(r) ==
    /\ Return(r, "error") /\ lock' = [lock EXCEPT ![ls[r]] = None]
    /\ UNCHANGED <<cloudVars, index, leaf, leaves, marks, subscribed, outbox, reconcile, answer,
                   blind, answers, bounds>>

(* CloudTips: with a cloud that does not answer, the outbox's tips are the *)
(* answer, if there are any, and the key is to be reconciled.              *)
CloudTips(r) ==
    /\ pc[r] = "rpc"
    /\ \/ ~up /\ tips[r] = {} /\ MayHold /\ FailRead(r)
       \/ /\ \/ ~MayHold /\ tips' = [tips EXCEPT ![r] = {}] /\ UNCHANGED <<missing, reconcile, blind>>
             \/ /\ MayHold /\ up /\ tips' = [tips EXCEPT ![r] = @ \union cloud]
                /\ missing' = [missing EXCEPT ![r] = holes] /\ UNCHANGED <<reconcile, blind>>
             \/ /\ ~up /\ MayHold /\ tips[r] # {} /\ reconcile' = TRUE /\ blind' = "new"
                /\ UNCHANGED <<tips, missing>>
          /\ pc' = [pc EXCEPT ![r] = "install"]
          /\ UNCHANGED <<cloudVars, leafVars, ls, due, ret, answer, answers, bounds>>

(* Mutant: a hole counts as an answer. *)
InstallHoled(r) ==
    LET g == IF ls[r] = 0 THEN leaf ELSE ls[r]
        data == (tips[r] \intersect Data) \ (missing[r] \union holes)
    IN
    /\ pc[r] = "install" /\ leaf # 0
    /\ index' = index \union data
    /\ marks' = [marks EXCEPT ![g].consulted = TRUE]
    /\ Return(r, Result(index', marks'[g])) /\ answers' = [answers EXCEPT ![ls[r]] = @ + 1]
    /\ lock' = [lock EXCEPT ![ls[r]] = None]
    /\ UNCHANGED <<cloudVars, leaf, leaves, subscribed, outbox, answer, blind, bounds, reconcile>>

(* InstallCloudTips of what can be walked, the subscription that follows,  *)
(* the leaf's marker and the result.  A blob that was not in the answer    *)
(* may fail to be fetched.                                                 *)
Install(r) ==
    LET data == (tips[r] \intersect Data) \ (missing[r] \union holes)
        holed == tips[r] \intersect (missing[r] \union holes)
    IN
    /\ pc[r] = "install"
    /\ \/ ~up /\ tips[r] \intersect Data # {} /\ FailRead(r)
       \/ /\ index' = index \union data
          /\ IF data # {} \/ "sub" \in tips[r] \/ (tips[r] # {} /\ leaf # 0)
             THEN EnsureSubscribed
             ELSE UNCHANGED <<leaf, leaves, subscribed, outbox>>
          /\ LET g == IF ls[r] = 0 THEN leaf' ELSE ls[r] IN
             /\ marks' = [marks EXCEPT ![g] = IF g = 0 THEN @
                             ELSE IF holed = {} THEN [@ EXCEPT !.consulted = TRUE]
                             ELSE [@ EXCEPT !.pending = TRUE]]
             /\ Return(r, Result(index', marks'[g]))
          /\ lock' = [lock EXCEPT ![ls[r]] = None] /\ answers' = [answers EXCEPT ![ls[r]] = @ + 1]
          /\ reconcile' = (reconcile \/ holed # {})
          /\ UNCHANGED <<cloudVars, answer, blind, bounds>>

----------------------------------------------------------------------------
(* reconcileBatch asks for the frontier of a pending key; a cloud that is  *)
(* down leaves it pending.                                                 *)
AskAgain ==
    /\ reconcile /\ answer = None /\ up
    /\ answer' = [tips |-> cloud, missing |-> holes, after |-> blind = "new"]
    /\ UNCHANGED <<cloudVars, leafVars, readVars, reconcile, blind, answers, bounds>>

(* ... and installs it; the key is cleared when nothing was left out.      *)
ApplyAnswer ==
    LET data == answer.tips \ (answer.missing \union holes)
        complete == data = answer.tips
    IN
    /\ answer # None /\ answer' = None
    /\ index' = index \union data
    /\ IF data # {} THEN NewLeaf
       ELSE UNCHANGED <<leaf, leaves>>
    /\ reconcile' = (reconcile /\ ~complete)
    /\ blind' = IF complete /\ answer.after THEN "no" ELSE blind
    /\ UNCHANGED <<cloudVars, marks, lock, subscribed, outbox, readVars, answers, bounds>>

(* The key's leaf is evicted, when nothing of it waits for the cloud.      *)
Evict ==
    /\ leaf # 0 /\ ~outbox /\ evicts < MaxEvicts /\ evicts' = evicts + 1
    /\ leaf' = 0 /\ index' = {} /\ subscribed' = FALSE
    /\ UNCHANGED <<cloudVars, leaves, marks, lock, outbox, readVars, reconcile, answer, blind,
                   answers, reads, outages>>

(* The cloud stores the subscription and acks it.                          *)
Acked ==
    /\ outbox /\ up /\ outbox' = FALSE
    /\ UNCHANGED <<cloudVars, index, leaf, leaves, marks, lock, subscribed, readVars, reconcile,
                   answer, blind, answers, bounds>>

----------------------------------------------------------------------------
EnvFrame ==
    UNCHANGED <<leafVars, pc, ls, tips, missing, ret, reconcile, answer, blind, answers, reads, evicts>>

Outage ==
    /\ up /\ outages < MaxOutages /\ outages' = outages + 1 /\ up' = FALSE
    /\ UNCHANGED <<cloud, holes, bulk, due>> /\ EnvFrame

Recover == ~up /\ up' = TRUE /\ UNCHANGED <<cloud, holes, bulk, outages, due>> /\ EnvFrame

(* "Cloud's own billing sweep is what eventually heals or prunes the       *)
(* marker" (ErrCDNBlobMissing).                                            *)
Heal ==
    /\ MayHeal /\ holes # {} /\ holes' = {} /\ UNCHANGED <<cloud, up, bulk, outages, due>> /\ EnvFrame

Prune ==
    /\ MayPrune /\ holes # {} /\ holes' = {} /\ cloud' = cloud \ holes
    /\ due' = [r \in Readers |-> due[r] /\ cloud' # {}]
    /\ UNCHANGED <<up, bulk, outages>> /\ EnvFrame

(* A peer's write reaches the cloud while this node is not subscribed.     *)
Gain ==
    /\ MayGain /\ ~subscribed /\ up /\ \E d \in Data \ cloud : cloud' = cloud \union {d}
    /\ UNCHANGED <<holes, up, bulk, outages, due>> /\ EnvFrame

(* handleFilter.                                                           *)
PushFilter ==
    /\ Pushes /\ up /\ bulk' = IF cloud = {} THEN "lacks" ELSE "has"
    /\ UNCHANGED <<cloud, holes, up, outages, due>> /\ EnvFrame

Next ==
    \/ \E r \in Readers :
        BeginRead(r) \/ ReadLocal(r) \/ LockCloud(r) \/ CloudTips(r) \/ Install(r)
    \/ AskAgain \/ ApplyAnswer \/ Evict \/ Acked
    \/ Outage \/ Recover \/ Heal \/ Prune \/ Gain \/ PushFilter

(* The reconcile loop ticks, readers go on, and outages end.               *)
Spec ==
    /\ Init /\ [][Next]_vars
    /\ WF_vars(AskAgain) /\ WF_vars(ApplyAnswer) /\ WF_vars(Recover) /\ WF_vars(Acked)
    /\ \A r \in Readers :
        WF_vars(ReadLocal(r)) /\ WF_vars(LockCloud(r)) /\ WF_vars(CloudTips(r) \/ Install(r))

----------------------------------------------------------------------------
(* Types; cloudMu is held by readers at work under it.                     *)
TypeOK ==
    /\ holes \subseteq cloud /\ index \subseteq Data /\ leaf <= leaves /\ leaves <= MaxLeaves
    /\ (index # {} => leaf # 0) /\ (subscribed => leaf # 0)
    /\ \A g \in Gens :
        IF lock[g] = None THEN TRUE ELSE pc[lock[g]] \in {"rpc", "install"} /\ ls[lock[g]] = g

(* "It must surface to the client as an error, never as a miss: Cloud      *)
(* provably holds data for the key" (ErrCloudUnavailable): a read that     *)
(* began when the cloud held the key is not answered with nothing.         *)
NoFalseMiss == \A r \in Readers : ~(ret[r] = "miss" /\ due[r])

(* "cloudMu single-flights the Cloud consult for this leaf" (leafState):   *)
(* one residency of the key has one answered consult.                      *)
OneConsult == \A g \in Gens \ {0} : answers[g] <= 1

(* "the reconcile loop owns retrying the hole" (cloudPending): a leaf      *)
(* whose reads fail for a hole is one the loop will come back to.          *)
HoleIsOwed == leaf # 0 /\ marks[leaf].pending /\ index = {} => reconcile

(* ... so that when the cloud has its blob again the reads succeed.        *)
HoleHeals ==
    (leaf # 0 /\ marks[leaf].pending /\ index = {} /\ holes = {})
        ~> (index # {} \/ leaf = 0 \/ holes # {})
=============================================================================
