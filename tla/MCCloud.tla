------------------------------ MODULE MCCloud ------------------------------
(***************************************************************************)
(* The cloud's outbox and the reads that consult the cloud, on small       *)
(* instances of each.  They share no state here, so that a behaviour in    *)
(* which one moves and the other rests in its initial state stands for all *)
(* (part says which instance moves).                                       *)
(***************************************************************************)
EXTENDS Integers, TLC

CONSTANTS None, r1, r2

VARIABLES
    part,
    pool, leaf, pin, pending, entries, sendQ, wake, cur, prev, pc, tip, remaining, stream, wire,
    acks, retries, stored, asked, repaired, minting, hooked, nacks, breaks, stop, panicked,
    inCloud, holes, up, bulk, index, readLeaf, leaves, marks, lock, subscribed, outbox, readPc, ls,
    tips, missing, due, ret, reconcile, answer, blind, answers, reads, evicts, outages

boxVars == <<pool, leaf, pin, pending, entries, sendQ, wake, cur, prev, pc, tip, remaining, stream, wire,
    acks, retries, stored, asked, repaired, minting, hooked, nacks, breaks, stop, panicked>>
readVars == <<inCloud, holes, up, bulk, index, readLeaf, leaves, marks, lock, subscribed, outbox, readPc, ls,
    tips, missing, due, ret, reconcile, answer, blind, answers, reads, evicts, outages>>
vars == <<part, boxVars, readVars>>

(* Three writes to one key, of which the first two predate the cloud, the  *)
(* last also naming a write of another node.                               *)
ChainOf == {"o1", "o2", "m3", "f"}
ChainDeps == ("o1" :> {} @@ "o2" :> {"o1"} @@ "m3" :> {"o2", "f"} @@ "f" :> {})
ChainOwn == {"o1", "o2", "m3"}
ChainOld == {"o1", "o2", "f"}

(* A key's subscription, a write and an unsubscribe.                       *)
CycleOf == {"s", "x", "u"}
CycleDeps == ("s" :> {} @@ "x" :> {"s"} @@ "u" :> {})

Keys == {"A"}
GenSize == 1
MaxBreaks == 1

(* The cloud asks for an effect itself, and leaves may be evicted.         *)
Chain == INSTANCE CloudOutbox WITH Effects <- ChainOf, Deps <- ChainDeps,
    KeyOf <- [e \in ChainOf |-> "A"], Own <- ChainOwn, Old <- ChainOld, Unsubscribes <- {},
    IndexFirst <- {}, Asked <- {"o1"}, MaxNacks <- 1, MayEvict <- TRUE, MayStop <- FALSE,
    MayStall <- FALSE, SealFails <- FALSE

(* The node stops, blobs fail to seal.                                     *)
Drain == INSTANCE CloudOutbox WITH Effects <- ChainOf, Deps <- ChainDeps,
    KeyOf <- [e \in ChainOf |-> "A"], Own <- ChainOwn, Old <- ChainOld, Unsubscribes <- {},
    IndexFirst <- {}, Asked <- {}, MaxNacks <- 1, MayEvict <- FALSE, MayStop <- TRUE,
    MayStall <- TRUE, SealFails <- TRUE

Cycle == INSTANCE CloudOutbox WITH Effects <- CycleOf, Deps <- CycleDeps,
    KeyOf <- [e \in CycleOf |-> "A"], Own <- CycleOf, Old <- {}, Unsubscribes <- {"u"},
    IndexFirst <- {"s"}, Asked <- {}, MaxNacks <- 0, MayEvict <- TRUE, MayStop <- FALSE,
    MayStall <- FALSE, SealFails <- FALSE

Data == {"d", "e"}
Stored == {"d"}
Lost == {"d"}
MaxReads == 3
MayHeal == TRUE
Pushes == TRUE

(* Two readers of a resident key.                                          *)
Pair == INSTANCE CloudReads WITH cloud <- inCloud, leaf <- readLeaf, pc <- readPc, Readers <- {r1, r2}, Subscribed <- TRUE,
    MaxEvicts <- 0, MaxOutages <- 1, MayPrune <- FALSE, MayGain <- FALSE

(* A reader of a key that may be evicted, and gain data elsewhere.         *)
Heal == INSTANCE CloudReads WITH cloud <- inCloud, leaf <- readLeaf, pc <- readPc, Readers <- {r1}, Subscribed <- FALSE,
    MaxEvicts <- 1, MaxOutages <- 1, MayPrune <- FALSE, MayGain <- TRUE

(* ... and whose data in the cloud may be pruned.                          *)
Filter == INSTANCE CloudReads WITH cloud <- inCloud, leaf <- readLeaf, pc <- readPc, Readers <- {r1}, Subscribed <- FALSE,
    MaxEvicts <- 0, MaxOutages <- 0, MayPrune <- TRUE, MayGain <- TRUE

Init ==
    /\ part \in {"chain", "drain", "cycle", "pair", "heal", "filter"}
    /\ CASE part = "drain" -> Drain!Init [] part = "cycle" -> Cycle!Init [] OTHER -> Chain!Init
    /\ CASE part = "heal" -> Heal!Init [] part = "filter" -> Filter!Init [] OTHER -> Pair!Init

Next ==
    \/ part = "chain" /\ Chain!Next /\ UNCHANGED <<part, readVars>>
    \/ part = "drain" /\ Drain!Next /\ UNCHANGED <<part, readVars>>
    \/ part = "cycle" /\ Cycle!Next /\ UNCHANGED <<part, readVars>>
    \/ part = "pair" /\ Pair!Next /\ UNCHANGED <<part, boxVars>>
    \/ part = "heal" /\ Heal!Next /\ UNCHANGED <<part, boxVars>>
    \/ part = "filter" /\ Filter!Next /\ UNCHANGED <<part, boxVars>>

(* The fairness of the modules, for the instances with liveness.           *)
Spec ==
    /\ Init /\ [][Next]_vars
    /\ WF_boxVars(part = "drain" /\ Drain!Sender) /\ WF_boxVars(part = "drain" /\ Drain!Drained)
    /\ \A e \in ChainOf :
        /\ WF_boxVars(part = "drain" /\ Drain!HandleAck(e)) /\ WF_boxVars(part = "drain" /\ Drain!RetryUpload(e))
        /\ WF_boxVars(part = "drain" /\ Drain!CloudStores(e))
    /\ WF_readVars(part = "heal" /\ Heal!AskAgain) /\ WF_readVars(part = "heal" /\ Heal!ApplyAnswer)
    /\ WF_readVars(part = "heal" /\ Heal!Recover) /\ WF_readVars(part = "heal" /\ Heal!Acked)
    /\ WF_readVars(part = "heal" /\ Heal!ReadLocal(r1)) /\ WF_readVars(part = "heal" /\ Heal!LockCloud(r1))
    /\ WF_readVars(part = "heal" /\ (Heal!CloudTips(r1) \/ Heal!Install(r1)))

----------------------------------------------------------------------------
(* The cloud is uploaded whole: expanding ancestry stops only at effects   *)
(* the cloud has stored, what it holds of ours it holds the history of, a  *)
(* key pinned for an un-acked write keeps its leaf, and Stop cancels the   *)
(* loop only with everything stored (cloud_outbox.go).                     *)
UploadsWhole ==
    /\ part = "chain" => Chain!TypeOK /\ Chain!KnownIsStored /\ Chain!NoHole
    /\ part = "cycle" => Cycle!PinnedIsFindable
    /\ part = "drain" => Drain!StopKeepsAll

(* No read of a key the cloud holds is a miss, one residency of a leaf has *)
(* one answered consult, and a leaf whose reads fail for a hole is in the  *)
(* reconcile set (cloud_read.go).                                          *)
ReadsMissNothing ==
    /\ part = "pair" => Pair!TypeOK /\ Pair!NoFalseMiss /\ Pair!OneConsult /\ Pair!HoleIsOwed
    /\ part = "filter" => Filter!NoFalseMiss

(* What was queued is stored in the end, and reads succeed once the cloud  *)
(* has a missing blob again.                                               *)
CloudCatchesUp ==
    /\ part = "drain" => Drain!Drains
    /\ part = "heal" => Heal!HoleHeals
=============================================================================
