--------------------------- MODULE DurableRecovery ---------------------------
(***************************************************************************)
(* The start of an engine with a data directory (effects/durability.go):   *)
(* openDurability, restoreEffects and the memory watch that may cancel     *)
(* them. Workers decode records in any order and note causal edges per     *)
(* key; the frontiers are installed once all records were read. Under      *)
(* memory pressure the partial state is dropped and, after a grace period, *)
(* the mirror too.                                                         *)
(***************************************************************************)
EXTENDS Naturals, FiniteSets, Functions

CONSTANTS Effects,   \* effects that may be mirrored
          Keys,
          Consumes   \* [e \in Effects |-> [its keys -> the effects it consumes there]]

VARIABLES mirror,    \* the effects on storage
          phase,     \* control of openDurability
          decoded,   \* effects in effectCache
          adds,      \* <<effect, key>> decoded and not yet noted
          tips,      \* recoveryShard.keys: key -> effect -> frontier candidate?
          index,     \* e.index
          cause,     \* why recoverCtx was cancelled: "", "memory", "caller"
          corrupt    \* whether some record does not decode

vars == <<mirror, phase, decoded, adds, tips, index, cause, corrupt>>

NoTips == [k \in Keys |-> {}]
NoCandidates == [k \in Keys |-> <<>>]

Init ==
    /\ mirror \in SUBSET Effects
    /\ phase = "restore"
    /\ decoded = {} /\ adds = {}
    /\ tips = NoCandidates
    /\ index = NoTips
    /\ cause = ""
    /\ corrupt \in {e \in SUBSET mirror : Cardinality(e) <= 1}

-----------------------------------------------------------------------------
(* The context of the recovery.                                            *)

\* checkMemory of the watch, the governor or a worker finds the heap too large.
Pressure ==
    /\ phase \in {"restore", "install"} /\ cause = ""
    /\ cause' = "memory"
    /\ UNCHANGED <<mirror, phase, decoded, adds, tips, index, corrupt>>

\* The caller gives up.
Cancel ==
    /\ phase \notin {"serving", "stopped"} /\ cause # "caller"
    /\ cause' = IF cause = "" \/ phase \in {"grace", "erased"} THEN "caller" ELSE cause
    /\ cause' # cause
    /\ UNCHANGED <<mirror, phase, decoded, adds, tips, index, corrupt>>

-----------------------------------------------------------------------------
(* restoreEffects.                                                         *)

Decode(e) ==
    /\ phase = "restore" /\ cause = ""
    /\ e \in mirror \ (decoded \cup corrupt)
    /\ decoded' = decoded \cup {e}
    /\ adds' = adds \cup {<<e, k>> : k \in DOMAIN Consumes[e]}
    /\ UNCHANGED <<mirror, phase, tips, index, cause, corrupt>>

\* Mutant: an edge that arrived before its vertex is forgotten.
NotedAlways(t, e, consumed) ==
    [x \in DOMAIN t \cup {e} \cup consumed |-> x \notin consumed /\ (x = e \/ t[x])]

\* add: the vertex is a candidate unless an edge to it was seen before.
Noted(t, e, consumed) ==
    [x \in DOMAIN t \cup {e} \cup consumed |->
        CASE x \in consumed -> FALSE
          [] x \in DOMAIN t \ consumed -> t[x]
          [] OTHER -> TRUE]

Add(e, k) ==
    /\ <<e, k>> \in adds
    /\ adds' = adds \ {<<e, k>>}
    /\ tips' = [tips EXCEPT ![k] = Noted(@, e, Consumes[e][k])]
    /\ UNCHANGED <<mirror, phase, decoded, index, cause, corrupt>>

\* A record that does not decode ends the recovery with an error.
Fail ==
    /\ phase = "restore" /\ cause = "" /\ corrupt # {}
    /\ phase' = "stopped"
    /\ UNCHANGED <<mirror, decoded, adds, tips, index, cause, corrupt>>

Read ==
    /\ phase = "restore" /\ cause = "" /\ adds = {}
    /\ decoded = mirror
    /\ phase' = "install"
    /\ UNCHANGED <<mirror, decoded, adds, tips, index, cause, corrupt>>

InstallFrontier(k) ==
    /\ phase = "install" /\ cause = "" /\ tips[k] # <<>>
    /\ index' = [index EXCEPT ![k] = {x \in DOMAIN tips[k] : tips[k][x]}]
    /\ tips' = [tips EXCEPT ![k] = <<>>]
    /\ UNCHANGED <<mirror, phase, decoded, adds, cause, corrupt>>

-----------------------------------------------------------------------------
(* openDurability after restoreEffects returned.                           *)

Serve ==
    /\ phase = "install" /\ tips = NoCandidates /\ cause = ""
    /\ phase' = "serving"
    /\ UNCHANGED <<mirror, decoded, adds, tips, index, cause, corrupt>>

\* Workers are drained, the index and the pool replaced by empty ones.
Drop ==
    /\ phase \in {"restore", "install"} /\ cause = "memory" /\ adds = {}
    /\ phase' = "grace"
    /\ decoded' = {} /\ tips' = NoCandidates /\ index' = NoTips
    /\ UNCHANGED <<mirror, adds, cause, corrupt>>

GiveUp ==
    /\ phase \in {"restore", "install", "grace"} /\ cause = "caller"
    /\ phase' = "stopped"
    /\ UNCHANGED <<mirror, decoded, adds, tips, index, cause, corrupt>>

\* The grace period is over: Store.Reset, or Discard when it never opened.
Erase ==
    /\ phase = "grace" /\ cause = "memory"
    /\ mirror' = {} /\ corrupt' = {}
    /\ phase' = "erased"
    /\ UNCHANGED <<decoded, adds, tips, index, cause>>

ServeEmpty ==
    /\ phase = "erased"
    /\ phase' = IF cause = "caller" THEN "stopped" ELSE "serving"
    /\ UNCHANGED <<mirror, decoded, adds, tips, index, cause, corrupt>>

Ended == phase \in {"serving", "stopped"} /\ UNCHANGED vars

Next ==
    \/ \E e \in Effects : Decode(e) \/ \E k \in DOMAIN Consumes[e] : Add(e, k)
    \/ \E k \in Keys : InstallFrontier(k)
    \/ Pressure \/ Cancel \/ Fail \/ Read \/ Serve \/ Drop \/ GiveUp \/ Erase \/ ServeEmpty \/ Ended

Spec == Init /\ [][Next]_vars /\ WF_vars(Next)

-----------------------------------------------------------------------------
(* TypeOK: the index holds only decoded effects. *)
TypeOK ==
    /\ phase \in {"restore", "install", "grace", "erased", "serving", "stopped"}
    /\ \A k \in Keys : index[k] \subseteq decoded
    /\ decoded \subseteq mirror

(* An engine that serves has all of its mirror in memory or an empty one:  *)
(* a partial recovery is never served, since its frontiers would be wrong. *)
ServesWholeMirror == phase = "serving" => decoded = mirror

(* The frontier of every key is what no recovered effect consumes there,   *)
(* whatever the order in which files and workers delivered the records.    *)
FrontierExact ==
    phase = "serving" =>
        \A k \in Keys : index[k] =
            {e \in mirror : /\ k \in DOMAIN Consumes[e]
                            /\ \A f \in mirror : k \in DOMAIN Consumes[f] => e \notin Consumes[f][k]}
=============================================================================
