------------------------------ MODULE Horizon ------------------------------
(***************************************************************************)
(* The horizon set of one node (effects/horizon.go) together with the      *)
(* threads that drive it: flushTx for the transactions this node           *)
(* originates, handleRemoteBind and applySnapshotVerdicts for those that   *)
(* arrive from peers, the fallback timers, and readers blocked in          *)
(* WaitForClear.                                                           *)
(*                                                                         *)
(* Every lock section of HorizonSet.mu is one step, so that a handler      *)
(* which takes the lock twice (Add, then ScheduleMakeVisible) can be       *)
(* interleaved with any other thread in between.  The order of h.groups is *)
(* abstracted: it only decides which of several overlapping groups absorbs *)
(* the others.  Durations are abstracted: an armed timer may fire at any   *)
(* time.  pendingTxTips is followed for the local transactions only.       *)
(***************************************************************************)
EXTENDS Naturals, FiniteSets

CONSTANTS
  Local,        \* transactions whose flushTx runs on this node
  Remote,       \* transactions whose bind arrives from a peer
  Tip,          \* consumed <<key, tip>> pairs
  Base,         \* Base[t]: the pairs the bind of t consumes
  AbortDeps,    \* AbortDeps[t]: transactions named by the bind's abort_deps
  Defeated,     \* Defeated[t]: transactions the verdicts of t record as LOST
  Group,        \* identities of horizonGroup objects
  Timer,        \* identities of horizonTimer objects
  Reader,       \* reconstructing readers
  NoGroup,
  NoTimer,
  MaxDeliveries \* bound: deliveries of one bind through HandleRemote

Txn == Local \cup Remote

ASSUME HorizonAssumption ==
  /\ Base \in [Txn -> SUBSET Tip]
  /\ AbortDeps \in [Remote -> SUBSET Txn]
  /\ Defeated \in [Remote -> SUBSET Txn]
  /\ Local \cap Remote = {}
  /\ NoGroup \notin Group
  /\ NoTimer \notin Timer
  /\ MaxDeliveries \in Nat

VARIABLES
  groups,      \* h.groups
  members,     \* members[g]: group.entries
  bases,       \* bases[g]: group.bases, as transactions
  timer,       \* timer[g]: group.timer
  groupOf,     \* groupOf[t]: entry.group, NoGroup when t has no entry
  timerGroup,  \* timerGroup[x]: the group a timer's callback will promote
  phase,       \* phase[x]: "idle", "armed", or "fired" (callback awaits h.mu)
  waiters,     \* waiters[t]: readers blocked on the entry's ready channel
  blocked,     \* every reader blocked on some ready channel
  pendingTx,   \* local transactions with new tips in engine.pendingTxTips
  indexed,     \* binds reachable from the tip index
  cleared,     \* history: binds that left the horizon or came by backfill
  pc,          \* pc[t]: where flushTx of a local transaction is
  decision,    \* decision[t]: pendingTxn.state of a local transaction
  deliveries,  \* deliveries[t]: HandleRemote calls made for the bind of t
  toSchedule,  \* toSchedule[t]: those between Add and ScheduleMakeVisible
  toIndex      \* toIndex[t]: those between ScheduleMakeVisible and updateIndex

groupVars == <<groups, members, bases, timer, groupOf, timerGroup, phase>>
readerVars == <<waiters, blocked>>
localVars == <<pc, decision>>
remoteVars == <<deliveries, toSchedule, toIndex>>
vars == <<groupVars, readerVars, localVars, remoteVars, pendingTx, indexed, cleared>>

\* h.entries: the invisible set
Entries == {t \in Txn : groupOf[t] # NoGroup}

SharesBase(a, b) == Base[a] \cap Base[b] # {}

Outcomes == {"committed", "aborted", "ambiguous"}

\* What HorizonSet.mu protects
GroupType ==
  /\ groups \subseteq Group
  /\ members \in [Group -> SUBSET Txn]
  /\ bases \in [Group -> SUBSET Txn]
  /\ timer \in [Group -> Timer \cup {NoTimer}]
  /\ groupOf \in [Txn -> Group \cup {NoGroup}]
  /\ timerGroup \in [Timer -> Group \cup {NoGroup}]
  /\ phase \in [Timer -> {"idle", "armed", "fired"}]

\* The threads outside the lock
CallerType ==
  /\ waiters \in [Txn -> SUBSET Reader]
  /\ blocked \subseteq Reader
  /\ pendingTx \subseteq Local
  /\ indexed \subseteq Txn
  /\ cleared \subseteq Txn
  /\ pc \in [Local -> {"idle", "published", "waiting", "returned", "alone"}]
  /\ decision \in [Local -> Outcomes \cup {"pending"}]
  /\ deliveries \in [Remote -> Nat]
  /\ toSchedule \in [Remote -> Nat]
  /\ toIndex \in [Remote -> Nat]

TypeOK == GroupType /\ CallerType

Init ==
  /\ groups = {}
  /\ members = [g \in Group |-> {}]
  /\ bases = [g \in Group |-> {}]
  /\ timer = [g \in Group |-> NoTimer]
  /\ groupOf = [t \in Txn |-> NoGroup]
  /\ timerGroup = [x \in Timer |-> NoGroup]
  /\ phase = [x \in Timer |-> "idle"]
  /\ waiters = [t \in Txn |-> {}]
  /\ blocked = {}
  /\ pendingTx = {}
  /\ indexed = {}
  /\ cleared = {}
  /\ pc = [t \in Local |-> "idle"]
  /\ decision = [t \in Local |-> "pending"]
  /\ deliveries = [t \in Remote |-> 0]
  /\ toSchedule = [t \in Remote |-> 0]
  /\ toIndex = [t \in Remote |-> 0]

-----------------------------------------------------------------------------
(* The lock sections of HorizonSet *)

\* time.Timer.Stop: prevents an armed timer from firing, but cannot recall a
\* callback that is already waiting for the lock.
Stop(ph, S) ==
  [x \in Timer |-> IF x \in S /\ ph[x] = "armed" THEN "idle" ELSE ph[x]]

\* pruneGroups, given the entries, bases, timers and timer phases the caller
\* has just written.
PruneGroups(ms, bs, tm, ph) ==
  LET dead == {g \in groups : ms[g] = {}} IN
  /\ groups' = groups \ dead
  /\ members' = ms
  /\ bases' = [g \in Group |-> IF g \in dead THEN {} ELSE bs[g]]
  /\ timer' = [g \in Group |-> IF g \in dead THEN NoTimer ELSE tm[g]]
  /\ phase' = Stop(ph, {tm[g] : g \in dead})

\* Mutant: the pending tips outlive the entry.
ResolveKeepingTips(S) ==
  /\ UNCHANGED pendingTx
  /\ groupOf' = [t \in Txn |-> IF t \in S THEN NoGroup ELSE groupOf[t]]
  /\ blocked' = blocked \ UNION {waiters[t] : t \in S}
  /\ waiters' = [t \in Txn |-> IF t \in S THEN {} ELSE waiters[t]]
  /\ cleared' = cleared \cup S

\* resolve, for each entry of S: forget its pending tips and its entry, and
\* close its ready channel.
Resolve(S) ==
  /\ pendingTx' = pendingTx \ S
  /\ groupOf' = [t \in Txn |-> IF t \in S THEN NoGroup ELSE groupOf[t]]
  /\ blocked' = blocked \ UNION {waiters[t] : t \in S}
  /\ waiters' = [t \in Txn |-> IF t \in S THEN {} ELSE waiters[t]]
  /\ cleared' = cleared \cup S

\* Mutant: the bases of aborted members are forgotten.
OverlappingMembers(t) == {g \in groups : \E b \in members[g] : SharesBase(b, t)}

\* The groups a new bind shares a base with, retained bases of aborted members
\* included.
Overlapping(t) == {g \in groups : \E b \in bases[g] : SharesBase(b, t)}

NewGroup(t) ==
  \E g \in Group \ groups :
    /\ groups' = groups \cup {g}
    /\ members' = [members EXCEPT ![g] = {t}]
    /\ bases' = [bases EXCEPT ![g] = {t}]
    /\ groupOf' = [groupOf EXCEPT ![t] = g]
    /\ UNCHANGED <<timer, timerGroup, phase>>

\* Mutant: the bind joins one overlapping group and leaves the others apart.
MergeFirstOnly(t, target) ==
  /\ members' = [members EXCEPT ![target] = @ \cup {t}]
  /\ bases' = [bases EXCEPT ![target] = @ \cup {t}]
  /\ groupOf' = [groupOf EXCEPT ![t] = target]
  /\ UNCHANGED <<groups, timer, timerGroup, phase>>

\* Mutant: the absorbed group's timer is not taken over.
OwnTimerOnly(t, target) == {timer[target]}

\* The timer of the merged group: target's own, or else one of those it absorbs.
AdoptedTimer(t, target) ==
  LET offered == {timer[g] : g \in {h \in Overlapping(t) : timer[h] # NoTimer}} IN
  IF timer[target] = NoTimer /\ offered # {} THEN offered ELSE {timer[target]}

\* timer.group = target
SetTimerGroup(x, target) ==
  [y \in Timer |-> IF y = x THEN target ELSE timerGroup[y]]

\* entry.group = target, for the new entry and for the absorbed ones.
SetEntryGroups(t, target) ==
  [u \in Txn |-> IF u = t \/ groupOf[u] \in Overlapping(t) THEN target ELSE groupOf[u]]

\* The bind joins target, which absorbs every other overlapping group and, if
\* it has no timer itself, takes over one of theirs.
MergeInto(t, target) ==
  LET hit == Overlapping(t) IN
  \E adopted \in AdoptedTimer(t, target) :
    /\ PruneGroups(
         [g \in Group |->
            IF g = target THEN {t} \cup UNION {members[h] : h \in hit}
            ELSE IF g \in hit THEN {} ELSE members[g]],
         [bases EXCEPT ![target] = {t} \cup UNION {bases[h] : h \in hit}],
         [g \in Group |->
            IF g = target THEN adopted
            ELSE IF timer[g] = adopted THEN NoTimer ELSE timer[g]],
         phase)
    /\ timerGroup' = SetTimerGroup(adopted, target)
    /\ groupOf' = SetEntryGroups(t, target)

\* Mutant: a redelivered bind replaces its entry, and with it the ready
\* channel that readers already wait on.
AddReplacing(t) ==
  /\ waiters' = [waiters EXCEPT ![t] = {}]
  /\ IF t \in Entries
     THEN UNCHANGED groupVars
     ELSE IF Overlapping(t) = {}
          THEN NewGroup(t)
          ELSE \E target \in Overlapping(t) : MergeInto(t, target)

\* HorizonSet.Add
Add(t) ==
  /\ UNCHANGED waiters
  /\ \/ /\ t \in Entries
        /\ UNCHANGED groupVars
     \/ /\ t \notin Entries
        /\ Overlapping(t) = {}
        /\ NewGroup(t)
     \/ /\ t \notin Entries
        /\ \E target \in Overlapping(t) : MergeInto(t, target)

\* HorizonSet.ScheduleMakeVisible
ScheduleMakeVisible(t) ==
  \/ /\ t \notin Entries
     /\ UNCHANGED groupVars
  \/ /\ t \in Entries
     /\ LET g == groupOf[t] IN
        \E x \in {y \in Timer : phase[y] = "idle"} :
          /\ phase' = [Stop(phase, {timer[g]}) EXCEPT ![x] = "armed"]
          /\ timer' = [timer EXCEPT ![g] = x]
          /\ timerGroup' = [timerGroup EXCEPT ![x] = g]
          /\ UNCHANGED <<groups, members, bases, groupOf>>

\* makeGroupVisible: every member is promoted in the same lock section.
MakeGroupVisible(g, ph) ==
  /\ Resolve(members[g])
  /\ PruneGroups([members EXCEPT ![g] = {}], bases, timer, ph)
  /\ UNCHANGED timerGroup

\* HorizonSet.MakeVisible
MakeVisible(t) ==
  \/ /\ t \notin Entries
     /\ UNCHANGED <<groupVars, readerVars, pendingTx, cleared>>
  \/ /\ t \in Entries
     /\ MakeGroupVisible(groupOf[t], phase)

\* HorizonSet.Abort: only this entry leaves; its base stays with the group.
Abort(t) ==
  \/ /\ t \notin Entries
     /\ UNCHANGED <<groupVars, readerVars, pendingTx, cleared>>
  \/ /\ t \in Entries
     /\ Resolve({t})
     /\ PruneGroups([members EXCEPT ![groupOf[t]] = @ \ {t}], bases, timer, phase)
     /\ UNCHANGED timerGroup

-----------------------------------------------------------------------------
(* flushTx of a local transaction, from the publication of its bind on *)

\* Steps 1 to 4: the new tips are registered, the bind is minted and indexed,
\* and the pendingTxn is stored.
LocalPublish(t) ==
  /\ pc[t] = "idle"
  /\ pc' = [pc EXCEPT ![t] = "published"]
  /\ pendingTx' = pendingTx \cup {t}
  /\ indexed' = indexed \cup {t}
  /\ UNCHANGED <<groupVars, readerVars, remoteVars, decision, cleared>>

\* Step 5 without subscribers: commit at once, the horizon is not involved.
LocalCommitAlone(t) ==
  /\ pc[t] = "published"
  /\ pc' = [pc EXCEPT ![t] = "alone"]
  /\ decision' = [decision EXCEPT ![t] = IF @ = "pending" THEN "committed" ELSE @]
  /\ UNCHANGED <<groupVars, readerVars, remoteVars, pendingTx, indexed, cleared>>

\* Step 5 with subscribers: the bind is hidden before it is replicated.
LocalAdd(t) ==
  /\ pc[t] = "published"
  /\ pc' = [pc EXCEPT ![t] = "waiting"]
  /\ Add(t)
  /\ UNCHANGED <<blocked, remoteVars, decision, pendingTx, indexed, cleared>>

\* ptxn.finish, from flushTx's own count of the answers or from HandleNack.
LocalDecide(t, d) ==
  /\ pc[t] = "waiting"
  /\ decision[t] = "pending"
  /\ decision' = [decision EXCEPT ![t] = d]
  /\ UNCHANGED <<groupVars, readerVars, remoteVars, pc, pendingTx, indexed, cleared>>

\* The visibility call that follows the decision, and the return of flushTx.
LocalReturn(t) ==
  /\ pc[t] = "waiting"
  /\ decision[t] # "pending"
  /\ pc' = [pc EXCEPT ![t] = "returned"]
  /\ IF decision[t] = "committed" THEN MakeVisible(t) ELSE Abort(t)
  /\ UNCHANGED <<remoteVars, decision, indexed>>

-----------------------------------------------------------------------------
(* Messages from peers *)

\* HandleRemote of a bind, up to and including horizon.Add.  A bind may be
\* delivered again at any time: HandleRemote does not recognise duplicates.
RemoteBindAdd(t) ==
  /\ deliveries[t] < MaxDeliveries
  /\ deliveries' = [deliveries EXCEPT ![t] = @ + 1]
  /\ toSchedule' = [toSchedule EXCEPT ![t] = @ + 1]
  /\ Add(t)
  /\ UNCHANGED <<blocked, localVars, toIndex, pendingTx, indexed, cleared>>

\* The same handler: horizon.ScheduleMakeVisible, in a second lock section.
RemoteBindSchedule(t) ==
  /\ toSchedule[t] > 0
  /\ toSchedule' = [toSchedule EXCEPT ![t] = @ - 1]
  /\ toIndex' = [toIndex EXCEPT ![t] = @ + 1]
  /\ ScheduleMakeVisible(t)
  /\ UNCHANGED <<readerVars, localVars, deliveries, pendingTx, indexed, cleared>>

\* The rest of the handler: abort_deps, then the index update.
RemoteBindIndex(t) ==
  /\ toIndex[t] > 0
  /\ toIndex' = [toIndex EXCEPT ![t] = @ - 1]
  /\ pendingTx' = pendingTx \ AbortDeps[t]
  /\ decision' = [u \in Local |->
       IF /\ u \in AbortDeps[t]
          /\ pc[u] \in {"published", "waiting"}
          /\ decision[u] = "pending"
       THEN "aborted" ELSE decision[u]]
  /\ indexed' = indexed \cup {t}
  /\ UNCHANGED <<groupVars, readerVars, pc, deliveries, toSchedule, cleared>>

\* handleBackfill of a bind: indexed without a horizon wait.
Backfill(t) ==
  /\ indexed' = indexed \cup {t}
  /\ cleared' = cleared \cup {t}
  /\ UNCHANGED <<groupVars, readerVars, localVars, remoteVars, pendingTx>>

\* applySnapshotVerdicts, for one transaction of the verdict snapshot that the
\* originator of w emitted when w committed.
Verdict(w, t) ==
  /\ t \in {w} \cup Defeated[w]
  /\ t \in Local => pc[t] # "idle"
  /\ MakeVisible(t)
  /\ UNCHANGED <<localVars, remoteVars, indexed>>

-----------------------------------------------------------------------------
(* Timers and readers *)

TimerFires(x) ==
  /\ phase[x] = "armed"
  /\ phase' = [phase EXCEPT ![x] = "fired"]
  /\ UNCHANGED <<groups, members, bases, timer, groupOf, timerGroup,
                 readerVars, localVars, remoteVars, pendingTx, indexed, cleared>>

\* Mutant: the callback promotes its group without checking that it is still
\* the group's timer.
TimerCallbackUnchecked(x) ==
  /\ phase[x] = "fired"
  /\ MakeGroupVisible(timerGroup[x], [phase EXCEPT ![x] = "idle"])
  /\ UNCHANGED <<localVars, remoteVars, indexed>>

\* The callback of ScheduleMakeVisible.
TimerCallback(x) ==
  /\ phase[x] = "fired"
  /\ LET ph == [phase EXCEPT ![x] = "idle"] IN
     \/ /\ timer[timerGroup[x]] = x
        /\ MakeGroupVisible(timerGroup[x], ph)
     \/ /\ timer[timerGroup[x]] # x
        /\ phase' = ph
        /\ UNCHANGED <<groups, members, bases, timer, groupOf, timerGroup,
                       readerVars, pendingTx, cleared>>
  /\ UNCHANGED <<localVars, remoteVars, indexed>>

\* WaitForClear, called by reconstruct for a bind it has walked to.
WaitForClear(r, t) ==
  /\ r \notin blocked
  /\ t \in indexed \cap Entries
  /\ waiters' = [waiters EXCEPT ![t] = @ \cup {r}]
  /\ blocked' = blocked \cup {r}
  /\ UNCHANGED <<groupVars, localVars, remoteVars, pendingTx, indexed, cleared>>

LocalStep(t) ==
  \/ LocalAdd(t)
  \/ LocalCommitAlone(t)
  \/ \E d \in Outcomes : LocalDecide(t, d)
  \/ LocalReturn(t)

Next ==
  \/ \E t \in Local : LocalPublish(t) \/ LocalStep(t)
  \/ \E t \in Remote : RemoteBindAdd(t) \/ RemoteBindSchedule(t)
                       \/ RemoteBindIndex(t) \/ Backfill(t)
  \/ \E w \in Remote, t \in Txn : Verdict(w, t)
  \/ \E x \in Timer : TimerFires(x) \/ TimerCallback(x)
  \/ \E r \in Reader, t \in Txn : WaitForClear(r, t)

Spec == Init /\ [][Next]_vars

\* An armed timer fires, a callback gets the lock, and a handler or a flushTx
\* that has started runs to its end (its replication calls time out).  Nothing
\* obliges a peer to send anything.
Fairness ==
  /\ \A t \in Local : WF_vars(LocalStep(t))
  /\ \A t \in Remote : WF_vars(RemoteBindSchedule(t)) /\ WF_vars(RemoteBindIndex(t))
  /\ \A x \in Timer : WF_vars(TimerFires(x)) /\ WF_vars(TimerCallback(x))

FairSpec == Spec /\ Fairness

-----------------------------------------------------------------------------
(* Properties *)

\* The two directions of the entry/group link agree: every entry is listed by
\* exactly the group it points to, only live groups list entries, and no live
\* group is empty (horizon.go: "owns groups, entry.group, and all lifecycle
\* mutations").
GroupsPartitionEntries ==
  /\ \A t \in Txn, g \in Group : t \in members[g] <=> groupOf[t] = g
  /\ groups = {g \in Group : members[g] # {}}
  /\ \A g \in Group : members[g] \subseteq bases[g]
  /\ \A g \in Group \ groups : bases[g] = {}

\* Binds that share a consumed tip never wait in different groups, not even
\* when the bind that linked them has been aborted since (horizon.go: "later
\* arrivals must still join the same overlapping group").
CompetitorsShareGroup ==
  \A g, h \in groups :
    g # h => \A a \in bases[g], b \in bases[h] : ~SharesBase(a, b)

\* A timer that is armed is the timer of the live group its callback will
\* promote, and a group's timer is never a dead one: merging moves a timer
\* together with its back-pointer, and dropping a group leaves none running.
TimersFollowGroups ==
  /\ \A x \in Timer : phase[x] = "armed" =>
       /\ timerGroup[x] \in groups
       /\ timer[timerGroup[x]] = x
  /\ \A g \in Group : timer[g] # NoTimer =>
       /\ g \in groups
       /\ phase[timer[g]] # "idle"
       /\ timerGroup[timer[g]] = g
  /\ \A x \in Timer : phase[x] # "idle" => timerGroup[x] \in Group

\* Whatever merges, aborts, duplicates and stale timers happen, a bind held on
\* behalf of a peer always has a trigger left: its group's timer, or a handler
\* that is about to schedule one.  Otherwise a dead originator would leave
\* readers blocked for ever.
RemoteEntryHasTrigger ==
  \A t \in Remote \cap Entries :
    timer[groupOf[t]] # NoTimer \/ toSchedule[t] > 0

\* A local entry's trigger is its flushTx, which is still in its wait.
LocalEntryHasTrigger ==
  \A t \in Local \cap Entries : pc[t] = "waiting"

\* Every blocked reader waits on the ready channel of an entry that is still in
\* the set, so some resolve will close it ("A redelivered bind must not replace
\* an entry with blocked readers").
BlockedReaderHasEntry ==
  /\ \A r \in blocked : \E t \in Entries : r \in waiters[t]
  /\ \A t \in Txn : waiters[t] # {} => t \in Entries /\ waiters[t] \subseteq blocked

\* A bind from a peer is hidden from the first moment a reader can reach it
\* until something released it (handleRemoteBind: "a reader sees the bind, then
\* later a competitor arrives and reconstruct picks a different winner").
RemoteBindHeldWhenIndexed ==
  \A t \in Remote \cap indexed : t \in Entries \cup cleared

\* When flushTx of a replicated transaction returns, its bind is out of the
\* horizon and its tips are no longer pending, whichever thread resolved it.
ReturnedLeavesNothingBehind ==
  \A t \in Local : pc[t] = "returned" => t \notin Entries /\ t \notin pendingTx

\* The bookkeeping of the set holds together at every release of its lock: the
\* groups partition the held binds, timers and groups point at each other,
\* whoever waits waits for an entry that something will resolve, and neither a
\* released nor an unreleased bind is half in the set (horizon.go).
HorizonConsistent ==
  /\ TypeOK
  /\ GroupsPartitionEntries
  /\ TimersFollowGroups
  /\ LocalEntryHasTrigger
  /\ BlockedReaderHasEntry
  /\ RemoteBindHeldWhenIndexed
  /\ ReturnedLeavesNothingBehind

\* Competing binds become visible in one step: one of them leaves the horizon
\* without the other only by the abort of its own flushTx.
CompetitorsPromotedTogether ==
  [][\A a, b \in Entries :
       SharesBase(a, b) /\ a \notin Entries' /\ b \in Entries'
         => a \in Local /\ decision[a] \in {"aborted", "ambiguous"}]_vars

\* A callback that lost the race with Stop ("Stop may race with a callback
\* already waiting for the lock") resolves nothing.
StaleTimerIsInert ==
  [][\A x \in Timer :
       /\ phase[x] = "fired"
       /\ phase'[x] = "idle"
       /\ \A g \in groups : timer[g] # x
       => UNCHANGED <<groups, members, groupOf, pendingTx, blocked>>]_vars

\* A reader blocked on a bind in its horizon wait is eventually released.
BlockedReaderWakes == \A r \in Reader : r \in blocked ~> r \notin blocked

\* Every bind leaves the horizon, with or without a verdict from its originator.
EveryEntryResolves == \A t \in Txn : t \in Entries ~> t \notin Entries
=============================================================================
