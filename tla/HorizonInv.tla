----------------------------- MODULE HorizonInv -----------------------------
(***************************************************************************)
(* The inductive invariant HInv of Horizon and its lemmas.  Each lock      *)
(* section of HorizonSet preserves GroupInv, which speaks only of the      *)
(* state HorizonSet.mu protects, and either releases a set of entries      *)
(* (Releases) or keeps every entry (Retains).  HInv is preserved by either *)
(* (ReleaseKeepsInv, RetainKeepsInv), given what the thread that runs it   *)
(* does outside the lock.                                                  *)
(***************************************************************************)
EXTENDS Horizon, TLAPS

-----------------------------------------------------------------------------
(* The lock sections *)

\* What every lock section of HorizonSet finds and must leave.
GroupInv ==
  /\ GroupType
  /\ GroupsPartitionEntries
  /\ CompetitorsShareGroup
  /\ TimersFollowGroups

\* bindsShareBase does not depend on the order of its arguments.
LEMMA SharesBaseSymmetric ==
  ASSUME NEW a \in Txn, NEW b \in Txn, SharesBase(a, b)
  PROVE  SharesBase(b, a)
BY DEF SharesBase

\* HorizonSet.Add of a bind that overlaps no group: the group it opens shares no
\* base with another, so the partition of entries into groups is preserved.
LEMMA NewGroupKeepsInv ==
  ASSUME GroupInv, NEW t \in Txn, t \notin Entries,
         Overlapping(t) = {}, NewGroup(t)
  PROVE  GroupInv'
<1> PICK g \in Group \ groups :
      /\ groups' = groups \cup {g}
      /\ members' = [members EXCEPT ![g] = {t}]
      /\ bases' = [bases EXCEPT ![g] = {t}]
      /\ groupOf' = [groupOf EXCEPT ![t] = g]
      /\ UNCHANGED <<timer, timerGroup, phase>>
  BY Zenon DEF NewGroup
<1> USE HorizonAssumption
<1>1. GroupType'
  BY DEF GroupInv, GroupType
<1>2. groupOf[t] = NoGroup /\ members[g] = {} /\ bases[g] = {}
  BY DEF GroupInv, GroupType, GroupsPartitionEntries, Entries
<1>3. GroupsPartitionEntries'
  BY <1>1, <1>2 DEF GroupInv, GroupType, GroupsPartitionEntries
<1>4. CompetitorsShareGroup'
  <2> SUFFICES ASSUME NEW h \in groups', NEW k \in groups', h # k,
                      NEW a \in bases'[h], NEW b \in bases'[k], SharesBase(a, b)
               PROVE  FALSE
    BY DEF CompetitorsShareGroup
  <2>1. CASE h = g
    BY <2>1, <1>2, SharesBaseSymmetric DEF Overlapping, GroupInv, GroupType
  <2>2. CASE k = g
    BY <2>2, <1>2 DEF Overlapping, GroupInv, GroupType
  <2>3. CASE h # g /\ k # g
    BY <2>3 DEF GroupInv, GroupType, CompetitorsShareGroup
  <2> QED BY <2>1, <2>2, <2>3
<1>5. TimersFollowGroups'
  BY <1>2 DEF GroupInv, GroupType, TimersFollowGroups
<1> QED BY <1>1, <1>3, <1>4, <1>5 DEF GroupInv

\* HorizonSet.Add of a bind that overlaps some groups: merging them preserves the
\* partition, and the merged group is without a timer only if none of the absorbed
\* groups had one.
LEMMA MergeIntoKeepsInv ==
  ASSUME GroupInv, NEW t \in Txn, t \notin Entries,
         NEW target \in Overlapping(t), MergeInto(t, target)
  PROVE  /\ GroupInv'
         /\ timer'[target] = NoTimer
              => \A g \in Overlapping(t) : timer[g] = NoTimer
         /\ groupOf' = [u \in Txn |->
              IF u = t \/ groupOf[u] \in Overlapping(t) THEN target ELSE groupOf[u]]
         /\ \A g \in groups \ Overlapping(t) : timer'[g] = timer[g]
<1> USE HorizonAssumption
<1> DEFINE hit == Overlapping(t)
           offered == {timer[g] : g \in {h \in hit : timer[h] # NoTimer}}
           ms == [g \in Group |->
               IF g = target THEN {t} \cup UNION {members[h] : h \in hit}
               ELSE IF g \in hit THEN {} ELSE members[g]]
           bs == [bases EXCEPT ![target] = {t} \cup UNION {bases[h] : h \in hit}]
           tm(x) == [g \in Group |->
               IF g = target THEN x
               ELSE IF timer[g] = x THEN NoTimer ELSE timer[g]]
<1>1. PICK x \in IF timer[target] = NoTimer /\ offered # {}
                 THEN offered ELSE {timer[target]} :
        /\ PruneGroups(ms, bs, tm(x), phase)
        /\ timerGroup' = [y \in Timer |-> IF y = x THEN target ELSE timerGroup[y]]
        /\ groupOf' = [u \in Txn |->
             IF u = t \/ groupOf[u] \in hit THEN target ELSE groupOf[u]]
  BY Zenon DEF MergeInto, AdoptedTimer, SetTimerGroup, SetEntryGroups
<1>2. target \in groups /\ target \in Group /\ hit \subseteq groups /\ groups \subseteq Group
  BY DEF Overlapping, GroupInv, GroupType
<1>3. groupOf[t] = NoGroup /\ \A g \in Group : t \notin members[g]
  BY DEF GroupInv, GroupType, GroupsPartitionEntries, Entries
<1>4. groups' = groups \ (hit \ {target})
  <2>1. {g \in groups : ms[g] = {}} = hit \ {target}
    BY <1>2, Zenon DEF GroupInv, GroupType, GroupsPartitionEntries
  <2> HIDE DEF ms, bs, tm, hit
  <2> QED BY <1>1, <2>1 DEF PruneGroups, Stop
<1>5. /\ members' = ms
      /\ bases' = [g \in Group |-> IF g \in hit \ {target} THEN {} ELSE bs[g]]
      /\ timer' = [g \in Group |-> IF g \in hit \ {target} THEN NoTimer ELSE tm(x)[g]]
      /\ phase' = [y \in Timer |->
           IF (\E g \in hit \ {target} : y = tm(x)[g]) /\ phase[y] = "armed"
           THEN "idle" ELSE phase[y]]
  <2>1. {g \in groups : ms[g] = {}} = hit \ {target}
    BY <1>2, Zenon DEF GroupInv, GroupType, GroupsPartitionEntries
  <2> HIDE DEF ms, bs, tm, hit
  <2> QED BY <1>1, <2>1 DEF PruneGroups, Stop
<1>6. /\ x \in Timer \cup {NoTimer}
      /\ x = NoTimer => timer[target] = NoTimer /\ offered = {}
  <2>1. offered \subseteq Timer /\ NoTimer \notin offered /\ timer[target] \in Timer \cup {NoTimer}
    BY <1>2 DEF GroupInv, GroupType
  <2> HIDE DEF offered
  <2> QED BY <1>1, <2>1
<1>7. GroupType'
  <2>1. members' \in [Group -> SUBSET Txn]
    BY <1>5, <1>2 DEF GroupInv, GroupType
  <2>2. bases' \in [Group -> SUBSET Txn]
    BY <1>5, <1>2 DEF GroupInv, GroupType
  <2>3. timer' \in [Group -> Timer \cup {NoTimer}]
    BY <1>5, <1>6 DEF GroupInv, GroupType
  <2>4. phase' \in [Timer -> {"idle", "armed", "fired"}]
    BY <1>5 DEF GroupInv, GroupType
  <2>5. groupOf' \in [Txn -> Group \cup {NoGroup}]
    BY <1>1, <1>2 DEF GroupInv, GroupType
  <2>6. timerGroup' \in [Timer -> Group \cup {NoGroup}]
    BY <1>1, <1>2 DEF GroupInv, GroupType
  <2> QED BY <2>1, <2>2, <2>3, <2>4, <2>5, <2>6, <1>4, <1>2 DEF GroupType
<1>8. GroupsPartitionEntries'
  <2>1. ASSUME NEW u \in Txn, NEW g \in Group
        PROVE  u \in members'[g] <=> groupOf'[u] = g
    BY <1>1, <1>2, <1>3, <1>5 DEF GroupInv, GroupType, GroupsPartitionEntries
  <2>2. groups' = {g \in Group : members'[g] # {}}
    BY <1>2, <1>4, <1>5 DEF GroupInv, GroupType, GroupsPartitionEntries
  <2>3. ASSUME NEW g \in Group PROVE members'[g] \subseteq bases'[g]
    BY <1>2, <1>5 DEF GroupInv, GroupType, GroupsPartitionEntries
  <2>4. ASSUME NEW g \in Group \ groups' PROVE bases'[g] = {}
    BY <1>2, <1>4, <1>5 DEF GroupInv, GroupType, GroupsPartitionEntries
  <2> QED BY <2>1, <2>2, <2>3, <2>4 DEF GroupsPartitionEntries
<1>9. CompetitorsShareGroup'
  <2> SUFFICES ASSUME NEW g \in groups', NEW h \in groups', g # h,
                      NEW a \in bases'[g], NEW b \in bases'[h], SharesBase(a, b)
               PROVE  FALSE
    BY DEF CompetitorsShareGroup
  <2>0. g \in Group /\ h \in Group /\ a \in Txn /\ b \in Txn
    BY <1>7 DEF GroupType
  <2>1. \A k \in groups' \ {target} : k \in groups \ hit /\ bases'[k] = bases[k]
    BY <1>2, <1>4, <1>5 DEF GroupInv, GroupType
  <2>2. bases'[target] = {t} \cup UNION {bases[k] : k \in hit}
    BY <1>2, <1>5 DEF GroupInv, GroupType
  <2>3. CASE g = target
    <3>1. h \in groups \ hit /\ b \in bases[h]
      BY <2>1, <2>3
    <3>2. SharesBase(b, a)
      BY <2>0, SharesBaseSymmetric
    <3>3. a # t
      BY <3>1, <3>2 DEF Overlapping
    <3>4. PICK k \in hit : a \in bases[k]
      BY <2>2, <2>3, <3>3
    <3> QED BY <1>2, <3>1, <3>4 DEF GroupInv, CompetitorsShareGroup
  <2>4. CASE h = target
    <3>1. g \in groups \ hit /\ a \in bases[g]
      BY <2>1, <2>4
    <3>3. b # t
      BY <3>1 DEF Overlapping
    <3>4. PICK k \in hit : b \in bases[k]
      BY <2>2, <2>4, <3>3
    <3> QED BY <1>2, <3>1, <3>4 DEF GroupInv, CompetitorsShareGroup
  <2>5. CASE g # target /\ h # target
    BY <2>1, <2>5 DEF GroupInv, CompetitorsShareGroup
  <2> QED BY <2>3, <2>4, <2>5
<1>10. ASSUME NEW g \in Group, timer[g] # NoTimer
       PROVE  g \in groups /\ phase[timer[g]] # "idle" /\ timerGroup[timer[g]] = g
  BY <1>10 DEF GroupInv, TimersFollowGroups
<1>11. x = timer[target] \/ (timer[target] = NoTimer /\ x # NoTimer
                              /\ timerGroup[x] \in hit /\ timer[timerGroup[x]] = x)
  BY <1>1, <1>2, <1>10 DEF GroupInv, GroupType
<1>12. ASSUME NEW g \in groups'
       PROVE  /\ g # target => timer'[g] = timer[g] /\ g \in groups \ hit
              /\ g = target => timer'[g] = x
  BY <1>2, <1>4, <1>5, <1>10, <1>11 DEF GroupInv, GroupType
<1>13. ASSUME NEW y \in Timer, phase'[y] = "armed"
       PROVE  timerGroup'[y] \in groups' /\ timer'[timerGroup'[y]] = y
  <2>1. phase[y] = "armed" /\ \A g \in hit \ {target} : tm(x)[g] # y
    BY <1>5, <1>13, Zenon DEF GroupInv, GroupType
  <2>2. timerGroup[y] \in groups /\ timer[timerGroup[y]] = y
    BY <2>1 DEF GroupInv, TimersFollowGroups
  <2>3. CASE y = x
    BY <2>3, <1>1, <1>2, <1>4, <1>12
  <2>4. CASE y # x
    <3>1. timerGroup'[y] = timerGroup[y]
      BY <1>1, <2>4
    <3>2. timerGroup[y] # target
      BY <2>2, <2>4, <1>11, HorizonAssumption
    <3>3. timerGroup[y] \notin hit
      BY <2>1, <2>2, <2>4, <3>2, <1>2, Zenon
    <3> QED BY <3>1, <3>2, <3>3, <2>2, <1>4, <1>12
  <2> QED BY <2>3, <2>4
<1>14. ASSUME NEW g \in Group, timer'[g] # NoTimer
       PROVE  g \in groups' /\ phase'[timer'[g]] # "idle" /\ timerGroup'[timer'[g]] = g
  <2>1. g \in groups'
    BY <1>14, <1>2, <1>4, <1>5, <1>10 DEF GroupInv, GroupType
  <2>2. /\ timer'[g] \in Timer
        /\ phase[timer'[g]] # "idle"
        /\ \A h \in hit \ {target} : tm(x)[h] # timer'[g]
    <3>1. CASE g = target
      BY <3>1, <2>1, <1>12, <1>14, <1>2, <1>6, <1>10, <1>11
    <3>2. CASE g # target
      <4>1. timer'[g] = timer[g] /\ g \in groups \ hit
        BY <3>2, <2>1, <1>12
      <4>2. \A h \in hit \ {target} : timer[h] # timer[g]
        BY <4>1, <1>14, <1>10, <1>2
      <4> QED BY <4>1, <4>2, <1>14, <1>10, <1>2 DEF GroupInv, GroupType
    <3> QED BY <3>1, <3>2, SMTT(60)
  <2>3. phase'[timer'[g]] # "idle"
    BY <2>2, <1>5, Zenon DEF GroupInv, GroupType
  <2>4. timerGroup'[timer'[g]] = g
    <3>1. CASE g = target
      BY <3>1, <2>1, <2>2, <1>12, <1>1
    <3>2. CASE g # target
      <4>1. timer'[g] = timer[g] /\ g \in groups \ hit
        BY <3>2, <2>1, <1>12
      <4>2. timer[g] # x
        BY <4>1, <1>14, <1>10, <1>11, <1>2, <3>2, SMTT(60)
      <4> QED BY <4>1, <4>2, <2>2, <1>14, <1>10, <1>1
    <3> QED BY <3>1, <3>2
  <2> QED BY <2>1, <2>3, <2>4
<1>15. GroupInv'
  <2>1. ASSUME NEW y \in Timer, phase'[y] # "idle" PROVE timerGroup'[y] \in Group
    BY <2>1, <1>1, <1>2, <1>5, SMTT(60) DEF GroupInv, GroupType, TimersFollowGroups
  <2> QED BY <2>1, <1>7, <1>8, <1>9, <1>13, <1>14, SMTT(60) DEF GroupInv, TimersFollowGroups
<1>16. timer'[target] = NoTimer => \A g \in hit : timer[g] = NoTimer
  <2>1. timer'[target] = x
    BY <1>2, <1>4, <1>12
  <2> QED BY <2>1, <1>6, SMTT(60)
<1>17. \A g \in groups \ hit : timer'[g] = timer[g]
  BY <1>2, <1>4, <1>12
<1> QED BY <1>1, <1>15, <1>16, <1>17

\* makeGroupVisible drops one whole group and disturbs no other, whether it is
\* called by MakeVisible or by the callback of the group's own timer.
LEMMA PromoteKeepsInv ==
  ASSUME GroupInv, NEW g \in groups, NEW ph, MakeGroupVisible(g, ph),
         \/ ph = phase
         \/ \E x \in Timer : phase[x] = "fired" /\ timer[g] = x
                             /\ ph = [phase EXCEPT ![x] = "idle"]
  PROVE  /\ GroupInv'
         /\ groups' = groups \ {g}
         /\ \A h \in groups' : timer'[h] = timer[h]
         /\ groupOf' = [u \in Txn |-> IF u \in members[g] THEN NoGroup ELSE groupOf[u]]
<1> USE HorizonAssumption
<1> DEFINE ms == [members EXCEPT ![g] = {}]
<1>1. g \in Group
  BY DEF GroupInv, GroupType
<1>2. {h \in groups : ms[h] = {}} = {g}
  BY <1>1 DEF GroupInv, GroupType, GroupsPartitionEntries
<1>3. /\ groups' = groups \ {g}
      /\ members' = ms
      /\ bases' = [h \in Group |-> IF h \in {g} THEN {} ELSE bases[h]]
      /\ timer' = [h \in Group |-> IF h \in {g} THEN NoTimer ELSE timer[h]]
      /\ phase' = Stop(ph, {timer[h] : h \in {g}})
      /\ timerGroup' = timerGroup
      /\ groupOf' = [u \in Txn |-> IF u \in members[g] THEN NoGroup ELSE groupOf[u]]
  BY <1>2, Zenon DEF MakeGroupVisible, PruneGroups, Resolve
<1>4. GroupType'
  BY <1>1, <1>3 DEF GroupInv, GroupType, Stop
<1>5. GroupsPartitionEntries'
  BY <1>1, <1>3 DEF GroupInv, GroupType, GroupsPartitionEntries
<1>6. CompetitorsShareGroup'
  BY <1>1, <1>3 DEF GroupInv, GroupType, CompetitorsShareGroup
<1>7. \A y \in Timer :
        /\ phase'[y] = "armed" <=> phase[y] = "armed" /\ y # timer[g]
        /\ phase'[y] = "idle" => phase[y] = "idle" \/ y = timer[g]
        /\ phase[y] = "idle" => phase'[y] = "idle"
  BY <1>1, <1>3, SMTT(60) DEF GroupInv, GroupType, Stop
<1>8. TimersFollowGroups'
  BY <1>1, <1>3, <1>7 DEF GroupInv, GroupType, TimersFollowGroups
<1> QED BY <1>1, <1>3, <1>4, <1>5, <1>6, <1>8 DEF GroupInv, GroupType

\* HorizonSet.Abort removes one entry, and its group only if the entry was its
\* last; every remaining group keeps its timer.
LEMMA AbortKeepsInv ==
  ASSUME GroupInv, NEW t \in Entries, Abort(t)
  PROVE  /\ GroupInv'
         /\ groups' = IF members[groupOf[t]] = {t} THEN groups \ {groupOf[t]} ELSE groups
         /\ \A h \in groups' : timer'[h] = timer[h]
         /\ groupOf' = [groupOf EXCEPT ![t] = NoGroup]
<1> USE HorizonAssumption
<1> DEFINE g == groupOf[t]
           ms == [members EXCEPT ![g] = @ \ {t}]
           dead == IF members[g] = {t} THEN {g} ELSE {}
<1>1. t \in Txn /\ g \in groups /\ g \in Group /\ t \in members[g]
  BY DEF GroupInv, GroupType, GroupsPartitionEntries, Entries
<1>2. {h \in groups : ms[h] = {}} = dead
  BY <1>1, SMTT(60) DEF GroupInv, GroupType, GroupsPartitionEntries
<1>3. /\ groups' = groups \ dead
      /\ members' = ms
      /\ bases' = [h \in Group |-> IF h \in dead THEN {} ELSE bases[h]]
      /\ timer' = [h \in Group |-> IF h \in dead THEN NoTimer ELSE timer[h]]
      /\ phase' = [y \in Timer |->
           IF (\E h \in dead : y = timer[h]) /\ phase[y] = "armed" THEN "idle" ELSE phase[y]]
      /\ timerGroup' = timerGroup
      /\ groupOf' = [u \in Txn |-> IF u \in {t} THEN NoGroup ELSE groupOf[u]]
  <2>1. /\ PruneGroups(ms, bases, timer, phase)
        /\ Resolve({t})
        /\ timerGroup' = timerGroup
    BY DEF Abort
  <2> HIDE DEF ms, dead
  <2> QED BY <1>2, <2>1 DEF PruneGroups, Resolve, Stop
<1>4. GroupType'
  BY <1>1, <1>3, SMTT(60) DEF GroupInv, GroupType
<1>5. GroupsPartitionEntries'
  <2>1. ASSUME NEW u \in Txn, NEW h \in Group
        PROVE  u \in members'[h] <=> groupOf'[u] = h
    BY <1>1, <1>3, SMTT(60) DEF GroupInv, GroupType, GroupsPartitionEntries
  <2>2. groups' = {h \in Group : members'[h] # {}}
    BY <1>1, <1>2, <1>3 DEF GroupInv, GroupType, GroupsPartitionEntries
  <2>3. ASSUME NEW h \in Group PROVE members'[h] \subseteq bases'[h]
    BY <1>1, <1>3, SMTT(60) DEF GroupInv, GroupType, GroupsPartitionEntries
  <2>4. ASSUME NEW h \in Group \ groups' PROVE bases'[h] = {}
    BY <1>1, <1>3 DEF GroupInv, GroupType, GroupsPartitionEntries
  <2> QED BY <2>1, <2>2, <2>3, <2>4 DEF GroupsPartitionEntries
<1>6. CompetitorsShareGroup'
  BY <1>1, <1>3, SMTT(60) DEF GroupInv, GroupType, CompetitorsShareGroup
<1>7. TimersFollowGroups'
  BY <1>1, <1>3 DEF GroupInv, GroupType, TimersFollowGroups
<1> QED BY <1>1, <1>3, <1>4, <1>5, <1>6, <1>7, Zenon DEF GroupInv, GroupType

\* HorizonSet.ScheduleMakeVisible leaves the entry's group with a timer and takes
\* no other group's timer away.
LEMMA ScheduleKeepsInv ==
  ASSUME GroupInv, NEW t \in Entries, ScheduleMakeVisible(t)
  PROVE  /\ GroupInv'
         /\ timer'[groupOf[t]] # NoTimer
         /\ UNCHANGED groupOf
         /\ \A g \in Group : timer[g] # NoTimer => timer'[g] # NoTimer
<1> USE HorizonAssumption
<1> DEFINE g == groupOf[t]
<1>1. t \in Txn /\ g \in groups /\ g \in Group
  BY DEF GroupInv, GroupType, GroupsPartitionEntries, Entries
<1>2. PICK x \in Timer :
        /\ phase[x] = "idle"
        /\ phase' = [Stop(phase, {timer[g]}) EXCEPT ![x] = "armed"]
        /\ timer' = [timer EXCEPT ![g] = x]
        /\ timerGroup' = [timerGroup EXCEPT ![x] = g]
        /\ UNCHANGED <<groups, members, bases, groupOf>>
  BY Zenon DEF ScheduleMakeVisible
<1>3. GroupType'
  BY <1>1, <1>2, SMTT(60) DEF GroupInv, GroupType, Stop
<1>4. GroupsPartitionEntries' /\ CompetitorsShareGroup'
  BY <1>2 DEF GroupInv, GroupsPartitionEntries, CompetitorsShareGroup
<1>5. phase' = [y \in Timer |->
        IF y = x THEN "armed"
        ELSE IF y = timer[g] /\ phase[y] = "armed" THEN "idle" ELSE phase[y]]
  BY <1>2, ZenonT(60) DEF Stop
<1>6. TimersFollowGroups'
  <2>1. ASSUME NEW y \in Timer, phase'[y] = "armed"
        PROVE  timerGroup'[y] \in groups' /\ timer'[timerGroup'[y]] = y
    <3>1. CASE y = x
      BY <3>1, <1>1, <1>2 DEF GroupInv, GroupType
    <3>2. CASE y # x
      <4>1. phase[y] = "armed" /\ y # timer[g]
        BY <3>2, <2>1, <1>5
      <4>2. timerGroup[y] \in groups /\ timer[timerGroup[y]] = y
        BY <4>1 DEF GroupInv, TimersFollowGroups
      <4> QED BY <3>2, <4>1, <4>2, <1>1, <1>2, SMTT(60) DEF GroupInv, GroupType
    <3> QED BY <3>1, <3>2
  <2>2. ASSUME NEW h \in Group, timer'[h] # NoTimer
        PROVE  h \in groups' /\ phase'[timer'[h]] # "idle" /\ timerGroup'[timer'[h]] = h
    <3>1. CASE h = g
      BY <3>1, <1>1, <1>2, <1>5, Zenon DEF GroupInv, GroupType
    <3>2. CASE h # g
      <4>1. timer'[h] = timer[h] /\ timer[h] \in Timer
        BY <3>2, <2>2, <1>2, SMTT(60) DEF GroupInv, GroupType
      <4>2. h \in groups /\ phase[timer[h]] # "idle" /\ timerGroup[timer[h]] = h
        BY <4>1, <2>2, SMTT(60) DEF GroupInv, TimersFollowGroups
      <4>3. timer[h] # x /\ timer[h] # timer[g]
        <5>1. timer[h] # x
          BY <4>1, <4>2, <1>1, <1>2, Zenon
        <5>2. TimersFollowGroups /\ g \in Group
          BY <1>1, Zenon DEF GroupInv
        <5>3. timer[h] # timer[g]
          BY <2>2, <3>2, <4>1, <4>2, <5>2, Zenon DEF TimersFollowGroups
        <5> QED BY <5>1, <5>3, Zenon
      <4> QED BY <4>1, <4>2, <4>3, <1>2, <1>5, ZenonT(60) DEF GroupInv, GroupType
    <3> QED BY <3>1, <3>2
  <2>3. ASSUME NEW y \in Timer, phase'[y] # "idle" PROVE timerGroup'[y] \in Group
    BY <2>3, <1>1, <1>2, <1>5, ZenonT(60) DEF GroupInv, GroupType, TimersFollowGroups
  <2> QED BY <2>1, <2>2, <2>3 DEF TimersFollowGroups
<1> QED BY <1>1, <1>2, <1>3, <1>4, <1>6, Zenon DEF GroupInv, GroupType

-----------------------------------------------------------------------------
(* What a lock section does to the entries *)

\* A step that takes exactly the entries of S out of the horizon.
Releases(S) ==
  /\ GroupInv'
  /\ S \subseteq Entries
  /\ Resolve(S)
  /\ \A u \in Entries \ S : timer'[groupOf[u]] = timer[groupOf[u]]

\* A step that takes no entry out and no timer away from an entry's group.
Retains ==
  /\ GroupInv'
  /\ Entries \subseteq Entries'
  /\ \A u \in Entries : timer[groupOf[u]] # NoTimer => timer'[groupOf'[u]] # NoTimer

\* A step that leaves the groups alone leaves what holds of them.
LEMMA GroupsStutter ==
  ASSUME GroupInv, UNCHANGED groupVars
  PROVE  GroupInv' /\ Entries' = Entries
<1>1. /\ groups' = groups /\ members' = members /\ bases' = bases /\ timer' = timer
      /\ groupOf' = groupOf /\ timerGroup' = timerGroup /\ phase' = phase
  BY Zenon DEF groupVars
<1>2. Entries' = Entries
  BY <1>1, Zenon DEF Entries
<1>3. GroupType'
  BY <1>1, Zenon DEF GroupInv, GroupType
<1>4. GroupsPartitionEntries' /\ CompetitorsShareGroup'
  <2>1. GroupsPartitionEntries /\ CompetitorsShareGroup
    BY Zenon DEF GroupInv
  <2>2. GroupsPartitionEntries'
    BY <1>1, <2>1, ZenonT(60) DEF GroupsPartitionEntries
  <2>3. CompetitorsShareGroup'
    <3>1. groups' = groups /\ bases' = bases
      BY <1>1, Zenon
    <3> QED BY <2>1, <3>1, SMTT(60) DEF CompetitorsShareGroup, SharesBase
  <2> QED BY <2>2, <2>3, Zenon
<1>5. TimersFollowGroups'
  BY <1>1, SMTT(60) DEF GroupInv, TimersFollowGroups
<1> QED BY <1>2, <1>3, <1>4, <1>5, Zenon DEF GroupInv

\* MakeVisible or Abort of a transaction without an entry releases nothing.
LEMMA NothingReleased ==
  ASSUME GroupInv, UNCHANGED <<groupVars, readerVars, pendingTx, cleared>>,
         waiters \in [Txn -> SUBSET Reader]
  PROVE  Releases({})
<1>1. GroupInv'
  BY GroupsStutter
<1>2. Resolve({})
  BY DEF groupVars, readerVars, Resolve, GroupInv, GroupType
<1> QED BY <1>1, <1>2 DEF Releases, groupVars

\* makeGroupVisible releases exactly the members of the group.
LEMMA PromoteReleases ==
  ASSUME GroupInv, NEW g \in groups, NEW ph, MakeGroupVisible(g, ph),
         \/ ph = phase
         \/ \E x \in Timer : phase[x] = "fired" /\ timer[g] = x
                             /\ ph = [phase EXCEPT ![x] = "idle"]
  PROVE  Releases(members[g])
<1>1. /\ GroupInv'
      /\ groups' = groups \ {g}
      /\ \A h \in groups' : timer'[h] = timer[h]
  BY PromoteKeepsInv
<1>2. members[g] \subseteq Entries
  BY HorizonAssumption DEF GroupInv, GroupType, GroupsPartitionEntries, Entries
<1>3. ASSUME NEW u \in Entries \ members[g]
      PROVE  timer'[groupOf[u]] = timer[groupOf[u]]
  <2>1. groupOf[u] \in groups \ {g}
    BY DEF GroupInv, GroupType, GroupsPartitionEntries, Entries
  <2> QED BY <2>1, <1>1
<1> QED BY <1>1, <1>2, <1>3 DEF Releases, MakeGroupVisible

\* HorizonSet.MakeVisible releases nothing or one whole group.
LEMMA MakeVisibleReleases ==
  ASSUME GroupInv, waiters \in [Txn -> SUBSET Reader], NEW t \in Txn, MakeVisible(t)
  PROVE  \E S \in SUBSET Txn :
           /\ Releases(S)
           /\ t \in Entries => t \in S
           /\ S = {} \/ \E g \in groups : S = members[g]
<1>1. CASE t \notin Entries
  <2>1. UNCHANGED <<groupVars, readerVars, pendingTx, cleared>>
    BY <1>1 DEF MakeVisible
  <2> QED BY <1>1, <2>1, NothingReleased
<1>2. CASE t \in Entries
  <2>1. MakeGroupVisible(groupOf[t], phase)
    BY <1>2 DEF MakeVisible
  <2>2. groupOf[t] \in groups /\ t \in members[groupOf[t]]
        /\ members[groupOf[t]] \in SUBSET Txn
    BY <1>2 DEF GroupInv, GroupType, GroupsPartitionEntries, Entries
  <2>3. Releases(members[groupOf[t]])
    BY <2>1, <2>2, PromoteReleases
  <2> QED BY <2>2, <2>3
<1> QED BY <1>1, <1>2

\* HorizonSet.Abort releases at most the one entry.
LEMMA AbortReleases ==
  ASSUME GroupInv, waiters \in [Txn -> SUBSET Reader], NEW t \in Txn, Abort(t)
  PROVE  \E S \in SUBSET Txn : Releases(S) /\ (t \in Entries => t \in S) /\ S \subseteq {t}
<1>1. CASE t \notin Entries
  <2>1. UNCHANGED <<groupVars, readerVars, pendingTx, cleared>>
    BY <1>1 DEF Abort
  <2> QED BY <1>1, <2>1, NothingReleased
<1>2. CASE t \in Entries
  <2>1. /\ GroupInv'
        /\ groups' = IF members[groupOf[t]] = {t} THEN groups \ {groupOf[t]} ELSE groups
        /\ \A h \in groups' : timer'[h] = timer[h]
    BY <1>2, AbortKeepsInv
  <2>2. ASSUME NEW u \in Entries \ {t} PROVE timer'[groupOf[u]] = timer[groupOf[u]]
    <3>1. groupOf[u] \in groups /\ u \in members[groupOf[u]]
      BY DEF GroupInv, GroupType, GroupsPartitionEntries, Entries
    <3>2. groupOf[u] \in groups'
      BY <2>1, <3>1
    <3> QED BY <2>1, <3>2
  <2>3. Resolve({t})
    BY <1>2 DEF Abort
  <2> QED BY <1>2, <2>1, <2>2, <2>3 DEF Releases
<1> QED BY <1>1, <1>2

\* HorizonSet.Add adds one entry and keeps the others, with their timers.
LEMMA AddRetains ==
  ASSUME GroupInv, NEW t \in Txn, Add(t)
  PROVE  Retains /\ Entries' = Entries \cup {t} /\ UNCHANGED waiters
<1> USE HorizonAssumption
<1>1. CASE t \in Entries /\ UNCHANGED groupVars
  <2>1. GroupInv' /\ Entries' = Entries /\ timer' = timer /\ groupOf' = groupOf
    BY <1>1, GroupsStutter, Zenon DEF groupVars
  <2> QED BY <1>1, <2>1, SMTT(60) DEF Retains, Add
<1>2. CASE t \notin Entries /\ Overlapping(t) = {} /\ NewGroup(t)
  <2>1. GroupInv'
    BY <1>2, NewGroupKeepsInv
  <2>2. PICK g \in Group : groupOf' = [groupOf EXCEPT ![t] = g] /\ timer' = timer
    BY <1>2, Zenon DEF NewGroup
  <2>3. Entries' = Entries \cup {t}
    BY <2>2 DEF GroupInv, GroupType, Entries
  <2>4. \A u \in Entries : groupOf'[u] = groupOf[u]
    BY <2>2, <1>2, SMTT(60) DEF GroupInv, GroupType, Entries
  <2> QED BY <2>1, <2>2, <2>3, <2>4 DEF Retains, Add
<1>3. CASE t \notin Entries /\ \E target \in Overlapping(t) : MergeInto(t, target)
  <2>1. PICK target \in Overlapping(t) : MergeInto(t, target)
    BY <1>3
  <2>2. /\ GroupInv'
        /\ timer'[target] = NoTimer => \A g \in Overlapping(t) : timer[g] = NoTimer
        /\ groupOf' = [u \in Txn |->
             IF u = t \/ groupOf[u] \in Overlapping(t) THEN target ELSE groupOf[u]]
        /\ \A g \in groups \ Overlapping(t) : timer'[g] = timer[g]
    BY <1>3, <2>1, MergeIntoKeepsInv
  <2>3. target \in Group /\ Overlapping(t) \subseteq Group
    BY SMTT(60) DEF Overlapping, GroupInv, GroupType
  <2>4. Entries' = Entries \cup {t}
    BY <2>2, <2>3, SMTT(60) DEF GroupInv, GroupType, Entries
  <2>5. ASSUME NEW u \in Entries, timer[groupOf[u]] # NoTimer
        PROVE  timer'[groupOf'[u]] # NoTimer
    <3>1. u \in Txn /\ u # t /\ groupOf[u] \in groups
      BY <1>3 DEF GroupInv, GroupType, GroupsPartitionEntries, Entries
    <3>2. /\ groupOf[u] \in Overlapping(t) => groupOf'[u] = target
          /\ groupOf[u] \notin Overlapping(t) => groupOf'[u] = groupOf[u]
      BY <2>2, <3>1, SMTT(60)
    <3> QED BY <2>2, <2>5, <3>1, <3>2, ZenonT(60)
  <2>6. UNCHANGED waiters
    BY Zenon DEF Add
  <2> QED BY <2>2, <2>4, <2>5, <2>6, ZenonT(60) DEF Retains
<1> QED BY <1>1, <1>2, <1>3, SMTT(60) DEF Add

\* HorizonSet.ScheduleMakeVisible keeps every entry.
LEMMA ScheduleRetains ==
  ASSUME GroupInv, NEW t \in Txn, ScheduleMakeVisible(t)
  PROVE  /\ Retains
         /\ UNCHANGED groupOf
         /\ t \in Entries => timer'[groupOf[t]] # NoTimer
<1>1. CASE t \notin Entries
  <2>1. UNCHANGED groupVars
    BY <1>1, Zenon DEF ScheduleMakeVisible
  <2>2. GroupInv' /\ Entries' = Entries /\ timer' = timer /\ groupOf' = groupOf
    BY <2>1, GroupsStutter, Zenon DEF groupVars
  <2> QED BY <1>1, <2>2 DEF Retains
<1>2. CASE t \in Entries
  <2>1. /\ GroupInv'
        /\ timer'[groupOf[t]] # NoTimer
        /\ UNCHANGED groupOf
        /\ \A g \in Group : timer[g] # NoTimer => timer'[g] # NoTimer
    BY <1>2, ScheduleKeepsInv
  <2>2. \A u \in Entries : groupOf[u] \in Group
    BY DEF Entries, GroupInv, GroupType
  <2> QED BY <2>1, <2>2 DEF Retains, Entries
<1> QED BY <1>1, <1>2, SMTT(60)


-----------------------------------------------------------------------------
(* The inductive invariant *)

\* What the threads outside the lock contribute to the induction: a bind whose
\* handler is under way is held or was released, a local bind released before its
\* flushTx decided has lost its pending tips, and a reader waits on one channel.
CallerInv ==
  /\ \A t \in Remote : toSchedule[t] > 0 \/ toIndex[t] > 0 => t \in Entries \cup cleared
  /\ \A t \in Local : pc[t] = "waiting" /\ t \notin Entries => t \notin pendingTx
  /\ \A t, u \in Txn : t # u => waiters[t] \cap waiters[u] = {}

\* The inductive invariant.
HInv ==
  /\ GroupInv
  /\ CallerType
  /\ RemoteEntryHasTrigger
  /\ LocalEntryHasTrigger
  /\ BlockedReaderHasEntry
  /\ RemoteBindHeldWhenIndexed
  /\ ReturnedLeavesNothingBehind
  /\ CallerInv

-----------------------------------------------------------------------------
(* Every action preserves the invariant *)

\* A step that releases entries preserves the invariant, provided a flushTx that
\* returns in it has its own entry among the released.
LEMMA ReleaseKeepsInv ==
  ASSUME HInv, NEW S \in SUBSET Txn, Releases(S), UNCHANGED <<remoteVars, indexed>>,
         decision' \in [Local -> Outcomes \cup {"pending"}],
         pc' \in [Local -> {"idle", "published", "waiting", "returned", "alone"}],
         \A t \in Local : \/ pc'[t] = pc[t]
                          \/ pc[t] = "waiting" /\ pc'[t] = "returned" /\ (t \in Entries => t \in S)
  PROVE  HInv'
<1> USE HorizonAssumption
<1>1. /\ pendingTx' = pendingTx \ S
      /\ groupOf' = [t \in Txn |-> IF t \in S THEN NoGroup ELSE groupOf[t]]
      /\ blocked' = blocked \ UNION {waiters[t] : t \in S}
      /\ waiters' = [t \in Txn |-> IF t \in S THEN {} ELSE waiters[t]]
      /\ cleared' = cleared \cup S
  BY DEF Releases, Resolve
<1>2. Entries' = Entries \ S
  BY <1>1 DEF Entries
<1>3. CallerType'
  BY <1>1 DEF HInv, CallerType, remoteVars
<1>4. GroupInv'
  BY DEF Releases
<1>5. RemoteEntryHasTrigger'
  <2> SUFFICES ASSUME NEW t \in Remote, t \in Entries'
               PROVE  timer'[groupOf'[t]] # NoTimer \/ toSchedule'[t] > 0
    BY DEF RemoteEntryHasTrigger
  <2>1. t \in Entries \ S /\ t \in Txn
    BY <1>2 DEF Txn
  <2> QED BY <1>1, <2>1 DEF Releases, HInv, RemoteEntryHasTrigger, remoteVars
<1>6. LocalEntryHasTrigger'
  BY <1>2 DEF HInv, LocalEntryHasTrigger
<1>7. BlockedReaderHasEntry'
  <2>1. ASSUME NEW r \in blocked' PROVE \E t \in Entries' : r \in waiters'[t]
    <3>1. PICK t \in Entries : r \in waiters[t]
      BY <1>1 DEF HInv, BlockedReaderHasEntry
    <3>2. t \notin S
      BY <1>1, <3>1
    <3>3. t \in Txn
      BY DEF Entries
    <3> QED BY <1>1, <1>2, <3>1, <3>2, <3>3
  <2>2. ASSUME NEW t \in Txn, waiters'[t] # {}
        PROVE  t \in Entries' /\ waiters'[t] \subseteq blocked'
    <3>1. t \notin S /\ waiters'[t] = waiters[t]
      BY <1>1, <2>2
    <3>2. t \in Entries /\ waiters[t] \subseteq blocked
      BY <2>2, <3>1 DEF HInv, BlockedReaderHasEntry
    <3>3. \A u \in S : waiters[t] \cap waiters[u] = {}
      BY <3>1 DEF HInv, CallerInv
    <3>4. t \in Entries'
      BY <1>2, <3>1, <3>2, Zenon
    <3>5. waiters[t] \subseteq blocked \ UNION {waiters[u] : u \in S}
      BY <3>2, <3>3
    <3> QED BY <1>1, <3>1, <3>4, <3>5, Zenon
  <2> QED BY <2>1, <2>2 DEF BlockedReaderHasEntry
<1>8. RemoteBindHeldWhenIndexed'
  BY <1>1, <1>2 DEF HInv, RemoteBindHeldWhenIndexed
<1>9. ReturnedLeavesNothingBehind'
  BY <1>1, <1>2 DEF HInv, ReturnedLeavesNothingBehind, CallerInv
<1>10. CallerInv'
  BY <1>1, <1>2 DEF HInv, CallerInv, remoteVars
<1> QED BY <1>3, <1>4, <1>5, <1>6, <1>7, <1>8, <1>9, <1>10 DEF HInv

\* A step that keeps every entry preserves the invariant, provided each entry
\* there is afterwards has its trigger.
LEMMA RetainKeepsInv ==
  ASSUME HInv, Retains, CallerType',
         \A t \in Local \cap Entries' : pc'[t] = "waiting",
         \A t \in Remote \cap Entries' :
           \/ t \in Entries /\ timer[groupOf[t]] # NoTimer
           \/ timer'[groupOf'[t]] # NoTimer
           \/ toSchedule'[t] > 0,
         UNCHANGED readerVars,
         \A t \in Remote \cap indexed' : t \in Entries' \cup cleared',
         \A t \in Local : pc'[t] = "returned" => t \notin Entries' /\ t \notin pendingTx',
         CallerInv'
  PROVE  HInv'
<1>1. GroupInv'
  BY DEF Retains
<1>2. RemoteEntryHasTrigger'
  BY DEF RemoteEntryHasTrigger, Retains
<1>3. LocalEntryHasTrigger'
  BY DEF LocalEntryHasTrigger
<1>4. BlockedReaderHasEntry'
  BY DEF HInv, Retains, BlockedReaderHasEntry, readerVars
<1>5. RemoteBindHeldWhenIndexed' /\ ReturnedLeavesNothingBehind'
  BY DEF RemoteBindHeldWhenIndexed, ReturnedLeavesNothingBehind
<1> QED BY <1>1, <1>2, <1>3, <1>4, <1>5 DEF HInv

\* A step outside the lock keeps every entry.
LEMMA GroupsUnchanged ==
  ASSUME HInv, UNCHANGED groupVars
  PROVE  Retains /\ Entries' = Entries
<1>1. GroupInv
  BY DEF HInv
<1>2. GroupInv' /\ Entries' = Entries /\ timer' = timer /\ groupOf' = groupOf
  BY <1>1, GroupsStutter, Zenon DEF groupVars
<1> QED BY <1>2 DEF Retains

=============================================================================
