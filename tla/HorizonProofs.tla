--------------------------- MODULE HorizonProofs ---------------------------
(***************************************************************************)
(* The properties of Horizon, for every set of transactions, readers,      *)
(* groups and timers: HInv is inductive, and implies them.                 *)
(***************************************************************************)
EXTENDS HorizonInv

\* HInv holds in every reachable state: it holds initially and every action of
\* flushTx, of the handlers, of the timers and of the readers preserves it.
THEOREM Invariance == Spec => []HInv
<1> USE HorizonAssumption
<1>1. Init => HInv
  BY DEF Init, HInv, GroupInv, GroupType, CallerType, Txn, Outcomes, GroupsPartitionEntries, CompetitorsShareGroup,
     TimersFollowGroups, RemoteEntryHasTrigger, LocalEntryHasTrigger, BlockedReaderHasEntry,
     RemoteBindHeldWhenIndexed, ReturnedLeavesNothingBehind, CallerInv, Entries
<1>2. HInv /\ [Next]_vars => HInv'
  <2> SUFFICES ASSUME HInv, [Next]_vars PROVE HInv'
    OBVIOUS
  <2>0. GroupInv /\ CallerType
    BY DEF HInv
  <2>t. /\ pc \in [Local -> {"idle", "published", "waiting", "returned", "alone"}]
        /\ toSchedule \in [Remote -> Nat]
        /\ toIndex \in [Remote -> Nat]
        /\ waiters \in [Txn -> SUBSET Reader]
        /\ decision \in [Local -> Outcomes \cup {"pending"}]
    BY SMTT(60) DEF HInv, CallerType
  <2>1. ASSUME NEW t \in Local, LocalPublish(t) PROVE HInv'
    <3>1. Retains /\ Entries' = Entries
      BY <2>1, GroupsUnchanged DEF LocalPublish
    <3>2. CallerType'
      BY <2>0, <2>1 DEF LocalPublish, CallerType, Txn, groupVars, readerVars, remoteVars
    <3>3. CallerInv'
      BY <2>1, <3>1 DEF LocalPublish, HInv, CallerInv, remoteVars, readerVars
    <3>21. \A u \in Local \cap Entries' : pc'[u] = "waiting"
      BY <2>1, <3>1
         DEF LocalPublish, remoteVars, HInv, LocalEntryHasTrigger
    <3>22. \A u \in Remote \cap Entries' :
            \/ u \in Entries /\ timer[groupOf[u]] # NoTimer
            \/ timer'[groupOf'[u]] # NoTimer
            \/ toSchedule'[u] > 0
      BY <2>1, <3>1
         DEF LocalPublish, remoteVars, HInv, RemoteEntryHasTrigger
    <3>23. \A u \in Remote \cap indexed' : u \in Entries' \cup cleared'
      BY <2>1, <3>1
         DEF LocalPublish, remoteVars, HInv, RemoteBindHeldWhenIndexed
    <3>24. \A u \in Local : pc'[u] = "returned" => u \notin Entries' /\ u \notin pendingTx'
      BY <2>1, <3>1
         DEF LocalPublish, remoteVars, HInv, ReturnedLeavesNothingBehind
    <3>25. UNCHANGED readerVars
      BY <2>1
         DEF LocalPublish, remoteVars, HInv
    <3> QED BY <3>1, <3>2, <3>3, <3>21, <3>22, <3>23, <3>24, <3>25, RetainKeepsInv
  <2>2. ASSUME NEW t \in Local, LocalCommitAlone(t) PROVE HInv'
    <3>1. Retains /\ Entries' = Entries
      BY <2>2, GroupsUnchanged DEF LocalCommitAlone
    <3>2. CallerType'
      BY <2>0, <2>2 DEF LocalCommitAlone, CallerType, Outcomes, groupVars, readerVars, remoteVars
    <3>3. CallerInv'
      BY <2>2, <3>1 DEF LocalCommitAlone, HInv, CallerInv, remoteVars, readerVars
    <3>21. \A u \in Local \cap Entries' : pc'[u] = "waiting"
      BY <2>2, <3>1
         DEF LocalCommitAlone, remoteVars, HInv, LocalEntryHasTrigger
    <3>22. \A u \in Remote \cap Entries' :
            \/ u \in Entries /\ timer[groupOf[u]] # NoTimer
            \/ timer'[groupOf'[u]] # NoTimer
            \/ toSchedule'[u] > 0
      BY <2>2, <3>1
         DEF LocalCommitAlone, remoteVars, HInv, RemoteEntryHasTrigger
    <3>23. \A u \in Remote \cap indexed' : u \in Entries' \cup cleared'
      BY <2>2, <3>1
         DEF LocalCommitAlone, remoteVars, HInv, RemoteBindHeldWhenIndexed
    <3>24. \A u \in Local : pc'[u] = "returned" => u \notin Entries' /\ u \notin pendingTx'
      BY <2>2, <3>1
         DEF LocalCommitAlone, remoteVars, HInv, ReturnedLeavesNothingBehind
    <3>25. UNCHANGED readerVars
      BY <2>2
         DEF LocalCommitAlone, remoteVars, HInv
    <3> QED BY <3>1, <3>2, <3>3, <3>21, <3>22, <3>23, <3>24, <3>25, RetainKeepsInv
  <2>3. ASSUME NEW t \in Local, LocalAdd(t) PROVE HInv'
    <3>1. Retains /\ Entries' = Entries \cup {t} /\ UNCHANGED readerVars
      BY <2>0, <2>3, AddRetains DEF LocalAdd, Txn, readerVars
    <3>2. CallerType'
      BY <2>0, <2>3, <3>1
         DEF LocalAdd, CallerType, readerVars, remoteVars
    <3>3. CallerInv'
      BY <2>3, <3>1 DEF LocalAdd, HInv, CallerInv, remoteVars, readerVars
    <3>21. \A u \in Local \cap Entries' : pc'[u] = "waiting"
      BY <2>t, <2>3, <3>1
         DEF LocalAdd, remoteVars, HInv, LocalEntryHasTrigger
    <3>22. \A u \in Remote \cap Entries' :
            \/ u \in Entries /\ timer[groupOf[u]] # NoTimer
            \/ timer'[groupOf'[u]] # NoTimer
            \/ toSchedule'[u] > 0
      BY <2>3, <3>1
         DEF LocalAdd, remoteVars, HInv, RemoteEntryHasTrigger
    <3>23. \A u \in Remote \cap indexed' : u \in Entries' \cup cleared'
      BY <2>3, <3>1
         DEF LocalAdd, remoteVars, HInv, RemoteBindHeldWhenIndexed
    <3>24. \A u \in Local : pc'[u] = "returned" => u \notin Entries' /\ u \notin pendingTx'
      BY <2>3, <3>1
         DEF LocalAdd, remoteVars, HInv, ReturnedLeavesNothingBehind
    <3>25. UNCHANGED readerVars
      BY <3>1, SMTT(60)
         DEF LocalAdd, remoteVars, HInv
    <3> QED BY <3>1, <3>2, <3>3, <3>21, <3>22, <3>23, <3>24, RetainKeepsInv
  <2>4. ASSUME NEW t \in Local, NEW d \in Outcomes, LocalDecide(t, d) PROVE HInv'
    <3>1. Retains /\ Entries' = Entries
      BY <2>4, GroupsUnchanged DEF LocalDecide
    <3>2. CallerType'
      BY <2>0, <2>4 DEF LocalDecide, CallerType, Outcomes, groupVars, readerVars, remoteVars
    <3>3. CallerInv'
      BY <2>4, <3>1 DEF LocalDecide, HInv, CallerInv, remoteVars, readerVars
    <3>21. \A u \in Local \cap Entries' : pc'[u] = "waiting"
      BY <2>4, <3>1, SMTT(60)
         DEF LocalDecide, remoteVars, HInv, LocalEntryHasTrigger
    <3>22. \A u \in Remote \cap Entries' :
            \/ u \in Entries /\ timer[groupOf[u]] # NoTimer
            \/ timer'[groupOf'[u]] # NoTimer
            \/ toSchedule'[u] > 0
      BY <2>4, <3>1
         DEF LocalDecide, remoteVars, HInv, RemoteEntryHasTrigger
    <3>23. \A u \in Remote \cap indexed' : u \in Entries' \cup cleared'
      BY <2>4, <3>1
         DEF LocalDecide, remoteVars, HInv, RemoteBindHeldWhenIndexed
    <3>24. \A u \in Local : pc'[u] = "returned" => u \notin Entries' /\ u \notin pendingTx'
      BY <2>4, <3>1
         DEF LocalDecide, remoteVars, HInv, ReturnedLeavesNothingBehind
    <3>25. UNCHANGED readerVars
      BY <2>4
         DEF LocalDecide, remoteVars, HInv
    <3> QED BY <3>1, <3>2, <3>3, <3>21, <3>22, <3>23, <3>24, <3>25, RetainKeepsInv
  <2>5. ASSUME NEW t \in Local, LocalReturn(t) PROVE HInv'
    <3>1. PICK S \in SUBSET Txn : Releases(S) /\ (t \in Entries => t \in S)
      <4>1. t \in Txn /\ waiters \in [Txn -> SUBSET Reader]
        BY <2>0 DEF Txn, CallerType
      <4>2. MakeVisible(t) \/ Abort(t)
        BY <2>5 DEF LocalReturn
      <4> QED BY <2>0, <4>1, <4>2, MakeVisibleReleases, AbortReleases
    <3>2. /\ pc' = [pc EXCEPT ![t] = "returned"]
          /\ pc[t] = "waiting"
          /\ UNCHANGED <<remoteVars, decision, indexed>>
      BY <2>5, SMTT(60) DEF LocalReturn
    <3> QED BY <2>0, <3>1, <3>2, ReleaseKeepsInv DEF CallerType
  <2>6. ASSUME NEW t \in Remote, RemoteBindAdd(t) PROVE HInv'
    <3>1. Retains /\ Entries' = Entries \cup {t} /\ UNCHANGED readerVars
      BY <2>0, <2>6, AddRetains DEF RemoteBindAdd, Txn, readerVars
    <3>2. CallerType'
      BY <2>0, <2>6, <3>1
         DEF RemoteBindAdd, CallerType, readerVars, localVars
    <3>3. CallerInv'
      BY <2>6, <3>1 DEF RemoteBindAdd, HInv, CallerInv, localVars, readerVars
    <3>21. \A u \in Local \cap Entries' : pc'[u] = "waiting"
      BY <2>6, <3>1
         DEF RemoteBindAdd, localVars, HInv, LocalEntryHasTrigger
    <3>22. \A u \in Remote \cap Entries' :
            \/ u \in Entries /\ timer[groupOf[u]] # NoTimer
            \/ timer'[groupOf'[u]] # NoTimer
            \/ toSchedule'[u] > 0
      BY <2>t, <2>6, <3>1
         DEF RemoteBindAdd, localVars, HInv, RemoteEntryHasTrigger
    <3>23. \A u \in Remote \cap indexed' : u \in Entries' \cup cleared'
      BY <2>6, <3>1
         DEF RemoteBindAdd, localVars, HInv, RemoteBindHeldWhenIndexed
    <3>24. \A u \in Local : pc'[u] = "returned" => u \notin Entries' /\ u \notin pendingTx'
      BY <2>6, <3>1
         DEF RemoteBindAdd, localVars, HInv, ReturnedLeavesNothingBehind
    <3>25. UNCHANGED readerVars
      BY <3>1
         DEF RemoteBindAdd, localVars, HInv
    <3> QED BY <3>1, <3>2, <3>3, <3>21, <3>22, <3>23, <3>24, RetainKeepsInv
  <2>7. ASSUME NEW t \in Remote, RemoteBindSchedule(t) PROVE HInv'
    <3>1. /\ Retains /\ UNCHANGED groupOf /\ Entries' = Entries
          /\ t \in Entries => timer'[groupOf[t]] # NoTimer
      BY <2>0, <2>7, ScheduleRetains, SMTT(60) DEF RemoteBindSchedule, Txn, Entries
    <3>2. CallerType'
      BY <2>0, <2>7, SMTT(60)
         DEF RemoteBindSchedule, CallerType, readerVars, localVars
    <3>3. CallerInv'
      BY <2>7, <3>1, SMTT(60) DEF RemoteBindSchedule, HInv, CallerInv, localVars, readerVars
    <3>4. ASSUME NEW u \in Remote \cap Entries'
          PROVE  \/ u \in Entries /\ timer[groupOf[u]] # NoTimer
                 \/ timer'[groupOf'[u]] # NoTimer
                 \/ toSchedule'[u] > 0
      BY <2>7, <3>1, SMTT(60) DEF RemoteBindSchedule, HInv, RemoteEntryHasTrigger, CallerType
    <3>21. \A u \in Local \cap Entries' : pc'[u] = "waiting"
      BY <2>7, <3>1, SMTT(60)
         DEF RemoteBindSchedule, localVars, HInv, LocalEntryHasTrigger
    <3>22. \A u \in Remote \cap indexed' : u \in Entries' \cup cleared'
      BY <2>7, <3>1, SMTT(60)
         DEF RemoteBindSchedule, localVars, HInv, RemoteBindHeldWhenIndexed
    <3>23. \A u \in Local : pc'[u] = "returned" => u \notin Entries' /\ u \notin pendingTx'
      BY <2>7, <3>1
         DEF RemoteBindSchedule, localVars, HInv, ReturnedLeavesNothingBehind
    <3>24. UNCHANGED readerVars
      BY <2>7, SMTT(60)
         DEF RemoteBindSchedule, localVars, HInv
    <3> QED BY <3>1, <3>2, <3>3, <3>4, <3>21, <3>22, <3>23, <3>24, RetainKeepsInv, SMTT(60)
  <2>8. ASSUME NEW t \in Remote, RemoteBindIndex(t) PROVE HInv'
    <3>1. Retains /\ Entries' = Entries
      BY <2>8, GroupsUnchanged DEF RemoteBindIndex
    <3>2. CallerType'
      BY <2>0, <2>8 DEF RemoteBindIndex, CallerType, Txn, Outcomes, groupVars, readerVars
    <3>3. CallerInv'
      BY <2>8, <3>1, SMTT(60) DEF RemoteBindIndex, HInv, CallerInv, readerVars
    <3>4. t \in Entries \cup cleared
      BY <2>8 DEF RemoteBindIndex, HInv, CallerInv
    <3>21. \A u \in Local \cap Entries' : pc'[u] = "waiting"
      BY <2>8, <3>1, SMTT(60)
         DEF RemoteBindIndex, HInv, LocalEntryHasTrigger
    <3>22. \A u \in Remote \cap Entries' :
            \/ u \in Entries /\ timer[groupOf[u]] # NoTimer
            \/ timer'[groupOf'[u]] # NoTimer
            \/ toSchedule'[u] > 0
      BY <2>8, <3>1, SMTT(60)
         DEF RemoteBindIndex, HInv, RemoteEntryHasTrigger
    <3>23. \A u \in Remote \cap indexed' : u \in Entries' \cup cleared'
      BY <2>8, <3>1, <3>4, SMTT(60)
         DEF RemoteBindIndex, HInv, RemoteBindHeldWhenIndexed
    <3>24. \A u \in Local : pc'[u] = "returned" => u \notin Entries' /\ u \notin pendingTx'
      BY <2>8, <3>1
         DEF RemoteBindIndex, HInv, ReturnedLeavesNothingBehind
    <3>25. UNCHANGED readerVars
      BY <2>8, SMTT(60)
         DEF RemoteBindIndex, HInv
    <3> QED BY <3>1, <3>2, <3>3, <3>21, <3>22, <3>23, <3>24, <3>25, RetainKeepsInv, SMTT(60)
  <2>9. ASSUME NEW t \in Remote, Backfill(t) PROVE HInv'
    <3>1. Retains /\ Entries' = Entries
      BY <2>9, GroupsUnchanged DEF Backfill
    <3>2. CallerType'
      BY <2>0, <2>9 DEF Backfill, CallerType, Txn, groupVars, readerVars, localVars, remoteVars
    <3>3. CallerInv'
      BY <2>9, <3>1 DEF Backfill, HInv, CallerInv, readerVars, localVars, remoteVars
    <3>21. \A u \in Local \cap Entries' : pc'[u] = "waiting"
      BY <2>9, <3>1, SMTT(60)
         DEF Backfill, localVars, remoteVars, HInv, LocalEntryHasTrigger
    <3>22. \A u \in Remote \cap Entries' :
            \/ u \in Entries /\ timer[groupOf[u]] # NoTimer
            \/ timer'[groupOf'[u]] # NoTimer
            \/ toSchedule'[u] > 0
      BY <2>9, <3>1
         DEF Backfill, localVars, remoteVars, HInv, RemoteEntryHasTrigger
    <3>23. \A u \in Remote \cap indexed' : u \in Entries' \cup cleared'
      BY <2>9, <3>1
         DEF Backfill, localVars, remoteVars, HInv, RemoteBindHeldWhenIndexed
    <3>24. \A u \in Local : pc'[u] = "returned" => u \notin Entries' /\ u \notin pendingTx'
      BY <2>9, <3>1
         DEF Backfill, localVars, remoteVars, HInv, ReturnedLeavesNothingBehind
    <3>25. UNCHANGED readerVars
      BY <2>9, SMTT(60)
         DEF Backfill, localVars, remoteVars, HInv
    <3> QED BY <3>1, <3>2, <3>3, <3>21, <3>22, <3>23, <3>24, <3>25, RetainKeepsInv
  <2>10. ASSUME NEW w \in Remote, NEW t \in Txn, Verdict(w, t) PROVE HInv'
    <3>1. PICK S \in SUBSET Txn : Releases(S)
      BY <2>0, <2>10, MakeVisibleReleases DEF Verdict, CallerType
    <3>2. UNCHANGED <<localVars, remoteVars, indexed>>
      BY <2>10, SMTT(60) DEF Verdict
    <3> QED BY <2>0, <3>1, <3>2, ReleaseKeepsInv, SMTT(60) DEF CallerType, localVars
  <2>11. ASSUME NEW x \in Timer, TimerFires(x) PROVE HInv'
    <3>1. GroupInv' /\ Entries' = Entries
      BY <2>0, <2>11 DEF TimerFires, GroupInv, GroupType, GroupsPartitionEntries, Entries,
         CompetitorsShareGroup, TimersFollowGroups, SharesBase
    <3>2. Retains
      BY <2>11, <3>1, ZenonT(60) DEF Retains, TimerFires
    <3>3. CallerType'
      BY <2>0, <2>11, SMTT(60) DEF TimerFires, CallerType, readerVars, localVars, remoteVars
    <3>4. CallerInv'
      BY <2>11, <3>1, SMTT(60) DEF TimerFires, HInv, CallerInv, readerVars, localVars, remoteVars
    <3>21. \A u \in Local \cap Entries' : pc'[u] = "waiting"
      BY <2>11, <3>1, SMTT(60)
         DEF TimerFires, localVars, remoteVars, HInv, LocalEntryHasTrigger
    <3>22. \A u \in Remote \cap Entries' :
            \/ u \in Entries /\ timer[groupOf[u]] # NoTimer
            \/ timer'[groupOf'[u]] # NoTimer
            \/ toSchedule'[u] > 0
      BY <2>11, <3>1, SMTT(60)
         DEF TimerFires, localVars, remoteVars, HInv, RemoteEntryHasTrigger
    <3>23. \A u \in Remote \cap indexed' : u \in Entries' \cup cleared'
      BY <2>11, <3>1, SMTT(60)
         DEF TimerFires, localVars, remoteVars, HInv, RemoteBindHeldWhenIndexed
    <3>24. \A u \in Local : pc'[u] = "returned" => u \notin Entries' /\ u \notin pendingTx'
      BY <2>11, <3>1, SMTT(60)
         DEF TimerFires, localVars, remoteVars, HInv, ReturnedLeavesNothingBehind
    <3>25. UNCHANGED readerVars
      BY <2>11
         DEF TimerFires, localVars, remoteVars, HInv
    <3> QED BY <3>2, <3>3, <3>4, <3>21, <3>22, <3>23, <3>24, <3>25, RetainKeepsInv, SMTT(60)
  <2>12. ASSUME NEW x \in Timer, TimerCallback(x) PROVE HInv'
    <3> DEFINE ph == [phase EXCEPT ![x] = "idle"]
    <3>1. phase[x] = "fired" /\ UNCHANGED <<localVars, remoteVars, indexed>>
      BY <2>12, SMTT(60) DEF TimerCallback
    <3>2. timerGroup[x] \in Group
      BY <2>0, <3>1, SMTT(60) DEF GroupInv, TimersFollowGroups
    <3>3. CASE timer[timerGroup[x]] = x
      <4>1. timerGroup[x] \in groups
        BY <2>0, <3>2, <3>3, SMTT(60) DEF GroupInv, TimersFollowGroups
      <4>2. MakeGroupVisible(timerGroup[x], ph)
        BY <2>12, <3>3, SMTT(60) DEF TimerCallback
      <4>3. Releases(members[timerGroup[x]])
        BY <2>0, <3>1, <3>3, <4>1, <4>2, PromoteReleases
      <4>4. members[timerGroup[x]] \in SUBSET Txn
        BY <2>0, <3>2, SMTT(60) DEF GroupInv, GroupType
      <4> QED BY <2>0, <3>1, <4>3, <4>4, ReleaseKeepsInv, SMTT(60) DEF CallerType, localVars
    <3>4. CASE timer[timerGroup[x]] # x
      <4>1. /\ phase' = ph
            /\ UNCHANGED <<groups, members, bases, timer, groupOf, timerGroup,
                            readerVars, pendingTx, cleared>>
        BY <2>12, <3>4, ZenonT(60) DEF TimerCallback
      <4>2. \A g \in Group : timer[g] # x
        BY <2>0, <3>4, SMTT(60) DEF GroupInv, TimersFollowGroups
      <4>3. GroupInv' /\ Entries' = Entries
        BY <2>0, <4>1, <4>2 DEF GroupInv, GroupType, GroupsPartitionEntries, Entries,
           CompetitorsShareGroup, TimersFollowGroups, SharesBase
      <4>4. Retains
        BY <4>1, <4>3, Zenon DEF Retains
      <4>5. CallerType'
        BY <2>0, <3>1, <4>1, SMTT(60) DEF CallerType, readerVars, localVars, remoteVars
      <4>6. CallerInv'
        BY <3>1, <4>1, <4>3 DEF HInv, CallerInv, readerVars, localVars, remoteVars
      <4>21. \A u \in Local \cap Entries' : pc'[u] = "waiting"
        BY <3>1, <4>3, SMTT(60)
           DEF localVars, remoteVars, HInv, LocalEntryHasTrigger
      <4>22. \A u \in Remote \cap Entries' :
              \/ u \in Entries /\ timer[groupOf[u]] # NoTimer
              \/ timer'[groupOf'[u]] # NoTimer
              \/ toSchedule'[u] > 0
        BY <3>1, <4>3
           DEF localVars, remoteVars, HInv, RemoteEntryHasTrigger
      <4>23. \A u \in Remote \cap indexed' : u \in Entries' \cup cleared'
        BY <3>1, <4>1, <4>3
           DEF localVars, remoteVars, HInv, RemoteBindHeldWhenIndexed
      <4>24. \A u \in Local : pc'[u] = "returned" => u \notin Entries' /\ u \notin pendingTx'
        BY <3>1, <4>1, <4>3
           DEF localVars, remoteVars, HInv, ReturnedLeavesNothingBehind
      <4>25. UNCHANGED readerVars
        BY <4>1
           DEF localVars, remoteVars, HInv
      <4> QED BY <4>4, <4>5, <4>6, <4>21, <4>22, <4>23, <4>24, <4>25, RetainKeepsInv
    <3> QED BY <3>3, <3>4, SMTT(60)
  <2>13. ASSUME NEW r \in Reader, NEW t \in Txn, WaitForClear(r, t) PROVE HInv'
    <3>1. Retains /\ Entries' = Entries
      BY <2>13, GroupsUnchanged DEF WaitForClear
    <3>2. /\ t \in Entries
          /\ r \notin blocked
          /\ waiters' = [waiters EXCEPT ![t] = @ \cup {r}]
          /\ blocked' = blocked \cup {r}
          /\ UNCHANGED <<groupVars, localVars, remoteVars, pendingTx, indexed, cleared>>
      BY <2>13, SMTT(60) DEF WaitForClear
    <3>3. CallerType'
      BY <2>0, <3>2 DEF CallerType, groupVars, localVars, remoteVars
    <3>4. BlockedReaderHasEntry'
      BY <3>1, <3>2, SMTT(60) DEF HInv, CallerType, BlockedReaderHasEntry
    <3>5. CallerInv'
      <4>1. \A u \in Txn : r \notin waiters[u]
        BY <3>2, SMTT(60) DEF HInv, CallerType, BlockedReaderHasEntry
      <4>2. ASSUME NEW u \in Txn, NEW v \in Txn, u # v
            PROVE  waiters'[u] \cap waiters'[v] = {}
        BY <3>2, <4>1, <4>2, SMTT(60) DEF HInv, CallerInv, CallerType
      <4> QED BY <3>1, <3>2, <4>2, SMTT(60) DEF HInv, CallerInv, localVars, remoteVars
    <3>6. GroupInv'
      BY <3>1 DEF Retains
    <3>7. RemoteEntryHasTrigger' /\ LocalEntryHasTrigger'
      BY <3>1, <3>2, Zenon DEF HInv, RemoteEntryHasTrigger, LocalEntryHasTrigger,
                        groupVars, localVars, remoteVars
    <3>8. RemoteBindHeldWhenIndexed' /\ ReturnedLeavesNothingBehind'
      BY <3>1, <3>2 DEF HInv, RemoteBindHeldWhenIndexed, ReturnedLeavesNothingBehind,
                        localVars
    <3> QED BY <3>3, <3>4, <3>5, <3>6, <3>7, <3>8 DEF HInv
  <2>14. CASE UNCHANGED vars
    <3>1. UNCHANGED groupVars /\ UNCHANGED <<readerVars, localVars, remoteVars>>
          /\ UNCHANGED <<pendingTx, indexed, cleared>>
      BY <2>14 DEF vars
    <3>2. Retains /\ Entries' = Entries
      BY <3>1, GroupsUnchanged
    <3>3. CallerType'
      BY <2>0, <3>1, SMTT(60) DEF CallerType, readerVars, localVars, remoteVars
    <3>4. CallerInv'
      BY <3>1, <3>2, SMTT(60) DEF HInv, CallerInv, readerVars, localVars, remoteVars
    <3>5. RemoteEntryHasTrigger' /\ LocalEntryHasTrigger'
      BY <3>1, <3>2, SMTT(60) DEF HInv, RemoteEntryHasTrigger, LocalEntryHasTrigger,
                        groupVars, localVars, remoteVars
    <3>6. BlockedReaderHasEntry'
      BY <3>1, <3>2 DEF HInv, BlockedReaderHasEntry, readerVars
    <3>7. RemoteBindHeldWhenIndexed' /\ ReturnedLeavesNothingBehind'
      BY <3>1, <3>2, SMTT(60) DEF HInv, RemoteBindHeldWhenIndexed, ReturnedLeavesNothingBehind, localVars
    <3>8. GroupInv'
      BY <3>2 DEF Retains
    <3> QED BY <3>3, <3>4, <3>5, <3>6, <3>7, <3>8 DEF HInv
  <2> QED BY <2>1, <2>2, <2>3, <2>4, <2>5, <2>6, <2>7, <2>8, <2>9, <2>10, <2>11, <2>12,
             <2>13, <2>14 DEF Next, LocalStep
<1> QED BY <1>1, <1>2, PTL DEF Spec

-----------------------------------------------------------------------------
(* What the invariant gives *)

\* The state of the horizon and of its callers stays well typed.
THEOREM HorizonTypeCorrect == Spec => []TypeOK
<1>1. HInv => TypeOK
  BY DEF HInv, GroupInv, TypeOK
<1> QED BY <1>1, Invariance, PTL

\* HorizonSet.Add keeps entries and groups linked both ways, and binds that share
\* a consumed tip wait in the same group, aborted linking binds included.
THEOREM CompetitorsNeverSplit ==
  Spec => [](GroupsPartitionEntries /\ CompetitorsShareGroup)
<1>1. HInv => GroupsPartitionEntries /\ CompetitorsShareGroup
  BY DEF HInv, GroupInv
<1> QED BY <1>1, Invariance, PTL

\* No merge, abort, redelivery or stale timer leaves a held bind without something
\* that will release it: ScheduleMakeVisible's timer or its own flushTx.
THEOREM HeldBindsHaveTriggers ==
  Spec => [](RemoteEntryHasTrigger /\ LocalEntryHasTrigger /\ TimersFollowGroups)
<1>1. HInv => RemoteEntryHasTrigger /\ LocalEntryHasTrigger /\ TimersFollowGroups
  BY DEF HInv, GroupInv
<1> QED BY <1>1, Invariance, PTL

\* A reader blocked in WaitForClear waits on the ready channel of a live entry.
THEOREM ReadersWaitOnLiveEntries == Spec => []BlockedReaderHasEntry
<1>1. HInv => BlockedReaderHasEntry
  BY DEF HInv
<1> QED BY <1>1, Invariance, PTL

\* handleRemoteBind never exposes a bind to readers before the horizon holds it.
THEOREM RemoteBindsHeld == Spec => []RemoteBindHeldWhenIndexed
<1>1. HInv => RemoteBindHeldWhenIndexed
  BY DEF HInv
<1> QED BY <1>1, Invariance, PTL

\* After flushTx of a replicated transaction returns, neither the horizon nor
\* pendingTxTips knows the transaction.
THEOREM FlushLeavesNothingBehind == Spec => []ReturnedLeavesNothingBehind
<1>1. HInv => ReturnedLeavesNothingBehind
  BY DEF HInv
<1> QED BY <1>1, Invariance, PTL

\* Releasing whole groups never separates two competing binds.
LEMMA WholeGroupsNeverSplitCompetitors ==
  ASSUME GroupInv, NEW S, S = {} \/ \E g \in groups : S = members[g],
         NEW a \in S, NEW b \in Entries \ S, SharesBase(a, b)
  PROVE  FALSE
<1>1. PICK g \in groups : S = members[g]
  OBVIOUS
<1>2. g \in Group /\ b \in Txn /\ groupOf[b] \in Group /\ groupOf[b] # g
  BY <1>1 DEF GroupInv, GroupType, GroupsPartitionEntries, Entries
<1>3. groupOf[b] \in groups /\ b \in bases[groupOf[b]] /\ a \in bases[g]
  BY <1>1, <1>2 DEF GroupInv, GroupType, GroupsPartitionEntries
<1> QED BY <1>2, <1>3 DEF GroupInv, CompetitorsShareGroup

\* MakeVisible and the fallback timer promote competing binds in one step; only
\* the abort of its own flushTx takes a bind out alone.
THEOREM PromotionIsAtomic == Spec => CompetitorsPromotedTogether
<1> DEFINE Together == \A a, b \in Entries :
       SharesBase(a, b) /\ a \notin Entries' /\ b \in Entries'
         => a \in Local /\ decision[a] \in {"aborted", "ambiguous"}
<1>1. HInv /\ [Next]_vars => [Together]_vars
  <2> SUFFICES ASSUME HInv, Next, NEW a \in Entries, NEW b \in Entries,
                      SharesBase(a, b), a \notin Entries', b \in Entries'
               PROVE  a \in Local /\ decision[a] \in {"aborted", "ambiguous"}
    BY DEF vars
  <2>0. GroupInv /\ CallerType
    BY DEF HInv
  <2>1. ASSUME NEW S, Releases(S) PROVE Entries' = Entries \ S
    BY <2>1, HorizonAssumption DEF Releases, Resolve, Entries
  <2>2. ASSUME NEW S, Releases(S), S = {} \/ \E g \in groups : S = members[g]
        PROVE  FALSE
    BY <2>0, <2>1, <2>2, WholeGroupsNeverSplitCompetitors, SMTT(60)
  <2>3. ASSUME NEW t \in Local, LocalReturn(t)
        PROVE  a \in Local /\ decision[a] \in {"aborted", "ambiguous"}
    <3>1. t \in Txn /\ waiters \in [Txn -> SUBSET Reader]
      BY <2>0 DEF Txn, CallerType
    <3>2. CASE decision[t] = "committed"
      BY <2>0, <2>2, <2>3, <3>1, <3>2, MakeVisibleReleases DEF LocalReturn
    <3>3. CASE decision[t] # "committed"
      <4>1. PICK S \in SUBSET Txn : Releases(S) /\ S \subseteq {t}
        BY <2>0, <2>3, <3>1, <3>3, AbortReleases DEF LocalReturn
      <4>2. a = t
        BY <4>1, <2>1
      <4> QED BY <2>0, <2>3, <3>3, <4>2 DEF LocalReturn, CallerType, Outcomes
    <3> QED BY <3>2, <3>3
  <2>4. ASSUME NEW w \in Remote, NEW t \in Txn, Verdict(w, t) PROVE FALSE
    <3>1. waiters \in [Txn -> SUBSET Reader] /\ MakeVisible(t)
      BY <2>0, <2>4 DEF CallerType, Verdict
    <3> QED BY <2>0, <2>2, <3>1, MakeVisibleReleases
  <2>5. ASSUME NEW x \in Timer, TimerCallback(x) PROVE FALSE
    <3>1. phase[x] = "fired" /\ timerGroup[x] \in Group
      BY <2>0, <2>5 DEF TimerCallback, GroupInv, TimersFollowGroups
    <3>2. /\ timer[timerGroup[x]] = x
          /\ MakeGroupVisible(timerGroup[x], [phase EXCEPT ![x] = "idle"])
      <4>1. groupOf' # groupOf
        BY DEF Entries
      <4> QED BY <2>5, <4>1 DEF TimerCallback
    <3>3. timerGroup[x] \in groups
      <4>1. TimersFollowGroups /\ x # NoTimer
        BY <2>0, HorizonAssumption, Zenon DEF GroupInv
      <4> QED BY <3>1, <3>2, <4>1, ZenonT(60) DEF TimersFollowGroups
    <3>4. Releases(members[timerGroup[x]])
      BY <2>0, <3>1, <3>2, <3>3, PromoteReleases
    <3> QED BY <2>2, <3>3, <3>4
  <2>6. ASSUME Retains PROVE FALSE
    BY <2>6 DEF Retains
  <2>7. ASSUME UNCHANGED groupVars PROVE FALSE
    BY <2>7 DEF groupVars, Entries
  <2>8. ASSUME NEW t \in Local, LocalAdd(t) PROVE FALSE
    BY <2>0, <2>8, AddRetains DEF LocalAdd, Txn
  <2>9. ASSUME NEW t \in Remote, RemoteBindAdd(t) PROVE FALSE
    BY <2>0, <2>9, AddRetains DEF RemoteBindAdd, Txn
  <2>10. ASSUME NEW t \in Remote, RemoteBindSchedule(t) PROVE FALSE
    BY <2>0, <2>6, <2>10, ScheduleRetains DEF RemoteBindSchedule, Txn
  <2>11. ASSUME NEW x \in Timer, TimerFires(x) PROVE FALSE
    BY <2>11 DEF TimerFires, Entries
  <2> QED BY <2>3, <2>4, <2>5, <2>7, <2>8, <2>9, <2>10, <2>11, ZenonT(60)
        DEF Next, LocalStep, LocalPublish, LocalCommitAlone, LocalDecide, RemoteBindIndex,
            Backfill, WaitForClear
<1> QED BY <1>1, Invariance, PTL DEF Spec, CompetitorsPromotedTogether

\* No lock section other than its own callback recalls a timer that has fired.
LEMMA FiredStaysFired ==
  ASSUME GroupType, NEW x \in Timer, phase[x] = "fired", NEW t \in Txn,
         \/ Add(t) \/ ScheduleMakeVisible(t) \/ MakeVisible(t) \/ Abort(t)
         \/ UNCHANGED groupVars
  PROVE  phase'[x] = "fired"
<1>2. CASE Add(t)
  BY <1>2 DEF Add, NewGroup, MergeInto, SetTimerGroup, PruneGroups, Stop, groupVars
<1>3. CASE ScheduleMakeVisible(t)
  BY <1>3, Zenon DEF ScheduleMakeVisible, Stop, GroupType, groupVars
<1>4. CASE MakeVisible(t)
  <2>1. CASE UNCHANGED groupVars
    BY <2>1, Zenon DEF groupVars
  <2>2. CASE MakeGroupVisible(groupOf[t], phase)
    BY <2>2, ZenonT(60) DEF MakeGroupVisible, PruneGroups, Stop
  <2> QED BY <1>4, <2>1, <2>2, Zenon DEF MakeVisible
<1>5. CASE Abort(t)
  BY <1>5 DEF Abort, PruneGroups, Stop, groupVars
<1>6. CASE UNCHANGED groupVars
  BY <1>6 DEF groupVars
<1> QED BY <1>2, <1>3, <1>4, <1>5, <1>6, ZenonT(60)

\* The callback of a timer that was stopped or replaced after it fired resolves
\* no entry (ScheduleMakeVisible's check of group.timer under the lock).
THEOREM StaleTimersInert == Spec => StaleTimerIsInert
<1> DEFINE Inert == \A x \in Timer :
       /\ phase[x] = "fired"
       /\ phase'[x] = "idle"
       /\ \A g \in groups : timer[g] # x
       => UNCHANGED <<groups, members, groupOf, pendingTx, blocked>>
<1>1. HInv /\ [Next]_vars => [Inert]_vars
  <2> SUFFICES ASSUME HInv, Next, NEW x \in Timer, phase[x] = "fired", phase'[x] = "idle",
                      \A g \in groups : timer[g] # x
               PROVE  UNCHANGED <<groups, members, groupOf, pendingTx, blocked>>
    BY DEF vars
  <2>0. GroupInv /\ CallerType
    BY SMTT(60) DEF HInv
  <2>1. ASSUME NEW t \in Txn,
               \/ Add(t) \/ ScheduleMakeVisible(t) \/ MakeVisible(t) \/ Abort(t)
               \/ UNCHANGED groupVars
        PROVE  FALSE
    BY <2>0, <2>1, FiredStaysFired DEF GroupInv
  <2>2. ASSUME NEW y \in Timer, TimerFires(y) PROVE FALSE
    BY <2>2, SMTT(60) DEF TimerFires, GroupInv, GroupType
  <2>3. ASSUME NEW y \in Timer, TimerCallback(y)
        PROVE  UNCHANGED <<groups, members, groupOf, pendingTx, blocked>>
    <3>1. y = x
      <4> SUFFICES ASSUME y # x PROVE phase'[x] = "fired"
        OBVIOUS
      <4> QED BY <2>0, <2>3
            DEF TimerCallback, MakeGroupVisible, PruneGroups, Stop, GroupInv, GroupType
    <3>2. timerGroup[x] \in Group
      BY <2>0 DEF GroupInv, TimersFollowGroups
    <3>3. timer[timerGroup[x]] # x
      BY <2>0, HorizonAssumption DEF GroupInv, TimersFollowGroups
    <3> QED BY <2>3, <3>1, <3>3 DEF TimerCallback, readerVars
  <2>4. \A t \in Txn : ~ UNCHANGED groupVars
    BY <2>1
  <2>5. ASSUME NEW t \in Local, LocalPublish(t) \/ LocalStep(t) PROVE FALSE
    <3>1. t \in Txn
      BY DEF Txn
    <3>2. LocalPublish(t) => UNCHANGED groupVars
      BY DEF LocalPublish
    <3>3. LocalCommitAlone(t) => UNCHANGED groupVars
      BY DEF LocalCommitAlone
    <3>4. ASSUME NEW d \in Outcomes, LocalDecide(t, d) PROVE UNCHANGED groupVars
      BY <3>4 DEF LocalDecide
    <3>5. LocalAdd(t) => Add(t)
      BY DEF LocalAdd
    <3>6. LocalReturn(t) => MakeVisible(t) \/ Abort(t)
      BY DEF LocalReturn
    <3> QED BY <2>1, <2>5, <3>1, <3>2, <3>3, <3>4, <3>5, <3>6, ZenonT(60) DEF LocalStep
  <2>6. ASSUME NEW t \in Remote,
               RemoteBindAdd(t) \/ RemoteBindSchedule(t) \/ RemoteBindIndex(t) \/ Backfill(t)
        PROVE  FALSE
    BY <2>1, <2>6 DEF RemoteBindAdd, RemoteBindSchedule, RemoteBindIndex, Backfill, Txn
  <2>7. ASSUME NEW w \in Remote, NEW t \in Txn, Verdict(w, t) PROVE FALSE
    BY <2>1, <2>7 DEF Verdict
  <2>8. ASSUME NEW r \in Reader, NEW t \in Txn, WaitForClear(r, t) PROVE FALSE
    BY <2>1, <2>8 DEF WaitForClear
  <2> QED BY <2>2, <2>3, <2>5, <2>6, <2>7, <2>8, ZenonT(60) DEF Next
<1> QED BY <1>1, Invariance, PTL DEF Spec, StaleTimerIsInert

\* The bookkeeping of the horizon set holds together in every interleaving of
\* its callers, for any number of transactions, groups, timers and readers
\* (HorizonConsistent).
THEOREM BookkeepingHolds == Spec => []HorizonConsistent
<1>1. HInv => HorizonConsistent
  BY DEF HInv, GroupInv, HorizonConsistent, TypeOK
<1> QED BY <1>1, Invariance, PTL
=============================================================================
