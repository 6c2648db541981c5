SPECIFICATION Spec
CONSTANTS
  l1 = l1
  r1 = r1
  r2 = r2
  p = p
  q = q
  Local <- MCLocal
  Remote <- MCRemote
  Tip <- MCTip
  Base <- MCBase
  AbortDeps <- MCAbortDeps
  Defeated <- MCDefeated
  Group = {g1, g2, g3}
  Timer = {x1, x2}
  Reader = {rd}
  NoGroup = NoGroup
  NoTimer = NoTimer
  MaxDeliveries = 2
INVARIANTS
    
    CompetitorsShareGroup
    RemoteEntryHasTrigger
PROPERTIES
    CompetitorsPromotedTogether
    StaleTimerIsInert
SYMMETRY Symmetry
