SPECIFICATION FairSpec
CONSTANTS
  p1 = p1
  p2 = p2
  p3 = p3
  s1 = s1
  s2 = s2
  l1 = l1
  l2 = l2
  NoPlayer = NoPlayer
  Players = {p1, p2, p3}
  Slots = {s1, s2}
  Bannable = {p1}
  MaxImmediates = 1
  Launchers = {l1}
  MaxCrashes = 0
INVARIANTS
  NoLostWakeup
  LaunchIsUndisturbed
PROPERTIES
  RefinesRoster
  ResetDropsOnlyLaunched
  StatesEnd
