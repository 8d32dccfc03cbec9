CONSTANTS
  home = home
  away = away
  Regional = {b}
  Regions = {home, away}
  HomeRegion = home
  Clouds <- TwoRegions
  MaxSwitches = 1
  plain = a
  hiding = b
  ConsoleUses <- AllUses
  a = a
  b = b
  j1 = j1
  j2 = j2
  f1 = f1
  f2 = f2
  Clusters = {a, b}
  Jobs = {j1, j2}
  Filters = {f1, f2}
  None = None
  Error = Error
  Silent = Silent
  MaxFlight = 2
  MaxFails = 1
  Uses <- SomeUses
SPECIFICATION PageSpec
INVARIANTS
  SelectionFollowsUrl
  StaleOnlyFromLateAnswers
  WaitsHaveCauses
  TabsShowWhatWasAsked
PROPERTIES
  ActionShowsOutcome
CHECK_DEADLOCK FALSE
